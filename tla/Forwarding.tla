---------------------------- MODULE Forwarding ----------------------------
(***************************************************************************)
(* The forwarding actions of contracts/system.entry.cpp: users call the    *)
(* system contract `eosio` through this contract and pay, or are paid, in  *)
(* XYZ.  A call that costs EOS swaps XYZ for it first; a call that pays    *)
(* EOS swaps the EOS back last; a call that moves no EOS is passed on.     *)
(* All of it is inline actions of one transaction, executed as in          *)
(* SwapContract; `eosio` is module MockSystem.                             *)
(***************************************************************************)
EXTENDS MockSystem

SwapsBefore == {"bidname", "buyram", "buyramburn", "buyramself", "buyrambytes",
                "deposit", "powerup", "delegatebw", "donatetorex"}
SwapsAfter == {"bidrefund", "sellram", "withdraw", "refund", "claimrewards"}
PassedOn == {"ramburn", "ramtransfer", "mvfrsavings", "mvtosavings", "sellrex",
             "newaccount", "newaccount2", "voteproducer", "voteupdate", "linkauth",
             "unlinkauth", "updateauth", "deleteauth", "setabi", "setcode",
             "giftram", "ungiftram"}
PassedOnInEos == {"buyrex", "undelegatebw", "unstaketorex"}
ForwardingKinds ==
    SwapsBefore \cup SwapsAfter \cup PassedOn \cup PassedOnInEos
        \cup {"swaptrace", "enforcebal", "swapexcess", "noop"}

ASSUME KindsAssumption == OtherKinds = ForwardingKinds \cup SystemKinds

-----------------------------------------------------------------------------
(* Execution                                                               *)

\* Who follows the actions subtracts and adds what they say.
Track(from, to, amt) ==
    tracked' = [tracked EXCEPT ![from] = @ - amt, ![to] = @ + amt]

\* An action of SwapContract.
TokenStep(a) ==
    /\ Execute(a)
    /\ CASE a.kind = "transfer" -> Track(a.from, a.to, a.amt)
         [] a.kind = "init" -> tracked' = [tracked EXCEPT ![Self] = @ + a.amt]
         [] OTHER -> UNCHANGED tracked
    /\ UNCHANGED systemTables
    /\ Recorded

-----------------------------------------------------------------------------
(* Swapping before and after a call                                        *)

SwapTrace(a, account, amt) ==
    Inline(a, "swaptrace", account, Self, "XYZ", amt, {Self})

\* swap_before_forwarding(account, amt), account being the one that pays for a.
SwapBeforeOk(a, amt) ==
    /\ a.from \in a.auth
    /\ EnforceSymbol(a.sym)
    /\ amt > 0
    /\ CanDebit(a.from, amt)

\* Mutants: the swap is not traced; the EOS is not paid out.
SwapBeforeUntraced(a, amt, calls) ==
    /\ SwapBeforeOk(a, amt)
    /\ MoveXyz(a.from, Self, amt, Self)
    /\ UNCHANGED <<eos, blocked, supply, donated, systemTables, tracked>>
    /\ Finish(CreditEos(a, a.from, amt) \o calls)

SwapBeforeUnpaid(a, amt, calls) ==
    /\ SwapBeforeOk(a, amt)
    /\ MoveXyz(a.from, Self, amt, Self)
    /\ UNCHANGED <<eos, blocked, supply, donated, systemTables, tracked>>
    /\ Finish(<<SwapTrace(a, a.from, amt)>> \o calls)

\* Mutant: eosio is called before the EOS is paid out.
SwapBeforeCallsFirst(a, amt, calls) ==
    /\ SwapBeforeOk(a, amt)
    /\ MoveXyz(a.from, Self, amt, Self)
    /\ UNCHANGED <<eos, blocked, supply, donated, systemTables, tracked>>
    /\ Finish(<<SwapTrace(a, a.from, amt)>> \o calls \o CreditEos(a, a.from, amt))

SwapBefore(a, amt, calls) ==
    /\ SwapBeforeOk(a, amt)
    /\ MoveXyz(a.from, Self, amt, Self)
    /\ UNCHANGED <<eos, blocked, supply, donated, systemTables, tracked>>
    /\ Finish(<<SwapTrace(a, a.from, amt)>> \o CreditEos(a, a.from, amt) \o calls)

\* swap_after_forwarding(account, amt)
SwapAfter(a, account, amt) ==
    <<Inline(a, "eosio.token::transfer", account, Self, "EOS", amt, {account})>>

SwaptraceOk(a) == Self \in a.auth

Swaptrace(a) ==
    /\ a.kind = "swaptrace"
    /\ SwaptraceOk(a)
    /\ Track(a.from, Self, a.amt)
    /\ UNCHANGED <<tables, systemTables>>
    /\ Finish(<<>>)

\* Mutant: anybody may swap an account's EOS "back".
SwapexcessUnsigned(a) == a.sym = "EOS"

\* swapexcess: amt is the EOS balance that the account had before.
SwapexcessOk(a) == Self \in a.auth /\ a.sym = "EOS"

Swapexcess(a) ==
    /\ a.kind = "swapexcess"
    /\ SwapexcessOk(a)
    /\ UNCHANGED <<tables, systemTables, tracked>>
    /\ Finish(IF eos[a.from] > a.amt THEN SwapAfter(a, a.from, eos[a.from] - a.amt)
                                    ELSE <<>>)

\* Mutant: only a loss of EOS is refused.
EnforcebalAtLeast(a) == a.sym = "EOS" /\ eos[a.from] >= a.amt

\* enforcebal: amt is the expected EOS balance.
EnforcebalOk(a) == a.sym = "EOS" /\ eos[a.from] = a.amt

Enforcebal(a) ==
    /\ a.kind = "enforcebal"
    /\ EnforcebalOk(a)
    /\ UNCHANGED <<tables, systemTables, tracked>>
    /\ Finish(<<>>)

-----------------------------------------------------------------------------
(* Calls that are paid for in XYZ                                          *)

\* The call of eosio with the same arguments, and with amounts in EOS.
PassedCall(a, kind) ==
    <<[Inline(a, kind, a.from, a.to, a.sym, a.amt, {a.from}) EXCEPT !.more = a.more]>>

Forward(a, kind, amt) ==
    <<[Inline(a, kind, a.from, a.to, "EOS", amt, {a.from}) EXCEPT !.more = a.more]>>

\* swapexcess with the balance read before anything is swapped.
SwapsExcess(a) ==
    <<Inline(a, "swapexcess", a.from, Self, "EOS", eos[a.from], {Self})>>

Bidname(a) ==
    a.kind = "bidname" /\ SwapBefore(a, a.amt, Forward(a, "eosio::bidname", a.amt))

Buyram(a) ==
    a.kind = "buyram" /\ SwapBefore(a, a.amt, Forward(a, "eosio::buyram", a.amt))

Buyramburn(a) ==
    a.kind = "buyramburn"
        /\ SwapBefore(a, a.amt, Forward(a, "eosio::buyramburn", a.amt))

Buyramself(a) ==
    a.kind = "buyramself"
        /\ SwapBefore(a, a.amt, Forward(a, "eosio::buyramself", a.amt))

Deposit(a) ==
    a.kind = "deposit" /\ SwapBefore(a, a.amt, Forward(a, "eosio::deposit", a.amt))

Donatetorex(a) ==
    a.kind = "donatetorex"
        /\ SwapBefore(a, a.amt, Forward(a, "eosio::donatetorex", a.amt))

\* amt is net, more is cpu.
Delegatebw(a) ==
    a.kind = "delegatebw"
        /\ SwapBefore(a, a.amt + a.more, Forward(a, "eosio::delegatebw", a.amt))

\* Mutant: the balance is taken after the swap.
PowerupExcessAfterSwap(a) ==
    a.kind = "powerup"
        /\ SwapBefore(a, a.amt, Forward(a, "eosio::powerup", a.amt) \o
               <<Inline(a, "swapexcess", a.from, Self, "EOS", eos[a.from] + a.amt, {Self})>>)

Powerup(a) ==
    a.kind = "powerup"
        /\ SwapBefore(a, a.amt, Forward(a, "eosio::powerup", a.amt) \o SwapsExcess(a))

\* amt is the number of bytes; what they cost is worked out once more by eosio.
Buyrambytes(a) ==
    a.kind = "buyrambytes"
        /\ \E cost \in RamCosts(a.amt) :
               SwapBefore(a, cost,
                   Forward(a, "eosio::buyrambytes", a.amt) \o
                   <<Inline(a, "enforcebal", a.from, Self, "EOS", eos[a.from], {a.from})>>)

-----------------------------------------------------------------------------
(* Calls that pay EOS                                                      *)

\* Mutant: the excess is swapped before eosio has paid it.
SwapExcessAndCall(a, kind) ==
    /\ a.from \in a.auth
    /\ UNCHANGED <<tables, systemTables, tracked>>
    /\ Finish(SwapsExcess(a) \o Forward(a, kind, a.amt))

CallAndSwapExcess(a, kind) ==
    /\ a.from \in a.auth
    /\ UNCHANGED <<tables, systemTables, tracked>>
    /\ Finish(Forward(a, kind, a.amt) \o SwapsExcess(a))

Bidrefund(a) == a.kind = "bidrefund" /\ CallAndSwapExcess(a, "eosio::bidrefund")

Sellram(a) == a.kind = "sellram" /\ CallAndSwapExcess(a, "eosio::sellram")

Refund(a) == a.kind = "refund" /\ CallAndSwapExcess(a, "eosio::refund")

Claimrewards(a) ==
    a.kind = "claimrewards" /\ CallAndSwapExcess(a, "eosio::claimrewards")

WithdrawOk(a) == a.from \in a.auth /\ EnforceSymbol(a.sym) /\ a.amt > 0

\* Mutant: the EOS is not swapped.
WithdrawUnswapped(a) ==
    /\ a.kind = "withdraw"
    /\ WithdrawOk(a)
    /\ UNCHANGED <<tables, systemTables, tracked>>
    /\ Finish(Forward(a, "eosio::withdraw", a.amt))

Withdraw(a) ==
    /\ a.kind = "withdraw"
    /\ WithdrawOk(a)
    /\ UNCHANGED <<tables, systemTables, tracked>>
    /\ Finish(Forward(a, "eosio::withdraw", a.amt) \o SwapAfter(a, a.from, a.amt))

-----------------------------------------------------------------------------
(* Calls that move no EOS                                                  *)

\* Mutant: the account named first need not have signed.
PassOnUnsigned(a, kind) ==
    /\ UNCHANGED <<tables, systemTables, tracked>>
    /\ Finish(PassedCall(a, kind))

\* Check the signature and call eosio with the same arguments.
PassOn(a, kind) ==
    /\ a.from \in a.auth
    /\ UNCHANGED <<tables, systemTables, tracked>>
    /\ Finish(PassedCall(a, kind))

Ramburn(a) == a.kind = "ramburn" /\ PassOn(a, "eosio::ramburn")

Ramtransfer(a) == a.kind = "ramtransfer" /\ PassOn(a, "eosio::ramtransfer")

Mvfrsavings(a) == a.kind = "mvfrsavings" /\ PassOn(a, "eosio::mvfrsavings")

Mvtosavings(a) == a.kind = "mvtosavings" /\ PassOn(a, "eosio::mvtosavings")

Sellrex(a) == a.kind = "sellrex" /\ PassOn(a, "eosio::sellrex")

\* newaccount2 makes the authorities of its key.
Newaccount(a) ==
    a.kind \in {"newaccount", "newaccount2"} /\ PassOn(a, "eosio::newaccount")

Voteproducer(a) == a.kind = "voteproducer" /\ PassOn(a, "eosio::voteproducer")

Voteupdate(a) == a.kind = "voteupdate" /\ PassOn(a, "eosio::voteupdate")

Linkauth(a) == a.kind = "linkauth" /\ PassOn(a, "eosio::linkauth")

Unlinkauth(a) == a.kind = "unlinkauth" /\ PassOn(a, "eosio::unlinkauth")

Updateauth(a) == a.kind = "updateauth" /\ PassOn(a, "eosio::updateauth")

Deleteauth(a) == a.kind = "deleteauth" /\ PassOn(a, "eosio::deleteauth")

Setabi(a) == a.kind = "setabi" /\ PassOn(a, "eosio::setabi")

Setcode(a) == a.kind = "setcode" /\ PassOn(a, "eosio::setcode")

Giftram(a) == a.kind = "giftram" /\ PassOn(a, "eosio::giftram")

Ungiftram(a) == a.kind = "ungiftram" /\ PassOn(a, "eosio::ungiftram")

Noop(a) ==
    /\ a.kind = "noop"
    /\ UNCHANGED <<tables, systemTables, tracked>>
    /\ Finish(<<>>)

\* The EOS is in eosio already, or stays there: only the symbol is exchanged.
PassOnInEosOk(a) == a.from \in a.auth /\ EnforceSymbol(a.sym)

PassOnInEos(a, kind) ==
    /\ PassOnInEosOk(a)
    /\ UNCHANGED <<tables, systemTables, tracked>>
    /\ Finish(Forward(a, kind, a.amt))

Buyrex(a) == a.kind = "buyrex" /\ PassOnInEos(a, "eosio::buyrex")

Undelegatebw(a) == a.kind = "undelegatebw" /\ PassOnInEos(a, "eosio::undelegatebw")

Unstaketorex(a) == a.kind = "unstaketorex" /\ PassOnInEos(a, "eosio::unstaketorex")

-----------------------------------------------------------------------------
\* These send no inline action, swapexcess only when there is an excess.
SendsNothing(a) ==
    \/ a.kind \in {"swaptrace", "enforcebal", "noop"}
    \/ a.kind = "swapexcess" /\ eos[a.from] <= a.amt
    \/ SendsNoEos(a)

ForwardingAccepted(a) ==
    IF a.kind \notin OtherKinds THEN Accepted(a)
    ELSE /\ SendsNothing(a) \/ a.depth < MaxInlineDepth
         /\ CASE a.kind = "buyrambytes" ->
                     \A cost \in RamCosts(a.amt) : SwapBeforeOk(a, cost)
              [] a.kind = "delegatebw" -> SwapBeforeOk(a, a.amt + a.more)
              [] a.kind \in SwapsBefore \ {"buyrambytes", "delegatebw"} ->
                     SwapBeforeOk(a, a.amt)
              [] a.kind \in PassedOn \cup (SwapsAfter \ {"withdraw"}) -> a.from \in a.auth
              [] a.kind \in PassedOnInEos -> PassOnInEosOk(a)
              [] a.kind = "withdraw" -> WithdrawOk(a)
              [] a.kind = "swaptrace" -> SwaptraceOk(a)
              [] a.kind = "enforcebal" -> EnforcebalOk(a)
              [] a.kind = "swapexcess" -> SwapexcessOk(a)
              [] OTHER -> SystemAccepted(a)

ForwardingExecute(a) ==
    \/ TokenStep(a)
    \/ Bidname(a) \/ Buyram(a) \/ Buyramburn(a) \/ Buyramself(a) \/ Buyrambytes(a)
    \/ Deposit(a) \/ Powerup(a) \/ Delegatebw(a) \/ Donatetorex(a)
    \/ Bidrefund(a) \/ Sellram(a) \/ Refund(a) \/ Claimrewards(a) \/ Withdraw(a)
    \/ Buyrex(a) \/ Undelegatebw(a) \/ Unstaketorex(a)
    \/ Ramburn(a) \/ Ramtransfer(a) \/ Mvfrsavings(a) \/ Mvtosavings(a) \/ Sellrex(a)
    \/ Newaccount(a) \/ Voteproducer(a) \/ Voteupdate(a)
    \/ Linkauth(a) \/ Unlinkauth(a) \/ Updateauth(a) \/ Deleteauth(a)
    \/ Setabi(a) \/ Setcode(a) \/ Giftram(a) \/ Ungiftram(a) \/ Noop(a)
    \/ Swaptrace(a) \/ Enforcebal(a) \/ Swapexcess(a)
    \/ SystemExecute(a)

ForwardingRun == pending # <<>> /\ ForwardingExecute(Head(pending))

ForwardingReject ==
    /\ pending # <<>>
    /\ LET a == Head(pending)
       IN  ~ForwardingAccepted(a) \/ MayBeVetoed(a) \/ SystemMayRefuse(a)
    /\ SystemRollback

ForwardingBegin(tx) ==
    /\ Begin(tx)
    /\ running' = tx
    /\ UNCHANGED <<systemTables, tracked, savedSystem>>

ForwardingNext ==
    \/ ForwardingRun \/ ForwardingReject
    \/ \E tx \in Transactions : ForwardingBegin(tx)

ForwardingSpec ==
    SystemInit /\ [][ForwardingNext]_allVars /\ WF_allVars(ForwardingRun \/ ForwardingReject)

-----------------------------------------------------------------------------
(* Properties                                                              *)

\* A transaction of one call commits.
Commits(kinds) ==
    /\ Len(running) = 1 /\ running[1].kind \in kinds
    /\ ForwardingRun /\ running' = <<>>

\* To track XYZ balances it is enough to follow the actions transfer and
\* swaptrace (README.md, "Tracking Vaulta Balances"): no forwarding action moves
\* XYZ in another way.
TrackersAgree == savedSystem.tracked = saved.xyz

\* A forwarding action deals in XYZ only: whatever eosio charges, refunds, pays
\* or leaves of the maximum it was offered, the user's EOS balance is as before.
ForwardingKeepsEos ==
    [][Commits(ForwardingKinds \ {"swapexcess"}) =>
           LET user == running[1].from
           IN  user \notin Coded => saved'.eos[user] = saved.eos[user]]_allVars

\* buyrambytes keeps the EOS balance even of an account whose code swaps, pays or
\* moves the RAM price between the quote and the purchase, and even when both
\* contracts read prices from a market that does not exist.
BuyrambytesKeepsEos ==
    [][Commits({"buyrambytes"}) =>
           LET user == running[1].from
           IN  saved'.eos[user] = saved.eos[user]]_allVars

\* The EOS that eosio holds for n, and the REX.
Owed(s, n) == s.net[n] + s.cpu[n] + s.refunds[n] + Row(s.fund, n)
Rex(s, n) == Row(s.staked, n) + Row(s.unstaking, n)

\* Staking, unstaking, funding and withdrawing through the contract neither costs
\* nor earns anything: what leaves the XYZ balance is staked, refunded or in fund.
\* Not so for eosio.ram and eosio.stake: the EOS they send back, the contract keeps.
Worth(t, s, n) == t.eos[n] + t.xyz[n] + Owed(s, n)

StakingKeepsWorth ==
    [][Commits({"delegatebw", "undelegatebw", "refund", "deposit", "withdraw"}) =>
           LET user == running[1].from
           IN  user \notin Coded \cup Ignored =>
                   Worth(saved', savedSystem', user) = Worth(saved, savedSystem, user)]_allVars

\* Nobody gains by trading REX, at the price of the pool: fractions of a unit are
\* lost, and moving REX out of savings changes nothing.
TradesNeverGain ==
    [][Commits({"buyrex", "mvfrsavings", "sellrex"}) /\ running[1].amt > 0 =>
           LET user == running[1].from
               worth(s) == s.pool.rex * Owed(s, user) + s.pool.lendable * Rex(s, user)
           IN  pool # NoRow => worth(savedSystem') <= worth(savedSystem)]_allVars

\* Nobody spends EOS, XYZ, stake, fund or REX in a transaction that he has not
\* signed, but the contract and eosio, which pay out what they hold for others, and
\* accounts with code, which may spend whenever they are notified.
OnlySignersSpend ==
    [][\A n \in Name \ ({Self, System} \cup Coded \cup signers) :
           /\ saved'.eos[n] >= saved.eos[n]
           /\ saved'.xyz[n] >= saved.xyz[n]
           /\ Owed(savedSystem', n) >= Owed(savedSystem, n)
           /\ Rex(savedSystem', n) >= Rex(savedSystem, n)]_allVars

\* A call that user n signed is about to run, alone in its transaction.
Users == Account \ ({Self, System, RamFee} \cup Coded \cup Ignored)

Asked(n, kinds) ==
    /\ Len(pending) = 1
    /\ LET a == Head(pending)
       IN  a.kind \in kinds /\ a.depth = 0 /\ a.from = n /\ n \in a.auth

\* He has the XYZ it takes.
Affordable(n) ==
    /\ Asked(n, SwapsBefore)
    /\ LET a == Head(pending)
       IN  /\ EnforceSymbol(a.sym)
           /\ CASE a.kind = "buyrambytes" ->
                       market # NoRow /\ RamCosts(a.amt) \subseteq 1 .. xyz[n]
                [] a.kind = "delegatebw" ->
                       a.amt >= 0 /\ a.more >= 0 /\ a.amt + a.more \in 1 .. xyz[n]
                [] OTHER -> a.amt \in 1 .. xyz[n]

\* eosio has the EOS it yields, and owes it.
Claimable(n) ==
    /\ supply > 0
    /\ \/ Asked(n, {"bidrefund"}) /\ eos[System] >= OneEos
       \/ Asked(n, {"refund"}) /\ refunds[n] \in 1 .. eos[System]
       \/ /\ Asked(n, {"withdraw"})
          /\ LET a == Head(pending)
             IN  a.sym = "XYZ" /\ a.amt \in 1 .. Row(fund, n) /\ a.amt <= eos[System]

\* Such a call is carried out, whether or not the user has EOS or rows of his
\* own: none of the actions it sets off fails, and XYZ has been taken or given.
CallsSettle ==
    \A n \in Users, held \in 0 .. EosTotal :
        /\ Affordable(n) /\ saved.xyz[n] = held
               ~> pending = <<>> /\ saved.xyz[n] < held
        /\ Claimable(n) /\ saved.xyz[n] = held
               ~> pending = <<>> /\ saved.xyz[n] > held

\* On a chain where no account has code, a call through the contract is one step
\* of AtomicForwarding or none.
Calls == INSTANCE AtomicForwarding WITH
    eos <- saved.eos, xyz <- saved.xyz, blocked <- saved.blocked,
    supply <- saved.supply, pool <- savedSystem.pool,
    owed <- [n \in Name |-> Owed(savedSystem, n)],
    rex <- [n \in Name |-> Rex(savedSystem, n)]

CallsAreAtomic == Calls!CallSpec

\* Where that is promised: nobody's code adds steps to a transaction of one action.
\* eosio is called through the contract, but for the two actions that set it up, and
\* its pool has REX; a trade of REX is of a positive amount.  The accounts in Ignored,
\* whose EOS is kept without a swap, do not call.
CallsAlone ==
    /\ SwapsAlone
    /\ \A tx \in Transactions :
           LET a == tx[1]
           IN  /\ a.kind \in ForwardingKinds => a.from \notin Ignored
               /\ a.kind \in {"buyrex", "mvfrsavings", "sellrex"} => a.amt > 0
               /\ a.kind \in SystemKinds => a.kind \in {"eosio::setrammarket", "eosio::setrex"}
               /\ a.kind = "eosio::setrex" => a.more > 0

\* The contract is privileged, so the chain does not ask whose authority its
\* inline actions carry: eosio is only ever called with the authority of an
\* account that signed, whatever is forwarded (votes, keys, code, RAM, REX), or of
\* one whose own code calls it.
ForwardedWithConsent ==
    \A i \in DOMAIN pending :
        pending[i].auth \subseteq signers \cup Coded \cup {Self, System}

=============================================================================
