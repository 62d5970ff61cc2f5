--------------------------- MODULE SwapContract ---------------------------
(***************************************************************************)
(* The system contract of contracts/system.entry.cpp without its           *)
(* forwarding actions: the XYZ token, the 1:1 swap against the EOS token   *)
(* of eosio.token, and `swapto`.                                           *)
(*                                                                         *)
(* A transaction is executed the way an Antelope node executes it.  The    *)
(* action at the head of `pending` runs; a token transfer also runs the    *)
(* notification handlers of its sender and of its receiver; the inline     *)
(* actions all of them send run next, in the order they were sent and      *)
(* depth first, before what was already pending.  A failed check undoes    *)
(* the whole transaction.                                                  *)
(*                                                                         *)
(* Memos are left out.  EOS rows are modelled by EosioToken; here an       *)
(* account without an EOS row has balance 0.                               *)
(***************************************************************************)
EXTENDS Integers, Sequences, FiniteSets, Functions

CONSTANTS
    Name,            \* names an action may mention
    Account,         \* the names that are accounts (is_account)
    Self,            \* get_self(): the account this contract is deployed to
    Ignored,         \* eosio.ram and eosio.stake
    Coded,           \* accounts whose own code handles transfer notifications
    Reactions,       \* Reactions[n]: the inline actions the handler of n sends
    Transactions,    \* what users may push: sequences of actions
    MaxInlineDepth,  \* max_inline_action_depth of the chain
    EosBalance,      \* EOS balances when the contract is deployed
    OtherKinds,      \* actions that another module adds
    NoPayer          \* payer of an XYZ row that does not exist

VARIABLES
    eos,        \* EOS balances, in eosio.token
    xyz,        \* XYZ balances, in table accounts
    payer,      \* who pays the RAM of an account's XYZ row
    released,   \* field released of an account's XYZ row
    blocked,    \* table blocked
    supply,     \* table stat, and table config: 0 before init
    donated,    \* history: EOS the contract got without paying XYZ for it
    pending,    \* actions of the running transaction still to execute
    saved,      \* the tables after the last committed transaction
    signers     \* accounts that authorised the running transaction

tables == <<eos, xyz, payer, released, blocked, supply, donated>>
vars == <<tables, pending, saved, signers>>

-----------------------------------------------------------------------------
Symbols == {"EOS", "XYZ", "OTHER"}
Kinds == {"eosio.token::transfer", "transfer", "open", "close", "init",
          "swapto", "blockswapto"} \cup OtherKinds

\* One action of a transaction.  `auth` holds the accounts that authorise it,
\* `depth` how deeply it is nested in inline actions; `more` is the second
\* amount of the actions that have two.
Action == [kind: Kinds, from: Name, to: Name, sym: Symbols, amt: Int, more: Int,
           flag: BOOLEAN, auth: SUBSET Name, depth: Nat]

IsTransfer(a) == a.kind \in {"eosio.token::transfer", "transfer"}

\* What a user, or a user's own code, may send.  Nobody moves tokens, or makes the
\* calls of another module, with the authority of the contract but itself.
UserAction ==
    {a \in Action :
        IsTransfer(a) \/ a.kind \in {"swapto"} \cup OtherKinds => Self \notin a.auth}

EosTotal == SumFunction(EosBalance)

ASSUME NamesAssumption ==
    /\ Account \subseteq Name
    /\ Self \in Account
    /\ Ignored \subseteq Name
    /\ Coded \subseteq Account
    /\ Self \notin Ignored \cup Coded
    /\ NoPayer \notin Name

\* A name has 64 bits.
ASSUME FinitelyManyNames == IsFiniteSet(Name)

ASSUME EosAssumption == EosBalance \in [Name -> Nat]

ASSUME DepthAssumption == MaxInlineDepth \in Nat

ASSUME TransactionsAssumption == Transactions \subseteq Seq(UserAction) \ {<<>>}

\* The supply issued by init "should match the EOS token supply" (README.md).
ASSUME SupplyAssumption ==
    \A tx \in Transactions : \A i \in DOMAIN tx :
        tx[i].kind = "init" => tx[i].amt <= 0 \/ tx[i].amt >= EosTotal

\* A handler acts with the authority of its own account only.
ASSUME ReactionsAssumption ==
    /\ Reactions \in [Coded -> SUBSET Seq(UserAction)]
    /\ \A n \in Coded : \A r \in Reactions[n] : \A i \in DOMAIN r : r[i].auth = {n}

-----------------------------------------------------------------------------
Database == [eos: [Name -> Nat], xyz: [Name -> Nat],
             payer: [Name -> Name \cup {NoPayer}],
             released: [Name -> BOOLEAN], blocked: SUBSET Name,
             supply: Nat, donated: Nat]

Tables == [eos |-> eos, xyz |-> xyz, payer |-> payer, released |-> released,
           blocked |-> blocked, supply |-> supply, donated |-> donated]

TypeOK ==
    /\ eos \in [Name -> Nat]
    /\ xyz \in [Name -> Nat]
    /\ payer \in [Name -> Name \cup {NoPayer}]
    /\ released \in [Name -> BOOLEAN]
    /\ blocked \subseteq Name
    /\ supply \in Nat
    /\ donated \in Nat
    /\ pending \in Seq(Action)
    /\ saved \in Database
    /\ signers \subseteq Name

Init ==
    /\ eos = EosBalance
    /\ xyz = [n \in Name |-> 0]
    /\ payer = [n \in Name |-> NoPayer]
    /\ released = [n \in Name |-> FALSE]
    /\ blocked = {}
    /\ supply = 0
    /\ donated = EosBalance[Self]
    /\ pending = <<>>
    /\ saved = Tables
    /\ signers = {}

-----------------------------------------------------------------------------
(* Inline actions and notifications                                        *)

Inline(a, kind, from, to, sym, amt, auth) ==
    [kind |-> kind, from |-> from, to |-> to, sym |-> sym, amt |-> amt,
     more |-> 0, flag |-> FALSE, auth |-> auth, depth |-> a.depth + 1]

\* The inline actions that the handler of n, notified of action a, may send.
Replies(n, a) ==
    IF n \in Coded
    THEN {[i \in DOMAIN r |-> [r[i] EXCEPT !.depth = a.depth + 1]] :
              r \in Reactions[n]}
    ELSE {<<>>}

\* Inline actions are refused when their sender is nested too deeply.
Fits(a, inlines) == inlines = <<>> \/ a.depth < MaxInlineDepth

\* The action at the head of pending is done and has sent `inlines`.  When
\* nothing is left to execute the transaction commits.
Done(inlines) ==
    /\ Fits(Head(pending), inlines)
    /\ pending' = inlines \o Tail(pending)
    /\ saved' = IF pending' = <<>> THEN Tables' ELSE saved
    /\ signers' = IF pending' = <<>> THEN {} ELSE signers

\* A user pushes a transaction.
Begin(tx) ==
    /\ pending = <<>>
    /\ pending' = tx
    /\ signers' = UNION {tx[i].auth : i \in DOMAIN tx}
    /\ UNCHANGED <<tables, saved>>

\* A failed check: the tables are those of before the transaction.
Rollback ==
    /\ eos' = saved.eos
    /\ xyz' = saved.xyz
    /\ payer' = saved.payer
    /\ released' = saved.released
    /\ blocked' = saved.blocked
    /\ supply' = saved.supply
    /\ donated' = saved.donated
    /\ pending' = <<>>
    /\ signers' = {}
    /\ UNCHANGED saved

-----------------------------------------------------------------------------
(* The XYZ token                                                           *)

HasRow(n) == payer[n] # NoPayer

\* enforce_symbol, get_token_symbol: the symbol chosen by init.
EnforceSymbol(sym) == supply > 0 /\ sym = "XYZ"

\* Mutant: a new row is billed to its owner.
PayerOfCreditIsOwner(owner, ramPayer) ==
    IF HasRow(owner) THEN payer[owner] ELSE owner

\* The RAM of `owner`'s row after add_balance(owner, _, ramPayer).
PayerOfCredit(owner, ramPayer) ==
    IF HasRow(owner) THEN payer[owner]
    ELSE IF ramPayer = owner THEN owner ELSE Self

ReleasedOnCredit(owner, ramPayer) ==
    IF HasRow(owner) THEN released[owner] ELSE ramPayer = owner

\* Mutant: overdrafts are not checked.
CanOverdraw(owner, amt) == HasRow(owner)

\* sub_balance's checks.
CanDebit(owner, amt) == HasRow(owner) /\ xyz[owner] >= amt

\* Mutants: the row is modified for same_payer; the re-created row keeps the
\* balance of the erased one.
MoveXyzSamePayer(from, to, amt, ramPayer) ==
    /\ xyz' = [xyz EXCEPT ![from] = @ - amt, ![to] = @ + amt]
    /\ payer' = [payer EXCEPT ![to] = PayerOfCredit(to, ramPayer)]
    /\ released' = [released EXCEPT ![from] = TRUE,
                                    ![to] = ReleasedOnCredit(to, ramPayer)]

MoveXyzOldBalance(from, to, amt, ramPayer) ==
    /\ xyz' = [xyz EXCEPT ![from] = IF released[from] THEN @ - amt ELSE @,
                          ![to] = @ + amt]
    /\ payer' = [payer EXCEPT ![from] = from,
                              ![to] = PayerOfCredit(to, ramPayer)]
    /\ released' = [released EXCEPT ![from] = TRUE,
                                    ![to] = ReleasedOnCredit(to, ramPayer)]

\* sub_balance(from, amt) and then add_balance(to, amt, ramPayer), with
\* from # to.  A debit makes the owner of the row pay its RAM.
MoveXyz(from, to, amt, ramPayer) ==
    /\ xyz' = [xyz EXCEPT ![from] = @ - amt, ![to] = @ + amt]
    /\ payer' = [payer EXCEPT ![from] = from,
                              ![to] = PayerOfCredit(to, ramPayer)]
    /\ released' = [released EXCEPT ![from] = TRUE,
                                    ![to] = ReleasedOnCredit(to, ramPayer)]

\* credit_eos_to(account, amt)
CreditEos(a, account, amt) ==
    <<Inline(a, "eosio.token::transfer", Self, account, "EOS", amt, {Self})>>

TransferOk(a) ==
    /\ a.from # a.to
    /\ a.from \in a.auth
    /\ a.to \in Account
    /\ EnforceSymbol(a.sym)
    /\ a.amt > 0
    /\ CanDebit(a.from, a.amt)

\* transfer: XYZ sent to the contract is swapped for EOS.  The contract runs
\* first, so its payment precedes what the handlers of from and to send.
Transfer(a) ==
    /\ a.kind = "transfer"
    /\ TransferOk(a)
    /\ MoveXyz(a.from, a.to, a.amt, IF a.to \in a.auth THEN a.to ELSE a.from)
    /\ UNCHANGED <<eos, blocked, supply, donated>>
    /\ \E rf \in Replies(a.from, a), rt \in Replies(a.to, a) :
           Done((IF a.to = Self THEN CreditEos(a, a.from, a.amt) ELSE <<>>)
                    \o rf \o rt)

\* open: from is the owner, to the ram_payer.
OpenOk(a) ==
    /\ a.to \in a.auth
    /\ a.from \in Account
    /\ EnforceSymbol(a.sym)

Open(a) ==
    /\ a.kind = "open"
    /\ OpenOk(a)
    /\ IF HasRow(a.from)
       THEN UNCHANGED <<payer, released>>
       ELSE /\ payer' = [payer EXCEPT ![a.from] = a.to]
            /\ released' = [released EXCEPT ![a.from] = a.to = a.from]
    /\ UNCHANGED <<eos, xyz, blocked, supply, donated>>
    /\ Done(<<>>)

CloseOk(a) ==
    /\ a.from \in a.auth
    /\ a.sym = "XYZ"
    /\ HasRow(a.from)
    /\ xyz[a.from] = 0

Close(a) ==
    /\ a.kind = "close"
    /\ CloseOk(a)
    /\ xyz' = [xyz EXCEPT ![a.from] = 0]
    /\ payer' = [payer EXCEPT ![a.from] = NoPayer]
    /\ released' = [released EXCEPT ![a.from] = FALSE]
    /\ UNCHANGED <<eos, blocked, supply, donated>>
    /\ Done(<<>>)

\* init: the whole supply is issued to the contract.
InitTokenOk(a) ==
    /\ Self \in a.auth
    /\ supply = 0
    /\ a.sym = "XYZ"
    /\ a.amt > 0

InitToken(a) ==
    /\ a.kind = "init"
    /\ InitTokenOk(a)
    /\ supply' = a.amt
    /\ xyz' = [xyz EXCEPT ![Self] = @ + a.amt]
    /\ payer' = [payer EXCEPT ![Self] = PayerOfCredit(Self, Self)]
    /\ released' = [released EXCEPT ![Self] = ReleasedOnCredit(Self, Self)]
    /\ UNCHANGED <<eos, blocked, donated>>
    /\ Done(<<>>)

-----------------------------------------------------------------------------
(* The EOS token and the swap                                              *)

\* Mutant: every EOS transfer the contract hears of is taken for a swap.
SwapsAnyEos(a) == a.from # Self /\ a.from \notin Ignored

\* on_transfer reacts to EOS that reaches the contract from outside.
SwapsEos(a) == a.from # Self /\ a.to = Self /\ a.from \notin Ignored

\* The checks of on_transfer, and the XYZ it sends back.
OnTransferOk(a) == SwapsEos(a) => a.sym = "EOS" /\ supply > 0

\* Mutant: the system accounts are not ignored.
OnTransferFromAnyone(a) ==
    IF a.from # Self /\ a.to = Self
    THEN <<Inline(a, "transfer", Self, a.from, "XYZ", a.amt, {Self})>>
    ELSE <<>>

OnTransfer(a) ==
    IF SwapsEos(a)
    THEN <<Inline(a, "transfer", Self, a.from, "XYZ", a.amt, {Self})>>
    ELSE <<>>

\* transfer of eosio.token.  It also holds other tokens (symbol OTHER), whose
\* balances nobody here looks at.
EosTransferOk(a) ==
    /\ a.from # a.to
    /\ a.from \in a.auth
    /\ a.to \in Account
    /\ a.sym # "XYZ"
    /\ a.amt > 0
    /\ a.sym = "EOS" => eos[a.from] >= a.amt
    /\ OnTransferOk(a)

EosTransfer(a) ==
    /\ a.kind = "eosio.token::transfer"
    /\ EosTransferOk(a)
    /\ IF a.sym = "EOS"
       THEN /\ eos' = [eos EXCEPT ![a.from] = @ - a.amt, ![a.to] = @ + a.amt]
            /\ donated' = IF a.to = Self /\ ~SwapsEos(a) THEN donated + a.amt
                                                         ELSE donated
       ELSE UNCHANGED <<eos, donated>>
    /\ UNCHANGED <<xyz, payer, released, blocked, supply>>
    /\ \E rf \in Replies(a.from, a), rt \in Replies(a.to, a) :
           Done(rf \o OnTransfer(a) \o rt)

\* Mutants: swapto does not consult table blocked; it does not require from's
\* authority.
SwapToIgnoresBlocked(a) == a.from \in a.auth /\ supply > 0 /\ a.sym # "OTHER"

SwapToUnsigned(a) == a.to \notin blocked /\ supply > 0 /\ a.sym # "OTHER"

\* swapto: swap into from's own account, then on to the recipient.
SwapToOk(a) ==
    /\ a.from \in a.auth
    /\ a.to \notin blocked
    /\ supply > 0
    /\ a.sym # "OTHER"

\* Mutant: the payee is paid before the swap.
SwapToPaysFirst(a) ==
    IF a.sym = "EOS"
    THEN <<Inline(a, "transfer", a.from, a.to, "XYZ", a.amt, {a.from}),
           Inline(a, "eosio.token::transfer", a.from, Self, "EOS", a.amt, {a.from})>>
    ELSE <<Inline(a, "eosio.token::transfer", a.from, a.to, "EOS", a.amt, {a.from}),
           Inline(a, "transfer", a.from, Self, "XYZ", a.amt, {a.from})>>

SwapToInlines(a) ==
    IF a.sym = "EOS"
    THEN <<Inline(a, "eosio.token::transfer", a.from, Self, "EOS", a.amt, {a.from}),
           Inline(a, "transfer", a.from, a.to, "XYZ", a.amt, {a.from})>>
    ELSE <<Inline(a, "transfer", a.from, Self, "XYZ", a.amt, {a.from}),
           Inline(a, "eosio.token::transfer", a.from, a.to, "EOS", a.amt, {a.from})>>

SwapTo(a) ==
    /\ a.kind = "swapto"
    /\ SwapToOk(a)
    /\ UNCHANGED tables
    /\ Done(SwapToInlines(a))

\* Mutant: any signature will do.
BlockSwapToUnsigned(a) == a.flag /\ a.from \notin blocked => a.from \in Account

\* blockswapto: from is the account, flag says whether to block it.  The row
\* is billed to the account, which therefore has to exist.
BlockSwapToOk(a) ==
    /\ Self \in a.auth \/ a.from \in a.auth
    /\ a.flag /\ a.from \notin blocked => a.from \in Account

BlockSwapTo(a) ==
    /\ a.kind = "blockswapto"
    /\ BlockSwapToOk(a)
    /\ blocked' = IF a.flag THEN blocked \cup {a.from} ELSE blocked \ {a.from}
    /\ UNCHANGED <<eos, xyz, payer, released, supply, donated>>
    /\ Done(<<>>)

-----------------------------------------------------------------------------
\* The action's handler, or on_transfer, sends inline actions of its own.
SendsInlines(a) ==
    \/ a.kind = "eosio.token::transfer" /\ SwapsEos(a)
    \/ a.kind = "transfer" /\ a.to = Self
    \/ a.kind = "swapto"

\* The checks the action runs into, those of the chain included, pass.
Accepted(a) ==
    /\ SendsInlines(a) => a.depth < MaxInlineDepth
    /\ CASE a.kind = "eosio.token::transfer" -> EosTransferOk(a)
         [] a.kind = "transfer" -> TransferOk(a)
         [] a.kind = "open" -> OpenOk(a)
         [] a.kind = "close" -> CloseOk(a)
         [] a.kind = "init" -> InitTokenOk(a)
         [] a.kind = "swapto" -> SwapToOk(a)
         [] a.kind = "blockswapto" -> BlockSwapToOk(a)
         [] OTHER -> FALSE

\* The handler of a notified account may fail, or send what is refused.
MayBeVetoed(a) == IsTransfer(a) /\ {a.from, a.to} \cap Coded # {}

Execute(a) ==
    \/ EosTransfer(a) \/ Transfer(a) \/ Open(a) \/ Close(a) \/ InitToken(a)
    \/ SwapTo(a) \/ BlockSwapTo(a)

Run == pending # <<>> /\ Execute(Head(pending))

Reject ==
    /\ pending # <<>>
    /\ ~Accepted(Head(pending)) \/ MayBeVetoed(Head(pending))
    /\ Rollback

Next == Run \/ Reject \/ \E tx \in Transactions : Begin(tx)

\* A node finishes the transaction it has started.
Spec == Init /\ [][Next]_vars /\ WF_vars(Run \/ Reject)

-----------------------------------------------------------------------------
(* Properties                                                              *)

\* The peg: whenever no transaction runs, the contract holds exactly one EOS
\* for every XYZ in circulation, besides the EOS that reached it without a
\* swap.  (on_transfer pays XYZ for EOS, transfer pays EOS for XYZ.)
Backed == saved.eos[Self] = saved.supply - saved.xyz[Self] + saved.donated

\* A payment the contract owes a swapper passes all its checks when it is
\* executed: "There will always be enough XYZ or EOS in the contract account to
\* fulfill any swap", whatever handlers ran between the two halves of the swap.
SwapsPay ==
    pending # <<>> =>
        LET a == Head(pending)
        IN  IsTransfer(a) /\ Self \in a.auth /\ a.to \in Account => Accepted(a)

\* Neither token is created or destroyed by a swap, a transfer, open or close.
Conserved ==
    /\ SumFunction(eos) = EosTotal
    /\ SumFunction(xyz) = supply

\* Nobody but the contract loses EOS or XYZ in a transaction he has not signed: the
\* inline actions of swapto and of the swap only ever spend what belongs to a
\* signer.  Accounts with code are left out, since theirs may spend when notified.
OnlySignersPay ==
    [][\A n \in Name \ ({Self} \cup Coded \cup signers) :
           /\ saved'.eos[n] >= saved.eos[n]
           /\ saved'.xyz[n] >= saved.xyz[n]]_vars

\* Field released tells, for every row but the contract's own, whether its owner
\* pays its RAM: sub_balance re-creates exactly the rows others pay for.
ReleasedIffOwnerPays ==
    \A n \in Name \ {Self} : HasRow(n) => (released[n] <=> payer[n] = n)

\* The contract is privileged, so the chain does not ask whose RAM it uses: only
\* an account that authorised the action ever becomes the payer of a row.
RamBilledWithConsent ==
    [][Run => \A n \in Name :
           payer'[n] \in {payer[n], NoPayer, Self} \cup Head(pending).auth]_vars

\* Who refuses swaps from others, or no longer does, has signed the transaction,
\* or the contract has; his code may answer for him.  So nobody has a row of table
\* blocked, whose RAM he pays, or lacks one, by the doing of a third party.
OnlyOwnersBlock ==
    [][\A n \in Name \ Coded :
           (n \in saved.blocked) # (n \in saved'.blocked)
               => {n, Self} \cap signers # {}]_vars

\* swapto reads table blocked before its first half runs, and code notified of that
\* half runs before the second pays: in between, nothing changes whether an account
\* without code is blocked, unless that account or the contract signed the transaction.
BlockedAsBefore ==
    \A n \in Name \ Coded :
        {n, Self} \cap signers = {} => (n \in blocked <=> n \in saved.blocked)

\* What the payee of a swap from sym holds of the other token.
Received(sym, n) == IF sym = "EOS" THEN saved.xyz[n] ELSE saved.eos[n]

\* A signed swapto that names an account, and an amount the sender has, is about
\* to run.
Requested(n, sym) ==
    /\ Len(pending) = 1
    /\ LET a == Head(pending)
       IN  /\ a.kind = "swapto" /\ a.to = n /\ a.sym = sym
           /\ SwapToOk(a)
           /\ a.from # n
           /\ {a.from, n} \cap (Coded \cup Ignored \cup {Self}) = {}
           /\ a.amt \in 1 .. (IF sym = "EOS" THEN eos[a.from] ELSE xyz[a.from])

\* Such a swapto is carried out: no check of the five actions it sets off fails,
\* and the payee ends up with more of the token he was to get.
SwapsSettle ==
    \A n \in Account, sym \in {"EOS", "XYZ"}, held \in 0 .. EosTotal :
        Requested(n, sym) /\ Received(sym, n) = held
            ~> pending = <<>> /\ Received(sym, n) > held

\* The committed tables only ever change by whole, one-for-one swaps: a
\* transaction of one action is one step of AtomicSwap or none.
Atomic == INSTANCE AtomicSwap WITH
    eos <- saved.eos, xyz <- saved.xyz, blocked <- saved.blocked,
    supply <- saved.supply

SwapsAreAtomic == Atomic!Spec

\* Where that is promised: nobody's code adds steps to a transaction of one action.
\* The accounts in Ignored, whose EOS is kept without a swap, ask for no swaps.
SwapsAlone ==
    /\ Coded = {}
    /\ \A tx \in Transactions :
           Len(tx) = 1 /\ (tx[1].kind = "swapto" => tx[1].from \notin Ignored)

-----------------------------------------------------------------------------
\* README.md, on transfer: a row that does not exist is created "with the
\* `from` account as the RAM payer".
RowPaidBySender ==
    [][Run /\ Head(pending).kind = "transfer" =>
           LET a == Head(pending)
           IN  ~HasRow(a.to) => payer'[a.to] = a.from]_vars

\* README.md, on init: it "must be called before any other actions can be used".
NothingBeforeInit == [][supply = 0 => blocked' = blocked]_vars

=============================================================================
