---------------------------- MODULE MockSystem ----------------------------
(***************************************************************************)
(* The system contract `eosio`, as contracts/mocksys.entry.cpp stands in   *)
(* for it in the repository's tests.  Its tables are added to those of     *)
(* SwapContract, its actions run as inline actions of the forwarding       *)
(* actions (module Forwarding) and send inline transfers of EOS.           *)
(*                                                                         *)
(* Tables that nothing reads (lastaction, votes, rexbal, bidrefunds) are   *)
(* left out.  REX amounts have symbol OTHER.                               *)
(***************************************************************************)
EXTENDS SwapContract, RamPrices

CONSTANTS
    System,     \* the account eosio
    RamFee,     \* the account eosio.ramfee
    OneEos,     \* 1.0000 EOS: what the mock refunds a bid, and asks for a powerup
    ByteRange,  \* 2^32: what a number of bytes of type uint32_t wraps at
    Garbage,    \* prices that reading a row of table rammarket may give without one
    Rewards,    \* what claimrewards may pay
    NoRow       \* a table that has no row

VARIABLES
    market,         \* table rammarket
    net, cpu,       \* table stakes
    refunds,        \* table refunds: 0 when there is no row
    fund,           \* table rexfund: a function on the owners of its rows
    pool,           \* table rexpool
    staked,         \* table staked: REX in savings
    unstaking,      \* table unstaking: REX that can be sold
    tracked,        \* history: the XYZ balances that the actions executed tell
    running,        \* history: the transaction being executed
    savedSystem     \* the tables of eosio after the last committed transaction

stakeTables == <<net, cpu, refunds>>
rexTables == <<pool, staked, unstaking>>
systemTables == <<market, stakeTables, fund, rexTables>>
allVars == <<vars, systemTables, tracked, running, savedSystem>>

\* Actions that the mock lacks, or that touch no table modelled here.
QuietKinds ==
    {"eosio::ramburn", "eosio::ramtransfer", "eosio::mvtosavings",
     "eosio::newaccount", "eosio::voteproducer", "eosio::voteupdate",
     "eosio::unstaketorex", "eosio::linkauth", "eosio::unlinkauth",
     "eosio::updateauth", "eosio::deleteauth", "eosio::setabi", "eosio::setcode",
     "eosio::giftram", "eosio::ungiftram"}

SystemKinds == QuietKinds \cup
    {"eosio::bidname", "eosio::bidrefund", "eosio::buyram", "eosio::buyramburn",
     "eosio::buyramself", "eosio::buyrambytes", "eosio::sellram",
     "eosio::setrammarket", "eosio::deposit", "eosio::withdraw", "eosio::buyrex",
     "eosio::mvfrsavings", "eosio::sellrex", "eosio::setrex", "eosio::powerup",
     "eosio::delegatebw", "eosio::undelegatebw", "eosio::refund",
     "eosio::claimrewards", "eosio::donatetorex"}

Market == [ram: Nat, eos: Nat]
Pool == [lendable: Nat, rex: Nat]

\* The code of eosio is in this module, eosio.ramfee has none: neither has a handler
\* of notifications.
ASSUME SystemAssumption ==
    /\ {System, RamFee} \subseteq Account /\ System # RamFee
    /\ Self \notin {System, RamFee}
    /\ Coded \cap {System, RamFee} = {}
    /\ OneEos \in Nat \ {0}
    /\ ByteRange \in Nat \ {0}
    /\ Garbage \subseteq Nat
    /\ Rewards \subseteq Nat
    /\ NoRow \notin Market \cup Pool

\* What users, and their code, may ask of eosio directly.  Some of the mock's
\* actions charge the account named first without asking for its signature, which
\* the eosio of a chain does, and two of them set reserves to anything.
SystemCall(a) ==
    /\ a.kind \in SystemKinds \ {"eosio::setrammarket", "eosio::setrex"}
           => a.from \in a.auth
    /\ a.kind \in {"eosio::setrammarket", "eosio::setrex"} => a.amt >= 0 /\ a.more >= 0

ASSUME SystemCallsAssumption ==
    /\ \A tx \in Transactions : \A i \in DOMAIN tx : SystemCall(tx[i])
    /\ \A n \in Coded : \A r \in Reactions[n] : \A i \in DOMAIN r : SystemCall(r[i])

-----------------------------------------------------------------------------
\* A table with at most one row for each name.
IsTable(t) == DOMAIN t \subseteq Name /\ t \in [DOMAIN t -> Int]

IsSystemDatabase(s) ==
    /\ s.market \in Market \cup {NoRow}
    /\ s.net \in [Name -> Nat]
    /\ s.cpu \in [Name -> Nat]
    /\ s.refunds \in [Name -> Nat]
    /\ s.pool \in Pool \cup {NoRow}
    /\ IsTable(s.fund) /\ IsTable(s.staked) /\ IsTable(s.unstaking)
    /\ s.tracked \in [Name -> Int]

SystemTables == [market |-> market, net |-> net, cpu |-> cpu, refunds |-> refunds,
                 fund |-> fund, pool |-> pool, staked |-> staked,
                 unstaking |-> unstaking, tracked |-> tracked]

SystemTypeOK ==
    /\ TypeOK
    /\ IsSystemDatabase(SystemTables)
    /\ IsSystemDatabase(savedSystem)
    /\ running \in Seq(Action)

SystemInit ==
    /\ Init
    /\ market = NoRow /\ pool = NoRow
    /\ net = [n \in Name |-> 0]
    /\ cpu = [n \in Name |-> 0]
    /\ refunds = [n \in Name |-> 0]
    /\ fund = <<>> /\ staked = <<>> /\ unstaking = <<>>
    /\ tracked = [n \in Name |-> 0]
    /\ running = <<>>
    /\ savedSystem = SystemTables

\* The amount in the row of n, and the table with amt added to that row.
Row(table, n) == IF n \in DOMAIN table THEN table[n] ELSE 0

Add(table, n, amt) ==
    [m \in DOMAIN table \cup {n} |-> Row(table, m) + IF m = n THEN amt ELSE 0]

-----------------------------------------------------------------------------
(* Execution                                                               *)

\* The action at the head of pending is done: eosio's tables commit with the
\* contract's own.
Recorded ==
    /\ savedSystem' = IF pending' = <<>> THEN SystemTables' ELSE savedSystem
    /\ running' = IF pending' = <<>> THEN <<>> ELSE running

Finish(inlines) == Done(inlines) /\ Recorded

SystemRollback ==
    /\ Rollback
    /\ market' = savedSystem.market
    /\ net' = savedSystem.net
    /\ cpu' = savedSystem.cpu
    /\ refunds' = savedSystem.refunds
    /\ fund' = savedSystem.fund
    /\ pool' = savedSystem.pool
    /\ staked' = savedSystem.staked
    /\ unstaking' = savedSystem.unstaking
    /\ tracked' = savedSystem.tracked
    /\ running' = <<>>
    /\ UNCHANGED savedSystem

Collect(a, amt) ==
    Finish(<<Inline(a, "eosio.token::transfer", a.from, System, "EOS", amt, {a.from})>>)

PayOut(a, amt) ==
    Finish(<<Inline(a, "eosio.token::transfer", System, a.from, "EOS", amt, {System})>>)

-----------------------------------------------------------------------------
(* Names, RAM, powerups                                                    *)

EosioBidnameOk(a) == a.from \in a.auth /\ a.sym = "EOS" /\ a.amt > 0

EosioBidname(a) ==
    /\ a.kind = "eosio::bidname"
    /\ EosioBidnameOk(a)
    /\ UNCHANGED <<tables, systemTables, tracked>>
    /\ Collect(a, a.amt)

EosioBidrefund(a) ==
    /\ a.kind = "eosio::bidrefund"
    /\ UNCHANGED <<tables, systemTables, tracked>>
    /\ PayOut(a, OneEos)

EosioBuyram(a) ==
    /\ a.kind \in {"eosio::buyram", "eosio::buyramself", "eosio::buyramburn"}
    /\ UNCHANGED <<tables, systemTables, tracked>>
    /\ Collect(a, a.amt)

\* The mock has no donatetorex: it takes the EOS it is given.
EosioDonatetorex(a) ==
    /\ a.kind = "eosio::donatetorex"
    /\ UNCHANGED <<tables, systemTables, tracked>>
    /\ Collect(a, a.amt)

\* amt and more are the reserves of RAM and of EOS.
Setrammarket(a) ==
    /\ a.kind = "eosio::setrammarket"
    /\ market' = [ram |-> a.amt, eos |-> a.more]
    /\ UNCHANGED <<tables, stakeTables, fund, rexTables, tracked>>
    /\ Finish(<<>>)

\* What a number of bytes costs.  The row of table rammarket is used without a
\* check that there is one; without, what is read is anything.
RamCosts(bytes) ==
    IF market = NoRow THEN Garbage
    ELSE {CostPlusFee(GetBancorInput(market.ram, market.eos, bytes))}

EosioBuyrambytes(a) ==
    /\ a.kind = "eosio::buyrambytes"
    /\ UNCHANGED <<tables, systemTables, tracked>>
    /\ \E cost \in RamCosts(a.amt) :
           Finish(<<Inline(a, "eosio::buyram", a.from, a.to, "EOS", cost, {a.from})>>)

\* ram_to_tokens finds no RAM to convert when there is no market.
EosioSellramOk(a) == market # NoRow

\* The number of bytes has 32 bits, of the 64 that sellram was given.  The fee is
\* taken before the price is paid.
EosioSellram(a) ==
    /\ a.kind = "eosio::sellram"
    /\ EosioSellramOk(a)
    /\ UNCHANGED <<tables, systemTables, tracked>>
    /\ LET price == GetBancorOutput(market.ram, market.eos, a.amt % ByteRange)
           fee == SellFee(price)
       IN  Finish((IF fee > 0
                   THEN <<Inline(a, "eosio.token::transfer", a.from, RamFee, "EOS",
                                 fee, {a.from})>>
                   ELSE <<>>)
                  \o <<Inline(a, "eosio.token::transfer", System, a.from, "EOS",
                              price, {System})>>)

EosioPowerupOk(a) == a.from \in a.auth /\ a.sym = "EOS" /\ a.amt > 0

EosioPowerup(a) ==
    /\ a.kind = "eosio::powerup"
    /\ EosioPowerupOk(a)
    /\ UNCHANGED <<tables, systemTables, tracked>>
    /\ Collect(a, IF a.amt > OneEos THEN OneEos ELSE a.amt)

\* Voters' and producers' rewards, which the mock lacks: eosio may pay any.
EosioClaimrewards(a) ==
    /\ a.kind = "eosio::claimrewards"
    /\ UNCHANGED <<tables, systemTables, tracked>>
    /\ \E reward \in Rewards : IF reward = 0 THEN Finish(<<>>) ELSE PayOut(a, reward)

EosioQuiet(a) ==
    /\ a.kind \in QuietKinds
    /\ UNCHANGED <<tables, systemTables, tracked>>
    /\ Finish(<<>>)

-----------------------------------------------------------------------------
(* Stakes                                                                  *)

\* The checks shared by delegatebw and undelegatebw; amt is net, more is cpu.
StakeOk(a) ==
    /\ a.from \in a.auth
    /\ a.sym = "EOS"
    /\ a.amt >= 0 /\ a.more >= 0
    /\ a.amt + a.more > 0

EosioDelegatebw(a) ==
    /\ a.kind = "eosio::delegatebw"
    /\ StakeOk(a)
    /\ net' = [net EXCEPT ![a.from] = @ + a.amt]
    /\ cpu' = [cpu EXCEPT ![a.from] = @ + a.more]
    /\ UNCHANGED <<tables, market, refunds, fund, rexTables, tracked>>
    /\ Collect(a, a.amt + a.more)

\* Mutant: each stake is not compared with what is to be unstaked.
EosioUndelegatebwUnchecked(a) == StakeOk(a) /\ net[a.from] >= a.amt

EosioUndelegatebwOk(a) ==
    StakeOk(a) /\ net[a.from] >= a.amt /\ cpu[a.from] >= a.more

EosioUndelegatebw(a) ==
    /\ a.kind = "eosio::undelegatebw"
    /\ EosioUndelegatebwOk(a)
    /\ net' = [net EXCEPT ![a.from] = @ - a.amt]
    /\ cpu' = [cpu EXCEPT ![a.from] = @ - a.more]
    /\ refunds' = [refunds EXCEPT ![a.from] = @ + a.amt + a.more]
    /\ UNCHANGED <<tables, market, fund, rexTables, tracked>>
    /\ Finish(<<>>)

EosioRefundOk(a) == a.from \in a.auth /\ refunds[a.from] > 0

EosioRefund(a) ==
    /\ a.kind = "eosio::refund"
    /\ EosioRefundOk(a)
    /\ refunds' = [refunds EXCEPT ![a.from] = 0]
    /\ UNCHANGED <<tables, market, net, cpu, fund, rexTables, tracked>>
    /\ PayOut(a, refunds[a.from])

-----------------------------------------------------------------------------
(* REX                                                                     *)

EosioDepositOk(a) == a.from \in a.auth /\ a.sym = "EOS" /\ a.amt > 0

EosioDeposit(a) ==
    /\ a.kind = "eosio::deposit"
    /\ EosioDepositOk(a)
    /\ fund' = Add(fund, a.from, a.amt)
    /\ UNCHANGED <<tables, market, stakeTables, rexTables, tracked>>
    /\ Collect(a, a.amt)

\* Amounts of different symbols cannot be compared.
HasFund(a) ==
    /\ a.from \in a.auth
    /\ a.from \in DOMAIN fund
    /\ a.sym = "EOS"
    /\ fund[a.from] >= a.amt

EosioWithdraw(a) ==
    /\ a.kind = "eosio::withdraw"
    /\ HasFund(a)
    /\ fund' = [fund EXCEPT ![a.from] = @ - a.amt]
    /\ UNCHANGED <<tables, market, stakeTables, rexTables, tracked>>
    /\ PayOut(a, a.amt)

\* amt and more are the pool's EOS and its REX.
Setrex(a) ==
    /\ a.kind = "eosio::setrex"
    /\ pool' = [lendable |-> a.amt, rex |-> a.more]
    /\ UNCHANGED <<tables, market, stakeTables, fund, staked, unstaking, tracked>>
    /\ Finish(<<>>)

\* Mutant: REX is rounded up.
EosToRexRoundedUp(amt) ==
    (pool.rex * amt + pool.lendable - 1) \div pool.lendable

\* eos_to_rex.  Compiled to WebAssembly, the conversion of a quotient that no
\* uint64_t holds (a negative one, or one by 0) yields 0.
EosToRex(amt) ==
    IF amt > 0 /\ pool.lendable > 0 THEN (pool.rex * amt) \div pool.lendable ELSE 0

\* rex_to_eos, for a quantity of REX that does not empty the pool.
RexToEos(rex) ==
    IF pool.rex > 0
    THEN (pool.lendable * (pool.rex + rex)) \div pool.rex - pool.lendable
    ELSE -pool.lendable

EosioBuyrexOk(a) == HasFund(a) /\ pool # NoRow

EosioBuyrex(a) ==
    /\ a.kind = "eosio::buyrex"
    /\ EosioBuyrexOk(a)
    /\ fund' = [fund EXCEPT ![a.from] = @ - a.amt]
    /\ staked' = Add(staked, a.from, EosToRex(a.amt))
    /\ UNCHANGED <<tables, market, stakeTables, pool, unstaking, tracked>>
    /\ Finish(<<>>)

HasRex(a, table) ==
    /\ a.from \in a.auth
    /\ a.from \in DOMAIN table
    /\ a.sym = "OTHER"
    /\ table[a.from] >= a.amt

EosioMvfrsavings(a) ==
    /\ a.kind = "eosio::mvfrsavings"
    /\ HasRex(a, staked)
    /\ staked' = [staked EXCEPT ![a.from] = @ - a.amt]
    /\ unstaking' = Add(unstaking, a.from, a.amt)
    /\ UNCHANGED <<tables, market, stakeTables, fund, pool, tracked>>
    /\ Finish(<<>>)

EosioSellrexOk(a) == HasRex(a, unstaking) /\ pool # NoRow

EosioSellrex(a) ==
    /\ a.kind = "eosio::sellrex"
    /\ EosioSellrexOk(a)
    /\ unstaking' = [unstaking EXCEPT ![a.from] = @ - a.amt]
    /\ fund' = Add(fund, a.from, RexToEos(a.amt))
    /\ UNCHANGED <<tables, market, stakeTables, pool, staked, tracked>>
    /\ Finish(<<>>)

-----------------------------------------------------------------------------
\* The checks an action of eosio runs into pass.
SystemAccepted(a) ==
    CASE a.kind = "eosio::bidname" -> EosioBidnameOk(a)
      [] a.kind = "eosio::sellram" -> EosioSellramOk(a)
      [] a.kind = "eosio::powerup" -> EosioPowerupOk(a)
      [] a.kind = "eosio::delegatebw" -> StakeOk(a)
      [] a.kind = "eosio::undelegatebw" -> EosioUndelegatebwOk(a)
      [] a.kind = "eosio::refund" -> EosioRefundOk(a)
      [] a.kind = "eosio::deposit" -> EosioDepositOk(a)
      [] a.kind = "eosio::withdraw" -> HasFund(a)
      [] a.kind = "eosio::buyrex" -> EosioBuyrexOk(a)
      [] a.kind = "eosio::mvfrsavings" -> HasRex(a, staked)
      [] a.kind = "eosio::sellrex" -> EosioSellrexOk(a)
      [] OTHER -> TRUE

\* What the mock lacks may fail for reasons of its own.
SystemMayRefuse(a) == a.kind \in QuietKinds \cup {"eosio::claimrewards"}

\* These send no inline action.
SendsNoEos(a) ==
    a.kind \in QuietKinds \cup
        {"eosio::setrammarket", "eosio::setrex", "eosio::undelegatebw",
         "eosio::buyrex", "eosio::mvfrsavings", "eosio::sellrex",
         "eosio::claimrewards"}

SystemExecute(a) ==
    \/ EosioBidname(a) \/ EosioBidrefund(a) \/ EosioBuyram(a) \/ EosioBuyrambytes(a)
    \/ EosioSellram(a) \/ EosioDonatetorex(a) \/ EosioPowerup(a) \/ Setrammarket(a)
    \/ EosioClaimrewards(a) \/ EosioQuiet(a)
    \/ EosioDelegatebw(a) \/ EosioUndelegatebw(a) \/ EosioRefund(a)
    \/ EosioDeposit(a) \/ EosioWithdraw(a) \/ Setrex(a)
    \/ EosioBuyrex(a) \/ EosioMvfrsavings(a) \/ EosioSellrex(a)

=============================================================================
