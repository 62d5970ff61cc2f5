------------------------- MODULE AtomicForwarding -------------------------
(***************************************************************************)
(* What forwarding promises its users: they call `eosio` and never touch   *)
(* EOS.  A call takes XYZ for exactly the EOS that eosio gets, or gives    *)
(* XYZ for exactly the EOS that eosio pays, in a single step that happens  *)
(* as a whole or not at all; EOS that eosio holds for a user is owed to    *)
(* him until it is paid; REX is traded at no better than the pool's price. *)
(***************************************************************************)
EXTENDS AtomicSwap

CONSTANTS System, RamFee, NoRow

VARIABLES
    owed,   \* EOS that eosio holds for an account: stakes, refunds, fund
    rex,    \* REX that it holds for an account
    pool    \* what REX is worth: pool.lendable EOS for pool.rex REX, or NoRow

held == <<owed, rex, pool>>
callVars == <<vars, held>>

CallInit ==
    /\ Init
    /\ owed = [n \in Name |-> 0]
    /\ rex = [n \in Name |-> 0]

\* n pays for a service of eosio, or has eosio hold the EOS for him.
Charge(n) ==
    /\ \E amt \in 1 .. xyz[n] :
           /\ amt <= eos[Self]
           /\ xyz' = Move(xyz, n, Self, amt)
           /\ eos' = Move(eos, Self, System, amt)
           /\ owed' \in {owed, [owed EXCEPT ![n] = @ + amt]}
    /\ UNCHANGED <<rex, pool, blocked, supply>>

\* eosio pays n, what it owes him or something else.
Pay(n) ==
    /\ \E amt \in 1 .. eos[System] :
           /\ amt <= xyz[Self]
           /\ eos' = Move(eos, System, Self, amt)
           /\ xyz' = Move(xyz, Self, n, amt)
           /\ \/ UNCHANGED owed
              \/ amt <= owed[n] /\ owed' = [owed EXCEPT ![n] = @ - amt]
    /\ UNCHANGED <<rex, pool, blocked, supply>>

\* n sells RAM: a fee is taken from the price.
SellWithFee(n) ==
    /\ \E price \in 1 .. eos[System] : \E fee \in 1 .. price :
           /\ price - fee <= xyz[Self]
           /\ eos' = Move(Move(eos, System, RamFee, fee), System, Self, price - fee)
           /\ xyz' = Move(xyz, Self, n, price - fee)
    /\ UNCHANGED <<held, blocked, supply>>

\* n trades with the pool and does not gain.
Trade(n) ==
    /\ pool # NoRow
    /\ UNCHANGED <<vars, pool>>
    /\ owed' = [owed EXCEPT ![n] = owed'[n]]
    /\ rex' = [rex EXCEPT ![n] = rex'[n]]
    /\ pool.rex * owed'[n] + pool.lendable * rex'[n]
           <= pool.rex * owed[n] + pool.lendable * rex[n]

SetPool == pool' # pool /\ UNCHANGED <<vars, owed, rex>>

CallNext ==
    \/ Next /\ UNCHANGED held
    \/ \E n \in Users : Charge(n) \/ Pay(n) \/ SellWithFee(n) \/ Trade(n)
    \/ SetPool

CallSpec == CallInit /\ [][CallNext]_callVars

=============================================================================
