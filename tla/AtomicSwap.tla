---------------------------- MODULE AtomicSwap ----------------------------
(***************************************************************************)
(* What the swap promises its users (README.md, "Swaps" and "Swap &        *)
(* Withdraw"): EOS and XYZ are exchanged one for one, in a single step     *)
(* which either happens as a whole or not at all, in the account of the    *)
(* sender or in one that does not refuse swaps from others.                *)
(***************************************************************************)
EXTENDS Integers

CONSTANTS Name, Self, Ignored, EosBalance

VARIABLES eos, xyz, blocked, supply

vars == <<eos, xyz, blocked, supply>>

Users == Name \ {Self}

Init ==
    /\ eos = EosBalance
    /\ xyz = [n \in Name |-> 0]
    /\ blocked = {}
    /\ supply = 0

Move(balance, from, to, amt) ==
    [balance EXCEPT ![from] = @ - amt, ![to] = @ + amt]

\* The whole supply of XYZ is issued once, to the contract.
Issue ==
    /\ supply = 0
    /\ supply' \in Nat \ {0}
    /\ xyz' = [xyz EXCEPT ![Self] = supply']
    /\ UNCHANGED <<eos, blocked>>

SendEos(from, to) ==
    /\ from # to
    /\ \E amt \in 1 .. eos[from] : eos' = Move(eos, from, to, amt)
    /\ UNCHANGED <<xyz, blocked, supply>>

SendXyz(from, to) ==
    /\ from # to
    /\ \E amt \in 1 .. xyz[from] : xyz' = Move(xyz, from, to, amt)
    /\ UNCHANGED <<eos, blocked, supply>>

Welcome(from, to) == to = from \/ to \notin blocked

\* No fee, no slippage: the same amount both ways.
EosForXyz(from, to) ==
    /\ Welcome(from, to)
    /\ \E amt \in 1 .. eos[from] :
           /\ amt <= xyz[Self]
           /\ eos' = Move(eos, from, Self, amt)
           /\ xyz' = Move(xyz, Self, to, amt)
    /\ UNCHANGED <<blocked, supply>>

XyzForEos(from, to) ==
    /\ Welcome(from, to)
    /\ \E amt \in 1 .. xyz[from] :
           /\ amt <= eos[Self]
           /\ xyz' = Move(xyz, from, Self, amt)
           /\ eos' = Move(eos, Self, to, amt)
    /\ UNCHANGED <<blocked, supply>>

\* EOS that unstaking or selling RAM sends here is kept without a swap.
Keep(from) ==
    /\ from \in Ignored
    /\ \E amt \in 1 .. eos[from] : eos' = Move(eos, from, Self, amt)
    /\ UNCHANGED <<xyz, blocked, supply>>

SetBlocked(n) ==
    /\ blocked' \in {blocked \cup {n}, blocked \ {n}}
    /\ UNCHANGED <<eos, xyz, supply>>

Next ==
    \/ Issue
    \/ \E from, to \in Users :
           SendEos(from, to) \/ SendXyz(from, to)
               \/ EosForXyz(from, to) \/ XyzForEos(from, to)
    \/ \E n \in Users : Keep(n)
    \/ \E n \in Name : SetBlocked(n)

Spec == Init /\ [][Next]_vars

=============================================================================
