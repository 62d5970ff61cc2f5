------------------------------ MODULE MCToken ------------------------------
(* EosioToken with two users and amounts up to MaxAmount + 1. *)
EXTENDS EosioToken

CONSTANTS alice, bob, token, ghost

MCName == {alice, bob, token, ghost}
MCQuantities == {-MaxAmount - 1, -1} \cup 0 .. MaxAmount + 1
=============================================================================
