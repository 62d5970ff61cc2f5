----------------------------- MODULE MCSettle -----------------------------
(* SwapContract with two plain users who swap for each other, close their    *)
(* rows and block each other, while the contract's own row may be closed.    *)
EXTENDS SwapContract

CONSTANTS alice, bob, ram, contract

MCName == {alice, bob, ram, contract}
MCEosBalance ==
    [n \in MCName |-> CASE n = alice -> 2 [] n = contract -> 0 [] OTHER -> 1]
Total == 4
Users == {alice, bob}
Eos == "eosio.token::transfer"

Call(kind, from, to, sym, amt, flag) ==
    [kind |-> kind, from |-> from, to |-> to, sym |-> sym, amt |-> amt,
     more |-> 0, flag |-> flag, auth |-> {from}, depth |-> 0]

MCTransactions ==
    {<<Call("swapto", f, t, s, x, FALSE)>> :
        f \in Users, t \in Users, s \in {"EOS", "XYZ"}, x \in {1, 2, 3}}
    \cup {<<Call(Eos, f, contract, "EOS", 1, FALSE)>> : f \in {alice, bob, ram}}
    \cup {<<Call("transfer", f, contract, "XYZ", 1, FALSE)>> : f \in Users}
    \cup {<<Call("close", n, n, "XYZ", 0, FALSE)>> : n \in {bob, contract}}
    \cup {<<Call("blockswapto", bob, bob, "XYZ", 0, flag)>> : flag \in BOOLEAN}
    \cup {<<Call("init", contract, contract, "XYZ", Total, FALSE)>>}
NoReactions == [n \in {} |-> {}]
=============================================================================
