----------------------------- MODULE MCReentry -----------------------------
(* SwapContract with an account, carol, whose code answers every transfer it *)
(* sends or receives, by swaps, transfers, or blocking herself or another,   *)
(* and transactions of up to two actions.                                    *)
EXTENDS SwapContract

CONSTANTS alice, carol, ram, contract

MCName == {alice, carol, ram, contract}
MCEosBalance == [n \in MCName |-> IF n = contract THEN 0 ELSE 1]
Total == 3
Eos == "eosio.token::transfer"

Call(kind, from, to, sym, amt, auth) ==
    [kind |-> kind, from |-> from, to |-> to, sym |-> sym, amt |-> amt,
     more |-> 0, flag |-> TRUE, auth |-> auth, depth |-> 0]

Moves(n, others, amts) ==
    {Call(c[1], n, t, c[2], x, {n}) :
        c \in {<<Eos, "EOS">>, <<"transfer", "XYZ">>}, t \in others, x \in amts}
Swaps(n, t) == {Call("swapto", n, t, s, 1, {n}) : s \in {"EOS", "XYZ"}}
Closes == {Call("close", contract, contract, "XYZ", 0, {contract})}

\* She may block herself after swapto has found her not to be, but not alice.
Blocks == {Call("blockswapto", n, n, "XYZ", 0, {carol}) : n \in {alice, carol}}

Swapping ==
    Moves(alice, {contract}, {1, 2}) \cup Swaps(alice, carol)
        \cup {Call(Eos, ram, contract, "EOS", 1, {ram})}
Calls == Moves(alice, {carol}, {1, 2}) \cup Swapping \cup Closes
MCTransactions ==
    {<<a>> : a \in Calls} \cup {<<a, b>> : a \in Calls, b \in Swapping}
        \cup {<<a>> : a \in Moves(carol, {contract}, {1})}
        \cup {<<Call("swapto", alice, carol, "EOS", 1, {ram})>>}
        \cup {<<Call("init", contract, contract, "XYZ", Total, {contract})>>}
MCReactions ==
    [n \in {carol} |->
        {<<>>} \cup {<<a>> : a \in Moves(carol, {alice, contract}, {1})
                                \cup Swaps(carol, alice) \cup Blocks}]
=============================================================================
