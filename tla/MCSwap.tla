------------------------------ MODULE MCSwap ------------------------------
(* SwapContract on a small chain without code on the users' accounts. *)
EXTENDS SwapContract

CONSTANTS alice, bob, ram, ghost, contract

MCName == {alice, bob, ram, ghost, contract}
MCAccount == {alice, bob, ram, contract}
MCEosBalance ==
    [n \in MCName |-> CASE n = alice -> 2 [] n = ram -> 1 [] OTHER -> 0]
Total == 3
Users == {alice, bob}
Eos == "eosio.token::transfer"

Call(kind, from, to, sym, amt, flag, auth) ==
    [kind |-> kind, from |-> from, to |-> to, sym |-> sym, amt |-> amt,
     more |-> 0, flag |-> flag, auth |-> auth, depth |-> 0]

\* Alone or, when the receiver pays the RAM of his row, signed by both.
Transfers ==
    {Call(Eos, f, t, "EOS", x, FALSE, {f}) :
        f \in Users, t \in MCAccount, x \in {1, 2}}
    \cup {Call(Eos, ram, t, "EOS", 1, FALSE, {ram}) : t \in {alice, contract}}
    \cup {Call("transfer", f, t, "XYZ", x, FALSE, auth) :
             f \in Users, t \in MCAccount \ {ram}, x \in {1, 2},
             auth \in {{alice}, {alice, bob}}}
Swaps ==
    {Call("swapto", f, t, s, x, FALSE, {f}) :
        f \in Users, t \in {alice, bob, contract}, s \in {"EOS", "XYZ"}, x \in {1, 2}}
Rows ==
    {Call("open", f, t, "XYZ", 0, FALSE, {t}) :
        f \in {alice, bob, contract}, t \in {bob, contract}}
    \cup {Call("close", f, f, "XYZ", 0, FALSE, {f}) : f \in {alice, bob, contract}}
Blocks ==
    {Call("blockswapto", n, n, "XYZ", 0, flag, auth) :
        n \in {bob, ghost}, flag \in BOOLEAN, auth \in {{bob}, {contract}}}
\* What each check is there to refuse.
Refused ==
    {Call(c[1], alice, t, c[2], x, FALSE, auth) :
        c \in {<<Eos, "EOS">>, <<Eos, "OTHER">>, <<"transfer", "XYZ">>,
               <<"transfer", "EOS">>, <<"swapto", "XYZ">>, <<"swapto", "OTHER">>},
        t \in {ghost, contract}, x \in {-1, 1}, auth \in {{alice}, {bob}}}
    \cup {Call("open", n, alice, s, 0, FALSE, {bob}) :
             n \in {alice, ghost}, s \in {"XYZ", "EOS"}}
    \cup {Call("close", alice, alice, s, 0, FALSE, {bob}) : s \in {"XYZ", "EOS"}}
    \cup {Call("blockswapto", ghost, ghost, "XYZ", 0, TRUE, {contract})}
    \cup {Call("blockswapto", bob, bob, "XYZ", 0, flag, {alice}) : flag \in BOOLEAN}
Inits ==
    {Call("init", contract, contract, "XYZ", x, FALSE, auth) :
        x \in {0, Total}, auth \in {{alice}, {contract}}}

MCTransactions ==
    {<<a>> : a \in Transfers \cup Swaps \cup Rows \cup Blocks \cup Refused \cup Inits}
NoReactions == [n \in {} |-> {}]

\* SwapsAreAtomic is checked where it is proved.
ASSUME SwapsAloneHere == SwapsAlone
=============================================================================
