--------------------------- MODULE MCStaking ------------------------------
(* Staking, refunds and the REX fund, for one plain user, bob, and one,       *)
(* carol, whose code stakes and swaps when tokens reach it.                   *)
EXTENDS Forwarding

CONSTANTS bob, carol, contract, eosio, ramfee

MCName == {bob, carol, contract, eosio, ramfee}
MCEosBalance ==
    [n \in MCName |-> CASE n = bob -> 3 [] n = eosio -> 2 [] n = carol -> 1 [] OTHER -> 0]
Total == 6

Call(kind, from, to, sym, amt, more, auth) ==
    [kind |-> kind, from |-> from, to |-> to, sym |-> sym, amt |-> amt,
     more |-> more, flag |-> FALSE, auth |-> auth, depth |-> 0]
Own(kind, n, amt) == Call(kind, n, n, "XYZ", amt, 0, {n})
Swap(n, amt) == Call("eosio.token::transfer", n, contract, "EOS", amt, 0, {n})

Stakes(n) ==
    {Call(k, n, bob, "XYZ", x[1], x[2], {n}) :
        k \in {"delegatebw", "undelegatebw"}, x \in {<<0, 1>>, <<1, 1>>, <<-1, 2>>}}
MCTransactions ==
    {<<a>> : a \in Stakes(bob)}
    \cup {<<Own(k, bob, x)>> : k \in {"deposit", "withdraw"}, x \in {0, 1, 2}}
    \cup {<<Own("refund", bob, 0)>>, <<Swap(bob, 1)>>, <<Swap(bob, 3)>>, <<Swap(carol, 1)>>,
          <<Call("transfer", bob, contract, "XYZ", 1, 0, {bob})>>,
          <<Own("delegatebw", carol, 1)>>, <<Own("deposit", carol, 1)>>,
          <<Call("eosio::setrex", eosio, eosio, "EOS", 2, 3, {eosio})>>,
          <<Own("undelegatebw", carol, 1), Own("refund", carol, 0)>>}
    \cup {<<Own("buyrex", bob, x)>> : x \in {1, 2}}
    \cup {<<Call(k, bob, bob, "OTHER", x, 0, {bob})>> :
             k \in {"mvfrsavings", "sellrex"}, x \in {1, 2}}
    \cup {<<Call(k, bob, bob, "EOS", 0, 0, {carol})>> :
             k \in {"swapexcess", "refund", "enforcebal"}}
    \cup {<<Call("init", contract, contract, "XYZ", Total, 0, {contract})>>}
MCReactions ==
    [n \in {carol} |->
        {<<>>, <<Swap(carol, 1)>>, <<Own("delegatebw", carol, 1)>>}]
MCOtherKinds == ForwardingKinds \cup SystemKinds
=============================================================================
