--------------------------- MODULE MCForwarding ---------------------------
(* Names, RAM, powerups and refunds of bids, for one plain user, bob, and     *)
(* one, carol, whose code answers transfers and moves the price of RAM.       *)
EXTENDS Forwarding

CONSTANTS bob, carol, contract, eosio, ramfee

MCName == {bob, carol, contract, eosio, ramfee}
MCEosBalance ==
    [n \in MCName |-> IF n \in {bob, carol, eosio} THEN 2 ELSE 0]
Total == 6

Call(kind, from, to, sym, amt, more, auth) ==
    [kind |-> kind, from |-> from, to |-> to, sym |-> sym, amt |-> amt,
     more |-> more, flag |-> FALSE, auth |-> auth, depth |-> 0]
Own(kind, n, amt) == Call(kind, n, n, "XYZ", amt, 0, {n})
Swap(n, amt) == Call("eosio.token::transfer", n, contract, "EOS", amt, 0, {n})
SetMarket(n, ram, money) ==
    Call("eosio::setrammarket", n, n, "EOS", ram, money, {n})

OfBob ==
    {Own(k, bob, 1) : k \in {"bidname", "buyram", "buyramburn", "buyramself",
                             "donatetorex", "bidrefund", "claimrewards"}}
    \cup {Own("powerup", bob, x) : x \in {0, 1, 2}}
    \cup {Own("buyrambytes", bob, x) : x \in {0, 1, 3}}
    \cup {Own("sellram", bob, x) : x \in {3, 5}}
    \cup {Swap(bob, 1), Swap(bob, 2),
          Call("transfer", bob, contract, "XYZ", 1, 0, {bob})}
OfCarol ==
    {Swap(carol, 1), Own("buyrambytes", carol, 1), Own("powerup", carol, 2)}
\* What the checks of the helpers, and of a wrong signature, refuse.
Refused ==
    {Call(k, bob, contract, "EOS", 0, 0, {carol}) :
        k \in {"swaptrace", "swapexcess", "enforcebal"}}
    \cup {Call("buyram", bob, contract, "XYZ", 0, 0, {carol})}
    \cup {Call("bidname", bob, bob, "OTHER", 1, 0, {bob})}

MCTransactions ==
    {<<a>> : a \in OfBob \cup OfCarol \cup Refused}
    \cup {<<SetMarket(eosio, 3, m)>> : m \in {2, 4}}
    \cup {<<Call("init", contract, contract, "XYZ", Total, 0, {contract})>>}
MCReactions ==
    [n \in {carol} |->
        {<<>>, <<Swap(carol, 1)>>, <<SetMarket(carol, 3, 4)>>,
         <<SetMarket(carol, 3, 2)>>,
         <<Call("transfer", carol, contract, "XYZ", 1, 0, {carol})>>,
         <<Own("buyrambytes", carol, 1)>>}]
MCOtherKinds == ForwardingKinds \cup SystemKinds
=============================================================================
