------------------------------ MODULE MCCalls ------------------------------
(* Forwarding on chains where no account has code.  bob calls; alice signs    *)
(* calls in his name.  In MCCalls.cfg he uses services, in MCDeposits.cfg he  *)
(* has eosio hold EOS for him.                                                *)
EXTENDS Forwarding

CONSTANTS alice, bob, contract, eosio, ramfee

MCName == {alice, bob, contract, eosio, ramfee}
BobRich == [n \in MCName |-> CASE n = bob -> 3 [] n = eosio -> 2 [] OTHER -> 0]
EosioRich == [n \in MCName |-> CASE n = bob -> 2 [] n = eosio -> 3 [] OTHER -> 0]
Total == 5

Call(kind, from, to, sym, amt, more, auth) ==
    [kind |-> kind, from |-> from, to |-> to, sym |-> sym, amt |-> amt,
     more |-> more, flag |-> FALSE, auth |-> auth, depth |-> 0]
Own(kind, amt) == Call(kind, bob, bob, "XYZ", amt, 0, {bob})
InRex(kind, amt) == Call(kind, bob, alice, "OTHER", amt, 0, {bob})
Forged(kinds) == {Call(k, bob, bob, "XYZ", 1, 0, {alice}) : k \in kinds}
Alone(actions) == {<<a>> : a \in actions}

Init1 == Call("init", contract, contract, "XYZ", Total, 0, {contract})
Swaps ==
    {Call("eosio.token::transfer", bob, contract, "EOS", x, 0, {bob}) : x \in {1, 3}}
    \cup {Call("transfer", bob, contract, "XYZ", 1, 0, {bob})}

ForServices == Alone(
    {Own(k, 1) : k \in SwapsBefore \ {"deposit", "delegatebw"}}
    \cup {Own(k, 1) : k \in {"bidrefund", "claimrewards"}}
    \cup {Own("powerup", 2), Own("sellram", 3), Own("unstaketorex", 1)}
    \cup {InRex(k, 1) : k \in PassedOn \ {"mvfrsavings", "sellrex"}}
    \cup Forged({"buyram", "buyrambytes", "bidrefund", "setcode",
                 "unstaketorex", "updateauth"})
    \cup {Call("swapexcess", bob, bob, "EOS", 1, 0, {alice})}
    \cup Swaps
    \cup {Init1, Call("noop", bob, bob, "XYZ", 0, 0, {}),
          Call("eosio::setrammarket", eosio, eosio, "EOS", 3, 4, {eosio})})

ForDeposits == Alone(
    {Own("refund", 0)}
    \cup {Own(k, x) : k \in {"deposit", "withdraw", "buyrex"}, x \in {1, 2}}
    \cup {Call(k, bob, bob, "XYZ", 0, 1, {bob}) : k \in {"delegatebw", "undelegatebw"}}
    \cup {InRex(k, x) : k \in {"mvfrsavings", "sellrex"}, x \in {1, 2}}
    \cup Forged({"sellrex", "withdraw", "refund"})
    \cup Swaps
    \cup {Init1, Call("eosio::setrex", eosio, eosio, "EOS", 2, 3, {eosio})})

NoReactions == [n \in {} |-> {}]
MCOtherKinds == ForwardingKinds \cup SystemKinds

\* CallsAreAtomic is checked where it is proved.
ASSUME CallsAloneHere == CallsAlone
=============================================================================
