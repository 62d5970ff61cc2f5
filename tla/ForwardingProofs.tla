-------------------------- MODULE ForwardingProofs --------------------------
(***************************************************************************)
(* Theorems about Forwarding, for any set of accounts, any handlers of     *)
(* theirs, any transactions and any depth limit.                           *)
(***************************************************************************)
EXTENDS Forwarding, SwapContractProofs

-----------------------------------------------------------------------------
(* What the forwarding actions and eosio send                              *)

Setters == {"eosio::setrammarket", "eosio::setrex"}

\* Calls of eosio, EOS transfers and checks in the name of a's first account, EOS
\* that eosio pays, and the swap of what that account then has too much.
SentBy(a) ==
    {b \in Action :
        \/ /\ b.kind \in (SystemKinds \ Setters) \cup {"eosio.token::transfer", "enforcebal"}
           /\ b.from = a.from /\ b.auth = {a.from}
        \/ b.kind = "eosio.token::transfer" /\ b.auth = {System}
        \/ b.kind = "swapexcess" /\ b.auth = {Self} /\ b.from = a.from}

LEMMA KindsOfOthers ==
    /\ ForwardingKinds \cup SystemKinds \subseteq Kinds
    /\ OtherKinds = ForwardingKinds \cup SystemKinds
    /\ "eosio.token::transfer" \in Kinds
    /\ {"enforcebal", "swapexcess", "swaptrace"} \subseteq ForwardingKinds
  BY KindsAssumption DEF Kinds, ForwardingKinds

LEMMA CallSent ==
    ASSUME NEW a \in Action, NEW kind \in SystemKinds \ Setters, NEW to \in Name,
           NEW sym \in Symbols, NEW amt \in Int
    PROVE  /\ Inline(a, kind, a.from, to, sym, amt, {a.from}) \in SentBy(a)
           /\ [Inline(a, kind, a.from, to, sym, amt, {a.from}) EXCEPT !.more = a.more]
                  \in SentBy(a)
<1> DEFINE b == Inline(a, kind, a.from, to, sym, amt, {a.from})
<1>1. a.from \in Name /\ a.more \in Int /\ kind \in Kinds
  BY KindsOfOthers DEF Action
<1>2. b \in Action
  BY <1>1, InlineType
<1>3. b.kind = kind /\ b.from = a.from /\ b.auth = {a.from}
  BY DEF Inline
<1> HIDE DEF b
<1>4. /\ [b EXCEPT !.more = a.more] \in Action
      /\ [b EXCEPT !.more = a.more].kind = kind
      /\ [b EXCEPT !.more = a.more].from = a.from
      /\ [b EXCEPT !.more = a.more].auth = {a.from}
  BY <1>1, <1>2, <1>3 DEF Action
<1>5. b \in SentBy(a) /\ [b EXCEPT !.more = a.more] \in SentBy(a)
  BY <1>2, <1>3, <1>4 DEF SentBy
<1> QED
  BY <1>5 DEF b

LEMMA TransferSent ==
    ASSUME NEW a \in Action, NEW to \in Name, NEW amt \in Int
    PROVE  /\ Inline(a, "eosio.token::transfer", a.from, to, "EOS", amt, {a.from}) \in SentBy(a)
           /\ Inline(a, "eosio.token::transfer", System, to, "EOS", amt, {System}) \in SentBy(a)
           /\ Inline(a, "enforcebal", a.from, to, "EOS", amt, {a.from}) \in SentBy(a)
           /\ Inline(a, "swapexcess", a.from, to, "EOS", amt, {Self}) \in SentBy(a)
<1>1. /\ a.from \in Name /\ System \in Name /\ Self \in Name
      /\ "enforcebal" \in Kinds /\ "swapexcess" \in Kinds
      /\ "eosio.token::transfer" \in Kinds /\ "EOS" \in Symbols
  BY KindsOfOthers, NamesAssumption, SystemAssumption DEF Action, Symbols
<1>2. /\ Inline(a, "eosio.token::transfer", a.from, to, "EOS", amt, {a.from}) \in Action
      /\ Inline(a, "eosio.token::transfer", System, to, "EOS", amt, {System}) \in Action
      /\ Inline(a, "enforcebal", a.from, to, "EOS", amt, {a.from}) \in Action
      /\ Inline(a, "swapexcess", a.from, to, "EOS", amt, {Self}) \in Action
  BY <1>1, InlineType
<1> QED
  BY <1>2 DEF SentBy, Inline

LEMMA ForwardSent ==
    ASSUME NEW a \in Action, NEW kind \in SystemKinds \ Setters, NEW amt \in Int
    PROVE  /\ Forward(a, kind, amt) \in Seq(SentBy(a))
           /\ PassedCall(a, kind) \in Seq(SentBy(a))
<1> a.to \in Name /\ a.sym \in Symbols /\ a.amt \in Int /\ "EOS" \in Symbols
  BY DEF Action, Symbols
<1>1. /\ [Inline(a, kind, a.from, a.to, "EOS", amt, {a.from}) EXCEPT !.more = a.more]
             \in SentBy(a)
      /\ [Inline(a, kind, a.from, a.to, a.sym, a.amt, {a.from}) EXCEPT !.more = a.more]
             \in SentBy(a)
  BY CallSent
<1> QED
  BY <1>1 DEF Forward, PassedCall

LEMMA ExcessSent ==
    ASSUME TypeOK, NEW a \in Action
    PROVE  /\ SwapsExcess(a) \in Seq(SentBy(a))
           /\ \A amt \in Int : SwapAfter(a, a.from, amt) \in Seq(SentBy(a))
<1> a.from \in Name /\ Self \in Name /\ eos[a.from] \in Int
  BY NamesAssumption DEF Action, TypeOK
<1>1. Inline(a, "swapexcess", a.from, Self, "EOS", eos[a.from], {Self}) \in SentBy(a)
  BY TransferSent
<1>2. \A amt \in Int :
          Inline(a, "eosio.token::transfer", a.from, Self, "EOS", amt, {a.from}) \in SentBy(a)
  BY TransferSent
<1> QED
  BY <1>1, <1>2 DEF SwapsExcess, SwapAfter

\* Two sequences of what a sends, one after the other.
LEMMA SentTogether ==
    ASSUME NEW a \in Action, NEW s \in Seq(SentBy(a)), NEW t \in Seq(SentBy(a))
    PROVE  s \o t \in Seq(SentBy(a))
  BY ConcatProperties

\* A number of bytes has a price, or one of the things read instead.
LEMMA RamCostsType ==
    ASSUME SystemTypeOK, NEW bytes \in Int PROVE RamCosts(bytes) \subseteq Int
<1>1. CASE market = NoRow
  BY <1>1, SystemAssumption DEF RamCosts
<1>2. CASE market # NoRow
  <2>1. market.ram \in Nat /\ market.eos \in Nat
    BY <1>2 DEF SystemTypeOK, IsSystemDatabase, SystemTables, Market
  <2>2. GetBancorInput(market.ram, market.eos, bytes) \in Int
    BY <2>1 DEF GetBancorInput
  <2> QED
    BY <1>2, <2>2 DEF RamCosts, CostPlusFee
<1> QED
  BY <1>1, <1>2

\* Who sends something in the name of the account named first: its signer, eosio,
\* which a signer has called, or the contract after a call.
MaySend(a) ==
    \/ a.from \in a.auth
    \/ a.kind \in SystemKinds \ Setters
    \/ a.kind = "swapexcess" /\ Self \in a.auth

Sends(a, s) == s \in Seq(SentBy(a)) /\ (s # <<>> => MaySend(a))

\* A call, of this contract or of eosio, that moves no XYZ.
CallStep(a) ==
    /\ a.kind \in OtherKinds \ {"swaptrace"}
    /\ UNCHANGED <<tables, tracked>>
    /\ UNCHANGED systemTables \/ SystemExecute(a)
    /\ \E s : Sends(a, s) /\ Finish(s)

\* A call that XYZ is swapped for.
SwapStep(a) ==
    /\ a.kind \in SwapsBefore
    /\ \E amt \in Int : \E s : Sends(a, s) /\ SwapBefore(a, amt, s)

LEMMA CollectSends ==
    ASSUME NEW a \in Action, NEW amt \in Int, MaySend(a)
    PROVE  /\ Collect(a, amt) => \E s : Sends(a, s) /\ Finish(s)
           /\ PayOut(a, amt) => \E s : Sends(a, s) /\ Finish(s)
<1> DEFINE e1 == Inline(a, "eosio.token::transfer", a.from, System, "EOS", amt, {a.from})
           e2 == Inline(a, "eosio.token::transfer", System, a.from, "EOS", amt, {System})
<1>1. System \in Name /\ a.from \in Name
  BY SystemAssumption, NamesAssumption DEF Action
<1>2. e1 \in SentBy(a) /\ e2 \in SentBy(a)
  BY <1>1, TransferSent
<1>3. (Collect(a, amt) => Finish(<<e1>>)) /\ (PayOut(a, amt) => Finish(<<e2>>))
  BY DEF Collect, PayOut
<1> HIDE DEF e1, e2
<1>4. Sends(a, <<e1>>) /\ Sends(a, <<e2>>)
  BY <1>2 DEF Sends
<1> QED
  BY <1>3, <1>4

LEMMA NothingSent == ASSUME NEW a, Finish(<<>>) PROVE \E s : Sends(a, s) /\ Finish(s)
<1>1. Sends(a, <<>>)
  BY DEF Sends
<1> QED
  BY <1>1

\* A sale pays the fee, if there is one, and then yields the price.
LEMMA SellramSends ==
    ASSUME SystemTypeOK, NEW a \in Action, EosioSellram(a)
    PROVE  \E s : Sends(a, s) /\ Finish(s)
<1> DEFINE price == GetBancorOutput(market.ram, market.eos, a.amt % ByteRange)
           fee == SellFee(price)
           e1 == Inline(a, "eosio.token::transfer", a.from, RamFee, "EOS", fee, {a.from})
           e2 == Inline(a, "eosio.token::transfer", System, a.from, "EOS", price, {System})
<1>1. /\ RamFee \in Name /\ a.from \in Name /\ a.amt \in Int /\ ByteRange \in Nat \ {0}
  BY SystemAssumption, NamesAssumption DEF Action
<1>2. market.ram \in Nat /\ market.eos \in Nat
  BY DEF EosioSellram, EosioSellramOk, SystemTypeOK, IsSystemDatabase, SystemTables, Market
<1>3. a.amt % ByteRange \in Nat
  BY <1>1
<1>4. price \in Int /\ fee \in Int
  BY <1>2, <1>3 DEF GetBancorOutput, SellFee
<1>5. Finish((IF fee > 0 THEN <<e1>> ELSE <<>>) \o <<e2>>)
  BY DEF EosioSellram
<1> HIDE DEF price, fee
<1>6. e1 \in SentBy(a) /\ e2 \in SentBy(a)
  BY <1>1, <1>4, TransferSent
<1>7. MaySend(a)
  BY DEF EosioSellram, MaySend, SystemKinds, Setters
<1> HIDE DEF e1, e2
<1>8. (IF fee > 0 THEN <<e1>> ELSE <<>>) \o <<e2>> \in Seq(SentBy(a))
  <2>1. (IF fee > 0 THEN <<e1>> ELSE <<>>) \in Seq(SentBy(a)) /\ <<e2>> \in Seq(SentBy(a))
    BY <1>6
  <2> QED
    BY <2>1, ConcatProperties
<1> QED
  BY <1>5, <1>7, <1>8 DEF Sends

LEMMA SystemSends ==
    ASSUME SystemTypeOK, NEW a \in Action, SystemExecute(a)
    PROVE  a.kind \in SystemKinds /\ CallStep(a)
<1> SUFFICES /\ a.kind \in SystemKinds
             /\ UNCHANGED <<tables, tracked>>
             /\ \E s : Sends(a, s) /\ Finish(s)
  BY KindsOfOthers DEF CallStep, SystemKinds, QuietKinds
<1> a.amt \in Int /\ a.more \in Int /\ a.from \in Name /\ a.to \in Name /\ OneEos \in Int
  BY SystemAssumption DEF Action
<1>1. CASE EosioBidname(a)
  <2>1. a.kind \in SystemKinds /\ UNCHANGED <<tables, tracked>> /\ MaySend(a)
    BY <1>1 DEF EosioBidname, SystemKinds, Setters, MaySend
  <2> QED
    BY <1>1, <2>1, CollectSends DEF EosioBidname
<1>2. CASE EosioBidrefund(a)
  <2>1. a.kind \in SystemKinds /\ UNCHANGED <<tables, tracked>> /\ MaySend(a)
    BY <1>2 DEF EosioBidrefund, SystemKinds, Setters, MaySend
  <2> QED
    BY <1>2, <2>1, CollectSends DEF EosioBidrefund
<1>3. CASE EosioBuyram(a)
  <2>1. a.kind \in SystemKinds /\ UNCHANGED <<tables, tracked>> /\ MaySend(a)
    BY <1>3 DEF EosioBuyram, SystemKinds, Setters, MaySend
  <2> QED
    BY <1>3, <2>1, CollectSends DEF EosioBuyram
<1>4. CASE EosioBuyrambytes(a)
  <2>1. a.kind \in SystemKinds /\ UNCHANGED <<tables, tracked>> /\ MaySend(a)
    BY <1>4 DEF EosioBuyrambytes, SystemKinds, Setters, MaySend
  <2>2. PICK cost \in RamCosts(a.amt) :
            Finish(<<Inline(a, "eosio::buyram", a.from, a.to, "EOS", cost, {a.from})>>)
    BY <1>4 DEF EosioBuyrambytes
  <2>3. cost \in Int
    BY RamCostsType
  <2>4. "eosio::buyram" \in SystemKinds \ Setters /\ "EOS" \in Symbols
    BY DEF SystemKinds, Setters, Symbols
  <2>5. Inline(a, "eosio::buyram", a.from, a.to, "EOS", cost, {a.from}) \in SentBy(a)
    BY <2>3, <2>4, CallSent
  <2>6. Sends(a, <<Inline(a, "eosio::buyram", a.from, a.to, "EOS", cost, {a.from})>>)
    BY <2>1, <2>5 DEF Sends
  <2> QED
    BY <2>1, <2>2, <2>6
<1>5. CASE EosioSellram(a)
  <2>1. a.kind \in SystemKinds /\ UNCHANGED <<tables, tracked>>
    BY <1>5 DEF EosioSellram, SystemKinds
  <2> QED
    BY <1>5, <2>1, SellramSends
<1>6. CASE EosioDonatetorex(a)
  <2>1. a.kind \in SystemKinds /\ UNCHANGED <<tables, tracked>> /\ MaySend(a)
    BY <1>6 DEF EosioDonatetorex, SystemKinds, Setters, MaySend
  <2> QED
    BY <1>6, <2>1, CollectSends DEF EosioDonatetorex
<1>7. CASE EosioPowerup(a)
  <2>1. a.kind \in SystemKinds /\ UNCHANGED <<tables, tracked>> /\ MaySend(a)
    BY <1>7 DEF EosioPowerup, SystemKinds, Setters, MaySend
  <2>2. (IF a.amt > OneEos THEN OneEos ELSE a.amt) \in Int
    OBVIOUS
  <2> QED
    BY <1>7, <2>1, <2>2, CollectSends DEF EosioPowerup
<1>8. CASE EosioClaimrewards(a)
  <2>1. a.kind \in SystemKinds /\ UNCHANGED <<tables, tracked>> /\ MaySend(a)
    BY <1>8 DEF EosioClaimrewards, SystemKinds, Setters, MaySend
  <2>2. PICK reward \in Rewards : Finish(<<>>) \/ PayOut(a, reward)
    BY <1>8 DEF EosioClaimrewards
  <2>3. reward \in Int
    BY SystemAssumption
  <2> QED
    BY <2>1, <2>2, <2>3, CollectSends, NothingSent
<1>9. CASE EosioDelegatebw(a)
  <2>1. a.kind \in SystemKinds /\ UNCHANGED <<tables, tracked>> /\ MaySend(a)
    BY <1>9 DEF EosioDelegatebw, SystemKinds, Setters, MaySend
  <2> QED
    BY <1>9, <2>1, CollectSends DEF EosioDelegatebw
<1>10. CASE EosioRefund(a)
  <2>1. a.kind \in SystemKinds /\ UNCHANGED <<tables, tracked>> /\ MaySend(a)
    BY <1>10 DEF EosioRefund, SystemKinds, Setters, MaySend
  <2>2. refunds[a.from] \in Int
    BY DEF SystemTypeOK, IsSystemDatabase, SystemTables
  <2> QED
    BY <1>10, <2>1, <2>2, CollectSends DEF EosioRefund
<1>11. CASE EosioDeposit(a)
  <2>1. a.kind \in SystemKinds /\ UNCHANGED <<tables, tracked>> /\ MaySend(a)
    BY <1>11 DEF EosioDeposit, SystemKinds, Setters, MaySend
  <2> QED
    BY <1>11, <2>1, CollectSends DEF EosioDeposit
<1>12. CASE EosioWithdraw(a)
  <2>1. a.kind \in SystemKinds /\ UNCHANGED <<tables, tracked>> /\ MaySend(a)
    BY <1>12 DEF EosioWithdraw, SystemKinds, Setters, MaySend
  <2> QED
    BY <1>12, <2>1, CollectSends DEF EosioWithdraw
<1>13. CASE \/ Setrammarket(a) \/ Setrex(a) \/ EosioQuiet(a) \/ EosioUndelegatebw(a)
            \/ EosioBuyrex(a) \/ EosioMvfrsavings(a) \/ EosioSellrex(a)
  <2>1. a.kind \in SystemKinds /\ UNCHANGED <<tables, tracked>> /\ Finish(<<>>)
    BY <1>13 DEF Setrammarket, Setrex, EosioQuiet, EosioUndelegatebw, EosioBuyrex,
                 EosioMvfrsavings, EosioSellrex, SystemKinds
  <2> QED
    BY <2>1, NothingSent
<1> QED
  BY <1>1, <1>2, <1>3, <1>4, <1>5, <1>6, <1>7, <1>8, <1>9, <1>10, <1>11, <1>12, <1>13
     DEF SystemExecute

LEMMA SwapForward ==
    ASSUME NEW a \in Action, a.kind \in SwapsBefore, NEW amt \in Int, NEW x \in Int,
           NEW kind \in SystemKinds \ Setters, SwapBefore(a, amt, Forward(a, kind, x))
    PROVE  SwapStep(a)
<1>1. a.from \in a.auth
  BY DEF SwapBefore, SwapBeforeOk
<1>2. Sends(a, Forward(a, kind, x))
  BY <1>1, ForwardSent DEF Sends, MaySend
<1> QED
  BY <1>2 DEF SwapStep

LEMMA SwapCalls ==
    ASSUME SystemTypeOK, NEW a \in Action,
           \/ Bidname(a) \/ Buyram(a) \/ Buyramburn(a) \/ Buyramself(a) \/ Deposit(a)
           \/ Donatetorex(a) \/ Delegatebw(a) \/ Powerup(a) \/ Buyrambytes(a)
    PROVE  SwapStep(a)
<1> /\ a.amt \in Int /\ a.more \in Int /\ a.amt + a.more \in Int
    /\ a.from \in Name /\ Self \in Name
  BY NamesAssumption DEF Action
<1>1. CASE \/ Bidname(a) \/ Buyram(a) \/ Buyramburn(a) \/ Buyramself(a) \/ Deposit(a)
           \/ Donatetorex(a) \/ Delegatebw(a)
  <2>1. {"eosio::bidname", "eosio::buyram", "eosio::buyramburn", "eosio::buyramself",
         "eosio::deposit", "eosio::donatetorex", "eosio::delegatebw"}
            \subseteq SystemKinds \ Setters
    BY DEF SystemKinds, Setters
  <2>2. a.kind \in SwapsBefore
    BY <1>1 DEF Bidname, Buyram, Buyramburn, Buyramself, Deposit, Donatetorex, Delegatebw,
                SwapsBefore
  <2> QED
    BY <1>1, <2>1, <2>2, SwapForward
       DEF Bidname, Buyram, Buyramburn, Buyramself, Deposit, Donatetorex, Delegatebw
<1>2. CASE Powerup(a)
  <2>1. /\ a.kind \in SwapsBefore /\ a.from \in a.auth
        /\ SwapBefore(a, a.amt, Forward(a, "eosio::powerup", a.amt) \o SwapsExcess(a))
    BY <1>2 DEF Powerup, SwapsBefore, SwapBefore, SwapBeforeOk
  <2>2. "eosio::powerup" \in SystemKinds \ Setters
    BY DEF SystemKinds, Setters
  <2>3. Forward(a, "eosio::powerup", a.amt) \in Seq(SentBy(a))
    BY <2>2, ForwardSent
  <2>4. SwapsExcess(a) \in Seq(SentBy(a))
    BY ExcessSent DEF SystemTypeOK
  <2>5. Sends(a, Forward(a, "eosio::powerup", a.amt) \o SwapsExcess(a))
    BY <2>1, <2>3, <2>4, SentTogether DEF Sends, MaySend
  <2> QED
    BY <2>1, <2>5 DEF SwapStep
<1>3. CASE Buyrambytes(a)
  <2> DEFINE e == Inline(a, "enforcebal", a.from, Self, "EOS", eos[a.from], {a.from})
  <2>1. PICK cost \in RamCosts(a.amt) :
            SwapBefore(a, cost, Forward(a, "eosio::buyrambytes", a.amt) \o <<e>>)
    BY <1>3 DEF Buyrambytes
  <2>2. a.kind \in SwapsBefore /\ a.from \in a.auth /\ cost \in Int
    BY <1>3, <2>1, RamCostsType DEF Buyrambytes, SwapsBefore, SwapBefore, SwapBeforeOk
  <2>3. "eosio::buyrambytes" \in SystemKinds \ Setters /\ eos[a.from] \in Int
    BY DEF SystemKinds, Setters, SystemTypeOK, TypeOK
  <2>4. Forward(a, "eosio::buyrambytes", a.amt) \in Seq(SentBy(a))
    BY <2>3, ForwardSent
  <2>5. e \in SentBy(a)
    BY <2>3, TransferSent
  <2> HIDE DEF e
  <2>6. <<e>> \in Seq(SentBy(a))
    BY <2>5
  <2>7. Sends(a, Forward(a, "eosio::buyrambytes", a.amt) \o <<e>>)
    BY <2>2, <2>4, <2>6, SentTogether DEF Sends, MaySend
  <2> QED
    BY <2>1, <2>2, <2>7 DEF SwapStep
<1> QED
  BY <1>1, <1>2, <1>3

LEMMA ExcessCalls ==
    ASSUME SystemTypeOK, NEW a \in Action,
           Bidrefund(a) \/ Sellram(a) \/ Refund(a) \/ Claimrewards(a) \/ Withdraw(a)
    PROVE  CallStep(a)
<1> a.amt \in Int
  BY DEF Action
<1>1. a.kind \in OtherKinds \ {"swaptrace"}
  BY KindsOfOthers
     DEF Bidrefund, Sellram, Refund, Claimrewards, Withdraw, ForwardingKinds, SwapsAfter
<1>2. ASSUME NEW kind \in SystemKinds \ Setters, CallAndSwapExcess(a, kind)
      PROVE  CallStep(a)
  <2>1. Forward(a, kind, a.amt) \in Seq(SentBy(a)) /\ SwapsExcess(a) \in Seq(SentBy(a))
    BY ForwardSent, ExcessSent DEF SystemTypeOK
  <2>2. Sends(a, Forward(a, kind, a.amt) \o SwapsExcess(a))
    BY <1>2, <2>1, SentTogether DEF Sends, MaySend, CallAndSwapExcess
  <2> QED
    BY <1>1, <1>2, <2>2 DEF CallStep, CallAndSwapExcess
<1>3. CASE Bidrefund(a) \/ Sellram(a) \/ Refund(a) \/ Claimrewards(a)
  <2>1. {"eosio::bidrefund", "eosio::sellram", "eosio::refund", "eosio::claimrewards"}
            \subseteq SystemKinds \ Setters
    BY DEF SystemKinds, Setters
  <2> QED
    BY <1>2, <1>3, <2>1 DEF Bidrefund, Sellram, Refund, Claimrewards
<1>4. CASE Withdraw(a)
  <2>1. "eosio::withdraw" \in SystemKinds \ Setters
    BY DEF SystemKinds, Setters
  <2>2. /\ Forward(a, "eosio::withdraw", a.amt) \in Seq(SentBy(a))
        /\ SwapAfter(a, a.from, a.amt) \in Seq(SentBy(a))
    BY <2>1, ForwardSent, ExcessSent DEF SystemTypeOK
  <2>3. Sends(a, Forward(a, "eosio::withdraw", a.amt) \o SwapAfter(a, a.from, a.amt))
    BY <1>4, <2>2, SentTogether DEF Sends, MaySend, Withdraw, WithdrawOk
  <2> QED
    BY <1>1, <1>4, <2>3 DEF CallStep, Withdraw
<1> QED
  BY <1>3, <1>4

LEMMA PassedCalls ==
    ASSUME SystemTypeOK, NEW a \in Action,
           \/ Ramburn(a) \/ Ramtransfer(a) \/ Mvfrsavings(a) \/ Mvtosavings(a) \/ Sellrex(a)
           \/ Newaccount(a) \/ Voteproducer(a) \/ Voteupdate(a)
           \/ Linkauth(a) \/ Unlinkauth(a) \/ Updateauth(a) \/ Deleteauth(a)
           \/ Setabi(a) \/ Setcode(a) \/ Giftram(a) \/ Ungiftram(a)
           \/ Buyrex(a) \/ Undelegatebw(a) \/ Unstaketorex(a)
    PROVE  CallStep(a)
<1> a.amt \in Int
  BY DEF Action
<1>1. CASE Buyrex(a) \/ Undelegatebw(a) \/ Unstaketorex(a)
  <2>1. {"eosio::buyrex", "eosio::undelegatebw", "eosio::unstaketorex"}
            \subseteq SystemKinds \ Setters
    BY DEF SystemKinds, QuietKinds, Setters
  <2>2. PICK kind \in SystemKinds \ Setters : PassOnInEos(a, kind)
    BY <1>1, <2>1 DEF Buyrex, Undelegatebw, Unstaketorex
  <2>3. a.kind \in OtherKinds \ {"swaptrace"}
    BY <1>1, KindsOfOthers
       DEF Buyrex, Undelegatebw, Unstaketorex, ForwardingKinds, PassedOnInEos
  <2>4. Sends(a, Forward(a, kind, a.amt))
    BY <2>2, ForwardSent DEF Sends, MaySend, PassOnInEos, PassOnInEosOk
  <2> QED
    BY <2>2, <2>3, <2>4 DEF CallStep, PassOnInEos
<1>2. CASE \/ Ramburn(a) \/ Ramtransfer(a) \/ Mvfrsavings(a) \/ Mvtosavings(a) \/ Sellrex(a)
           \/ Newaccount(a) \/ Voteproducer(a) \/ Voteupdate(a)
           \/ Linkauth(a) \/ Unlinkauth(a) \/ Updateauth(a) \/ Deleteauth(a)
           \/ Setabi(a) \/ Setcode(a) \/ Giftram(a) \/ Ungiftram(a)
  <2>1. {"eosio::ramburn", "eosio::ramtransfer", "eosio::mvfrsavings", "eosio::mvtosavings",
         "eosio::sellrex", "eosio::newaccount", "eosio::voteproducer", "eosio::voteupdate",
         "eosio::linkauth", "eosio::unlinkauth", "eosio::updateauth", "eosio::deleteauth",
         "eosio::setabi", "eosio::setcode", "eosio::giftram", "eosio::ungiftram"}
            \subseteq SystemKinds \ Setters
    BY DEF SystemKinds, QuietKinds, Setters
  <2>2. PICK kind \in SystemKinds \ Setters : PassOn(a, kind)
    BY <1>2, <2>1
       DEF Ramburn, Ramtransfer, Mvfrsavings, Mvtosavings, Sellrex, Newaccount, Voteproducer,
           Voteupdate, Linkauth, Unlinkauth, Updateauth, Deleteauth, Setabi, Setcode,
           Giftram, Ungiftram
  <2>3. a.kind \in OtherKinds \ {"swaptrace"}
    BY <1>2, KindsOfOthers
       DEF Ramburn, Ramtransfer, Mvfrsavings, Mvtosavings, Sellrex, Newaccount, Voteproducer,
           Voteupdate, Linkauth, Unlinkauth, Updateauth, Deleteauth, Setabi, Setcode,
           Giftram, Ungiftram, ForwardingKinds, PassedOn
  <2>4. Sends(a, PassedCall(a, kind))
    BY <2>2, ForwardSent DEF Sends, MaySend, PassOn
  <2> QED
    BY <2>2, <2>3, <2>4 DEF CallStep, PassOn
<1> QED
  BY <1>1, <1>2

LEMMA HelperCalls ==
    ASSUME SystemTypeOK, NEW a \in Action, Noop(a) \/ Enforcebal(a) \/ Swapexcess(a)
    PROVE  CallStep(a)
<1>1. a.kind \in OtherKinds \ {"swaptrace"}
  BY KindsOfOthers DEF Noop, Enforcebal, Swapexcess, ForwardingKinds
<1>2. CASE Noop(a) \/ Enforcebal(a)
  <2>1. UNCHANGED <<tables, systemTables, tracked>> /\ Finish(<<>>)
    BY <1>2 DEF Noop, Enforcebal
  <2> QED
    BY <1>1, <2>1, NothingSent DEF CallStep
<1>3. CASE Swapexcess(a)
  <2> DEFINE s == IF eos[a.from] > a.amt THEN SwapAfter(a, a.from, eos[a.from] - a.amt)
                                        ELSE <<>>
  <2>1. UNCHANGED <<tables, systemTables, tracked>> /\ Finish(s) /\ MaySend(a)
    BY <1>3 DEF Swapexcess, SwapexcessOk, MaySend
  <2>2. eos[a.from] - a.amt \in Int
    BY DEF SystemTypeOK, TypeOK, Action
  <2>3. SwapAfter(a, a.from, eos[a.from] - a.amt) \in Seq(SentBy(a))
    BY <2>2, ExcessSent DEF SystemTypeOK
  <2>4. Sends(a, s)
    BY <2>1, <2>3 DEF Sends
  <2> QED
    BY <1>1, <2>1, <2>4 DEF CallStep
<1> QED
  BY <1>2, <1>3

\* Every action does one of four things to the contract's tables.
LEMMA StepShapes ==
    ASSUME SystemTypeOK, NEW a \in Action, ForwardingExecute(a)
    PROVE  TokenStep(a) \/ Swaptrace(a) \/ SwapStep(a) \/ CallStep(a)
  BY SwapCalls, ExcessCalls, PassedCalls, HelperCalls, SystemSends DEF ForwardingExecute

-----------------------------------------------------------------------------
(* The inductive invariant: types, and what is pending                     *)

\* Those whose authority a transaction can use.
Authorities == signers \cup Coded \cup {Self, System}

\* An action of users, of their code, of eosio or of a forwarding action.  Calls are
\* never made with the authority of the contract, but for swapexcess, which comes
\* from one who may be charged.
CallAction(E) ==
    {a \in HonestAction :
        /\ a.auth \subseteq E
        /\ a.kind \in OtherKinds \ {"swapexcess"} => Self \notin a.auth
        /\ a.kind = "swapexcess" /\ Self \in a.auth => a.from \in E \ {Self}
        /\ SystemCall(a)}

\* The contract's own swaptrace.
TraceAction(E) ==
    {a \in HonestAction : a.kind = "swaptrace" /\ a.auth = {Self} /\ Self \in E}

\* A swaptrace runs right after the action that sends it.
CallInv ==
    /\ SystemTypeOK
    /\ pending \in Seq(CallAction(Authorities) \cup TraceAction(Authorities))
    /\ pending # <<>> => Tail(pending) \in Seq(CallAction(Authorities))

-----------------------------------------------------------------------------
(* Type correctness                                                        *)

LEMMA AuthoritiesType ==
    ASSUME TypeOK
    PROVE  /\ Authorities \in SUBSET Name
           /\ Coded \cup {Self, System} \subseteq Authorities
           /\ Self \in Name /\ System \in Name /\ System # Self
  BY NamesAssumption, SystemAssumption DEF TypeOK, Authorities

LEMMA AddType ==
    ASSUME NEW t, IsTable(t), NEW n \in Name, NEW amt \in Int
    PROVE  IsTable(Add(t, n, amt))
<1>1. \A m \in DOMAIN t \cup {n} : Row(t, m) + (IF m = n THEN amt ELSE 0) \in Int
  BY DEF IsTable, Row
<1> QED
  BY <1>1 DEF IsTable, Add

LEMMA UpdateType ==
    ASSUME NEW t, IsTable(t), NEW n \in DOMAIN t, NEW amt \in Int
    PROVE  IsTable([t EXCEPT ![n] = @ - amt])
  BY DEF IsTable

\* eosio keeps its tables well typed.
LEMMA SystemTablesType ==
    ASSUME SystemTypeOK, NEW a \in Action, SystemCall(a), SystemExecute(a), tracked' = tracked
    PROVE  IsSystemDatabase(SystemTables')
<1> /\ a.amt \in Int /\ a.more \in Int /\ a.from \in Name
    /\ IsSystemDatabase(SystemTables)
  BY DEF Action, SystemTypeOK
<1>1. ASSUME NEW s, s = SystemTables'
      PROVE  /\ s.market = market' /\ s.net = net' /\ s.cpu = cpu' /\ s.refunds = refunds'
             /\ s.fund = fund' /\ s.pool = pool' /\ s.staked = staked'
             /\ s.unstaking = unstaking' /\ s.tracked = tracked'
  BY <1>1 DEF SystemTables
<1>2. /\ market \in Market \cup {NoRow} /\ pool \in Pool \cup {NoRow}
      /\ net \in [Name -> Nat] /\ cpu \in [Name -> Nat] /\ refunds \in [Name -> Nat]
      /\ IsTable(fund) /\ IsTable(staked) /\ IsTable(unstaking)
      /\ tracked \in [Name -> Int]
  BY DEF IsSystemDatabase, SystemTables
<1> DEFINE T(k, n, c, r, f, p, st, u) ==
        /\ k \in Market \cup {NoRow} /\ p \in Pool \cup {NoRow}
        /\ n \in [Name -> Nat] /\ c \in [Name -> Nat] /\ r \in [Name -> Nat]
        /\ IsTable(f) /\ IsTable(st) /\ IsTable(u)
<1> SUFFICES T(market', net', cpu', refunds', fund', pool', staked', unstaking')
  BY <1>1, <1>2 DEF IsSystemDatabase
<1>3. CASE UNCHANGED systemTables
  BY <1>2, <1>3 DEF systemTables, stakeTables, rexTables
<1>4. CASE Setrammarket(a)
  <2>1. market' \in Market
    BY <1>4 DEF Setrammarket, SystemCall, Market
  <2> QED
    BY <1>2, <1>4, <2>1 DEF Setrammarket, stakeTables, rexTables
<1>5. CASE Setrex(a)
  <2>1. pool' \in Pool
    BY <1>5 DEF Setrex, SystemCall, Pool
  <2> QED
    BY <1>2, <1>5, <2>1 DEF Setrex, stakeTables
<1>6. CASE EosioDelegatebw(a)
  <2>1. a.amt \in Nat /\ a.more \in Nat
    BY <1>6 DEF EosioDelegatebw, StakeOk
  <2>2. net' \in [Name -> Nat] /\ cpu' \in [Name -> Nat]
    BY <1>2, <1>6, <2>1 DEF EosioDelegatebw
  <2> QED
    BY <1>2, <1>6, <2>2 DEF EosioDelegatebw, rexTables
<1>7. CASE EosioUndelegatebw(a)
  <2>1. /\ a.amt \in Nat /\ a.more \in Nat
        /\ net[a.from] - a.amt \in Nat /\ cpu[a.from] - a.more \in Nat
    BY <1>2, <1>7 DEF EosioUndelegatebw, EosioUndelegatebwOk, StakeOk
  <2>2. net' \in [Name -> Nat] /\ cpu' \in [Name -> Nat]
    BY <1>2, <1>7, <2>1 DEF EosioUndelegatebw
  <2>3. refunds' \in [Name -> Nat]
    <3>1. refunds[a.from] + a.amt + a.more \in Nat
      BY <1>2, <2>1
    <3>2. refunds' = [refunds EXCEPT ![a.from] = @ + a.amt + a.more]
      BY <1>7 DEF EosioUndelegatebw
    <3> QED
      BY <1>2, <3>1, <3>2
  <2> QED
    BY <1>2, <1>7, <2>2, <2>3 DEF EosioUndelegatebw, rexTables
<1>8. CASE EosioRefund(a)
  <2>1. refunds' \in [Name -> Nat]
    BY <1>2, <1>8 DEF EosioRefund
  <2> QED
    BY <1>2, <1>8, <2>1 DEF EosioRefund, rexTables
<1>9. CASE EosioDeposit(a)
  <2>1. IsTable(fund')
    BY <1>2, <1>9, AddType DEF EosioDeposit
  <2> QED
    BY <1>2, <1>9, <2>1 DEF EosioDeposit, stakeTables, rexTables
<1>10. CASE EosioWithdraw(a)
  <2>1. IsTable(fund')
    BY <1>2, <1>10, UpdateType DEF EosioWithdraw, HasFund
  <2> QED
    BY <1>2, <1>10, <2>1 DEF EosioWithdraw, stakeTables, rexTables
<1>11. CASE EosioBuyrex(a)
  <2>1. pool \in Pool /\ a.from \in DOMAIN fund
    BY <1>2, <1>11 DEF EosioBuyrex, EosioBuyrexOk, HasFund
  <2>2. EosToRex(a.amt) \in Int
    BY <2>1 DEF EosToRex, Pool
  <2>3. IsTable(fund') /\ IsTable(staked')
    BY <1>2, <1>11, <2>1, <2>2, AddType, UpdateType DEF EosioBuyrex
  <2> QED
    BY <1>2, <1>11, <2>3 DEF EosioBuyrex, stakeTables
<1>12. CASE EosioMvfrsavings(a)
  <2>1. IsTable(staked') /\ IsTable(unstaking')
    BY <1>2, <1>12, AddType, UpdateType DEF EosioMvfrsavings, HasRex
  <2> QED
    BY <1>2, <1>12, <2>1 DEF EosioMvfrsavings, stakeTables
<1>13. CASE EosioSellrex(a)
  <2>1. pool \in Pool /\ a.from \in DOMAIN unstaking
    BY <1>2, <1>13 DEF EosioSellrex, EosioSellrexOk, HasRex
  <2>2. RexToEos(a.amt) \in Int
    BY <2>1 DEF RexToEos, Pool
  <2>3. IsTable(fund') /\ IsTable(unstaking')
    BY <1>2, <1>13, <2>1, <2>2, AddType, UpdateType DEF EosioSellrex
  <2> QED
    BY <1>2, <1>13, <2>3 DEF EosioSellrex, stakeTables
<1>14. UNCHANGED systemTables \/ Setrammarket(a) \/ Setrex(a) \/ EosioDelegatebw(a)
         \/ EosioUndelegatebw(a) \/ EosioRefund(a) \/ EosioDeposit(a) \/ EosioWithdraw(a)
         \/ EosioBuyrex(a) \/ EosioMvfrsavings(a) \/ EosioSellrex(a)
  BY DEF SystemExecute, EosioBidname, EosioBidrefund, EosioBuyram, EosioBuyrambytes,
         EosioSellram, EosioDonatetorex, EosioPowerup, EosioClaimrewards, EosioQuiet
<1> QED
  BY <1>3, <1>4, <1>5, <1>6, <1>7, <1>8, <1>9, <1>10, <1>11, <1>12, <1>13, <1>14

\* When both contracts' tables are well typed, so is what is recorded of them.
LEMMA RecordedType ==
    ASSUME SystemTypeOK, TypeOK', Recorded, IsSystemDatabase(SystemTables')
    PROVE  SystemTypeOK'
<1>1. savedSystem' = savedSystem \/ savedSystem' = SystemTables'
  BY DEF Recorded
<1>2. running' \in Seq(Action)
  BY DEF Recorded, SystemTypeOK
<1> QED
  BY <1>1, <1>2 DEF SystemTypeOK

\* Only the followed balances change.
LEMMA TrackedType ==
    ASSUME SystemTypeOK, UNCHANGED systemTables, tracked' \in [Name -> Int]
    PROVE  IsSystemDatabase(SystemTables')
  BY DEF SystemTypeOK, IsSystemDatabase, SystemTables, systemTables, stakeTables, rexTables

LEMMA TrackType ==
    ASSUME SystemTypeOK, NEW from \in Name, NEW to \in Name, NEW amt \in Int,
           Track(from, to, amt)
    PROVE  tracked' \in [Name -> Int]
<1>1. tracked \in [Name -> Int]
  BY DEF SystemTypeOK, IsSystemDatabase, SystemTables
<1>2. tracked' = [tracked EXCEPT ![from] = @ - amt, ![to] = @ + amt]
  BY DEF Track
<1> QED
  BY <1>1, <1>2

LEMMA SentIsAction == \A a : \A s : Sends(a, s) => s \in Seq(Action)
  BY DEF Sends, SentBy

LEMMA CallStepType ==
    ASSUME SystemTypeOK, pending # <<>>, NEW a \in Action, SystemCall(a), CallStep(a)
    PROVE  SystemTypeOK'
<1>1. PICK s : Sends(a, s) /\ Finish(s)
  BY DEF CallStep
<1>2. TablesOK'
  BY DEF CallStep, SystemTypeOK, TypeOK, TablesOK, tables
<1>3. TypeOK'
  BY <1>1, <1>2, SentIsAction, DoneType DEF Finish, SystemTypeOK
<1>4. IsSystemDatabase(SystemTables')
  <2>1. CASE SystemExecute(a)
    BY <2>1, SystemTablesType DEF CallStep
  <2>2. CASE UNCHANGED systemTables
    BY <2>2, TrackedType DEF CallStep, SystemTypeOK, IsSystemDatabase, SystemTables
  <2> QED
    BY <2>1, <2>2 DEF CallStep
<1> QED
  BY <1>1, <1>3, <1>4, RecordedType DEF Finish

\* What a swap before a call sends, in order.
LEMMA SwapStepSends ==
    ASSUME NEW a \in Action, SwapStep(a)
    PROVE  \E amt \in Int, s \in Seq(SentBy(a)) :
               /\ SwapBeforeOk(a, amt)
               /\ MoveXyz(a.from, Self, amt, Self)
               /\ UNCHANGED <<eos, blocked, supply, donated, systemTables, tracked>>
               /\ Finish(<<SwapTrace(a, a.from, amt)>> \o CreditEos(a, a.from, amt) \o s)
               /\ SwapTrace(a, a.from, amt) \in Action
               /\ CreditEos(a, a.from, amt) \in Seq(Action)
<1>1. PICK amt \in Int : \E s : Sends(a, s) /\ SwapBefore(a, amt, s)
  BY DEF SwapStep
<1>2. PICK s : Sends(a, s) /\ SwapBefore(a, amt, s)
  BY <1>1
<1>3. s \in Seq(SentBy(a))
  BY <1>2 DEF Sends
<1>4. /\ a.from \in Name /\ Self \in Name /\ "XYZ" \in Symbols /\ "EOS" \in Symbols
      /\ "swaptrace" \in Kinds /\ "eosio.token::transfer" \in Kinds
  BY KindsOfOthers, NamesAssumption DEF Action, Symbols
<1>5. SwapTrace(a, a.from, amt) \in Action
  BY <1>4, InlineType DEF SwapTrace
<1>6. Inline(a, "eosio.token::transfer", Self, a.from, "EOS", amt, {Self}) \in Action
  BY <1>4, InlineType
<1>7. CreditEos(a, a.from, amt) \in Seq(Action)
  BY <1>6 DEF CreditEos
<1> QED
  BY <1>2, <1>3, <1>5, <1>7 DEF SwapBefore

LEMMA SwapStepType ==
    ASSUME SystemTypeOK, pending # <<>>, NEW a \in Action, SwapStep(a), a.from # Self
    PROVE  SystemTypeOK'
<1>1. PICK amt \in Int, s \in Seq(SentBy(a)) :
          /\ SwapBeforeOk(a, amt)
          /\ MoveXyz(a.from, Self, amt, Self)
          /\ UNCHANGED <<eos, blocked, supply, donated, systemTables, tracked>>
          /\ Finish(<<SwapTrace(a, a.from, amt)>> \o CreditEos(a, a.from, amt) \o s)
          /\ SwapTrace(a, a.from, amt) \in Action
          /\ CreditEos(a, a.from, amt) \in Seq(Action)
  BY SwapStepSends
<1> DEFINE inlines == <<SwapTrace(a, a.from, amt)>> \o CreditEos(a, a.from, amt) \o s
<1>2. inlines \in Seq(Action)
  <2>1. s \in Seq(Action)
    BY DEF SentBy
  <2> QED
    BY <1>1, <2>1, ConcatProperties
<1>3. TablesOK'
  <2>1. amt \in Nat /\ CanDebit(a.from, amt) /\ a.from \in Name /\ Self \in Name
    BY <1>1, NamesAssumption DEF SwapBeforeOk, Action
  <2>2. TypeOK
    BY DEF SystemTypeOK
  <2>3. /\ xyz' \in [Name -> Nat]
        /\ payer' \in [Name -> Name \cup {NoPayer}]
        /\ released' \in [Name -> BOOLEAN]
    BY <1>1, <2>1, <2>2, MoveXyzType
  <2> QED
    BY <1>1, <2>2, <2>3 DEF TypeOK, TablesOK
<1> HIDE DEF inlines
<1>4. Done(inlines) /\ Recorded
  BY <1>1 DEF Finish, inlines
<1>5. TypeOK'
  BY <1>2, <1>3, <1>4, DoneType DEF SystemTypeOK
<1>6. IsSystemDatabase(SystemTables')
  BY <1>1, TrackedType DEF SystemTypeOK, IsSystemDatabase, SystemTables
<1> QED
  BY <1>4, <1>5, <1>6, RecordedType

LEMMA TokenStepType ==
    ASSUME SystemTypeOK, pending # <<>>, NEW a \in Action, TokenStep(a) PROVE SystemTypeOK'
<1>1. TypeOK'
  BY EosTransferType, TransferType, RowActionsType DEF TokenStep, Execute, SystemTypeOK
<1>2. tracked' \in [Name -> Int]
  <2>1. /\ a.from \in Name /\ a.to \in Name /\ a.amt \in Int /\ Self \in Name
        /\ tracked \in [Name -> Int]
    BY NamesAssumption DEF Action, SystemTypeOK, IsSystemDatabase, SystemTables
  <2>2. CASE a.kind = "transfer"
    <3>1. Track(a.from, a.to, a.amt)
      BY <2>2 DEF TokenStep
    <3> QED
      BY <2>1, <3>1, TrackType
  <2>3. CASE a.kind = "init"
    <3>1. tracked' = [tracked EXCEPT ![Self] = @ + a.amt]
      BY <2>3 DEF TokenStep
    <3> QED
      BY <2>1, <3>1
  <2>4. CASE a.kind \notin {"transfer", "init"}
    BY <2>1, <2>4 DEF TokenStep
  <2> QED
    BY <2>2, <2>3, <2>4
<1> QED
  BY <1>1, <1>2, TrackedType, RecordedType DEF TokenStep

LEMMA SwaptraceType ==
    ASSUME SystemTypeOK, pending # <<>>, NEW a \in Action, Swaptrace(a) PROVE SystemTypeOK'
<1>1. TablesOK'
  BY DEF Swaptrace, SystemTypeOK, TypeOK, TablesOK, tables
<1>2. Done(<<>>) /\ Recorded /\ <<>> \in Seq(Action)
  BY DEF Swaptrace, Finish
<1>3. TypeOK'
  BY <1>1, <1>2, DoneType DEF SystemTypeOK
<1>4. a.from \in Name /\ Self \in Name /\ a.amt \in Int
  BY NamesAssumption DEF Action
<1>5. tracked' \in [Name -> Int]
  BY <1>4, TrackType DEF Swaptrace
<1> QED
  BY <1>2, <1>3, <1>5, TrackedType, RecordedType DEF Swaptrace

-----------------------------------------------------------------------------
(* What is pending                                                         *)

LEMMA HeadIsCall ==
    ASSUME CallInv, pending # <<>>
    PROVE  /\ Head(pending) \in CallAction(Authorities) \cup TraceAction(Authorities)
           /\ Head(pending) \in HonestAction /\ Head(pending) \in Action
           /\ Tail(pending) \in Seq(CallAction(Authorities))
           /\ SystemCall(Head(pending))
<1>1. Head(pending) \in CallAction(Authorities) \cup TraceAction(Authorities)
  BY DEF CallInv
<1>2. \A a \in TraceAction(Authorities) : SystemCall(a)
  BY DEF TraceAction, SystemCall, SystemKinds, QuietKinds
<1>3. \A a \in CallAction(Authorities) : SystemCall(a)
  BY DEF CallAction
<1> QED
  BY <1>1, <1>2, <1>3 DEF CallInv, CallAction, TraceAction, HonestAction

\* A call is never made in the contract's own name.
LEMMA CallerIsUser ==
    ASSUME NEW E, NEW a \in CallAction(E), a.kind \in OtherKinds, MaySend(a)
    PROVE  a.from \in E \ {Self}
<1>1. CASE a.from \in a.auth
  <2>1. a.from \in E
    BY <1>1 DEF CallAction
  <2>2. a.from # Self
    BY <1>1 DEF CallAction
  <2> QED
    BY <2>1, <2>2
<1>2. CASE a.kind \in SystemKinds \ Setters
  <2>1. a.from \in a.auth
    BY <1>2 DEF CallAction, SystemCall, Setters
  <2> QED
    BY <1>1, <2>1
<1>3. CASE a.kind = "swapexcess" /\ Self \in a.auth
  BY <1>3 DEF CallAction
<1> QED
  BY <1>1, <1>2, <1>3 DEF MaySend

\* What a call sends are calls, and no payments of the contract.
LEMMA SentIsCall ==
    ASSUME NEW E, {Self, System} \subseteq E, NEW a \in CallAction(E), a.kind \in OtherKinds,
           MaySend(a), NEW b \in SentBy(a)
    PROVE  b \in CallAction(E) /\ b \in QuietAction
<1>1. a.from \in E \ {Self} /\ System # Self /\ b \in Action
  BY CallerIsUser, SystemAssumption DEF SentBy
<1>2. CASE /\ b.kind \in (SystemKinds \ Setters) \cup {"eosio.token::transfer", "enforcebal"}
           /\ b.from = a.from /\ b.auth = {a.from}
  <2>1. Self \notin b.auth /\ b.auth \subseteq E
    BY <1>1, <1>2
  <2>2. b \in QuietAction /\ b \in HonestAction
    BY <1>1, <2>1 DEF QuietAction, HonestAction, Owes
  <2>3. SystemCall(b)
    BY <1>2 DEF SystemCall, Setters
  <2> QED
    BY <2>1, <2>2, <2>3 DEF CallAction
<1>3. CASE b.kind = "eosio.token::transfer" /\ b.auth = {System}
  <2>1. Self \notin b.auth /\ b.auth \subseteq E
    BY <1>1, <1>3
  <2>2. b \in QuietAction /\ b \in HonestAction
    BY <1>1, <2>1 DEF QuietAction, HonestAction, Owes
  <2>3. SystemCall(b)
    BY <1>3 DEF SystemCall, SystemKinds, QuietKinds
  <2> QED
    BY <2>1, <2>2, <2>3, <1>3 DEF CallAction
<1>4. CASE b.kind = "swapexcess" /\ b.auth = {Self} /\ b.from = a.from
  <2>1. b \in QuietAction /\ b \in HonestAction
    BY <1>1, <1>4 DEF QuietAction, HonestAction, Owes, IsTransfer
  <2>2. SystemCall(b)
    BY <1>4 DEF SystemCall, SystemKinds, QuietKinds
  <2> QED
    BY <1>1, <1>4, <2>1, <2>2 DEF CallAction
<1> QED
  BY <1>2, <1>3, <1>4 DEF SentBy

LEMMA SendsCalls ==
    ASSUME NEW E, {Self, System} \subseteq E, NEW a \in CallAction(E), a.kind \in OtherKinds,
           NEW s, Sends(a, s)
    PROVE  s \in Seq(CallAction(E)) /\ s \in Seq(QuietAction)
<1>1. CASE s = <<>>
  BY <1>1
<1>2. CASE s # <<>>
  <2>1. s \in Seq(SentBy(a)) /\ MaySend(a)
    BY <1>2 DEF Sends
  <2>2. SentBy(a) \subseteq CallAction(E) /\ SentBy(a) \subseteq QuietAction
    BY <2>1, SentIsCall
  <2> QED
    BY <2>1, <2>2
<1> QED
  BY <1>1, <1>2

\* What a handler answers are calls.
LEMMA RepliesCall ==
    ASSUME NEW E, Coded \subseteq E, NEW n \in Name, NEW a \in Action, NEW r \in Replies(n, a)
    PROVE  r \in Seq(CallAction(E))
<1>1. r \in Seq(Action) /\ r \in Seq(QuietAction)
  BY RepliesType, UserActionsAreActions, RepliesQuiet
<1>2. ASSUME NEW i \in 1 .. Len(r) PROVE r[i] \in CallAction(E)
  <2>1. n \in Coded /\ r[i].auth = {n} /\ n # Self
    BY RepliesAuth, NamesAssumption
  <2>2. r[i] \in HonestAction
    BY <1>1, ElementOfSeq DEF QuietAction
  <2>3. PICK q \in Reactions[n] :
            r = [j \in DOMAIN q |-> [q[j] EXCEPT !.depth = a.depth + 1]]
    BY <2>1 DEF Replies
  <2>4. q \in Seq(UserAction) /\ \A j \in DOMAIN q : SystemCall(q[j])
    BY <2>1, ReactionsAssumption, SystemCallsAssumption
  <2>5. i \in DOMAIN q /\ r[i] = [q[i] EXCEPT !.depth = a.depth + 1]
    BY <1>1, <2>3, LenProperties
  <2>6. q[i] \in Action
    BY <2>4, <2>5, UserActionsAreActions, LenProperties, ElementOfSeq
  <2>7. /\ r[i].kind = q[i].kind /\ r[i].auth = q[i].auth /\ r[i].from = q[i].from
        /\ r[i].amt = q[i].amt /\ r[i].more = q[i].more
    BY <2>5, <2>6 DEF Action
  <2>8. SystemCall(r[i])
    BY <2>4, <2>5, <2>7 DEF SystemCall
  <2>9. r[i].auth \subseteq E /\ Self \notin r[i].auth
    BY <2>1
  <2> QED
    BY <2>2, <2>8, <2>9 DEF CallAction
<1> QED
  BY <1>1, <1>2, SeqDef

\* So are the transfers of a swap.
LEMMA TransferIsCall ==
    ASSUME NEW E, NEW b \in HonestAction, IsTransfer(b), b.auth \subseteq E
    PROVE  b \in CallAction(E)
<1>1. b.kind \notin OtherKinds
  BY KindsOfOthers
     DEF IsTransfer, ForwardingKinds, SystemKinds, QuietKinds, SwapsBefore, SwapsAfter,
         PassedOn, PassedOnInEos
<1> QED
  BY <1>1, KindsOfOthers DEF CallAction, SystemCall, IsTransfer

LEMMA TokenSends ==
    ASSUME NEW E, Coded \cup {Self, System} \subseteq E, E \subseteq Name,
           NEW a \in HonestAction, a.auth \subseteq E, Execute(a)
    PROVE  \E s \in Seq(CallAction(E)) : Done(s)
<1>1. /\ a \in Action /\ a.from \in Name /\ a.to \in Name /\ a.amt \in Int /\ Self \in Name
  BY NamesAssumption DEF HonestAction, Action
<1>2. CASE EosTransfer(a)
  <2> DEFINE e == Inline(a, "transfer", Self, a.from, "XYZ", a.amt, {Self})
  <2>1. PICK rf \in Replies(a.from, a), rt \in Replies(a.to, a) :
            Done(rf \o OnTransfer(a) \o rt)
    BY <1>2 DEF EosTransfer
  <2>2. rf \in Seq(CallAction(E)) /\ rt \in Seq(CallAction(E))
    BY <1>1, RepliesCall
  <2>3. e \in Action
    BY <1>1, InlineType DEF Kinds, Symbols
  <2>4. e \in HonestAction /\ IsTransfer(e) /\ e.auth \subseteq E
    BY <1>1, <1>2, <2>3
       DEF HonestAction, IsTransfer, Inline, EosTransfer, EosTransferOk
  <2>5. e \in CallAction(E)
    BY <2>4, TransferIsCall
  <2>6. OnTransfer(a) = IF SwapsEos(a) THEN <<e>> ELSE <<>>
    BY DEF OnTransfer
  <2> HIDE DEF e
  <2>7. OnTransfer(a) \in Seq(CallAction(E))
    BY <2>5, <2>6
  <2> QED
    BY <2>1, <2>2, <2>7, ConcatProperties
<1>3. CASE Transfer(a)
  <2> DEFINE e == Inline(a, "eosio.token::transfer", Self, a.from, "EOS", a.amt, {Self})
             pay == IF a.to = Self THEN CreditEos(a, a.from, a.amt) ELSE <<>>
  <2>1. PICK rf \in Replies(a.from, a), rt \in Replies(a.to, a) : Done(pay \o rf \o rt)
    BY <1>3 DEF Transfer
  <2>2. rf \in Seq(CallAction(E)) /\ rt \in Seq(CallAction(E))
    BY <1>1, RepliesCall
  <2>3. e \in Action
    BY <1>1, InlineType DEF Kinds, Symbols
  <2>4. e \in HonestAction /\ IsTransfer(e) /\ e.auth \subseteq E
    BY <1>1, <1>3, <2>3 DEF HonestAction, IsTransfer, Inline, Transfer, TransferOk
  <2>5. e \in CallAction(E)
    BY <2>4, TransferIsCall
  <2>6. pay = IF a.to = Self THEN <<e>> ELSE <<>>
    BY DEF CreditEos
  <2> HIDE DEF e, pay
  <2>7. pay \in Seq(CallAction(E))
    BY <2>5, <2>6
  <2> QED
    BY <2>1, <2>2, <2>7, ConcatProperties
<1>4. CASE SwapTo(a)
  <2> DEFINE e1 == Inline(a, "eosio.token::transfer", a.from, Self, "EOS", a.amt, {a.from})
             e2 == Inline(a, "transfer", a.from, a.to, "XYZ", a.amt, {a.from})
             e3 == Inline(a, "transfer", a.from, Self, "XYZ", a.amt, {a.from})
             e4 == Inline(a, "eosio.token::transfer", a.from, a.to, "EOS", a.amt, {a.from})
  <2>1. e1 \in Action /\ e2 \in Action /\ e3 \in Action /\ e4 \in Action
    BY <1>1, SwapToSends
  <2>2. a.from \in E /\ a.from # Self
    BY <1>4 DEF SwapTo, SwapToOk, HonestAction
  <2>3. /\ e1.auth = {a.from} /\ e2.auth = {a.from} /\ e3.auth = {a.from} /\ e4.auth = {a.from}
        /\ IsTransfer(e1) /\ IsTransfer(e2) /\ IsTransfer(e3) /\ IsTransfer(e4)
    BY DEF Inline, IsTransfer
  <2>4. SwapToInlines(a) = IF a.sym = "EOS" THEN <<e1, e2>> ELSE <<e3, e4>>
    BY DEF SwapToInlines
  <2> HIDE DEF e1, e2, e3, e4
  <2>5. /\ e1 \in HonestAction /\ e2 \in HonestAction
        /\ e3 \in HonestAction /\ e4 \in HonestAction
    BY <2>1, <2>2, <2>3 DEF HonestAction
  <2>6. /\ e1 \in CallAction(E) /\ e2 \in CallAction(E)
        /\ e3 \in CallAction(E) /\ e4 \in CallAction(E)
    BY <2>2, <2>3, <2>5, TransferIsCall
  <2>7. SwapToInlines(a) \in Seq(CallAction(E))
    BY <2>4, <2>6
  <2> QED
    BY <1>4, <2>7 DEF SwapTo
<1>5. CASE Open(a) \/ Close(a) \/ InitToken(a) \/ BlockSwapTo(a)
  <2>1. Done(<<>>)
    BY <1>5 DEF Open, Close, InitToken, BlockSwapTo
  <2>2. <<>> \in Seq(CallAction(E))
    OBVIOUS
  <2> QED
    BY <2>1, <2>2
<1> QED
  BY <1>2, <1>3, <1>4, <1>5 DEF Execute

\* A step executes the first pending action, undoes the transaction, or starts one.
LEMMA CallStepCases ==
    ASSUME CallInv, [ForwardingNext]_allVars
    PROVE  \/ /\ pending # <<>>
              /\ \E a \in HonestAction : a = Head(pending) /\ ForwardingExecute(a)
           \/ SystemRollback
           \/ \E tx \in Transactions : ForwardingBegin(tx)
           \/ UNCHANGED allVars
  BY HeadIsCall DEF ForwardingNext, ForwardingRun, ForwardingReject

\* A swap before a call sends the swaptrace, the payment and then the calls.
LEMMA SwapStepCalls ==
    ASSUME CallInv, pending # <<>>, NEW a, a = Head(pending), SwapStep(a)
    PROVE  /\ a \in CallAction(Authorities) /\ a.from \in a.auth /\ a.from # Self
           /\ \E amt \in Int, s \in Seq(CallAction(Authorities)) :
                  LET e == SwapTrace(a, a.from, amt)
                      c == Inline(a, "eosio.token::transfer", Self, a.from, "EOS", amt, {Self})
                  IN  /\ SwapBeforeOk(a, amt)
                      /\ MoveXyz(a.from, Self, amt, Self)
                      /\ UNCHANGED <<eos, blocked, supply, donated, systemTables, tracked>>
                      /\ s \in Seq(QuietAction)
                      /\ e \in TraceAction(Authorities) /\ c \in CallAction(Authorities)
                      /\ Finish(<<e>> \o <<c>> \o s)
                      /\ Finish(<<e>> \o (<<c>> \o s))
                      /\ <<c>> \o s \in Seq(CallAction(Authorities))
<1>1. /\ a \in CallAction(Authorities) \cup TraceAction(Authorities)
      /\ a \in HonestAction /\ a \in Action
      /\ Coded \cup {Self, System} \subseteq Authorities
      /\ Self \in Name /\ a.from \in Name
  BY HeadIsCall, AuthoritiesType DEF CallInv, SystemTypeOK, CallAction, TraceAction, Action
<1>2. a \in CallAction(Authorities) /\ a.kind \in OtherKinds /\ a.from \in a.auth
  BY <1>1, KindsOfOthers
     DEF SwapStep, SwapBefore, SwapBeforeOk, TraceAction, SwapsBefore, ForwardingKinds
<1>3. a.from \in Authorities \ {Self} /\ MaySend(a)
  BY <1>2, CallerIsUser DEF MaySend
<1>4. PICK amt \in Int, s \in Seq(SentBy(a)) :
          /\ SwapBeforeOk(a, amt)
          /\ MoveXyz(a.from, Self, amt, Self)
          /\ UNCHANGED <<eos, blocked, supply, donated, systemTables, tracked>>
          /\ Finish(<<SwapTrace(a, a.from, amt)>> \o CreditEos(a, a.from, amt) \o s)
          /\ SwapTrace(a, a.from, amt) \in Action
          /\ CreditEos(a, a.from, amt) \in Seq(Action)
  BY <1>1, SwapStepSends
<1> DEFINE e == SwapTrace(a, a.from, amt)
           c == Inline(a, "eosio.token::transfer", Self, a.from, "EOS", amt, {Self})
<1>5. CreditEos(a, a.from, amt) = <<c>>
  BY DEF CreditEos
<1>6. e \in TraceAction(Authorities)
  BY <1>1, <1>4 DEF TraceAction, HonestAction, SwapTrace, Inline, IsTransfer
<1>7. c \in CallAction(Authorities)
  <2>1. c \in Action
    BY <1>1, InlineType DEF Kinds, Symbols
  <2>2. c \in HonestAction /\ IsTransfer(c) /\ c.auth \subseteq Authorities
    BY <1>1, <1>4, <2>1 DEF HonestAction, Inline, IsTransfer, SwapBeforeOk
  <2> QED
    BY <2>2, TransferIsCall
<1>8. s \in Seq(CallAction(Authorities)) /\ s \in Seq(QuietAction)
  BY <1>1, <1>2, <1>3, SendsCalls DEF Sends
<1> HIDE DEF e, c
<1>9. Finish(<<e>> \o <<c>> \o s)
  BY <1>4, <1>5 DEF e
<1>10. <<c>> \o s \in Seq(CallAction(Authorities))
  BY <1>7, <1>8, ConcatProperties
<1>11. (<<e>> \o <<c>>) \o s = <<e>> \o (<<c>> \o s)
  <2>1. <<e>> \in Seq(HonestAction) /\ <<c>> \in Seq(HonestAction) /\ s \in Seq(HonestAction)
    BY <1>6, <1>7, <1>8 DEF TraceAction, CallAction
  <2> QED
    BY <2>1, ConcatAssociative
<1>12. Finish(<<e>> \o (<<c>> \o s))
  BY <1>9, <1>11
<1> QED
  BY <1>2, <1>3, <1>4, <1>6, <1>7, <1>8, <1>9, <1>10, <1>12 DEF e, c

\* How an action that is executed changes what is pending.
LEMMA ExecuteSends ==
    ASSUME CallInv, pending # <<>>, NEW a, a = Head(pending), ForwardingExecute(a)
    PROVE  /\ SystemTypeOK'
           /\ \/ \E s \in Seq(CallAction(Authorities)) : Done(s)
              \/ \E e \in TraceAction(Authorities), s \in Seq(CallAction(Authorities)) :
                     Done(<<e>> \o s)
<1>1. /\ a \in CallAction(Authorities) \cup TraceAction(Authorities)
      /\ a \in HonestAction /\ a \in Action /\ a.auth \subseteq Authorities /\ SystemCall(a)
      /\ SystemTypeOK /\ TypeOK
      /\ Coded \cup {Self, System} \subseteq Authorities /\ Authorities \subseteq Name
      /\ Self \in Name /\ a.from \in Name
  BY HeadIsCall, AuthoritiesType DEF CallInv, SystemTypeOK, CallAction, TraceAction, Action
<1>2. CASE TokenStep(a)
  <2>1. SystemTypeOK'
    BY <1>1, <1>2, TokenStepType
  <2>2. \E s \in Seq(CallAction(Authorities)) : Done(s)
    BY <1>1, <1>2, TokenSends DEF TokenStep
  <2> QED
    BY <2>1, <2>2
<1>3. CASE Swaptrace(a)
  <2>1. SystemTypeOK'
    BY <1>1, <1>3, SwaptraceType
  <2>2. Done(<<>>) /\ <<>> \in Seq(CallAction(Authorities))
    BY <1>3 DEF Swaptrace, Finish
  <2> QED
    BY <2>1, <2>2
<1>4. CASE SwapStep(a)
  <2>1. SystemTypeOK'
    BY <1>1, <1>4, SwapStepCalls, SwapStepType
  <2>2. \E e \in TraceAction(Authorities), s \in Seq(CallAction(Authorities)) :
            Done(<<e>> \o s)
    BY <1>4, SwapStepCalls DEF Finish
  <2> QED
    BY <2>1, <2>2
<1>5. CASE CallStep(a)
  <2>1. a \in CallAction(Authorities) /\ a.kind \in OtherKinds
    BY <1>1, <1>5 DEF CallStep, TraceAction
  <2>2. PICK s : Sends(a, s) /\ Finish(s)
    BY <1>5 DEF CallStep
  <2>3. s \in Seq(CallAction(Authorities)) /\ Done(s)
    BY <1>1, <2>1, <2>2, SendsCalls DEF Finish
  <2> QED
    BY <1>1, <1>5, <2>3, CallStepType
<1> QED
  BY <1>1, <1>2, <1>3, <1>4, <1>5, StepShapes

\* The signers stay the same until the transaction ends.
LEMMA AuthoritiesStay ==
    ASSUME NEW s, Done(s), pending' # <<>> PROVE Authorities' = Authorities
  BY DEF Done, Authorities

LEMMA CallsAfterDone ==
    ASSUME CallInv, pending # <<>>, SystemTypeOK',
           \/ \E s \in Seq(CallAction(Authorities)) : Done(s)
           \/ \E e \in TraceAction(Authorities), s \in Seq(CallAction(Authorities)) :
                  Done(<<e>> \o s)
    PROVE  CallInv'
<1> DEFINE C == CallAction(Authorities)
           T == TraceAction(Authorities)
<1>1. /\ Tail(pending) \in Seq(C)
      /\ (\E s \in Seq(C) : Done(s)) \/ (\E e \in T, s \in Seq(C) : Done(<<e>> \o s))
  BY HeadIsCall
<1> HIDE DEF C, T
<1>2. pending' \in Seq(C \cup T) /\ (pending' # <<>> => Tail(pending') \in Seq(C))
  <2>1. CASE \E s \in Seq(C) : Done(s)
    <3>1. pending' \in Seq(C)
      BY <1>1, <2>1, ConcatProperties DEF Done
    <3> QED
      BY <3>1
  <2>2. CASE \E e \in T, s \in Seq(C) : Done(<<e>> \o s)
    <3>1. PICK e \in T, s \in Seq(C) : pending' = (<<e>> \o s) \o Tail(pending)
      BY <2>2 DEF Done
    <3>2. s \o Tail(pending) \in Seq(C)
      BY <1>1, ConcatProperties
    <3>3. pending' = <<e>> \o (s \o Tail(pending))
      <4>1. <<e>> \in Seq(C \cup T) /\ s \in Seq(C \cup T) /\ Tail(pending) \in Seq(C \cup T)
        BY <1>1
      <4> QED
        BY <3>1, <4>1, ConcatAssociative
    <3>4. PICK q \in Seq(C) : pending' = <<e>> \o q
      BY <3>2, <3>3
    <3>5. Tail(<<e>> \o q) = q /\ <<e>> \o q \in Seq(C \cup T)
      OBVIOUS
    <3> QED
      BY <3>4, <3>5
  <2> QED
    BY <1>1, <2>1, <2>2
<1>3. CASE pending' = <<>>
  BY <1>3 DEF CallInv
<1>4. CASE pending' # <<>>
  <2>1. Authorities' = Authorities
    BY <1>4, AuthoritiesStay
  <2> QED
    BY <1>2, <1>4, <2>1 DEF CallInv, C, T
<1> QED
  BY <1>3, <1>4

\* Users push calls.
LEMMA TransactionIsCalls ==
    ASSUME TypeOK, NEW tx \in Transactions, Begin(tx)
    PROVE  tx \in Seq(CallAction(Authorities'))
<1>1. tx \in Seq(UserAction) /\ tx \in Seq(Action)
  BY TransactionsAssumption, UserActionsAreActions
<1>2. ASSUME NEW i \in 1 .. Len(tx) PROVE tx[i] \in CallAction(Authorities')
  <2>1. i \in DOMAIN tx /\ tx[i] \in UserAction /\ tx[i] \in Action
    BY <1>1, LenProperties, ElementOfSeq
  <2>2. tx[i].auth \subseteq Authorities'
    BY <2>1 DEF Begin, Authorities
  <2>3. tx[i] \in HonestAction
    BY <2>1, UserActionsAreQuiet DEF QuietAction
  <2>4. SystemCall(tx[i])
    BY <2>1, SystemCallsAssumption
  <2>5. tx[i].kind \in OtherKinds => Self \notin tx[i].auth
    BY <2>1 DEF UserAction
  <2> QED
    BY <2>2, <2>3, <2>4, <2>5, KindsOfOthers DEF CallAction
<1> QED
  BY <1>1, <1>2, SeqDef

LEMMA CallInductive == CallInv /\ [ForwardingNext]_allVars => CallInv'
<1> SUFFICES ASSUME CallInv, [ForwardingNext]_allVars PROVE CallInv'
  OBVIOUS
<1>1. SystemTypeOK /\ TypeOK
  BY DEF CallInv, SystemTypeOK
<1>2. ASSUME pending # <<>>, NEW a, a = Head(pending), ForwardingExecute(a) PROVE CallInv'
  BY <1>2, ExecuteSends, CallsAfterDone
<1>3. CASE SystemRollback
  <2>1. TypeOK'
    BY <1>1, <1>3, RollbackType DEF SystemRollback
  <2>2. SystemTypeOK'
    BY <1>1, <1>3, <2>1 DEF SystemRollback, SystemTypeOK, IsSystemDatabase, SystemTables
  <2> QED
    BY <1>3, <2>2 DEF SystemRollback, Rollback, CallInv
<1>4. ASSUME NEW tx \in Transactions, ForwardingBegin(tx) PROVE CallInv'
  <2>1. Begin(tx) /\ pending' = tx /\ tx # <<>>
    BY <1>4, TransactionsAssumption DEF ForwardingBegin, Begin
  <2>2. tx \in Seq(CallAction(Authorities'))
    BY <1>1, <2>1, TransactionIsCalls
  <2>3. TypeOK' /\ running' \in Seq(Action)
    BY <1>1, <1>4, <2>1, BeginType, TransactionsAssumption, UserActionsAreActions
       DEF ForwardingBegin
  <2>4. SystemTables' = SystemTables /\ savedSystem' = savedSystem
    BY <1>4 DEF ForwardingBegin, systemTables, stakeTables, rexTables, SystemTables
  <2>5. SystemTypeOK'
    BY <1>1, <2>3, <2>4 DEF SystemTypeOK
  <2> QED
    BY <2>1, <2>2, <2>5 DEF CallInv
<1>5. CASE UNCHANGED allVars
  <2>1. TypeOK'
    BY <1>1, <1>5 DEF TypeOK, allVars, vars, tables
  <2>2. /\ SystemTables' = SystemTables /\ savedSystem' = savedSystem
        /\ running' = running /\ pending' = pending /\ Authorities' = Authorities
    BY <1>5 DEF allVars, vars, systemTables, stakeTables, rexTables, SystemTables, Authorities
  <2> QED
    BY <1>1, <2>1, <2>2 DEF CallInv, SystemTypeOK
<1> QED
  BY <1>2, <1>3, <1>4, <1>5, CallStepCases

LEMMA CallsAtFirst == SystemInit => CallInv
<1> SUFFICES ASSUME SystemInit PROVE CallInv
  OBVIOUS
<1>1. TypeOK /\ pending = <<>>
  BY NamesAssumption, EosAssumption DEF SystemInit, Init, TypeOK, Database, Tables
<1>2. IsTable(<<>>)
  BY DEF IsTable
<1>3. IsSystemDatabase(SystemTables)
  BY <1>2 DEF SystemInit, IsSystemDatabase, SystemTables
<1>4. running = <<>> /\ savedSystem = SystemTables
  BY DEF SystemInit
<1> QED
  BY <1>1, <1>3, <1>4 DEF CallInv, SystemTypeOK

\* The tables of both contracts, and what is recorded of them, stay well typed: in
\* particular eosio's stakes and refunds never become negative.
THEOREM SystemTypeCorrect == ForwardingSpec => []SystemTypeOK
<1>1. CallInv => SystemTypeOK
  BY DEF CallInv
<1> QED
  BY <1>1, CallsAtFirst, CallInductive, PTL DEF ForwardingSpec

\* Whatever is called through the contract, no inline action ever carries the
\* authority of an account that has not signed the transaction, but for accounts
\* whose own code sends it, and for the two contracts.
THEOREM CallsAreConsented == ForwardingSpec => []ForwardedWithConsent
<1>1. CallInv => ForwardedWithConsent
  <2> SUFFICES ASSUME CallInv, NEW i \in DOMAIN pending
               PROVE  pending[i].auth \subseteq signers \cup Coded \cup {Self, System}
    BY DEF ForwardedWithConsent
  <2>1. pending[i] \in CallAction(Authorities) \cup TraceAction(Authorities)
    BY LenProperties, ElementOfSeq DEF CallInv
  <2> QED
    BY <2>1 DEF CallAction, TraceAction, Authorities
<1> QED
  BY <1>1, CallsAtFirst, CallInductive, PTL DEF ForwardingSpec

=============================================================================
