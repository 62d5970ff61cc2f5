------------------------- MODULE SwapPaymentProofs -------------------------
(***************************************************************************)
(* Neither token is created or destroyed by a swap, and the contract can   *)
(* always pay what it owes a swapper: for any accounts, any handlers of    *)
(* theirs, any transactions and any depth limit.                           *)
(***************************************************************************)
EXTENDS SwapContractProofs, SumLemmas

-----------------------------------------------------------------------------
(* Conservation                                                            *)

ConservedIn(s) ==
    /\ SumFunction(s.eos) = EosTotal
    /\ SumFunction(s.xyz) = s.supply

\* Both tables a transaction can end with are balanced.
ConservedInv ==
    /\ TypeOK
    /\ Conserved
    /\ ConservedIn(saved)

LEMMA EosTransferConserves ==
    ASSUME TypeOK, TypeOK', Conserved, NEW a \in Action, EosTransfer(a)
    PROVE  Conserved'
<1> a.from \in Name /\ a.to \in Name /\ a.amt \in Int /\ a.from # a.to
  BY DEF EosTransfer, EosTransferOk, Action
<1> eos \in [Name -> Nat] /\ eos' \in [Name -> Nat]
  BY DEF TypeOK
<1> eos \in [Name -> Int] /\ eos' \in [Name -> Int]
  OBVIOUS
<1>1. SumFunction(eos') = SumFunction(eos)
  <2>1. CASE a.sym = "EOS"
    <3>1. /\ eos'[a.from] = eos[a.from] - a.amt
          /\ eos'[a.to] = eos[a.to] + a.amt
          /\ \A n \in Name \ {a.from, a.to} : eos'[n] = eos[n]
      BY <2>1 DEF EosTransfer
    <3> QED
      BY <3>1, FinitelyManyNames, SumMove
  <2>2. CASE a.sym # "EOS"
    BY <2>2 DEF EosTransfer
  <2> QED
    BY <2>1, <2>2
<1> QED
  BY <1>1 DEF Conserved, EosTransfer

LEMMA TransferConserves ==
    ASSUME TypeOK, TypeOK', Conserved, NEW a \in Action, Transfer(a)
    PROVE  Conserved'
<1> /\ a.from \in Name /\ a.to \in Name /\ a.amt \in Int /\ a.from # a.to
    /\ xyz \in [Name -> Int] /\ xyz' \in [Name -> Int]
  BY DEF Transfer, TransferOk, Action, TypeOK
<1>1. /\ xyz'[a.from] = xyz[a.from] - a.amt
      /\ xyz'[a.to] = xyz[a.to] + a.amt
      /\ \A n \in Name \ {a.from, a.to} : xyz'[n] = xyz[n]
  BY DEF Transfer, MoveXyz
<1>2. SumFunction(xyz') = SumFunction(xyz)
  BY <1>1, FinitelyManyNames, SumMove
<1> QED
  BY <1>2 DEF Conserved, Transfer

LEMMA InitTokenConserves ==
    ASSUME TypeOK, TypeOK', Conserved, NEW a \in Action, InitToken(a)
    PROVE  Conserved'
<1> a.amt \in Int /\ Self \in Name
  BY NamesAssumption DEF Action
<1> xyz \in [Name -> Nat] /\ xyz' \in [Name -> Nat]
  BY DEF TypeOK
<1> xyz \in [Name -> Int] /\ xyz' \in [Name -> Int]
  OBVIOUS
<1>1. /\ xyz'[Self] = xyz[Self] + a.amt
      /\ \A n \in Name \ {Self} : xyz'[n] = xyz[n]
  BY DEF InitToken
<1>2. SumFunction(xyz') = SumFunction(xyz) - xyz[Self] + xyz'[Self]
  BY <1>1, FinitelyManyNames, SumUpdate
<1>3. SumFunction(xyz) = 0 /\ supply' = a.amt /\ xyz[Self] \in Int
  BY DEF InitToken, InitTokenOk, Conserved
<1>4. SumFunction(xyz') = supply'
  BY <1>1, <1>2, <1>3
<1> QED
  BY <1>4 DEF Conserved, InitToken

LEMMA ExecuteConserves ==
    ASSUME TypeOK, TypeOK', Conserved, NEW a \in Action, Execute(a)
    PROVE  Conserved'
<1>1. CASE Close(a)
  <2>1. xyz' = xyz
    BY <1>1 DEF Close, CloseOk, Action, TypeOK
  <2> QED
    BY <1>1, <2>1 DEF Close, Conserved
<1>2. CASE Open(a) \/ SwapTo(a) \/ BlockSwapTo(a)
  BY <1>2 DEF Open, SwapTo, BlockSwapTo, tables, Conserved
<1> QED
  BY <1>1, <1>2, EosTransferConserves, TransferConserves, InitTokenConserves DEF Execute

\* What is committed are the tables as the last action left them.
LEMMA ExecuteSaves ==
    ASSUME NEW a, Execute(a)
    PROVE  saved' = saved \/ saved' = Tables'
  BY DEF Execute, EosTransfer, Transfer, Open, Close, InitToken, SwapTo, BlockSwapTo, Done

LEMMA ConservedInductive == ConservedInv /\ [Next]_vars => ConservedInv'
<1> SUFFICES ASSUME ConservedInv, [Next]_vars PROVE ConservedInv'
  OBVIOUS
<1>1. TypeOK /\ TypeOK'
  BY TypeInductive DEF ConservedInv
<1>2. ASSUME NEW a \in Action, Execute(a) PROVE ConservedInv'
  <2>1. Conserved'
    BY <1>1, <1>2, ExecuteConserves DEF ConservedInv
  <2>2. saved' = saved \/ saved' = Tables'
    BY <1>2, ExecuteSaves
  <2> QED
    BY <1>1, <2>1, <2>2 DEF ConservedInv, ConservedIn, Conserved, Tables
<1>3. CASE Rollback
  BY <1>1, <1>3 DEF ConservedInv, ConservedIn, Conserved, Rollback
<1>4. CASE UNCHANGED <<tables, saved>>
  BY <1>1, <1>4 DEF ConservedInv, ConservedIn, Conserved, tables
<1> QED
  BY <1>1, <1>2, <1>3, <1>4, StepCases DEF Begin, vars

LEMMA ConservedAtFirst == Init => ConservedInv
<1> SUFFICES ASSUME Init PROVE ConservedInv
  OBVIOUS
<1>1. TypeOK
  BY NamesAssumption, EosAssumption DEF Init, TypeOK, Database, Tables
<1>2. SumFunction(xyz) = 0
  <2>1. xyz \in [Name -> Nat] /\ DOMAIN xyz = Name /\ \A n \in Name : xyz[n] = 0
    BY DEF Init
  <2>2. SumFunctionOnSet(xyz, Name) = 0
    BY <2>1, FinitelyManyNames, SumNat
  <2> QED
    BY <2>1, <2>2 DEF SumFunction
<1> QED
  BY <1>1, <1>2 DEF Init, ConservedInv, Conserved, ConservedIn, EosTotal, Tables

\* The balances of either token always add up to the same: to what there was of
\* EOS, and to the supply that init issued.  (sub_balance and add_balance, and the
\* erased and re-created rows, lose nothing, in the middle of a transaction too.)
THEOREM NothingIsLost == Spec => []Conserved
<1>1. ConservedInv => Conserved
  BY DEF ConservedInv
<1> QED
  BY <1>1, ConservedAtFirst, ConservedInductive, PTL DEF Spec

-----------------------------------------------------------------------------
(* Payments                                                                *)

\* The supply that init issues covers all EOS, and a balance has a row.
SolventIn(s) ==
    /\ s.supply > 0 => s.supply >= EosTotal
    /\ \A n \in Name : s.xyz[n] > 0 => s.payer[n] # NoPayer

\* The transfers with the contract's authority are the ones it owes a swapper,
\* sent once there is a supply; what init may issue covers all EOS.
PayableAction(issued) ==
    {a \in HonestAction :
        /\ IsTransfer(a) /\ Self \in a.auth => a.to # Self
        /\ a.kind = "transfer" /\ Self \in a.auth => a.sym = "XYZ" /\ issued > 0
        /\ a.kind = "init" /\ Self \in a.auth => a.amt <= 0 \/ a.amt >= EosTotal}

PayInv ==
    /\ PegInv
    /\ ConservedInv
    /\ SolventIn(Tables)
    /\ SolventIn(saved)
    /\ pending \in Seq(PayableAction(supply))

LEMMA EosTotalType == EosTotal \in Nat /\ \A n \in Name : EosBalance[n] <= EosTotal
<1>1. DOMAIN EosBalance = Name
  BY EosAssumption
<1> QED
  BY <1>1, EosAssumption, FinitelyManyNames, SumNat DEF EosTotal, SumFunction

\* Nobody holds more than there is.
LEMMA NobodyHoldsMore ==
    ASSUME ConservedInv, NEW n \in Name
    PROVE  eos[n] <= EosTotal /\ xyz[n] <= supply
<1>1. /\ eos \in [Name -> Nat] /\ DOMAIN eos = Name
      /\ xyz \in [Name -> Nat] /\ DOMAIN xyz = Name
  BY DEF ConservedInv, TypeOK
<1>2. eos[n] <= SumFunctionOnSet(eos, Name) /\ xyz[n] <= SumFunctionOnSet(xyz, Name)
  BY <1>1, FinitelyManyNames, SumNat
<1> QED
  BY <1>1, <1>2 DEF ConservedInv, Conserved, SumFunction

\* The contract can afford the payment it is about to make, and no check of it fails.
LEMMA HeadIsPaid == PayInv => SwapsPay
<1> SUFFICES ASSUME PayInv, pending # <<>>,
                    NEW a, a = Head(pending),
                    IsTransfer(a), Self \in a.auth, a.to \in Account
             PROVE  Accepted(a)
  BY DEF SwapsPay
<1>1. /\ TypeOK /\ Self \in Name
      /\ eos[Self] \in Nat /\ xyz[Self] \in Nat /\ supply \in Nat /\ donated \in Nat
  BY NamesAssumption DEF PayInv, PegInv, TypeOK
<1>2. /\ a \in PayableAction(supply) /\ a \in HonestAction /\ a \in Action
      /\ a.from = Self /\ a.to # Self /\ a.amt \in Nat /\ a.amt > 0
  BY DEF PayInv, PayableAction, HonestAction, Action
<1>3. PICK owed \in Nat :
          /\ eos[Self] = supply - xyz[Self] + donated + owed
          /\ owed >= a.amt
  <2>1. PICK owed \in Nat : OwedBy(pending, owed) /\ PegWhenOwing(owed)
    BY DEF PayInv, PegInv
  <2>2. owed - Owes(a) \in Nat
    BY <2>1, OwedByTail DEF PayInv, PegInv
  <2>3. Owes(a) = a.amt
    BY <1>2 DEF Owes
  <2> QED
    BY <1>2, <2>1, <2>2, <2>3 DEF PegWhenOwing
<1>4. ~SendsInlines(a)
  BY <1>2 DEF SendsInlines, SwapsEos, IsTransfer
<1>5. CASE a.kind = "eosio.token::transfer"
  <2>1. xyz[Self] <= supply
    BY <1>1, NobodyHoldsMore DEF PayInv
  <2>2. eos[Self] >= a.amt
    BY <1>1, <1>2, <1>3, <2>1
  <2>3. a.sym = "EOS"
    BY <1>2, <1>5 DEF HonestAction
  <2>4. EosTransferOk(a)
    BY <1>2, <2>2, <2>3 DEF EosTransferOk, OnTransferOk, SwapsEos
  <2> QED
    BY <1>4, <1>5, <2>4 DEF Accepted
<1>6. CASE a.kind = "transfer"
  <2>1. supply > 0 /\ a.sym = "XYZ"
    BY <1>2, <1>6 DEF PayableAction
  <2>2. supply >= EosTotal /\ eos[Self] <= EosTotal /\ EosTotal \in Nat
    BY <1>1, <2>1, NobodyHoldsMore, EosTotalType DEF PayInv, SolventIn, Tables
  <2>3. xyz[Self] >= a.amt
    BY <1>1, <1>2, <1>3, <2>2
  <2>4. HasRow(Self)
    BY <1>1, <1>2, <2>3 DEF PayInv, SolventIn, Tables, HasRow
  <2>5. TransferOk(a)
    BY <1>2, <2>1, <2>3, <2>4 DEF TransferOk, EnforceSymbol, CanDebit
  <2> QED
    BY <1>4, <1>6, <2>5 DEF Accepted
<1> QED
  BY <1>5, <1>6 DEF IsTransfer

\* Whatever the contract has not authorised is no payment of it.
LEMMA OthersArePayable ==
    ASSUME NEW a \in Action, Self \notin a.auth, NEW issued \in Nat
    PROVE  a \in PayableAction(issued)
  BY DEF PayableAction, HonestAction

LEMMA RepliesPayable ==
    ASSUME NEW n \in Name, NEW a \in Action, NEW r \in Replies(n, a), NEW issued \in Nat
    PROVE  r \in Seq(PayableAction(issued))
<1>1. r \in Seq(Action)
  BY RepliesType, UserActionsAreActions
<1>2. \A i \in 1 .. Len(r) : r[i].auth = {n} /\ n \in Coded
  BY RepliesAuth
<1>3. \A i \in 1 .. Len(r) : r[i] \in PayableAction(issued)
  BY <1>1, <1>2, NamesAssumption, OthersArePayable
<1> QED
  BY <1>1, <1>3, SeqDef

\* A payable action stays so once there is a supply.
LEMMA PayableStays ==
    ASSUME NEW before \in Nat, NEW after \in Nat, before > 0 => after > 0
    PROVE  PayableAction(before) \subseteq PayableAction(after)
  BY DEF PayableAction

\* What the contract and the handlers send is payable.
LEMMA SentIsPayable ==
    ASSUME PayInv, NEW a \in PayableAction(supply), Execute(a), TypeOK'
    PROVE  \E inlines \in Seq(PayableAction(supply')) : Done(inlines)
<1>1. /\ a \in Action /\ a \in HonestAction
      /\ a.from \in Name /\ a.to \in Name /\ a.amt \in Int /\ Self \in Name
      /\ supply' \in Nat
  BY NamesAssumption DEF PayableAction, HonestAction, Action, TypeOK
<1> DEFINE P == PayableAction(supply')
<1>2. CASE EosTransfer(a)
  <2>1. PICK rf \in Replies(a.from, a), rt \in Replies(a.to, a) :
            Done(rf \o OnTransfer(a) \o rt)
    BY <1>2 DEF EosTransfer
  <2>2. rf \in Seq(P) /\ rt \in Seq(P)
    BY <1>1, RepliesPayable
  <2>3. OnTransfer(a) \in Seq(P)
    <3> DEFINE e == Inline(a, "transfer", Self, a.from, "XYZ", a.amt, {Self})
    <3>1. e \in Action
      BY <1>1, InlineType DEF Kinds, Symbols
    <3>2. SwapsEos(a) => e \in P
      BY <1>1, <1>2, <3>1
         DEF PayableAction, HonestAction, IsTransfer, Inline, SwapsEos, EosTransfer,
             EosTransferOk, OnTransferOk
    <3> QED
      BY <3>2 DEF OnTransfer
  <2> QED
    BY <2>1, <2>2, <2>3, ConcatProperties
<1>3. CASE Transfer(a)
  <2> DEFINE pay == IF a.to = Self THEN CreditEos(a, a.from, a.amt) ELSE <<>>
  <2>1. PICK rf \in Replies(a.from, a), rt \in Replies(a.to, a) : Done(pay \o rf \o rt)
    BY <1>3 DEF Transfer
  <2>2. rf \in Seq(P) /\ rt \in Seq(P)
    BY <1>1, RepliesPayable
  <2>3. pay \in Seq(P)
    <3> DEFINE e == Inline(a, "eosio.token::transfer", Self, a.from, "EOS", a.amt, {Self})
    <3>1. e \in Action
      BY <1>1, InlineType DEF Kinds, Symbols
    <3>2. a.to = Self => e \in P
      BY <1>1, <1>3, <3>1
         DEF PayableAction, HonestAction, IsTransfer, Inline, Transfer, TransferOk
    <3> QED
      BY <3>2 DEF CreditEos
  <2> HIDE DEF pay
  <2> QED
    BY <2>1, <2>2, <2>3, ConcatProperties
<1>4. CASE SwapTo(a)
  <2> DEFINE e1 == Inline(a, "eosio.token::transfer", a.from, Self, "EOS", a.amt, {a.from})
             e2 == Inline(a, "transfer", a.from, a.to, "XYZ", a.amt, {a.from})
             e3 == Inline(a, "transfer", a.from, Self, "XYZ", a.amt, {a.from})
             e4 == Inline(a, "eosio.token::transfer", a.from, a.to, "EOS", a.amt, {a.from})
  <2>1. e1 \in Action /\ e2 \in Action /\ e3 \in Action /\ e4 \in Action
    BY <1>1, SwapToSends
  <2>2. a.from # Self
    BY <1>1, <1>4 DEF SwapTo, SwapToOk, HonestAction
  <2>3. /\ e1.auth = {a.from} /\ e2.auth = {a.from}
        /\ e3.auth = {a.from} /\ e4.auth = {a.from}
    BY DEF Inline
  <2>4. e1 \in P /\ e2 \in P /\ e3 \in P /\ e4 \in P
    BY <1>1, <2>1, <2>2, <2>3, OthersArePayable
  <2>5. SwapToInlines(a) = IF a.sym = "EOS" THEN <<e1, e2>> ELSE <<e3, e4>>
    BY DEF SwapToInlines
  <2> HIDE DEF e1, e2, e3, e4, P
  <2>6. <<e1, e2>> \in Seq(P) /\ <<e3, e4>> \in Seq(P)
    BY <2>4
  <2>7. SwapToInlines(a) \in Seq(PayableAction(supply'))
    BY <2>5, <2>6 DEF P
  <2> QED
    BY <1>4, <2>7 DEF SwapTo
<1>5. CASE Open(a) \/ Close(a) \/ InitToken(a) \/ BlockSwapTo(a)
  <2>1. Done(<<>>)
    BY <1>5 DEF Open, Close, InitToken, BlockSwapTo
  <2>2. <<>> \in Seq(PayableAction(supply'))
    OBVIOUS
  <2> QED
    BY <2>1, <2>2
<1> QED
  BY <1>2, <1>3, <1>4, <1>5 DEF Execute

\* Rows appear with the balances they hold, and the supply is the one init issues.
LEMMA ExecuteStaysSolvent ==
    ASSUME PayInv, NEW a \in PayableAction(supply), Execute(a), TypeOK'
    PROVE  SolventIn(Tables)'
<1>1. /\ a \in Action /\ a.from \in Name /\ a.to \in Name /\ a.amt \in Int
      /\ Self \in Name /\ NoPayer \notin Name /\ EosTotal \in Nat
      /\ TypeOK /\ SolventIn(Tables)
  BY NamesAssumption, EosTotalType DEF PayInv, PayableAction, HonestAction, Action, PegInv
<1>3. CASE Transfer(a)
  <2>1. supply' = supply
    BY <1>3 DEF Transfer
  <2>2. PICK ramPayer \in Name : MoveXyz(a.from, a.to, a.amt, ramPayer) /\ a.from # a.to
    BY <1>1, <1>3 DEF Transfer, TransferOk
  <2>3. PayerOfCredit(a.to, ramPayer) # NoPayer
    BY <1>1 DEF PayerOfCredit, HasRow
  <2>4. ASSUME NEW n \in Name, xyz'[n] > 0 PROVE payer'[n] # NoPayer
    <3>1. /\ xyz \in [Name -> Nat] /\ payer \in [Name -> Name \cup {NoPayer}]
          /\ xyz[n] > 0 => payer[n] # NoPayer
      BY <1>1 DEF SolventIn, Tables, TypeOK
    <3> QED
      BY <1>1, <2>2, <2>3, <2>4, <3>1 DEF MoveXyz
  <2> QED
    BY <1>1, <2>1, <2>4 DEF SolventIn, Tables
<1>4. CASE Open(a)
  <2>1. supply' = supply /\ xyz' = xyz
    BY <1>4 DEF Open
  <2>2. \A n \in Name : payer[n] # NoPayer => payer'[n] # NoPayer
    BY <1>1, <1>4 DEF Open, TypeOK
  <2> QED
    BY <1>1, <2>1, <2>2 DEF SolventIn, Tables
<1>5. CASE Close(a)
  <2>1. supply' = supply
    BY <1>5 DEF Close
  <2>2. \A n \in Name : xyz'[n] > 0 => payer'[n] # NoPayer
    BY <1>1, <1>5 DEF Close, TypeOK, SolventIn, Tables
  <2> QED
    BY <1>1, <2>1, <2>2 DEF SolventIn, Tables
<1>6. CASE InitToken(a)
  <2>1. supply' >= EosTotal
    BY <1>1, <1>6 DEF InitToken, InitTokenOk, PayableAction
  <2>2. PayerOfCredit(Self, Self) # NoPayer
    BY <1>1 DEF PayerOfCredit, HasRow
  <2>3. \A n \in Name : xyz'[n] > 0 => payer'[n] # NoPayer
    BY <1>1, <1>6, <2>2 DEF InitToken, TypeOK, SolventIn, Tables
  <2> QED
    BY <2>1, <2>3 DEF SolventIn, Tables
<1>7. CASE EosTransfer(a) \/ SwapTo(a) \/ BlockSwapTo(a)
  BY <1>1, <1>7 DEF EosTransfer, SwapTo, BlockSwapTo, tables, SolventIn, Tables
<1> QED
  BY <1>3, <1>4, <1>5, <1>6, <1>7 DEF Execute

LEMMA TransactionPayable ==
    ASSUME NEW tx \in Transactions, NEW issued \in Nat
    PROVE  tx \in Seq(PayableAction(issued))
<1>1. tx \in Seq(UserAction)
  BY TransactionsAssumption
<1>2. ASSUME NEW i \in 1 .. Len(tx) PROVE tx[i] \in PayableAction(issued)
  <2>1. tx[i] \in UserAction /\ i \in DOMAIN tx
    BY <1>1
  <2>2. tx[i].kind = "init" => tx[i].amt <= 0 \/ tx[i].amt >= EosTotal
    BY <2>1, SupplyAssumption
  <2> QED
    BY <2>1, <2>2 DEF PayableAction, HonestAction, UserAction, IsTransfer
<1> QED
  BY <1>1, <1>2, SeqDef

LEMMA PayInductive == PayInv /\ [Next]_vars => PayInv'
<1> SUFFICES ASSUME PayInv, [Next]_vars PROVE PayInv'
  OBVIOUS
<1>1. PegInv' /\ ConservedInv' /\ TypeOK /\ TypeOK'
  BY PegInductive, ConservedInductive DEF PayInv, PegInv
<1>2. ASSUME pending # <<>>, NEW a \in Action, a = Head(pending), Execute(a) PROVE PayInv'
  <2>1. a \in PayableAction(supply)
    BY <1>2 DEF PayInv
  <2>2. SolventIn(Tables')
    BY <1>1, <1>2, <2>1, ExecuteStaysSolvent
  <2>3. SolventIn(saved')
    <3>1. saved' = saved \/ saved' = Tables'
      BY <1>2, ExecuteSaves
    <3> QED
      BY <2>2, <3>1 DEF PayInv
  <2>4. pending' \in Seq(PayableAction(supply'))
    <3>1. PICK inlines \in Seq(PayableAction(supply')) : Done(inlines)
      BY <1>1, <1>2, <2>1, SentIsPayable
    <3>2. PayableAction(supply) \subseteq PayableAction(supply')
      <4>1. supply > 0 => supply' > 0
        BY <1>2 DEF Execute, EosTransfer, Transfer, Open, Close, InitToken, InitTokenOk,
                    SwapTo, BlockSwapTo, tables
      <4> QED
        BY <1>1, <4>1, PayableStays DEF TypeOK
    <3>3. Tail(pending) \in Seq(PayableAction(supply'))
      BY <1>2, <3>2 DEF PayInv
    <3> QED
      BY <3>1, <3>3, ConcatProperties DEF Done
  <2> QED
    BY <1>1, <2>2, <2>3, <2>4 DEF PayInv
<1>3. CASE Rollback
  <2>1. SolventIn(Tables') /\ SolventIn(saved')
    BY <1>3 DEF Rollback, PayInv, SolventIn, Tables
  <2>2. pending' \in Seq(PayableAction(supply'))
    BY <1>3 DEF Rollback
  <2> QED
    BY <1>1, <2>1, <2>2 DEF PayInv
<1>4. ASSUME NEW tx \in Transactions, Begin(tx) PROVE PayInv'
  <2>1. Tables' = Tables /\ saved' = saved /\ supply' = supply
    BY <1>4 DEF Begin, tables, Tables
  <2>2. pending' \in Seq(PayableAction(supply))
    BY <1>1, <1>4, TransactionPayable DEF Begin, TypeOK
  <2> QED
    BY <1>1, <2>1, <2>2 DEF PayInv
<1>5. CASE UNCHANGED vars
  <2>1. Tables' = Tables /\ saved' = saved /\ supply' = supply /\ pending' = pending
    BY <1>5 DEF vars, tables, Tables
  <2> QED
    BY <1>1, <2>1 DEF PayInv
<1> QED
  BY <1>1, <1>2, <1>3, <1>4, <1>5, StepCases

\* Every payment the contract owes for the first half of a swap passes all its
\* checks when it runs, whatever the handlers have done in between: "there will
\* always be enough XYZ or EOS in the contract account to fulfill any swap".
THEOREM SwappersArePaid == Spec => []SwapsPay
<1>1. Init => PayInv
  <2> SUFFICES ASSUME Init PROVE PayInv
    OBVIOUS
  <2>1. PegInv
    BY PegAtFirst
  <2>2. ConservedInv
    BY ConservedAtFirst
  <2>3. SolventIn(Tables) /\ SolventIn(saved) /\ pending \in Seq(PayableAction(supply))
    BY DEF Init, SolventIn, Tables
  <2> QED
    BY <2>1, <2>2, <2>3 DEF PayInv
<1> QED
  BY <1>1, HeadIsPaid, PayInductive, PTL DEF Spec

-----------------------------------------------------------------------------
(* Refinement of AtomicSwap                                                *)

Move(balance, from, to, amt) == [balance EXCEPT ![from] = @ - amt, ![to] = @ + amt]

PaysEos(a, from, to, amt) ==
    /\ a.kind = "eosio.token::transfer" /\ a.sym = "EOS"
    /\ a.from = from /\ a.to = to /\ a.amt = amt

PaysXyz(a, from, to, amt) ==
    /\ a.kind = "transfer"
    /\ a.from = from /\ a.to = to /\ a.amt = amt

\* What has been paid of a swap between u and the contract.
Unpaid == eos = saved.eos /\ xyz = saved.xyz

EosPaid(u, amt) ==
    /\ amt \in 1 .. saved.eos[u]
    /\ eos = Move(saved.eos, u, Self, amt) /\ xyz = saved.xyz

XyzPaid(u, amt) ==
    /\ amt \in 1 .. saved.xyz[u]
    /\ xyz = Move(saved.xyz, u, Self, amt) /\ eos = saved.eos

EosSwapped(u, amt) ==
    /\ amt \in 1 .. saved.eos[u] /\ amt <= saved.xyz[Self]
    /\ eos = Move(saved.eos, u, Self, amt) /\ xyz = Move(saved.xyz, Self, u, amt)

XyzSwapped(u, amt) ==
    /\ amt \in 1 .. saved.xyz[u] /\ amt <= saved.eos[Self]
    /\ xyz = Move(saved.xyz, u, Self, amt) /\ eos = Move(saved.eos, Self, u, amt)

\* One action is left, x.  The last two cases are a swapto whose recipient is the
\* contract: what it is paid is swapped back.
OneLeft(x, u, v, amt) ==
    \/ EosPaid(u, amt) /\ PaysXyz(x, Self, u, amt)
    \/ XyzPaid(u, amt) /\ PaysEos(x, Self, u, amt)
    \/ EosSwapped(u, amt) /\ PaysXyz(x, u, v, amt) /\ v \notin blocked
    \/ XyzSwapped(u, amt) /\ PaysEos(x, u, v, amt) /\ v \notin blocked /\ u \notin Ignored
    \/ EosPaid(u, amt) /\ PaysEos(x, Self, u, amt)
    \/ XyzPaid(u, amt) /\ PaysXyz(x, Self, u, amt)

\* Two are left, x and then y: a swapto.
TwoLeft(x, y, u, v, amt) ==
    /\ v \notin blocked /\ u \notin Ignored
    /\ \/ Unpaid /\ PaysEos(x, u, Self, amt) /\ PaysXyz(y, u, v, amt)
       \/ EosPaid(u, amt) /\ PaysXyz(x, Self, u, amt) /\ PaysXyz(y, u, v, amt)
       \/ Unpaid /\ PaysXyz(x, u, Self, amt) /\ PaysEos(y, u, v, amt)
       \/ XyzPaid(u, amt) /\ PaysEos(x, Self, u, amt) /\ PaysEos(y, u, v, amt)

Pushed(x) ==
    /\ x \in UserAction
    /\ x.kind = "swapto" => x.from \notin Ignored
    /\ Unpaid

\* How a transaction of one action can stand.
Underway ==
    \/ \E x \in Action, u \in Name \ {Self}, v \in Name, amt \in Int :
           pending = <<x>> /\ OneLeft(x, u, v, amt)
    \/ \E x, y \in Action, u \in Name \ {Self}, v \in Name, amt \in Int :
           pending = <<x, y>> /\ TwoLeft(x, y, u, v, amt)

Swapping == Underway \/ \E x \in Action : pending = <<x>> /\ Pushed(x)

AtomicInv ==
    /\ ConservedInv
    /\ blocked = saved.blocked /\ supply = saved.supply
    /\ IF pending = <<>> THEN Unpaid ELSE Swapping

LEMMA MoveBack ==
    ASSUME NEW f \in [Name -> Int], NEW p \in Name, NEW q \in Name, p # q, NEW x \in Int
    PROVE  Move(Move(f, p, q, x), q, p, x) = f
<1> DEFINE g == Move(f, p, q, x)
           h == Move(g, q, p, x)
<1>1. /\ g \in [Name -> Int] /\ g[p] = f[p] - x /\ g[q] = f[q] + x
      /\ \A n \in Name \ {p, q} : g[n] = f[n]
  BY DEF Move
<1> HIDE DEF g
<1>2. /\ h \in [Name -> Int] /\ h[p] = g[p] + x /\ h[q] = g[q] - x
      /\ \A n \in Name \ {p, q} : h[n] = g[n]
  BY <1>1 DEF Move
<1> HIDE DEF h
<1>3. \A n \in Name : h[n] = f[n]
  BY <1>1, <1>2
<1>4. h = f
  BY <1>2, <1>3
<1> QED
  BY <1>4 DEF g, h

LEMMA MoveOn ==
    ASSUME NEW f \in [Name -> Int], NEW p \in Name, NEW q \in Name, NEW r \in Name,
           p # q, q # r, p # r, NEW x \in Int
    PROVE  Move(Move(f, p, q, x), q, r, x) = Move(f, p, r, x)
<1> DEFINE g == Move(f, p, q, x)
           h == Move(g, q, r, x)
           k == Move(f, p, r, x)
<1>1. /\ g \in [Name -> Int] /\ g[p] = f[p] - x /\ g[q] = f[q] + x
      /\ \A n \in Name \ {p, q} : g[n] = f[n]
  BY DEF Move
<1>2. /\ k \in [Name -> Int] /\ k[p] = f[p] - x /\ k[r] = f[r] + x
      /\ \A n \in Name \ {p, r} : k[n] = f[n]
  BY DEF Move
<1> HIDE DEF g, k
<1>3. /\ h \in [Name -> Int] /\ h[q] = g[q] - x /\ h[r] = g[r] + x
      /\ \A n \in Name \ {q, r} : h[n] = g[n]
  BY <1>1 DEF Move
<1> HIDE DEF h
<1>4. \A n \in Name : h[n] = k[n]
  BY <1>1, <1>2, <1>3
<1>5. h = k
  BY <1>2, <1>3, <1>4
<1> QED
  BY <1>5 DEF g, h, k

\* Between accounts without handlers nothing but the contract's own answer is sent.
LEMMA EosMoves ==
    ASSUME TypeOK, NEW a \in Action, {a.from, a.to} \cap Coded = {}, EosTransfer(a)
    PROVE  /\ a.from \in Name /\ a.to \in Name /\ a.from # a.to /\ a.amt \in Int
           /\ UNCHANGED <<xyz, blocked, supply>>
           /\ Done(OnTransfer(a))
           /\ a.sym = "EOS" => /\ a.amt \in 1 .. eos[a.from]
                               /\ eos' = Move(eos, a.from, a.to, a.amt)
           /\ a.sym # "EOS" => UNCHANGED eos /\ OnTransfer(a) = <<>>
<1>1. /\ a.from \in Name /\ a.to \in Name /\ a.from # a.to /\ a.amt \in Int /\ a.amt > 0
      /\ eos[a.from] \in Int
  BY DEF Action, EosTransfer, EosTransferOk, TypeOK
<1>2. UNCHANGED <<xyz, blocked, supply>>
  BY DEF EosTransfer
<1>3. PICK rf \in Replies(a.from, a), rt \in Replies(a.to, a) : Done(rf \o OnTransfer(a) \o rt)
  BY DEF EosTransfer
<1>4. rf = <<>> /\ rt = <<>>
  BY DEF Replies
<1>5. OnTransfer(a) \in Seq(Action)
  <2>1. /\ Self \in Name /\ "transfer" \in Kinds /\ "XYZ" \in Symbols
    BY NamesAssumption DEF Kinds, Symbols
  <2>2. Inline(a, "transfer", Self, a.from, "XYZ", a.amt, {Self}) \in Action
    BY <1>1, <2>1, InlineType
  <2> QED
    BY <2>2 DEF OnTransfer
<1>6. (<<>> \o OnTransfer(a)) \o <<>> = OnTransfer(a)
  <2>1. <<>> \o OnTransfer(a) = OnTransfer(a) /\ OnTransfer(a) \o <<>> = OnTransfer(a)
    BY <1>5, ConcatEmptySeq
  <2> QED
    BY <2>1
<1>7. a.sym = "EOS" => a.amt \in 1 .. eos[a.from] /\ eos' = Move(eos, a.from, a.to, a.amt)
  BY <1>1 DEF EosTransfer, EosTransferOk, Move
<1>8. a.sym # "EOS" => UNCHANGED eos /\ OnTransfer(a) = <<>>
  BY DEF EosTransfer, EosTransferOk, OnTransferOk, OnTransfer
<1> QED
  BY <1>1, <1>2, <1>3, <1>4, <1>6, <1>7, <1>8

LEMMA XyzMoves ==
    ASSUME TypeOK, NEW a \in Action, {a.from, a.to} \cap Coded = {}, Transfer(a)
    PROVE  /\ a.from \in Name /\ a.to \in Name /\ a.from # a.to
           /\ a.amt \in 1 .. xyz[a.from] /\ xyz' = Move(xyz, a.from, a.to, a.amt)
           /\ UNCHANGED <<eos, blocked, supply>>
           /\ a.to = Self => Done(CreditEos(a, a.from, a.amt))
           /\ a.to # Self => Done(<<>>)
<1>1. /\ a.from \in Name /\ a.to \in Name /\ a.from # a.to /\ a.amt \in Int /\ a.amt > 0
      /\ xyz[a.from] \in Int /\ Self \in Name
  BY NamesAssumption DEF Action, Transfer, TransferOk, TypeOK
<1>2. a.amt \in 1 .. xyz[a.from] /\ xyz' = Move(xyz, a.from, a.to, a.amt)
  BY <1>1 DEF Transfer, TransferOk, CanDebit, MoveXyz, Move
<1>3. UNCHANGED <<eos, blocked, supply>>
  BY DEF Transfer
<1> DEFINE pay == IF a.to = Self THEN CreditEos(a, a.from, a.amt) ELSE <<>>
<1>4. PICK rf \in Replies(a.from, a), rt \in Replies(a.to, a) : Done(pay \o rf \o rt)
  BY DEF Transfer
<1>5. rf = <<>> /\ rt = <<>>
  BY DEF Replies
<1>6. pay \in Seq(Action)
  <2>1. Inline(a, "eosio.token::transfer", Self, a.from, "EOS", a.amt, {Self}) \in Action
    BY <1>1, InlineType DEF Kinds, Symbols
  <2> QED
    BY <2>1 DEF CreditEos
<1> HIDE DEF pay
<1>7. pay \o <<>> = pay
  BY <1>6, ConcatEmptySeq
<1>8. Done(pay)
  BY <1>4, <1>5, <1>7
<1> QED
  BY <1>1, <1>2, <1>3, <1>8 DEF pay

\* The payments that the contract sends.
LEMMA ContractPays ==
    ASSUME NEW a \in Action
    PROVE  /\ \E x \in Action :
                  /\ CreditEos(a, a.from, a.amt) = <<x>>
                  /\ PaysEos(x, Self, a.from, a.amt)
           /\ \E x \in Action :
                  /\ OnTransfer(a) = IF SwapsEos(a) THEN <<x>> ELSE <<>>
                  /\ PaysXyz(x, Self, a.from, a.amt)
<1> DEFINE x == Inline(a, "eosio.token::transfer", Self, a.from, "EOS", a.amt, {Self})
           y == Inline(a, "transfer", Self, a.from, "XYZ", a.amt, {Self})
<1>1. /\ Self \in Name /\ a.from \in Name /\ a.amt \in Int
      /\ {"transfer", "eosio.token::transfer"} \subseteq Kinds
      /\ "XYZ" \in Symbols /\ "EOS" \in Symbols
  BY NamesAssumption DEF Action, Kinds, Symbols
<1>2. x \in Action /\ y \in Action
  BY <1>1, InlineType
<1>3. PaysEos(x, Self, a.from, a.amt) /\ PaysXyz(y, Self, a.from, a.amt)
  BY DEF PaysEos, PaysXyz, Inline
<1>4. /\ CreditEos(a, a.from, a.amt) = <<x>>
      /\ OnTransfer(a) = IF SwapsEos(a) THEN <<y>> ELSE <<>>
  BY DEF CreditEos, OnTransfer
<1> HIDE DEF x, y
<1> QED
  BY <1>2, <1>3, <1>4

LEMMA TransferByKind ==
    ASSUME NEW a, Execute(a)
    PROVE  /\ a.kind = "transfer" => Transfer(a)
           /\ a.kind = "eosio.token::transfer" => EosTransfer(a)
  BY DEF Execute, EosTransfer, Transfer, Open, Close, InitToken, SwapTo, BlockSwapTo

\* What is left when the first of one or two pending actions has sent s.
LEMMA WhatIsLeft ==
    ASSUME NEW x, NEW y, NEW z
    PROVE  /\ pending = <<x>> /\ Done(<<>>) => pending' = <<>> /\ saved' = Tables'
           /\ pending = <<x>> /\ Done(<<z>>) => pending' = <<z>> /\ saved' = saved
           /\ pending = <<x>> /\ Done(<<y, z>>) => pending' = <<y, z>> /\ saved' = saved
           /\ pending = <<x, y>> /\ Done(<<>>) => pending' = <<y>> /\ saved' = saved
           /\ pending = <<x, y>> /\ Done(<<z>>) => pending' = <<z, y>> /\ saved' = saved
<1>1. Tail(<<x>>) = <<>> /\ Tail(<<x, y>>) = <<y>>
  OBVIOUS
<1>2. /\ <<>> \o <<>> = <<>> /\ <<z>> \o <<>> = <<z>> /\ <<y, z>> \o <<>> = <<y, z>>
      /\ <<>> \o <<y>> = <<y>> /\ <<z>> \o <<y>> = <<z, y>>
  <2>1. /\ <<>> \in Seq({x, y, z}) /\ <<y>> \in Seq({x, y, z})
        /\ <<z>> \in Seq({x, y, z}) /\ <<y, z>> \in Seq({x, y, z})
    OBVIOUS
  <2>2. <<z>> \o <<y>> = <<z, y>>
    <3> DEFINE S == {y, z}
               p == <<z>>
               q == <<y>>
               r == <<z, y>>
    <3>1. /\ p \in Seq(S) /\ q \in Seq(S) /\ r \in Seq(S)
          /\ Len(p) = 1 /\ Len(q) = 1 /\ Len(r) = 2
          /\ p[1] = z /\ q[1] = y /\ r[1] = z /\ r[2] = y
      OBVIOUS
    <3> HIDE DEF S, p, q, r
    <3>2. /\ p \o q \in Seq(S) /\ Len(p \o q) = Len(p) + Len(q)
          /\ \A i \in 1 .. Len(p) + Len(q) :
                 (p \o q)[i] = IF i <= Len(p) THEN p[i] ELSE q[i - Len(p)]
      BY <3>1, ConcatProperties
    <3>3. \A i \in 1 .. 2 : (p \o q)[i] = r[i]
      BY <3>1, <3>2
    <3>4. p \o q = r
      BY <3>1, <3>2, <3>3, SeqEqual
    <3> QED
      BY <3>4 DEF p, q, r
  <2> QED
    BY <2>1, <2>2, ConcatEmptySeq
<1>3. <<z>> # <<>> /\ <<y>> # <<>> /\ <<y, z>> # <<>> /\ <<z, y>> # <<>>
  OBVIOUS
<1> QED
  BY <1>1, <1>2, <1>3 DEF Done

\* A step of the transaction: it goes on, or it commits one step of AtomicSwap.
Progress ==
    \/ /\ saved' = saved /\ UNCHANGED <<blocked, supply>>
       /\ pending' # <<>> /\ Underway'
    \/ saved' = Tables' /\ pending' = <<>> /\ (Atomic!Next \/ UNCHANGED Atomic!vars)

LEMMA GoesOn ==
    ASSUME saved' = saved, UNCHANGED <<blocked, supply>>, NEW u \in Name \ {Self},
           NEW v \in Name, NEW amt \in Int, NEW z \in Action,
           \/ pending' = <<z>> /\ OneLeft(z, u, v, amt)'
           \/ \E y \in Action : pending' = <<z, y>> /\ TwoLeft(z, y, u, v, amt)'
    PROVE  Progress
<1>1. \A y : <<z>> # <<>> /\ <<z, y>> # <<>>
  OBVIOUS
<1> QED
  BY <1>1 DEF Progress, Underway

\* The committed tables have changed by a swap, or not at all.
LEMMA Exchanges ==
    ASSUME saved' = Tables', pending' = <<>>, blocked' = saved.blocked,
           supply' = saved.supply, NEW u \in Name \ {Self}, NEW v \in Name \ {Self},
           v = u \/ v \notin saved.blocked, NEW amt \in Int,
           \/ /\ amt \in 1 .. saved.eos[u] /\ amt <= saved.xyz[Self]
              /\ eos' = Move(saved.eos, u, Self, amt) /\ xyz' = Move(saved.xyz, Self, v, amt)
           \/ /\ amt \in 1 .. saved.xyz[u] /\ amt <= saved.eos[Self]
              /\ xyz' = Move(saved.xyz, u, Self, amt) /\ eos' = Move(saved.eos, Self, v, amt)
    PROVE  Progress
<1>1. /\ saved'.eos = eos' /\ saved'.xyz = xyz' /\ saved'.blocked = saved.blocked
      /\ saved'.supply = saved.supply
  BY DEF Tables
<1>2. Atomic!EosForXyz(u, v) \/ Atomic!XyzForEos(u, v)
  BY <1>1 DEF Atomic!EosForXyz, Atomic!XyzForEos, Atomic!Welcome, Atomic!Move, Move
<1>3. u \in Atomic!Users /\ v \in Atomic!Users
  BY DEF Atomic!Users
<1>4. Atomic!Next
  BY <1>2, <1>3 DEF Atomic!Next
<1> QED
  BY <1>4 DEF Progress

LEMMA NothingExchanged ==
    ASSUME saved' = Tables', pending' = <<>>, blocked' = saved.blocked,
           supply' = saved.supply, eos' = saved.eos, xyz' = saved.xyz
    PROVE  Progress
<1>1. UNCHANGED Atomic!vars
  BY DEF Tables, Atomic!vars
<1> QED
  BY <1>1 DEF Progress

\* The first of the two actions that a swapto sends.
LEMMA FirstOfTwo ==
    ASSUME Coded = {}, AtomicInv, NEW x \in Action, NEW y \in Action,
           NEW u \in Name \ {Self}, NEW v \in Name, NEW amt \in Int,
           pending = <<x, y>>, Execute(x), TwoLeft(x, y, u, v, amt)
    PROVE  Progress
<1>1. /\ TypeOK /\ Coded = {} /\ blocked = saved.blocked /\ supply = saved.supply
      /\ u \in Name /\ u # Self /\ v \notin blocked /\ u \notin Ignored
  BY DEF AtomicInv, ConservedInv, TwoLeft
<1>2. CASE Unpaid /\ PaysEos(x, u, Self, amt) /\ PaysXyz(y, u, v, amt)
  <2>1. EosTransfer(x) /\ x.sym = "EOS" /\ SwapsEos(x)
    BY <1>1, <1>2, TransferByKind DEF PaysEos, SwapsEos
  <2>2. /\ UNCHANGED <<xyz, blocked, supply>> /\ Done(OnTransfer(x))
        /\ amt \in 1 .. eos[u] /\ eos' = Move(eos, u, Self, amt)
    BY <1>1, <1>2, <2>1, EosMoves DEF PaysEos
  <2>3. PICK z \in Action : OnTransfer(x) = <<z>> /\ PaysXyz(z, Self, u, amt)
    BY <1>2, <2>1, ContractPays DEF PaysEos
  <2>4. pending' = <<z, y>> /\ saved' = saved
    BY <2>2, <2>3, WhatIsLeft
  <2>5. EosPaid(u, amt)'
    BY <1>2, <2>2, <2>4 DEF Unpaid, EosPaid
  <2>6. TwoLeft(z, y, u, v, amt)'
    BY <1>1, <1>2, <2>2, <2>3, <2>5 DEF TwoLeft
  <2> QED
    BY <2>2, <2>4, <2>6, GoesOn
<1>3. CASE EosPaid(u, amt) /\ PaysXyz(x, Self, u, amt) /\ PaysXyz(y, u, v, amt)
  <2>1. Transfer(x)
    BY <1>3, TransferByKind DEF PaysXyz
  <2>2. /\ UNCHANGED <<eos, blocked, supply>> /\ Done(<<>>)
        /\ amt \in 1 .. xyz[Self] /\ xyz' = Move(xyz, Self, u, amt)
    BY <1>1, <1>3, <2>1, XyzMoves DEF PaysXyz
  <2>3. pending' = <<y>> /\ saved' = saved
    BY <2>2, WhatIsLeft
  <2>4. EosSwapped(u, amt)'
    BY <1>3, <2>2, <2>3 DEF EosPaid, EosSwapped
  <2>5. OneLeft(y, u, v, amt)'
    BY <1>1, <1>3, <2>2, <2>4 DEF OneLeft
  <2> QED
    BY <2>2, <2>3, <2>5, GoesOn
<1>4. CASE Unpaid /\ PaysXyz(x, u, Self, amt) /\ PaysEos(y, u, v, amt)
  <2>1. Transfer(x)
    BY <1>4, TransferByKind DEF PaysXyz
  <2>2. /\ UNCHANGED <<eos, blocked, supply>> /\ Done(CreditEos(x, x.from, x.amt))
        /\ amt \in 1 .. xyz[u] /\ xyz' = Move(xyz, u, Self, amt)
    BY <1>1, <1>4, <2>1, XyzMoves DEF PaysXyz
  <2>3. PICK z \in Action :
            CreditEos(x, x.from, x.amt) = <<z>> /\ PaysEos(z, Self, u, amt)
    BY <1>4, ContractPays DEF PaysXyz
  <2>4. pending' = <<z, y>> /\ saved' = saved
    BY <2>2, <2>3, WhatIsLeft
  <2>5. XyzPaid(u, amt)'
    BY <1>4, <2>2, <2>4 DEF Unpaid, XyzPaid
  <2>6. TwoLeft(z, y, u, v, amt)'
    BY <1>1, <1>4, <2>2, <2>3, <2>5 DEF TwoLeft
  <2> QED
    BY <2>2, <2>4, <2>6, GoesOn
<1>5. CASE XyzPaid(u, amt) /\ PaysEos(x, Self, u, amt) /\ PaysEos(y, u, v, amt)
  <2>1. EosTransfer(x) /\ x.sym = "EOS" /\ OnTransfer(x) = <<>>
    BY <1>5, TransferByKind DEF PaysEos, OnTransfer, SwapsEos
  <2>2. /\ UNCHANGED <<xyz, blocked, supply>> /\ Done(<<>>)
        /\ amt \in 1 .. eos[Self] /\ eos' = Move(eos, Self, u, amt)
    BY <1>1, <1>5, <2>1, EosMoves DEF PaysEos
  <2>3. pending' = <<y>> /\ saved' = saved
    BY <2>2, WhatIsLeft
  <2>4. XyzSwapped(u, amt)'
    BY <1>5, <2>2, <2>3 DEF XyzPaid, XyzSwapped
  <2>5. OneLeft(y, u, v, amt)'
    BY <1>1, <1>5, <2>2, <2>4 DEF OneLeft
  <2> QED
    BY <2>2, <2>3, <2>5, GoesOn
<1> QED
  BY <1>2, <1>3, <1>4, <1>5 DEF TwoLeft

\* The last action of a swap, or the first half of swapping back.
LEMMA LastOne ==
    ASSUME Coded = {}, AtomicInv, NEW x \in Action, NEW u \in Name \ {Self},
           NEW v \in Name, NEW amt \in Int,
           pending = <<x>>, Execute(x), OneLeft(x, u, v, amt)
    PROVE  Progress
<1>1. /\ TypeOK /\ Coded = {} /\ blocked = saved.blocked /\ supply = saved.supply
      /\ u \in Name /\ u # Self /\ Self \in Name
      /\ saved.eos \in [Name -> Int] /\ saved.xyz \in [Name -> Int]
  BY NamesAssumption DEF AtomicInv, ConservedInv, TypeOK, Database
<1>2. CASE EosPaid(u, amt) /\ PaysXyz(x, Self, u, amt)
  <2>1. Transfer(x)
    BY <1>2, TransferByKind DEF PaysXyz
  <2>2. /\ UNCHANGED <<eos, blocked, supply>> /\ Done(<<>>)
        /\ amt \in 1 .. xyz[Self] /\ xyz' = Move(xyz, Self, u, amt)
    BY <1>1, <1>2, <2>1, XyzMoves DEF PaysXyz
  <2>3. pending' = <<>> /\ saved' = Tables'
    BY <2>2, WhatIsLeft
  <2>4. /\ amt \in 1 .. saved.eos[u] /\ amt <= saved.xyz[Self]
        /\ eos' = Move(saved.eos, u, Self, amt) /\ xyz' = Move(saved.xyz, Self, u, amt)
    BY <1>2, <2>2 DEF EosPaid
  <2> QED
    BY <1>1, <2>2, <2>3, <2>4, Exchanges
<1>3. CASE XyzPaid(u, amt) /\ PaysEos(x, Self, u, amt)
  <2>1. EosTransfer(x) /\ x.sym = "EOS" /\ OnTransfer(x) = <<>>
    BY <1>3, TransferByKind DEF PaysEos, OnTransfer, SwapsEos
  <2>2. /\ UNCHANGED <<xyz, blocked, supply>> /\ Done(<<>>)
        /\ amt \in 1 .. eos[Self] /\ eos' = Move(eos, Self, u, amt)
    BY <1>1, <1>3, <2>1, EosMoves DEF PaysEos
  <2>3. pending' = <<>> /\ saved' = Tables'
    BY <2>2, WhatIsLeft
  <2>4. /\ amt \in 1 .. saved.xyz[u] /\ amt <= saved.eos[Self]
        /\ xyz' = Move(saved.xyz, u, Self, amt) /\ eos' = Move(saved.eos, Self, u, amt)
    BY <1>3, <2>2 DEF XyzPaid
  <2> QED
    BY <1>1, <2>2, <2>3, <2>4, Exchanges
<1>4. CASE EosSwapped(u, amt) /\ PaysXyz(x, u, v, amt) /\ v \notin blocked
  <2>1. Transfer(x)
    BY <1>4, TransferByKind DEF PaysXyz
  <2>2. /\ UNCHANGED <<eos, blocked, supply>> /\ u # v
        /\ xyz' = Move(Move(saved.xyz, Self, u, amt), u, v, amt)
        /\ v = Self => Done(CreditEos(x, x.from, x.amt))
        /\ v # Self => Done(<<>>)
    BY <1>1, <1>4, <2>1, XyzMoves DEF PaysXyz, EosSwapped
  <2>3. CASE v = Self
    <3>1. xyz' = saved.xyz
      BY <1>1, <2>2, <2>3, MoveBack
    <3>2. PICK z \in Action :
              CreditEos(x, x.from, x.amt) = <<z>> /\ PaysEos(z, Self, u, amt)
      BY <1>4, ContractPays DEF PaysXyz
    <3>3. pending' = <<z>> /\ saved' = saved
      BY <2>2, <2>3, <3>2, WhatIsLeft
    <3>4. EosPaid(u, amt)'
      BY <1>4, <2>2, <3>1, <3>3 DEF EosSwapped, EosPaid
    <3>5. OneLeft(z, u, v, amt)'
      BY <3>2, <3>4 DEF OneLeft
    <3> QED
      BY <2>2, <3>3, <3>5, GoesOn
  <2>4. CASE v # Self
    <3>1. Move(Move(saved.xyz, Self, u, amt), u, v, amt) = Move(saved.xyz, Self, v, amt)
      <4>1. /\ Self \in Name /\ u \in Name /\ v \in Name /\ amt \in Int
            /\ Self # u /\ u # v /\ Self # v /\ saved.xyz \in [Name -> Int]
        BY <1>1, <2>2, <2>4
      <4> QED
        BY <4>1, MoveOn
    <3>2. pending' = <<>> /\ saved' = Tables'
      BY <2>2, <2>4, WhatIsLeft
    <3>3. xyz' = Move(saved.xyz, Self, v, amt)
      BY <2>2, <3>1
    <3>4. /\ amt \in 1 .. saved.eos[u] /\ amt <= saved.xyz[Self]
          /\ eos' = Move(saved.eos, u, Self, amt)
      BY <1>4, <2>2 DEF EosSwapped
    <3> QED
      BY <1>1, <1>4, <2>2, <2>4, <3>1, <3>2, <3>3, <3>4, Exchanges
  <2> QED
    BY <2>3, <2>4
<1>5. CASE XyzSwapped(u, amt) /\ PaysEos(x, u, v, amt) /\ v \notin blocked /\ u \notin Ignored
  <2>1. EosTransfer(x) /\ x.sym = "EOS"
    BY <1>5, TransferByKind DEF PaysEos
  <2>2. /\ UNCHANGED <<xyz, blocked, supply>> /\ u # v /\ Done(OnTransfer(x))
        /\ eos' = Move(Move(saved.eos, Self, u, amt), u, v, amt)
    BY <1>1, <1>5, <2>1, EosMoves DEF PaysEos, XyzSwapped
  <2>3. CASE v = Self
    <3>1. eos' = saved.eos
      BY <1>1, <2>2, <2>3, MoveBack
    <3>2. SwapsEos(x)
      BY <1>1, <1>5, <2>3 DEF SwapsEos, PaysEos
    <3>3. PICK z \in Action : OnTransfer(x) = <<z>> /\ PaysXyz(z, Self, u, amt)
      BY <1>5, <3>2, ContractPays DEF PaysEos
    <3>4. pending' = <<z>> /\ saved' = saved
      BY <2>2, <3>3, WhatIsLeft
    <3>5. XyzPaid(u, amt)'
      BY <1>5, <2>2, <3>1, <3>4 DEF XyzSwapped, XyzPaid
    <3>6. OneLeft(z, u, v, amt)'
      BY <3>3, <3>5 DEF OneLeft
    <3> QED
      BY <2>2, <3>4, <3>6, GoesOn
  <2>4. CASE v # Self
    <3>1. eos' = Move(saved.eos, Self, v, amt)
      BY <1>1, <2>2, <2>4, MoveOn
    <3>2. OnTransfer(x) = <<>>
      BY <1>5, <2>4 DEF PaysEos, OnTransfer, SwapsEos
    <3>3. pending' = <<>> /\ saved' = Tables'
      BY <2>2, <3>2, WhatIsLeft
    <3>4. /\ amt \in 1 .. saved.xyz[u] /\ amt <= saved.eos[Self]
          /\ xyz' = Move(saved.xyz, u, Self, amt)
      BY <1>5, <2>2 DEF XyzSwapped
    <3> QED
      BY <1>1, <1>5, <2>2, <2>4, <3>1, <3>3, <3>4, Exchanges
  <2> QED
    BY <2>3, <2>4
<1>6. CASE EosPaid(u, amt) /\ PaysEos(x, Self, u, amt)
  <2>1. EosTransfer(x) /\ x.sym = "EOS" /\ OnTransfer(x) = <<>>
    BY <1>6, TransferByKind DEF PaysEos, OnTransfer, SwapsEos
  <2>2. /\ UNCHANGED <<xyz, blocked, supply>> /\ Done(<<>>)
        /\ eos' = Move(Move(saved.eos, u, Self, amt), Self, u, amt)
    BY <1>1, <1>6, <2>1, EosMoves DEF PaysEos, EosPaid
  <2>3. eos' = saved.eos /\ xyz' = saved.xyz
    BY <1>1, <1>6, <2>2, MoveBack DEF EosPaid
  <2>4. pending' = <<>> /\ saved' = Tables'
    BY <2>2, WhatIsLeft
  <2> QED
    BY <1>1, <2>2, <2>3, <2>4, NothingExchanged
<1>7. CASE XyzPaid(u, amt) /\ PaysXyz(x, Self, u, amt)
  <2>1. Transfer(x)
    BY <1>7, TransferByKind DEF PaysXyz
  <2>2. /\ UNCHANGED <<eos, blocked, supply>> /\ Done(<<>>)
        /\ xyz' = Move(Move(saved.xyz, u, Self, amt), Self, u, amt)
    BY <1>1, <1>7, <2>1, XyzMoves DEF PaysXyz, XyzPaid
  <2>3. eos' = saved.eos /\ xyz' = saved.xyz
    BY <1>1, <1>7, <2>2, MoveBack DEF XyzPaid
  <2>4. pending' = <<>> /\ saved' = Tables'
    BY <2>2, WhatIsLeft
  <2> QED
    BY <1>1, <2>2, <2>3, <2>4, NothingExchanged
<1> QED
  BY <1>2, <1>3, <1>4, <1>5, <1>6, <1>7 DEF OneLeft

\* A commit that is a step of AtomicSwap.
LEMMA CommitIsStep ==
    ASSUME AtomicInv, Unpaid, saved' = Tables', pending' = <<>>
    PROVE  /\ eos = saved.eos /\ xyz = saved.xyz
           /\ blocked = saved.blocked /\ supply = saved.supply
           /\ eos' = saved'.eos /\ xyz' = saved'.xyz
           /\ blocked' = saved'.blocked /\ supply' = saved'.supply
           /\ Atomic!Next \/ UNCHANGED Atomic!vars => Progress
  BY DEF AtomicInv, Unpaid, Tables, Progress

\* The first payment that a user makes himself.
LEMMA UserPays ==
    ASSUME Coded = {}, AtomicInv, NEW x \in Action, pending = <<x>>, Pushed(x),
           EosTransfer(x) \/ Transfer(x)
    PROVE  Progress
<1>1. /\ TypeOK /\ Coded = {} /\ Self \in Name /\ Unpaid
      /\ blocked = saved.blocked /\ supply = saved.supply
  BY NamesAssumption DEF AtomicInv, ConservedInv, Pushed
<1>2. x.from # Self /\ x.from \in Name \ {Self} /\ x.from \in Atomic!Users /\ x.to \in Name
  BY DEF Pushed, UserAction, IsTransfer, EosTransfer, EosTransferOk, Transfer, TransferOk,
         Action, Atomic!Users
<1>3. CASE EosTransfer(x)
  <2>1. /\ x.from # x.to /\ x.amt \in Int
        /\ UNCHANGED <<xyz, blocked, supply>> /\ Done(OnTransfer(x))
        /\ x.sym = "EOS" => /\ x.amt \in 1 .. eos[x.from]
                            /\ eos' = Move(eos, x.from, x.to, x.amt)
        /\ x.sym # "EOS" => UNCHANGED eos /\ OnTransfer(x) = <<>>
    BY <1>1, <1>3, EosMoves
  <2>2. CASE SwapsEos(x)
    <3>1. x.sym = "EOS" /\ x.to = Self
      BY <1>3, <2>2 DEF EosTransfer, EosTransferOk, OnTransferOk, SwapsEos
    <3>2. PICK z \in Action : OnTransfer(x) = <<z>> /\ PaysXyz(z, Self, x.from, x.amt)
      BY <2>2, ContractPays
    <3>3. pending' = <<z>> /\ saved' = saved
      BY <2>1, <3>2, WhatIsLeft
    <3>4. EosPaid(x.from, x.amt)'
      BY <1>1, <2>1, <3>1, <3>3 DEF Unpaid, EosPaid
    <3>5. OneLeft(z, x.from, Self, x.amt)'
      BY <3>2, <3>4 DEF OneLeft
    <3> QED
      BY <1>1, <1>2, <2>1, <3>3, <3>5, GoesOn
  <2>3. CASE ~SwapsEos(x)
    <3>1. pending' = <<>> /\ saved' = Tables'
      BY <2>1, <2>3, WhatIsLeft DEF OnTransfer
    <3>2. CASE x.sym # "EOS"
      BY <1>1, <2>1, <3>1, <3>2, CommitIsStep DEF Atomic!vars
    <3>3. CASE x.sym = "EOS" /\ x.to = Self
      <4>1. x.from \in Ignored
        BY <1>2, <2>3, <3>3 DEF SwapsEos
      <4>2. Atomic!Keep(x.from)
        BY <1>1, <2>1, <3>1, <3>3, <4>1, CommitIsStep DEF Atomic!Keep, Atomic!Move, Move
      <4> QED
        BY <1>1, <1>2, <3>1, <4>2, CommitIsStep DEF Atomic!Next
    <3>4. CASE x.sym = "EOS" /\ x.to # Self
      <4>1. Atomic!SendEos(x.from, x.to)
        BY <1>1, <2>1, <3>1, <3>4, CommitIsStep DEF Atomic!SendEos, Atomic!Move, Move
      <4>2. x.to \in Atomic!Users
        BY <1>2, <3>4 DEF Atomic!Users
      <4> QED
        BY <1>1, <1>2, <3>1, <4>1, <4>2, CommitIsStep DEF Atomic!Next
    <3> QED
      BY <3>2, <3>3, <3>4
  <2> QED
    BY <2>2, <2>3
<1>4. CASE Transfer(x)
  <2>1. /\ x.from # x.to /\ UNCHANGED <<eos, blocked, supply>>
        /\ x.amt \in 1 .. xyz[x.from] /\ xyz' = Move(xyz, x.from, x.to, x.amt)
        /\ x.to = Self => Done(CreditEos(x, x.from, x.amt))
        /\ x.to # Self => Done(<<>>)
    BY <1>1, <1>4, XyzMoves
  <2>2. CASE x.to = Self
    <3>1. PICK z \in Action :
              CreditEos(x, x.from, x.amt) = <<z>> /\ PaysEos(z, Self, x.from, x.amt)
      BY ContractPays
    <3>2. pending' = <<z>> /\ saved' = saved
      BY <2>1, <2>2, <3>1, WhatIsLeft
    <3>3. XyzPaid(x.from, x.amt)'
      BY <1>1, <2>1, <2>2, <3>2 DEF Unpaid, XyzPaid
    <3>4. OneLeft(z, x.from, Self, x.amt)' /\ x.amt \in Int
      BY <3>1, <3>3 DEF OneLeft, Action
    <3> QED
      BY <1>1, <1>2, <2>1, <3>2, <3>4, GoesOn
  <2>3. CASE x.to # Self
    <3>1. pending' = <<>> /\ saved' = Tables'
      BY <2>1, <2>3, WhatIsLeft
    <3>2. Atomic!SendXyz(x.from, x.to)
      BY <1>1, <2>1, <3>1, CommitIsStep DEF Atomic!SendXyz, Atomic!Move, Move
    <3>3. x.to \in Atomic!Users
      BY <1>2, <2>3 DEF Atomic!Users
    <3> QED
      BY <1>1, <1>2, <3>1, <3>2, <3>3, CommitIsStep DEF Atomic!Next
  <2> QED
    BY <2>2, <2>3
<1> QED
  BY <1>3, <1>4

\* The two payments that a swapto sends.
LEMMA SwapToStarts ==
    ASSUME Coded = {}, AtomicInv, NEW x \in Action, pending = <<x>>, Pushed(x), SwapTo(x)
    PROVE  Progress
<1> DEFINE y1 == Inline(x, "eosio.token::transfer", x.from, Self, "EOS", x.amt, {x.from})
           z1 == Inline(x, "transfer", x.from, x.to, "XYZ", x.amt, {x.from})
           y2 == Inline(x, "transfer", x.from, Self, "XYZ", x.amt, {x.from})
           z2 == Inline(x, "eosio.token::transfer", x.from, x.to, "EOS", x.amt, {x.from})
<1>1. /\ Unpaid /\ UNCHANGED tables /\ Done(SwapToInlines(x))
      /\ x.to \notin blocked /\ x.from \notin Ignored
  BY DEF SwapTo, SwapToOk, Pushed
<1>2. x.from \in Name \ {Self} /\ x.to \in Name /\ x.amt \in Int
  BY DEF Pushed, UserAction, SwapTo, SwapToOk, Action
<1>3. /\ y1 \in Action /\ z1 \in Action /\ y2 \in Action /\ z2 \in Action
      /\ PaysEos(y1, x.from, Self, x.amt) /\ PaysXyz(z1, x.from, x.to, x.amt)
      /\ PaysXyz(y2, x.from, Self, x.amt) /\ PaysEos(z2, x.from, x.to, x.amt)
  BY SwapToSends DEF PaysEos, PaysXyz, Inline
<1>4. SwapToInlines(x) = IF x.sym = "EOS" THEN <<y1, z1>> ELSE <<y2, z2>>
  BY DEF SwapToInlines
<1> HIDE DEF y1, z1, y2, z2
<1>5. PICK y \in Action, z \in Action :
          /\ SwapToInlines(x) = <<y, z>>
          /\ \/ PaysEos(y, x.from, Self, x.amt) /\ PaysXyz(z, x.from, x.to, x.amt)
             \/ PaysXyz(y, x.from, Self, x.amt) /\ PaysEos(z, x.from, x.to, x.amt)
  BY <1>3, <1>4
<1>6. pending' = <<y, z>> /\ saved' = saved
  BY <1>1, <1>5, WhatIsLeft
<1>7. Unpaid' /\ UNCHANGED <<blocked, supply>>
  BY <1>1, <1>6 DEF Unpaid, tables
<1>8. TwoLeft(y, z, x.from, x.to, x.amt)'
  BY <1>1, <1>5, <1>7 DEF TwoLeft
<1> QED
  BY <1>2, <1>6, <1>7, <1>8, GoesOn

\* The only action of a transaction, before it has sent anything.
LEMMA FirstOne ==
    ASSUME Coded = {}, AtomicInv, NEW x \in Action,
           pending = <<x>>, Pushed(x), Execute(x)
    PROVE  Progress
<1>1. /\ TypeOK /\ ConservedInv /\ Self \in Name /\ Unpaid
      /\ xyz \in [Name -> Nat] /\ x.from \in Name /\ x.amt \in Int
  BY NamesAssumption DEF AtomicInv, ConservedInv, Pushed, TypeOK, Action
<1>2. CASE Open(x) \/ Close(x)
  <2>1. UNCHANGED <<eos, xyz, blocked, supply>> /\ Done(<<>>)
    BY <1>1, <1>2 DEF Open, Close, CloseOk
  <2>2. pending' = <<>> /\ saved' = Tables'
    BY <2>1, WhatIsLeft
  <2> QED
    BY <1>1, <2>1, <2>2, CommitIsStep DEF Atomic!vars
<1>3. CASE InitToken(x)
  <2>1. /\ supply = 0 /\ supply' = x.amt /\ x.amt > 0 /\ Done(<<>>)
        /\ xyz' = [xyz EXCEPT ![Self] = @ + x.amt] /\ UNCHANGED <<eos, blocked>>
    BY <1>3 DEF InitToken, InitTokenOk
  <2>2. xyz[Self] = 0
    BY <1>1, <2>1, NobodyHoldsMore
  <2>3. xyz' = [xyz EXCEPT ![Self] = supply'] /\ supply' \in Nat \ {0}
    <3>1. xyz[Self] + x.amt = supply' /\ supply' \in Nat \ {0}
      BY <1>1, <2>1, <2>2
    <3> QED
      BY <2>1, <3>1, Zenon
  <2>4. pending' = <<>> /\ saved' = Tables'
    BY <2>1, WhatIsLeft
  <2>5. Atomic!Issue
    BY <1>1, <2>1, <2>3, <2>4, CommitIsStep DEF Atomic!Issue
  <2> QED
    BY <1>1, <2>4, <2>5, CommitIsStep DEF Atomic!Next
<1>4. CASE BlockSwapTo(x)
  <2>1. /\ blocked' \in {blocked \cup {x.from}, blocked \ {x.from}}
        /\ UNCHANGED <<eos, xyz, supply>> /\ Done(<<>>)
    BY <1>4 DEF BlockSwapTo
  <2>2. pending' = <<>> /\ saved' = Tables'
    BY <2>1, WhatIsLeft
  <2>3. Atomic!SetBlocked(x.from)
    BY <1>1, <2>1, <2>2, CommitIsStep DEF Atomic!SetBlocked
  <2> QED
    BY <1>1, <2>2, <2>3, CommitIsStep DEF Atomic!Next
<1> QED
  BY <1>2, <1>3, <1>4, UserPays, SwapToStarts DEF Execute

\* Whatever stage the transaction is at.
LEMMA SwapProgresses ==
    ASSUME Coded = {}, AtomicInv, pending # <<>>, NEW a, a = Head(pending), Execute(a)
    PROVE  Progress
<1>1. \A x, y : Head(<<x>>) = x /\ Head(<<x, y>>) = x
  OBVIOUS
<1>2. Swapping
  BY DEF AtomicInv
<1>3. CASE \E x \in Action : pending = <<x>> /\ Pushed(x)
  BY <1>1, <1>3, FirstOne
<1>4. CASE \E x \in Action, u \in Name \ {Self}, v \in Name, amt \in Int :
               pending = <<x>> /\ OneLeft(x, u, v, amt)
  BY <1>1, <1>4, LastOne
<1>5. CASE \E x, y \in Action, u \in Name \ {Self}, v \in Name, amt \in Int :
               pending = <<x, y>> /\ TwoLeft(x, y, u, v, amt)
  BY <1>1, <1>5, FirstOfTwo
<1> QED
  BY <1>2, <1>3, <1>4, <1>5 DEF Swapping, Underway

\* Every step either leaves the committed tables alone or commits one step of
\* AtomicSwap.
LEMMA AtomicStep ==
    ASSUME SwapsAlone, AtomicInv, [Next]_vars
    PROVE  AtomicInv' /\ [Atomic!Next]_Atomic!vars
<1>1. ConservedInv' /\ TypeOK
  BY ConservedInductive DEF AtomicInv, ConservedInv
<1>2. ASSUME pending # <<>>, NEW a \in Action, a = Head(pending), Execute(a)
      PROVE  Progress
  BY <1>2, SwapProgresses DEF SwapsAlone
<1>3. ASSUME Progress
      PROVE  AtomicInv' /\ [Atomic!Next]_Atomic!vars
  <2>1. CASE /\ saved' = saved /\ UNCHANGED <<blocked, supply>>
             /\ pending' # <<>> /\ Underway'
    BY <1>1, <2>1 DEF AtomicInv, Swapping, Atomic!vars
  <2>2. CASE /\ saved' = Tables' /\ pending' = <<>>
             /\ Atomic!Next \/ UNCHANGED Atomic!vars
    BY <1>1, <2>2 DEF AtomicInv, Unpaid, Tables
  <2> QED
    BY <1>3, <2>1, <2>2 DEF Progress
<1>4. CASE Rollback
  BY <1>1, <1>4 DEF AtomicInv, Rollback, Unpaid, Atomic!vars
<1>5. ASSUME NEW tx \in Transactions, Begin(tx)
      PROVE  AtomicInv' /\ [Atomic!Next]_Atomic!vars
  <2>1. /\ pending = <<>> /\ pending' = tx /\ UNCHANGED <<tables, saved>>
        /\ Unpaid /\ blocked = saved.blocked /\ supply = saved.supply
    BY <1>5 DEF Begin, AtomicInv
  <2>2. /\ tx \in Seq(UserAction) /\ Len(tx) = 1
        /\ tx[1].kind = "swapto" => tx[1].from \notin Ignored
    BY TransactionsAssumption DEF SwapsAlone
  <2>3. tx[1] \in UserAction /\ tx[1] \in Action /\ tx = <<tx[1]>> /\ tx # <<>>
    BY <2>2 DEF UserAction
  <2>4. Unpaid'
    BY <2>1 DEF Unpaid, tables
  <2>5. Swapping'
    BY <2>1, <2>2, <2>3, <2>4 DEF Swapping, Pushed
  <2> QED
    BY <1>1, <2>1, <2>3, <2>5 DEF AtomicInv, tables, Atomic!vars
<1>6. CASE UNCHANGED vars
  <2>1. /\ UNCHANGED <<eos, xyz, blocked, supply, pending, saved>>
    BY <1>6 DEF vars, tables
  <2>2. Unpaid' <=> Unpaid
    BY <2>1 DEF Unpaid
  <2>3. Swapping' <=> Swapping
    BY <2>1 DEF Swapping, Underway, Pushed, Unpaid, OneLeft, TwoLeft, EosPaid, XyzPaid, EosSwapped,
                XyzSwapped
  <2> QED
    BY <1>1, <2>1, <2>2, <2>3 DEF AtomicInv, Atomic!vars
<1> QED
  BY <1>1, <1>2, <1>3, <1>4, <1>5, <1>6, StepCases

LEMMA AtomicAtFirst == Init => AtomicInv /\ Atomic!Init
<1> SUFFICES ASSUME Init PROVE AtomicInv /\ Atomic!Init
  OBVIOUS
<1>1. ConservedInv
  BY ConservedAtFirst
<1>2. /\ saved.eos = eos /\ saved.xyz = xyz /\ saved.blocked = blocked
      /\ saved.supply = supply /\ pending = <<>>
  BY DEF Init, Tables
<1> QED
  BY <1>1, <1>2 DEF AtomicInv, Unpaid, Init, Atomic!Init

\* Without handlers, a transaction of one action is one step of AtomicSwap, or none:
\* whoever pushes what, and however its steps and rejections fall, the committed tables
\* only ever change by whole swaps, one for one.
THEOREM SwapsAreWhole == ASSUME SwapsAlone PROVE Spec => SwapsAreAtomic
<1>1. AtomicInv /\ [Next]_vars => AtomicInv' /\ [Atomic!Next]_Atomic!vars
  BY AtomicStep
<1> QED
  BY <1>1, AtomicAtFirst, PTL DEF Spec, SwapsAreAtomic, Atomic!Spec

=============================================================================
