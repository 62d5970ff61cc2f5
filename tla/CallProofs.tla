----------------------------- MODULE CallProofs -----------------------------
(***************************************************************************)
(* Theorems about Forwarding, for any set of accounts, any handlers of     *)
(* theirs, any transactions and any depth limit: whose balances a          *)
(* transaction may touch, and what a single call has done once it commits. *)
(***************************************************************************)
EXTENDS ForwardingProofs, SwapPaymentProofs

-----------------------------------------------------------------------------
(* Who follows transfer and swaptrace knows the XYZ balances               *)

\* Between two actions the followed balances are right, but for what a pending
\* swaptrace is about to tell.
TrackInv ==
    /\ CallInv
    /\ TrackersAgree
    /\ IF pending # <<>> /\ Head(pending) \in TraceAction(Authorities)
       THEN LET a == Head(pending)
            IN  xyz = [tracked EXCEPT ![a.from] = @ - a.amt, ![Self] = @ + a.amt]
       ELSE tracked = xyz

\* What others send is no swaptrace of the contract.
LEMMA CallsAreNoTraces ==
    ASSUME NEW E, NEW a \in CallAction(E) PROVE a \notin TraceAction(E)
  BY KindsOfOthers DEF CallAction, TraceAction

LEMMA TrackersAfterDone ==
    ASSUME TrackersAgree, NEW s, Done(s), Recorded, pending' = <<>> => tracked' = xyz'
    PROVE  TrackersAgree'
<1>1. CASE pending' = <<>>
  <2>1. saved' = Tables' /\ savedSystem' = SystemTables'
    BY <1>1 DEF Done, Recorded
  <2>2. Tables'.xyz = xyz' /\ SystemTables'.tracked = tracked'
    BY DEF Tables, SystemTables
  <2> QED
    BY <1>1, <2>1, <2>2 DEF TrackersAgree
<1>2. CASE pending' # <<>>
  BY <1>2 DEF Done, Recorded, TrackersAgree
<1> QED
  BY <1>1, <1>2

\* An action that sends calls, and after which the balances are known.
LEMMA TrackAfterDone ==
    ASSUME TrackInv, CallInv', pending # <<>>, NEW s \in Seq(CallAction(Authorities)),
           Done(s), Recorded, tracked' = xyz'
    PROVE  TrackInv'
<1>1. TrackersAgree'
  BY TrackersAfterDone DEF TrackInv
<1>2. ~(pending # <<>> /\ Head(pending) \in TraceAction(Authorities))'
  <2> SUFFICES ASSUME pending' # <<>> PROVE Head(pending') \notin TraceAction(Authorities')
    OBVIOUS
  <2>1. Authorities' = Authorities
    BY AuthoritiesStay
  <2>2. pending' \in Seq(CallAction(Authorities))
    BY HeadIsCall, ConcatProperties DEF TrackInv, Done
  <2>3. Head(pending') \in CallAction(Authorities)
    BY <2>2
  <2> QED
    BY <2>1, <2>3, CallsAreNoTraces
<1> QED
  BY <1>1, <1>2 DEF TrackInv

\* The token's own actions say what they move; close moves nothing.
LEMMA TokensTellBalances ==
    ASSUME TypeOK, tracked = xyz, NEW a \in Action, TokenStep(a) PROVE tracked' = xyz'
<1>1. xyz \in [Name -> Nat] /\ a.from \in Name
  BY DEF TypeOK, Action
<1>2. CASE Transfer(a)
  BY <1>2 DEF TokenStep, Track, Transfer, MoveXyz
<1>3. CASE InitToken(a)
  BY <1>3 DEF TokenStep, InitToken
<1>4. CASE Close(a)
  <2>1. tracked' = tracked /\ xyz' = [xyz EXCEPT ![a.from] = 0] /\ xyz[a.from] = 0
    BY <1>4 DEF TokenStep, Close, CloseOk
  <2> QED
    BY <1>1, <2>1
<1>5. CASE Open(a) \/ SwapTo(a) \/ BlockSwapTo(a) \/ EosTransfer(a)
  BY <1>5 DEF TokenStep, Open, SwapTo, BlockSwapTo, EosTransfer, tables
<1> QED
  BY <1>2, <1>3, <1>4, <1>5 DEF TokenStep, Execute

\* A swap before a call is known once its swaptrace has run.
LEMMA SwapIsTraced ==
    ASSUME TrackInv, CallInv', pending # <<>>, NEW a, a = Head(pending), SwapStep(a)
    PROVE  TrackInv'
<1>1. a \in CallAction(Authorities) /\ CallInv
  BY SwapStepCalls DEF TrackInv
<1>2. tracked = xyz
  BY <1>1, CallsAreNoTraces DEF TrackInv
<1>3. PICK amt \in Int, s \in Seq(CallAction(Authorities)) :
          /\ SwapTrace(a, a.from, amt) \in TraceAction(Authorities)
          /\ MoveXyz(a.from, Self, amt, Self)
          /\ tracked' = tracked
          /\ Finish(<<SwapTrace(a, a.from, amt)>> \o s)
  <2>1. PICK amt \in Int, s \in Seq(CallAction(Authorities)) :
            LET e == SwapTrace(a, a.from, amt)
                c == Inline(a, "eosio.token::transfer", Self, a.from, "EOS", amt, {Self})
            IN  /\ MoveXyz(a.from, Self, amt, Self)
                /\ tracked' = tracked
                /\ e \in TraceAction(Authorities)
                /\ Finish(<<e>> \o (<<c>> \o s))
                /\ <<c>> \o s \in Seq(CallAction(Authorities))
    BY <1>1, SwapStepCalls
  <2> QED
    BY <2>1
<1> DEFINE e == SwapTrace(a, a.from, amt)
<1>4. e.from = a.from /\ e.amt = amt
  BY DEF SwapTrace, Inline
<1>5. e \in TraceAction(Authorities) /\ Done(<<e>> \o s) /\ Recorded
  BY <1>3 DEF Finish
<1> HIDE DEF e
<1>6. pending' # <<>> /\ Head(pending') = e
  <2>1. Tail(pending) \in Seq(CallAction(Authorities))
    BY <1>1, HeadIsCall
  <2>2. pending' = (<<e>> \o s) \o Tail(pending)
    BY <1>5 DEF Done
  <2> DEFINE C == CallAction(Authorities) \cup {e}
  <2>3. Tail(pending) \in Seq(C) /\ s \in Seq(C) /\ e \in C
    BY <2>1
  <2> HIDE DEF C
  <2> QED
    BY <2>2, <2>3
<1>7. TrackersAgree' /\ Authorities' = Authorities
  BY <1>5, <1>6, TrackersAfterDone, AuthoritiesStay DEF TrackInv
<1>8. xyz' = [tracked' EXCEPT ![a.from] = @ - amt, ![Self] = @ + amt]
  BY <1>2, <1>3 DEF MoveXyz
<1> QED
  BY <1>4, <1>5, <1>6, <1>7, <1>8 DEF TrackInv

LEMMA TraceTells ==
    ASSUME TrackInv, CallInv', pending # <<>>, NEW a, a = Head(pending), Swaptrace(a)
    PROVE  TrackInv'
<1>1. a \in CallAction(Authorities) \cup TraceAction(Authorities) /\ CallInv
  BY HeadIsCall DEF TrackInv
<1>2. a \in TraceAction(Authorities)
  BY <1>1, KindsOfOthers DEF Swaptrace, SwaptraceOk, CallAction
<1>3. xyz = [tracked EXCEPT ![a.from] = @ - a.amt, ![Self] = @ + a.amt]
  BY <1>2 DEF TrackInv
<1>4. tracked' = xyz'
  BY <1>3 DEF Swaptrace, Track, tables
<1>5. Done(<<>>) /\ Recorded /\ <<>> \in Seq(CallAction(Authorities))
  BY DEF Swaptrace, Finish
<1> QED
  BY <1>4, <1>5, TrackAfterDone

LEMMA ExecuteTells ==
    ASSUME TrackInv, CallInv', pending # <<>>, NEW a, a = Head(pending), ForwardingExecute(a)
    PROVE  TrackInv'
<1>1. CallInv /\ SystemTypeOK /\ TypeOK
  BY DEF TrackInv, CallInv, SystemTypeOK
<1>2. /\ a \in HonestAction /\ a \in Action /\ a.auth \subseteq Authorities
      /\ a \in CallAction(Authorities) \cup TraceAction(Authorities)
      /\ Coded \cup {Self, System} \subseteq Authorities /\ Authorities \subseteq Name
  BY <1>1, HeadIsCall, AuthoritiesType DEF CallAction, TraceAction
<1>3. CASE TokenStep(a)
  <2>1. a.kind # "swaptrace"
    BY <1>3 DEF TokenStep, Execute, EosTransfer, Transfer, Open, Close, InitToken, SwapTo,
                BlockSwapTo
  <2>2. tracked' = xyz'
    BY <1>1, <1>2, <1>3, <2>1, TokensTellBalances DEF TrackInv, TraceAction
  <2>3. PICK s \in Seq(CallAction(Authorities)) : Done(s)
    BY <1>2, <1>3, TokenSends DEF TokenStep
  <2> QED
    BY <1>3, <2>2, <2>3, TrackAfterDone DEF TokenStep
<1>4. CASE CallStep(a)
  <2>1. a \in CallAction(Authorities) /\ a.kind \in OtherKinds
    BY <1>2, <1>4 DEF CallStep, TraceAction
  <2>2. tracked' = xyz'
    BY <1>4, <2>1, CallsAreNoTraces DEF TrackInv, CallStep, tables
  <2>3. PICK s : Sends(a, s) /\ Finish(s)
    BY <1>4 DEF CallStep
  <2>4. s \in Seq(CallAction(Authorities))
    BY <1>2, <2>1, <2>3, SendsCalls
  <2> QED
    BY <2>2, <2>3, <2>4, TrackAfterDone DEF Finish
<1> QED
  BY <1>1, <1>2, <1>3, <1>4, StepShapes, SwapIsTraced, TraceTells

LEMMA TrackInductive == TrackInv /\ [ForwardingNext]_allVars => TrackInv'
<1> SUFFICES ASSUME TrackInv, [ForwardingNext]_allVars PROVE TrackInv'
  OBVIOUS
<1>1. CallInv /\ CallInv'
  BY CallInductive DEF TrackInv
<1>2. ASSUME pending # <<>>, NEW a, a = Head(pending), ForwardingExecute(a) PROVE TrackInv'
  BY <1>1, <1>2, ExecuteTells
<1>3. CASE SystemRollback
  <2>1. tracked' = savedSystem.tracked /\ xyz' = saved.xyz /\ pending' = <<>>
    BY <1>3 DEF SystemRollback, Rollback
  <2>2. saved' = saved /\ savedSystem' = savedSystem
    BY <1>3 DEF SystemRollback, Rollback
  <2> QED
    BY <1>1, <2>1, <2>2 DEF TrackInv, TrackersAgree
<1>4. ASSUME NEW tx \in Transactions, ForwardingBegin(tx) PROVE TrackInv'
  <2>1. tracked = xyz /\ tracked' = tracked /\ xyz' = xyz
    BY <1>4 DEF ForwardingBegin, Begin, TrackInv, tables
  <2>2. TrackersAgree'
    BY <1>4 DEF ForwardingBegin, Begin, TrackInv, TrackersAgree
  <2>3. Begin(tx) /\ pending' = tx /\ tx # <<>>
    BY <1>4, TransactionsAssumption DEF ForwardingBegin, Begin
  <2>4. Head(pending') \in CallAction(Authorities')
    BY <1>1, <2>3, TransactionIsCalls DEF CallInv, SystemTypeOK
  <2>5. Head(pending') \notin TraceAction(Authorities')
    BY <2>4, CallsAreNoTraces
  <2> QED
    BY <1>1, <2>1, <2>2, <2>5 DEF TrackInv
<1>5. CASE UNCHANGED allVars
  <2>1. /\ pending' = pending /\ tracked' = tracked /\ xyz' = xyz
        /\ saved' = saved /\ savedSystem' = savedSystem /\ Authorities' = Authorities
    BY <1>5 DEF allVars, vars, tables, Authorities
  <2> QED
    BY <1>1, <2>1 DEF TrackInv, TrackersAgree
<1> QED
  BY <1>1, <1>2, <1>3, <1>4, <1>5, CallStepCases

\* Whatever is called, whatever handlers do in between and whatever fails: who adds
\* up the actions transfer and swaptrace of the committed transactions, and init,
\* has everybody's XYZ balance.
THEOREM TrackersKnowBalances == ForwardingSpec => []TrackersAgree
<1>1. SystemInit => TrackInv
  <2> SUFFICES ASSUME SystemInit PROVE TrackInv
    OBVIOUS
  <2>1. pending = <<>> /\ tracked = xyz /\ saved = Tables /\ savedSystem = SystemTables
    BY DEF SystemInit, Init
  <2>2. Tables.xyz = xyz /\ SystemTables.tracked = tracked
    BY DEF Tables, SystemTables
  <2> QED
    BY <2>1, <2>2, CallsAtFirst DEF TrackInv, TrackersAgree
<1>2. TrackInv => TrackersAgree
  BY DEF TrackInv
<1> QED
  BY <1>1, <1>2, TrackInductive, PTL DEF ForwardingSpec

-----------------------------------------------------------------------------
(* The peg, with calls                                                     *)

\* A step that moves nothing and sends no payments leaves the contract with the same
\* holdings and debts.
LEMMA QuietStepKeepsPeg ==
    ASSUME PegInv, TypeOK', pending # <<>>, ~IsTransfer(Head(pending)), UNCHANGED tables,
           NEW s \in Seq(QuietAction), Done(s)
    PROVE  PegInv'
<1>1. PICK rest \in Nat :
          OwedBy(Tail(pending), rest) /\ PegWhenOwing(rest + Owes(Head(pending)))
  BY OwedByRest
<1>2. Owes(Head(pending)) = 0 /\ rest + 0 = rest
  BY <1>1 DEF Owes
<1>3. PegWhenOwing(rest)'
  BY <1>1, <1>2 DEF PegWhenOwing, tables
<1>4. s \in Seq(HonestAction) /\ Tail(pending) \in Seq(HonestAction)
  BY QuietIsHonest, OwedByRest
<1>5. OwedBy(s \o Tail(pending), rest)
  BY <1>1, <1>4, OwedAfterQuiet
<1> QED
  BY <1>1, <1>3, <1>4, <1>5, PegAfterDone

\* A swap before a call takes the XYZ and leaves the payment of the EOS pending.
LEMMA SwapStepKeepsPeg ==
    ASSUME PegInv, CallInv, TypeOK', pending # <<>>, NEW a, a = Head(pending), SwapStep(a)
    PROVE  PegInv'
<1>1. PICK rest \in Nat : OwedBy(Tail(pending), rest) /\ PegWhenOwing(rest + Owes(a))
  BY OwedByRest
<1>2. PICK amt \in Int, s \in Seq(QuietAction) :
          LET e == SwapTrace(a, a.from, amt)
              c == Inline(a, "eosio.token::transfer", Self, a.from, "EOS", amt, {Self})
          IN  /\ SwapBeforeOk(a, amt)
              /\ MoveXyz(a.from, Self, amt, Self)
              /\ UNCHANGED <<eos, supply, donated>>
              /\ e \in TraceAction(Authorities) /\ c \in CallAction(Authorities)
              /\ Finish(<<e>> \o <<c>> \o s)
  BY SwapStepCalls
<1> DEFINE e == SwapTrace(a, a.from, amt)
           c == Inline(a, "eosio.token::transfer", Self, a.from, "EOS", amt, {Self})
<1>3. e \in QuietAction
  BY <1>2 DEF TraceAction, QuietAction, Owes, IsTransfer
<1>4. c \in HonestAction /\ Owes(c) = amt
  BY <1>2 DEF CallAction, Owes, IsTransfer, Inline
<1>5. Done(<<e>> \o <<c>> \o s)
  BY <1>2 DEF Finish
<1> HIDE DEF e, c
<1>6. <<e>> \in Seq(QuietAction) /\ Tail(pending) \in Seq(HonestAction)
  BY <1>3, OwedByRest
<1>7. /\ <<e>> \o <<c>> \o s \in Seq(HonestAction)
      /\ OwedBy((<<e>> \o <<c>> \o s) \o Tail(pending), rest + amt)
  BY <1>1, <1>4, <1>6, OwedAfterInlines
<1>8. /\ TypeOK /\ Self \in Name /\ a.from \in Name /\ a.from # Self /\ amt \in Nat
      /\ Owes(a) = 0
  <2>1. a \in CallAction(Authorities) /\ a.from # Self /\ a.kind \in SwapsBefore
    BY SwapStepCalls DEF SwapStep
  <2>2. Owes(a) = 0
    BY <2>1 DEF Owes, IsTransfer, SwapsBefore
  <2> QED
    BY <1>2, <2>1, <2>2, NamesAssumption
       DEF PegInv, CallAction, HonestAction, Action, SwapBeforeOk
<1>9. PegWhenOwing(rest + amt)'
  <2>1. /\ eos[Self] = supply - xyz[Self] + donated + rest
        /\ supply \in Int /\ donated \in Int /\ xyz \in [Name -> Nat]
    BY <1>1, <1>8 DEF PegWhenOwing, TypeOK
  <2>2. xyz'[Self] = xyz[Self] + amt
    BY <1>2, <1>8, <2>1 DEF MoveXyz
  <2> QED
    BY <1>1, <1>2, <1>8, <2>1, <2>2 DEF PegWhenOwing
<1>10. rest + amt \in Nat
  BY <1>1, <1>8
<1> QED
  BY <1>5, <1>7, <1>9, <1>10, PegAfterDone

LEMMA ExecuteKeepsPeg ==
    ASSUME PegInv, CallInv, TypeOK', pending # <<>>, NEW a, a = Head(pending),
           ForwardingExecute(a)
    PROVE  PegInv'
<1>1. /\ SystemTypeOK
      /\ a \in HonestAction /\ a \in Action
      /\ a \in CallAction(Authorities) \cup TraceAction(Authorities)
      /\ {Self, System} \subseteq Authorities
  BY HeadIsCall, AuthoritiesType DEF CallInv, SystemTypeOK
<1>2. CASE TokenStep(a)
  BY <1>1, <1>2, EosTransferKeepsPeg, TransferKeepsPeg, RowActionsKeepPeg
     DEF TokenStep, Execute
<1>3. CASE Swaptrace(a)
  <2>1. ~IsTransfer(a) /\ UNCHANGED tables /\ Done(<<>>) /\ <<>> \in Seq(QuietAction)
    BY <1>3 DEF Swaptrace, Finish, IsTransfer
  <2> QED
    BY <2>1, QuietStepKeepsPeg
<1>4. CASE CallStep(a)
  <2>1. a \in CallAction(Authorities) /\ a.kind \in OtherKinds
    BY <1>1, <1>4 DEF CallStep, TraceAction
  <2>2. PICK s : Sends(a, s) /\ Finish(s)
    BY <1>4 DEF CallStep
  <2>3. s \in Seq(QuietAction) /\ Done(s) /\ UNCHANGED tables
    BY <1>1, <1>4, <2>1, <2>2, SendsCalls DEF Finish, CallStep
  <2>4. ~IsTransfer(a)
    BY <2>1, KindsOfOthers
       DEF IsTransfer, ForwardingKinds, SystemKinds, QuietKinds, SwapsBefore, SwapsAfter,
           PassedOn, PassedOnInEos
  <2> QED
    BY <2>3, <2>4, QuietStepKeepsPeg
<1> QED
  BY <1>1, <1>2, <1>3, <1>4, StepShapes, SwapStepKeepsPeg

LEMMA CallsKeepPeg == PegInv /\ CallInv /\ [ForwardingNext]_allVars => PegInv'
<1> SUFFICES ASSUME PegInv, CallInv, [ForwardingNext]_allVars PROVE PegInv'
  OBVIOUS
<1>1. TypeOK'
  BY CallInductive DEF CallInv, SystemTypeOK
<1>2. ASSUME pending # <<>>, NEW a, a = Head(pending), ForwardingExecute(a) PROVE PegInv'
  BY <1>1, <1>2, ExecuteKeepsPeg
<1>3. CASE SystemRollback
  BY <1>3, RollbackKeepsPeg DEF SystemRollback
<1>4. ASSUME NEW tx \in Transactions, ForwardingBegin(tx) PROVE PegInv'
  BY <1>4, BeginKeepsPeg DEF ForwardingBegin
<1>5. CASE UNCHANGED allVars
  BY <1>1, <1>5 DEF allVars, vars, tables, PegInv, Backed, PegWhenOwing
<1> QED
  BY <1>2, <1>3, <1>4, <1>5, CallStepCases

\* The peg holds however users call eosio through the contract: every swap before a
\* call, and every swap of what a call yields, takes exactly what it pays.
THEOREM PegHoldsWithCalls == ForwardingSpec => []Backed
<1>1. SystemInit => PegInv
  BY PegAtFirst DEF SystemInit
<1>2. PegInv => Backed
  BY DEF PegInv
<1> QED
  BY <1>1, <1>2, CallsAtFirst, CallInductive, CallsKeepPeg, PTL DEF ForwardingSpec

-----------------------------------------------------------------------------
(* Who spends                                                              *)

\* Whose authority a transaction does not use has lost nothing in it.
NobodyElseSpent ==
    \A n \in Name \ Authorities :
        /\ eos[n] >= saved.eos[n]
        /\ xyz[n] >= saved.xyz[n]
        /\ Owed(SystemTables, n) >= Owed(savedSystem, n)
        /\ Rex(SystemTables, n) >= Rex(savedSystem, n)

SpendInv ==
    /\ CallInv
    /\ NobodyElseSpent
    /\ pending = <<>> => signers = {}

LEMMA RowType == ASSUME NEW t, IsTable(t), NEW n PROVE Row(t, n) \in Int
  BY DEF IsTable, Row

LEMMA OwedType ==
    ASSUME NEW s, IsSystemDatabase(s), NEW n \in Name
    PROVE  Owed(s, n) \in Int /\ Rex(s, n) \in Int
<1>1. /\ s.net[n] \in Int /\ s.cpu[n] \in Int /\ s.refunds[n] \in Int
      /\ IsTable(s.fund) /\ IsTable(s.staked) /\ IsTable(s.unstaking)
  BY DEF IsSystemDatabase
<1>2. Row(s.fund, n) \in Int /\ Row(s.staked, n) \in Int /\ Row(s.unstaking, n) \in Int
  BY <1>1, RowType
<1> QED
  BY <1>1, <1>2 DEF Owed, Rex

\* Changing the row of one account leaves those of others.
LEMMA AddToOther ==
    ASSUME NEW t, IsTable(t), NEW m, NEW n, m # n, NEW amt \in Int
    PROVE  Row(Add(t, m, amt), n) = Row(t, n)
<1>1. DOMAIN Add(t, m, amt) = DOMAIN t \cup {m}
  BY DEF Add
<1>2. CASE n \in DOMAIN t
  <2>1. Add(t, m, amt)[n] = Row(t, n) + 0
    BY <1>2 DEF Add
  <2> QED
    BY <1>1, <1>2, <2>1, RowType DEF Row
<1>3. CASE n \notin DOMAIN t
  BY <1>1, <1>3 DEF Row
<1> QED
  BY <1>2, <1>3

LEMMA TakeFromOther ==
    ASSUME NEW t, IsTable(t), NEW m \in DOMAIN t, NEW n, m # n, NEW x
    PROVE  Row([t EXCEPT ![m] = x], n) = Row(t, n)
  BY DEF IsTable, Row

\* What eosio holds for n is as it was.
HeldFor(n) == <<net[n], cpu[n], refunds[n], Row(fund, n), Row(staked, n), Row(unstaking, n)>>

LEMMA HeldIsOwed ==
    ASSUME NEW n, UNCHANGED HeldFor(n)
    PROVE  Owed(SystemTables, n)' = Owed(SystemTables, n)
               /\ Rex(SystemTables, n)' = Rex(SystemTables, n)
<1>1. /\ net'[n] = net[n] /\ cpu'[n] = cpu[n] /\ refunds'[n] = refunds[n]
      /\ Row(fund', n) = Row(fund, n) /\ Row(staked', n) = Row(staked, n)
      /\ Row(unstaking', n) = Row(unstaking, n)
  BY DEF HeldFor
<1>2. /\ Owed(SystemTables, n) = net[n] + cpu[n] + refunds[n] + Row(fund, n)
      /\ Owed(SystemTables', n) = net'[n] + cpu'[n] + refunds'[n] + Row(fund', n)
      /\ Rex(SystemTables, n) = Row(staked, n) + Row(unstaking, n)
      /\ Rex(SystemTables', n) = Row(staked', n) + Row(unstaking', n)
  BY DEF Owed, Rex, SystemTables
<1> QED
  BY <1>1, <1>2

\* eosio changes only what it holds for the account named first.
LEMMA EosioHolds ==
    ASSUME SystemTypeOK, NEW a \in Action, SystemExecute(a), NEW n \in Name, n # a.from
    PROVE  UNCHANGED HeldFor(n)
<1> /\ a.amt \in Int /\ a.more \in Int /\ a.from \in Name
    /\ net \in [Name -> Nat] /\ cpu \in [Name -> Nat] /\ refunds \in [Name -> Nat]
    /\ IsTable(fund) /\ IsTable(staked) /\ IsTable(unstaking)
    /\ pool \in Pool \cup {NoRow}
  BY DEF Action, SystemTypeOK, IsSystemDatabase, SystemTables
<1>1. CASE UNCHANGED systemTables \/ Setrammarket(a) \/ Setrex(a)
  <2>1. UNCHANGED <<net, cpu, refunds, fund, staked, unstaking>>
    BY <1>1 DEF systemTables, stakeTables, rexTables, Setrammarket, Setrex
  <2> QED
    BY <2>1 DEF HeldFor
<1>2. CASE EosioDelegatebw(a) \/ EosioUndelegatebw(a) \/ EosioRefund(a)
  <2>1. UNCHANGED <<fund, staked, unstaking>>
    BY <1>2 DEF EosioDelegatebw, EosioUndelegatebw, EosioRefund, rexTables
  <2>2. net'[n] = net[n] /\ cpu'[n] = cpu[n] /\ refunds'[n] = refunds[n]
    BY <1>2 DEF EosioDelegatebw, EosioUndelegatebw, EosioRefund
  <2> QED
    BY <2>1, <2>2 DEF HeldFor
<1>3. CASE EosioDeposit(a) \/ EosioWithdraw(a)
  <2>1. UNCHANGED <<net, cpu, refunds, staked, unstaking>>
    BY <1>3 DEF EosioDeposit, EosioWithdraw, stakeTables, rexTables
  <2>2. \/ fund' = Add(fund, a.from, a.amt)
        \/ a.from \in DOMAIN fund /\ fund' = [fund EXCEPT ![a.from] = @ - a.amt]
    BY <1>3 DEF EosioDeposit, EosioWithdraw, HasFund
  <2>3. Row(fund', n) = Row(fund, n)
    BY <2>2, AddToOther, TakeFromOther
  <2> QED
    BY <2>1, <2>3 DEF HeldFor
<1>4. CASE EosioBuyrex(a)
  <2>1. UNCHANGED <<net, cpu, refunds, unstaking>>
    BY <1>4 DEF EosioBuyrex, stakeTables
  <2>2. EosToRex(a.amt) \in Int
    BY <1>4 DEF EosToRex, Pool, EosioBuyrex, EosioBuyrexOk
  <2>3. /\ a.from \in DOMAIN fund /\ fund' = [fund EXCEPT ![a.from] = @ - a.amt]
        /\ staked' = Add(staked, a.from, EosToRex(a.amt))
    BY <1>4 DEF EosioBuyrex, EosioBuyrexOk, HasFund
  <2>4. Row(fund', n) = Row(fund, n)
    BY <2>3 DEF Row, IsTable
  <2>5. Row(staked', n) = Row(staked, n)
    BY <2>2, <2>3, AddToOther
  <2> QED
    BY <2>1, <2>4, <2>5 DEF HeldFor
<1>5. CASE EosioMvfrsavings(a)
  <2>1. UNCHANGED <<net, cpu, refunds, fund>>
    BY <1>5 DEF EosioMvfrsavings, stakeTables
  <2>2. /\ a.from \in DOMAIN staked /\ staked' = [staked EXCEPT ![a.from] = @ - a.amt]
        /\ unstaking' = Add(unstaking, a.from, a.amt)
    BY <1>5 DEF EosioMvfrsavings, HasRex
  <2>3. Row(staked', n) = Row(staked, n)
    BY <2>2 DEF Row, IsTable
  <2>4. Row(unstaking', n) = Row(unstaking, n)
    BY <2>2, AddToOther
  <2> QED
    BY <2>1, <2>3, <2>4 DEF HeldFor
<1>6. CASE EosioSellrex(a)
  <2>1. UNCHANGED <<net, cpu, refunds, staked>>
    BY <1>6 DEF EosioSellrex, stakeTables
  <2>2. RexToEos(a.amt) \in Int
    BY <1>6 DEF RexToEos, Pool, EosioSellrex, EosioSellrexOk
  <2>3. /\ a.from \in DOMAIN unstaking
        /\ unstaking' = [unstaking EXCEPT ![a.from] = @ - a.amt]
        /\ fund' = Add(fund, a.from, RexToEos(a.amt))
    BY <1>6 DEF EosioSellrex, EosioSellrexOk, HasRex
  <2>4. Row(unstaking', n) = Row(unstaking, n)
    BY <2>3 DEF Row, IsTable
  <2>5. Row(fund', n) = Row(fund, n)
    BY <2>2, <2>3, AddToOther
  <2> QED
    BY <2>1, <2>4, <2>5 DEF HeldFor
<1>7. UNCHANGED systemTables \/ Setrammarket(a) \/ Setrex(a) \/ EosioDelegatebw(a)
         \/ EosioUndelegatebw(a) \/ EosioRefund(a) \/ EosioDeposit(a) \/ EosioWithdraw(a)
         \/ EosioBuyrex(a) \/ EosioMvfrsavings(a) \/ EosioSellrex(a)
  BY DEF SystemExecute, EosioBidname, EosioBidrefund, EosioBuyram, EosioBuyrambytes,
         EosioSellram, EosioDonatetorex, EosioPowerup, EosioClaimrewards, EosioQuiet
<1> QED
  BY <1>1, <1>2, <1>3, <1>4, <1>5, <1>6, <1>7

\* The actions that set the market and the pool change nothing that it holds.
LEMMA SettersHold ==
    ASSUME NEW a, SystemExecute(a), a.kind \in Setters, NEW n PROVE UNCHANGED HeldFor(n)
<1>1. Setrammarket(a) \/ Setrex(a)
  BY DEF SystemExecute, EosioBidname, EosioBidrefund, EosioBuyram, EosioBuyrambytes,
         EosioSellram, EosioDonatetorex, EosioPowerup, EosioClaimrewards, EosioQuiet,
         EosioDelegatebw, EosioUndelegatebw, EosioRefund, EosioDeposit, EosioWithdraw,
         EosioBuyrex, EosioMvfrsavings, EosioSellrex, Setters, QuietKinds
<1> QED
  BY <1>1 DEF Setrammarket, Setrex, stakeTables, rexTables, HeldFor

\* Executing an action takes nothing from one whose authority is not used.
LEMMA ExecuteSpares ==
    ASSUME CallInv, pending # <<>>, NEW a, a = Head(pending), ForwardingExecute(a),
           NEW n \in Name \ Authorities
    PROVE  eos'[n] >= eos[n] /\ xyz'[n] >= xyz[n] /\ UNCHANGED HeldFor(n)
<1>1. /\ SystemTypeOK /\ TypeOK /\ SystemCall(a)
      /\ a \in Action /\ a.auth \subseteq Authorities /\ a.from \in Name
      /\ {Self, System} \subseteq Authorities /\ Self \in Name /\ n \in Name
      /\ n # Self /\ n \notin a.auth
      /\ eos \in [Name -> Nat] /\ xyz \in [Name -> Nat]
  BY HeadIsCall, AuthoritiesType
     DEF CallInv, SystemTypeOK, TypeOK, CallAction, TraceAction, Action
<1>2. ASSUME UNCHANGED systemTables PROVE UNCHANGED HeldFor(n)
  BY <1>2 DEF systemTables, stakeTables, rexTables, HeldFor
<1>3. CASE TokenStep(a)
  <2>1. eos'[n] >= eos[n] /\ xyz'[n] >= xyz[n]
    BY <1>1, <1>3, OnlyAuthorisersPay DEF TokenStep
  <2> QED
    BY <1>2, <1>3, <2>1 DEF TokenStep
<1>4. CASE Swaptrace(a)
  <2>1. eos'[n] >= eos[n] /\ xyz'[n] >= xyz[n]
    BY <1>1, <1>4 DEF Swaptrace, tables
  <2> QED
    BY <1>2, <1>4, <2>1 DEF Swaptrace
<1>5. CASE SwapStep(a)
  <2>1. PICK amt \in Int :
            /\ MoveXyz(a.from, Self, amt, Self)
            /\ UNCHANGED <<eos, systemTables>>
    <3>1. PICK amt \in Int, s \in Seq(CallAction(Authorities)) :
              /\ MoveXyz(a.from, Self, amt, Self)
              /\ UNCHANGED <<eos, blocked, supply, donated, systemTables, tracked>>
      BY <1>5, SwapStepCalls
    <3> QED
      BY <3>1
  <2>2. a.from \in a.auth
    BY <1>5, SwapStepCalls
  <2>3. xyz'[n] = xyz[n] /\ eos'[n] = eos[n]
    BY <1>1, <2>1, <2>2 DEF MoveXyz
  <2> QED
    BY <1>1, <1>2, <2>1, <2>3
<1>6. CASE CallStep(a)
  <2>1. eos'[n] >= eos[n] /\ xyz'[n] >= xyz[n]
    BY <1>1, <1>6 DEF CallStep, tables
  <2>2. ASSUME SystemExecute(a) PROVE UNCHANGED HeldFor(n)
    <3>1. a.kind \in SystemKinds
      BY <1>1, <2>2, SystemSends
    <3>2. CASE a.kind \in Setters
      BY <2>2, <3>2, SettersHold
    <3>3. CASE a.kind \notin Setters
      <4>1. a.from \in a.auth
        BY <1>1, <3>1, <3>3 DEF SystemCall, Setters
      <4> QED
        BY <1>1, <2>2, <4>1, EosioHolds
    <3> QED
      BY <3>2, <3>3
  <2> QED
    BY <1>2, <1>6, <2>1, <2>2 DEF CallStep
<1> QED
  BY <1>1, <1>3, <1>4, <1>5, <1>6, StepShapes

\* What n has, compared with what he had when the transaction started.
LEMMA SpentInIntegers ==
    ASSUME SystemTypeOK, NEW n \in Name
    PROVE  /\ eos[n] \in Int /\ xyz[n] \in Int /\ saved.eos[n] \in Int /\ saved.xyz[n] \in Int
           /\ Owed(SystemTables, n) \in Int /\ Owed(savedSystem, n) \in Int
           /\ Rex(SystemTables, n) \in Int /\ Rex(savedSystem, n) \in Int
<1>1. saved.eos \in [Name -> Nat] /\ saved.xyz \in [Name -> Nat]
  BY DEF SystemTypeOK, TypeOK, Database
<1> QED
  BY <1>1, OwedType DEF SystemTypeOK, TypeOK

\* No account loses what it has between two transactions, unless it takes part.
SparesOthers ==
    \A n \in Name \ Authorities :
        /\ saved'.eos[n] >= saved.eos[n]
        /\ saved'.xyz[n] >= saved.xyz[n]
        /\ Owed(savedSystem', n) >= Owed(savedSystem, n)
        /\ Rex(savedSystem', n) >= Rex(savedSystem, n)

LEMMA SavedSpares == ASSUME SystemTypeOK, UNCHANGED <<saved, savedSystem>> PROVE SparesOthers
  BY SpentInIntegers DEF SparesOthers

LEMMA ExecuteSpends ==
    ASSUME SpendInv, CallInv', pending # <<>>, NEW a, a = Head(pending), ForwardingExecute(a)
    PROVE  SpendInv' /\ SparesOthers
<1>1. CallInv /\ SystemTypeOK /\ SystemTypeOK'
  BY DEF SpendInv, CallInv
<1>2. ASSUME NEW n \in Name \ Authorities
      PROVE  /\ eos'[n] >= saved.eos[n] /\ xyz'[n] >= saved.xyz[n]
             /\ Owed(SystemTables', n) >= Owed(savedSystem, n)
             /\ Rex(SystemTables', n) >= Rex(savedSystem, n)
  <2>1. eos'[n] >= eos[n] /\ xyz'[n] >= xyz[n] /\ UNCHANGED HeldFor(n)
    BY <1>1, ExecuteSpares
  <2>2. /\ Owed(SystemTables', n) = Owed(SystemTables, n)
        /\ Rex(SystemTables', n) = Rex(SystemTables, n)
    BY <2>1, HeldIsOwed
  <2>3. /\ eos[n] >= saved.eos[n] /\ xyz[n] >= saved.xyz[n]
        /\ Owed(SystemTables, n) >= Owed(savedSystem, n)
        /\ Rex(SystemTables, n) >= Rex(savedSystem, n)
    BY DEF SpendInv, NobodyElseSpent
  <2>4. eos'[n] \in Int /\ xyz'[n] \in Int
    BY <1>1 DEF SystemTypeOK, TypeOK
  <2> QED
    BY <1>1, <2>1, <2>2, <2>3, <2>4, SpentInIntegers
<1>3. PICK s : Done(s) /\ Recorded
  <2>1. TokenStep(a) \/ Swaptrace(a) \/ SwapStep(a) \/ CallStep(a)
    BY <1>1, HeadIsCall, StepShapes
  <2>2. Recorded
    BY <2>1 DEF TokenStep, Swaptrace, SwapStep, SwapBefore, CallStep, Finish
  <2>3. \E s : Done(s)
    BY <1>1, ExecuteSends
  <2> QED
    BY <2>2, <2>3
<1>4. CASE pending' # <<>>
  <2>1. saved' = saved /\ savedSystem' = savedSystem /\ Authorities' = Authorities
    BY <1>3, <1>4, AuthoritiesStay DEF Done, Recorded
  <2>2. NobodyElseSpent'
    BY <1>2, <2>1 DEF NobodyElseSpent
  <2> QED
    BY <1>1, <1>4, <2>1, <2>2, SavedSpares DEF SpendInv
<1>5. CASE pending' = <<>>
  <2>1. /\ saved' = Tables' /\ savedSystem' = SystemTables' /\ signers' = {}
        /\ saved'.eos = eos' /\ saved'.xyz = xyz'
    BY <1>3, <1>5 DEF Done, Recorded, Tables
  <2>2. SparesOthers
    BY <1>2, <2>1 DEF SparesOthers
  <2>3. ASSUME NEW n \in Name
        PROVE  /\ eos'[n] >= saved'.eos[n] /\ xyz'[n] >= saved'.xyz[n]
               /\ Owed(SystemTables', n) >= Owed(savedSystem', n)
               /\ Rex(SystemTables', n) >= Rex(savedSystem', n)
    <3>1. eos'[n] \in Int /\ xyz'[n] \in Int /\ IsSystemDatabase(SystemTables')
      BY <1>1 DEF SystemTypeOK, TypeOK
    <3>2. Owed(SystemTables', n) \in Int /\ Rex(SystemTables', n) \in Int
      BY <3>1, OwedType
    <3> QED
      BY <2>1, <3>1, <3>2
  <2>4. NobodyElseSpent'
    BY <2>3 DEF NobodyElseSpent
  <2> QED
    BY <1>1, <2>1, <2>2, <2>4 DEF SpendInv
<1> QED
  BY <1>4, <1>5

LEMMA SpendInductive ==
    SpendInv /\ [ForwardingNext]_allVars => SpendInv' /\ SparesOthers
<1> SUFFICES ASSUME SpendInv, [ForwardingNext]_allVars PROVE SpendInv' /\ SparesOthers
  OBVIOUS
<1>1. CallInv /\ CallInv' /\ SystemTypeOK /\ SystemTypeOK'
  BY CallInductive DEF SpendInv, CallInv
<1>2. ASSUME pending # <<>>, NEW a, a = Head(pending), ForwardingExecute(a)
      PROVE  SpendInv' /\ SparesOthers
  BY <1>1, <1>2, ExecuteSpends
<1>3. CASE SystemRollback
  <2>1. /\ saved' = saved /\ savedSystem' = savedSystem /\ signers' = {}
        /\ eos' = saved'.eos /\ xyz' = saved'.xyz
    BY <1>3 DEF SystemRollback, Rollback
  <2>2. ASSUME NEW n
        PROVE  /\ Owed(SystemTables', n) = Owed(savedSystem', n)
               /\ Rex(SystemTables', n) = Rex(savedSystem', n)
    BY <1>3 DEF SystemRollback, SystemTables, Owed, Rex
  <2>3. NobodyElseSpent'
    <3> SUFFICES ASSUME NEW n \in Name
                 PROVE  /\ eos'[n] >= saved'.eos[n] /\ xyz'[n] >= saved'.xyz[n]
                        /\ Owed(SystemTables', n) >= Owed(savedSystem', n)
                        /\ Rex(SystemTables', n) >= Rex(savedSystem', n)
      BY DEF NobodyElseSpent
    <3>1. /\ eos'[n] \in Int /\ xyz'[n] \in Int
          /\ IsSystemDatabase(savedSystem')
      BY <1>1 DEF SystemTypeOK, TypeOK
    <3>2. Owed(savedSystem', n) \in Int /\ Rex(savedSystem', n) \in Int
      BY <3>1, OwedType
    <3> QED
      BY <2>1, <2>2, <3>1, <3>2
  <2> QED
    BY <1>1, <2>1, <2>3, SavedSpares DEF SpendInv
<1>4. ASSUME NEW tx \in Transactions, ForwardingBegin(tx) PROVE SpendInv' /\ SparesOthers
  <2>1. pending' # <<>> /\ signers = {} /\ UNCHANGED <<tables, saved, savedSystem>>
    BY <1>4, TransactionsAssumption DEF ForwardingBegin, Begin, SpendInv
  <2>2. SystemTables' = SystemTables
    BY <1>4 DEF ForwardingBegin, SystemTables, systemTables, stakeTables, rexTables
  <2>3. Authorities \subseteq Authorities'
    BY <2>1 DEF Authorities
  <2>4. NobodyElseSpent'
    BY <2>1, <2>2, <2>3 DEF SpendInv, NobodyElseSpent, tables
  <2> QED
    BY <1>1, <2>1, <2>4, SavedSpares DEF SpendInv
<1>5. CASE UNCHANGED allVars
  <2>1. UNCHANGED <<tables, pending, saved, signers, savedSystem>>
    BY <1>5 DEF allVars, vars
  <2>2. SystemTables' = SystemTables /\ Authorities' = Authorities
    BY <1>5 DEF allVars, vars, SystemTables, systemTables, stakeTables, rexTables, Authorities
  <2>3. NobodyElseSpent'
    BY <2>1, <2>2 DEF SpendInv, NobodyElseSpent, tables
  <2> QED
    BY <1>1, <2>1, <2>3, SavedSpares DEF SpendInv
<1> QED
  BY <1>1, <1>2, <1>3, <1>4, <1>5, CallStepCases

\* Whatever is called through the contract, a committed transaction takes EOS, XYZ,
\* stakes, refunds, fund or REX only from those who signed it, from accounts whose own
\* code takes part, and from the two contracts.
THEOREM NobodyElseSpends == ForwardingSpec => OnlySignersSpend
<1>1. SystemInit => SpendInv
  <2> SUFFICES ASSUME SystemInit PROVE SpendInv
    OBVIOUS
  <2>1. /\ CallInv /\ SystemTypeOK /\ saved = Tables /\ savedSystem = SystemTables
        /\ signers = {}
    BY CallsAtFirst DEF SystemInit, Init, CallInv
  <2>2. NobodyElseSpent
    BY <2>1, SpentInIntegers DEF NobodyElseSpent, Tables
  <2> QED
    BY <2>1, <2>2 DEF SpendInv
<1>2. SpendInv /\ [ForwardingNext]_allVars =>
          [\A n \in Name \ ({Self, System} \cup Coded \cup signers) :
               /\ saved'.eos[n] >= saved.eos[n]
               /\ saved'.xyz[n] >= saved.xyz[n]
               /\ Owed(savedSystem', n) >= Owed(savedSystem, n)
               /\ Rex(savedSystem', n) >= Rex(savedSystem, n)]_allVars
  BY SpendInductive DEF SparesOthers, Authorities
<1>3. SpendInv /\ [ForwardingNext]_allVars => SpendInv'
  BY SpendInductive
<1> QED
  BY <1>1, <1>2, <1>3, PTL DEF ForwardingSpec, OnlySignersSpend


-----------------------------------------------------------------------------
(* Between two transactions                                                *)

TablesAsSaved ==
    eos = saved.eos /\ xyz = saved.xyz /\ blocked = saved.blocked /\ supply = saved.supply

SystemAsSaved ==
    /\ net = savedSystem.net /\ cpu = savedSystem.cpu /\ refunds = savedSystem.refunds
    /\ fund = savedSystem.fund /\ pool = savedSystem.pool
    /\ staked = savedSystem.staked /\ unstaking = savedSystem.unstaking

\* When nothing is pending, everything is committed.
IdleInv ==
    /\ CallInv
    /\ pending = <<>> => running = <<>> /\ TablesAsSaved /\ SystemAsSaved

LEMMA CommitSaves ==
    ASSUME NEW s, Done(s), Recorded, pending' = <<>>
    PROVE  running' = <<>> /\ TablesAsSaved' /\ SystemAsSaved'
<1>1. saved' = Tables' /\ savedSystem' = SystemTables' /\ running' = <<>>
  BY DEF Done, Recorded
<1> QED
  BY <1>1 DEF TablesAsSaved, SystemAsSaved, Tables, SystemTables

LEMMA StepIsDone ==
    ASSUME CallInv, pending # <<>>, NEW a, a = Head(pending), ForwardingExecute(a)
    PROVE  \E s \in Seq(Action) : Done(s) /\ Recorded
<1>1. SystemTypeOK /\ a \in Action
  BY HeadIsCall DEF CallInv
<1>2. TokenStep(a) \/ Swaptrace(a) \/ SwapStep(a) \/ CallStep(a)
  BY <1>1, StepShapes
<1>3. Recorded
  BY <1>2 DEF TokenStep, Swaptrace, SwapStep, SwapBefore, CallStep, Finish
<1>4. CASE \E s \in Seq(CallAction(Authorities)) : Done(s)
  <2>1. Seq(CallAction(Authorities)) \subseteq Seq(Action)
    BY DEF CallAction, HonestAction
  <2> QED
    BY <1>3, <1>4, <2>1
<1>5. CASE \E e \in TraceAction(Authorities), s \in Seq(CallAction(Authorities)) :
               Done(<<e>> \o s)
  <2>1. PICK e \in TraceAction(Authorities), s \in Seq(CallAction(Authorities)) :
            Done(<<e>> \o s)
    BY <1>5
  <2>2. e \in Action /\ s \in Seq(Action)
    BY DEF CallAction, TraceAction, HonestAction
  <2>3. <<e>> \o s \in Seq(Action)
    BY <2>2, ConcatProperties
  <2> QED
    BY <1>3, <2>1, <2>3
<1> QED
  BY <1>4, <1>5, ExecuteSends

LEMMA IdleInductive == IdleInv /\ [ForwardingNext]_allVars => IdleInv'
<1> SUFFICES ASSUME IdleInv, [ForwardingNext]_allVars PROVE IdleInv'
  OBVIOUS
<1>1. CallInv /\ CallInv'
  BY CallInductive DEF IdleInv
<1>2. ASSUME pending # <<>>, NEW a, a = Head(pending), ForwardingExecute(a) PROVE IdleInv'
  BY <1>1, <1>2, StepIsDone, CommitSaves DEF IdleInv
<1>3. CASE SystemRollback
  BY <1>1, <1>3
     DEF SystemRollback, Rollback, IdleInv, TablesAsSaved, SystemAsSaved
<1>4. ASSUME NEW tx \in Transactions, ForwardingBegin(tx) PROVE IdleInv'
  BY <1>1, <1>4, TransactionsAssumption DEF ForwardingBegin, Begin, IdleInv
<1>5. CASE UNCHANGED allVars
  BY <1>1, <1>5
     DEF allVars, vars, tables, systemTables, stakeTables, rexTables, IdleInv, TablesAsSaved,
         SystemAsSaved
<1> QED
  BY <1>1, <1>2, <1>3, <1>4, <1>5, CallStepCases

LEMMA IdleAtFirst == SystemInit => IdleInv
<1> SUFFICES ASSUME SystemInit PROVE IdleInv
  OBVIOUS
<1>1. saved = Tables /\ savedSystem = SystemTables /\ running = <<>>
  BY DEF SystemInit, Init
<1> QED
  BY <1>1, CallsAtFirst DEF IdleInv, TablesAsSaved, SystemAsSaved, Tables, SystemTables

-----------------------------------------------------------------------------
(* Conservation, with calls                                                *)

LEMMA MoveXyzConserves ==
    ASSUME TypeOK, TypeOK', NEW from \in Name, NEW to \in Name, from # to,
           NEW amt \in Int, NEW p, MoveXyz(from, to, amt, p)
    PROVE  SumFunction(xyz') = SumFunction(xyz)
<1>1. xyz \in [Name -> Int] /\ xyz' \in [Name -> Int]
  BY DEF TypeOK
<1>2. /\ xyz'[from] = xyz[from] - amt /\ xyz'[to] = xyz[to] + amt
      /\ \A n \in Name \ {from, to} : xyz'[n] = xyz[n]
  BY <1>1 DEF MoveXyz
<1> QED
  BY <1>1, <1>2, FinitelyManyNames, SumMove

LEMMA CallConserves ==
    ASSUME CallInv, CallInv', ConservedInv, pending # <<>>, NEW a, a = Head(pending),
           ForwardingExecute(a)
    PROVE  ConservedInv'
<1>1. SystemTypeOK /\ TypeOK /\ TypeOK' /\ a \in Action /\ Conserved
  BY HeadIsCall DEF CallInv, SystemTypeOK, ConservedInv
<1>2. ASSUME TokenStep(a) PROVE Conserved'
  BY <1>1, <1>2, ExecuteConserves DEF TokenStep
<1>3. ASSUME SwapStep(a) PROVE Conserved'
  <2>1. PICK amt \in Int : /\ MoveXyz(a.from, Self, amt, Self)
                           /\ UNCHANGED <<eos, blocked, supply, donated, systemTables, tracked>>
    BY <1>3, SwapStepCalls
  <2>2. a.from \in Name /\ Self \in Name /\ a.from # Self
    BY <1>1, <1>3, SwapStepCalls, NamesAssumption DEF Action
  <2>3. SumFunction(xyz') = SumFunction(xyz)
    BY <1>1, <2>1, <2>2, MoveXyzConserves
  <2> QED
    BY <1>1, <2>1, <2>3 DEF Conserved
<1>4. ASSUME Swaptrace(a) \/ CallStep(a) PROVE Conserved'
  BY <1>1, <1>4 DEF Swaptrace, CallStep, tables, Conserved
<1>5. Conserved'
  BY <1>1, <1>2, <1>3, <1>4, StepShapes
<1>6. saved' = saved \/ saved' = Tables'
  BY StepIsDone DEF Done
<1> QED
  BY <1>1, <1>5, <1>6 DEF ConservedInv, ConservedIn, Conserved, Tables

LEMMA CallsConserve ==
    CallInv /\ ConservedInv /\ [ForwardingNext]_allVars => ConservedInv'
<1> SUFFICES ASSUME CallInv, ConservedInv, [ForwardingNext]_allVars PROVE ConservedInv'
  OBVIOUS
<1>1. CallInv' /\ TypeOK'
  BY CallInductive DEF CallInv, SystemTypeOK
<1>2. CASE SystemRollback
  BY <1>1, <1>2 DEF ConservedInv, ConservedIn, Conserved, SystemRollback, Rollback
<1>3. CASE UNCHANGED <<tables, saved>>
  BY <1>1, <1>3 DEF ConservedInv, ConservedIn, Conserved, tables
<1> QED
  BY <1>1, <1>2, <1>3, CallConserves, CallStepCases
     DEF ForwardingBegin, Begin, allVars, vars

\* What is swapped for a call, and back, is neither created nor destroyed either: the
\* balances of both tokens add up to the same, call or no call, at every inline action.
THEOREM CallsLoseNothing == ForwardingSpec => []Conserved
<1>1. SystemInit => CallInv /\ ConservedInv
  BY CallsAtFirst, ConservedAtFirst DEF SystemInit
<1>2. CallInv /\ ConservedInv /\ [ForwardingNext]_allVars => (CallInv /\ ConservedInv)'
  BY CallInductive, CallsConserve
<1>3. ConservedInv => Conserved
  BY DEF ConservedInv
<1> QED
  BY <1>1, <1>2, <1>3, PTL DEF ForwardingSpec

-----------------------------------------------------------------------------
(* One call and what it sends                                              *)

\* Unless the transaction ends nothing is committed.
LEMMA StillRunning ==
    ASSUME NEW s, Done(s), Recorded, pending' # <<>>
    PROVE  saved' = saved /\ savedSystem' = savedSystem /\ running' = running
  BY DEF Done, Recorded

LEMMA OnlyElement ==
    ASSUME NEW S, NEW p \in Seq(S), Len(p) = 1
    PROVE  Head(p) = p[1] /\ Tail(p) = <<>> /\ p # <<>>
<1>1. p # <<>> /\ Tail(p) \in Seq(S) /\ Len(Tail(p)) = Len(p) - 1 /\ Head(p) = p[1]
  BY HeadTailProperties, EmptySeq
<1>2. Len(Tail(p)) = 0
  BY <1>1
<1> QED
  BY <1>1, <1>2, EmptySeq

\* A transaction commits when its last action sends nothing.
LEMMA LastSendsNothing ==
    ASSUME pending \in Seq(Action), pending # <<>>, NEW s \in Seq(Action), Done(s),
           pending' = <<>>
    PROVE  s = <<>> /\ Len(pending) = 1
<1>1. Tail(pending) \in Seq(Action) /\ Len(Tail(pending)) = Len(pending) - 1
  BY HeadTailProperties
<1>2. s \o Tail(pending) = <<>>
  BY DEF Done
<1>3. Len(s \o Tail(pending)) = Len(s) + Len(Tail(pending))
  BY <1>1, ConcatProperties
<1>4. Len(s) \in Nat /\ Len(Tail(pending)) \in Nat /\ Len(pending) \in Nat
  BY <1>1, LenProperties
<1>5. Len(s \o Tail(pending)) = 0
  BY <1>2, EmptySeq
<1>6. Len(s) = 0 /\ Len(pending) = 1
  BY <1>1, <1>3, <1>4, <1>5
<1> QED
  BY <1>6, EmptySeq

\* What is sent runs first: the last action stays the last.
LEMMA LastStays ==
    ASSUME pending \in Seq(Action), Len(pending) > 1, NEW s \in Seq(Action), Done(s)
    PROVE  pending' # <<>> /\ pending'[Len(pending')] = pending[Len(pending)]
<1>1. pending # <<>> /\ Len(pending) \in Nat /\ Len(s) \in Nat
  BY LenProperties
<1>2. /\ Tail(pending) \in Seq(Action) /\ Len(Tail(pending)) = Len(pending) - 1
      /\ \A i \in 1 .. Len(Tail(pending)) : Tail(pending)[i] = pending[i + 1]
  BY <1>1, HeadTailProperties
<1>3. /\ pending' = s \o Tail(pending)
      /\ s \o Tail(pending) \in Seq(Action)
      /\ Len(s \o Tail(pending)) = Len(s) + Len(Tail(pending))
      /\ \A i \in 1 .. Len(s) + Len(Tail(pending)) :
             (s \o Tail(pending))[i] =
                 IF i <= Len(s) THEN s[i] ELSE Tail(pending)[i - Len(s)]
  BY <1>2, ConcatProperties DEF Done
<1> DEFINE k == Len(pending) - 1
<1>4. /\ k \in 1 .. Len(Tail(pending)) /\ Len(s) + k \in 1 .. Len(s) + Len(Tail(pending))
      /\ ~(Len(s) + k <= Len(s)) /\ (Len(s) + k) - Len(s) = k
      /\ k + 1 = Len(pending) /\ Len(s) + Len(Tail(pending)) = Len(s) + k
  BY <1>1, <1>2
<1>5. Len(pending') = Len(s) + k /\ pending'[Len(s) + k] = Tail(pending)[k]
  BY <1>3, <1>4
<1>6. Len(pending') # 0
  BY <1>1, <1>4, <1>5
<1> QED
  BY <1>2, <1>4, <1>5, <1>6

\* The kind of an action tells which of them is executed.
LEMMA ExecutedByKind ==
    ASSUME NEW a, ForwardingExecute(a)
    PROVE  /\ a.kind = "buyrambytes" => Buyrambytes(a)
           /\ a.kind = "enforcebal" => Enforcebal(a)
           /\ a.kind = "buyrex" => Buyrex(a)
           /\ a.kind = "mvfrsavings" => Mvfrsavings(a)
           /\ a.kind = "sellrex" => Sellrex(a)
           /\ a.kind = "eosio::buyrex" => EosioBuyrex(a)
           /\ a.kind = "eosio::mvfrsavings" => EosioMvfrsavings(a)
           /\ a.kind = "eosio::sellrex" => EosioSellrex(a)
<1>1. TokenStep(a) =>
          a.kind \in {"transfer", "eosio.token::transfer", "open", "close", "init", "swapto",
                      "blockswapto"}
  BY DEF TokenStep, Execute, EosTransfer, Transfer, Open, Close, InitToken, SwapTo, BlockSwapTo
<1> QED
  BY <1>1
     DEF ForwardingExecute, Bidname, Buyram, Buyramburn, Buyramself, Buyrambytes, Deposit,
         Powerup, Delegatebw, Donatetorex, Bidrefund, Sellram, Refund, Claimrewards, Withdraw,
         Buyrex, Undelegatebw, Unstaketorex, Ramburn, Ramtransfer, Mvfrsavings, Mvtosavings,
         Sellrex, Newaccount, Voteproducer, Voteupdate, Linkauth, Unlinkauth, Updateauth,
         Deleteauth, Setabi, Setcode, Giftram, Ungiftram, Noop, Swaptrace, Enforcebal,
         Swapexcess, SystemExecute, EosioBidname, EosioBidrefund, EosioBuyram,
         EosioBuyrambytes, EosioSellram, EosioDonatetorex, EosioPowerup, Setrammarket,
         EosioClaimrewards, EosioQuiet, QuietKinds, EosioDelegatebw, EosioUndelegatebw,
         EosioRefund, EosioDeposit, EosioWithdraw, Setrex, EosioBuyrex, EosioMvfrsavings,
         EosioSellrex

-----------------------------------------------------------------------------
(* buyrambytes keeps the EOS balance                                       *)

\* A transaction of one buyrambytes is about to start, or it ends with the check of
\* the balance that its sender had.
BytesInv ==
    /\ IdleInv
    /\ Len(running) = 1 /\ running[1].kind = "buyrambytes" /\ pending # <<>> =>
           \/ pending = running /\ TablesAsSaved
           \/ LET last == pending[Len(pending)]
                  user == running[1].from
              IN  last.kind = "enforcebal" /\ last.from = user /\ last.amt = saved.eos[user]

\* buyrambytes has the balance checked last.
LEMMA BuyrambytesEnds ==
    ASSUME SystemTypeOK, NEW a \in Action, Buyrambytes(a)
    PROVE  /\ UNCHANGED eos
           /\ \E s \in Seq(Action) :
                  LET e == Inline(a, "enforcebal", a.from, Self, "EOS", eos[a.from], {a.from})
                  IN  e \in Action /\ Finish(s \o <<e>>) /\ s # <<>>
<1> DEFINE e == Inline(a, "enforcebal", a.from, Self, "EOS", eos[a.from], {a.from})
           f == Forward(a, "eosio::buyrambytes", a.amt)
<1>1. PICK cost \in RamCosts(a.amt) : SwapBefore(a, cost, f \o <<e>>)
  BY DEF Buyrambytes
<1> DEFINE t == SwapTrace(a, a.from, cost)
           c == Inline(a, "eosio.token::transfer", Self, a.from, "EOS", cost, {Self})
<1>2. /\ a.from \in Name /\ Self \in Name /\ a.amt \in Int /\ cost \in Int
      /\ eos[a.from] \in Int
      /\ {"swaptrace", "eosio.token::transfer", "enforcebal"} \subseteq Kinds
      /\ "EOS" \in Symbols /\ "XYZ" \in Symbols
  BY RamCostsType, KindsOfOthers, NamesAssumption
     DEF Action, Symbols, SystemTypeOK, TypeOK
<1>3. t \in Action /\ c \in Action /\ e \in Action
  BY <1>2, InlineType DEF SwapTrace
<1>4. f \in Seq(Action)
  <2>1. "eosio::buyrambytes" \in SystemKinds \ Setters
    BY DEF SystemKinds, Setters
  <2>2. f \in Seq(SentBy(a))
    BY <1>2, <2>1, ForwardSent
  <2>3. SentBy(a) \subseteq Action
    BY DEF SentBy
  <2> QED
    BY <2>2, <2>3
<1>5. Finish(<<t>> \o <<c>> \o (f \o <<e>>)) /\ UNCHANGED eos
  BY <1>1 DEF SwapBefore, CreditEos
<1> HIDE DEF e, f, t, c
<1>6. <<t>> \o <<c>> \o f \in Seq(Action) /\ <<t>> \o <<c>> \o f # <<>>
  BY <1>3, <1>4
<1>7. <<t>> \o <<c>> \o (f \o <<e>>) = (<<t>> \o <<c>> \o f) \o <<e>>
  BY <1>3, <1>4
<1>8. Finish((<<t>> \o <<c>> \o f) \o <<e>>)
  BY <1>5, <1>7
<1> QED
  BY <1>3, <1>5, <1>6, <1>8 DEF e

\* One step executes a call of Forwarding whose head is a: what is left to prove when
\* nothing of it is committed yet.
LEMMA BytesAfterStep ==
    ASSUME BytesInv, pending # <<>>, NEW a, a = Head(pending), ForwardingExecute(a),
           pending' # <<>>, Len(running) = 1, running[1].kind = "buyrambytes"
    PROVE  LET last == pending'[Len(pending')]
               user == running[1].from
           IN  last.kind = "enforcebal" /\ last.from = user /\ last.amt = saved.eos[user]
<1>1. SystemTypeOK /\ CallInv /\ pending \in Seq(Action) /\ a \in Action
  BY HeadIsCall DEF BytesInv, IdleInv, CallInv, SystemTypeOK, TypeOK
<1>2. CASE pending = running /\ TablesAsSaved
  <2> DEFINE e == Inline(a, "enforcebal", a.from, Self, "EOS", eos[a.from], {a.from})
  <2>1. a = running[1] /\ Tail(pending) = <<>>
    BY <1>1, <1>2, OnlyElement
  <2>7. Buyrambytes(a)
    BY <2>1, ExecutedByKind
  <2>2. PICK s \in Seq(Action) : e \in Action /\ Finish(s \o <<e>>)
    BY <1>1, <2>7, BuyrambytesEnds
  <2>3. e.kind = "enforcebal" /\ e.from = a.from /\ e.amt = eos[a.from]
    BY DEF Inline
  <2> HIDE DEF e
  <2>4. pending' = (s \o <<e>>) \o <<>>
    BY <2>1, <2>2 DEF Finish, Done
  <2>5. pending' = s \o <<e>> /\ Len(pending') = Len(s) + 1 /\ pending'[Len(s) + 1] = e
    BY <2>2, <2>4
  <2> QED
    BY <1>2, <2>1, <2>3, <2>5 DEF TablesAsSaved
<1>3. CASE LET last == pending[Len(pending)]
               user == running[1].from
           IN  last.kind = "enforcebal" /\ last.from = user /\ last.amt = saved.eos[user]
  <2>1. CASE Len(pending) > 1
    <3>1. PICK s \in Seq(Action) : Done(s)
      BY <1>1, StepIsDone
    <3> QED
      BY <1>1, <1>3, <2>1, <3>1, LastStays
  <2>2. CASE Len(pending) = 1
    <3>1. a = pending[1] /\ Tail(pending) = <<>>
      BY <1>1, <2>2, OnlyElement
    <3>2. Enforcebal(a)
      BY <1>3, <2>2, <3>1, ExecutedByKind
    <3>3. pending' = <<>> \o Tail(pending)
      BY <3>2 DEF Enforcebal, Finish, Done
    <3>4. pending' = <<>>
      BY <3>1, <3>3, ConcatEmptySeq, EmptySeq
    <3> QED
      BY <3>4
  <2>3. Len(pending) = 1 \/ Len(pending) > 1
    <3>1. Len(pending) \in Nat /\ Len(pending) # 0
      BY <1>1, LenProperties, EmptySeq
    <3>2. \A k \in Nat : k # 0 => k = 1 \/ k > 1
      OBVIOUS
    <3> QED
      BY <3>1, <3>2, Zenon
  <2> QED
    BY <2>1, <2>2, <2>3, Zenon
<1> QED
  BY <1>2, <1>3 DEF BytesInv

LEMMA BytesInductive == BytesInv /\ [ForwardingNext]_allVars => BytesInv'
<1> SUFFICES ASSUME BytesInv, [ForwardingNext]_allVars PROVE BytesInv'
  OBVIOUS
<1>1. IdleInv /\ IdleInv' /\ CallInv
  BY IdleInductive DEF BytesInv, IdleInv
<1>2. ASSUME pending # <<>>, NEW a, a = Head(pending), ForwardingExecute(a) PROVE BytesInv'
  <2>1. CASE pending' = <<>>
    BY <1>1, <2>1 DEF BytesInv
  <2>2. CASE pending' # <<>>
    <3>1. saved' = saved /\ running' = running
      BY <1>1, <1>2, <2>2, StepIsDone, StillRunning
    <3> QED
      BY <1>1, <1>2, <2>2, <3>1, BytesAfterStep DEF BytesInv
  <2> QED
    BY <2>1, <2>2
<1>3. CASE SystemRollback
  BY <1>1, <1>3 DEF SystemRollback, Rollback, BytesInv
<1>4. ASSUME NEW tx \in Transactions, ForwardingBegin(tx) PROVE BytesInv'
  <2>1. pending' = running' /\ pending = <<>> /\ UNCHANGED <<tables, saved>>
    BY <1>4 DEF ForwardingBegin, Begin
  <2>2. TablesAsSaved'
    BY <1>1, <2>1 DEF IdleInv, TablesAsSaved, tables
  <2> QED
    BY <1>1, <2>1, <2>2 DEF BytesInv
<1>5. CASE UNCHANGED allVars
  BY <1>1, <1>5 DEF allVars, vars, tables, BytesInv, TablesAsSaved
<1> QED
  BY <1>1, <1>2, <1>3, <1>4, <1>5, CallStepCases

\* buyrambytes works out a price, swaps that much XYZ and then asks eosio for the RAM:
\* in whatever way the price, or the balance, changes in between, the transaction
\* commits only when its sender's EOS balance is what it was.
THEOREM BuyrambytesKeeps == ForwardingSpec => BuyrambytesKeepsEos
<1> DEFINE KeepsEos ==
        Commits({"buyrambytes"}) =>
            LET user == running[1].from IN saved'.eos[user] = saved.eos[user]
<1>1. BytesInv /\ [ForwardingNext]_allVars => [KeepsEos]_allVars
  <2> SUFFICES ASSUME BytesInv, Commits({"buyrambytes"})
               PROVE  saved'.eos[running[1].from] = saved.eos[running[1].from]
    OBVIOUS
  <2> DEFINE a == Head(pending)
             user == running[1].from
  <2>1. /\ pending # <<>> /\ ForwardingExecute(a) /\ running' = <<>>
        /\ Len(running) = 1 /\ running[1].kind = "buyrambytes"
    BY DEF Commits, ForwardingRun
  <2>2. SystemTypeOK /\ CallInv /\ pending \in Seq(Action) /\ a \in Action
    BY <2>1, HeadIsCall DEF BytesInv, IdleInv, CallInv, SystemTypeOK, TypeOK
  <2>3. PICK s \in Seq(Action) : Done(s) /\ Recorded
    BY <2>1, <2>2, StepIsDone
  <2>4. pending' = <<>>
    BY <2>1, <2>3, StillRunning
  <2>5. s = <<>> /\ Len(pending) = 1
    BY <2>1, <2>2, <2>3, <2>4, LastSendsNothing
  <2>6. saved'.eos = eos'
    BY <2>3, <2>4 DEF Done, Tables
  <2>7. CASE pending = running
    <3>1. a = running[1] /\ Buyrambytes(a)
      BY <2>1, <2>2, <2>7, ExecutedByKind
    <3>2. PICK t \in Seq(Action), e \in Action : Finish(t \o <<e>>)
      BY <2>2, <3>1, BuyrambytesEnds
    <3>3. t \o <<e>> # <<>> /\ Done(t \o <<e>>) /\ t \o <<e>> \in Seq(Action)
      BY <3>2 DEF Finish
    <3> QED
      BY <2>1, <2>2, <2>4, <3>3, LastSendsNothing
  <2>8. CASE LET last == pending[Len(pending)]
             IN  last.kind = "enforcebal" /\ last.from = user /\ last.amt = saved.eos[user]
    <3>1. a = pending[1] /\ a.kind = "enforcebal" /\ Enforcebal(a)
      BY <2>1, <2>2, <2>5, <2>8, ExecutedByKind
    <3>2. eos[user] = saved.eos[user] /\ eos' = eos
      BY <2>5, <2>8, <3>1 DEF Enforcebal, EnforcebalOk, tables
    <3> QED
      BY <2>6, <3>2
  <2> QED
    BY <2>1, <2>7, <2>8 DEF BytesInv
<1>2. SystemInit => BytesInv
  BY IdleAtFirst DEF BytesInv, SystemInit, Init
<1> QED
  BY <1>1, <1>2, BytesInductive, PTL DEF ForwardingSpec, BuyrambytesKeepsEos

-----------------------------------------------------------------------------
(* Trading REX                                                             *)

LEMMA AddToSame ==
    ASSUME NEW t, IsTable(t), NEW n, NEW amt \in Int
    PROVE  Row(Add(t, n, amt), n) = Row(t, n) + amt
  BY DEF Add, Row

LEMMA QuotientIsLess ==
    ASSUME NEW n \in Nat, NEW d \in Nat \ {0} PROVE n \div d \in Int /\ d * (n \div d) <= n
<1>1. n \div d \in Int /\ n = d * (n \div d) + (n % d) /\ n % d \in 0 .. d - 1
  OBVIOUS
<1> QED
  BY <1>1

\* The REX bought is worth no more than the EOS it costs.
LEMMA RexBoughtIsPaid ==
    ASSUME pool \in Pool, NEW amt \in Nat \ {0}
    PROVE  EosToRex(amt) \in Int /\ pool.lendable * EosToRex(amt) <= pool.rex * amt
<1> DEFINE L == pool.lendable
           R == pool.rex
<1>1. L \in Nat /\ R \in Nat
  BY DEF Pool
<1>2. EosToRex(amt) = IF L > 0 THEN (R * amt) \div L ELSE 0
  BY DEF EosToRex
<1> HIDE DEF L, R
<1>3. R * amt \in Nat
  BY <1>1
<1>4. EosToRex(amt) \in Int /\ L * EosToRex(amt) <= R * amt
  <2>1. CASE L > 0
    <3>1. (R * amt) \div L \in Int /\ L * ((R * amt) \div L) <= R * amt
      BY <1>1, <1>3, <2>1, QuotientIsLess
    <3> QED
      BY <1>2, <2>1, <3>1
  <2>2. CASE ~(L > 0)
    <3>1. EosToRex(amt) = 0
      BY <1>2, <2>2
    <3>2. L * 0 = 0
      BY <1>1
    <3> QED
      BY <1>3, <3>1, <3>2
  <2> QED
    BY <2>1, <2>2
<1> QED
  BY <1>4 DEF L, R

\* The EOS that REX is sold for is worth no more than the REX.
LEMMA RexSoldPaysLess ==
    ASSUME pool \in Pool, NEW amt \in Nat \ {0}
    PROVE  RexToEos(amt) \in Int /\ pool.rex * RexToEos(amt) <= pool.lendable * amt
<1> DEFINE L == pool.lendable
           R == pool.rex
<1>1. L \in Nat /\ R \in Nat
  BY DEF Pool
<1>2. RexToEos(amt) = IF R > 0 THEN (L * (R + amt)) \div R - L ELSE -L
  BY DEF RexToEos
<1> HIDE DEF L, R
<1>3. L * amt \in Nat /\ L * (R + amt) \in Nat
  BY <1>1
<1>4. RexToEos(amt) \in Int /\ R * RexToEos(amt) <= L * amt
  <2>1. CASE R > 0
    <3> DEFINE q == (L * (R + amt)) \div R
    <3>1. q \in Int /\ R * q <= L * (R + amt)
      BY <1>1, <1>3, <2>1, QuotientIsLess
    <3>2. RexToEos(amt) = q - L
      BY <1>2, <2>1
    <3> HIDE DEF q
    <3>3. R * (q - L) = R * q - R * L /\ L * (R + amt) = R * L + L * amt
      BY <1>1, <3>1
    <3> QED
      BY <1>1, <1>3, <3>1, <3>2, <3>3
  <2>2. CASE ~(R > 0)
    <3>1. RexToEos(amt) = -L /\ R = 0
      BY <1>1, <1>2, <2>2
    <3> QED
      BY <1>1, <1>3, <3>1
  <2> QED
    BY <2>1, <2>2
<1> QED
  BY <1>4 DEF L, R

\* What n has in eosio, in EOS times the REX of the pool.
RexWorth(s, n) == s.pool.rex * Owed(s, n) + s.pool.lendable * Rex(s, n)

EosioTrade(a) == EosioBuyrex(a) \/ EosioMvfrsavings(a) \/ EosioSellrex(a)

LEMMA TradeGainsNothing ==
    ASSUME SystemTypeOK, NEW a \in Action, a.amt > 0, pool # NoRow, EosioTrade(a)
    PROVE  RexWorth(SystemTables', a.from) <= RexWorth(SystemTables, a.from)
<1> DEFINE n == a.from
           amt == a.amt
           L == pool.lendable
           R == pool.rex
           rest == net[n] + cpu[n] + refunds[n]
           f == Row(fund, n)
           st == Row(staked, n)
           u == Row(unstaking, n)
<1>1. /\ amt \in Nat \ {0} /\ n \in Name
      /\ net \in [Name -> Nat] /\ cpu \in [Name -> Nat] /\ refunds \in [Name -> Nat]
      /\ IsTable(fund) /\ IsTable(staked) /\ IsTable(unstaking) /\ pool \in Pool
  <2>1. /\ amt \in Nat \ {0} /\ n \in Name
    BY DEF Action
  <2>2. /\ net \in [Name -> Nat] /\ cpu \in [Name -> Nat] /\ refunds \in [Name -> Nat]
        /\ IsTable(fund) /\ IsTable(staked) /\ IsTable(unstaking) /\ pool \in Pool
    BY DEF SystemTypeOK, IsSystemDatabase, SystemTables
  <2> QED
    BY <2>1, <2>2
<1>2. L \in Nat /\ R \in Nat /\ rest \in Int /\ f \in Int /\ st \in Int /\ u \in Int
  BY <1>1, RowType DEF Pool
<1>3. UNCHANGED <<net, cpu, refunds, pool>>
  BY DEF EosioTrade, EosioBuyrex, EosioMvfrsavings, EosioSellrex, stakeTables
<1>4. RexWorth(SystemTables, n) = R * (rest + f) + L * (st + u)
  BY DEF RexWorth, Owed, Rex, SystemTables
<1>5. RexWorth(SystemTables', n)
          = R * (rest + Row(fund', n)) + L * (Row(staked', n) + Row(unstaking', n))
  BY <1>3 DEF RexWorth, Owed, Rex, SystemTables
<1> SUFFICES R * (rest + Row(fund', n)) + L * (Row(staked', n) + Row(unstaking', n))
                 <= R * (rest + f) + L * (st + u)
  BY <1>4, <1>5
<1>6. CASE EosioBuyrex(a)
  <2> DEFINE x == EosToRex(amt)
  <2>1. x \in Int /\ L * x <= R * amt
    BY <1>1, RexBoughtIsPaid
  <2>2. /\ n \in DOMAIN fund /\ fund' = [fund EXCEPT ![n] = @ - amt]
        /\ staked' = Add(staked, n, x) /\ unstaking' = unstaking
    BY <1>6 DEF EosioBuyrex, EosioBuyrexOk, HasFund
  <2> HIDE DEF x
  <2>3. Row(fund', n) = f - amt
    BY <1>1, <2>2 DEF IsTable, Row
  <2>4. Row(staked', n) = st + x /\ Row(unstaking', n) = u
    BY <1>1, <2>1, <2>2, AddToSame
  <2> HIDE DEF n, amt, L, R, rest, f, st, u
  <2>5. R * (rest + (f - amt)) + L * ((st + x) + u)
            = R * (rest + f) + L * (st + u) - R * amt + L * x
    BY <1>1, <1>2, <2>1
  <2> QED
    BY <1>1, <1>2, <2>1, <2>3, <2>4, <2>5
<1>7. CASE EosioMvfrsavings(a)
  <2>1. /\ n \in DOMAIN staked /\ staked' = [staked EXCEPT ![n] = @ - amt]
        /\ unstaking' = Add(unstaking, n, amt) /\ fund' = fund
    BY <1>7 DEF EosioMvfrsavings, HasRex
  <2>2. Row(fund', n) = f /\ Row(staked', n) = st - amt
    BY <1>1, <2>1 DEF IsTable, Row
  <2>3. Row(unstaking', n) = u + amt
    BY <1>1, <2>1, AddToSame
  <2> HIDE DEF n, amt, L, R, rest, f, st, u
  <2>4. (st - amt) + (u + amt) = st + u
    BY <1>1, <1>2
  <2> QED
    BY <1>2, <2>2, <2>3, <2>4
<1>8. CASE EosioSellrex(a)
  <2> DEFINE x == RexToEos(amt)
  <2>1. x \in Int /\ R * x <= L * amt
    BY <1>1, RexSoldPaysLess
  <2>2. /\ n \in DOMAIN unstaking /\ unstaking' = [unstaking EXCEPT ![n] = @ - amt]
        /\ fund' = Add(fund, n, x) /\ staked' = staked
    BY <1>8 DEF EosioSellrex, EosioSellrexOk, HasRex
  <2> HIDE DEF x
  <2>3. Row(fund', n) = f + x /\ Row(staked', n) = st
    BY <1>1, <2>1, <2>2, AddToSame
  <2>4. Row(unstaking', n) = u - amt
    BY <1>1, <2>2 DEF IsTable, Row
  <2> HIDE DEF n, amt, L, R, rest, f, st, u
  <2>5. R * (rest + (f + x)) + L * (st + (u - amt))
            = R * (rest + f) + L * (st + u) + R * x - L * amt
    BY <1>1, <1>2, <2>1
  <2> QED
    BY <1>1, <1>2, <2>1, <2>3, <2>4, <2>5
<1> QED
  BY <1>6, <1>7, <1>8 DEF EosioTrade

TradeKinds == {"buyrex", "mvfrsavings", "sellrex"}

\* b asks eosio for what a asks the contract for.
Passes(b, a) ==
    /\ b.kind \in {"eosio::buyrex", "eosio::mvfrsavings", "eosio::sellrex"}
    /\ b.from = a.from /\ b.amt = a.amt

\* A transaction of one trade changes no table until eosio is called, last.
TradeInv ==
    /\ IdleInv
    /\ Len(running) = 1 /\ running[1].kind \in TradeKinds /\ pending # <<>> =>
           /\ TablesAsSaved /\ SystemAsSaved
           /\ Len(pending) = 1
           /\ pending = running \/ Passes(pending[1], running[1])

\* A trade calls eosio and does nothing else.
LEMMA TradeIsPassed ==
    ASSUME NEW a \in Action, Buyrex(a) \/ Mvfrsavings(a) \/ Sellrex(a)
    PROVE  /\ UNCHANGED <<tables, systemTables>>
           /\ \E b \in Action : Passes(b, a) /\ Finish(<<b>>)
<1> a.amt \in Int
  BY DEF Action
<1>1. {"eosio::buyrex", "eosio::mvfrsavings", "eosio::sellrex"} \subseteq SystemKinds \ Setters
  BY DEF SystemKinds, Setters
<1>2. PICK kind \in {"eosio::buyrex", "eosio::mvfrsavings", "eosio::sellrex"} :
          PassOnInEos(a, kind) \/ PassOn(a, kind)
  BY DEF Buyrex, Mvfrsavings, Sellrex
<1> DEFINE b1 == [Inline(a, kind, a.from, a.to, "EOS", a.amt, {a.from}) EXCEPT !.more = a.more]
           b2 == [Inline(a, kind, a.from, a.to, a.sym, a.amt, {a.from}) EXCEPT !.more = a.more]
<1>3. b1 \in Action /\ b2 \in Action
  <2>1. a.to \in Name /\ a.sym \in Symbols /\ "EOS" \in Symbols
    BY DEF Action, Symbols
  <2>2. b1 \in SentBy(a) /\ b2 \in SentBy(a)
    BY <1>1, <2>1, CallSent
  <2> QED
    BY <2>2 DEF SentBy
<1>4. Passes(b1, a) /\ Passes(b2, a)
  BY DEF Passes, Inline
<1>5. Forward(a, kind, a.amt) = <<b1>> /\ PassedCall(a, kind) = <<b2>>
  BY DEF Forward, PassedCall
<1> HIDE DEF b1, b2
<1>6. UNCHANGED <<tables, systemTables>> /\ (Finish(<<b1>>) \/ Finish(<<b2>>))
  BY <1>2, <1>5 DEF PassOnInEos, PassOn
<1> QED
  BY <1>3, <1>4, <1>6

\* How a transaction of one trade goes on: eosio is called, or it has answered.
LEMMA TradeStep ==
    ASSUME TradeInv, pending # <<>>, NEW a, a = Head(pending), ForwardingExecute(a),
           Len(running) = 1, running[1].kind \in TradeKinds
    PROVE  \/ /\ UNCHANGED <<tables, systemTables>> /\ Recorded
              /\ \E b \in Action : Passes(b, running[1]) /\ pending' = <<b>>
           \/ Passes(a, running[1]) /\ EosioTrade(a) /\ Done(<<>>) /\ Recorded /\ pending' = <<>>
<1>1. SystemTypeOK /\ CallInv /\ pending \in Seq(Action) /\ a \in Action /\ Len(pending) = 1
  BY HeadIsCall DEF TradeInv, IdleInv, CallInv, SystemTypeOK, TypeOK
<1>2. a = pending[1] /\ Tail(pending) = <<>>
  BY <1>1, OnlyElement
<1>3. CASE pending = running
  <2>1. Buyrex(a) \/ Mvfrsavings(a) \/ Sellrex(a)
    BY <1>1, <1>2, <1>3, ExecutedByKind DEF TradeKinds
  <2>2. PICK b \in Action : Passes(b, a) /\ Finish(<<b>>)
    BY <1>1, <2>1, TradeIsPassed
  <2>3. UNCHANGED <<tables, systemTables>>
    BY <1>1, <2>1, TradeIsPassed
  <2>4. pending' = <<b>>
    <3>1. pending' = <<b>> \o Tail(pending)
      BY <2>2 DEF Finish, Done
    <3>2. <<b>> \in Seq(Action)
      BY <2>2
    <3> QED
      BY <1>2, <3>1, <3>2, ConcatEmptySeq
  <2> QED
    BY <1>2, <1>3, <2>2, <2>3, <2>4 DEF Finish
<1>4. CASE Passes(pending[1], running[1])
  <2>1. EosioTrade(a)
    BY <1>2, <1>4, ExecutedByKind DEF Passes, EosioTrade
  <2>2. Finish(<<>>)
    BY <2>1 DEF EosioTrade, EosioBuyrex, EosioMvfrsavings, EosioSellrex
  <2>3. Done(<<>>) /\ Recorded /\ pending' = <<>> \o Tail(pending)
    BY <2>2 DEF Finish, Done
  <2>4. pending' = <<>>
    BY <1>2, <2>3, ConcatEmptySeq, EmptySeq
  <2> QED
    BY <1>2, <1>4, <2>1, <2>3, <2>4
<1> QED
  BY <1>3, <1>4 DEF TradeInv

LEMMA TradeInductive == TradeInv /\ [ForwardingNext]_allVars => TradeInv'
<1> SUFFICES ASSUME TradeInv, [ForwardingNext]_allVars PROVE TradeInv'
  OBVIOUS
<1>1. IdleInv /\ IdleInv' /\ CallInv
  BY IdleInductive DEF TradeInv, IdleInv
<1>2. ASSUME pending # <<>>, NEW a, a = Head(pending), ForwardingExecute(a) PROVE TradeInv'
  <2>1. CASE pending' = <<>>
    BY <1>1, <2>1 DEF TradeInv
  <2>2. CASE pending' # <<>>
    <3>1. savedSystem' = savedSystem /\ running' = running
      BY <1>1, <1>2, <2>2, StepIsDone, StillRunning
    <3>2. CASE Len(running) = 1 /\ running[1].kind \in TradeKinds
      <4>1. PICK b \in Action : /\ UNCHANGED <<tables, systemTables>>
                                /\ Passes(b, running[1]) /\ pending' = <<b>>
        BY <1>2, <2>2, <3>2, TradeStep
      <4>2. TablesAsSaved' /\ SystemAsSaved'
        <5>1. saved' = saved
          BY <1>1, <1>2, <2>2, StepIsDone, StillRunning
        <5> QED
          BY <1>2, <3>1, <3>2, <4>1, <5>1
             DEF TradeInv, TablesAsSaved, SystemAsSaved, tables, systemTables, stakeTables,
                 rexTables
      <4>3. Len(pending') = 1 /\ Passes(pending'[1], running'[1])
        BY <3>1, <4>1
      <4> QED
        BY <1>1, <4>2, <4>3 DEF TradeInv
    <3>3. CASE ~(Len(running) = 1 /\ running[1].kind \in TradeKinds)
      BY <1>1, <3>1, <3>3 DEF TradeInv
    <3> QED
      BY <3>2, <3>3
  <2> QED
    BY <2>1, <2>2
<1>3. CASE SystemRollback
  BY <1>1, <1>3 DEF SystemRollback, Rollback, TradeInv
<1>4. ASSUME NEW tx \in Transactions, ForwardingBegin(tx) PROVE TradeInv'
  <2>1. /\ pending' = running' /\ pending = <<>>
        /\ UNCHANGED <<tables, saved, systemTables, savedSystem>>
    BY <1>4 DEF ForwardingBegin, Begin
  <2>2. TablesAsSaved' /\ SystemAsSaved'
    BY <1>1, <2>1
       DEF IdleInv, TablesAsSaved, SystemAsSaved, tables, systemTables, stakeTables, rexTables
  <2> QED
    BY <1>1, <2>1, <2>2 DEF TradeInv
<1>5. CASE UNCHANGED allVars
  BY <1>1, <1>5
     DEF allVars, vars, tables, systemTables, stakeTables, rexTables, TradeInv, TablesAsSaved,
         SystemAsSaved
<1> QED
  BY <1>1, <1>2, <1>3, <1>4, <1>5, CallStepCases

\* Whatever the pool holds, a user who buys REX, moves it out of savings or sells it
\* has afterwards, at the price of the pool, no more than before: every conversion
\* loses a fraction, and eosio is asked for just the amount that the user named.
THEOREM TradesGainNothing == ForwardingSpec => TradesNeverGain
<1> DEFINE NoGain ==
        Commits({"buyrex", "mvfrsavings", "sellrex"}) /\ running[1].amt > 0 =>
           LET user == running[1].from
               worth(s) == s.pool.rex * Owed(s, user) + s.pool.lendable * Rex(s, user)
           IN  pool # NoRow => worth(savedSystem') <= worth(savedSystem)
<1>1. TradeInv /\ [ForwardingNext]_allVars => [NoGain]_allVars
  <2> SUFFICES ASSUME TradeInv, Commits({"buyrex", "mvfrsavings", "sellrex"}),
                      running[1].amt > 0, pool # NoRow
               PROVE  RexWorth(savedSystem', running[1].from)
                          <= RexWorth(savedSystem, running[1].from)
    BY DEF RexWorth
  <2> DEFINE a == Head(pending)
             user == running[1].from
  <2>1. /\ pending # <<>> /\ ForwardingExecute(a) /\ running' = <<>>
        /\ Len(running) = 1 /\ running[1].kind \in TradeKinds
    BY DEF Commits, ForwardingRun, TradeKinds
  <2>2. SystemTypeOK /\ CallInv /\ a \in Action
    BY <2>1, HeadIsCall DEF TradeInv, IdleInv, CallInv
  <2>3. pending' = <<>>
    <3>1. PICK s \in Seq(Action) : Done(s) /\ Recorded
      BY <2>1, <2>2, StepIsDone
    <3>2. Len(running) = 1 => running # <<>>
      BY EmptySeq
    <3> QED
      BY <2>1, <3>1, <3>2, StillRunning
  <2>4. Passes(a, running[1]) /\ EosioTrade(a) /\ Recorded
    BY <2>1, <2>3, TradeStep
  <2>5. a.from = user /\ a.amt > 0
    BY <2>4 DEF Passes
  <2>6. RexWorth(SystemTables', user) <= RexWorth(SystemTables, user)
    BY <2>2, <2>4, <2>5, TradeGainsNothing
  <2>7. savedSystem' = SystemTables'
    BY <2>3, <2>4 DEF Recorded
  <2>8. RexWorth(SystemTables, user) = RexWorth(savedSystem, user)
    BY <2>1 DEF TradeInv, SystemAsSaved, RexWorth, Owed, Rex, SystemTables
  <2> QED
    BY <2>6, <2>7, <2>8
<1>2. SystemInit => TradeInv
  BY IdleAtFirst DEF TradeInv, SystemInit, Init
<1> QED
  BY <1>1, <1>2, TradeInductive, PTL DEF ForwardingSpec, TradesNeverGain

=============================================================================
