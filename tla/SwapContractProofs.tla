------------------------- MODULE SwapContractProofs -------------------------
(***************************************************************************)
(* Theorems about SwapContract, for any set of accounts, any handlers of   *)
(* theirs, any transactions and any depth limit.                           *)
(***************************************************************************)
EXTENDS SwapContract, SequenceTheorems, TLAPS

-----------------------------------------------------------------------------
(* Type correctness                                                        *)

\* The types of the tables.
TablesOK ==
    /\ eos \in [Name -> Nat]
    /\ xyz \in [Name -> Nat]
    /\ payer \in [Name -> Name \cup {NoPayer}]
    /\ released \in [Name -> BOOLEAN]
    /\ blocked \subseteq Name
    /\ supply \in Nat
    /\ donated \in Nat

LEMMA TablesAreDatabase == ASSUME TablesOK PROVE Tables \in Database
  BY DEF TablesOK, Tables, Database

\* An inline action sent by the contract is an action.
LEMMA InlineType ==
    ASSUME NEW a \in Action, NEW kind \in Kinds, NEW from \in Name, NEW to \in Name,
           NEW sym \in Symbols, NEW amt \in Int, NEW auth \in SUBSET Name
    PROVE  Inline(a, kind, from, to, sym, amt, auth) \in Action
  BY DEF Inline, Action

\* The answers of a handler are sequences of what it may send.
LEMMA RepliesType ==
    ASSUME NEW n \in Name, NEW a \in Action, NEW r \in Replies(n, a)
    PROVE  r \in Seq(UserAction)
<1>1. CASE n \notin Coded
  BY <1>1 DEF Replies
<1>2. CASE n \in Coded
  <2>1. PICK q \in Reactions[n] :
            r = [i \in DOMAIN q |-> [q[i] EXCEPT !.depth = a.depth + 1]]
    BY <1>2 DEF Replies
  <2>2. q \in Seq(UserAction)
    BY <1>2, ReactionsAssumption
  <2> DEFINE f(i) == [q[i] EXCEPT !.depth = a.depth + 1]
  <2>3. ASSUME NEW i \in 1 .. Len(q) PROVE f(i) \in UserAction
    <3>1. q[i] \in UserAction
      BY <2>2
    <3>2. a.depth + 1 \in Nat
      BY DEF Action
    <3> QED
      BY <3>1, <3>2 DEF UserAction, Action, IsTransfer
  <2> HIDE DEF f
  <2>4. r = [i \in 1 .. Len(q) |-> f(i)]
    BY <2>1, <2>2 DEF f
  <2>5. [i \in 1 .. Len(q) |-> f(i)] \in Seq(UserAction)
    BY <2>2, <2>3, LenProperties, IsASeq
  <2> QED
    BY <2>4, <2>5
<1> QED
  BY <1>1, <1>2

LEMMA UserActionsAreActions == \A s \in Seq(UserAction) : s \in Seq(Action)
  BY DEF UserAction

\* What a completed action leaves behind is well typed when its tables are.
LEMMA DoneType ==
    ASSUME TypeOK, pending # <<>>, NEW inlines \in Seq(Action), Done(inlines), TablesOK'
    PROVE  TypeOK'
<1>1. Tables' \in Database
  BY TablesAreDatabase DEF TablesOK, Tables, Database
<1>2. Tail(pending) \in Seq(Action)
  BY DEF TypeOK
<1>3. pending' \in Seq(Action)
  BY <1>2 DEF Done
<1>4. saved' \in Database /\ signers' \subseteq Name
  BY <1>1 DEF Done, TypeOK
<1> QED
  BY <1>3, <1>4 DEF TypeOK, TablesOK

\* The inline actions of swapto, for either token.
LEMMA SwapToSends ==
    ASSUME NEW a \in Action
    PROVE  /\ Inline(a, "eosio.token::transfer", a.from, Self, "EOS", a.amt, {a.from}) \in Action
           /\ Inline(a, "transfer", a.from, a.to, "XYZ", a.amt, {a.from}) \in Action
           /\ Inline(a, "transfer", a.from, Self, "XYZ", a.amt, {a.from}) \in Action
           /\ Inline(a, "eosio.token::transfer", a.from, a.to, "EOS", a.amt, {a.from}) \in Action
<1> /\ Self \in Name /\ a.from \in Name /\ a.to \in Name /\ a.amt \in Int
  BY NamesAssumption DEF Action
<1> QED
  BY InlineType DEF Kinds, Symbols

LEMMA SwapToInlinesType == ASSUME NEW a \in Action PROVE SwapToInlines(a) \in Seq(Action)
<1>1. /\ Inline(a, "eosio.token::transfer", a.from, Self, "EOS", a.amt, {a.from}) \in Action
      /\ Inline(a, "transfer", a.from, a.to, "XYZ", a.amt, {a.from}) \in Action
      /\ Inline(a, "transfer", a.from, Self, "XYZ", a.amt, {a.from}) \in Action
      /\ Inline(a, "eosio.token::transfer", a.from, a.to, "EOS", a.amt, {a.from}) \in Action
  BY SwapToSends
<1> QED
  BY <1>1 DEF SwapToInlines

\* The inline actions of the handlers, in the order they are sent.
LEMMA InlinesType ==
    ASSUME NEW a \in Action, NEW rf \in Replies(a.from, a), NEW rt \in Replies(a.to, a)
    PROVE  /\ OnTransfer(a) \in Seq(Action)
           /\ rf \o OnTransfer(a) \o rt \in Seq(Action)
           /\ (IF a.to = Self THEN CreditEos(a, a.from, a.amt) ELSE <<>>) \o rf \o rt
                  \in Seq(Action)
           /\ SwapToInlines(a) \in Seq(Action)
<1> /\ Self \in Name /\ a.from \in Name /\ a.to \in Name /\ a.amt \in Int
  BY NamesAssumption DEF Action
<1>1. rf \in Seq(Action) /\ rt \in Seq(Action)
  BY RepliesType, UserActionsAreActions
<1>2. Inline(a, "transfer", Self, a.from, "XYZ", a.amt, {Self}) \in Action
  BY InlineType DEF Kinds, Symbols
<1>3. Inline(a, "eosio.token::transfer", Self, a.from, "EOS", a.amt, {Self}) \in Action
  BY InlineType DEF Kinds, Symbols
<1>4. OnTransfer(a) \in Seq(Action)
  BY <1>2 DEF OnTransfer
<1>5. (IF a.to = Self THEN CreditEos(a, a.from, a.amt) ELSE <<>>) \in Seq(Action)
  BY <1>3 DEF CreditEos
<1>6. SwapToInlines(a) \in Seq(Action)
  BY SwapToInlinesType
<1> QED
  BY <1>1, <1>4, <1>5, <1>6, ConcatProperties

LEMMA HeadType == ASSUME TypeOK, pending # <<>> PROVE Head(pending) \in Action
  BY DEF TypeOK

LEMMA EosTransferType ==
    ASSUME TypeOK, pending # <<>>, NEW a \in Action, EosTransfer(a) PROVE TypeOK'
<1>1. TablesOK'
  <2>1. a.amt \in Nat /\ a.from \in Name /\ a.to \in Name
    BY DEF EosTransfer, EosTransferOk, Action
  <2>2. eos' \in [Name -> Nat]
    <3>1. CASE a.sym # "EOS"
      BY <3>1 DEF EosTransfer, TypeOK
    <3>2. CASE a.sym = "EOS"
      <4>1. eos[a.from] - a.amt \in Nat /\ eos[a.to] + a.amt \in Nat /\ a.from # a.to
        BY <2>1, <3>2 DEF EosTransfer, EosTransferOk, TypeOK
      <4> QED
        BY <2>1, <3>2, <4>1 DEF EosTransfer, TypeOK
    <3> QED
      BY <3>1, <3>2
  <2>3. donated' \in Nat
    BY <2>1 DEF EosTransfer, TypeOK
  <2> QED
    BY <2>2, <2>3 DEF EosTransfer, TypeOK, TablesOK
<1>2. PICK rf \in Replies(a.from, a), rt \in Replies(a.to, a) :
          Done(rf \o OnTransfer(a) \o rt)
  BY DEF EosTransfer
<1> QED
  BY <1>1, <1>2, InlinesType, DoneType

\* An XYZ transfer that passes sub_balance's checks keeps the tables well typed.
LEMMA MoveXyzType ==
    ASSUME TypeOK, NEW from \in Name, NEW to \in Name, from # to, NEW amt \in Nat,
           NEW ramPayer \in Name, CanDebit(from, amt), MoveXyz(from, to, amt, ramPayer)
    PROVE  /\ xyz' \in [Name -> Nat]
           /\ payer' \in [Name -> Name \cup {NoPayer}]
           /\ released' \in [Name -> BOOLEAN]
<1>1. xyz[from] - amt \in Nat /\ xyz[to] + amt \in Nat
  BY DEF TypeOK, CanDebit
<1>2. PayerOfCredit(to, ramPayer) \in Name \cup {NoPayer}
  BY NamesAssumption DEF TypeOK, PayerOfCredit
<1>3. ReleasedOnCredit(to, ramPayer) \in BOOLEAN
  BY DEF TypeOK, ReleasedOnCredit
<1> QED
  BY <1>1, <1>2, <1>3 DEF TypeOK, MoveXyz

LEMMA TransferType ==
    ASSUME TypeOK, pending # <<>>, NEW a \in Action, Transfer(a) PROVE TypeOK'
<1>1. TablesOK'
  <2>1. a.amt \in Nat /\ a.from \in Name /\ a.to \in Name /\ a.from # a.to
    BY DEF Transfer, TransferOk, Action
  <2>2. CanDebit(a.from, a.amt)
    BY DEF Transfer, TransferOk
  <2>3. (IF a.to \in a.auth THEN a.to ELSE a.from) \in Name
    BY <2>1
  <2> QED
    BY <2>1, <2>2, <2>3, MoveXyzType DEF Transfer, TypeOK, TablesOK
<1>2. PICK rf \in Replies(a.from, a), rt \in Replies(a.to, a) :
          Done((IF a.to = Self THEN CreditEos(a, a.from, a.amt) ELSE <<>>) \o rf \o rt)
  BY DEF Transfer
<1> QED
  BY <1>1, <1>2, InlinesType, DoneType

LEMMA RowActionsType ==
    ASSUME TypeOK, pending # <<>>, NEW a \in Action,
           Open(a) \/ Close(a) \/ InitToken(a) \/ SwapTo(a) \/ BlockSwapTo(a)
    PROVE  TypeOK'
<1> /\ a.from \in Name /\ a.to \in Name /\ a.amt \in Int /\ Self \in Name
  BY NamesAssumption DEF Action
<1>1. ASSUME Open(a) PROVE TablesOK' /\ Done(<<>>)
  BY <1>1 DEF Open, TypeOK, TablesOK
<1>2. ASSUME Close(a) PROVE TablesOK' /\ Done(<<>>)
  BY <1>2 DEF Close, TypeOK, TablesOK
<1>3. ASSUME InitToken(a) PROVE TablesOK' /\ Done(<<>>)
  <2>1. a.amt \in Nat
    BY <1>3 DEF InitToken, InitTokenOk
  <2>2. PayerOfCredit(Self, Self) \in Name /\ ReleasedOnCredit(Self, Self) \in BOOLEAN
    BY DEF PayerOfCredit, ReleasedOnCredit, HasRow, TypeOK
  <2>3. /\ xyz' = [xyz EXCEPT ![Self] = @ + a.amt] /\ supply' = a.amt
        /\ payer' = [payer EXCEPT ![Self] = PayerOfCredit(Self, Self)]
        /\ released' = [released EXCEPT ![Self] = ReleasedOnCredit(Self, Self)]
        /\ UNCHANGED <<eos, blocked, donated>> /\ Done(<<>>)
    BY <1>3 DEF InitToken
  <2>4. xyz' \in [Name -> Nat] /\ supply' \in Nat
    BY <2>1, <2>3 DEF TypeOK, TablesOK
  <2>5. payer' \in [Name -> Name \cup {NoPayer}] /\ released' \in [Name -> BOOLEAN]
    BY <2>2, <2>3 DEF TypeOK, TablesOK
  <2> QED
    BY <2>3, <2>4, <2>5 DEF TypeOK, TablesOK
<1>4. ASSUME SwapTo(a) PROVE TablesOK' /\ Done(SwapToInlines(a))
  BY <1>4 DEF SwapTo, TypeOK, TablesOK, tables
<1>5. ASSUME BlockSwapTo(a) PROVE TablesOK' /\ Done(<<>>)
  BY <1>5 DEF BlockSwapTo, TypeOK, TablesOK
<1>6. SwapToInlines(a) \in Seq(Action) /\ <<>> \in Seq(Action)
  BY SwapToInlinesType
<1> QED
  BY <1>1, <1>2, <1>3, <1>4, <1>5, <1>6, DoneType

LEMMA RollbackType == ASSUME TypeOK, Rollback PROVE TypeOK'
  BY DEF TypeOK, Rollback, Database

LEMMA BeginType == ASSUME TypeOK, NEW tx \in Transactions, Begin(tx) PROVE TypeOK'
<1>1. tx \in Seq(Action)
  BY TransactionsAssumption, UserActionsAreActions
<1>2. UNION {tx[i].auth : i \in DOMAIN tx} \subseteq Name
  <2>1. \A i \in DOMAIN tx : tx[i] \in Action
    BY <1>1, LenProperties, ElementOfSeq
  <2> QED
    BY <2>1 DEF Action
<1> QED
  BY <1>1, <1>2 DEF TypeOK, Begin, tables

\* A step is the execution of the first pending action, its rejection, or the
\* arrival of a transaction.
LEMMA StepCases ==
    ASSUME TypeOK, [Next]_vars
    PROVE  \/ /\ pending # <<>>
              /\ \E a \in Action : a = Head(pending) /\ Execute(a)
           \/ pending # <<>> /\ Rollback
           \/ \E tx \in Transactions : Begin(tx)
           \/ UNCHANGED vars
  BY HeadType DEF Next, Run, Reject

LEMMA TypeInductive == TypeOK /\ [Next]_vars => TypeOK'
<1> SUFFICES ASSUME TypeOK, [Next]_vars PROVE TypeOK'
  OBVIOUS
<1>1. ASSUME pending # <<>>, NEW a \in Action, Execute(a) PROVE TypeOK'
  BY <1>1, EosTransferType, TransferType, RowActionsType DEF Execute
<1>2. CASE UNCHANGED vars
  BY <1>2 DEF TypeOK, vars, tables
<1> QED
  BY <1>1, <1>2, StepCases, RollbackType, BeginType

\* Every variable keeps its type; in particular no balance is ever negative and
\* only an account of the model ever pays for a row.
THEOREM TypeCorrect == Spec => []TypeOK
<1>1. Init => TypeOK
  BY NamesAssumption, EosAssumption DEF Init, TypeOK, Database, Tables
<1> QED
  BY <1>1, TypeInductive, PTL DEF Spec

-----------------------------------------------------------------------------
(* The peg                                                                 *)
(*                                                                         *)
(* While a transaction runs, the contract may have taken one half of a     *)
(* swap and still owe the other.  What it owes is the sum of the transfers *)
(* still pending with its own authority.  The sum is stated by its partial *)
(* sums t: t[i] is owed from the i-th pending action on.                   *)

\* What executing action a, and not what it sends, settles.
Owes(a) == IF IsTransfer(a) /\ Self \in a.auth THEN a.amt ELSE 0

IsTally(t, p) ==
    /\ t \in [1 .. Len(p) + 1 -> Nat]
    /\ t[Len(p) + 1] = 0
    /\ \A i \in 1 .. Len(p) : t[i] = Owes(p[i]) + t[i + 1]

\* The actions of p together settle n.
OwedBy(p, n) == \E t : IsTally(t, p) /\ t[1] = n

\* The authority of the contract is behind no other transfer than those it
\* sends itself.
HonestAction ==
    {a \in Action :
        /\ IsTransfer(a) /\ Self \in a.auth => a.from = Self /\ a.amt > 0
        /\ a.kind = "eosio.token::transfer" /\ Self \in a.auth => a.sym = "EOS"
        /\ a.kind = "swapto" => Self \notin a.auth}

QuietAction == {a \in HonestAction : Owes(a) = 0}

\* What the contract has to hold when `owed` is still to be paid.
PegWhenOwing(owed) == eos[Self] = supply - xyz[Self] + donated + owed

PegInv ==
    /\ TypeOK
    /\ pending \in Seq(HonestAction)
    /\ \E owed \in Nat : OwedBy(pending, owed) /\ PegWhenOwing(owed)
    /\ Backed

LEMMA OwesType == \A a \in HonestAction : Owes(a) \in Nat
  BY DEF Owes, HonestAction, Action

LEMMA UserActionsAreQuiet == UserAction \subseteq QuietAction
  BY DEF UserAction, QuietAction, HonestAction, Owes, IsTransfer

LEMMA OwedByNothing == \A n \in Nat : OwedBy(<<>>, n) <=> n = 0
<1>1. OwedBy(<<>>, 0)
  <2>1. IsTally([i \in 1 .. 1 |-> 0], <<>>)
    BY DEF IsTally
  <2> QED
    BY <2>1 DEF OwedBy
<1>2. ASSUME NEW n \in Nat, OwedBy(<<>>, n) PROVE n = 0
  BY <1>2 DEF OwedBy, IsTally
<1> QED
  BY <1>1, <1>2

\* Executing the first action settles what it owes.
LEMMA OwedByTail ==
    ASSUME NEW p \in Seq(HonestAction), p # <<>>, NEW n \in Nat, OwedBy(p, n)
    PROVE  n - Owes(Head(p)) \in Nat /\ OwedBy(Tail(p), n - Owes(Head(p)))
<1>1. PICK t : IsTally(t, p) /\ t[1] = n
  BY DEF OwedBy
<1> DEFINE u == [i \in 1 .. Len(p) |-> t[i + 1]]
<1>2. /\ Len(p) \in Nat \ {0}
      /\ Tail(p) \in Seq(HonestAction)
      /\ Len(Tail(p)) = Len(p) - 1
      /\ \A i \in 1 .. Len(Tail(p)) : Tail(p)[i] = p[i + 1]
      /\ Head(p) = p[1]
  BY HeadTailProperties, EmptySeq
<1>3. IsTally(u, Tail(p))
  <2>1. u \in [1 .. Len(Tail(p)) + 1 -> Nat]
    BY <1>1, <1>2 DEF IsTally
  <2>2. u[Len(Tail(p)) + 1] = 0
    BY <1>1, <1>2 DEF IsTally
  <2>3. ASSUME NEW i \in 1 .. Len(Tail(p)) PROVE u[i] = Owes(Tail(p)[i]) + u[i + 1]
    BY <1>1, <1>2 DEF IsTally
  <2> QED
    BY <2>1, <2>2, <2>3 DEF IsTally
<1>4. u[1] = n - Owes(Head(p)) /\ u[1] \in Nat
  <2>1. t[1] = Owes(p[1]) + t[2] /\ u[1] = t[2] /\ t[2] \in Nat
    BY <1>1, <1>2 DEF IsTally
  <2>2. Owes(p[1]) \in Nat
    BY <1>2, OwesType
  <2> QED
    BY <1>1, <1>2, <2>1, <2>2
<1> HIDE DEF u
<1> QED
  BY <1>3, <1>4 DEF OwedBy

\* Actions that are no payments of the contract add nothing.
LEMMA OwedAfterQuiet ==
    ASSUME NEW s \in Seq(QuietAction), NEW p \in Seq(HonestAction), NEW n \in Nat,
           OwedBy(p, n)
    PROVE  OwedBy(s \o p, n)
<1>1. PICK t : IsTally(t, p) /\ t[1] = n
  BY DEF OwedBy
<1> DEFINE u == [i \in 1 .. Len(s) + Len(p) + 1 |->
                    IF i <= Len(s) THEN t[1] ELSE t[i - Len(s)]]
<1>2. /\ Len(s) \in Nat /\ Len(p) \in Nat
      /\ \A i \in 1 .. Len(s) : s[i] \in Action /\ Owes(s[i]) = 0
  BY DEF QuietAction, HonestAction
<1>3. /\ Len(s \o p) = Len(s) + Len(p)
      /\ \A i \in 1 .. Len(s) + Len(p) :
             (s \o p)[i] = IF i <= Len(s) THEN s[i] ELSE p[i - Len(s)]
  <2>1. s \in Seq(HonestAction)
    BY DEF QuietAction, HonestAction
  <2> QED
    BY <2>1, ConcatProperties
<1>4. IsTally(u, s \o p)
  <2>1. \A i \in 1 .. Len(p) + 1 : t[i] \in Nat
    BY <1>1 DEF IsTally
  <2>2. u \in [1 .. Len(s \o p) + 1 -> Nat]
    BY <1>2, <1>3, <2>1
  <2>3. u[Len(s \o p) + 1] = 0
    BY <1>1, <1>2, <1>3 DEF IsTally
  <2>4. ASSUME NEW i \in 1 .. Len(s \o p)
        PROVE  u[i] = Owes((s \o p)[i]) + u[i + 1]
    <3>1. CASE i <= Len(s)
      <4>1. Owes((s \o p)[i]) = 0
        BY <1>2, <1>3, <2>4, <3>1
      <4>2. u[i] = t[1] /\ u[i + 1] = t[1] /\ t[1] \in Nat
        BY <1>2, <1>3, <2>1, <2>4, <3>1
      <4> QED
        BY <4>1, <4>2
    <3>2. CASE i > Len(s)
      <4>1. i - Len(s) \in 1 .. Len(p)
        BY <1>2, <1>3, <2>4, <3>2
      <4>2. t[i - Len(s)] = Owes(p[i - Len(s)]) + t[i - Len(s) + 1]
        BY <1>1, <4>1 DEF IsTally
      <4>3. u[i] = t[i - Len(s)] /\ u[i + 1] = t[i - Len(s) + 1]
        BY <1>2, <1>3, <2>4, <3>2
      <4>4. (s \o p)[i] = p[i - Len(s)]
        BY <1>2, <1>3, <2>4, <3>2
      <4> QED
        BY <4>2, <4>3, <4>4
    <3> QED
      BY <1>2, <1>3, <2>4, <3>1, <3>2
  <2> QED
    BY <2>2, <2>3, <2>4 DEF IsTally
<1>5. u[1] = n
  BY <1>1, <1>2
<1> HIDE DEF u
<1> QED
  BY <1>4, <1>5 DEF OwedBy

\* A payment that is sent adds its amount.
LEMMA OwedAfterPayment ==
    ASSUME NEW e \in HonestAction, NEW p \in Seq(HonestAction), NEW n \in Nat, OwedBy(p, n)
    PROVE  OwedBy(<<e>> \o p, n + Owes(e))
<1>1. PICK t : IsTally(t, p) /\ t[1] = n
  BY DEF OwedBy
<1> DEFINE u == [i \in 1 .. Len(p) + 2 |-> IF i = 1 THEN n + Owes(e) ELSE t[i - 1]]
<1>2. Len(p) \in Nat /\ Owes(e) \in Nat
  BY OwesType
<1>3. /\ Len(<<e>> \o p) = Len(p) + 1
      /\ \A i \in 1 .. Len(p) + 1 : (<<e>> \o p)[i] = IF i = 1 THEN e ELSE p[i - 1]
  BY <1>2
<1>4. IsTally(u, <<e>> \o p)
  <2>1. \A i \in 1 .. Len(p) + 1 : t[i] \in Nat
    BY <1>1 DEF IsTally
  <2>2. u \in [1 .. Len(<<e>> \o p) + 1 -> Nat]
    BY <1>2, <1>3, <2>1
  <2>3. u[Len(<<e>> \o p) + 1] = 0
    BY <1>1, <1>2, <1>3 DEF IsTally
  <2>4. ASSUME NEW i \in 1 .. Len(<<e>> \o p)
        PROVE  u[i] = Owes((<<e>> \o p)[i]) + u[i + 1]
    <3>1. CASE i = 1
      BY <1>1, <1>2, <1>3, <2>1, <3>1
    <3>2. CASE i # 1
      <4>1. i - 1 \in 1 .. Len(p)
        BY <1>2, <1>3, <2>4, <3>2
      <4>2. t[i - 1] = Owes(p[i - 1]) + t[i - 1 + 1]
        BY <1>1, <4>1 DEF IsTally
      <4>3. u[i] = t[i - 1] /\ u[i + 1] = t[i - 1 + 1] /\ (<<e>> \o p)[i] = p[i - 1]
        BY <1>2, <1>3, <2>4, <3>2
      <4> QED
        BY <4>2, <4>3
    <3> QED
      BY <3>1, <3>2
  <2> QED
    BY <2>2, <2>3, <2>4 DEF IsTally
<1>5. u[1] = n + Owes(e)
  BY <1>2
<1> HIDE DEF u
<1> QED
  BY <1>4, <1>5 DEF OwedBy

\* The answers of a handler are no payments.
LEMMA RepliesQuiet ==
    ASSUME NEW n \in Name, NEW a \in Action, NEW r \in Replies(n, a)
    PROVE  r \in Seq(QuietAction)
  BY RepliesType, UserActionsAreQuiet

LEMMA QuietIsHonest == \A s \in Seq(QuietAction) : s \in Seq(HonestAction)
  BY DEF QuietAction

LEMMA HonestIsAction == \A s \in Seq(HonestAction) : s \in Seq(Action)
  BY DEF HonestAction

\* What is owed after an action has sent one payment, or none, among answers of
\* handlers.
LEMMA OwedAfterInlines ==
    ASSUME NEW r1 \in Seq(QuietAction), NEW r2 \in Seq(QuietAction),
           NEW e \in HonestAction, NEW p \in Seq(HonestAction),
           NEW n \in Nat, OwedBy(p, n)
    PROVE  /\ r1 \o <<>> \o r2 \in Seq(HonestAction)
           /\ r1 \o <<e>> \o r2 \in Seq(HonestAction)
           /\ <<>> \o r1 \o r2 \in Seq(HonestAction)
           /\ <<e>> \o r1 \o r2 \in Seq(HonestAction)
           /\ OwedBy((r1 \o <<>> \o r2) \o p, n)
           /\ OwedBy((r1 \o <<e>> \o r2) \o p, n + Owes(e))
           /\ OwedBy((<<>> \o r1 \o r2) \o p, n)
           /\ OwedBy((<<e>> \o r1 \o r2) \o p, n + Owes(e))
<1>1. /\ r1 \in Seq(HonestAction) /\ r2 \in Seq(HonestAction)
      /\ <<e>> \in Seq(HonestAction) /\ <<>> \in Seq(HonestAction)
  BY QuietIsHonest
<1>2. /\ (r1 \o <<>> \o r2) \o p = r1 \o (r2 \o p)
      /\ (<<>> \o r1 \o r2) \o p = r1 \o (r2 \o p)
      /\ (r1 \o <<e>> \o r2) \o p = r1 \o (<<e>> \o (r2 \o p))
      /\ (<<e>> \o r1 \o r2) \o p = <<e>> \o (r1 \o (r2 \o p))
  <2>1. /\ r1 \o <<>> = r1 /\ <<>> \o r1 = r1
        /\ (r1 \o r2) \o p = r1 \o (r2 \o p)
    BY <1>1, ConcatAssociative, ConcatEmptySeq, SMTT(20)
  <2>2. (r1 \o <<e>> \o r2) \o p = r1 \o (<<e>> \o (r2 \o p))
    <3>1. r1 \o <<e>> \in Seq(HonestAction) /\ r2 \o p \in Seq(HonestAction)
      BY <1>1, ConcatProperties
    <3>2. ((r1 \o <<e>>) \o r2) \o p = (r1 \o <<e>>) \o (r2 \o p)
      BY <1>1, <3>1, ConcatAssociative, SMTT(20)
    <3>3. (r1 \o <<e>>) \o (r2 \o p) = r1 \o (<<e>> \o (r2 \o p))
      BY <1>1, <3>1, ConcatAssociative, SMTT(20)
    <3> QED
      BY <3>2, <3>3
  <2>3. (<<e>> \o r1 \o r2) \o p = <<e>> \o (r1 \o (r2 \o p))
    <3>1. <<e>> \o r1 \in Seq(HonestAction) /\ r2 \o p \in Seq(HonestAction)
      BY <1>1, ConcatProperties
    <3>2. ((<<e>> \o r1) \o r2) \o p = (<<e>> \o r1) \o (r2 \o p)
      BY <1>1, <3>1, ConcatAssociative, SMTT(20)
    <3>3. (<<e>> \o r1) \o (r2 \o p) = <<e>> \o (r1 \o (r2 \o p))
      BY <1>1, <3>1, ConcatAssociative, SMTT(20)
    <3> QED
      BY <3>2, <3>3
  <2> QED
    BY <2>1, <2>2, <2>3
<1>3. /\ Owes(e) \in Nat
      /\ r2 \o p \in Seq(HonestAction) /\ r1 \o (r2 \o p) \in Seq(HonestAction)
      /\ <<e>> \o (r2 \o p) \in Seq(HonestAction)
  BY <1>1, OwesType, ConcatProperties
<1>4. OwedBy(r2 \o p, n) /\ OwedBy(r1 \o (r2 \o p), n)
  BY <1>3, OwedAfterQuiet
<1>5. OwedBy(<<e>> \o (r1 \o (r2 \o p)), n + Owes(e))
  BY <1>3, <1>4, OwedAfterPayment
<1>6. OwedBy(r1 \o (<<e>> \o (r2 \o p)), n + Owes(e))
  <2>1. OwedBy(<<e>> \o (r2 \o p), n + Owes(e))
    BY <1>3, <1>4, OwedAfterPayment
  <2>2. n + Owes(e) \in Nat
    BY <1>3
  <2> QED
    BY <1>3, <2>1, <2>2, OwedAfterQuiet
<1> QED
  BY <1>1, <1>2, <1>4, <1>5, <1>6, ConcatProperties

\* What is owed once the first pending action is executed.
LEMMA OwedByRest ==
    ASSUME PegInv, pending # <<>>
    PROVE  /\ Head(pending) \in HonestAction
           /\ Tail(pending) \in Seq(HonestAction)
           /\ \E rest \in Nat : /\ OwedBy(Tail(pending), rest)
                              /\ PegWhenOwing(rest + Owes(Head(pending)))
<1>1. PICK owed \in Nat : OwedBy(pending, owed) /\ PegWhenOwing(owed)
  BY DEF PegInv
<1>2. /\ Head(pending) \in HonestAction
      /\ Tail(pending) \in Seq(HonestAction)
      /\ Owes(Head(pending)) \in Nat
  BY OwesType DEF PegInv
<1>3. /\ owed - Owes(Head(pending)) \in Nat
      /\ OwedBy(Tail(pending), owed - Owes(Head(pending)))
  BY <1>1, <1>2, OwedByTail
<1>4. owed - Owes(Head(pending)) + Owes(Head(pending)) = owed
  BY <1>2
<1> QED
  BY <1>1, <1>2, <1>3, <1>4

\* An action that leaves the contract with what it then owes preserves the peg,
\* and when nothing is pending any more the committed tables are balanced.
LEMMA PegAfterDone ==
    ASSUME PegInv, pending # <<>>, TypeOK',
           NEW inlines \in Seq(HonestAction), Done(inlines),
           NEW owed \in Nat, OwedBy(inlines \o Tail(pending), owed), PegWhenOwing(owed)'
    PROVE  PegInv'
<1>1. pending' = inlines \o Tail(pending) /\ pending' \in Seq(HonestAction)
  BY OwedByRest, ConcatProperties DEF Done
<1>2. Backed'
  <2>1. CASE pending' # <<>>
    BY <2>1 DEF Done, PegInv, Backed
  <2>2. CASE pending' = <<>>
    <3>1. owed = 0
      BY <1>1, <2>2, OwedByNothing
    <3>2. saved' = Tables'
      BY <2>2 DEF Done
    <3>3. eos'[Self] = supply' - xyz'[Self] + donated' + 0
      BY <3>1 DEF PegWhenOwing
    <3>4. supply' \in Nat /\ xyz'[Self] \in Nat /\ donated' \in Nat
      BY NamesAssumption DEF TypeOK
    <3>5. eos'[Self] = supply' - xyz'[Self] + donated'
      BY <3>3, <3>4
    <3> QED
      BY <3>2, <3>5 DEF Backed, Tables
  <2> QED
    BY <2>1, <2>2
<1>3. OwedBy(pending', owed)
  BY <1>1
<1> QED
  BY <1>1, <1>2, <1>3 DEF PegInv, OwedBy, IsTally, Owes, IsTransfer

LEMMA EosTransferKeepsPeg ==
    ASSUME PegInv, pending # <<>>, NEW a \in Action, a = Head(pending), EosTransfer(a)
    PROVE  PegInv'
<1>1. PICK rest \in Nat : OwedBy(Tail(pending), rest) /\ PegWhenOwing(rest + Owes(a))
  BY OwedByRest
<1>2. PICK rf \in Replies(a.from, a), rt \in Replies(a.to, a) :
          Done(rf \o OnTransfer(a) \o rt)
  BY DEF EosTransfer
<1>3. /\ a \in HonestAction /\ a \in Action /\ Tail(pending) \in Seq(HonestAction)
      /\ a.kind = "eosio.token::transfer" /\ a.from \in Name /\ a.to \in Name
      /\ a.from \in a.auth /\ a.from # a.to /\ a.amt \in Int /\ a.amt > 0
  BY OwedByRest DEF HonestAction, EosTransfer, EosTransferOk, Action
<1>4. rf \in Seq(QuietAction) /\ rt \in Seq(QuietAction)
  BY <1>3, RepliesQuiet
<1>5. TypeOK /\ TypeOK'
  BY <1>3, EosTransferType DEF PegInv
<1>6. Owes(a) = IF a.from = Self THEN a.amt ELSE 0
  BY <1>3 DEF Owes, IsTransfer, HonestAction
<1>7. /\ eos[Self] = supply - xyz[Self] + donated + (rest + Owes(a))
      /\ supply' = supply /\ xyz' = xyz /\ Self \in Name
      /\ eos[Self] \in Int /\ supply \in Int /\ xyz[Self] \in Int /\ donated \in Int
  BY <1>1, <1>5, NamesAssumption DEF PegWhenOwing, EosTransfer, TypeOK
<1>8. CASE SwapsEos(a)
  <2> DEFINE e == Inline(a, "transfer", Self, a.from, "XYZ", a.amt, {Self})
  <2>1. e \in HonestAction /\ Owes(e) = a.amt
    <3>1. e \in Action
      BY <1>3, <1>7, InlineType DEF Kinds, Symbols
    <3> QED
      BY <1>3, <3>1 DEF HonestAction, Owes, IsTransfer, Inline
  <2>2. OnTransfer(a) = <<e>>
    BY <1>8 DEF OnTransfer, SwapsEos
  <2>3. /\ rf \o <<e>> \o rt \in Seq(HonestAction)
        /\ OwedBy((rf \o <<e>> \o rt) \o Tail(pending), rest + a.amt)
    BY <1>1, <1>3, <1>4, <2>1, OwedAfterInlines
  <2>4. eos'[Self] = eos[Self] + a.amt /\ donated' = donated /\ Owes(a) = 0
    <3>1. a.sym = "EOS" /\ a.to = Self /\ a.from # Self
      BY <1>8 DEF EosTransfer, EosTransferOk, OnTransferOk, SwapsEos
    <3> QED
      BY <1>3, <1>5, <1>6, <1>7, <1>8, <3>1 DEF EosTransfer, TypeOK
  <2>5. PegWhenOwing(rest + a.amt)'
    <3>1. eos[Self] = supply - xyz[Self] + donated + rest
      BY <1>1, <1>7, <2>4
    <3>2. eos[Self] + a.amt = supply - xyz[Self] + donated + (rest + a.amt)
      BY <1>1, <1>3, <1>7, <3>1
    <3> QED
      BY <1>7, <2>4, <3>2 DEF PegWhenOwing
  <2>6. rest + a.amt \in Nat
    BY <1>3
  <2> QED
    BY <1>2, <1>5, <2>2, <2>3, <2>5, <2>6, PegAfterDone
<1>9. CASE ~SwapsEos(a)
  <2>1. OnTransfer(a) = <<>>
    BY <1>9 DEF OnTransfer
  <2>2. /\ rf \o <<>> \o rt \in Seq(HonestAction)
        /\ OwedBy((rf \o <<>> \o rt) \o Tail(pending), rest)
    BY <1>1, <1>3, <1>4, OwedAfterInlines
  <2>3. eos'[Self] - donated' = eos[Self] - donated - Owes(a)
    <3>1. CASE a.sym # "EOS"
      <4>1. a.from # Self
        BY <1>3, <3>1 DEF HonestAction
      <4>2. eos' = eos /\ donated' = donated
        BY <3>1 DEF EosTransfer
      <4> QED
        BY <1>6, <1>7, <4>1, <4>2
    <3>2. CASE a.sym = "EOS" /\ a.from = Self
      <4>1. eos'[Self] = eos[Self] - a.amt /\ donated' = donated
        BY <1>3, <1>5, <1>7, <3>2 DEF EosTransfer, TypeOK
      <4> QED
        BY <1>3, <1>6, <1>7, <3>2, <4>1
    <3>3. CASE a.sym = "EOS" /\ a.from # Self /\ a.to = Self
      <4>1. eos'[Self] = eos[Self] + a.amt /\ donated' = donated + a.amt
        BY <1>3, <1>5, <1>7, <1>9, <3>3 DEF EosTransfer, TypeOK
      <4> QED
        BY <1>3, <1>6, <1>7, <3>3, <4>1
    <3>4. CASE a.sym = "EOS" /\ a.from # Self /\ a.to # Self
      <4>1. eos'[Self] = eos[Self] /\ donated' = donated
        BY <1>3, <1>5, <1>7, <3>4 DEF EosTransfer, TypeOK
      <4> QED
        BY <1>6, <1>7, <3>4, <4>1
    <3> QED
      BY <3>1, <3>2, <3>3, <3>4
  <2>4. eos'[Self] \in Int /\ donated' \in Int /\ Owes(a) \in Int
    BY <1>3, <1>5, <1>6, <1>7 DEF TypeOK
  <2>5. PegWhenOwing(rest)'
    <3>1. eos[Self] - donated - Owes(a) = supply - xyz[Self] + rest
      <4>1. /\ eos[Self] \in Int /\ supply \in Int /\ xyz[Self] \in Int /\ donated \in Int
            /\ rest \in Int /\ Owes(a) \in Int
            /\ eos[Self] = supply - xyz[Self] + donated + (rest + Owes(a))
        BY <1>1, <1>7, <2>4
      <4> QED
        BY <4>1
    <3>2. eos'[Self] - donated' = supply - xyz[Self] + rest
      BY <2>3, <3>1
    <3>3. supply - xyz[Self] + rest \in Int
      BY <1>1, <1>7
    <3>4. eos'[Self] = (supply - xyz[Self] + rest) + donated'
      BY <2>4, <3>2, <3>3
    <3>5. (supply - xyz[Self] + rest) + donated' = supply - xyz[Self] + donated' + rest
      BY <1>1, <1>7, <2>4
    <3> QED
      BY <1>7, <3>4, <3>5 DEF PegWhenOwing
  <2> QED
    BY <1>2, <1>5, <2>1, <2>2, <2>5, PegAfterDone
<1> QED
  BY <1>8, <1>9

LEMMA TransferKeepsPeg ==
    ASSUME PegInv, pending # <<>>, NEW a \in Action, a = Head(pending), Transfer(a)
    PROVE  PegInv'
<1> DEFINE pay == IF a.to = Self THEN CreditEos(a, a.from, a.amt) ELSE <<>>
           e == Inline(a, "eosio.token::transfer", Self, a.from, "EOS", a.amt, {Self})
<1>1. PICK rest \in Nat : OwedBy(Tail(pending), rest) /\ PegWhenOwing(rest + Owes(a))
  BY OwedByRest
<1>2. PICK rf \in Replies(a.from, a), rt \in Replies(a.to, a) : Done(pay \o rf \o rt)
  BY DEF Transfer
<1>3. /\ a \in HonestAction /\ a \in Action /\ Tail(pending) \in Seq(HonestAction)
      /\ a.kind = "transfer" /\ a.from \in Name /\ a.to \in Name
      /\ a.from \in a.auth /\ a.from # a.to /\ a.amt \in Int /\ a.amt > 0
  BY OwedByRest DEF HonestAction, Transfer, TransferOk, Action
<1>4. rf \in Seq(QuietAction) /\ rt \in Seq(QuietAction)
  BY <1>3, RepliesQuiet
<1>5. TypeOK /\ TypeOK'
  BY <1>3, TransferType DEF PegInv
<1>6. Owes(a) = IF a.from = Self THEN a.amt ELSE 0
  BY <1>3 DEF Owes, IsTransfer, HonestAction
<1>7. /\ eos[Self] = supply - xyz[Self] + donated + (rest + Owes(a))
      /\ eos' = eos /\ supply' = supply /\ donated' = donated
      /\ xyz' = [xyz EXCEPT ![a.from] = @ - a.amt, ![a.to] = @ + a.amt]
      /\ xyz \in [Name -> Nat] /\ Self \in Name
      /\ eos[Self] \in Int /\ supply \in Int /\ xyz[Self] \in Int /\ donated \in Int
  BY <1>1, <1>5, NamesAssumption DEF PegWhenOwing, Transfer, MoveXyz, TypeOK
<1>8. CASE a.to = Self
  <2>1. e \in HonestAction /\ Owes(e) = a.amt
    <3>1. e \in Action
      BY <1>3, <1>7, InlineType DEF Kinds, Symbols
    <3> QED
      BY <1>3, <3>1 DEF HonestAction, Owes, IsTransfer, Inline
  <2>2. pay = <<e>>
    BY <1>8 DEF CreditEos
  <2>3. /\ <<e>> \o rf \o rt \in Seq(HonestAction)
        /\ OwedBy((<<e>> \o rf \o rt) \o Tail(pending), rest + a.amt)
    BY <1>1, <1>3, <1>4, <2>1, OwedAfterInlines
  <2>4. xyz'[Self] = xyz[Self] + a.amt /\ Owes(a) = 0
    BY <1>3, <1>6, <1>7, <1>8
  <2>5. PegWhenOwing(rest + a.amt)'
    BY <1>3, <1>7, <2>4 DEF PegWhenOwing
  <2>6. rest + a.amt \in Nat
    BY <1>3
  <2> QED
    BY <1>2, <1>5, <2>2, <2>3, <2>5, <2>6, PegAfterDone
<1>9. CASE a.to # Self
  <2>1. pay = <<>>
    BY <1>9
  <2>2. /\ <<>> \o rf \o rt \in Seq(HonestAction)
        /\ OwedBy((<<>> \o rf \o rt) \o Tail(pending), rest)
    <3>1. \E x : x \in HonestAction
      BY <1>3
    <3> QED
      BY <1>1, <1>3, <1>4, <3>1, OwedAfterInlines
  <2>3. xyz'[Self] = xyz[Self] - Owes(a)
    BY <1>3, <1>6, <1>7, <1>9
  <2>4. PegWhenOwing(rest)'
    <3>1. Owes(a) \in Int
      BY <1>3, <1>6
    <3>2. eos[Self] = supply - xyz'[Self] + donated + rest
      BY <1>1, <1>7, <2>3, <3>1
    <3> QED
      BY <1>7, <3>2 DEF PegWhenOwing
  <2> QED
    BY <1>2, <1>5, <2>1, <2>2, <2>4, PegAfterDone
<1> QED
  BY <1>8, <1>9

LEMMA RowActionsKeepPeg ==
    ASSUME PegInv, pending # <<>>, NEW a \in Action, a = Head(pending),
           Open(a) \/ Close(a) \/ InitToken(a) \/ SwapTo(a) \/ BlockSwapTo(a)
    PROVE  PegInv'
<1>1. PICK rest \in Nat : OwedBy(Tail(pending), rest) /\ PegWhenOwing(rest + Owes(a))
  BY OwedByRest
<1>2. /\ TypeOK /\ TypeOK' /\ a \in HonestAction /\ Tail(pending) \in Seq(HonestAction)
      /\ Self \in Name /\ a.from \in Name /\ a.to \in Name /\ a.amt \in Int
  BY OwedByRest, RowActionsType, NamesAssumption DEF PegInv, Action
<1>3. PegWhenOwing(rest)
  <2>1. Owes(a) = 0
    BY DEF Owes, IsTransfer, Open, Close, InitToken, SwapTo, BlockSwapTo
  <2>2. rest + Owes(a) = rest
    BY <1>1, <2>1
  <2> QED
    BY <1>1, <2>2
<1>4. PegWhenOwing(rest)'
  <2>1. /\ supply \in Int /\ donated \in Int /\ xyz \in [Name -> Nat]
        /\ eos[Self] = supply - xyz[Self] + donated + rest
    BY <1>2, <1>3 DEF PegWhenOwing, TypeOK
  <2>2. CASE InitToken(a)
    <3>1. supply' = a.amt /\ supply = 0 /\ xyz'[Self] = xyz[Self] + a.amt
      BY <1>2, <2>1, <2>2 DEF InitToken, InitTokenOk
    <3>2. supply' - xyz'[Self] = supply - xyz[Self]
      BY <1>2, <2>1, <3>1
    <3> QED
      BY <2>1, <2>2, <3>2 DEF PegWhenOwing, InitToken
  <2>3. CASE Close(a)
    <3>1. xyz'[Self] = xyz[Self]
      BY <1>2, <2>1, <2>3 DEF Close, CloseOk
    <3> QED
      BY <2>1, <2>3, <3>1 DEF PegWhenOwing, Close
  <2>4. CASE Open(a) \/ SwapTo(a) \/ BlockSwapTo(a)
    BY <2>1, <2>4 DEF PegWhenOwing, Open, SwapTo, BlockSwapTo, tables
  <2> QED
    BY <2>2, <2>3, <2>4
<1>5. ASSUME Done(<<>>) PROVE PegInv'
  <2>1. <<>> \in Seq(QuietAction) /\ <<>> \in Seq(HonestAction)
    OBVIOUS
  <2>2. OwedBy(<<>> \o Tail(pending), rest)
    BY <1>1, <1>2, <2>1, OwedAfterQuiet, HonestIsAction
  <2> QED
    BY <1>2, <1>4, <1>5, <2>1, <2>2, PegAfterDone
<1>6. CASE SwapTo(a)
  <2>1. SwapToInlines(a) \in Seq(QuietAction)
    <3>1. a.from # Self
      BY <1>2, <1>6 DEF SwapTo, SwapToOk, HonestAction
    <3>2. /\ Inline(a, "eosio.token::transfer", a.from, Self, "EOS", a.amt, {a.from}) \in QuietAction
          /\ Inline(a, "transfer", a.from, a.to, "XYZ", a.amt, {a.from}) \in QuietAction
          /\ Inline(a, "transfer", a.from, Self, "XYZ", a.amt, {a.from}) \in QuietAction
          /\ Inline(a, "eosio.token::transfer", a.from, a.to, "EOS", a.amt, {a.from})
                 \in QuietAction
      BY <3>1, SwapToSends DEF Inline, QuietAction, HonestAction, Owes, IsTransfer
    <3> QED
      BY <3>2 DEF SwapToInlines
  <2>2. SwapToInlines(a) \in Seq(HonestAction)
    BY <2>1, QuietIsHonest
  <2>3. OwedBy(SwapToInlines(a) \o Tail(pending), rest)
    BY <1>1, <1>2, <2>1, OwedAfterQuiet, HonestIsAction
  <2>4. Done(SwapToInlines(a))
    BY <1>6 DEF SwapTo
  <2> QED
    BY <1>1, <1>2, <1>4, <2>2, <2>3, <2>4, PegAfterDone
<1> QED
  BY <1>5, <1>6 DEF Open, Close, InitToken, BlockSwapTo

LEMMA RollbackKeepsPeg == ASSUME PegInv, Rollback PROVE PegInv'
<1>1. TypeOK' /\ pending' = <<>> /\ saved' = saved
  BY RollbackType DEF PegInv, Rollback
<1>2. PegWhenOwing(0)'
  <2>1. eos'[Self] = supply' - xyz'[Self] + donated'
    BY DEF PegInv, Backed, Rollback
  <2>2. supply' - xyz'[Self] + donated' = supply' - xyz'[Self] + donated' + 0
    BY <1>1, NamesAssumption DEF TypeOK
  <2> QED
    BY <2>1, <2>2 DEF PegWhenOwing
<1>3. OwedBy(pending', 0) /\ pending' \in Seq(HonestAction)
  BY <1>1, OwedByNothing
<1> QED
  BY <1>1, <1>2, <1>3 DEF PegInv, Backed, OwedBy, IsTally, Owes, IsTransfer

LEMMA BeginKeepsPeg ==
    ASSUME PegInv, NEW tx \in Transactions, Begin(tx) PROVE PegInv'
<1>1. TypeOK' /\ pending = <<>> /\ pending' = tx /\ UNCHANGED <<tables, saved>>
  BY BeginType DEF PegInv, Begin
<1>2. tx \in Seq(QuietAction) /\ tx \in Seq(HonestAction) /\ tx \in Seq(Action)
  BY TransactionsAssumption, UserActionsAreQuiet, QuietIsHonest, HonestIsAction
<1>3. PICK owed \in Nat : OwedBy(<<>>, owed) /\ PegWhenOwing(owed)
  BY <1>1 DEF PegInv
<1>4. OwedBy(tx, owed)
  <2>1. <<>> \in Seq(HonestAction)
    OBVIOUS
  <2>2. OwedBy(tx \o <<>>, owed)
    BY <1>2, <1>3, <2>1, OwedAfterQuiet
  <2> QED
    BY <1>2, <2>2, ConcatEmptySeq
<1>5. PegWhenOwing(owed)'
  BY <1>1, <1>3 DEF PegWhenOwing, tables
<1> QED
  BY <1>1, <1>2, <1>4, <1>5 DEF PegInv, Backed, OwedBy, IsTally, Owes, IsTransfer

LEMMA PegInductive == PegInv /\ [Next]_vars => PegInv'
<1> SUFFICES ASSUME PegInv, [Next]_vars PROVE PegInv'
  OBVIOUS
<1>1. TypeOK
  BY DEF PegInv
<1>2. ASSUME pending # <<>>, NEW a \in Action, a = Head(pending), Execute(a) PROVE PegInv'
  BY <1>2, EosTransferKeepsPeg, TransferKeepsPeg, RowActionsKeepPeg DEF Execute
<1>3. CASE UNCHANGED vars
  <2>1. TypeOK'
    BY <1>1, <1>3 DEF TypeOK, vars, tables
  <2>2. pending' = pending /\ saved' = saved /\ UNCHANGED tables
    BY <1>3 DEF vars
  <2> QED
    BY <2>1, <2>2 DEF PegInv, Backed, PegWhenOwing, tables
<1> QED
  BY <1>1, <1>2, <1>3, StepCases, RollbackKeepsPeg, BeginKeepsPeg

LEMMA PegAtFirst == Init => PegInv
<1> SUFFICES ASSUME Init PROVE PegInv
  OBVIOUS
<1>1. TypeOK /\ Backed
  BY NamesAssumption, EosAssumption DEF Init, TypeOK, Database, Tables, Backed
<1>2. PegWhenOwing(0)
  BY NamesAssumption, EosAssumption DEF Init, PegWhenOwing
<1>3. OwedBy(pending, 0) /\ pending \in Seq(HonestAction)
  BY OwedByNothing DEF Init
<1> QED
  BY <1>1, <1>2, <1>3 DEF PegInv

\* Whatever users push and however their code calls the contract back in the
\* middle of a swap, the committed tables hold one EOS in the contract for every
\* XYZ outside it, besides the EOS it got without a swap.
THEOREM PegHolds == Spec => []Backed
<1>1. PegInv => Backed
  BY DEF PegInv
<1> QED
  BY <1>1, PegAtFirst, PegInductive, PTL DEF Spec

-----------------------------------------------------------------------------
(* RAM                                                                     *)

\* A row is marked released exactly when its owner pays for it: in the tables and
\* in those a rollback restores.
RamInv ==
    /\ TypeOK
    /\ ReleasedIffOwnerPays
    /\ \A n \in Name \ {Self} :
           saved.payer[n] # NoPayer => (saved.released[n] <=> saved.payer[n] = n)

\* A step that executes an action moves the payer of a row only to one who has
\* authorised the action, or to the contract, or to none.
LEMMA PayerStep ==
    ASSUME TypeOK, NEW a \in Action, Execute(a), NEW n \in Name
    PROVE  /\ payer'[n] \in {payer[n], NoPayer, Self} \cup a.auth
           /\ n # Self /\ payer'[n] # payer[n] /\ payer'[n] # NoPayer
                  => (released'[n] <=> payer'[n] = n)
           /\ n # Self /\ payer'[n] = payer[n] /\ HasRow(n)
                  => released'[n] = released[n] \/ (released'[n] /\ payer[n] = n)
<1> /\ a.from \in Name /\ a.to \in Name /\ Self \in Name
    /\ payer \in [Name -> Name \cup {NoPayer}] /\ released \in [Name -> BOOLEAN]
  BY NamesAssumption DEF Action, TypeOK
<1>1. CASE Transfer(a)
  <2>1. /\ a.from \in a.auth /\ a.from # a.to /\ HasRow(a.from)
        /\ MoveXyz(a.from, a.to, a.amt, IF a.to \in a.auth THEN a.to ELSE a.from)
    BY <1>1 DEF Transfer, TransferOk, CanDebit
  <2> QED
    BY <2>1, NamesAssumption
       DEF MoveXyz, PayerOfCredit, ReleasedOnCredit, HasRow
<1>2. CASE Open(a)
  BY <1>2, NamesAssumption DEF Open, OpenOk, HasRow
<1>3. CASE Close(a)
  BY <1>3, NamesAssumption DEF Close, HasRow
<1>4. CASE InitToken(a)
  BY <1>4 DEF InitToken, PayerOfCredit, ReleasedOnCredit, HasRow
<1>5. CASE EosTransfer(a) \/ SwapTo(a) \/ BlockSwapTo(a)
  <2>1. payer' = payer /\ released' = released
    BY <1>5 DEF EosTransfer, SwapTo, BlockSwapTo, tables
  <2> QED
    BY <2>1
<1> QED
  BY <1>1, <1>2, <1>3, <1>4, <1>5 DEF Execute

LEMMA RamInductive == RamInv /\ [Next]_vars => RamInv'
<1> SUFFICES ASSUME RamInv, [Next]_vars PROVE RamInv'
  OBVIOUS
<1>1. TypeOK /\ TypeOK'
  BY TypeInductive DEF RamInv
<1>2. ASSUME pending # <<>>, NEW a \in Action, Execute(a) PROVE RamInv'
  <2>1. ReleasedIffOwnerPays'
    BY <1>1, <1>2, PayerStep DEF RamInv, ReleasedIffOwnerPays, HasRow
  <2>2. saved' = saved \/ saved' = Tables'
    BY <1>2 DEF Execute, EosTransfer, Transfer, Open, Close, InitToken, SwapTo,
                BlockSwapTo, Done
  <2> QED
    BY <1>1, <2>1, <2>2 DEF RamInv, ReleasedIffOwnerPays, HasRow, Tables
<1>3. CASE Rollback
  BY <1>1, <1>3 DEF RamInv, ReleasedIffOwnerPays, HasRow, Rollback
<1>4. CASE UNCHANGED <<payer, released, saved>>
  BY <1>1, <1>4 DEF RamInv, ReleasedIffOwnerPays, HasRow
<1> QED
  BY <1>1, <1>2, <1>3, <1>4, StepCases DEF Begin, vars, tables

\* Field released is right about every row but the contract's own: sub_balance
\* re-creates the rows that others pay for, and no others.
THEOREM ReleasedIsRight == Spec => []ReleasedIffOwnerPays
<1>1. Init => RamInv
  BY NamesAssumption, EosAssumption
     DEF Init, RamInv, TypeOK, Database, Tables, ReleasedIffOwnerPays, HasRow
<1>2. RamInv => ReleasedIffOwnerPays
  BY DEF RamInv
<1> QED
  BY <1>1, <1>2, RamInductive, PTL DEF Spec

\* No step of the privileged contract bills the RAM of a row to an account that
\* has not authorised the action.
THEOREM RamIsBilledWithConsent == Spec => RamBilledWithConsent
<1>1. TypeOK /\ [Next]_vars =>
          [Run => \A n \in Name :
              payer'[n] \in {payer[n], NoPayer, Self} \cup Head(pending).auth]_vars
  BY HeadType, PayerStep DEF Run
<1> QED
  BY <1>1, TypeCorrect, PTL DEF Spec, RamBilledWithConsent

-----------------------------------------------------------------------------
(* Who pays                                                                *)

\* The accounts whose authority the running transaction has.
Entitled == signers \cup Coded \cup {Self}

SignedBy(E) == {a \in Action : a.auth \subseteq E}

\* Nobody else has lost anything since the transaction began.
NobodyElsePaid ==
    \A n \in Name \ Entitled : eos[n] >= saved.eos[n] /\ xyz[n] >= saved.xyz[n]

SignersInv ==
    /\ TypeOK
    /\ pending \in Seq(SignedBy(Entitled))
    /\ NobodyElsePaid
    /\ pending = <<>> => eos = saved.eos /\ xyz = saved.xyz

\* The answers of a handler carry the authority of its account alone.
LEMMA RepliesAuth ==
    ASSUME NEW n \in Name, NEW a \in Action, NEW r \in Replies(n, a),
           NEW i \in 1 .. Len(r)
    PROVE  n \in Coded /\ r[i] \in UserAction /\ r[i].auth = {n}
<1>1. r \in Seq(UserAction) /\ r[i] \in UserAction
  BY RepliesType, ElementOfSeq
<1>2. CASE n \notin Coded
  BY <1>2 DEF Replies
<1>3. CASE n \in Coded
  <2>1. PICK q \in Reactions[n] :
            r = [j \in DOMAIN q |-> [q[j] EXCEPT !.depth = a.depth + 1]]
    BY <1>3 DEF Replies
  <2>2. q \in Seq(UserAction) /\ \A j \in DOMAIN q : q[j].auth = {n}
    BY <1>3, ReactionsAssumption
  <2>3. i \in DOMAIN q /\ r[i] = [q[i] EXCEPT !.depth = a.depth + 1]
    BY <1>1, <2>1, LenProperties
  <2>4. q[i] \in Action
    BY <2>2, <2>3, UserActionsAreActions, LenProperties, ElementOfSeq
  <2> QED
    BY <1>1, <1>3, <2>2, <2>3, <2>4 DEF Action
<1> QED
  BY <1>2, <1>3

\* swapto uses no authority but the one it requires.
LEMMA SwapToSigned ==
    ASSUME NEW E \in SUBSET Name, NEW a \in SignedBy(E), a.from \in a.auth
    PROVE  SwapToInlines(a) \in Seq(SignedBy(E))
<1>1. a \in Action /\ a.from \in E
  BY DEF SignedBy
<1>2. /\ Inline(a, "eosio.token::transfer", a.from, Self, "EOS", a.amt, {a.from}) \in SignedBy(E)
      /\ Inline(a, "transfer", a.from, a.to, "XYZ", a.amt, {a.from}) \in SignedBy(E)
      /\ Inline(a, "transfer", a.from, Self, "XYZ", a.amt, {a.from}) \in SignedBy(E)
      /\ Inline(a, "eosio.token::transfer", a.from, a.to, "EOS", a.amt, {a.from}) \in SignedBy(E)
  BY <1>1, SwapToSends DEF SignedBy, Inline
<1> QED
  BY <1>2 DEF SwapToInlines

\* Neither the contract nor a handler lends an inline action an authority that
\* the transaction does not have.
LEMMA InlinesSigned ==
    ASSUME NEW E \in SUBSET Name, Coded \cup {Self} \subseteq E, NEW a \in SignedBy(E),
           a.from \in a.auth,
           NEW rf \in Replies(a.from, a), NEW rt \in Replies(a.to, a)
    PROVE  /\ rf \o OnTransfer(a) \o rt \in Seq(SignedBy(E))
           /\ (IF a.to = Self THEN CreditEos(a, a.from, a.amt) ELSE <<>>) \o rf \o rt
                  \in Seq(SignedBy(E))
<1> /\ Self \in Name /\ a.from \in Name /\ a.to \in Name /\ a.amt \in Int
    /\ a \in Action /\ a.from \in E
  BY NamesAssumption DEF SignedBy, Action
<1>1. ASSUME NEW n \in Name, NEW r \in Replies(n, a) PROVE r \in Seq(SignedBy(E))
  <2>1. r \in Seq(Action) /\ Len(r) \in Nat
    BY <1>1, RepliesType, UserActionsAreActions, LenProperties
  <2>2. ASSUME NEW i \in 1 .. Len(r) PROVE r[i] \in SignedBy(E)
    BY <1>1, <2>1, RepliesAuth, ElementOfSeq DEF SignedBy
  <2> QED
    BY <2>1, <2>2
<1>2. OnTransfer(a) \in Seq(SignedBy(E))
  <2>1. Inline(a, "transfer", Self, a.from, "XYZ", a.amt, {Self}) \in SignedBy(E)
    <3>1. Inline(a, "transfer", Self, a.from, "XYZ", a.amt, {Self}) \in Action
      BY InlineType DEF Kinds, Symbols
    <3> QED
      BY <3>1 DEF SignedBy, Inline
  <2> QED
    BY <2>1 DEF OnTransfer
<1>3. (IF a.to = Self THEN CreditEos(a, a.from, a.amt) ELSE <<>>) \in Seq(SignedBy(E))
  <2>1. Inline(a, "eosio.token::transfer", Self, a.from, "EOS", a.amt, {Self}) \in SignedBy(E)
    <3>1. Inline(a, "eosio.token::transfer", Self, a.from, "EOS", a.amt, {Self}) \in Action
      BY InlineType DEF Kinds, Symbols
    <3> QED
      BY <3>1 DEF SignedBy, Inline
  <2> QED
    BY <2>1 DEF CreditEos
<1>4. rf \in Seq(SignedBy(E)) /\ rt \in Seq(SignedBy(E))
  BY <1>1
<1> QED
  BY <1>2, <1>3, <1>4, ConcatProperties

\* Executing an action takes EOS or XYZ only from one who has authorised it.
LEMMA OnlyAuthorisersPay ==
    ASSUME TypeOK, NEW a \in Action, Execute(a), NEW n \in Name, n \notin a.auth
    PROVE  eos'[n] >= eos[n] /\ xyz'[n] >= xyz[n]
<1> /\ a.from \in Name /\ a.to \in Name /\ a.amt \in Int /\ Self \in Name
    /\ eos \in [Name -> Nat] /\ xyz \in [Name -> Nat]
  BY NamesAssumption DEF Action, TypeOK
<1>1. CASE EosTransfer(a)
  BY <1>1 DEF EosTransfer, EosTransferOk
<1>2. CASE Transfer(a)
  <2>1. eos' = eos /\ a.from # n /\ a.amt > 0
    BY <1>2 DEF Transfer, TransferOk
  <2>2. xyz' = [xyz EXCEPT ![a.from] = @ - a.amt, ![a.to] = @ + a.amt]
    BY <1>2 DEF Transfer, MoveXyz
  <2> QED
    BY <2>1, <2>2
<1>3. CASE Close(a)
  BY <1>3 DEF Close, CloseOk
<1>4. CASE InitToken(a)
  BY <1>4 DEF InitToken, InitTokenOk
<1>5. CASE Open(a) \/ SwapTo(a) \/ BlockSwapTo(a)
  BY <1>5 DEF Open, SwapTo, BlockSwapTo, tables
<1> QED
  BY <1>1, <1>2, <1>3, <1>4, <1>5 DEF Execute

\* What an executed action has sent is signed.
LEMMA SentIsSigned ==
    ASSUME SignersInv, pending # <<>>, NEW a \in Action, a = Head(pending), Execute(a)
    PROVE  /\ pending' \in Seq(SignedBy(Entitled))
           /\ saved' = IF pending' = <<>> THEN Tables' ELSE saved
           /\ signers' = IF pending' = <<>> THEN {} ELSE signers
<1>1. /\ a \in SignedBy(Entitled) /\ Tail(pending) \in Seq(SignedBy(Entitled))
      /\ Entitled \in SUBSET Name /\ Coded \cup {Self} \subseteq Entitled
  BY NamesAssumption, HeadTailProperties DEF SignersInv, TypeOK, Entitled
<1>2. ASSUME NEW s \in Seq(SignedBy(Entitled)), Done(s)
      PROVE  /\ pending' \in Seq(SignedBy(Entitled))
             /\ saved' = IF pending' = <<>> THEN Tables' ELSE saved
             /\ signers' = IF pending' = <<>> THEN {} ELSE signers
  BY <1>1, <1>2, ConcatProperties DEF Done
<1>3. CASE EosTransfer(a)
  <2>1. PICK rf \in Replies(a.from, a), rt \in Replies(a.to, a) :
            Done(rf \o OnTransfer(a) \o rt)
    BY <1>3 DEF EosTransfer
  <2>2. rf \o OnTransfer(a) \o rt \in Seq(SignedBy(Entitled))
    BY <1>1, <1>3, InlinesSigned DEF EosTransfer, EosTransferOk
  <2> QED
    BY <1>2, <2>1, <2>2
<1>4. CASE Transfer(a)
  <2> DEFINE s(rf, rt) ==
          (IF a.to = Self THEN CreditEos(a, a.from, a.amt) ELSE <<>>) \o rf \o rt
  <2>1. PICK rf \in Replies(a.from, a), rt \in Replies(a.to, a) : Done(s(rf, rt))
    BY <1>4 DEF Transfer
  <2>2. s(rf, rt) \in Seq(SignedBy(Entitled))
    BY <1>1, <1>4, InlinesSigned DEF Transfer, TransferOk
  <2> HIDE DEF s
  <2> QED
    BY <1>2, <2>1, <2>2
<1>5. CASE SwapTo(a)
  <2>1. Done(SwapToInlines(a)) /\ a.from \in a.auth
    BY <1>5 DEF SwapTo, SwapToOk
  <2>2. SwapToInlines(a) \in Seq(SignedBy(Entitled))
    BY <1>1, <2>1, SwapToSigned
  <2> QED
    BY <1>2, <2>1, <2>2
<1>6. CASE Open(a) \/ Close(a) \/ InitToken(a) \/ BlockSwapTo(a)
  <2>1. <<>> \in Seq(SignedBy(Entitled)) /\ Done(<<>>)
    BY <1>6 DEF Open, Close, InitToken, BlockSwapTo
  <2> QED
    BY <1>2, <2>1
<1> QED
  BY <1>3, <1>4, <1>5, <1>6 DEF Execute

\* The authority of an action that is executed is part of the transaction's.
LEMMA HeadIsSigned ==
    ASSUME SignersInv, pending # <<>> PROVE Head(pending).auth \subseteq Entitled
  BY DEF SignersInv, SignedBy

LEMMA SignersInductive == SignersInv /\ [Next]_vars => SignersInv'
<1> SUFFICES ASSUME SignersInv, [Next]_vars PROVE SignersInv'
  OBVIOUS
<1>1. TypeOK /\ TypeOK'
  BY TypeInductive DEF SignersInv
<1>2. ASSUME pending # <<>>, NEW a \in Action, a = Head(pending), Execute(a)
      PROVE  SignersInv'
  <2>1. /\ pending' \in Seq(SignedBy(Entitled))
        /\ saved' = IF pending' = <<>> THEN Tables' ELSE saved
        /\ signers' = IF pending' = <<>> THEN {} ELSE signers
    BY <1>2, SentIsSigned
  <2>2. CASE pending' = <<>>
    <3>1. eos' = saved'.eos /\ xyz' = saved'.xyz
      BY <2>1, <2>2 DEF Tables
    <3>2. NobodyElsePaid'
      BY <1>1, <3>1 DEF NobodyElsePaid, TypeOK
    <3>3. pending' \in Seq(SignedBy(Entitled)')
      BY <2>2
    <3> QED
      BY <1>1, <3>1, <3>2, <3>3 DEF SignersInv, SignedBy
  <2>3. CASE pending' # <<>>
    <3>1. Entitled' = Entitled /\ saved' = saved
      BY <2>1, <2>3 DEF Entitled
    <3>2. ASSUME NEW n \in Name \ Entitled
          PROVE  eos'[n] >= saved.eos[n] /\ xyz'[n] >= saved.xyz[n]
      <4>1. n \notin a.auth
        BY <1>2, HeadIsSigned
      <4>2. eos'[n] >= eos[n] /\ xyz'[n] >= xyz[n]
        BY <1>1, <1>2, <4>1, OnlyAuthorisersPay
      <4>3. eos[n] >= saved.eos[n] /\ xyz[n] >= saved.xyz[n]
        BY DEF SignersInv, NobodyElsePaid
      <4>4. /\ eos[n] \in Int /\ xyz[n] \in Int /\ eos'[n] \in Int /\ xyz'[n] \in Int
            /\ saved.eos[n] \in Int /\ saved.xyz[n] \in Int
        BY <1>1 DEF TypeOK, Database
      <4> QED
        BY <4>2, <4>3, <4>4
    <3>3. NobodyElsePaid'
      BY <3>1, <3>2 DEF NobodyElsePaid
    <3> QED
      BY <1>1, <2>1, <2>3, <3>1, <3>3 DEF SignersInv, SignedBy
  <2> QED
    BY <2>2, <2>3
<1>3. CASE Rollback
  <2>1. pending' = <<>> /\ eos' = saved'.eos /\ xyz' = saved'.xyz
    BY <1>3 DEF Rollback
  <2>2. NobodyElsePaid'
    BY <1>1, <2>1 DEF NobodyElsePaid, TypeOK
  <2> QED
    BY <1>1, <2>1, <2>2 DEF SignersInv
<1>4. ASSUME NEW tx \in Transactions, Begin(tx) PROVE SignersInv'
  <2>1. /\ pending = <<>> /\ pending' = tx /\ eos' = eos /\ xyz' = xyz /\ saved' = saved
        /\ signers' = UNION {tx[i].auth : i \in DOMAIN tx}
    BY <1>4 DEF Begin, tables
  <2>2. tx \in Seq(Action) /\ tx # <<>>
    BY TransactionsAssumption, UserActionsAreActions
  <2>3. ASSUME NEW i \in 1 .. Len(tx) PROVE tx[i] \in SignedBy(Entitled')
    <3>1. i \in DOMAIN tx /\ tx[i] \in Action
      BY <2>2, LenProperties, ElementOfSeq
    <3>2. tx[i].auth \subseteq signers'
      BY <2>1, <3>1
    <3> QED
      BY <3>1, <3>2 DEF SignedBy, Entitled
  <2>4. tx \in Seq(SignedBy(Entitled'))
    BY <2>2, <2>3
  <2>5. NobodyElsePaid'
    BY <1>1, <2>1 DEF SignersInv, NobodyElsePaid, TypeOK, Database
  <2> QED
    BY <1>1, <2>1, <2>2, <2>4, <2>5 DEF SignersInv, SignedBy
<1>5. CASE UNCHANGED vars
  BY <1>1, <1>5 DEF SignersInv, NobodyElsePaid, Entitled, SignedBy, vars, tables
<1> QED
  BY <1>1, <1>2, <1>3, <1>4, <1>5, StepCases

\* No account loses EOS or XYZ in a transaction that it has not signed, unless its
\* own code answered a notification; in particular the authority of `from` that
\* swapto hands on, and the contract's own, are never used on anyone else.
THEOREM NobodyElsePays == Spec => OnlySignersPay
<1>1. Init => SignersInv
  <2> SUFFICES ASSUME Init PROVE SignersInv
    OBVIOUS
  <2>1. TypeOK
    BY NamesAssumption, EosAssumption DEF Init, TypeOK, Database, Tables
  <2>2. eos = saved.eos /\ xyz = saved.xyz /\ pending = <<>>
    BY DEF Init, Tables
  <2> QED
    BY <2>1, <2>2 DEF SignersInv, NobodyElsePaid, TypeOK
<1>2. SignersInv /\ [Next]_vars =>
          [\A n \in Name \ ({Self} \cup Coded \cup signers) :
              /\ saved'.eos[n] >= saved.eos[n]
              /\ saved'.xyz[n] >= saved.xyz[n]]_vars
  <2> SUFFICES ASSUME SignersInv, [Next]_vars, NEW n \in Name \ Entitled
               PROVE  saved'.eos[n] >= saved.eos[n] /\ saved'.xyz[n] >= saved.xyz[n]
    BY DEF Entitled
  <2>1. TypeOK /\ saved.eos[n] \in Int /\ saved.xyz[n] \in Int
    <3>1. TypeOK /\ saved.eos \in [Name -> Nat] /\ saved.xyz \in [Name -> Nat]
      BY DEF SignersInv, TypeOK, Database
    <3> QED
      BY <3>1
  <2>2. ASSUME pending # <<>>, NEW a \in Action, a = Head(pending), Execute(a)
        PROVE  saved'.eos[n] >= saved.eos[n] /\ saved'.xyz[n] >= saved.xyz[n]
    <3>1. saved' = Tables' \/ saved' = saved
      BY <2>2, SentIsSigned
    <3>2. eos'[n] >= eos[n] /\ xyz'[n] >= xyz[n]
      BY <2>1, <2>2, HeadIsSigned, OnlyAuthorisersPay
    <3>3. eos[n] >= saved.eos[n] /\ xyz[n] >= saved.xyz[n]
      BY DEF SignersInv, NobodyElsePaid
    <3>4. eos[n] \in Int /\ xyz[n] \in Int /\ eos'[n] \in Int /\ xyz'[n] \in Int
      BY <2>1, TypeInductive DEF TypeOK
    <3>5. eos'[n] >= saved.eos[n] /\ xyz'[n] >= saved.xyz[n]
      BY <2>1, <3>2, <3>3, <3>4
    <3> QED
      BY <2>1, <3>1, <3>5 DEF Tables
  <2>3. CASE saved' = saved
    BY <2>1, <2>3
  <2> QED
    BY <2>1, <2>2, <2>3, StepCases DEF Rollback, Begin, vars
<1> QED
  BY <1>1, <1>2, SignersInductive, PTL DEF Spec, OnlySignersPay

-----------------------------------------------------------------------------
(* Who blocks                                                              *)

\* The accounts that may block or unblock: the contract only if it has signed.
Blockers == signers \cup Coded

BlocksSigned(E) == {a \in Action : a.kind = "blockswapto" => a.auth \subseteq E}

BlockInv ==
    /\ TypeOK
    /\ pending \in Seq(BlocksSigned(Blockers))
    /\ BlockedAsBefore
    /\ pending = <<>> => blocked = saved.blocked

\* The contract itself sends no blockswapto, and a handler speaks for its account.
LEMMA SentBlocksAreSigned ==
    ASSUME NEW E \in SUBSET Name, Coded \subseteq E, NEW a \in Action,
           NEW rf \in Replies(a.from, a), NEW rt \in Replies(a.to, a)
    PROVE  /\ rf \o OnTransfer(a) \o rt \in Seq(BlocksSigned(E))
           /\ (IF a.to = Self THEN CreditEos(a, a.from, a.amt) ELSE <<>>) \o rf \o rt
                  \in Seq(BlocksSigned(E))
<1> /\ Self \in Name /\ a.from \in Name /\ a.to \in Name /\ a.amt \in Int
  BY NamesAssumption DEF Action
<1>1. ASSUME NEW n \in Name, NEW r \in Replies(n, a) PROVE r \in Seq(BlocksSigned(E))
  <2>1. r \in Seq(Action) /\ Len(r) \in Nat
    BY <1>1, RepliesType, UserActionsAreActions, LenProperties
  <2>2. ASSUME NEW i \in 1 .. Len(r) PROVE r[i] \in BlocksSigned(E)
    BY <1>1, <2>1, RepliesAuth, ElementOfSeq DEF BlocksSigned
  <2> QED
    BY <2>1, <2>2
<1>2. OnTransfer(a) \in Seq(BlocksSigned(E))
  <2>1. Inline(a, "transfer", Self, a.from, "XYZ", a.amt, {Self}) \in BlocksSigned(E)
    BY InlineType DEF Kinds, Symbols, BlocksSigned, Inline
  <2> QED
    BY <2>1 DEF OnTransfer
<1>3. (IF a.to = Self THEN CreditEos(a, a.from, a.amt) ELSE <<>>) \in Seq(BlocksSigned(E))
  <2>1. Inline(a, "eosio.token::transfer", Self, a.from, "EOS", a.amt, {Self})
            \in BlocksSigned(E)
    BY InlineType DEF Kinds, Symbols, BlocksSigned, Inline
  <2> QED
    BY <2>1 DEF CreditEos
<1> QED
  BY <1>1, <1>2, <1>3, ConcatProperties

LEMMA SwapToSendsNoBlocks ==
    ASSUME NEW E \in SUBSET Name, NEW a \in Action
    PROVE  SwapToInlines(a) \in Seq(BlocksSigned(E))
<1>1. /\ Inline(a, "eosio.token::transfer", a.from, Self, "EOS", a.amt, {a.from})
             \in BlocksSigned(E)
      /\ Inline(a, "transfer", a.from, a.to, "XYZ", a.amt, {a.from}) \in BlocksSigned(E)
      /\ Inline(a, "transfer", a.from, Self, "XYZ", a.amt, {a.from}) \in BlocksSigned(E)
      /\ Inline(a, "eosio.token::transfer", a.from, a.to, "EOS", a.amt, {a.from})
             \in BlocksSigned(E)
  BY SwapToSends DEF BlocksSigned, Inline
<1> QED
  BY <1>1 DEF SwapToInlines

\* What an executed action leaves pending, and whether it may block.
LEMMA BlocksAfterStep ==
    ASSUME BlockInv, pending # <<>>, NEW a \in Action, a = Head(pending), Execute(a)
    PROVE  /\ pending' \in Seq(BlocksSigned(Blockers))
           /\ saved' = IF pending' = <<>> THEN Tables' ELSE saved
           /\ signers' = IF pending' = <<>> THEN {} ELSE signers
           /\ \A n \in Name \ Coded :
                  {n, Self} \cap signers = {} => (n \in blocked' <=> n \in blocked)
<1>1. /\ a \in BlocksSigned(Blockers) /\ Tail(pending) \in Seq(BlocksSigned(Blockers))
      /\ Blockers \in SUBSET Name /\ Coded \subseteq Blockers /\ Self \notin Coded
  BY NamesAssumption, HeadTailProperties DEF BlockInv, TypeOK, Blockers
<1>2. ASSUME NEW s \in Seq(BlocksSigned(Blockers)), Done(s)
      PROVE  /\ pending' \in Seq(BlocksSigned(Blockers))
             /\ saved' = IF pending' = <<>> THEN Tables' ELSE saved
             /\ signers' = IF pending' = <<>> THEN {} ELSE signers
  BY <1>1, <1>2, ConcatProperties DEF Done
<1>3. \E s \in Seq(BlocksSigned(Blockers)) : Done(s)
  <2>1. CASE EosTransfer(a)
    BY <1>1, <2>1, SentBlocksAreSigned DEF EosTransfer
  <2>2. CASE Transfer(a)
    BY <1>1, <2>2, SentBlocksAreSigned DEF Transfer
  <2>3. CASE SwapTo(a)
    <3>1. SwapToInlines(a) \in Seq(BlocksSigned(Blockers)) /\ Done(SwapToInlines(a))
      BY <1>1, <2>3, SwapToSendsNoBlocks DEF SwapTo
    <3> QED
      BY <3>1
  <2>4. CASE Open(a) \/ Close(a) \/ InitToken(a) \/ BlockSwapTo(a)
    <3>1. <<>> \in Seq(BlocksSigned(Blockers)) /\ Done(<<>>)
      BY <2>4 DEF Open, Close, InitToken, BlockSwapTo
    <3> QED
      BY <3>1
  <2> QED
    BY <2>1, <2>2, <2>3, <2>4 DEF Execute
<1>4. ASSUME NEW n \in Name \ Coded, {n, Self} \cap signers = {}
      PROVE  n \in blocked' <=> n \in blocked
  <2>1. CASE BlockSwapTo(a)
    <3>1. a.auth \subseteq Blockers
      BY <1>1, <2>1 DEF BlocksSigned, BlockSwapTo
    <3>2. n # a.from
      BY <1>1, <1>4, <2>1, <3>1 DEF BlockSwapTo, BlockSwapToOk, Blockers
    <3> QED
      BY <2>1, <3>2 DEF BlockSwapTo
  <2>2. CASE ~BlockSwapTo(a)
    BY <2>2 DEF Execute, EosTransfer, Transfer, Open, Close, InitToken, SwapTo, tables
  <2> QED
    BY <2>1, <2>2
<1> QED
  BY <1>2, <1>3, <1>4

LEMMA BlockInductive == BlockInv /\ [Next]_vars => BlockInv'
<1> SUFFICES ASSUME BlockInv, [Next]_vars PROVE BlockInv'
  OBVIOUS
<1>1. TypeOK /\ TypeOK'
  BY TypeInductive DEF BlockInv
<1>2. ASSUME pending # <<>>, NEW a \in Action, a = Head(pending), Execute(a)
      PROVE  BlockInv'
  <2>1. /\ pending' \in Seq(BlocksSigned(Blockers))
        /\ saved' = IF pending' = <<>> THEN Tables' ELSE saved
        /\ signers' = IF pending' = <<>> THEN {} ELSE signers
        /\ \A n \in Name \ Coded :
               {n, Self} \cap signers = {} => (n \in blocked' <=> n \in blocked)
    BY <1>2, BlocksAfterStep
  <2>2. CASE pending' = <<>>
    BY <1>1, <2>1, <2>2 DEF BlockInv, BlockedAsBefore, Tables
  <2>3. CASE pending' # <<>>
    BY <1>1, <2>1, <2>3 DEF BlockInv, BlockedAsBefore, Blockers, BlocksSigned
  <2> QED
    BY <2>2, <2>3
<1>3. CASE Rollback
  BY <1>1, <1>3 DEF BlockInv, BlockedAsBefore, Rollback
<1>4. ASSUME NEW tx \in Transactions, Begin(tx) PROVE BlockInv'
  <2>1. /\ pending = <<>> /\ pending' = tx /\ blocked' = blocked /\ saved' = saved
        /\ signers' = UNION {tx[i].auth : i \in DOMAIN tx}
    BY <1>4 DEF Begin, tables
  <2>2. tx \in Seq(Action)
    BY TransactionsAssumption, UserActionsAreActions
  <2>3. ASSUME NEW i \in 1 .. Len(tx) PROVE tx[i] \in BlocksSigned(Blockers')
    BY <2>1, <2>2, LenProperties, ElementOfSeq DEF BlocksSigned, Blockers
  <2>4. tx \in Seq(BlocksSigned(Blockers'))
    BY <2>2, <2>3
  <2> QED
    BY <1>1, <2>1, <2>2, <2>4 DEF BlockInv, BlockedAsBefore, BlocksSigned
<1>5. CASE UNCHANGED vars
  BY <1>1, <1>5 DEF BlockInv, BlockedAsBefore, Blockers, BlocksSigned, vars, tables
<1> QED
  BY <1>1, <1>2, <1>3, <1>4, <1>5, StepCases

LEMMA BlockInvAtFirst == Init => BlockInv
<1> SUFFICES ASSUME Init PROVE BlockInv
  OBVIOUS
<1>1. TypeOK
  BY NamesAssumption, EosAssumption DEF Init, TypeOK, Database, Tables
<1>2. blocked = saved.blocked /\ pending = <<>>
  BY DEF Init, Tables
<1> QED
  BY <1>1, <1>2 DEF BlockInv, BlockedAsBefore

\* What swapto reads of an account's block before it sends its inline actions is
\* still so when they, and the handlers they notify, run: in the middle of a
\* transaction table blocked only differs from before for accounts that signed it,
\* under the contract's signature, or for accounts whose code acted.
THEOREM BlocksHold == Spec => []BlockedAsBefore
<1>1. BlockInv => BlockedAsBefore
  BY DEF BlockInv
<1> QED
  BY <1>1, BlockInvAtFirst, BlockInductive, PTL DEF Spec

\* An account only appears in, or disappears from, table blocked in a transaction
\* that it or the contract signed, or through its own code: blockswapto never acts
\* on a third party's word, however deeply it is nested.
THEOREM OnlyOwnersAreBlocked == Spec => OnlyOwnersBlock
<1>1. BlockInv /\ [Next]_vars =>
          [\A n \in Name \ Coded :
              (n \in saved.blocked) # (n \in saved'.blocked)
                  => {n, Self} \cap signers # {}]_vars
  <2> SUFFICES ASSUME BlockInv, [Next]_vars, NEW n \in Name \ Coded,
                      {n, Self} \cap signers = {}
               PROVE  n \in saved.blocked <=> n \in saved'.blocked
    OBVIOUS
  <2>1. TypeOK
    BY DEF BlockInv
  <2>2. ASSUME pending # <<>>, NEW a \in Action, a = Head(pending), Execute(a)
        PROVE  n \in saved.blocked <=> n \in saved'.blocked
    <3>1. saved' = Tables' \/ saved' = saved
      BY <2>2, BlocksAfterStep
    <3>2. n \in blocked' <=> n \in saved.blocked
      BY <2>2, BlocksAfterStep DEF BlockInv, BlockedAsBefore
    <3> QED
      BY <3>1, <3>2 DEF Tables
  <2>3. CASE saved' = saved
    BY <2>3
  <2> QED
    BY <2>1, <2>2, <2>3, StepCases DEF Rollback, Begin, vars
<1> QED
  BY <1>1, BlockInvAtFirst, BlockInductive, PTL DEF Spec, OnlyOwnersBlock
=============================================================================
