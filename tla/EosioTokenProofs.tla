------------------------- MODULE EosioTokenProofs -------------------------
(***************************************************************************)
(* Proofs about EosioToken, for any set of accounts, any quantities and    *)
(* any limit: the supply is what the accounts hold, no balance leaves the  *)
(* range of an asset, nobody else's balance shrinks, and the RAM of a row  *)
(* is billed to who authorised it.                                         *)
(***************************************************************************)
EXTENDS EosioToken, SumLemmas

\* The tables without the upper bound of a balance, which only the supply gives.
Ledger ==
    /\ stat \in Stat \cup {NoStat}
    /\ balance \in [Name -> Nat]
    /\ payer \in [Name -> Name \cup {NoPayer}]
    /\ signers \subseteq Account

TokenInv == Ledger /\ SupplyIsHeld

LEMMA StatIsNotNoStat == NoStat \notin Stat
  BY TokenAssumption DEF Stat, Amount

\* Who pays for rows is an account, or nobody.
LEMMA PayersType ==
    ASSUME Ledger, NEW p \in [Name -> Name \cup {NoPayer}], NEW owner \in Name,
           NEW ramPayer \in Name
    PROVE  /\ Debit(owner) \in [Name -> Name \cup {NoPayer}]
           /\ Credit(p, owner, ramPayer) \in [Name -> Name \cup {NoPayer}]
  BY DEF Ledger, Debit, Credit

\* No balance exceeds the supply.
LEMMA BalancesInRange ==
    ASSUME TokenInv
    PROVE  TypeOK
<1>1. CASE stat = NoStat
  BY <1>1, TokenAssumption DEF TokenInv, Ledger, SupplyIsHeld, TypeOK, Amount
<1>2. CASE stat # NoStat
  <2>1. stat \in Stat
    BY <1>2 DEF TokenInv, Ledger
  <2>2. \A n \in Name : balance[n] <= SumFunctionOnSet(balance, Name)
    BY TokenAssumption, SumNat DEF TokenInv, Ledger
  <2>3. stat.supply = SumFunctionOnSet(balance, Name) /\ stat.supply \in 0 .. MaxAmount
    BY <1>2, <2>1 DEF TokenInv, Ledger, SupplyIsHeld, SumFunction, Stat, Amount
  <2>4. \A n \in Name : balance[n] \in Amount
    BY <2>2, <2>3, TokenAssumption DEF TokenInv, Ledger, Amount
  <2>5. QED
    BY <2>4 DEF TokenInv, Ledger, TypeOK
<1>3. QED
  BY <1>1, <1>2

LEMMA NothingIsHeldAtFirst == Init => TokenInv
  BY TokenAssumption DEF Init, TokenInv, Ledger, SupplyIsHeld

-----------------------------------------------------------------------------
(* Every action keeps the supply equal to what is held.                    *)

LEMMA CreateKeeps ==
    ASSUME TokenInv, NEW issuer \in Name, NEW q \in Quantities, NEW p \in Precision,
           NEW auth \in SUBSET Account, Create(issuer, q, p, auth), signers' = auth
    PROVE  TokenInv'
<1>1. q \in Amount /\ 0 \in Amount
  BY TokenAssumption DEF Create, IsValid, Amount
<1>2. stat' \in Stat /\ stat'.supply = 0 /\ stat'.max = q
  BY <1>1 DEF Create, Stat
<1>3. \A n \in Name : balance[n] = 0
  BY DEF TokenInv, SupplyIsHeld, Create
<1>4. SumFunctionOnSet(balance, Name) = 0
  BY <1>3, TokenAssumption, SumNat DEF TokenInv, Ledger
<1>5. balance' = balance /\ DOMAIN balance = Name
  BY DEF Create, TokenInv, Ledger
<1>6. stat'.supply = SumFunction(balance')
  BY <1>2, <1>4, <1>5 DEF SumFunction
<1>7. QED
  BY <1>1, <1>2, <1>5, <1>6, StatIsNotNoStat
     DEF TokenInv, Ledger, SupplyIsHeld, Create, Amount

LEMMA IssueKeeps ==
    ASSUME TokenInv, NEW to \in Name, NEW q \in Int, NEW p \in Precision,
           NEW auth \in SUBSET Account, Issue(to, q, p, auth), signers' = auth
    PROVE  TokenInv'
<1> DEFINE i == stat.issuer
<1>1. stat \in Stat /\ i \in Name /\ q \in Nat
  BY DEF Issue, TokenInv, Ledger, Stat
<1>2. /\ balance \in [Name -> Int] /\ balance' \in [Name -> Int]
      /\ balance' \in [Name -> Nat]
      /\ balance'[i] = balance[i] + q
      /\ \A n \in Name \ {i} : balance'[n] = balance[n]
  BY <1>1 DEF Issue, TokenInv, Ledger
<1>3. SumFunction(balance') = SumFunction(balance) - balance[i] + balance'[i]
  <2> HIDE DEF i
  <2> QED BY <1>1, <1>2, TokenAssumption, SumUpdate
<1>4. /\ stat.supply = SumFunction(balance)
      /\ stat.supply \in 0 .. MaxAmount /\ stat.max \in 0 .. MaxAmount
      /\ balance[i] \in Int
  BY <1>1, <1>2 DEF Issue, TokenInv, SupplyIsHeld, Stat, Amount
<1>5. stat'.supply = stat.supply + q /\ stat'.max = stat.max
  BY <1>1 DEF Issue, Stat
<1>6. stat'.supply = SumFunction(balance') /\ stat'.supply <= stat'.max
  BY <1>1, <1>2, <1>3, <1>4, <1>5, TokenAssumption DEF Issue, Issuable
<1>7. stat'.supply \in Amount
  BY <1>1, <1>4, <1>5, <1>6, TokenAssumption DEF Amount
<1>8. stat' \in Stat
  BY <1>1, <1>5, <1>7 DEF Issue, Stat
<1>9. payer' \in [Name -> Name \cup {NoPayer}]
  BY <1>1, PayersType DEF Issue, TokenInv, Ledger
<1>10. QED
  BY <1>2, <1>6, <1>8, <1>9, StatIsNotNoStat DEF TokenInv, Ledger, SupplyIsHeld

LEMMA SetmaxsupplyKeeps ==
    ASSUME TokenInv, NEW issuer \in Name, NEW q \in Quantities, NEW p \in Precision,
           NEW auth \in SUBSET Account, Setmaxsupply(issuer, q, p, auth), signers' = auth
    PROVE  TokenInv'
<1>1. stat \in Stat /\ q \in Amount
  BY TokenAssumption DEF Setmaxsupply, TokenInv, Ledger, IsValid, Amount
<1>2. stat' \in Stat /\ stat'.supply = stat.supply /\ stat'.max = q
  BY <1>1 DEF Setmaxsupply, Stat
<1>3. stat.supply = SumFunction(balance) /\ q >= stat.supply
  BY DEF Setmaxsupply, TokenInv, SupplyIsHeld
<1>4. QED
  BY <1>1, <1>2, <1>3, StatIsNotNoStat
     DEF Setmaxsupply, TokenInv, Ledger, SupplyIsHeld, Stat, Amount

LEMMA RetireKeeps ==
    ASSUME TokenInv, NEW q \in Quantities, NEW p \in Precision,
           NEW auth \in SUBSET Account, Retire(q, p, auth), signers' = auth
    PROVE  TokenInv'
<1> DEFINE i == stat.issuer
<1>1. stat \in Stat /\ i \in Name /\ q \in Nat /\ q <= balance[i]
  BY TokenAssumption DEF Retire, CanDebit, TokenInv, Ledger, Stat
<1>2. /\ balance \in [Name -> Int] /\ balance' \in [Name -> Int]
      /\ balance' \in [Name -> Nat]
      /\ balance'[i] = balance[i] - q
      /\ \A n \in Name \ {i} : balance'[n] = balance[n]
  BY <1>1 DEF Retire, TokenInv, Ledger
<1>3. SumFunction(balance') = SumFunction(balance) - balance[i] + balance'[i]
  <2> HIDE DEF i
  <2> QED BY <1>1, <1>2, TokenAssumption, SumUpdate
<1>4. /\ stat.supply = SumFunction(balance) /\ stat.supply <= stat.max
      /\ stat.supply \in 0 .. MaxAmount /\ stat.max \in 0 .. MaxAmount
      /\ balance[i] \in Int
  BY <1>1, <1>2 DEF Retire, TokenInv, SupplyIsHeld, Stat, Amount
<1>5. stat'.supply = stat.supply - q /\ stat'.max = stat.max
  BY <1>1 DEF Retire, Stat
<1>6. balance[i] <= stat.supply
  <2> HIDE DEF i
  <2>1. balance[i] <= SumFunctionOnSet(balance, Name) /\ DOMAIN balance = Name
    BY <1>1, TokenAssumption, SumNat DEF TokenInv, Ledger
  <2> QED BY <1>4, <2>1 DEF SumFunction
<1>7. stat'.supply = SumFunction(balance') /\ stat'.supply <= stat'.max
  BY <1>1, <1>2, <1>3, <1>4, <1>5, TokenAssumption
<1>8. stat'.supply \in Amount
  BY <1>1, <1>4, <1>5, <1>6, TokenAssumption DEF Amount
<1>9. stat' \in Stat
  BY <1>1, <1>5, <1>8 DEF Retire, Stat
<1>10. payer' \in [Name -> Name \cup {NoPayer}]
  BY <1>1, PayersType DEF Retire, TokenInv, Ledger
<1>11. QED
  BY <1>2, <1>7, <1>9, <1>10, StatIsNotNoStat DEF TokenInv, Ledger, SupplyIsHeld

LEMMA TransferKeeps ==
    ASSUME TokenInv, NEW from \in Name, NEW to \in Name, NEW q \in Quantities,
           NEW p \in Precision, NEW auth \in SUBSET Account,
           Transfer(from, to, q, p, auth), signers' = auth
    PROVE  TokenInv'
<1>1. stat \in Stat /\ q \in Nat /\ q <= balance[from] /\ from # to
  BY TokenAssumption DEF Transfer, CanDebit, TokenInv, Ledger
<1>2. /\ balance \in [Name -> Int] /\ balance' \in [Name -> Int]
      /\ balance' \in [Name -> Nat]
      /\ balance'[from] = balance[from] - q
      /\ balance'[to] = balance[to] + q
      /\ \A n \in Name \ {from, to} : balance'[n] = balance[n]
  BY <1>1 DEF Transfer, TokenInv, Ledger
<1>3. SumFunction(balance') = SumFunction(balance)
  BY <1>1, <1>2, TokenAssumption, SumMove
<1>4. payer' \in [Name -> Name \cup {NoPayer}]
  BY PayersType DEF Transfer, TokenInv, Ledger
<1>5. QED
  BY <1>1, <1>2, <1>3, <1>4 DEF Transfer, TokenInv, Ledger, SupplyIsHeld

LEMMA OpenKeeps ==
    ASSUME TokenInv, NEW owner \in Name, NEW ramPayer \in Name, NEW p \in Precision,
           NEW auth \in SUBSET Account, Open(owner, p, ramPayer, auth), signers' = auth
    PROVE  TokenInv'
  BY PayersType DEF Open, TokenInv, Ledger, SupplyIsHeld

LEMMA CloseKeeps ==
    ASSUME TokenInv, NEW owner \in Name, NEW auth \in SUBSET Account,
           Close(owner, auth), signers' = auth
    PROVE  TokenInv'
<1>1. balance' = balance
  BY DEF Close, TokenInv, Ledger
<1>2. QED
  BY <1>1 DEF Close, TokenInv, Ledger, SupplyIsHeld

LEMMA TokenInductive == TokenInv /\ [Next]_vars => TokenInv'
<1> SUFFICES ASSUME TokenInv, [Next]_vars PROVE TokenInv'
  OBVIOUS
<1>1. CASE UNCHANGED vars
  BY <1>1 DEF vars, TokenInv, Ledger, SupplyIsHeld
<1>2. ASSUME NEW auth \in SUBSET Account, Step(auth), signers' = auth
      PROVE  TokenInv'
  <2>1. ASSUME NEW issuer \in Name, NEW q \in Quantities, NEW p \in Precision,
               Issuefixed(issuer, q, p, auth)
        PROVE  TokenInv'
    <3>1. q - stat.supply \in Int
      BY <2>1, TokenAssumption DEF Issuefixed, TokenInv, Ledger, Stat, Amount
    <3>2. QED
      BY <1>2, <2>1, <3>1, IssueKeeps DEF Issuefixed
  <2>2. ASSUME NEW issuer \in Name, NEW q \in Quantities, NEW p \in Precision,
               Issue(issuer, q, p, auth)
        PROVE  TokenInv'
    BY <1>2, <2>2, TokenAssumption, IssueKeeps
  <2>3. ASSUME NEW from \in Name, NEW to \in Name, NEW q \in Quantities,
               NEW p \in Precision, Transfer(from, to, q, p, auth)
        PROVE  TokenInv'
    BY <1>2, <2>3, TransferKeeps
  <2>4. ASSUME NEW owner \in Name, NEW ramPayer \in Name, NEW p \in Precision,
               Open(owner, p, ramPayer, auth)
        PROVE  TokenInv'
    BY <1>2, <2>4, OpenKeeps
  <2>5. ASSUME NEW owner \in Name, Close(owner, auth)
        PROVE  TokenInv'
    BY <1>2, <2>5, CloseKeeps
  <2>6. ASSUME NEW issuer \in Name, NEW q \in Quantities, NEW p \in Precision,
               Create(issuer, q, p, auth) \/ Setmaxsupply(issuer, q, p, auth)
        PROVE  TokenInv'
    BY <1>2, <2>6, CreateKeeps, SetmaxsupplyKeeps
  <2>7. ASSUME NEW q \in Quantities, NEW p \in Precision, Retire(q, p, auth)
        PROVE  TokenInv'
    BY <1>2, <2>7, RetireKeeps
  <2>8. QED
    BY <1>2, <2>1, <2>2, <2>3, <2>4, <2>5, <2>6, <2>7 DEF Step
<1>3. QED
  BY <1>1, <1>2 DEF Next

-----------------------------------------------------------------------------
\* The supply shown is the sum of all balances and within the maximum, in every
\* reachable state (issue, retire and transfer of token.entry.cpp together).
THEOREM SupplyHolds == Spec => []SupplyIsHeld
<1>1. TokenInv => SupplyIsHeld
  BY DEF TokenInv
<1>2. QED
  BY <1>1, NothingIsHeldAtFirst, TokenInductive, PTL DEF Spec

\* No balance ever leaves the range of an asset: the += of add_balance does not
\* overflow, whatever issue and transfer do.
THEOREM NoOverflow == Spec => []TypeOK
<1>1. TokenInv => TypeOK
  BY BalancesInRange
<1>2. QED
  BY <1>1, NothingIsHeldAtFirst, TokenInductive, PTL DEF Spec

-----------------------------------------------------------------------------
(* Whose balance shrinks, and who pays for rows.                           *)

\* What one action authorised by auth may do to the account n.
StepKeepsOwner(auth, n) ==
    /\ payer'[n] \in {payer[n], NoPayer} \cup auth
    /\ balance'[n] < balance[n] => n \in auth /\ payer'[n] = n

LEMMA StepIsAuthorised ==
    ASSUME TokenInv, NEW auth \in SUBSET Account, Step(auth), NEW n \in Name
    PROVE  StepKeepsOwner(auth, n)
<1> USE DEF StepKeepsOwner
<1> USE TokenAssumption
<1>1. balance \in [Name -> Nat] /\ payer \in [Name -> Name \cup {NoPayer}]
  BY DEF TokenInv, Ledger
<1>2. ASSUME NEW to \in Name, NEW q \in Int, NEW p \in Precision, Issue(to, q, p, auth)
      PROVE  StepKeepsOwner(auth, n)
  <2>1. stat.issuer \in Name /\ stat.issuer \in auth
    BY <1>2 DEF Issue, TokenInv, Ledger, Stat
  <2> QED BY <1>1, <1>2, <2>1 DEF Issue, Credit
<1>3. ASSUME NEW q \in Quantities, NEW p \in Precision, Retire(q, p, auth)
      PROVE  StepKeepsOwner(auth, n)
  <2>1. stat.issuer \in Name /\ stat.issuer \in auth
    BY <1>3 DEF Retire, TokenInv, Ledger, Stat
  <2> QED BY <1>1, <1>3, <2>1 DEF Retire, Debit
<1>4. ASSUME NEW from \in Name, NEW to \in Name, NEW q \in Quantities,
             NEW p \in Precision, Transfer(from, to, q, p, auth)
      PROVE  StepKeepsOwner(auth, n)
  <2>1. from # to /\ from \in auth /\ q \in Int /\ q > 0
    BY <1>4 DEF Transfer
  <2>2. n \notin {from, to} => balance'[n] = balance[n] /\ payer'[n] = payer[n]
    BY <1>1, <1>4 DEF Transfer, Credit, Debit
  <2>3. n = from => payer'[n] = from
    BY <1>1, <1>4, <2>1 DEF Transfer, Credit, Debit
  <2>4. n = to => balance'[n] >= balance[n] /\ payer'[n] \in {payer[n]} \cup auth
    BY <1>1, <1>4, <2>1 DEF Transfer, Credit, Debit
  <2>5. CASE n = from
    BY <2>1, <2>3, <2>5
  <2>6. CASE n = to
    <3>1. balance[n] \in Nat /\ balance'[n] \in Int
      BY <1>1, <1>4, <2>1 DEF Transfer
    <3> QED BY <2>4, <2>6, <3>1
  <2>7. CASE n \notin {from, to}
    BY <1>1, <2>2, <2>7
  <2> QED BY <2>5, <2>6, <2>7
<1>5. ASSUME NEW owner \in Name, NEW ramPayer \in Name, NEW p \in Precision,
             Open(owner, p, ramPayer, auth)
      PROVE  StepKeepsOwner(auth, n)
  BY <1>1, <1>5 DEF Open, Credit
<1>6. ASSUME NEW owner \in Name, Close(owner, auth)
      PROVE  StepKeepsOwner(auth, n)
  BY <1>1, <1>6 DEF Close
<1>7. ASSUME NEW issuer \in Name, NEW q \in Quantities, NEW p \in Precision,
             Create(issuer, q, p, auth) \/ Setmaxsupply(issuer, q, p, auth)
      PROVE  StepKeepsOwner(auth, n)
  BY <1>1, <1>7 DEF Create, Setmaxsupply
<1>8. ASSUME NEW issuer \in Name, NEW q \in Quantities, NEW p \in Precision,
             Issue(issuer, q, p, auth) \/ Issuefixed(issuer, q, p, auth)
      PROVE  StepKeepsOwner(auth, n)
  <2>1. CASE Issue(issuer, q, p, auth)
    BY <1>2, <2>1
  <2>2. CASE Issuefixed(issuer, q, p, auth)
    <3>1. q - stat.supply \in Int
      BY <2>2 DEF Issuefixed, TokenInv, Ledger, Stat, Amount
    <3> QED BY <1>2, <2>2, <3>1 DEF Issuefixed
  <2>3. QED
    BY <1>8, <2>1, <2>2
<1> HIDE DEF StepKeepsOwner
<1>9. QED
  BY <1>3, <1>4, <1>5, <1>6, <1>7, <1>8 DEF Step

LEMMA ActionsAreAuthorised ==
    ASSUME TokenInv, [Next]_vars, NEW n \in Name
    PROVE  /\ payer'[n] \in {payer[n], NoPayer} \cup signers'
           /\ balance'[n] < balance[n] => n \in signers' /\ payer'[n] = n
<1>1. CASE UNCHANGED vars
  BY <1>1 DEF vars, TokenInv, Ledger
<1>2. CASE Next
  BY <1>2, StepIsAuthorised DEF Next, StepKeepsOwner
<1>3. QED
  BY <1>1, <1>2

\* An account's balance shrinks only in an action it authorised: sub_balance is
\* never reached for another owner, retire included.
THEOREM OnlyOwnersSpend == Spec => OwnersSpend
<1>1. TokenInv /\ [Next]_vars =>
          [\A n \in Name : balance'[n] < balance[n] => n \in signers']_vars
  BY ActionsAreAuthorised
<1>2. QED
  BY <1>1, NothingIsHeldAtFirst, TokenInductive, PTL DEF Spec, OwnersSpend

\* Nobody becomes the payer of a row without having authorised the action, and who
\* spends pays his own row from then on (transfer, open and sub_balance).
THEOREM OnlyConsentingPayers == Spec => PayersConsent
<1>1. TokenInv /\ [Next]_vars =>
          [\A n \in Name :
               /\ payer'[n] \in {payer[n], NoPayer} \cup signers'
               /\ balance'[n] < balance[n] => payer'[n] = n]_vars
  BY ActionsAreAuthorised
<1>2. QED
  BY <1>1, NothingIsHeldAtFirst, TokenInductive, PTL DEF Spec, PayersConsent
=============================================================================
