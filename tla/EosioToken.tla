---------------------------- MODULE EosioToken ----------------------------
(***************************************************************************)
(* contracts/token.entry.cpp: eosio.token, the contract that keeps the EOS *)
(* balances which SwapContract moves.  One token, identified by its symbol *)
(* code; quantities also name a precision.                                 *)
(*                                                                         *)
(* An action that fails a check changes nothing and is not modelled.       *)
(* Memos and notifications are left out.                                   *)
(***************************************************************************)
EXTENDS Integers, FiniteSets, Functions

CONSTANTS
    Name,        \* names an action may mention
    Account,     \* the names that are accounts
    Self,        \* get_self(), the account of eosio.token
    Precision,   \* the precisions that an action may name
    Quantities,  \* the amounts that an action may name
    MaxAmount,   \* asset::max_amount, 2^62 - 1
    NoStat,      \* there is no row in table stat
    NoPayer      \* there is no row in table accounts

VARIABLES
    stat,        \* table stat
    balance,     \* table accounts
    payer,       \* who pays the RAM of an account's row
    signers      \* history: who authorised the last action

vars == <<stat, balance, payer, signers>>

\* A name has 64 bits: there are finitely many of them.
ASSUME TokenAssumption ==
    /\ IsFiniteSet(Name)
    /\ Account \subseteq Name
    /\ Self \in Account
    /\ Quantities \subseteq Int
    /\ MaxAmount \in Nat
    /\ NoPayer \notin Name
    /\ NoStat \notin [precision: Precision, supply: Int, max: Int, issuer: Name]

Amount == 0 .. MaxAmount

Stat == [precision: Precision, supply: Amount, max: Amount, issuer: Name]

TypeOK ==
    /\ stat \in Stat \cup {NoStat}
    /\ balance \in [Name -> Amount]
    /\ payer \in [Name -> Name \cup {NoPayer}]
    /\ signers \subseteq Account

Init ==
    /\ stat = NoStat
    /\ balance = [n \in Name |-> 0]
    /\ payer = [n \in Name |-> NoPayer]
    /\ signers = {}

-----------------------------------------------------------------------------
\* asset::is_valid
IsValid(q) == q \in -MaxAmount .. MaxAmount

HasRow(n) == payer[n] # NoPayer

\* The payers after sub_balance(owner, _), and after add_balance(owner, _, ramPayer)
\* when the payers are p.
Debit(owner) == [payer EXCEPT ![owner] = owner]

\* Mutant: a new row is billed to its owner.
CreditBillsOwner(p, owner, ramPayer) ==
    [p EXCEPT ![owner] = IF @ = NoPayer THEN owner ELSE @]

Credit(p, owner, ramPayer) ==
    [p EXCEPT ![owner] = IF @ = NoPayer THEN ramPayer ELSE @]

\* Mutant: overdrafts are not checked.
CanOverdraw(owner, q) == HasRow(owner)

CanDebit(owner, q) == HasRow(owner) /\ balance[owner] >= q

Create(issuer, maximum, precision, auth) ==
    /\ Self \in auth
    /\ IsValid(maximum)
    /\ maximum > 0
    /\ stat = NoStat
    /\ stat' = [precision |-> precision, supply |-> 0, max |-> maximum,
                issuer |-> issuer]
    /\ UNCHANGED <<balance, payer>>

\* Mutant: the limit is compared with the quantity alone.
IssuableUpToMax(q) == q <= stat.max

Issuable(q) == q <= stat.max - stat.supply

Issue(to, q, precision, auth) ==
    /\ stat # NoStat
    /\ to = stat.issuer
    /\ stat.issuer \in auth
    /\ IsValid(q)
    /\ q > 0
    /\ precision = stat.precision
    /\ Issuable(q)
    /\ stat' = [stat EXCEPT !.supply = @ + q]
    /\ balance' = [balance EXCEPT ![stat.issuer] = @ + q]
    /\ payer' = Credit(payer, stat.issuer, stat.issuer)

\* issuefixed issues what is missing to the supply asked for.
Issuefixed(to, supply, precision, auth) ==
    /\ stat # NoStat
    /\ precision = stat.precision
    /\ Issue(to, supply - stat.supply, precision, auth)

Setmaxsupply(issuer, maximum, precision, auth) ==
    /\ IsValid(maximum)
    /\ maximum > 0
    /\ stat # NoStat
    /\ issuer = stat.issuer
    /\ stat.issuer \in auth
    /\ precision = stat.precision
    /\ maximum >= stat.supply
    /\ stat' = [stat EXCEPT !.max = maximum]
    /\ UNCHANGED <<balance, payer>>

\* Mutant: retire does not ask the issuer.
RetireUnsigned(q, precision, auth) ==
    /\ stat # NoStat
    /\ IsValid(q)
    /\ q > 0
    /\ precision = stat.precision
    /\ CanDebit(stat.issuer, q)
    /\ stat' = [stat EXCEPT !.supply = @ - q]
    /\ balance' = [balance EXCEPT ![stat.issuer] = @ - q]
    /\ payer' = Debit(stat.issuer)

Retire(q, precision, auth) ==
    /\ stat # NoStat
    /\ stat.issuer \in auth
    /\ IsValid(q)
    /\ q > 0
    /\ precision = stat.precision
    /\ CanDebit(stat.issuer, q)
    /\ stat' = [stat EXCEPT !.supply = @ - q]
    /\ balance' = [balance EXCEPT ![stat.issuer] = @ - q]
    /\ payer' = Debit(stat.issuer)

Transfer(from, to, q, precision, auth) ==
    /\ from # to
    /\ from \in auth
    /\ to \in Account
    /\ stat # NoStat
    /\ IsValid(q)
    /\ q > 0
    /\ precision = stat.precision
    /\ CanDebit(from, q)
    /\ balance' = [balance EXCEPT ![from] = @ - q, ![to] = @ + q]
    /\ payer' = Credit(Debit(from), to, IF to \in auth THEN to ELSE from)
    /\ UNCHANGED stat

Open(owner, precision, ramPayer, auth) ==
    /\ ramPayer \in auth
    /\ owner \in Account
    /\ stat # NoStat
    /\ precision = stat.precision
    /\ payer' = Credit(payer, owner, ramPayer)
    /\ UNCHANGED <<stat, balance>>

\* close looks at the symbol code only.
Close(owner, auth) ==
    /\ owner \in auth
    /\ HasRow(owner)
    /\ balance[owner] = 0
    /\ balance' = [balance EXCEPT ![owner] = 0]
    /\ payer' = [payer EXCEPT ![owner] = NoPayer]
    /\ UNCHANGED stat

\* One action, authorised by auth.
Step(auth) ==
    \/ \E issuer \in Name, q \in Quantities, p \in Precision :
           \/ Create(issuer, q, p, auth)
           \/ Issue(issuer, q, p, auth)
           \/ Issuefixed(issuer, q, p, auth)
           \/ Setmaxsupply(issuer, q, p, auth)
    \/ \E q \in Quantities, p \in Precision : Retire(q, p, auth)
    \/ \E from, to \in Name, q \in Quantities, p \in Precision :
           Transfer(from, to, q, p, auth)
    \/ \E owner, ramPayer \in Name, p \in Precision : Open(owner, p, ramPayer, auth)
    \/ \E owner \in Name : Close(owner, auth)

Next == \E auth \in SUBSET Account : Step(auth) /\ signers' = auth

Spec == Init /\ [][Next]_vars

-----------------------------------------------------------------------------
\* The supply that the statistics show is what the accounts hold, and never
\* exceeds the maximum: no sum of balances can leave the range of an asset.
SupplyIsHeld ==
    IF stat = NoStat THEN \A n \in Name : balance[n] = 0
    ELSE stat.supply = SumFunction(balance) /\ stat.supply <= stat.max

\* An account's balance shrinks only in an action that the account authorised,
\* retire included, which burns the issuer's tokens.
OwnersSpend ==
    [][\A n \in Name : balance'[n] < balance[n] => n \in signers']_vars

\* Whoever becomes the payer of a row has authorised the action, and an owner who
\* spends takes over the RAM of the row from whoever opened it.
PayersConsent ==
    [][\A n \in Name :
           /\ payer'[n] \in {payer[n], NoPayer} \cup signers'
           /\ balance'[n] < balance[n] => payer'[n] = n]_vars

=============================================================================
