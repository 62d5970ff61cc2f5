----------------------------- MODULE FlowProofs -----------------------------
(***************************************************************************)
(* Theorems about what a single call of Forwarding moves: EOS, XYZ and     *)
(* what eosio holds, from one inline action to the next.                   *)
(***************************************************************************)
EXTENDS CallProofs

-----------------------------------------------------------------------------
(* What a call moves                                                       *)
(*                                                                         *)
(* Until it commits, a call of u only moves EOS between u, the contract,   *)
(* eosio and eosio.ramfee, XYZ between u and the contract, and what eosio  *)
(* holds for u.                                                            *)

\* u has d more EOS, the contract s, eosio y and eosio.ramfee f.
EosShift(e, u, d, s, y, f) ==
    [n \in Name |-> e[n] + (IF n = u THEN d ELSE IF n = Self THEN s
                            ELSE IF n = System THEN y ELSE IF n = RamFee THEN f ELSE 0)]

\* The contract has given u x XYZ.
XyzShift(b, u, x) ==
    [n \in Name |-> b[n] + (IF n = u THEN x ELSE IF n = Self THEN -x ELSE 0)]

\* eosio holds h more EOS for u.
HeldShift(t, t0, u, h) ==
    /\ t.pool = t0.pool
    /\ \A n \in Name : Owed(t, n) = Owed(t0, n) + (IF n = u THEN h ELSE 0)
    /\ \A n \in Name : Rex(t, n) = Rex(t0, n)

LEMMA EosShiftAt ==
    ASSUME NEW e \in [Name -> Int], NEW u, NEW d \in Int, NEW s \in Int,
           NEW y \in Int, NEW f \in Int
    PROVE  /\ EosShift(e, u, d, s, y, f) \in [Name -> Int]
           /\ \A n \in Name : EosShift(e, u, d, s, y, f)[n] =
                  e[n] + (IF n = u THEN d ELSE IF n = Self THEN s
                          ELSE IF n = System THEN y ELSE IF n = RamFee THEN f ELSE 0)
  BY DEF EosShift

LEMMA SameEntries ==
    ASSUME NEW g \in [Name -> Int], NEW k \in [Name -> Int],
           \A n \in Name : g[n] = k[n]
    PROVE  g = k
  OBVIOUS

LEMMA EosShifts ==
    ASSUME NEW e \in [Name -> Int], NEW u \in Name \ {Self}, NEW d \in Int, NEW s \in Int,
           NEW y \in Int, NEW f \in Int, NEW x \in Int,
           NEW p \in Name, NEW q \in Name, p # q, {p, q} \subseteq {u, Self, System, RamFee}
    PROVE  LET due(m) == IF m = p THEN -x ELSE IF m = q THEN x ELSE 0
           IN  Move(EosShift(e, u, d, s, y, f), p, q, x) =
                   EosShift(e, u, d + due(u), s + due(Self),
                            IF u = System THEN y ELSE y + due(System),
                            IF u = RamFee THEN f ELSE f + due(RamFee))
<1> DEFINE due(m) == IF m = p THEN -x ELSE IF m = q THEN x ELSE 0
           g == EosShift(e, u, d, s, y, f)
           h == Move(g, p, q, x)
           d2 == d + due(u)
           s2 == s + due(Self)
           y2 == IF u = System THEN y ELSE y + due(System)
           f2 == IF u = RamFee THEN f ELSE f + due(RamFee)
           k == EosShift(e, u, d2, s2, y2, f2)
<1>1. /\ Self \in Name /\ System \in Name /\ RamFee \in Name
      /\ Self # System /\ Self # RamFee /\ System # RamFee
  BY NamesAssumption, SystemAssumption
<1>2. /\ g \in [Name -> Int]
      /\ \A n \in Name : g[n] =
             e[n] + (IF n = u THEN d ELSE IF n = Self THEN s
                     ELSE IF n = System THEN y ELSE IF n = RamFee THEN f ELSE 0)
  BY EosShiftAt
<1>3. d2 \in Int /\ s2 \in Int /\ y2 \in Int /\ f2 \in Int
  OBVIOUS
<1>4. /\ k \in [Name -> Int]
      /\ \A n \in Name : k[n] =
             e[n] + (IF n = u THEN d2 ELSE IF n = Self THEN s2
                     ELSE IF n = System THEN y2 ELSE IF n = RamFee THEN f2 ELSE 0)
  <2> HIDE DEF d2, s2, y2, f2
  <2> QED
    BY <1>3, EosShiftAt
<1> HIDE DEF g, k
<1>5. /\ h \in [Name -> Int] /\ h[p] = g[p] - x /\ h[q] = g[q] + x
      /\ \A n \in Name \ {p, q} : h[n] = g[n]
  BY <1>2 DEF Move
<1> HIDE DEF h
<1>6. ASSUME NEW n \in Name PROVE h[n] = k[n]
  <2>1. CASE n = u
    BY <1>2, <1>4, <1>5, <2>1
  <2>2. CASE n # u /\ n = Self
    BY <1>1, <1>2, <1>4, <1>5, <2>2
  <2>3. CASE n # u /\ n = System
    BY <1>1, <1>2, <1>4, <1>5, <2>3
  <2>4. CASE n # u /\ n = RamFee
    BY <1>1, <1>2, <1>4, <1>5, <2>4
  <2>5. CASE n \notin {u, Self, System, RamFee}
    BY <1>2, <1>4, <1>5, <2>5
  <2> QED
    BY <2>1, <2>2, <2>3, <2>4, <2>5
<1>7. h = k
  BY <1>4, <1>5, <1>6, SameEntries
<1> QED
  BY <1>7 DEF h, g, k

LEMMA XyzShifts ==
    ASSUME NEW b \in [Name -> Int], NEW u \in Name \ {Self}, NEW x \in Int, NEW amt \in Int
    PROVE  /\ Move(XyzShift(b, u, x), Self, u, amt) = XyzShift(b, u, x + amt)
           /\ Move(XyzShift(b, u, x), u, Self, amt) = XyzShift(b, u, x - amt)
<1> DEFINE g == XyzShift(b, u, x)
           into == Move(g, Self, u, amt)
           out == Move(g, u, Self, amt)
           more == XyzShift(b, u, x + amt)
           less == XyzShift(b, u, x - amt)
<1>1. Self \in Name
  BY NamesAssumption
<1>2. /\ g \in [Name -> Int]
      /\ \A n \in Name : g[n] = b[n] + (IF n = u THEN x ELSE IF n = Self THEN -x ELSE 0)
  BY DEF XyzShift
<1>3. /\ more \in [Name -> Int]
      /\ \A n \in Name : more[n] =
             b[n] + (IF n = u THEN x + amt ELSE IF n = Self THEN -(x + amt) ELSE 0)
  BY DEF XyzShift
<1>4. /\ less \in [Name -> Int]
      /\ \A n \in Name : less[n] =
             b[n] + (IF n = u THEN x - amt ELSE IF n = Self THEN -(x - amt) ELSE 0)
  BY DEF XyzShift
<1> HIDE DEF g, more, less
<1>5. /\ into \in [Name -> Int] /\ into[u] = g[u] + amt /\ into[Self] = g[Self] - amt
      /\ \A n \in Name \ {u, Self} : into[n] = g[n]
  BY <1>1, <1>2 DEF Move
<1>6. /\ out \in [Name -> Int] /\ out[u] = g[u] - amt /\ out[Self] = g[Self] + amt
      /\ \A n \in Name \ {u, Self} : out[n] = g[n]
  BY <1>1, <1>2 DEF Move
<1> HIDE DEF into, out
<1>7. \A n \in Name : into[n] = more[n]
  BY <1>2, <1>3, <1>5
<1>8. \A n \in Name : out[n] = less[n]
  BY <1>2, <1>4, <1>6
<1>9. into = more /\ out = less
  BY <1>3, <1>4, <1>5, <1>6, <1>7, <1>8, SameEntries
<1> QED
  BY <1>9 DEF into, out, g, more, less

LEMMA NoShift ==
    ASSUME NEW e \in [Name -> Int], NEW u
    PROVE  EosShift(e, u, 0, 0, 0, 0) = e /\ XyzShift(e, u, 0) = e
  BY DEF EosShift, XyzShift

-----------------------------------------------------------------------------
(* Single steps                                                            *)

\* x runs, and rest after what x sends.
LEMMA FrontStep ==
    ASSUME NEW x \in Action, NEW rest \in Seq(Action), pending = <<x>> \o rest
    PROVE  /\ pending # <<>> /\ Head(pending) = x /\ Tail(pending) = rest
           /\ Done(<<>>) => pending' = rest
           /\ \A z \in Action : Done(<<z>>) => pending' = <<z>> \o rest
           /\ \A z, w \in Action : Done(<<z>> \o <<w>>) => pending' = <<z>> \o (<<w>> \o rest)
<1>1. /\ <<x>> \in Seq(Action) /\ <<x>> # <<>> /\ Head(<<x>>) = x
      /\ Tail(<<x>>) = <<>> /\ Len(<<x>>) = 1
  OBVIOUS
<1>2. /\ pending \in Seq(Action) /\ Len(pending) = 1 + Len(rest) /\ Len(rest) \in Nat
      /\ pending[1] = x
      /\ \A i \in 1 .. Len(rest) : pending[i + 1] = rest[i]
  BY <1>1, ConcatProperties, LenProperties
<1>3. pending # <<>>
  BY <1>2, EmptySeq
<1>4. /\ Head(pending) = x /\ Tail(pending) \in Seq(Action)
      /\ Len(Tail(pending)) = Len(rest)
      /\ \A i \in 1 .. Len(rest) : Tail(pending)[i] = rest[i]
  BY <1>2, <1>3, HeadTailProperties
<1>5. Tail(pending) = rest
  BY <1>4, SeqEqual
<1>6. Done(<<>>) => pending' = rest
  BY <1>5, ConcatEmptySeq DEF Done
<1>7. \A z, w \in Action : (<<z>> \o <<w>>) \o rest = <<z>> \o (<<w>> \o rest)
  <2> TAKE z \in Action, w \in Action
  <2>1. <<z>> \in Seq(Action) /\ <<w>> \in Seq(Action)
    OBVIOUS
  <2> QED
    BY <2>1, ConcatAssociative
<1> QED
  BY <1>3, <1>4, <1>5, <1>6, <1>7 DEF Done

-----------------------------------------------------------------------------
(* The kind of an action tells which of them is executed.                  *)

LEMMA ExecutesEos ==
    ASSUME NEW a, ForwardingExecute(a), a.kind = "eosio.token::transfer"
    PROVE  TokenStep(a) /\ EosTransfer(a)
  BY DEF ForwardingExecute, TokenStep, Execute, Transfer, Open, Close, InitToken, SwapTo,
         BlockSwapTo, EosTransfer, Bidname, Buyram, Buyramburn, Buyramself, Buyrambytes, Deposit,
         Powerup, Delegatebw, Donatetorex, Bidrefund, Sellram, Refund, Claimrewards, Withdraw,
         Buyrex, Undelegatebw, Unstaketorex, Ramburn, Ramtransfer, Mvfrsavings, Mvtosavings,
         Sellrex, Newaccount, Voteproducer, Voteupdate, Linkauth, Unlinkauth, Updateauth,
         Deleteauth, Setabi, Setcode, Giftram, Ungiftram, Noop, Swaptrace, Enforcebal,
         Swapexcess, SystemExecute, EosioBidname, EosioBidrefund, EosioBuyram,
         EosioBuyrambytes, EosioSellram, EosioDonatetorex, EosioPowerup, Setrammarket,
         EosioClaimrewards, EosioQuiet, QuietKinds, EosioDelegatebw, EosioUndelegatebw,
         EosioRefund, EosioDeposit, EosioWithdraw, Setrex, EosioBuyrex, EosioMvfrsavings,
         EosioSellrex

LEMMA ExecutesXyz ==
    ASSUME NEW a, ForwardingExecute(a), a.kind = "transfer"
    PROVE  TokenStep(a) /\ Transfer(a)
  BY DEF ForwardingExecute, TokenStep, Execute, Transfer, Open, Close, InitToken, SwapTo,
         BlockSwapTo, EosTransfer, Bidname, Buyram, Buyramburn, Buyramself, Buyrambytes, Deposit,
         Powerup, Delegatebw, Donatetorex, Bidrefund, Sellram, Refund, Claimrewards, Withdraw,
         Buyrex, Undelegatebw, Unstaketorex, Ramburn, Ramtransfer, Mvfrsavings, Mvtosavings,
         Sellrex, Newaccount, Voteproducer, Voteupdate, Linkauth, Unlinkauth, Updateauth,
         Deleteauth, Setabi, Setcode, Giftram, Ungiftram, Noop, Swaptrace, Enforcebal,
         Swapexcess, SystemExecute, EosioBidname, EosioBidrefund, EosioBuyram,
         EosioBuyrambytes, EosioSellram, EosioDonatetorex, EosioPowerup, Setrammarket,
         EosioClaimrewards, EosioQuiet, QuietKinds, EosioDelegatebw, EosioUndelegatebw,
         EosioRefund, EosioDeposit, EosioWithdraw, Setrex, EosioBuyrex, EosioMvfrsavings,
         EosioSellrex

-----------------------------------------------------------------------------
(* The flow of a call                                                      *)

\* T and S are the tables that the call leaves when it has moved that much.
Moved(T, S, u, d, s, y, f, x, h) ==
    /\ T.eos = EosShift(saved.eos, u, d, s, y, f)
    /\ T.xyz = XyzShift(saved.xyz, u, x)
    /\ T.blocked = saved.blocked /\ T.supply = saved.supply
    /\ HeldShift(S, savedSystem, u, h)

\* What a call of u has moved so far, and up to the end of a step.
Flow(u, d, s, y, f, x, h) == Moved(Tables, SystemTables, u, d, s, y, f, x, h)
After(u, d, s, y, f, x, h) == Moved(Tables', SystemTables', u, d, s, y, f, x, h)

LEMMA AfterIsFlow ==
    ASSUME saved' = saved, savedSystem' = savedSystem, NEW u, NEW d, NEW s, NEW y, NEW f,
           NEW x, NEW h, After(u, d, s, y, f, x, h)
    PROVE  Flow(u, d, s, y, f, x, h)'
  BY DEF After, Flow, Moved

\* The tables of a flow, and what stays of it when a step changes no table.
LEMMA FlowTables ==
    ASSUME NEW u, NEW d, NEW s, NEW y, NEW f, NEW x, NEW h, Flow(u, d, s, y, f, x, h)
    PROVE  /\ eos = EosShift(saved.eos, u, d, s, y, f) /\ xyz = XyzShift(saved.xyz, u, x)
           /\ blocked = saved.blocked /\ supply = saved.supply
           /\ HeldShift(SystemTables, savedSystem, u, h)
  BY DEF Flow, Moved, Tables

LEMMA SystemUnchanged ==
    ASSUME UNCHANGED systemTables, NEW u, NEW h, HeldShift(SystemTables, savedSystem, u, h)
    PROVE  HeldShift(SystemTables', savedSystem, u, h)
<1>1. /\ SystemTables'.pool = SystemTables.pool
      /\ \A n : Owed(SystemTables', n) = Owed(SystemTables, n)
      /\ \A n : Rex(SystemTables', n) = Rex(SystemTables, n)
  BY DEF systemTables, stakeTables, rexTables, SystemTables, Owed, Rex, Row
<1> QED
  BY <1>1 DEF HeldShift

LEMMA AfterTables ==
    ASSUME NEW u, NEW d, NEW s, NEW y, NEW f, NEW x, NEW h,
           eos' = EosShift(saved.eos, u, d, s, y, f), xyz' = XyzShift(saved.xyz, u, x),
           blocked' = saved.blocked, supply' = saved.supply,
           HeldShift(SystemTables', savedSystem, u, h)
    PROVE  After(u, d, s, y, f, x, h)
  BY DEF After, Moved, Tables

LEMMA NothingMoves ==
    ASSUME UNCHANGED <<eos, xyz, blocked, supply, systemTables>>, NEW u, NEW d, NEW s, NEW y,
           NEW f, NEW x, NEW h, Flow(u, d, s, y, f, x, h)
    PROVE  After(u, d, s, y, f, x, h)
<1>1. HeldShift(SystemTables', savedSystem, u, h)
  BY FlowTables, SystemUnchanged
<1> QED
  BY <1>1, FlowTables, AfterTables

\* A transfer of EOS between the user and the accounts without handlers.
LEMMA EosStep ==
    ASSUME SystemTypeOK, NEW u \in Name \ {Self}, u \notin Coded, NEW d \in Int, NEW s \in Int,
           NEW y \in Int, NEW f \in Int, NEW x \in Int, NEW h \in Int,
           Flow(u, d, s, y, f, x, h),
           NEW a \in Action, ForwardingExecute(a), NEW p, NEW q, NEW amt,
           PaysEos(a, p, q, amt), {p, q} \subseteq {u, Self, System, RamFee}
    PROVE  /\ p # q /\ amt \in Nat \ {0} /\ Done(OnTransfer(a)) /\ Recorded
           /\ LET due(m) == IF m = p THEN -amt ELSE IF m = q THEN amt ELSE 0
              IN  After(u, d + due(u), s + due(Self), IF u = System THEN y ELSE y + due(System),
                        IF u = RamFee THEN f ELSE f + due(RamFee), x, h)
<1> DEFINE due(m) == IF m = p THEN -amt ELSE IF m = q THEN amt ELSE 0
           d2 == d + due(u)
           s2 == s + due(Self)
           y2 == IF u = System THEN y ELSE y + due(System)
           f2 == IF u = RamFee THEN f ELSE f + due(RamFee)
<1>1. TokenStep(a) /\ EosTransfer(a)
  BY ExecutesEos DEF PaysEos
<1>2. /\ TypeOK /\ {a.from, a.to} \cap Coded = {} /\ a.from = p /\ a.to = q /\ a.amt = amt
      /\ a.sym = "EOS"
  BY NamesAssumption, SystemAssumption DEF PaysEos, SystemTypeOK
<1>3. /\ p \in Name /\ q \in Name /\ p # q /\ amt \in Int /\ amt > 0
      /\ UNCHANGED <<xyz, blocked, supply>> /\ Done(OnTransfer(a))
      /\ eos' = Move(eos, p, q, amt)
  <2>1. eos \in [Name -> Nat]
    BY <1>2 DEF TypeOK
  <2>2. /\ p \in Name /\ q \in Name /\ p # q /\ amt \in Int
        /\ UNCHANGED <<xyz, blocked, supply>> /\ Done(OnTransfer(a))
        /\ amt \in 1 .. eos[p] /\ eos' = Move(eos, p, q, amt)
    BY <1>1, <1>2, EosMoves
  <2> QED
    BY <2>1, <2>2
<1>4. UNCHANGED systemTables /\ Recorded
  BY <1>1 DEF TokenStep
<1>5. saved.eos \in [Name -> Int]
  <2>1. saved.eos \in [Name -> Nat]
    BY <1>2 DEF TypeOK, Database
  <2> QED
    BY <2>1
<1>6. eos = EosShift(saved.eos, u, d, s, y, f)
  BY FlowTables
<1>7. eos' = EosShift(saved.eos, u, d2, s2, y2, f2)
  <2>1. Move(EosShift(saved.eos, u, d, s, y, f), p, q, amt)
            = EosShift(saved.eos, u, d2, s2, y2, f2)
    BY <1>3, <1>5, EosShifts
  <2> QED
    BY <1>3, <1>6, <2>1
<1> HIDE DEF d2, s2, y2, f2
<1>8. HeldShift(SystemTables', savedSystem, u, h)
  BY <1>4, FlowTables, SystemUnchanged
<1>9. After(u, d2, s2, y2, f2, x, h)
  BY <1>3, <1>7, <1>8, FlowTables, AfterTables
<1> QED
  BY <1>3, <1>4, <1>9 DEF d2, s2, y2, f2

-----------------------------------------------------------------------------
(* The steps of a call                                                     *)

\* p is to run next; with nothing to run, the tables are committed.
Goes(p) ==
    /\ pending' = p
    /\ p # <<>> => saved' = saved /\ savedSystem' = savedSystem /\ running' = running
    /\ p = <<>> => saved' = Tables' /\ savedSystem' = SystemTables' /\ running' = <<>>

LEMMA DoneGoes ==
    ASSUME NEW s, Done(s), Recorded, NEW p, pending' = p
    PROVE  Goes(p)
  BY DEF Done, Recorded, Goes

LEMMA FrontGoes ==
    ASSUME NEW a \in Action, NEW rest \in Seq(Action), pending = <<a>> \o rest, Recorded
    PROVE  /\ Done(<<>>) => Goes(rest)
           /\ \A z \in Action : Done(<<z>>) => Goes(<<z>> \o rest)
           /\ \A z, w \in Action : Done(<<z>> \o <<w>>) => Goes(<<z>> \o (<<w>> \o rest))
  BY FrontStep, DoneGoes

LEMMA UserPaysSystem ==
    ASSUME SystemTypeOK, NEW u \in Name \ {Self}, u \notin Coded, NEW d \in Int, NEW s \in Int,
           NEW y \in Int, NEW f \in Int, NEW x \in Int, NEW h \in Int,
           Flow(u, d, s, y, f, x, h),
           NEW a \in Action, NEW rest \in Seq(Action), pending = <<a>> \o rest,
           ForwardingExecute(a), NEW amt, PaysEos(a, u, System, amt)
    PROVE  amt \in Nat \ {0} /\ Goes(rest) /\ After(u, d - amt, s, y + amt, f, x, h)
<1>1. System # Self /\ System # RamFee
  BY SystemAssumption
<1> DEFINE due(m) == IF m = u THEN -amt ELSE IF m = System THEN amt ELSE 0
<1>2. /\ u # System /\ amt \in Nat \ {0} /\ Done(OnTransfer(a)) /\ Recorded
      /\ After(u, d + due(u), s + due(Self), IF u = System THEN y ELSE y + due(System),
               IF u = RamFee THEN f ELSE f + due(RamFee), x, h)
  BY EosStep
<1>3. /\ d + due(u) = d - amt /\ s + due(Self) = s
      /\ (IF u = System THEN y ELSE y + due(System)) = y + amt
      /\ (IF u = RamFee THEN f ELSE f + due(RamFee)) = f
  BY <1>1, <1>2
<1>4. OnTransfer(a) = <<>>
  BY <1>1 DEF OnTransfer, SwapsEos, PaysEos
<1> HIDE DEF due
<1>5. After(u, d - amt, s, y + amt, f, x, h)
  BY <1>2, <1>3
<1> QED
  BY <1>2, <1>4, <1>5, FrontGoes

LEMMA UserPaysFee ==
    ASSUME SystemTypeOK, NEW u \in Name \ {Self}, u \notin Coded, NEW d \in Int, NEW s \in Int,
           NEW y \in Int, NEW f \in Int, NEW x \in Int, NEW h \in Int,
           Flow(u, d, s, y, f, x, h),
           NEW a \in Action, NEW rest \in Seq(Action), pending = <<a>> \o rest,
           ForwardingExecute(a), NEW amt, PaysEos(a, u, RamFee, amt)
    PROVE  amt \in Nat \ {0} /\ Goes(rest) /\ After(u, d - amt, s, y, f + amt, x, h)
<1>1. RamFee # Self /\ System # RamFee
  BY SystemAssumption
<1> DEFINE due(m) == IF m = u THEN -amt ELSE IF m = RamFee THEN amt ELSE 0
<1>2. /\ u # RamFee /\ amt \in Nat \ {0} /\ Done(OnTransfer(a)) /\ Recorded
      /\ After(u, d + due(u), s + due(Self), IF u = System THEN y ELSE y + due(System),
               IF u = RamFee THEN f ELSE f + due(RamFee), x, h)
  BY EosStep
<1>3. /\ d + due(u) = d - amt /\ s + due(Self) = s
      /\ (IF u = System THEN y ELSE y + due(System)) = y
      /\ (IF u = RamFee THEN f ELSE f + due(RamFee)) = f + amt
  BY <1>1, <1>2
<1>4. OnTransfer(a) = <<>>
  BY <1>1 DEF OnTransfer, SwapsEos, PaysEos
<1> HIDE DEF due
<1>5. After(u, d - amt, s, y, f + amt, x, h)
  BY <1>2, <1>3
<1> QED
  BY <1>2, <1>4, <1>5, FrontGoes

LEMMA SystemPaysUser ==
    ASSUME SystemTypeOK, NEW u \in Name \ {Self}, u \notin Coded, NEW d \in Int, NEW s \in Int,
           NEW y \in Int, NEW f \in Int, NEW x \in Int, NEW h \in Int,
           Flow(u, d, s, y, f, x, h),
           NEW a \in Action, NEW rest \in Seq(Action), pending = <<a>> \o rest,
           ForwardingExecute(a), NEW amt, PaysEos(a, System, u, amt)
    PROVE  amt \in Nat \ {0} /\ Goes(rest) /\ After(u, d + amt, s, y - amt, f, x, h)
<1>1. System # Self /\ System # RamFee
  BY SystemAssumption
<1> DEFINE due(m) == IF m = System THEN -amt ELSE IF m = u THEN amt ELSE 0
<1>2. /\ u # System /\ amt \in Nat \ {0} /\ Done(OnTransfer(a)) /\ Recorded
      /\ After(u, d + due(u), s + due(Self), IF u = System THEN y ELSE y + due(System),
               IF u = RamFee THEN f ELSE f + due(RamFee), x, h)
  BY EosStep
<1>3. /\ d + due(u) = d + amt /\ s + due(Self) = s
      /\ (IF u = System THEN y ELSE y + due(System)) = y - amt
      /\ (IF u = RamFee THEN f ELSE f + due(RamFee)) = f
  BY <1>1, <1>2
<1>4. OnTransfer(a) = <<>>
  BY DEF OnTransfer, SwapsEos, PaysEos
<1> HIDE DEF due
<1>5. After(u, d + amt, s, y - amt, f, x, h)
  BY <1>2, <1>3
<1> QED
  BY <1>2, <1>4, <1>5, FrontGoes

LEMMA SelfPaysUser ==
    ASSUME SystemTypeOK, NEW u \in Name \ {Self}, u \notin Coded, NEW d \in Int, NEW s \in Int,
           NEW y \in Int, NEW f \in Int, NEW x \in Int, NEW h \in Int,
           Flow(u, d, s, y, f, x, h),
           NEW a \in Action, NEW rest \in Seq(Action), pending = <<a>> \o rest,
           ForwardingExecute(a), NEW amt, PaysEos(a, Self, u, amt)
    PROVE  amt \in Nat \ {0} /\ Goes(rest) /\ After(u, d + amt, s - amt, y, f, x, h)
<1>1. System # Self /\ RamFee # Self
  BY SystemAssumption
<1> DEFINE due(m) == IF m = Self THEN -amt ELSE IF m = u THEN amt ELSE 0
<1>2. /\ amt \in Nat \ {0} /\ Done(OnTransfer(a)) /\ Recorded
      /\ After(u, d + due(u), s + due(Self), IF u = System THEN y ELSE y + due(System),
               IF u = RamFee THEN f ELSE f + due(RamFee), x, h)
  BY EosStep
<1>3. /\ d + due(u) = d + amt /\ s + due(Self) = s - amt
      /\ (IF u = System THEN y ELSE y + due(System)) = y
      /\ (IF u = RamFee THEN f ELSE f + due(RamFee)) = f
  BY <1>1, <1>2
<1>4. OnTransfer(a) = <<>>
  BY DEF OnTransfer, SwapsEos, PaysEos
<1> HIDE DEF due
<1>5. After(u, d + amt, s - amt, y, f, x, h)
  BY <1>2, <1>3
<1> QED
  BY <1>2, <1>4, <1>5, FrontGoes

\* EOS that the user sends to the contract is answered, unless it is kept.
LEMMA UserPaysSelf ==
    ASSUME SystemTypeOK, NEW u \in Name \ {Self}, u \notin Coded, NEW d \in Int, NEW s \in Int,
           NEW y \in Int, NEW f \in Int, NEW x \in Int, NEW h \in Int,
           Flow(u, d, s, y, f, x, h),
           NEW a \in Action, NEW rest \in Seq(Action), pending = <<a>> \o rest,
           ForwardingExecute(a), NEW amt, PaysEos(a, u, Self, amt)
    PROVE  /\ amt \in Nat \ {0} /\ After(u, d - amt, s + amt, y, f, x, h)
           /\ u \in Ignored => Goes(rest)
           /\ u \notin Ignored =>
                  \E z \in Action : PaysXyz(z, Self, u, amt) /\ Goes(<<z>> \o rest)
<1>1. System # Self /\ RamFee # Self /\ Self \in Name
  BY SystemAssumption, NamesAssumption
<1> DEFINE due(m) == IF m = u THEN -amt ELSE IF m = Self THEN amt ELSE 0
<1>2. /\ amt \in Nat \ {0} /\ Done(OnTransfer(a)) /\ Recorded
      /\ After(u, d + due(u), s + due(Self), IF u = System THEN y ELSE y + due(System),
               IF u = RamFee THEN f ELSE f + due(RamFee), x, h)
  BY EosStep
<1>3. /\ d + due(u) = d - amt /\ s + due(Self) = s + amt
      /\ (IF u = System THEN y ELSE y + due(System)) = y
      /\ (IF u = RamFee THEN f ELSE f + due(RamFee)) = f
  BY <1>1, <1>2
<1> HIDE DEF due
<1>4. After(u, d - amt, s + amt, y, f, x, h)
  BY <1>2, <1>3
<1>5. ASSUME u \in Ignored PROVE Goes(rest)
  <2>1. OnTransfer(a) = <<>>
    BY <1>5 DEF OnTransfer, SwapsEos, PaysEos
  <2> QED
    BY <1>2, <2>1, FrontGoes
<1>6. ASSUME u \notin Ignored
      PROVE  \E z \in Action : PaysXyz(z, Self, u, amt) /\ Goes(<<z>> \o rest)
  <2> DEFINE z == Inline(a, "transfer", Self, a.from, "XYZ", a.amt, {Self})
  <2>1. OnTransfer(a) = <<z>>
    BY <1>6 DEF OnTransfer, SwapsEos, PaysEos
  <2>2. PaysXyz(z, Self, u, amt)
    BY DEF PaysXyz, PaysEos, Inline
  <2>3. z \in Action
    <3>1. /\ "transfer" \in Kinds /\ "XYZ" \in Symbols
          /\ a.from \in Name /\ a.amt \in Int /\ {Self} \in SUBSET Name
      BY <1>1 DEF Kinds, Symbols, Action
    <3> QED
      BY <1>1, <3>1, InlineType
  <2> HIDE DEF z
  <2> QED
    BY <1>2, <2>1, <2>2, <2>3, FrontGoes
<1> QED
  BY <1>2, <1>4, <1>5, <1>6

\* XYZ that the contract pays to the user.
LEMMA XyzStep ==
    ASSUME SystemTypeOK, NEW u \in Name \ {Self}, u \notin Coded, NEW d \in Int, NEW s \in Int,
           NEW y \in Int, NEW f \in Int, NEW x \in Int, NEW h \in Int,
           Flow(u, d, s, y, f, x, h),
           NEW a \in Action, NEW rest \in Seq(Action), pending = <<a>> \o rest,
           ForwardingExecute(a), NEW amt, PaysXyz(a, Self, u, amt)
    PROVE  Goes(rest) /\ After(u, d, s, y, f, x + amt, h)
<1>1. TokenStep(a) /\ Transfer(a)
  BY ExecutesXyz DEF PaysXyz
<1>2. /\ TypeOK /\ {a.from, a.to} \cap Coded = {} /\ a.from = Self /\ a.to = u /\ a.amt = amt
  BY NamesAssumption DEF PaysXyz, SystemTypeOK
<1>3. /\ amt \in Int /\ xyz' = Move(xyz, Self, u, amt)
      /\ UNCHANGED <<eos, blocked, supply>> /\ Done(<<>>)
  <2>1. xyz \in [Name -> Nat] /\ Self \in Name
    BY <1>2, NamesAssumption DEF TypeOK
  <2>2. /\ amt \in 1 .. xyz[Self] /\ xyz' = Move(xyz, Self, u, amt)
        /\ UNCHANGED <<eos, blocked, supply>> /\ Done(<<>>)
    BY <1>1, <1>2, XyzMoves
  <2> QED
    BY <2>1, <2>2
<1>4. UNCHANGED systemTables /\ Recorded
  BY <1>1 DEF TokenStep
<1>5. saved.xyz \in [Name -> Int]
  <2>1. saved.xyz \in [Name -> Nat]
    BY <1>2 DEF TypeOK, Database
  <2> QED
    BY <2>1
<1>6. xyz' = XyzShift(saved.xyz, u, x + amt)
  BY <1>3, <1>5, FlowTables, XyzShifts
<1>7. HeldShift(SystemTables', savedSystem, u, h)
  BY <1>4, FlowTables, SystemUnchanged
<1>8. After(u, d, s, y, f, x + amt, h)
  BY <1>3, <1>6, <1>7, FlowTables, AfterTables
<1> QED
  BY <1>3, <1>4, <1>8, FrontGoes

-----------------------------------------------------------------------------
(* What eosio does                                                         *)

LEMMA ExecutesSystem ==
    ASSUME NEW a, ForwardingExecute(a), a.kind \in SystemKinds
    PROVE  SystemExecute(a)
<1>1. ~TokenStep(a)
  BY DEF TokenStep, Execute, EosTransfer, Transfer, Open, Close, InitToken, SwapTo, BlockSwapTo,
         SystemKinds, QuietKinds
<1> QED
  BY <1>1
     DEF ForwardingExecute, SystemKinds, QuietKinds, Bidname, Buyram, Buyramburn, Buyramself,
         Buyrambytes, Deposit, Powerup, Delegatebw, Donatetorex, Bidrefund, Sellram, Refund,
         Claimrewards, Withdraw, Buyrex, Undelegatebw, Unstaketorex, Ramburn, Ramtransfer,
         Mvfrsavings, Mvtosavings, Sellrex, Newaccount, Voteproducer, Voteupdate, Linkauth,
         Unlinkauth, Updateauth, Deleteauth, Setabi, Setcode, Giftram, Ungiftram, Noop,
         Swaptrace, Enforcebal, Swapexcess

LEMMA SystemByKind ==
    ASSUME NEW a, SystemExecute(a)
    PROVE  /\ a.kind = "eosio::bidname" => EosioBidname(a)
           /\ a.kind = "eosio::bidrefund" => EosioBidrefund(a)
           /\ a.kind \in {"eosio::buyram", "eosio::buyramself", "eosio::buyramburn"} =>
                  EosioBuyram(a)
           /\ a.kind = "eosio::buyrambytes" => EosioBuyrambytes(a)
           /\ a.kind = "eosio::sellram" => EosioSellram(a)
           /\ a.kind = "eosio::donatetorex" => EosioDonatetorex(a)
           /\ a.kind = "eosio::powerup" => EosioPowerup(a)
           /\ a.kind = "eosio::claimrewards" => EosioClaimrewards(a)
           /\ a.kind \in QuietKinds => EosioQuiet(a)
           /\ a.kind = "eosio::delegatebw" => EosioDelegatebw(a)
           /\ a.kind = "eosio::undelegatebw" => EosioUndelegatebw(a)
           /\ a.kind = "eosio::refund" => EosioRefund(a)
           /\ a.kind = "eosio::deposit" => EosioDeposit(a)
           /\ a.kind = "eosio::withdraw" => EosioWithdraw(a)
  BY DEF SystemExecute, QuietKinds, EosioBidname, EosioBidrefund, EosioBuyram,
         EosioBuyrambytes, EosioSellram, EosioDonatetorex, EosioPowerup, Setrammarket,
         EosioClaimrewards, EosioQuiet, EosioDelegatebw, EosioUndelegatebw, EosioRefund,
         EosioDeposit, EosioWithdraw, Setrex, EosioBuyrex, EosioMvfrsavings, EosioSellrex

\* What eosio holds more for the user once it has executed a.
HeldMore(a) ==
    CASE a.kind = "eosio::deposit" -> a.amt
      [] a.kind = "eosio::delegatebw" -> a.amt + a.more
      [] a.kind = "eosio::withdraw" -> -a.amt
      [] a.kind = "eosio::refund" -> -refunds[a.from]
      [] OTHER -> 0

KeepingKinds == {"eosio::deposit", "eosio::delegatebw", "eosio::withdraw", "eosio::refund"}

LEMMA OwedMore ==
    ASSUME SystemTypeOK, NEW a \in Action, SystemExecute(a),
           a.kind \in KeepingKinds \cup {"eosio::undelegatebw"}
    PROVE  /\ UNCHANGED rexTables /\ HeldMore(a) \in Int
           /\ Owed(SystemTables', a.from) = Owed(SystemTables, a.from) + HeldMore(a)
<1> DEFINE n == a.from
<1>1. /\ n \in Name /\ a.amt \in Int /\ a.more \in Int
      /\ net \in [Name -> Nat] /\ cpu \in [Name -> Nat] /\ refunds \in [Name -> Nat]
      /\ IsTable(fund)
  BY DEF Action, SystemTypeOK, IsSystemDatabase, SystemTables
<1>2. /\ net[n] \in Int /\ cpu[n] \in Int /\ refunds[n] \in Int /\ Row(fund, n) \in Int
  BY <1>1, RowType
<1>3. /\ Owed(SystemTables, n) = net[n] + cpu[n] + refunds[n] + Row(fund, n)
      /\ Owed(SystemTables', n) = net'[n] + cpu'[n] + refunds'[n] + Row(fund', n)
  BY DEF Owed, SystemTables
<1>4. CASE a.kind = "eosio::deposit"
  <2>1. EosioDeposit(a)
    BY <1>4, SystemByKind
  <2>2. /\ UNCHANGED <<net, cpu, refunds>> /\ UNCHANGED rexTables
        /\ fund' = Add(fund, n, a.amt)
    BY <2>1 DEF EosioDeposit, stakeTables
  <2>3. Row(fund', n) = Row(fund, n) + a.amt
    BY <1>1, <2>2, AddToSame
  <2>4. HeldMore(a) = a.amt
    BY <1>4 DEF HeldMore
  <2> QED
    BY <1>1, <1>2, <1>3, <2>2, <2>3, <2>4
<1>5. CASE a.kind = "eosio::withdraw"
  <2>1. EosioWithdraw(a)
    BY <1>5, SystemByKind
  <2>2. /\ UNCHANGED <<net, cpu, refunds>> /\ UNCHANGED rexTables
        /\ n \in DOMAIN fund /\ fund' = [fund EXCEPT ![n] = @ - a.amt]
    BY <2>1 DEF EosioWithdraw, HasFund, stakeTables
  <2>3. Row(fund', n) = Row(fund, n) - a.amt
    BY <2>2 DEF Row
  <2>4. HeldMore(a) = -a.amt
    BY <1>5 DEF HeldMore
  <2> QED
    BY <1>1, <1>2, <1>3, <2>2, <2>3, <2>4
<1>6. CASE a.kind = "eosio::delegatebw"
  <2>1. EosioDelegatebw(a)
    BY <1>6, SystemByKind
  <2>2. /\ UNCHANGED <<refunds, fund>> /\ UNCHANGED rexTables
        /\ net' = [net EXCEPT ![n] = @ + a.amt] /\ cpu' = [cpu EXCEPT ![n] = @ + a.more]
    BY <2>1 DEF EosioDelegatebw
  <2>3. net'[n] = net[n] + a.amt /\ cpu'[n] = cpu[n] + a.more
    BY <1>1, <2>2
  <2>4. HeldMore(a) = a.amt + a.more
    BY <1>6 DEF HeldMore
  <2> QED
    BY <1>1, <1>2, <1>3, <2>2, <2>3, <2>4
<1>7. CASE a.kind = "eosio::refund"
  <2>1. EosioRefund(a)
    BY <1>7, SystemByKind
  <2>2. /\ UNCHANGED <<net, cpu, fund>> /\ UNCHANGED rexTables
        /\ refunds' = [refunds EXCEPT ![n] = 0]
    BY <2>1 DEF EosioRefund
  <2>3. refunds'[n] = 0
    BY <1>1, <2>2
  <2>4. HeldMore(a) = -refunds[n]
    BY <1>7 DEF HeldMore
  <2> QED
    BY <1>1, <1>2, <1>3, <2>2, <2>3, <2>4
<1>8. CASE a.kind = "eosio::undelegatebw"
  <2>1. EosioUndelegatebw(a)
    BY <1>8, SystemByKind
  <2>2. /\ UNCHANGED fund /\ UNCHANGED rexTables
        /\ net' = [net EXCEPT ![n] = @ - a.amt] /\ cpu' = [cpu EXCEPT ![n] = @ - a.more]
        /\ refunds' = [refunds EXCEPT ![n] = @ + a.amt + a.more]
    BY <2>1 DEF EosioUndelegatebw
  <2>3. /\ net'[n] = net[n] - a.amt /\ cpu'[n] = cpu[n] - a.more
        /\ refunds'[n] = refunds[n] + a.amt + a.more
    BY <1>1, <2>2
  <2>4. HeldMore(a) = 0
    BY <1>8 DEF HeldMore
  <2> QED
    BY <1>1, <1>2, <1>3, <2>2, <2>3, <2>4
<1> QED
  BY <1>4, <1>5, <1>6, <1>7, <1>8 DEF KeepingKinds

\* Such an action of eosio moves nothing but what eosio holds for the user.
LEMMA SystemMoves ==
    ASSUME SystemTypeOK, NEW u \in Name, NEW d, NEW s, NEW y, NEW f, NEW x,
           NEW h \in Int, Flow(u, d, s, y, f, x, h), NEW a \in Action, SystemExecute(a),
           a.from = u, UNCHANGED <<eos, xyz, blocked, supply>>,
           \/ a.kind \in KeepingKinds \cup {"eosio::undelegatebw"}
           \/ UNCHANGED systemTables /\ a.kind \notin KeepingKinds
    PROVE  HeldMore(a) \in Int /\ After(u, d, s, y, f, x, h + HeldMore(a))
<1>1. CASE UNCHANGED systemTables /\ a.kind \notin KeepingKinds
  <2>1. HeldMore(a) = 0
    BY <1>1 DEF HeldMore, KeepingKinds
  <2>2. h + HeldMore(a) = h
    BY <2>1
  <2> QED
    BY <1>1, <2>1, <2>2, NothingMoves
<1>2. CASE a.kind \in KeepingKinds \cup {"eosio::undelegatebw"}
  <2>1. /\ UNCHANGED rexTables /\ HeldMore(a) \in Int
        /\ Owed(SystemTables', u) = Owed(SystemTables, u) + HeldMore(a)
    BY <1>2, OwedMore
  <2>2. ASSUME NEW n \in Name
        PROVE  /\ Owed(SystemTables', n) = Owed(savedSystem, n)
                                               + (IF n = u THEN h + HeldMore(a) ELSE 0)
               /\ Rex(SystemTables', n) = Rex(savedSystem, n)
    <3>1. /\ Owed(SystemTables, n) = Owed(savedSystem, n) + (IF n = u THEN h ELSE 0)
          /\ Rex(SystemTables, n) = Rex(savedSystem, n)
      BY FlowTables DEF HeldShift
    <3>2. Owed(savedSystem, n) \in Int
      BY OwedType DEF SystemTypeOK
    <3>3. Rex(SystemTables', n) = Rex(SystemTables, n)
      BY <2>1 DEF rexTables, Rex, SystemTables
    <3>4. n # u => Owed(SystemTables', n) = Owed(SystemTables, n)
      <4>1. n # u => Owed(SystemTables, n)' = Owed(SystemTables, n)
        BY EosioHolds, HeldIsOwed
      <4> QED
        BY <4>1
    <3> QED
      BY <2>1, <3>1, <3>2, <3>3, <3>4
  <2>3. SystemTables'.pool = savedSystem.pool
    BY <2>1, FlowTables DEF rexTables, HeldShift, SystemTables
  <2>4. HeldShift(SystemTables', savedSystem, u, h + HeldMore(a))
    BY <2>2, <2>3 DEF HeldShift
  <2> QED
    BY <2>1, <2>4, FlowTables, AfterTables
<1> QED
  BY <1>1, <1>2

PaidKinds ==
    {"eosio::bidname", "eosio::buyram", "eosio::buyramself", "eosio::buyramburn",
     "eosio::donatetorex", "eosio::powerup", "eosio::deposit", "eosio::delegatebw"}
PayingKinds ==
    {"eosio::bidrefund", "eosio::refund", "eosio::withdraw", "eosio::claimrewards"}

\* What eosio charges for a.
Price(a) ==
    IF a.kind = "eosio::delegatebw" THEN a.amt + a.more
    ELSE IF a.kind = "eosio::powerup" /\ a.amt > OneEos THEN OneEos ELSE a.amt

LEMMA Collected ==
    ASSUME NEW a \in Action, NEW rest \in Seq(Action), pending = <<a>> \o rest,
           NEW amt \in Int, Collect(a, amt)
    PROVE  \E p \in Action : PaysEos(p, a.from, System, amt) /\ Goes(<<p>> \o rest)
<1> DEFINE p == Inline(a, "eosio.token::transfer", a.from, System, "EOS", amt, {a.from})
<1>1. p \in Action
  <2>1. p \in SentBy(a)
    BY TransferSent, SystemAssumption, NamesAssumption
  <2> QED
    BY <2>1 DEF SentBy
<1>2. PaysEos(p, a.from, System, amt)
  BY DEF PaysEos, Inline
<1>3. Done(<<p>>) /\ Recorded
  BY DEF Collect, Finish
<1> HIDE DEF p
<1> QED
  BY <1>1, <1>2, <1>3, FrontGoes

LEMMA PaidOut ==
    ASSUME NEW a \in Action, NEW rest \in Seq(Action), pending = <<a>> \o rest,
           NEW amt \in Int, PayOut(a, amt)
    PROVE  \E p \in Action : PaysEos(p, System, a.from, amt) /\ Goes(<<p>> \o rest)
<1> DEFINE p == Inline(a, "eosio.token::transfer", System, a.from, "EOS", amt, {System})
<1>1. p \in Action
  <2>1. a.from \in Name
    BY DEF Action
  <2>2. p \in SentBy(a)
    BY <2>1, TransferSent
  <2> QED
    BY <2>2 DEF SentBy
<1>2. PaysEos(p, System, a.from, amt)
  BY DEF PaysEos, Inline
<1>3. Done(<<p>>) /\ Recorded
  BY DEF PayOut, Finish
<1> HIDE DEF p
<1> QED
  BY <1>1, <1>2, <1>3, FrontGoes

\* eosio charges the user.
LEMMA SystemCharges ==
    ASSUME SystemTypeOK, NEW u \in Name \ {Self}, NEW d, NEW s, NEW y, NEW f, NEW x,
           NEW h \in Int, Flow(u, d, s, y, f, x, h),
           NEW a \in Action, NEW rest \in Seq(Action), pending = <<a>> \o rest,
           ForwardingExecute(a), a.kind \in PaidKinds, a.from = u
    PROVE  /\ Price(a) \in Int
           /\ \E p \in Action : PaysEos(p, u, System, Price(a)) /\ Goes(<<p>> \o rest)
           /\ After(u, d, s, y, f, x, h + (IF a.kind \in KeepingKinds THEN Price(a) ELSE 0))
<1>1. SystemExecute(a)
  BY ExecutesSystem DEF PaidKinds, SystemKinds
<1>2. a.amt \in Int /\ a.more \in Int /\ OneEos \in Int
  BY SystemAssumption DEF Action
<1>3. Price(a) \in Int
  BY <1>2 DEF Price
<1>4. /\ UNCHANGED tables /\ Collect(a, Price(a))
      /\ a.kind \notin KeepingKinds => UNCHANGED systemTables
  <2>1. CASE a.kind = "eosio::bidname"
    <3>1. EosioBidname(a)
      BY <1>1, <2>1, SystemByKind
    <3> QED
      BY <2>1, <3>1 DEF EosioBidname, Price
  <2>2. CASE a.kind \in {"eosio::buyram", "eosio::buyramself", "eosio::buyramburn"}
    <3>1. EosioBuyram(a)
      BY <1>1, <2>2, SystemByKind
    <3> QED
      BY <2>2, <3>1 DEF EosioBuyram, Price
  <2>3. CASE a.kind = "eosio::donatetorex"
    <3>1. EosioDonatetorex(a)
      BY <1>1, <2>3, SystemByKind
    <3> QED
      BY <2>3, <3>1 DEF EosioDonatetorex, Price
  <2>4. CASE a.kind = "eosio::powerup"
    <3>1. EosioPowerup(a)
      BY <1>1, <2>4, SystemByKind
    <3> QED
      BY <2>4, <3>1 DEF EosioPowerup, Price
  <2>5. CASE a.kind = "eosio::deposit"
    <3>1. EosioDeposit(a)
      BY <1>1, <2>5, SystemByKind
    <3> QED
      BY <2>5, <3>1 DEF EosioDeposit, Price, KeepingKinds
  <2>6. CASE a.kind = "eosio::delegatebw"
    <3>1. EosioDelegatebw(a)
      BY <1>1, <2>6, SystemByKind
    <3> QED
      BY <2>6, <3>1 DEF EosioDelegatebw, Price, KeepingKinds
  <2> QED
    BY <2>1, <2>2, <2>3, <2>4, <2>5, <2>6 DEF PaidKinds
<1>5. UNCHANGED <<eos, xyz, blocked, supply>>
  BY <1>4 DEF tables
<1>6. HeldMore(a) = IF a.kind \in KeepingKinds THEN Price(a) ELSE 0
  BY DEF HeldMore, KeepingKinds, Price, PaidKinds
<1>7. After(u, d, s, y, f, x, h + HeldMore(a))
  BY <1>1, <1>4, <1>5, SystemMoves
<1>8. \E p \in Action : PaysEos(p, u, System, Price(a)) /\ Goes(<<p>> \o rest)
  BY <1>3, <1>4, Collected
<1> QED
  BY <1>3, <1>6, <1>7, <1>8

\* a has eosio pay the user, or claims no rewards.
Pays(a, rest, u, d, s, y, f, x, h) ==
    \/ /\ a.kind = "eosio::claimrewards" /\ Goes(rest)
       /\ After(u, d, s, y, f, x, h)
    \/ \E p \in Action, b \in Int :
           /\ PaysEos(p, System, u, b) /\ Goes(<<p>> \o rest)
           /\ After(u, d, s, y, f, x, h + (IF a.kind \in KeepingKinds THEN -b ELSE 0))
           /\ a.kind = "eosio::withdraw" => b = a.amt

LEMMA SystemPays ==
    ASSUME SystemTypeOK, NEW u \in Name \ {Self}, NEW d, NEW s, NEW y, NEW f, NEW x,
           NEW h \in Int, Flow(u, d, s, y, f, x, h),
           NEW a \in Action, NEW rest \in Seq(Action), pending = <<a>> \o rest,
           ForwardingExecute(a), a.kind \in PayingKinds, a.from = u
    PROVE  Pays(a, rest, u, d, s, y, f, x, h)
<1>1. SystemExecute(a)
  BY ExecutesSystem DEF PayingKinds, SystemKinds
<1>2. a.amt \in Int /\ OneEos \in Int /\ Rewards \subseteq Int /\ refunds[u] \in Int
  <2>1. refunds \in [Name -> Nat]
    BY DEF SystemTypeOK, IsSystemDatabase, SystemTables
  <2> QED
    BY <2>1, SystemAssumption DEF Action
<1>3. CASE a.kind = "eosio::bidrefund"
  <2>1. UNCHANGED tables /\ UNCHANGED systemTables /\ PayOut(a, OneEos)
    BY <1>1, <1>3, SystemByKind DEF EosioBidrefund
  <2>2. After(u, d, s, y, f, x, h + HeldMore(a)) /\ a.kind \notin KeepingKinds
    BY <1>1, <1>3, <2>1, SystemMoves DEF KeepingKinds, tables
  <2>3. HeldMore(a) = 0
    BY <1>3 DEF HeldMore
  <2>4. \E p \in Action : PaysEos(p, System, u, OneEos) /\ Goes(<<p>> \o rest)
    BY <1>2, <2>1, PaidOut
  <2> QED
    BY <1>2, <1>3, <2>2, <2>3, <2>4 DEF Pays
<1>4. CASE a.kind = "eosio::refund"
  <2>1. UNCHANGED tables /\ PayOut(a, refunds[u])
    BY <1>1, <1>4, SystemByKind DEF EosioRefund
  <2>2. After(u, d, s, y, f, x, h + HeldMore(a)) /\ a.kind \in KeepingKinds
    BY <1>1, <1>4, <2>1, SystemMoves DEF KeepingKinds, tables
  <2>3. HeldMore(a) = -refunds[u]
    BY <1>4 DEF HeldMore
  <2>4. \E p \in Action : PaysEos(p, System, u, refunds[u]) /\ Goes(<<p>> \o rest)
    BY <1>2, <2>1, PaidOut
  <2> QED
    BY <1>2, <1>4, <2>2, <2>3, <2>4 DEF Pays
<1>5. CASE a.kind = "eosio::withdraw"
  <2>1. UNCHANGED tables /\ PayOut(a, a.amt)
    BY <1>1, <1>5, SystemByKind DEF EosioWithdraw
  <2>2. After(u, d, s, y, f, x, h + HeldMore(a)) /\ a.kind \in KeepingKinds
    BY <1>1, <1>5, <2>1, SystemMoves DEF KeepingKinds, tables
  <2>3. HeldMore(a) = -a.amt
    BY <1>5 DEF HeldMore
  <2>4. \E p \in Action : PaysEos(p, System, u, a.amt) /\ Goes(<<p>> \o rest)
    BY <1>2, <2>1, PaidOut
  <2> QED
    BY <1>2, <2>2, <2>3, <2>4 DEF Pays
<1>6. CASE a.kind = "eosio::claimrewards"
  <2>1. PICK reward \in Rewards : IF reward = 0 THEN Finish(<<>>) ELSE PayOut(a, reward)
    BY <1>1, <1>6, SystemByKind DEF EosioClaimrewards
  <2>2. UNCHANGED tables /\ UNCHANGED systemTables
    BY <1>1, <1>6, SystemByKind DEF EosioClaimrewards
  <2>3. After(u, d, s, y, f, x, h) /\ a.kind \notin KeepingKinds
    BY <1>6, <2>2, NothingMoves DEF KeepingKinds, tables
  <2>4. CASE reward = 0
    <3>1. Goes(rest)
      BY <2>1, <2>4, FrontGoes DEF Finish
    <3> QED
      BY <1>6, <2>3, <3>1 DEF Pays
  <2>5. CASE reward # 0
    <3>1. \E p \in Action : PaysEos(p, System, u, reward) /\ Goes(<<p>> \o rest)
      BY <1>2, <2>1, <2>5, PaidOut
    <3>2. reward \in Int /\ h + 0 = h
      BY <1>2
    <3> QED
      BY <1>6, <2>3, <3>1, <3>2 DEF Pays
  <2> QED
    BY <2>4, <2>5
<1> QED
  BY <1>3, <1>4, <1>5, <1>6 DEF PayingKinds

\* eosio pays for RAM, and takes its fee before.
LEMMA SystemBuysRam ==
    ASSUME SystemTypeOK, NEW u \in Name \ {Self}, NEW d, NEW s, NEW y, NEW f, NEW x,
           NEW h \in Int, Flow(u, d, s, y, f, x, h),
           NEW a \in Action, NEW rest \in Seq(Action), pending = <<a>> \o rest,
           ForwardingExecute(a), a.kind = "eosio::sellram", a.from = u
    PROVE  /\ After(u, d, s, y, f, x, h)
           /\ \E p \in Action, b \in Int :
                  /\ PaysEos(p, System, u, b)
                  /\ \/ Goes(<<p>> \o rest)
                     \/ \E q \in Action : \E fee \in 1 .. b :
                            PaysEos(q, u, RamFee, fee) /\ Goes(<<q>> \o (<<p>> \o rest))
<1>1. EosioSellram(a)
  BY ExecutesSystem, SystemByKind DEF SystemKinds
<1>2. After(u, d, s, y, f, x, h)
  BY <1>1, NothingMoves DEF EosioSellram, tables
<1> DEFINE b == GetBancorOutput(market.ram, market.eos, a.amt % ByteRange)
           fee == SellFee(b)
           q == Inline(a, "eosio.token::transfer", a.from, RamFee, "EOS", fee, {a.from})
           p == Inline(a, "eosio.token::transfer", System, a.from, "EOS", b, {System})
<1>3. RamFee \in Name /\ u \in Name /\ a.amt \in Int /\ ByteRange \in Nat \ {0}
  BY SystemAssumption, NamesAssumption DEF Action
<1>4. market.ram \in Nat /\ market.eos \in Nat
  BY <1>1 DEF EosioSellram, EosioSellramOk, SystemTypeOK, IsSystemDatabase, SystemTables, Market
<1>5. a.amt % ByteRange \in Nat
  BY <1>3
<1>6. b \in Int
  BY <1>4, <1>5 DEF GetBancorOutput
<1>7. Done((IF fee > 0 THEN <<q>> ELSE <<>>) \o <<p>>) /\ Recorded
  BY <1>1 DEF EosioSellram, Finish
<1> HIDE DEF b
<1>8. fee \in Int /\ (fee > 0 => fee \in 1 .. b)
  BY <1>6 DEF SellFee
<1> HIDE DEF fee
<1>9. PaysEos(p, System, u, b) /\ PaysEos(q, u, RamFee, fee)
  BY DEF PaysEos, Inline
<1>10. p \in Action /\ q \in Action
  <2>1. p \in SentBy(a) /\ q \in SentBy(a)
    BY <1>3, <1>6, <1>8, TransferSent
  <2> QED
    BY <2>1 DEF SentBy
<1> HIDE DEF p, q
<1>11. CASE fee > 0
  <2>1. Goes(<<q>> \o (<<p>> \o rest))
    BY <1>7, <1>10, <1>11, FrontGoes
  <2> QED
    BY <1>2, <1>6, <1>8, <1>9, <1>10, <1>11, <2>1
<1>12. CASE ~(fee > 0)
  <2>1. <<>> \o <<p>> = <<p>>
    BY <1>10, ConcatEmptySeq
  <2>2. Goes(<<p>> \o rest)
    BY <1>7, <1>10, <1>12, <2>1, FrontGoes
  <2> QED
    BY <1>2, <1>6, <1>9, <1>10, <2>2
<1> QED
  BY <1>11, <1>12

\* eosio's buyrambytes asks for a buyram.
LEMMA SystemPrices ==
    ASSUME SystemTypeOK, NEW u \in Name \ {Self}, NEW d, NEW s, NEW y, NEW f, NEW x,
           NEW h \in Int, Flow(u, d, s, y, f, x, h),
           NEW a \in Action, NEW rest \in Seq(Action), pending = <<a>> \o rest,
           ForwardingExecute(a), a.kind = "eosio::buyrambytes", a.from = u
    PROVE  /\ After(u, d, s, y, f, x, h)
           /\ \E k \in Action : /\ k.kind = "eosio::buyram" /\ k.from = u
                                /\ Goes(<<k>> \o rest)
<1>1. EosioBuyrambytes(a)
  BY ExecutesSystem, SystemByKind DEF SystemKinds
<1>2. After(u, d, s, y, f, x, h)
  BY <1>1, NothingMoves DEF EosioBuyrambytes, tables
<1>3. PICK cost \in RamCosts(a.amt) :
          Finish(<<Inline(a, "eosio::buyram", a.from, a.to, "EOS", cost, {a.from})>>)
  BY <1>1 DEF EosioBuyrambytes
<1> DEFINE k == Inline(a, "eosio::buyram", a.from, a.to, "EOS", cost, {a.from})
<1>4. k \in Action
  <2>1. a.amt \in Int /\ a.to \in Name
    BY DEF Action
  <2>2. cost \in Int
    BY <1>3, <2>1, RamCostsType
  <2>3. "eosio::buyram" \in SystemKinds \ Setters /\ "EOS" \in Symbols
    BY DEF SystemKinds, Setters, Symbols
  <2>4. k \in SentBy(a)
    BY <2>1, <2>2, <2>3, CallSent
  <2> QED
    BY <2>4 DEF SentBy
<1>5. k.kind = "eosio::buyram" /\ k.from = u
  BY DEF Inline
<1>6. Done(<<k>>) /\ Recorded
  BY <1>3 DEF Finish
<1> HIDE DEF k
<1>7. Goes(<<k>> \o rest)
  BY <1>4, <1>6, FrontGoes
<1> QED
  BY <1>2, <1>4, <1>5, <1>7

\* What moves no EOS, and no EOS that eosio holds.
LEMMA SystemKeepsStill ==
    ASSUME SystemTypeOK, NEW u \in Name \ {Self}, NEW d, NEW s, NEW y, NEW f, NEW x,
           NEW h \in Int, Flow(u, d, s, y, f, x, h),
           NEW a \in Action, NEW rest \in Seq(Action), pending = <<a>> \o rest,
           ForwardingExecute(a), a.kind \in QuietKinds \cup {"eosio::undelegatebw"},
           a.from = u
    PROVE  Goes(rest) /\ After(u, d, s, y, f, x, h)
<1>1. SystemExecute(a)
  BY ExecutesSystem DEF SystemKinds
<1>2. CASE a.kind \in QuietKinds
  <2>1. EosioQuiet(a)
    BY <1>1, <1>2, SystemByKind
  <2> QED
    BY <2>1, NothingMoves, FrontGoes DEF EosioQuiet, Finish, tables
<1>3. CASE a.kind = "eosio::undelegatebw"
  <2>1. EosioUndelegatebw(a)
    BY <1>1, <1>3, SystemByKind
  <2>2. UNCHANGED <<eos, xyz, blocked, supply>> /\ Done(<<>>) /\ Recorded
    BY <2>1 DEF EosioUndelegatebw, Finish, tables
  <2>3. HeldMore(a) = 0 /\ h + 0 = h
    BY <1>3 DEF HeldMore
  <2>4. After(u, d, s, y, f, x, h + HeldMore(a))
    BY <1>1, <1>3, <2>2, SystemMoves
  <2> QED
    BY <2>2, <2>3, <2>4, FrontGoes
<1> QED
  BY <1>2, <1>3

-----------------------------------------------------------------------------
(* The stages of a call of u                                               *)
(*                                                                         *)
(* A transaction of one call is in one of these stages whenever an action  *)
(* of it is pending.                                                       *)

\* Calls of the contract whose XYZ ends up in what eosio holds, or comes from there.
KeptKinds == {"delegatebw", "undelegatebw", "refund", "deposit", "withdraw"}
Keeps == running[1].kind \in KeptKinds

\* The last action swaps what u has more than at first, or checks that it is nothing.
ExcessEnd(u, E) ==
    \E l \in Action : E = <<l>> /\ l.kind = "swapexcess" /\ l.from = u /\ l.amt = saved.eos[u]
CheckEnd(u, E) ==
    \E l \in Action : E = <<l>> /\ l.kind = "enforcebal" /\ l.from = u /\ l.amt = saved.eos[u]

\* It swaps amt.
BackEnd(u, E, amt) == \E l \in Action : E = <<l>> /\ PaysEos(l, u, Self, amt)

\* E makes good that u has d EOS more than at first.
Due(u, E, d) ==
    \/ E = <<>> /\ d = 0
    \/ ExcessEnd(u, E) /\ d >= 0
    \/ CheckEnd(u, E)
    \/ BackEnd(u, E, d)

\* eosio has got y EOS, eosio.ramfee f, and eosio holds h more for u.
Right(y, f, h) ==
    /\ f \in Nat
    /\ f > 0 => y + f <= 0 /\ ~Keeps
    /\ h = IF Keeps THEN y ELSE 0

\* k has eosio charge what u has got for amt XYZ.
Charging(u, k, E, amt) ==
    /\ k.from = u
    /\ \/ /\ k.kind \in PaidKinds
          /\ k.kind \in KeepingKinds <=> Keeps
          /\ Due(u, E, amt - Price(k))
       \/ k.kind = "eosio::buyrambytes" /\ ~Keeps /\ CheckEnd(u, E)

\* u has paid XYZ, and is to get EOS for it.
Traced(u) ==
    \E t, c, k \in Action : \E E \in Seq(Action) : \E amt \in Int :
        /\ pending = <<t>> \o (<<c>> \o (<<k>> \o E))
        /\ t.kind = "swaptrace" /\ PaysEos(c, Self, u, amt) /\ Charging(u, k, E, amt)
        /\ Flow(u, 0, 0, 0, 0, -amt, 0)

Credited(u) ==
    \E c, k \in Action : \E E \in Seq(Action) : \E amt \in Int :
        /\ pending = <<c>> \o (<<k>> \o E)
        /\ PaysEos(c, Self, u, amt) /\ Charging(u, k, E, amt)
        /\ Flow(u, 0, 0, 0, 0, -amt, 0)

\* u has the EOS, eosio is to charge it.
Called(u) ==
    \E k \in Action : \E E \in Seq(Action) : \E amt \in Int :
        /\ pending = <<k>> \o E
        /\ Charging(u, k, E, amt)
        /\ Flow(u, amt, -amt, 0, 0, -amt, 0)

Charged(u) ==
    \E p \in Action : \E E \in Seq(Action) : \E amt, b, h \in Int :
        /\ pending = <<p>> \o E
        /\ PaysEos(p, u, System, b) /\ Due(u, E, amt - b) /\ Right(b, 0, h)
        /\ Flow(u, amt, -amt, 0, 0, -amt, h)

\* eosio is to pay u.
Claiming(u) ==
    \E k \in Action : \E E \in Seq(Action) :
        /\ pending = <<k>> \o E /\ k.from = u
        /\ \/ k.kind \in PayingKinds \cup {"eosio::sellram"} /\ ExcessEnd(u, E)
           \/ k.kind = "eosio::withdraw" /\ BackEnd(u, E, k.amt)
        /\ k.kind \in KeepingKinds <=> Keeps
        /\ Flow(u, 0, 0, 0, 0, 0, 0)

FeeTaken(u) ==
    \E q, p \in Action : \E E \in Seq(Action) : \E b, fee \in Int :
        /\ fee \in 1 .. b /\ pending = <<q>> \o (<<p>> \o E)
        /\ PaysEos(q, u, RamFee, fee) /\ PaysEos(p, System, u, b)
        /\ ExcessEnd(u, E) /\ ~Keeps
        /\ Flow(u, 0, 0, 0, 0, 0, 0)

PaidBy(u) ==
    \E p \in Action : \E E \in Seq(Action) : \E b, d, h \in Int : \E fee \in Nat :
        /\ pending = <<p>> \o E
        /\ PaysEos(p, System, u, b)
        /\ ExcessEnd(u, E) \/ (fee = 0 /\ BackEnd(u, E, b))
        /\ fee <= b \/ fee = 0
        /\ d + fee = 0 /\ Right(-b, fee, h)
        /\ Flow(u, d, 0, 0, fee, 0, h)

\* The last action makes good what u has too much.
Ending(u) ==
    \E d, s, y, f, h \in Int :
        /\ pending # <<>> /\ Due(u, pending, d)
        /\ d + s + y + f = 0 /\ Right(y, f, h)
        /\ Flow(u, d, s, y, f, s, h)

\* u is to get XYZ for EOS that was too much.
Swapped(u) ==
    \E z \in Action : \E amt, s, y, f, h \in Int :
        /\ pending = <<z>> /\ PaysXyz(z, Self, u, amt)
        /\ s + y + f = 0 /\ Right(y, f, h)
        /\ Flow(u, 0, s, y, f, s - amt, h)

\* eosio is called, and no EOS moves.
Passed(u) ==
    \E k \in Action :
        /\ pending = <<k>> /\ k.from = u
        /\ k.kind \in QuietKinds \cup {"eosio::undelegatebw"}
        /\ Flow(u, 0, 0, 0, 0, 0, 0)

Trading(u) ==
    /\ Len(pending) = 1 /\ Passes(pending[1], running[1]) /\ running[1].kind \in TradeKinds
    /\ TablesAsSaved /\ SystemAsSaved

Stage(u) ==
    \/ Traced(u) \/ Credited(u) \/ Called(u) \/ Charged(u)
    \/ Claiming(u) \/ FeeTaken(u) \/ PaidBy(u)
    \/ Ending(u) \/ Swapped(u) \/ Passed(u) \/ Trading(u)

\* What a call of u that is done has moved.
Outcome(u) ==
    \/ \E s, y, f, h \in Int :
           s + y + f = 0 /\ Right(y, f, h) /\ After(u, 0, s, y, f, s, h)
    \/ u \in Ignored /\ \E s, y, f, x, h \in Int : After(u, 0, s, y, f, x, h)
    \/ /\ running[1].kind \in TradeKinds
       /\ eos' = saved.eos /\ xyz' = saved.xyz

Proceeds(u) ==
    \/ /\ pending' # <<>> /\ saved' = saved /\ savedSystem' = savedSystem
       /\ running' = running /\ Stage(u)'
    \/ Goes(<<>>) /\ Outcome(u)

LEMMA FrontSeq ==
    ASSUME NEW a \in Action, NEW rest \in Seq(Action)
    PROVE  <<a>> \o rest \in Seq(Action) /\ <<a>> \o rest # <<>>
<1>1. <<a>> \in Seq(Action) /\ Len(<<a>>) = 1
  OBVIOUS
<1>2. /\ <<a>> \o rest \in Seq(Action) /\ Len(<<a>> \o rest) = 1 + Len(rest)
      /\ Len(rest) \in Nat
  BY <1>1, ConcatProperties, LenProperties
<1> QED
  BY <1>2, EmptySeq

LEMMA SameCall ==
    ASSUME saved' = saved, running' = running, NEW u, NEW E
    PROVE  /\ Keeps' = Keeps /\ ExcessEnd(u, E)' = ExcessEnd(u, E)
           /\ CheckEnd(u, E)' = CheckEnd(u, E)
           /\ \A d : Due(u, E, d)' = Due(u, E, d)
           /\ \A y, f, h : Right(y, f, h)' = Right(y, f, h)
           /\ \A k, amt : Charging(u, k, E, amt)' = Charging(u, k, E, amt)
  BY DEF Keeps, ExcessEnd, CheckEnd, BackEnd, Due, Right, Charging

LEMMA ChecksByKind ==
    ASSUME NEW a, ForwardingExecute(a)
    PROVE  /\ a.kind = "swaptrace" => Swaptrace(a)
           /\ a.kind = "swapexcess" => Swapexcess(a)
           /\ a.kind = "enforcebal" => Enforcebal(a)
<1>1. a.kind \in {"swaptrace", "swapexcess", "enforcebal"} => ~TokenStep(a) /\ ~SystemExecute(a)
  BY DEF TokenStep, Execute, EosTransfer, Transfer, Open, Close, InitToken, SwapTo, BlockSwapTo,
         SystemExecute, QuietKinds, EosioBidname, EosioBidrefund, EosioBuyram,
         EosioBuyrambytes, EosioSellram, EosioDonatetorex, EosioPowerup, Setrammarket,
         EosioClaimrewards, EosioQuiet, EosioDelegatebw, EosioUndelegatebw, EosioRefund,
         EosioDeposit, EosioWithdraw, Setrex, EosioBuyrex, EosioMvfrsavings, EosioSellrex
<1> QED
  BY <1>1
     DEF ForwardingExecute, Bidname, Buyram, Buyramburn, Buyramself,
         Buyrambytes, Deposit, Powerup, Delegatebw, Donatetorex, Bidrefund, Sellram, Refund,
         Claimrewards, Withdraw, Buyrex, Undelegatebw, Unstaketorex, Ramburn, Ramtransfer,
         Mvfrsavings, Mvtosavings, Sellrex, Newaccount, Voteproducer, Voteupdate, Linkauth,
         Unlinkauth, Updateauth, Deleteauth, Setabi, Setcode, Giftram, Ungiftram, Noop,
         Swaptrace, Enforcebal, Swapexcess

-----------------------------------------------------------------------------
(* How each stage goes on                                                  *)

LEMMA StillGoing ==
    ASSUME NEW p, Goes(p), p # <<>>
    PROVE  /\ pending' = p /\ pending' # <<>>
           /\ saved' = saved /\ savedSystem' = savedSystem /\ running' = running
  BY DEF Goes

LEMMA NextStage ==
    ASSUME NEW p, Goes(p), p # <<>>, NEW u, Stage(u)'
    PROVE  Proceeds(u)
  BY StillGoing DEF Proceeds

LEMMA TracedProceeds ==
    ASSUME SystemTypeOK, NEW u \in Name \ {Self}, u \notin Coded, Traced(u),
           ForwardingExecute(Head(pending))
    PROVE  Proceeds(u)
<1>1. PICK t \in Action, c \in Action, k \in Action, E \in Seq(Action), amt \in Int :
          /\ pending = <<t>> \o (<<c>> \o (<<k>> \o E))
          /\ t.kind = "swaptrace" /\ PaysEos(c, Self, u, amt) /\ Charging(u, k, E, amt)
          /\ Flow(u, 0, 0, 0, 0, -amt, 0)
  BY DEF Traced
<1> DEFINE rest == <<c>> \o (<<k>> \o E)
<1>2. rest \in Seq(Action) /\ rest # <<>>
  BY FrontSeq
<1> HIDE DEF rest
<1>3. pending = <<t>> \o rest
  BY <1>1 DEF rest
<1>4. Swaptrace(t)
  BY <1>1, <1>2, <1>3, FrontStep, ChecksByKind
<1>5. Goes(rest)
  BY <1>2, <1>3, <1>4, FrontGoes DEF Swaptrace, Finish
<1>6. After(u, 0, 0, 0, 0, -amt, 0)
  BY <1>1, <1>4, NothingMoves DEF Swaptrace, tables
<1>7. /\ pending' = rest /\ saved' = saved /\ savedSystem' = savedSystem /\ running' = running
  BY <1>2, <1>5, StillGoing
<1>8. Flow(u, 0, 0, 0, 0, -amt, 0)' /\ Charging(u, k, E, amt)'
  BY <1>1, <1>6, <1>7, AfterIsFlow, SameCall
<1>9. Credited(u)'
  BY <1>1, <1>7, <1>8 DEF Credited, rest
<1> QED
  BY <1>2, <1>5, <1>9, NextStage DEF Stage

LEMMA CreditedProceeds ==
    ASSUME SystemTypeOK, NEW u \in Name \ {Self}, u \notin Coded, Credited(u),
           ForwardingExecute(Head(pending))
    PROVE  Proceeds(u)
<1>1. PICK c \in Action, k \in Action, E \in Seq(Action), amt \in Int :
          /\ pending = <<c>> \o (<<k>> \o E)
          /\ PaysEos(c, Self, u, amt) /\ Charging(u, k, E, amt)
          /\ Flow(u, 0, 0, 0, 0, -amt, 0)
  BY DEF Credited
<1> DEFINE rest == <<k>> \o E
<1>2. rest \in Seq(Action) /\ rest # <<>>
  BY FrontSeq
<1> HIDE DEF rest
<1>3. pending = <<c>> \o rest
  BY <1>1 DEF rest
<1>4. ForwardingExecute(c)
  BY <1>2, <1>3, FrontStep
<1>5. Goes(rest) /\ After(u, 0 + amt, 0 - amt, 0, 0, -amt, 0)
  <2>1. 0 \in Int /\ -amt \in Int
    OBVIOUS
  <2> QED
    BY <1>1, <1>2, <1>3, <1>4, <2>1, SelfPaysUser, Zenon
<1>6. After(u, amt, -amt, 0, 0, -amt, 0)
  <2>1. 0 + amt = amt /\ 0 - amt = -amt
    OBVIOUS
  <2> QED
    BY <1>5, <2>1, Zenon
<1>7. /\ pending' = rest /\ saved' = saved /\ savedSystem' = savedSystem /\ running' = running
  BY <1>2, <1>5, StillGoing
<1>8. Flow(u, amt, -amt, 0, 0, -amt, 0)' /\ Charging(u, k, E, amt)'
  BY <1>1, <1>6, <1>7, AfterIsFlow, SameCall
<1>9. Called(u)'
  BY <1>1, <1>7, <1>8 DEF Called, rest
<1> QED
  BY <1>2, <1>5, <1>9, NextStage DEF Stage

LEMMA CalledProceeds ==
    ASSUME SystemTypeOK, NEW u \in Name \ {Self}, u \notin Coded, Called(u),
           ForwardingExecute(Head(pending))
    PROVE  Proceeds(u)
<1>1. PICK k \in Action, E \in Seq(Action), amt \in Int :
          /\ pending = <<k>> \o E
          /\ Charging(u, k, E, amt)
          /\ Flow(u, amt, -amt, 0, 0, -amt, 0)
  BY DEF Called
<1>2. ForwardingExecute(k) /\ k.from = u
  BY <1>1, FrontStep DEF Charging
<1>3. CASE /\ k.kind \in PaidKinds
           /\ k.kind \in KeepingKinds <=> Keeps
           /\ Due(u, E, amt - Price(k))
  <2> DEFINE b == Price(k)
             h == 0 + (IF k.kind \in KeepingKinds THEN Price(k) ELSE 0)
  <2>1. /\ b \in Int
        /\ \E p \in Action : PaysEos(p, u, System, b) /\ Goes(<<p>> \o E)
        /\ After(u, amt, -amt, 0, 0, -amt, h)
    <3>1. 0 \in Int
      OBVIOUS
    <3> QED
      BY <1>1, <1>2, <1>3, <3>1, SystemCharges, Zenon
  <2>2. PICK p \in Action : PaysEos(p, u, System, b) /\ Goes(<<p>> \o E)
    BY <2>1
  <2>3. h \in Int /\ Right(b, 0, h)
    BY <1>3, <2>1 DEF Right
  <2>4. Due(u, E, amt - b)
    BY <1>3
  <2> HIDE DEF b, h
  <2>5. <<p>> \o E # <<>>
    BY FrontSeq
  <2>6. /\ pending' = <<p>> \o E
        /\ saved' = saved /\ savedSystem' = savedSystem /\ running' = running
    BY <2>2, <2>5, StillGoing
  <2>7. /\ Flow(u, amt, -amt, 0, 0, -amt, h)'
        /\ Due(u, E, amt - b)' /\ Right(b, 0, h)'
    BY <2>1, <2>3, <2>4, <2>6, AfterIsFlow, SameCall
  <2>8. Charged(u)'
    BY <2>1, <2>2, <2>3, <2>6, <2>7 DEF Charged
  <2> QED
    BY <2>2, <2>5, <2>8, NextStage DEF Stage
<1>4. CASE k.kind = "eosio::buyrambytes" /\ ~Keeps /\ CheckEnd(u, E)
  <2> 0 \in Int
    OBVIOUS
  <2>1. After(u, amt, -amt, 0, 0, -amt, 0)
    BY <1>1, <1>2, <1>4, SystemPrices, Zenon
  <2>2. PICK j \in Action : j.kind = "eosio::buyram" /\ j.from = u /\ Goes(<<j>> \o E)
    BY <1>1, <1>2, <1>4, SystemPrices, Zenon
  <2>3. Charging(u, j, E, amt)
    BY <1>4, <2>2 DEF Charging, PaidKinds, KeepingKinds, Due
  <2>4. <<j>> \o E # <<>>
    BY FrontSeq
  <2>5. /\ pending' = <<j>> \o E
        /\ saved' = saved /\ savedSystem' = savedSystem /\ running' = running
    BY <2>2, <2>4, StillGoing
  <2>6. Flow(u, amt, -amt, 0, 0, -amt, 0)' /\ Charging(u, j, E, amt)'
    BY <2>1, <2>3, <2>5, AfterIsFlow, SameCall
  <2>7. Called(u)'
    BY <2>5, <2>6 DEF Called
  <2> QED
    BY <2>2, <2>4, <2>7, NextStage DEF Stage
<1> QED
  BY <1>1, <1>3, <1>4 DEF Charging

\* All that is left is to make good what u has too much, if that.
LEMMA EndNears ==
    ASSUME NEW u, NEW E, NEW d \in Int, NEW s \in Int, NEW y \in Int, NEW f \in Int,
           NEW h \in Int, Goes(E), Due(u, E, d), d + s + y + f = 0, Right(y, f, h),
           After(u, d, s, y, f, s, h)
    PROVE  Proceeds(u)
<1>1. CASE E = <<>>
  <2>1. d = 0
    BY <1>1 DEF Due, ExcessEnd, CheckEnd, BackEnd
  <2>2. s + y + f = 0 /\ After(u, 0, s, y, f, s, h)
    BY <2>1
  <2>3. Outcome(u)
    BY <2>2 DEF Outcome
  <2> QED
    BY <1>1, <2>3 DEF Proceeds
<1>2. CASE E # <<>>
  <2>1. /\ pending' = E /\ pending' # <<>>
        /\ saved' = saved /\ savedSystem' = savedSystem /\ running' = running
    BY <1>2, StillGoing
  <2>2. Flow(u, d, s, y, f, s, h)' /\ Due(u, E, d)' /\ Right(y, f, h)'
    BY <2>1, AfterIsFlow, SameCall
  <2>3. Ending(u)'
    BY <2>1, <2>2 DEF Ending
  <2> QED
    BY <1>2, <2>3, NextStage DEF Stage
<1> QED
  BY <1>1, <1>2

LEMMA ChargedProceeds ==
    ASSUME SystemTypeOK, NEW u \in Name \ {Self}, u \notin Coded, Charged(u),
           ForwardingExecute(Head(pending))
    PROVE  Proceeds(u)
<1>1. PICK p \in Action, E \in Seq(Action), amt \in Int, b \in Int, h \in Int :
          /\ pending = <<p>> \o E
          /\ PaysEos(p, u, System, b) /\ Due(u, E, amt - b) /\ Right(b, 0, h)
          /\ Flow(u, amt, -amt, 0, 0, -amt, h)
  BY DEF Charged
<1>2. ForwardingExecute(p)
  BY <1>1, FrontStep
<1>3. 0 \in Int /\ -amt \in Int
  OBVIOUS
<1>4. Goes(E) /\ After(u, amt - b, -amt, 0 + b, 0, -amt, h)
  BY <1>1, <1>2, <1>3, UserPaysSystem, Zenon
<1>5. /\ 0 + b = b /\ amt - b \in Int
      /\ (amt - b) + (-amt) + b + 0 = 0
  OBVIOUS
<1>6. After(u, amt - b, -amt, b, 0, -amt, h)
  BY <1>4, <1>5, Zenon
<1> QED
  BY <1>1, <1>3, <1>4, <1>5, <1>6, EndNears, Zenon

LEMMA ClaimingProceeds ==
    ASSUME SystemTypeOK, NEW u \in Name \ {Self}, u \notin Coded, Claiming(u),
           ForwardingExecute(Head(pending))
    PROVE  Proceeds(u)
<1>1. PICK k \in Action, E \in Seq(Action) :
          /\ pending = <<k>> \o E /\ k.from = u
          /\ \/ k.kind \in PayingKinds \cup {"eosio::sellram"} /\ ExcessEnd(u, E)
             \/ k.kind = "eosio::withdraw" /\ BackEnd(u, E, k.amt)
          /\ k.kind \in KeepingKinds <=> Keeps
          /\ Flow(u, 0, 0, 0, 0, 0, 0)
  BY DEF Claiming
<1>2. ForwardingExecute(k)
  BY <1>1, FrontStep
<1> 0 \in Int /\ 0 \in Nat /\ 0 + 0 = 0
  OBVIOUS
<1>3. CASE k.kind = "eosio::sellram"
  <2>1. ExcessEnd(u, E) /\ ~Keeps
    BY <1>1, <1>3 DEF KeepingKinds
  <2>2. /\ After(u, 0, 0, 0, 0, 0, 0)
        /\ \E p \in Action, b \in Int :
               /\ PaysEos(p, System, u, b)
               /\ \/ Goes(<<p>> \o E)
                  \/ \E q \in Action : \E fee \in 1 .. b :
                         PaysEos(q, u, RamFee, fee) /\ Goes(<<q>> \o (<<p>> \o E))
    BY <1>1, <1>2, <1>3, SystemBuysRam, Zenon
  <2>3. PICK p \in Action, b \in Int :
            /\ PaysEos(p, System, u, b)
            /\ \/ Goes(<<p>> \o E)
               \/ \E q \in Action : \E fee \in 1 .. b :
                      PaysEos(q, u, RamFee, fee) /\ Goes(<<q>> \o (<<p>> \o E))
    BY <2>2
  <2> DEFINE rest == <<p>> \o E
  <2>4. rest \in Seq(Action) /\ rest # <<>>
    BY FrontSeq
  <2>5. CASE Goes(<<p>> \o E)
    <3> HIDE DEF rest
    <3>1. /\ pending' = rest
          /\ saved' = saved /\ savedSystem' = savedSystem /\ running' = running
      BY <2>4, <2>5, StillGoing DEF rest
    <3>2. Right(-b, 0, 0)
      BY <2>1 DEF Right
    <3>3. Flow(u, 0, 0, 0, 0, 0, 0)' /\ ExcessEnd(u, E)' /\ Right(-b, 0, 0)'
      BY <2>1, <2>2, <3>1, <3>2, AfterIsFlow, SameCall
    <3>4. PaidBy(u)'
      BY <2>3, <3>1, <3>3, Zenon DEF PaidBy, rest
    <3> QED
      BY <2>4, <2>5, <3>4, NextStage DEF Stage, rest
  <2>6. CASE \E q \in Action : \E fee \in 1 .. b :
                 PaysEos(q, u, RamFee, fee) /\ Goes(<<q>> \o (<<p>> \o E))
    <3>1. PICK q \in Action, fee \in 1 .. b :
              PaysEos(q, u, RamFee, fee) /\ Goes(<<q>> \o rest)
      BY <2>6
    <3> fee \in Int
      OBVIOUS
    <3> HIDE DEF rest
    <3>2. <<q>> \o rest # <<>>
      BY <2>4, FrontSeq
    <3>3. /\ pending' = <<q>> \o rest
          /\ saved' = saved /\ savedSystem' = savedSystem /\ running' = running
      BY <3>1, <3>2, StillGoing
    <3>4. Flow(u, 0, 0, 0, 0, 0, 0)' /\ ExcessEnd(u, E)' /\ ~Keeps'
      BY <2>1, <2>2, <3>3, AfterIsFlow, SameCall
    <3>5. FeeTaken(u)'
      BY <2>3, <3>1, <3>3, <3>4, Zenon DEF FeeTaken, rest
    <3> QED
      BY <3>1, <3>2, <3>5, NextStage DEF Stage
  <2> QED
    BY <2>3, <2>5, <2>6
<1>4. CASE k.kind \in PayingKinds
  <2>1. \/ /\ k.kind = "eosio::claimrewards" /\ Goes(E)
           /\ After(u, 0, 0, 0, 0, 0, 0)
        \/ \E p \in Action, b \in Int :
               /\ PaysEos(p, System, u, b) /\ Goes(<<p>> \o E)
               /\ After(u, 0, 0, 0, 0, 0, 0 + (IF k.kind \in KeepingKinds THEN -b ELSE 0))
               /\ k.kind = "eosio::withdraw" => b = k.amt
    <3>1. Pays(k, E, u, 0, 0, 0, 0, 0, 0)
      BY <1>1, <1>2, <1>4, SystemPays, Zenon
    <3> QED
      BY <3>1 DEF Pays
  <2>2. CASE k.kind = "eosio::claimrewards" /\ Goes(E) /\ After(u, 0, 0, 0, 0, 0, 0)
    <3>1. ExcessEnd(u, E) /\ ~Keeps
      BY <1>1, <2>2 DEF KeepingKinds
    <3>2. Due(u, E, 0) /\ Right(0, 0, 0) /\ 0 + 0 + 0 + 0 = 0
      BY <3>1 DEF Due, Right
    <3> QED
      BY <2>2, <3>2, EndNears, Zenon
  <2>3. CASE \E p \in Action, b \in Int :
                 /\ PaysEos(p, System, u, b) /\ Goes(<<p>> \o E)
                 /\ After(u, 0, 0, 0, 0, 0, 0 + (IF k.kind \in KeepingKinds THEN -b ELSE 0))
                 /\ k.kind = "eosio::withdraw" => b = k.amt
    <3>1. PICK p \in Action, b \in Int :
              /\ PaysEos(p, System, u, b) /\ Goes(<<p>> \o E)
              /\ After(u, 0, 0, 0, 0, 0, 0 + (IF k.kind \in KeepingKinds THEN -b ELSE 0))
              /\ k.kind = "eosio::withdraw" => b = k.amt
      BY <2>3
    <3> DEFINE h == 0 + (IF k.kind \in KeepingKinds THEN -b ELSE 0)
    <3>2. h \in Int /\ Right(-b, 0, h)
      BY <1>1 DEF Right
    <3>3. After(u, 0, 0, 0, 0, 0, h)
      BY <3>1
    <3>4. ExcessEnd(u, E) \/ BackEnd(u, E, b)
      BY <1>1, <3>1 DEF PayingKinds
    <3> HIDE DEF h
    <3>5. <<p>> \o E # <<>>
      BY FrontSeq
    <3>6. /\ pending' = <<p>> \o E
          /\ saved' = saved /\ savedSystem' = savedSystem /\ running' = running
      BY <3>1, <3>5, StillGoing
    <3>7. Flow(u, 0, 0, 0, 0, 0, h)' /\ Right(-b, 0, h)'
      BY <3>2, <3>3, <3>6, AfterIsFlow, SameCall
    <3>8. ExcessEnd(u, E)' \/ BackEnd(u, E, b)'
      <4>1. ExcessEnd(u, E)' = ExcessEnd(u, E)
        BY <3>6, SameCall
      <4> QED
        BY <3>4, <4>1 DEF BackEnd
    <3>9. PaidBy(u)'
      BY <3>1, <3>2, <3>6, <3>7, <3>8, Zenon DEF PaidBy
    <3> QED
      BY <3>1, <3>5, <3>9, NextStage DEF Stage
  <2> QED
    BY <2>1, <2>2, <2>3
<1> QED
  BY <1>1, <1>3, <1>4 DEF PayingKinds

LEMMA FeeTakenProceeds ==
    ASSUME SystemTypeOK, NEW u \in Name \ {Self}, u \notin Coded, FeeTaken(u),
           ForwardingExecute(Head(pending))
    PROVE  Proceeds(u)
<1>1. PICK q \in Action, p \in Action, E \in Seq(Action), b \in Int, fee \in Int :
          /\ fee \in 1 .. b /\ pending = <<q>> \o (<<p>> \o E)
          /\ PaysEos(q, u, RamFee, fee) /\ PaysEos(p, System, u, b)
          /\ ExcessEnd(u, E) /\ ~Keeps
          /\ Flow(u, 0, 0, 0, 0, 0, 0)
  BY DEF FeeTaken
<1> DEFINE rest == <<p>> \o E
<1>2. rest \in Seq(Action) /\ rest # <<>>
  BY FrontSeq
<1> HIDE DEF rest
<1>3. pending = <<q>> \o rest
  BY <1>1 DEF rest
<1>4. ForwardingExecute(q)
  BY <1>2, <1>3, FrontStep
<1>5. 0 \in Int /\ fee \in Nat /\ 0 + fee = fee /\ 0 - fee \in Int /\ (0 - fee) + fee = 0
      /\ fee <= b
  BY <1>1
<1>6. Goes(rest) /\ After(u, 0 - fee, 0, 0, 0 + fee, 0, 0)
  BY <1>1, <1>2, <1>3, <1>4, <1>5, UserPaysFee, Zenon
<1>7. Right(-b, fee, 0)
  BY <1>1, <1>5 DEF Right
<1>8. /\ pending' = rest /\ saved' = saved /\ savedSystem' = savedSystem /\ running' = running
  BY <1>2, <1>6, StillGoing
<1>9. Flow(u, 0 - fee, 0, 0, fee, 0, 0)' /\ ExcessEnd(u, E)' /\ Right(-b, fee, 0)'
  <2>1. After(u, 0 - fee, 0, 0, fee, 0, 0)
    BY <1>5, <1>6, Zenon
  <2> QED
    BY <1>1, <1>7, <1>8, <2>1, AfterIsFlow, SameCall
<1>10. PaidBy(u)'
  BY <1>1, <1>5, <1>8, <1>9, Zenon DEF PaidBy, rest
<1> QED
  BY <1>2, <1>6, <1>10, NextStage DEF Stage

LEMMA PaidByProceeds ==
    ASSUME SystemTypeOK, NEW u \in Name \ {Self}, u \notin Coded, PaidBy(u),
           ForwardingExecute(Head(pending))
    PROVE  Proceeds(u)
<1>1. PICK p \in Action, E \in Seq(Action), b \in Int, d \in Int, h \in Int, fee \in Nat :
          /\ pending = <<p>> \o E
          /\ PaysEos(p, System, u, b)
          /\ ExcessEnd(u, E) \/ (fee = 0 /\ BackEnd(u, E, b))
          /\ fee <= b \/ fee = 0
          /\ d + fee = 0 /\ Right(-b, fee, h)
          /\ Flow(u, d, 0, 0, fee, 0, h)
  BY DEF PaidBy
<1>2. ForwardingExecute(p)
  BY <1>1, FrontStep
<1>3. 0 \in Int /\ fee \in Int /\ 0 - b \in Int /\ 0 - b = -b
  OBVIOUS
<1>4. b \in Nat \ {0} /\ Goes(E) /\ After(u, d + b, 0, 0 - b, fee, 0, h)
  BY <1>1, <1>2, <1>3, SystemPaysUser, Zenon
<1>5. d + b \in Int /\ (d + b) + 0 + (0 - b) + fee = 0
  BY <1>1
<1>6. Due(u, E, d + b)
  <2>1. CASE ExcessEnd(u, E)
    <3>1. d + b >= 0
      BY <1>1, <1>4
    <3> QED
      BY <2>1, <3>1 DEF Due
  <2>2. CASE fee = 0 /\ BackEnd(u, E, b)
    <3>1. d + b = b
      BY <1>1, <2>2
    <3> QED
      BY <2>2, <3>1 DEF Due
  <2> QED
    BY <1>1, <2>1, <2>2
<1>7. Right(0 - b, fee, h)
  BY <1>1, <1>3, Zenon
<1> QED
  BY <1>3, <1>4, <1>5, <1>6, <1>7, EndNears, Zenon

LEMMA EndingProceeds ==
    ASSUME SystemTypeOK, NEW u \in Name \ {Self}, u \notin Coded, Ending(u),
           ForwardingExecute(Head(pending))
    PROVE  Proceeds(u)
<1>1. PICK d \in Int, s \in Int, y \in Int, f \in Int, h \in Int :
          /\ pending # <<>> /\ Due(u, pending, d)
          /\ d + s + y + f = 0 /\ Right(y, f, h)
          /\ Flow(u, d, s, y, f, s, h)
  BY DEF Ending
<1>2. <<>> \in Seq(Action)
  OBVIOUS
<1>3. ASSUME NEW l \in Action
      PROVE  <<l>> \o <<>> = <<l>> /\ (pending = <<l>> => Head(pending) = l)
  OBVIOUS
<1>4. eos[u] = saved.eos[u] + d /\ saved.eos[u] \in Int
  <2>1. saved.eos \in [Name -> Nat]
    BY DEF SystemTypeOK, TypeOK, Database
  <2>2. saved.eos \in [Name -> Int]
    BY <2>1
  <2>3. eos = EosShift(saved.eos, u, d, s, y, f)
    BY <1>1, FlowTables
  <2>4. EosShift(saved.eos, u, d, s, y, f)[u] = saved.eos[u] + d
    BY <2>2, EosShiftAt
  <2> QED
    BY <2>2, <2>3, <2>4
\* When nothing has to be made good, the call is done.
<1>5. ASSUME Goes(<<>>), UNCHANGED <<tables, systemTables>>, d = 0 PROVE Proceeds(u)
  <2>1. After(u, d, s, y, f, s, h)
    BY <1>1, <1>5, NothingMoves DEF tables
  <2>2. Due(u, <<>>, d)
    BY <1>5 DEF Due
  <2> QED
    BY <1>1, <1>5, <2>1, <2>2, EndNears, Zenon
<1>6. CASE ExcessEnd(u, pending) /\ d >= 0
  <2>1. PICK l \in Action : pending = <<l>> /\ l.kind = "swapexcess" /\ l.from = u
                            /\ l.amt = saved.eos[u]
    BY <1>6 DEF ExcessEnd
  <2>2. pending = <<l>> \o <<>> /\ ForwardingExecute(l)
    BY <1>3, <2>1
  <2>3. Swapexcess(l)
    BY <2>1, <2>2, ChecksByKind
  <2>4. UNCHANGED <<tables, systemTables>> /\ Recorded
        /\ Done(IF eos[u] > l.amt THEN SwapAfter(l, u, eos[u] - l.amt) ELSE <<>>)
    BY <2>1, <2>3 DEF Swapexcess, Finish
  <2>5. CASE eos[u] > l.amt
    <3> DEFINE z == Inline(l, "eosio.token::transfer", u, Self, "EOS", eos[u] - l.amt, {u})
    <3>1. eos[u] - l.amt = d
      BY <1>4, <2>1
    <3>2. z \in Action
      <4>1. "eosio.token::transfer" \in Kinds /\ "EOS" \in Symbols /\ {u} \in SUBSET Name
            /\ Self \in Name /\ u \in Name
        BY NamesAssumption DEF Kinds, Symbols
      <4> QED
        BY <3>1, <4>1, InlineType
    <3>3. PaysEos(z, u, Self, d)
      BY <3>1 DEF PaysEos, Inline
    <3>4. Done(<<z>>)
      BY <2>4, <2>5 DEF SwapAfter
    <3> HIDE DEF z
    <3>5. Goes(<<z>>)
      BY <1>2, <1>3, <2>2, <2>4, <3>2, <3>4, FrontGoes
    <3>6. Due(u, <<z>>, d)
      BY <3>2, <3>3 DEF Due, BackEnd
    <3>7. After(u, d, s, y, f, s, h)
      BY <1>1, <2>4, NothingMoves DEF tables
    <3> QED
      BY <1>1, <3>5, <3>6, <3>7, EndNears, Zenon
  <2>6. CASE ~(eos[u] > l.amt)
    <3>1. d = 0
      BY <1>4, <1>6, <2>1, <2>6
    <3>2. Goes(<<>>)
      BY <1>2, <2>2, <2>4, <2>6, FrontGoes
    <3> QED
      BY <1>5, <2>4, <3>1, <3>2
  <2> QED
    BY <2>5, <2>6
<1>7. CASE CheckEnd(u, pending)
  <2>1. PICK l \in Action : pending = <<l>> /\ l.kind = "enforcebal" /\ l.from = u
                            /\ l.amt = saved.eos[u]
    BY <1>7 DEF CheckEnd
  <2>2. pending = <<l>> \o <<>> /\ ForwardingExecute(l)
    BY <1>3, <2>1
  <2>3. Enforcebal(l)
    BY <2>1, <2>2, ChecksByKind
  <2>4. UNCHANGED <<tables, systemTables>> /\ Recorded /\ Done(<<>>) /\ eos[u] = l.amt
    BY <2>1, <2>3 DEF Enforcebal, EnforcebalOk, Finish
  <2>5. d = 0
    BY <1>4, <2>1, <2>4
  <2>6. Goes(<<>>)
    BY <1>2, <2>2, <2>4, FrontGoes
  <2> QED
    BY <1>5, <2>4, <2>5, <2>6
<1>8. CASE BackEnd(u, pending, d)
  <2>1. PICK l \in Action : pending = <<l>> /\ PaysEos(l, u, Self, d)
    BY <1>8 DEF BackEnd
  <2>2. pending = <<l>> \o <<>> /\ ForwardingExecute(l)
    BY <1>3, <2>1
  <2>3. /\ d \in Nat \ {0} /\ After(u, d - d, s + d, y, f, s, h)
        /\ u \in Ignored => Goes(<<>>)
        /\ u \notin Ignored =>
               \E z \in Action : PaysXyz(z, Self, u, d) /\ Goes(<<z>> \o <<>>)
    BY <1>1, <1>2, <2>1, <2>2, UserPaysSelf, Zenon
  <2>4. /\ d - d = 0 /\ s + d \in Int /\ (s + d) + y + f = 0 /\ (s + d) - d = s /\ 0 \in Int
    BY <1>1
  <2>5. After(u, 0, s + d, y, f, s, h)
    BY <2>3, <2>4, Zenon
  <2>6. CASE u \in Ignored
    <3>1. Outcome(u)
      BY <2>4, <2>5, <2>6, Zenon DEF Outcome
    <3> QED
      BY <2>3, <2>6, <3>1 DEF Proceeds
  <2>7. CASE u \notin Ignored
    <3>1. PICK z \in Action : PaysXyz(z, Self, u, d) /\ Goes(<<z>>)
      BY <1>3, <2>3, <2>7
    <3>2. <<z>> # <<>>
      OBVIOUS
    <3>3. /\ pending' = <<z>>
          /\ saved' = saved /\ savedSystem' = savedSystem /\ running' = running
      BY <3>1, <3>2, StillGoing
    <3>4. Right(y, f, h)' /\ Flow(u, 0, s + d, y, f, (s + d) - d, h)'
      BY <1>1, <2>4, <2>5, <3>3, AfterIsFlow, SameCall
    <3>5. Swapped(u)'
      BY <2>4, <3>1, <3>3, <3>4, Zenon DEF Swapped
    <3> QED
      BY <3>1, <3>2, <3>5, NextStage DEF Stage
  <2> QED
    BY <2>6, <2>7
<1> QED
  BY <1>1, <1>6, <1>7, <1>8 DEF Due

LEMMA SwappedProceeds ==
    ASSUME SystemTypeOK, NEW u \in Name \ {Self}, u \notin Coded, Swapped(u),
           ForwardingExecute(Head(pending))
    PROVE  Proceeds(u)
<1>1. PICK z \in Action, amt \in Int, s \in Int, y \in Int, f \in Int, h \in Int :
          /\ pending = <<z>> /\ PaysXyz(z, Self, u, amt)
          /\ s + y + f = 0 /\ Right(y, f, h)
          /\ Flow(u, 0, s, y, f, s - amt, h)
  BY DEF Swapped
<1>2. <<>> \in Seq(Action) /\ pending = <<z>> \o <<>> /\ ForwardingExecute(z)
  <2>1. <<>> \in Seq(Action) /\ <<z>> \o <<>> = <<z>> /\ Head(<<z>>) = z
    OBVIOUS
  <2> QED
    BY <1>1, <2>1
<1>3. 0 \in Int /\ s - amt \in Int /\ (s - amt) + amt = s
  BY SMTT(30)
<1>4. Goes(<<>>) /\ After(u, 0, s, y, f, (s - amt) + amt, h)
  BY <1>1, <1>2, <1>3, XyzStep, Zenon
<1>5. Outcome(u)
  BY <1>1, <1>3, <1>4, Zenon DEF Outcome
<1> QED
  BY <1>4, <1>5 DEF Proceeds

LEMMA PassedProceeds ==
    ASSUME SystemTypeOK, NEW u \in Name \ {Self}, u \notin Coded, Passed(u),
           ForwardingExecute(Head(pending))
    PROVE  Proceeds(u)
<1>1. PICK k \in Action :
          /\ pending = <<k>> /\ k.from = u
          /\ k.kind \in QuietKinds \cup {"eosio::undelegatebw"}
          /\ Flow(u, 0, 0, 0, 0, 0, 0)
  BY DEF Passed
<1>2. <<>> \in Seq(Action) /\ pending = <<k>> \o <<>> /\ ForwardingExecute(k)
  <2>1. <<>> \in Seq(Action) /\ <<k>> \o <<>> = <<k>> /\ Head(<<k>>) = k
    OBVIOUS
  <2> QED
    BY <1>1, <2>1
<1>3. 0 \in Int /\ 0 + 0 + 0 = 0 /\ Right(0, 0, 0)
  BY DEF Right
<1>4. Goes(<<>>) /\ After(u, 0, 0, 0, 0, 0, 0)
  BY <1>1, <1>2, <1>3, SystemKeepsStill, Zenon
<1>5. Outcome(u)
  BY <1>3, <1>4, Zenon DEF Outcome
<1> QED
  BY <1>4, <1>5 DEF Proceeds

LEMMA TradingProceeds ==
    ASSUME SystemTypeOK, NEW u \in Name \ {Self}, u \notin Coded, Trading(u),
           ForwardingExecute(Head(pending))
    PROVE  Proceeds(u)
<1> DEFINE a == Head(pending)
<1>1. pending \in Seq(Action) /\ Len(pending) = 1
  BY DEF Trading, SystemTypeOK, TypeOK
<1>2. a = pending[1] /\ Tail(pending) = <<>>
  BY <1>1, OnlyElement
<1>3. EosioTrade(a)
  BY <1>2, ExecutedByKind DEF Trading, Passes, EosioTrade
<1>4. UNCHANGED tables /\ Done(<<>>) /\ Recorded
  BY <1>3 DEF EosioTrade, EosioBuyrex, EosioMvfrsavings, EosioSellrex, Finish
<1>5. pending' = <<>>
  <2>1. pending' = <<>> \o Tail(pending)
    BY <1>4 DEF Done
  <2> QED
    BY <1>2, <2>1, ConcatEmptySeq, EmptySeq
<1>6. Goes(<<>>)
  BY <1>4, <1>5, DoneGoes
<1>7. Outcome(u)
  BY <1>4 DEF Outcome, Trading, TablesAsSaved, tables
<1> QED
  BY <1>6, <1>7 DEF Proceeds

LEMMA StageProceeds ==
    ASSUME SystemTypeOK, NEW u \in Name \ {Self}, u \notin Coded, Stage(u),
           ForwardingExecute(Head(pending))
    PROVE  Proceeds(u)
  BY TracedProceeds, CreditedProceeds, CalledProceeds, ChargedProceeds, ClaimingProceeds,
     FeeTakenProceeds, PaidByProceeds, EndingProceeds, SwappedProceeds, PassedProceeds,
     TradingProceeds
     DEF Stage

-----------------------------------------------------------------------------
(* How a call starts                                                       *)

LEMMA CallsByKind ==
    ASSUME NEW a, ForwardingExecute(a), a.kind \in ForwardingKinds
    PROVE  /\ a.kind = "bidname" => Bidname(a)
           /\ a.kind = "buyram" => Buyram(a)
           /\ a.kind = "buyramburn" => Buyramburn(a)
           /\ a.kind = "buyramself" => Buyramself(a)
           /\ a.kind = "buyrambytes" => Buyrambytes(a)
           /\ a.kind = "deposit" => Deposit(a)
           /\ a.kind = "powerup" => Powerup(a)
           /\ a.kind = "delegatebw" => Delegatebw(a)
           /\ a.kind = "donatetorex" => Donatetorex(a)
           /\ a.kind = "bidrefund" => Bidrefund(a)
           /\ a.kind = "sellram" => Sellram(a)
           /\ a.kind = "refund" => Refund(a)
           /\ a.kind = "claimrewards" => Claimrewards(a)
           /\ a.kind = "withdraw" => Withdraw(a)
           /\ a.kind = "undelegatebw" => Undelegatebw(a)
           /\ a.kind = "unstaketorex" => Unstaketorex(a)
           /\ a.kind = "buyrex" => Buyrex(a)
           /\ a.kind = "mvfrsavings" => Mvfrsavings(a)
           /\ a.kind = "sellrex" => Sellrex(a)
           /\ a.kind = "noop" => Noop(a)
           /\ a.kind \in PassedOn \ {"mvfrsavings", "sellrex"} =>
                  \E kind \in QuietKinds : PassOn(a, kind)
<1>1. ~TokenStep(a) /\ ~SystemExecute(a)
  BY DEF ForwardingKinds, SwapsBefore, SwapsAfter, PassedOn, PassedOnInEos,
         TokenStep, Execute, EosTransfer, Transfer, Open, Close, InitToken, SwapTo, BlockSwapTo,
         SystemExecute, QuietKinds, EosioBidname, EosioBidrefund, EosioBuyram,
         EosioBuyrambytes, EosioSellram, EosioDonatetorex, EosioPowerup, Setrammarket,
         EosioClaimrewards, EosioQuiet, EosioDelegatebw, EosioUndelegatebw, EosioRefund,
         EosioDeposit, EosioWithdraw, Setrex, EosioBuyrex, EosioMvfrsavings, EosioSellrex
<1>2. \/ Bidname(a) \/ Buyram(a) \/ Buyramburn(a) \/ Buyramself(a) \/ Buyrambytes(a)
      \/ Deposit(a) \/ Powerup(a) \/ Delegatebw(a) \/ Donatetorex(a)
      \/ Bidrefund(a) \/ Sellram(a) \/ Refund(a) \/ Claimrewards(a) \/ Withdraw(a)
      \/ Buyrex(a) \/ Undelegatebw(a) \/ Unstaketorex(a)
      \/ Ramburn(a) \/ Ramtransfer(a) \/ Mvfrsavings(a) \/ Mvtosavings(a) \/ Sellrex(a)
      \/ Newaccount(a) \/ Voteproducer(a) \/ Voteupdate(a)
      \/ Linkauth(a) \/ Unlinkauth(a) \/ Updateauth(a) \/ Deleteauth(a)
      \/ Setabi(a) \/ Setcode(a) \/ Giftram(a) \/ Ungiftram(a) \/ Noop(a)
      \/ Swaptrace(a) \/ Enforcebal(a) \/ Swapexcess(a)
  BY <1>1 DEF ForwardingExecute
<1>3. a.kind \in PassedOn \ {"mvfrsavings", "sellrex"} =>
          \E kind \in QuietKinds : PassOn(a, kind)
  BY <1>2 DEF PassedOn, QuietKinds, Bidname, Buyram, Buyramburn, Buyramself,
         Buyrambytes, Deposit, Powerup, Delegatebw, Donatetorex, Bidrefund, Sellram, Refund,
         Claimrewards, Withdraw, Buyrex, Undelegatebw, Unstaketorex, Ramburn, Ramtransfer,
         Mvfrsavings, Mvtosavings, Sellrex, Newaccount, Voteproducer, Voteupdate, Linkauth,
         Unlinkauth, Updateauth, Deleteauth, Setabi, Setcode, Giftram, Ungiftram, Noop,
         Swaptrace, Enforcebal, Swapexcess
<1> QED
  BY <1>2, <1>3 DEF Bidname, Buyram, Buyramburn, Buyramself,
         Buyrambytes, Deposit, Powerup, Delegatebw, Donatetorex, Bidrefund, Sellram, Refund,
         Claimrewards, Withdraw, Buyrex, Undelegatebw, Unstaketorex, Ramburn, Ramtransfer,
         Mvfrsavings, Mvtosavings, Sellrex, Newaccount, Voteproducer, Voteupdate, Linkauth,
         Unlinkauth, Updateauth, Deleteauth, Setabi, Setcode, Giftram, Ungiftram, Noop,
         Swaptrace, Enforcebal, Swapexcess

\* The call a of u is about to run, alone in its transaction.
Starts(u, a) ==
    /\ pending = <<a>> /\ running[1] = a /\ a.from = u
    /\ TablesAsSaved /\ SystemAsSaved

LEMMA NothingMoved ==
    ASSUME SystemTypeOK, NEW u \in Name, TablesAsSaved, SystemAsSaved
    PROVE  Flow(u, 0, 0, 0, 0, 0, 0)
<1>1. /\ saved.eos \in [Name -> Int] /\ saved.xyz \in [Name -> Int]
  <2>1. saved.eos \in [Name -> Nat] /\ saved.xyz \in [Name -> Nat]
    BY DEF SystemTypeOK, TypeOK, Database
  <2> QED
    BY <2>1
<1>2. /\ EosShift(saved.eos, u, 0, 0, 0, 0) = saved.eos
      /\ XyzShift(saved.xyz, u, 0) = saved.xyz
  BY <1>1, NoShift
<1>3. /\ SystemTables.pool = savedSystem.pool
      /\ \A n : Owed(SystemTables, n) = Owed(savedSystem, n)
      /\ \A n : Rex(SystemTables, n) = Rex(savedSystem, n)
  BY DEF SystemAsSaved, SystemTables, Owed, Rex
<1>4. \A n \in Name : Owed(savedSystem, n) \in Int
  BY OwedType DEF SystemTypeOK
<1>5. HeldShift(SystemTables, savedSystem, u, 0)
  BY <1>3, <1>4 DEF HeldShift
<1> QED
  BY <1>2, <1>5 DEF Flow, Moved, Tables, TablesAsSaved

\* The call of eosio that a forwarding action makes.
CallOf(sent, k, a, kind, amt) ==
    sent = <<k>> /\ k.kind = kind /\ k.from = a.from /\ k.amt = amt /\ k.more = a.more

LEMMA CallMade ==
    ASSUME NEW a \in Action, NEW kind \in SystemKinds \ Setters, NEW amt \in Int
    PROVE  /\ \E k \in Action : CallOf(Forward(a, kind, amt), k, a, kind, amt)
           /\ \E k \in Action : CallOf(PassedCall(a, kind), k, a, kind, a.amt)
<1> DEFINE k1 == [Inline(a, kind, a.from, a.to, "EOS", amt, {a.from}) EXCEPT !.more = a.more]
           k2 == [Inline(a, kind, a.from, a.to, a.sym, a.amt, {a.from}) EXCEPT !.more = a.more]
<1>1. a.to \in Name /\ a.sym \in Symbols /\ "EOS" \in Symbols /\ a.amt \in Int
  BY DEF Action, Symbols
<1>2. k1 \in SentBy(a) /\ k2 \in SentBy(a)
  BY <1>1, CallSent
<1>3. k1 \in Action /\ k2 \in Action
  BY <1>2 DEF SentBy
<1>4. /\ k1.kind = kind /\ k1.from = a.from /\ k1.amt = amt /\ k1.more = a.more
      /\ k2.kind = kind /\ k2.from = a.from /\ k2.amt = a.amt /\ k2.more = a.more
  BY DEF Inline
<1>5. Forward(a, kind, amt) = <<k1>> /\ PassedCall(a, kind) = <<k2>>
  BY DEF Forward, PassedCall
<1> HIDE DEF k1, k2
<1> QED
  BY <1>3, <1>4, <1>5 DEF CallOf

\* The swap of what its sender then has too much.
LEMMA ExcessMade ==
    ASSUME SystemTypeOK, NEW u \in Name, NEW a \in Action, a.from = u, eos = saved.eos
    PROVE  \E l \in Action : SwapsExcess(a) = <<l>> /\ ExcessEnd(u, <<l>>)
<1> DEFINE l == Inline(a, "swapexcess", a.from, Self, "EOS", eos[a.from], {Self})
<1>1. /\ "swapexcess" \in Kinds /\ a.from \in Name /\ Self \in Name /\ "EOS" \in Symbols
      /\ {Self} \in SUBSET Name /\ eos[u] \in Int
  BY KindsOfOthers, NamesAssumption DEF Symbols, SystemTypeOK, TypeOK
<1>2. l \in Action
  BY <1>1, InlineType
<1>3. l.kind = "swapexcess" /\ l.from = u /\ l.amt = saved.eos[u]
  BY DEF Inline
<1>4. SwapsExcess(a) = <<l>>
  BY DEF SwapsExcess
<1> HIDE DEF l
<1> QED
  BY <1>2, <1>3, <1>4 DEF ExcessEnd

\* Four actions, one after the other.
LEMMA FourInARow ==
    ASSUME NEW t \in Action, NEW c \in Action, NEW k \in Action, NEW E \in Seq(Action)
    PROVE  ((<<t>> \o <<c>>) \o (<<k>> \o E)) \o <<>> = <<t>> \o (<<c>> \o (<<k>> \o E))
<1> DEFINE r == <<k>> \o E
<1>1. <<t>> \in Seq(Action) /\ <<c>> \in Seq(Action) /\ r \in Seq(Action)
  BY FrontSeq
<1> HIDE DEF r
<1>2. (<<t>> \o <<c>>) \o r = <<t>> \o (<<c>> \o r)
  BY <1>1, ConcatAssociative
<1>3. <<c>> \o r \in Seq(Action) /\ <<t>> \o (<<c>> \o r) \in Seq(Action)
  BY <1>1, FrontSeq
<1>4. ((<<t>> \o <<c>>) \o r) \o <<>> = <<t>> \o (<<c>> \o r)
  BY <1>2, <1>3, ConcatEmptySeq
<1> QED
  BY <1>4 DEF r

\* XYZ is swapped, then eosio is called with what comes after.
LEMMA SwapStarts ==
    ASSUME SystemTypeOK, NEW u \in Name \ {Self}, NEW a \in Action, Starts(u, a),
           NEW amt \in Int, NEW k \in Action, NEW E \in Seq(Action),
           SwapBefore(a, amt, <<k>> \o E), Charging(u, k, E, amt)
    PROVE  Proceeds(u)
<1> DEFINE t == SwapTrace(a, u, amt)
           c == Inline(a, "eosio.token::transfer", Self, u, "EOS", amt, {Self})
<1>1. t \in Action /\ c \in Action
  <2>1. /\ {"swaptrace", "eosio.token::transfer"} \subseteq Kinds
        /\ "EOS" \in Symbols /\ "XYZ" \in Symbols /\ Self \in Name /\ {Self} \in SUBSET Name
    BY KindsOfOthers, NamesAssumption DEF Symbols
  <2> QED
    BY <2>1, InlineType DEF SwapTrace
<1>2. t.kind = "swaptrace" /\ PaysEos(c, Self, u, amt)
  BY DEF SwapTrace, Inline, PaysEos
<1>3. /\ Done((<<t>> \o <<c>>) \o (<<k>> \o E)) /\ Recorded
      /\ UNCHANGED <<eos, blocked, supply, systemTables>>
      /\ MoveXyz(u, Self, amt, Self)
  BY DEF SwapBefore, CreditEos, Finish, Starts
<1> HIDE DEF t, c
<1> DEFINE p == <<t>> \o (<<c>> \o (<<k>> \o E))
<1>4. pending' = p
  <2>1. Tail(pending) = <<>>
    BY DEF Starts
  <2>2. pending' = ((<<t>> \o <<c>>) \o (<<k>> \o E)) \o Tail(pending)
    BY <1>3, Zenon DEF Done
  <2>3. ((<<t>> \o <<c>>) \o (<<k>> \o E)) \o <<>> = <<t>> \o (<<c>> \o (<<k>> \o E))
    BY <1>1, FourInARow
  <2> QED
    BY <2>1, <2>2, <2>3, Zenon
<1>5. p # <<>>
  <2>1. <<k>> \o E \in Seq(Action)
    BY FrontSeq
  <2>2. <<c>> \o (<<k>> \o E) \in Seq(Action)
    BY <1>1, <2>1, FrontSeq
  <2> QED
    BY <1>1, <2>2, FrontSeq
<1>6. Goes(p)
  BY <1>3, <1>4, DoneGoes
<1>7. After(u, 0, 0, 0, 0, -amt, 0)
  <2>1. Flow(u, 0, 0, 0, 0, 0, 0)
    BY NothingMoved DEF Starts
  <2>2. /\ eos = EosShift(saved.eos, u, 0, 0, 0, 0) /\ xyz = XyzShift(saved.xyz, u, 0)
        /\ blocked = saved.blocked /\ supply = saved.supply
        /\ HeldShift(SystemTables, savedSystem, u, 0)
    BY <2>1, FlowTables
  <2>3. HeldShift(SystemTables', savedSystem, u, 0)
    BY <1>3, <2>2, SystemUnchanged
  <2>4. saved.xyz \in [Name -> Int]
    <3>1. saved.xyz \in [Name -> Nat]
      BY DEF SystemTypeOK, TypeOK, Database
    <3> QED
      BY <3>1
  <2>5. xyz' = Move(xyz, u, Self, amt)
    BY <1>3 DEF MoveXyz, Move
  <2>6. 0 \in Int /\ 0 - amt = -amt
    OBVIOUS
  <2>7. Move(XyzShift(saved.xyz, u, 0), u, Self, amt) = XyzShift(saved.xyz, u, 0 - amt)
    BY <2>4, <2>6, XyzShifts
  <2>8. xyz' = XyzShift(saved.xyz, u, -amt)
    BY <2>2, <2>5, <2>6, <2>7, Zenon
  <2> QED
    BY <1>3, <2>2, <2>3, <2>8, AfterTables
<1>8. /\ pending' = p /\ saved' = saved /\ savedSystem' = savedSystem /\ running' = running
  BY <1>5, <1>6, StillGoing
<1>9. Flow(u, 0, 0, 0, 0, -amt, 0)' /\ Charging(u, k, E, amt)'
  BY <1>7, <1>8, AfterIsFlow, SameCall
<1>10. Traced(u)'
  BY <1>1, <1>2, <1>8, <1>9 DEF Traced
<1> QED
  BY <1>5, <1>6, <1>10, NextStage DEF Stage

LEMMA SwapsBeforeStart ==
    ASSUME SystemTypeOK, NEW u \in Name \ {Self}, NEW a \in Action, Starts(u, a),
           a.kind \in SwapsBefore, ForwardingExecute(a)
    PROVE  Proceeds(u)
<1>1. a.amt \in Int /\ a.more \in Int /\ OneEos \in Nat /\ a.kind \in ForwardingKinds
  BY SystemAssumption DEF Action, ForwardingKinds
<1>2. {"eosio::bidname", "eosio::buyram", "eosio::buyramburn", "eosio::buyramself",
       "eosio::deposit", "eosio::donatetorex", "eosio::delegatebw", "eosio::powerup",
       "eosio::buyrambytes"} \subseteq SystemKinds \ Setters
  BY DEF SystemKinds, Setters
<1>3. <<>> \in Seq(Action) /\ \A k \in Action : <<k>> \o <<>> = <<k>>
  OBVIOUS
\* Most actions call eosio with what has been swapped.
<1>4. ASSUME NEW kind \in {"eosio::bidname", "eosio::buyram", "eosio::buyramburn",
                           "eosio::buyramself", "eosio::deposit", "eosio::donatetorex"},
             SwapBefore(a, a.amt, Forward(a, kind, a.amt)),
             kind = "eosio::deposit" <=> a.kind = "deposit", a.kind # "delegatebw"
      PROVE  Proceeds(u)
  <2>1. PICK k \in Action : /\ Forward(a, kind, a.amt) = <<k>>
                            /\ k.kind = kind /\ k.from = a.from
                            /\ k.amt = a.amt /\ k.more = a.more
    <3>1. kind \in SystemKinds \ Setters /\ a.amt \in Int
      BY <1>1, <1>2
    <3>2. \E k \in Action : CallOf(Forward(a, kind, a.amt), k, a, kind, a.amt)
      BY <3>1, CallMade
    <3> QED
      BY <3>2 DEF CallOf
  <2>2. k.kind \in KeepingKinds <=> Keeps
    BY <1>4, <2>1 DEF KeepingKinds, Keeps, KeptKinds, Starts, SwapsBefore
  <2>3. Price(k) = a.amt /\ a.amt - a.amt = 0
    BY <1>1, <2>1 DEF Price
  <2>4. Charging(u, k, <<>>, a.amt)
    BY <2>1, <2>2, <2>3 DEF Charging, Due, PaidKinds, Starts
  <2>5. SwapBefore(a, a.amt, <<k>> \o <<>>)
    BY <1>3, <1>4, <2>1
  <2> QED
    BY <1>1, <1>3, <2>4, <2>5, SwapStarts
<1>5. CASE a.kind = "delegatebw"
  <2>1. SwapBefore(a, a.amt + a.more, Forward(a, "eosio::delegatebw", a.amt))
    BY <1>1, <1>5, CallsByKind DEF Delegatebw
  <2>2. PICK k \in Action : /\ Forward(a, "eosio::delegatebw", a.amt) = <<k>>
                            /\ k.kind = "eosio::delegatebw" /\ k.from = a.from
                            /\ k.amt = a.amt /\ k.more = a.more
    <3>1. "eosio::delegatebw" \in SystemKinds \ Setters /\ a.amt \in Int
      BY <1>1, <1>2
    <3>2. \E k \in Action : CallOf(Forward(a, "eosio::delegatebw", a.amt), k, a, "eosio::delegatebw", a.amt)
      BY <3>1, CallMade
    <3> QED
      BY <3>2 DEF CallOf
  <2>3. k.kind \in KeepingKinds <=> Keeps
    BY <1>5, <2>2 DEF KeepingKinds, Keeps, KeptKinds, Starts
  <2>4. Price(k) = a.amt + a.more /\ (a.amt + a.more) - (a.amt + a.more) = 0
        /\ a.amt + a.more \in Int
    BY <1>1, <2>2 DEF Price
  <2>5. Charging(u, k, <<>>, a.amt + a.more)
    BY <2>2, <2>3, <2>4 DEF Charging, Due, PaidKinds, Starts
  <2>6. SwapBefore(a, a.amt + a.more, <<k>> \o <<>>)
    BY <1>3, <2>1, <2>2
  <2> QED
    BY <1>3, <2>4, <2>5, <2>6, SwapStarts
<1>6. CASE a.kind = "powerup"
  <2>1. SwapBefore(a, a.amt, Forward(a, "eosio::powerup", a.amt) \o SwapsExcess(a))
    BY <1>1, <1>6, CallsByKind DEF Powerup
  <2>2. PICK k \in Action : /\ Forward(a, "eosio::powerup", a.amt) = <<k>>
                            /\ k.kind = "eosio::powerup" /\ k.from = a.from
                            /\ k.amt = a.amt /\ k.more = a.more
    <3>1. "eosio::powerup" \in SystemKinds \ Setters /\ a.amt \in Int
      BY <1>1, <1>2
    <3>2. \E k \in Action : CallOf(Forward(a, "eosio::powerup", a.amt), k, a, "eosio::powerup", a.amt)
      BY <3>1, CallMade
    <3> QED
      BY <3>2 DEF CallOf
  <2>3. PICK l \in Action : SwapsExcess(a) = <<l>> /\ ExcessEnd(u, <<l>>)
    BY ExcessMade DEF Starts, TablesAsSaved
  <2>4. k.kind \in KeepingKinds <=> Keeps
    BY <1>6, <2>2 DEF KeepingKinds, Keeps, KeptKinds, Starts
  <2>5. a.amt - Price(k) >= 0
    BY <1>1, <2>2 DEF Price
  <2>6. Charging(u, k, <<l>>, a.amt)
    BY <2>2, <2>3, <2>4, <2>5 DEF Charging, Due, PaidKinds, Starts
  <2>7. SwapBefore(a, a.amt, <<k>> \o <<l>>)
    BY <2>1, <2>2, <2>3
  <2>8. <<l>> \in Seq(Action)
    OBVIOUS
  <2> QED
    BY <1>1, <2>6, <2>7, <2>8, SwapStarts
<1>7. CASE a.kind = "buyrambytes"
  <2> DEFINE l == Inline(a, "enforcebal", a.from, Self, "EOS", eos[a.from], {a.from})
  <2>1. PICK cost \in RamCosts(a.amt) :
            SwapBefore(a, cost, Forward(a, "eosio::buyrambytes", a.amt) \o <<l>>)
    BY <1>1, <1>7, CallsByKind DEF Buyrambytes
  <2>2. PICK k \in Action : /\ Forward(a, "eosio::buyrambytes", a.amt) = <<k>>
                            /\ k.kind = "eosio::buyrambytes" /\ k.from = a.from
                            /\ k.amt = a.amt /\ k.more = a.more
    <3>1. "eosio::buyrambytes" \in SystemKinds \ Setters /\ a.amt \in Int
      BY <1>1, <1>2
    <3>2. \E k \in Action : CallOf(Forward(a, "eosio::buyrambytes", a.amt), k, a, "eosio::buyrambytes", a.amt)
      BY <3>1, CallMade
    <3> QED
      BY <3>2 DEF CallOf
  <2>3. cost \in Int
    BY <1>1, <2>1, RamCostsType
  <2>4. l \in Action
    <3>1. /\ "enforcebal" \in Kinds /\ a.from \in Name /\ Self \in Name /\ "EOS" \in Symbols
          /\ {a.from} \in SUBSET Name /\ eos[a.from] \in Int
      BY KindsOfOthers, NamesAssumption DEF Symbols, SystemTypeOK, TypeOK, Starts
    <3> QED
      BY <3>1, InlineType
  <2>5. CheckEnd(u, <<l>>)
    <3>1. l.kind = "enforcebal" /\ l.from = u /\ l.amt = saved.eos[u]
      BY DEF Inline, Starts, TablesAsSaved
    <3> HIDE DEF l
    <3> QED
      BY <2>4, <3>1 DEF CheckEnd
  <2> HIDE DEF l
  <2>6. ~Keeps
    BY <1>7 DEF Keeps, KeptKinds, Starts
  <2>7. Charging(u, k, <<l>>, cost)
    BY <2>2, <2>5, <2>6 DEF Charging, Starts
  <2>8. SwapBefore(a, cost, <<k>> \o <<l>>)
    BY <2>1, <2>2
  <2>9. <<l>> \in Seq(Action)
    BY <2>4
  <2> QED
    BY <2>3, <2>7, <2>8, <2>9, SwapStarts
<1>8. CASE a.kind = "bidname"
  BY <1>1, <1>4, <1>8, CallsByKind DEF Bidname
<1>9. CASE a.kind = "buyram"
  BY <1>1, <1>4, <1>9, CallsByKind DEF Buyram
<1>10. CASE a.kind = "buyramburn"
  BY <1>1, <1>4, <1>10, CallsByKind DEF Buyramburn
<1>11. CASE a.kind = "buyramself"
  BY <1>1, <1>4, <1>11, CallsByKind DEF Buyramself
<1>12. CASE a.kind = "deposit"
  BY <1>1, <1>4, <1>12, CallsByKind DEF Deposit
<1>13. CASE a.kind = "donatetorex"
  BY <1>1, <1>4, <1>13, CallsByKind DEF Donatetorex
<1> QED
  BY <1>5, <1>6, <1>7, <1>8, <1>9, <1>10, <1>11, <1>12, <1>13 DEF SwapsBefore

\* eosio pays first, then what it has paid is swapped.
LEMMA ClaimStarts ==
    ASSUME SystemTypeOK, NEW u \in Name \ {Self}, NEW a \in Action, Starts(u, a),
           NEW k \in Action, NEW l \in Action, Done(<<k>> \o <<l>>), Recorded,
           UNCHANGED <<tables, systemTables>>, k.from = u,
           \/ k.kind \in PayingKinds \cup {"eosio::sellram"} /\ ExcessEnd(u, <<l>>)
           \/ k.kind = "eosio::withdraw" /\ BackEnd(u, <<l>>, k.amt),
           k.kind \in KeepingKinds <=> Keeps
    PROVE  Proceeds(u)
<1>1. <<>> \in Seq(Action) /\ <<l>> \in Seq(Action) /\ <<l>> \o <<>> = <<l>>
      /\ pending = <<a>> \o <<>>
  BY DEF Starts
<1>2. Goes(<<k>> \o <<l>>)
  BY <1>1, FrontGoes
<1>3. <<k>> \o <<l>> # <<>>
  BY <1>1, FrontSeq
<1>4. After(u, 0, 0, 0, 0, 0, 0)
  BY NothingMoved, NothingMoves DEF Starts, tables
<1>5. /\ pending' = <<k>> \o <<l>>
      /\ saved' = saved /\ savedSystem' = savedSystem /\ running' = running
  BY <1>2, <1>3, StillGoing
<1>6. Flow(u, 0, 0, 0, 0, 0, 0)' /\ ExcessEnd(u, <<l>>)' = ExcessEnd(u, <<l>>) /\ Keeps' = Keeps
  BY <1>4, <1>5, AfterIsFlow, SameCall
<1>7. BackEnd(u, <<l>>, k.amt)' = BackEnd(u, <<l>>, k.amt)
  BY DEF BackEnd
<1>8. Claiming(u)'
  BY <1>1, <1>5, <1>6, <1>7 DEF Claiming
<1> QED
  BY <1>2, <1>3, <1>8, NextStage DEF Stage

LEMMA SwapsAfterStart ==
    ASSUME SystemTypeOK, NEW u \in Name \ {Self}, NEW a \in Action, Starts(u, a),
           a.kind \in SwapsAfter, ForwardingExecute(a)
    PROVE  Proceeds(u)
<1>1. a.amt \in Int /\ a.kind \in ForwardingKinds
  BY DEF Action, ForwardingKinds
<1>2. {"eosio::bidrefund", "eosio::sellram", "eosio::withdraw", "eosio::refund",
       "eosio::claimrewards"} \subseteq SystemKinds \ Setters
  BY DEF SystemKinds, Setters
<1>3. ASSUME NEW kind \in {"eosio::bidrefund", "eosio::sellram", "eosio::refund",
                           "eosio::claimrewards"},
             CallAndSwapExcess(a, kind), kind = "eosio::refund" <=> a.kind = "refund",
             a.kind # "withdraw"
      PROVE  Proceeds(u)
  <2>1. PICK k \in Action : /\ Forward(a, kind, a.amt) = <<k>>
                            /\ k.kind = kind /\ k.from = a.from
                            /\ k.amt = a.amt /\ k.more = a.more
    <3>1. kind \in SystemKinds \ Setters /\ a.amt \in Int
      BY <1>1, <1>2
    <3>2. \E k \in Action : CallOf(Forward(a, kind, a.amt), k, a, kind, a.amt)
      BY <3>1, CallMade
    <3> QED
      BY <3>2 DEF CallOf
  <2>2. PICK l \in Action : SwapsExcess(a) = <<l>> /\ ExcessEnd(u, <<l>>)
    BY ExcessMade DEF Starts, TablesAsSaved
  <2>3. Done(<<k>> \o <<l>>) /\ Recorded /\ UNCHANGED <<tables, systemTables>>
    BY <1>3, <2>1, <2>2 DEF CallAndSwapExcess, Finish
  <2>4. k.kind \in KeepingKinds <=> Keeps
    BY <1>3, <2>1 DEF KeepingKinds, Keeps, KeptKinds, Starts, SwapsAfter
  <2>5. k.kind \in PayingKinds \cup {"eosio::sellram"} /\ k.from = u
    BY <2>1 DEF PayingKinds, Starts
  <2> QED
    BY <2>2, <2>3, <2>4, <2>5, ClaimStarts
<1>4. CASE a.kind = "withdraw"
  <2> DEFINE l == Inline(a, "eosio.token::transfer", a.from, Self, "EOS", a.amt, {a.from})
  <2>1. Withdraw(a)
    BY <1>1, <1>4, CallsByKind
  <2>2. PICK k \in Action : /\ Forward(a, "eosio::withdraw", a.amt) = <<k>>
                            /\ k.kind = "eosio::withdraw" /\ k.from = a.from
                            /\ k.amt = a.amt /\ k.more = a.more
    <3>1. "eosio::withdraw" \in SystemKinds \ Setters /\ a.amt \in Int
      BY <1>1, <1>2
    <3>2. \E k \in Action : CallOf(Forward(a, "eosio::withdraw", a.amt), k, a, "eosio::withdraw", a.amt)
      BY <3>1, CallMade
    <3> QED
      BY <3>2 DEF CallOf
  <2>3. Done(<<k>> \o <<l>>) /\ Recorded /\ UNCHANGED <<tables, systemTables>>
    BY <2>1, <2>2 DEF Withdraw, SwapAfter, Finish
  <2>4. l \in Action
    <3>1. "eosio.token::transfer" \in Kinds /\ "EOS" \in Symbols /\ a.from \in Name
          /\ Self \in Name /\ {a.from} \in SUBSET Name
      BY NamesAssumption DEF Kinds, Symbols, Action
    <3> QED
      BY <1>1, <3>1, InlineType
  <2>5. PaysEos(l, u, Self, k.amt)
    BY <2>2 DEF PaysEos, Inline, Starts
  <2> HIDE DEF l
  <2>6. BackEnd(u, <<l>>, k.amt)
    BY <2>4, <2>5 DEF BackEnd
  <2>7. k.kind \in KeepingKinds <=> Keeps
    BY <1>4, <2>2 DEF KeepingKinds, Keeps, KeptKinds, Starts
  <2>8. k.from = u
    BY <2>2 DEF Starts
  <2> QED
    BY <2>2, <2>3, <2>4, <2>6, <2>7, <2>8, ClaimStarts
<1>5. CASE a.kind = "bidrefund"
  BY <1>1, <1>3, <1>5, CallsByKind DEF Bidrefund
<1>6. CASE a.kind = "sellram"
  BY <1>1, <1>3, <1>6, CallsByKind DEF Sellram
<1>7. CASE a.kind = "refund"
  BY <1>1, <1>3, <1>7, CallsByKind DEF Refund
<1>8. CASE a.kind = "claimrewards"
  BY <1>1, <1>3, <1>8, CallsByKind DEF Claimrewards
<1> QED
  BY <1>4, <1>5, <1>6, <1>7, <1>8 DEF SwapsAfter

\* Only a call of eosio is left.
LEMMA PassStarts ==
    ASSUME SystemTypeOK, NEW u \in Name \ {Self}, NEW a \in Action, Starts(u, a),
           NEW k \in Action, Done(<<k>>), Recorded,
           UNCHANGED <<tables, systemTables>>, k.from = u,
           k.kind \in QuietKinds \cup {"eosio::undelegatebw"}
    PROVE  Proceeds(u)
<1>1. <<>> \in Seq(Action) /\ <<k>> \o <<>> = <<k>> /\ <<k>> # <<>> /\ pending = <<a>> \o <<>>
  BY DEF Starts
<1>2. Goes(<<k>>)
  BY <1>1, FrontGoes
<1>3. After(u, 0, 0, 0, 0, 0, 0)
  BY NothingMoved, NothingMoves DEF Starts, tables
<1>4. /\ pending' = <<k>>
      /\ saved' = saved /\ savedSystem' = savedSystem /\ running' = running
  BY <1>1, <1>2, StillGoing
<1>5. Flow(u, 0, 0, 0, 0, 0, 0)'
  BY <1>3, <1>4, AfterIsFlow
<1>6. Passed(u)'
  BY <1>4, <1>5 DEF Passed
<1> QED
  BY <1>1, <1>2, <1>6, NextStage DEF Stage

LEMMA TradeStarts ==
    ASSUME SystemTypeOK, NEW u \in Name \ {Self}, NEW a \in Action, Starts(u, a),
           a.kind \in TradeKinds, ForwardingExecute(a)
    PROVE  Proceeds(u)
<1>1. Buyrex(a) \/ Mvfrsavings(a) \/ Sellrex(a)
  BY ExecutedByKind DEF TradeKinds
<1>2. PICK b \in Action : Passes(b, a) /\ Finish(<<b>>)
  BY <1>1, TradeIsPassed
<1>3. UNCHANGED <<tables, systemTables>> /\ Done(<<b>>) /\ Recorded
  BY <1>1, <1>2 DEF Buyrex, Mvfrsavings, Sellrex, PassOn, PassOnInEos, Finish
<1>4. <<>> \in Seq(Action) /\ <<b>> \o <<>> = <<b>> /\ <<b>> # <<>> /\ pending = <<a>> \o <<>>
  BY DEF Starts
<1>5. Goes(<<b>>)
  BY <1>3, <1>4, FrontGoes
<1>6. /\ pending' = <<b>>
      /\ saved' = saved /\ savedSystem' = savedSystem /\ running' = running
  BY <1>4, <1>5, StillGoing
<1>7. TablesAsSaved' /\ SystemAsSaved'
  BY <1>3, <1>6
     DEF Starts, TablesAsSaved, SystemAsSaved, tables, systemTables, stakeTables, rexTables
<1>8. Trading(u)'
  <2>1. Len(pending') = 1 /\ pending'[1] = b
    BY <1>6
  <2> QED
    BY <1>2, <1>6, <1>7, <2>1 DEF Trading, Starts
<1> QED
  BY <1>4, <1>5, <1>8, NextStage DEF Stage

LEMMA PassedOnStart ==
    ASSUME SystemTypeOK, NEW u \in Name \ {Self}, NEW a \in Action, Starts(u, a),
           a.kind \in PassedOn \cup PassedOnInEos, ForwardingExecute(a)
    PROVE  Proceeds(u)
<1>1. a.amt \in Int /\ a.kind \in ForwardingKinds
  BY DEF Action, ForwardingKinds
<1>2. CASE a.kind \in PassedOn \ {"mvfrsavings", "sellrex"}
  <2>1. PICK kind \in QuietKinds : PassOn(a, kind)
    BY <1>1, <1>2, CallsByKind
  <2>2. kind \in SystemKinds \ Setters
    BY DEF SystemKinds, Setters, QuietKinds
  <2>3. PICK k \in Action : PassedCall(a, kind) = <<k>> /\ k.kind = kind /\ k.from = a.from
    <3>1. \E k \in Action : CallOf(PassedCall(a, kind), k, a, kind, a.amt)
      BY <1>1, <2>2, CallMade
    <3> QED
      BY <3>1 DEF CallOf
  <2>4. Done(<<k>>) /\ Recorded /\ UNCHANGED <<tables, systemTables>>
    BY <2>1, <2>3 DEF PassOn, Finish
  <2> QED
    BY <2>1, <2>3, <2>4, PassStarts DEF Starts
<1>3. CASE a.kind \in {"undelegatebw", "unstaketorex"}
  <2>1. PICK kind \in QuietKinds \cup {"eosio::undelegatebw"} : PassOnInEos(a, kind)
    <3>1. "eosio::unstaketorex" \in QuietKinds
      BY DEF QuietKinds
    <3> QED
      BY <1>1, <1>3, <3>1, CallsByKind DEF Undelegatebw, Unstaketorex
  <2>2. kind \in SystemKinds \ Setters
    BY DEF SystemKinds, Setters, QuietKinds
  <2>3. PICK k \in Action : /\ Forward(a, kind, a.amt) = <<k>>
                            /\ k.kind = kind /\ k.from = a.from
                            /\ k.amt = a.amt /\ k.more = a.more
    <3>1. \E k \in Action : CallOf(Forward(a, kind, a.amt), k, a, kind, a.amt)
      BY <1>1, <2>2, CallMade
    <3> QED
      BY <3>1 DEF CallOf
  <2>4. Done(<<k>>) /\ Recorded /\ UNCHANGED <<tables, systemTables>>
    BY <2>1, <2>3 DEF PassOnInEos, Finish
  <2> QED
    BY <2>1, <2>3, <2>4, PassStarts DEF Starts
<1>4. CASE a.kind \in TradeKinds
  BY <1>4, TradeStarts
<1> QED
  BY <1>2, <1>3, <1>4 DEF PassedOn, PassedOnInEos, TradeKinds

\* Checks and noop send nothing.
LEMMA QuietlyStarts ==
    ASSUME SystemTypeOK, NEW u \in Name, NEW a \in Action, Starts(u, a),
           a.kind \in {"enforcebal", "noop"}, ForwardingExecute(a)
    PROVE  Goes(<<>>) /\ Outcome(u) /\ After(u, 0, 0, 0, 0, 0, 0)
<1>1. a.kind \in ForwardingKinds
  BY DEF ForwardingKinds
<1>2. UNCHANGED <<tables, systemTables>> /\ Done(<<>>) /\ Recorded
  BY <1>1, CallsByKind, ChecksByKind DEF Noop, Enforcebal, Finish
<1>3. <<>> \in Seq(Action) /\ pending = <<a>> \o <<>>
  BY DEF Starts
<1>4. Goes(<<>>)
  BY <1>2, <1>3, FrontGoes
<1>5. After(u, 0, 0, 0, 0, 0, 0)
  BY <1>2, NothingMoved, NothingMoves DEF Starts, tables
<1>6. 0 \in Int /\ 0 + 0 + 0 = 0 /\ Right(0, 0, 0)
  BY DEF Right
<1>7. Outcome(u)
  BY <1>5, <1>6, Zenon DEF Outcome
<1> QED
  BY <1>4, <1>5, <1>7

LEMMA CallStarts ==
    ASSUME SystemTypeOK, NEW u \in Name, NEW a \in UserAction, Starts(u, a),
           a.kind \in ForwardingKinds \ {"swapexcess"}, ForwardingExecute(a)
    PROVE  Proceeds(u) /\ (u = Self => Goes(<<>>) /\ After(u, 0, 0, 0, 0, 0, 0))
<1>1. a \in Action /\ Self \notin a.auth /\ a.from = u
  BY KindsOfOthers DEF UserAction, Starts
<1>2. CASE a.kind \in {"enforcebal", "noop"}
  BY <1>1, <1>2, QuietlyStarts DEF Proceeds
<1>3. CASE a.kind = "swaptrace"
  BY <1>1, <1>3, ChecksByKind DEF Swaptrace, SwaptraceOk
<1>4. CASE a.kind \in SwapsBefore \cup SwapsAfter \cup PassedOn \cup PassedOnInEos
  <2>1. u \in a.auth
    <3>1. CASE a.kind \in SwapsBefore
      BY <1>1, <3>1, CallsByKind
         DEF SwapsBefore, Bidname, Buyram, Buyramburn, Buyramself, Buyrambytes, Deposit, Powerup,
             Delegatebw, Donatetorex, SwapBefore, SwapBeforeOk
    <3>2. CASE a.kind \in SwapsAfter
      BY <1>1, <3>2, CallsByKind
         DEF SwapsAfter, Bidrefund, Sellram, Refund, Claimrewards, Withdraw, CallAndSwapExcess,
             WithdrawOk
    <3>3. CASE a.kind \in PassedOn
      BY <1>1, <3>3, CallsByKind DEF PassedOn, PassOn, Mvfrsavings, Sellrex
    <3>4. CASE a.kind \in PassedOnInEos
      BY <1>1, <3>4, CallsByKind
         DEF PassedOnInEos, PassOnInEos, PassOnInEosOk, Buyrex, Undelegatebw, Unstaketorex
    <3> QED
      BY <1>4, <3>1, <3>2, <3>3, <3>4
  <2>2. u # Self
    BY <1>1, <2>1
  <2> QED
    BY <1>1, <1>4, <2>2, SwapsBeforeStart, SwapsAfterStart, PassedOnStart
<1> QED
  BY <1>2, <1>3, <1>4 DEF ForwardingKinds

-----------------------------------------------------------------------------
(* Forwarding keeps EOS, staking keeps worth                               *)

\* A transaction of one call of an account without code, other than a swapexcess.
CallKinds == ForwardingKinds \ {"swapexcess"}

OneCall ==
    Len(running) = 1 /\ running[1].kind \in CallKinds /\ running[1].from \notin Coded

\* It is about to start, or in one of the stages.
FlowInv ==
    /\ IdleInv
    /\ running \in Seq(UserAction)
    /\ OneCall /\ pending # <<>> =>
           \/ Starts(running[1].from, running[1])
           \/ running[1].from # Self /\ Stage(running[1].from)

LEMMA OnlyCall ==
    ASSUME running \in Seq(UserAction), OneCall
    PROVE  /\ running[1] \in UserAction /\ running[1] \in Action
           /\ running[1].from \in Name
<1>1. 1 \in 1..Len(running)
  BY DEF OneCall
<1>2. running[1] \in UserAction
  BY <1>1, ElementOfSeq
<1> QED
  BY <1>2 DEF UserAction, Action

\* A step of such a transaction.
LEMMA CallProceeds ==
    ASSUME FlowInv, OneCall, pending # <<>>, ForwardingExecute(Head(pending)),
           NEW u, u = running[1].from
    PROVE  Proceeds(u) /\ (u = Self => Goes(<<>>) /\ After(u, 0, 0, 0, 0, 0, 0))
<1>1. SystemTypeOK /\ u \in Name /\ u \notin Coded
  BY OnlyCall DEF FlowInv, IdleInv, CallInv, OneCall
<1>2. CASE Starts(u, running[1])
  <2>1. running[1] \in UserAction /\ Head(pending) = running[1]
    BY <1>2, OnlyCall DEF FlowInv, Starts
  <2>2. running[1].kind \in ForwardingKinds \ {"swapexcess"}
    BY DEF OneCall, CallKinds
  <2> QED
    BY <1>1, <1>2, <2>1, <2>2, CallStarts
<1>3. CASE u # Self /\ Stage(u)
  BY <1>1, <1>3, StageProceeds
<1> QED
  BY <1>2, <1>3 DEF FlowInv

LEMMA FlowInductive == FlowInv /\ [ForwardingNext]_allVars => FlowInv'
<1> SUFFICES ASSUME FlowInv, [ForwardingNext]_allVars PROVE FlowInv'
  OBVIOUS
<1>1. IdleInv /\ IdleInv' /\ CallInv /\ running \in Seq(UserAction)
  BY IdleInductive DEF FlowInv, IdleInv
<1>2. ASSUME pending # <<>>, NEW a, a = Head(pending), ForwardingExecute(a) PROVE FlowInv'
  <2>1. CASE pending' = <<>>
    <3>1. running' = <<>>
      BY <1>1, <2>1 DEF IdleInv
    <3>2. running' \in Seq(UserAction)
      BY <3>1
    <3> QED
      BY <1>1, <2>1, <3>2 DEF FlowInv
  <2>2. CASE pending' # <<>>
    <3>1. running' = running
      BY <1>1, <1>2, <2>2, StepIsDone, StillRunning
    <3>2. ASSUME OneCall PROVE running'[1].from # Self /\ Stage(running[1].from)'
      <4>1. PICK u : u = running[1].from
        OBVIOUS
      <4>2. Proceeds(u) /\ (u = Self => Goes(<<>>))
        BY <1>2, <3>2, <4>1, CallProceeds
      <4>3. u # Self /\ Stage(u)'
        BY <2>2, <4>2 DEF Proceeds, Goes
      <4>4. u = running'[1].from
        BY <3>1, <4>1
      <4> QED
        BY <4>3, <4>4
    <3>3. OneCall' => OneCall
      BY <3>1 DEF OneCall
    <3> QED
      BY <1>1, <3>1, <3>2, <3>3 DEF FlowInv
  <2> QED
    BY <2>1, <2>2
<1>3. CASE SystemRollback
  <2>1. running' = <<>> /\ pending' = <<>>
    BY <1>3 DEF SystemRollback, Rollback
  <2>2. running' \in Seq(UserAction)
    BY <2>1
  <2> QED
    BY <1>1, <2>1, <2>2 DEF FlowInv
<1>4. ASSUME NEW tx \in Transactions, ForwardingBegin(tx) PROVE FlowInv'
  <2>1. /\ pending' = tx /\ running' = tx /\ pending = <<>>
        /\ UNCHANGED <<tables, saved, systemTables, savedSystem>>
    BY <1>4 DEF ForwardingBegin, Begin
  <2>2. tx \in Seq(UserAction)
    BY TransactionsAssumption
  <2>3. TablesAsSaved' /\ SystemAsSaved'
    BY <1>1, <2>1
       DEF IdleInv, TablesAsSaved, SystemAsSaved, tables, systemTables, stakeTables, rexTables
  <2>4. Len(tx) = 1 => tx = <<tx[1]>>
    BY <2>2
  <2>5. OneCall' => Starts(running[1].from, running[1])'
    BY <2>1, <2>3, <2>4 DEF OneCall, Starts
  <2> QED
    BY <1>1, <2>1, <2>2, <2>5 DEF FlowInv
<1>5. CASE UNCHANGED allVars
  <2>1. /\ UNCHANGED <<pending, running, saved, savedSystem, tables, systemTables>>
    BY <1>5 DEF allVars, vars
  <2>2. UNCHANGED <<eos, xyz, blocked, supply, net, cpu, refunds, fund, pool, staked, unstaking>>
    BY <2>1 DEF tables, systemTables, stakeTables, rexTables
  <2>3. OneCall' = OneCall
    BY <2>1 DEF OneCall
  <2>4. Starts(running[1].from, running[1])' = Starts(running[1].from, running[1])
    BY <2>1, <2>2 DEF Starts, TablesAsSaved, SystemAsSaved
  <2>5. Stage(running[1].from) => Stage(running[1].from)'
    <3>1. PICK u : u = running[1].from
      OBVIOUS
    <3>2. \A d, s, y, f, x, h : Flow(u, d, s, y, f, x, h)' = Flow(u, d, s, y, f, x, h)
      BY <2>1, <2>2 DEF Flow, Moved, Tables, SystemTables, HeldShift, Owed, Rex, Row
    <3>3. /\ Keeps' = Keeps /\ \A E : ExcessEnd(u, E)' = ExcessEnd(u, E)
          /\ \A E, d : Due(u, E, d)' = Due(u, E, d)
          /\ \A y, f, h : Right(y, f, h)' = Right(y, f, h)
          /\ \A k, E, amt : Charging(u, k, E, amt)' = Charging(u, k, E, amt)
      BY <2>1, SameCall
    <3>4. Stage(u) => Stage(u)'
      <4>1. Traced(u) => Traced(u)'
        <5> SUFFICES ASSUME Traced(u) PROVE Traced(u)'
          OBVIOUS
        <5>1. PICK t \in Action, c \in Action, k \in Action, E \in Seq(Action), amt \in Int :
                 /\ pending = <<t>> \o (<<c>> \o (<<k>> \o E))
                 /\ t.kind = "swaptrace" /\ PaysEos(c, Self, u, amt) /\ Charging(u, k, E, amt)
                 /\ Flow(u, 0, 0, 0, 0, -amt, 0)
          BY DEF Traced
        <5>2. /\ pending' = <<t>> \o (<<c>> \o (<<k>> \o E))
              /\ Charging(u, k, E, amt)' /\ Flow(u, 0, 0, 0, 0, -amt, 0)'
          BY <2>1, <3>2, <3>3, <5>1
        <5> QED
          BY <5>1, <5>2 DEF Traced
      <4>2. Credited(u) => Credited(u)'
        BY <2>1, <3>2, <3>3 DEF Credited
      <4>3. Called(u) => Called(u)'
        BY <2>1, <3>2, <3>3 DEF Called
      <4>4. Charged(u) => Charged(u)'
        BY <2>1, <3>2, <3>3 DEF Charged
      <4>5. Claiming(u) => Claiming(u)'
        BY <2>1, <3>2, <3>3 DEF Claiming, BackEnd
      <4>6. FeeTaken(u) => FeeTaken(u)'
        BY <2>1, <3>2, <3>3 DEF FeeTaken
      <4>7. PaidBy(u) => PaidBy(u)'
        BY <2>1, <3>2, <3>3 DEF PaidBy, BackEnd
      <4>8. Ending(u) => Ending(u)'
        <5> SUFFICES ASSUME Ending(u) PROVE Ending(u)'
          OBVIOUS
        <5>1. PICK d \in Int, s \in Int, y \in Int, f \in Int, h \in Int :
                 /\ pending # <<>> /\ Due(u, pending, d)
                 /\ d + s + y + f = 0 /\ Right(y, f, h)
                 /\ Flow(u, d, s, y, f, s, h)
          BY DEF Ending
        <5>2. /\ pending' = pending /\ Due(u, pending, d)' /\ Right(y, f, h)'
              /\ Flow(u, d, s, y, f, s, h)'
          BY <2>1, <3>2, <3>3, <5>1
        <5> QED
          BY <5>1, <5>2 DEF Ending
      <4>9. Swapped(u) => Swapped(u)'
        <5> SUFFICES ASSUME Swapped(u) PROVE Swapped(u)'
          OBVIOUS
        <5>1. PICK z \in Action, amt \in Int, s \in Int, y \in Int, f \in Int, h \in Int :
                 /\ pending = <<z>> /\ PaysXyz(z, Self, u, amt)
                 /\ s + y + f = 0 /\ Right(y, f, h)
                 /\ Flow(u, 0, s, y, f, s - amt, h)
          BY DEF Swapped
        <5>2. /\ pending' = <<z>> /\ Right(y, f, h)'
              /\ Flow(u, 0, s, y, f, s - amt, h)'
          BY <2>1, <3>2, <3>3, <5>1
        <5> QED
          BY <5>1, <5>2 DEF Swapped
      <4>10. Passed(u) => Passed(u)'
        BY <2>1, <3>2, <3>3 DEF Passed
      <4>11. Trading(u) => Trading(u)'
        BY <2>1, <2>2 DEF Trading, TablesAsSaved, SystemAsSaved
      <4> QED
        BY <4>1, <4>2, <4>3, <4>4, <4>5, <4>6, <4>7, <4>8, <4>9, <4>10, <4>11 DEF Stage
    <3> QED
      BY <2>1, <3>1, <3>4
  <2> QED
    BY <1>1, <2>1, <2>3, <2>4, <2>5 DEF FlowInv
<1> QED
  BY <1>1, <1>2, <1>3, <1>4, <1>5, CallStepCases

LEMMA FlowAtFirst == SystemInit => FlowInv
<1> SUFFICES ASSUME SystemInit PROVE FlowInv
  OBVIOUS
<1>1. pending = <<>> /\ running = <<>>
  BY DEF SystemInit, Init
<1>2. running \in Seq(UserAction)
  BY <1>1
<1> QED
  BY <1>1, <1>2, IdleAtFirst DEF FlowInv

\* What a transaction of one call has moved once it commits.
LEMMA CallsEnd ==
    ASSUME FlowInv, Commits(CallKinds), running[1].from \notin Coded
    PROVE  \E u \in Name :
               /\ u = running[1].from /\ Outcome(u)
               /\ saved' = Tables' /\ savedSystem' = SystemTables'
<1>1. /\ pending # <<>> /\ ForwardingExecute(Head(pending)) /\ running' = <<>> /\ OneCall
  BY DEF Commits, ForwardingRun, OneCall
<1>2. PICK u \in Name : u = running[1].from
  BY <1>1, OnlyCall DEF FlowInv
<1>3. Proceeds(u)
  BY <1>1, <1>2, CallProceeds
<1>4. running' # running
  <2>1. Len(running) = 1 /\ running \in Seq(UserAction)
    BY <1>1 DEF OneCall, FlowInv
  <2> QED
    BY <1>1, <2>1, EmptySeq
<1>5. Goes(<<>>) /\ Outcome(u)
  BY <1>3, <1>4 DEF Proceeds
<1> QED
  BY <1>2, <1>5 DEF Goes

\* A user's tokens at the end of a flow.
LEMMA EndOfFlow ==
    ASSUME SystemTypeOK, NEW u \in Name, NEW d \in Int, NEW s \in Int, NEW y \in Int,
           NEW f \in Int, NEW x \in Int, NEW h \in Int, After(u, d, s, y, f, x, h)
    PROVE  /\ eos'[u] = saved.eos[u] + d /\ xyz'[u] = saved.xyz[u] + x
           /\ Owed(SystemTables', u) = Owed(savedSystem, u) + h
           /\ saved.eos[u] \in Int /\ saved.xyz[u] \in Int /\ Owed(savedSystem, u) \in Int
<1>1. saved.eos \in [Name -> Nat] /\ saved.xyz \in [Name -> Nat]
  BY DEF SystemTypeOK, TypeOK, Database
<1>2. saved.eos \in [Name -> Int] /\ saved.eos[u] \in Int /\ saved.xyz[u] \in Int
  BY <1>1
<1>3. /\ eos' = EosShift(saved.eos, u, d, s, y, f) /\ xyz' = XyzShift(saved.xyz, u, x)
      /\ HeldShift(SystemTables', savedSystem, u, h)
  BY DEF After, Moved, Tables
<1>4. EosShift(saved.eos, u, d, s, y, f)[u] = saved.eos[u] + d
  BY <1>2, EosShiftAt
<1>5. XyzShift(saved.xyz, u, x)[u] = saved.xyz[u] + x
  BY DEF XyzShift
<1>6. Owed(SystemTables', u) = Owed(savedSystem, u) + h
  BY <1>3 DEF HeldShift
<1>7. Owed(savedSystem, u) \in Int
  BY OwedType DEF SystemTypeOK
<1> QED
  BY <1>2, <1>3, <1>4, <1>5, <1>6, <1>7

\* Whatever a forwarding action has swapped, and whatever eosio charges, pays out or
\* refuses to take: an account without code has the EOS it had before the call.  Every
\* EOS it got was charged, or is swapped back by the last inline action.
THEOREM CallsKeepEos == ForwardingSpec => ForwardingKeepsEos
<1> DEFINE KeepsEos ==
        Commits(ForwardingKinds \ {"swapexcess"}) =>
            LET user == running[1].from
            IN  user \notin Coded => saved'.eos[user] = saved.eos[user]
<1>1. FlowInv /\ [ForwardingNext]_allVars => [KeepsEos]_allVars
  <2> SUFFICES ASSUME FlowInv, Commits(CallKinds), running[1].from \notin Coded
               PROVE  saved'.eos[running[1].from] = saved.eos[running[1].from]
    BY DEF CallKinds
  <2>1. PICK u \in Name : u = running[1].from /\ Outcome(u) /\ saved' = Tables'
    BY CallsEnd
  <2>2. SystemTypeOK
    BY DEF FlowInv, IdleInv, CallInv
  <2>3. ASSUME NEW s \in Int, NEW y \in Int, NEW f \in Int, NEW x \in Int, NEW h \in Int,
               After(u, 0, s, y, f, x, h)
        PROVE  eos'[u] = saved.eos[u]
    <3>1. 0 \in Int
      OBVIOUS
    <3>2. eos'[u] = saved.eos[u] + 0 /\ saved.eos[u] \in Int
      BY <2>2, <2>3, <3>1, EndOfFlow
    <3> QED
      BY <3>2
  <2>4. eos'[u] = saved.eos[u]
    BY <2>1, <2>3, Zenon DEF Outcome
  <2>5. saved'.eos = eos'
    BY <2>1 DEF Tables
  <2> QED
    BY <2>1, <2>4, <2>5
<1> QED
  BY <1>1, FlowAtFirst, FlowInductive, PTL DEF ForwardingSpec, ForwardingKeepsEos

\* Staking, unstaking, refunds, deposits and withdrawals leave an account what it is
\* worth: the XYZ it gives is what eosio holds more for it, and the other way round.
THEOREM StakingIsFree == ForwardingSpec => StakingKeepsWorth
<1> DEFINE KeepsWorth ==
        Commits({"delegatebw", "undelegatebw", "refund", "deposit", "withdraw"}) =>
            LET user == running[1].from
            IN  user \notin Coded \cup Ignored =>
                    Worth(saved', savedSystem', user) = Worth(saved, savedSystem, user)
<1>1. FlowInv /\ [ForwardingNext]_allVars => [KeepsWorth]_allVars
  <2> SUFFICES ASSUME FlowInv, Commits(KeptKinds), running[1].from \notin Coded \cup Ignored
               PROVE  Worth(saved', savedSystem', running[1].from)
                          = Worth(saved, savedSystem, running[1].from)
    BY DEF KeptKinds
  <2>1. Commits(CallKinds) /\ Keeps
    BY DEF Commits, Keeps, KeptKinds, CallKinds, ForwardingKinds, SwapsBefore, SwapsAfter,
           PassedOnInEos
  <2>2. PICK u \in Name : /\ u = running[1].from /\ Outcome(u)
                          /\ saved' = Tables' /\ savedSystem' = SystemTables'
    BY <2>1, CallsEnd
  <2>3. SystemTypeOK /\ 0 \in Int
    BY DEF FlowInv, IdleInv, CallInv
  <2>4. running[1].kind \notin TradeKinds
    BY <2>1 DEF Keeps, KeptKinds, TradeKinds
  <2>5. PICK s \in Int, y \in Int, f \in Int, h \in Int :
            s + y + f = 0 /\ Right(y, f, h) /\ After(u, 0, s, y, f, s, h)
    BY <2>2, <2>4 DEF Outcome
  <2>6. f = 0 /\ h = y
    BY <2>1, <2>5 DEF Right
  <2>7. /\ eos'[u] = saved.eos[u] + 0 /\ xyz'[u] = saved.xyz[u] + s
        /\ Owed(SystemTables', u) = Owed(savedSystem, u) + h
        /\ saved.eos[u] \in Int /\ saved.xyz[u] \in Int /\ Owed(savedSystem, u) \in Int
    BY <2>3, <2>5, EndOfFlow
  <2>8. saved'.eos = eos' /\ saved'.xyz = xyz'
    BY <2>2 DEF Tables
  <2>9. saved'.eos[u] + saved'.xyz[u] + Owed(savedSystem', u)
            = saved.eos[u] + saved.xyz[u] + Owed(savedSystem, u)
    <3>1. s + h = 0
      BY <2>5, <2>6
    <3>2. \A e, b, o, m, k \in Int : m + k = 0 => (e + 0) + (b + m) + (o + k) = e + b + o
      OBVIOUS
    <3>3. (saved.eos[u] + 0) + (saved.xyz[u] + s) + (Owed(savedSystem, u) + h)
              = saved.eos[u] + saved.xyz[u] + Owed(savedSystem, u)
      BY <2>7, <3>1, <3>2
    <3> QED
      BY <2>2, <2>7, <2>8, <3>3, Zenon
  <2> QED
    BY <2>2, <2>9, Zenon DEF Worth
<1> QED
  BY <1>1, FlowAtFirst, FlowInductive, PTL DEF ForwardingSpec, StakingKeepsWorth

-----------------------------------------------------------------------------
(* Refinement of AtomicForwarding                                          *)

\* The tables of AtomicForwarding.
OwedIn(S) == [n \in Name |-> Owed(S, n)]
RexIn(S) == [n \in Name |-> Rex(S, n)]

\* No row of the fund is negative, and the pool has REX.
FundsIn(S) ==
    /\ \A n \in Name : Row(S.fund, n) >= 0
    /\ S.pool # NoRow => S.pool.rex > 0

LEMMA EosToEosio ==
    ASSUME NEW e \in [Name -> Int], NEW u, u \notin {Self, System}, NEW y \in Int
    PROVE  EosShift(e, u, 0, -y, y, 0) = Move(e, Self, System, y)
<1> DEFINE g == EosShift(e, u, 0, -y, y, 0)
           k == Move(e, Self, System, y)
<1>1. Self \in Name /\ System \in Name /\ Self # System
  BY NamesAssumption, SystemAssumption
<1>2. /\ g \in [Name -> Int]
      /\ \A n \in Name : g[n] = e[n] + (IF n = u THEN 0 ELSE IF n = Self THEN -y
                                        ELSE IF n = System THEN y ELSE IF n = RamFee THEN 0
                                        ELSE 0)
  BY EosShiftAt
<1>3. /\ k \in [Name -> Int] /\ k[Self] = e[Self] - y /\ k[System] = e[System] + y
      /\ \A n \in Name \ {Self, System} : k[n] = e[n]
  BY <1>1 DEF Move
<1> HIDE DEF g, k
<1>4. \A n \in Name : g[n] = k[n]
  BY <1>1, <1>2, <1>3
<1>5. g = k
  BY <1>2, <1>3, <1>4
<1> QED
  BY <1>5 DEF g, k

LEMMA MoveBackwards ==
    ASSUME NEW e \in [Name -> Int], NEW p \in Name, NEW q \in Name, p # q, NEW x \in Int
    PROVE  Move(e, p, q, -x) = Move(e, q, p, x)
<1> DEFINE g == Move(e, p, q, -x)
           k == Move(e, q, p, x)
<1>1. /\ g \in [Name -> Int] /\ g[p] = e[p] + x /\ g[q] = e[q] - x
      /\ \A n \in Name \ {p, q} : g[n] = e[n]
  BY DEF Move
<1>2. /\ k \in [Name -> Int] /\ k[p] = e[p] + x /\ k[q] = e[q] - x
      /\ \A n \in Name \ {p, q} : k[n] = e[n]
  BY DEF Move
<1> HIDE DEF g, k
<1>3. \A n \in Name : g[n] = k[n]
  BY <1>1, <1>2
<1>4. g = k
  BY <1>1, <1>2, <1>3
<1> QED
  BY <1>4 DEF g, k

LEMMA XyzToUser ==
    ASSUME NEW b \in [Name -> Int], NEW u \in Name \ {Self}, NEW x \in Int
    PROVE  XyzShift(b, u, x) = Move(b, Self, u, x)
<1> DEFINE g == XyzShift(b, u, x)
           k == Move(b, Self, u, x)
<1>1. Self \in Name
  BY NamesAssumption
<1>2. /\ g \in [Name -> Int]
      /\ \A n \in Name : g[n] = b[n] + (IF n = u THEN x ELSE IF n = Self THEN -x ELSE 0)
  BY DEF XyzShift
<1>3. /\ k \in [Name -> Int] /\ k[Self] = b[Self] - x /\ k[u] = b[u] + x
      /\ \A n \in Name \ {Self, u} : k[n] = b[n]
  BY <1>1 DEF Move
<1> HIDE DEF g, k
<1>4. \A n \in Name : g[n] = k[n]
  BY <1>1, <1>2, <1>3
<1>5. g = k
  BY <1>2, <1>3, <1>4
<1> QED
  BY <1>5 DEF g, k

\* What eosio holds at the end of a flow.
LEMMA HeldAtEnd ==
    ASSUME IsSystemDatabase(savedSystem), NEW S, NEW u \in Name, NEW h \in Int,
           HeldShift(S, savedSystem, u, h)
    PROVE  /\ OwedIn(S) = [OwedIn(savedSystem) EXCEPT ![u] = @ + h]
           /\ RexIn(S) = RexIn(savedSystem) /\ S.pool = savedSystem.pool
           /\ h = 0 => OwedIn(S) = OwedIn(savedSystem)
<1>1. \A n \in Name : Owed(savedSystem, n) \in Int
  BY OwedType
<1>2. \A n \in Name : Owed(S, n) = Owed(savedSystem, n) + (IF n = u THEN h ELSE 0)
  BY DEF HeldShift
<1>3. OwedIn(S) = [OwedIn(savedSystem) EXCEPT ![u] = @ + h]
  <2> DEFINE g == OwedIn(S)
             k == [OwedIn(savedSystem) EXCEPT ![u] = @ + h]
  <2>1. DOMAIN g = Name /\ \A n \in Name : g[n] = Owed(S, n)
    BY DEF OwedIn
  <2>2. /\ DOMAIN k = Name
        /\ \A n \in Name : k[n] = Owed(savedSystem, n) + (IF n = u THEN h ELSE 0)
    BY <1>1 DEF OwedIn
  <2>3. g = [n \in Name |-> g[n]] /\ k = [n \in Name |-> k[n]]
    BY DEF OwedIn
  <2> HIDE DEF g, k
  <2>4. \A n \in Name : g[n] = k[n]
    BY <1>2, <2>1, <2>2
  <2>5. g = k
    BY <2>3, <2>4
  <2> QED
    BY <2>5 DEF g, k
<1>4. RexIn(S) = RexIn(savedSystem) /\ S.pool = savedSystem.pool
  BY DEF HeldShift, RexIn
<1>5. h = 0 => OwedIn(S) = OwedIn(savedSystem)
  BY <1>1, <1>2 DEF OwedIn
<1> QED
  BY <1>3, <1>4, <1>5

LEMMA NothingShifts ==
    ASSUME NEW e \in [Name -> Int], NEW b \in [Name -> Int], NEW u
    PROVE  EosShift(e, u, 0, 0, 0, 0) = e /\ XyzShift(b, u, 0) = b
<1>1. /\ EosShift(e, u, 0, 0, 0, 0) \in [Name -> Int]
      /\ \A n \in Name : EosShift(e, u, 0, 0, 0, 0)[n] = e[n]
  BY DEF EosShift
<1>2. XyzShift(b, u, 0) \in [Name -> Int] /\ \A n \in Name : XyzShift(b, u, 0)[n] = b[n]
  BY DEF XyzShift
<1> QED
  BY <1>1, <1>2

\* eosio's own accounts cannot have paid themselves: the sum would not be right.
LEMMA ShiftsAddUp ==
    ASSUME NEW e \in [Name -> Int], NEW u, NEW s \in Int, NEW y \in Int, NEW f \in Int,
           SumFunction(EosShift(e, u, 0, s, y, f)) = SumFunction(e)
    PROVE  (u = System => s + f = 0) /\ (u = RamFee => s + y = 0)
<1>1. /\ Self \in Name /\ System \in Name /\ RamFee \in Name
      /\ Self # System /\ Self # RamFee /\ System # RamFee
  BY NamesAssumption, SystemAssumption
<1>2. ASSUME NEW p \in Name \ {Self}, NEW k \in Int,
             \A n \in Name : EosShift(e, u, 0, s, y, f)[n] =
                 e[n] + (IF n = Self THEN s ELSE IF n = p THEN k ELSE 0)
      PROVE  s + k = 0
  <2> DEFINE g == EosShift(e, u, 0, s, y, f)
             m == [e EXCEPT ![Self] = @ + s]
  <2>1. /\ m \in [Name -> Int] /\ m[Self] = e[Self] + s
        /\ \A n \in Name \ {Self} : m[n] = e[n]
    BY <1>1
  <2>2. g \in [Name -> Int] /\ g[p] = e[p] + k /\ \A n \in Name \ {p} : g[n] = m[n]
    BY <1>1, <1>2, <2>1, EosShiftAt
  <2>3. SumFunction(g) = SumFunction(e)
    OBVIOUS
  <2> HIDE DEF g, m
  <2>4. SumFunction(m) = SumFunction(e) - e[Self] + m[Self]
    BY <1>1, <2>1, FinitelyManyNames, SumUpdate
  <2>5. SumFunction(g) = SumFunction(m) - m[p] + g[p]
    BY <2>1, <2>2, FinitelyManyNames, SumUpdate
  <2>6. SumFunction(e) \in Int /\ SumFunction(m) \in Int
    <3>1. DOMAIN e = Name /\ DOMAIN m = Name /\ Name \in SUBSET Name
      BY <2>1
    <3> QED
      BY <2>1, <3>1, FinitelyManyNames, SumRemove DEF SumFunction
  <2>7. e[Self] \in Int /\ e[p] \in Int /\ m[p] = e[p]
    BY <1>1, <2>1
  <2> QED
    BY <2>1, <2>2, <2>3, <2>4, <2>5, <2>6, <2>7
<1>3. CASE u = System
  <2>1. \A n \in Name : EosShift(e, u, 0, s, y, f)[n] =
                            e[n] + (IF n = Self THEN s ELSE IF n = RamFee THEN f ELSE 0)
    BY <1>1, <1>3, EosShiftAt
  <2> QED
    BY <1>1, <1>2, <1>3, <2>1
<1>4. CASE u = RamFee
  <2>1. \A n \in Name : EosShift(e, u, 0, s, y, f)[n] =
                            e[n] + (IF n = Self THEN s ELSE IF n = System THEN y ELSE 0)
    BY <1>1, <1>4, EosShiftAt
  <2> QED
    BY <1>1, <1>2, <1>4, <2>1
<1> QED
  BY <1>3, <1>4

\* The committed tables before and after a call of u that has moved s, y, f and h.
Moves(u, s, y, f, h) ==
    /\ saved'.eos = EosShift(saved.eos, u, 0, s, y, f)
    /\ saved'.xyz = XyzShift(saved.xyz, u, s)
    /\ saved'.blocked = saved.blocked /\ saved'.supply = saved.supply
    /\ OwedIn(savedSystem') = [OwedIn(savedSystem) EXCEPT ![u] = @ + h]
    /\ h = 0 => OwedIn(savedSystem') = OwedIn(savedSystem)
    /\ RexIn(savedSystem') = RexIn(savedSystem) /\ savedSystem'.pool = savedSystem.pool

\* What bounds them.
Holds(u, s, y, f, h) ==
    /\ saved.eos \in [Name -> Nat] /\ saved.xyz \in [Name -> Nat]
    /\ saved.xyz[u] + s >= 0 /\ saved.xyz[Self] - s >= 0
    /\ saved.eos[Self] + s >= 0
    /\ u # System => saved.eos[System] + y >= 0
    /\ OwedIn(savedSystem) \in [Name -> Int] /\ OwedIn(savedSystem)[u] + h >= 0

LEMMA ChargeIsStep ==
    ASSUME NEW u \in Name \ {Self}, u # System, NEW y \in Nat \ {0}, NEW h \in {0, y},
           Moves(u, -y, y, 0, h), Holds(u, -y, y, 0, h)
    PROVE  Calls!Charge(u)
<1>1. Self \in Name
  BY NamesAssumption
<1>2. saved.eos \in [Name -> Int] /\ saved.xyz \in [Name -> Int] /\ -y \in Int /\ y \in Int
  BY DEF Holds
<1>3. saved'.eos = Move(saved.eos, Self, System, y)
  BY <1>2, EosToEosio DEF Moves
<1>4. saved'.xyz = Move(saved.xyz, u, Self, y)
  BY <1>1, <1>2, XyzToUser, MoveBackwards DEF Moves
<1>5. saved.xyz[u] \in Nat /\ saved.eos[Self] \in Nat
  BY <1>1 DEF Holds
<1>6. y \in 1 .. saved.xyz[u] /\ y <= saved.eos[Self]
  BY <1>5 DEF Holds
<1>7. OwedIn(savedSystem') \in {OwedIn(savedSystem), [OwedIn(savedSystem) EXCEPT ![u] = @ + y]}
  BY DEF Moves
<1> QED
  BY <1>3, <1>4, <1>6, <1>7 DEF Calls!Charge, Calls!Move, Move, Moves, OwedIn, RexIn

LEMMA PayIsStep ==
    ASSUME NEW u \in Name \ {Self}, u # System, NEW amt \in Nat \ {0}, NEW h \in {0, -amt},
           Moves(u, amt, -amt, 0, h), Holds(u, amt, -amt, 0, h)
    PROVE  Calls!Pay(u)
<1>1. Self \in Name /\ System \in Name /\ Self # System
  BY NamesAssumption, SystemAssumption
<1>2. /\ saved.eos \in [Name -> Int] /\ saved.xyz \in [Name -> Int] /\ -amt \in Int
      /\ amt \in Int /\ -(-amt) = amt
  BY DEF Holds
<1>3. saved'.eos = Move(saved.eos, System, Self, amt)
  <2>1. EosShift(saved.eos, u, 0, amt, -amt, 0) = Move(saved.eos, Self, System, -amt)
    <3>1. u \notin {Self, System}
      OBVIOUS
    <3>2. EosShift(saved.eos, u, 0, -(-amt), -amt, 0) = Move(saved.eos, Self, System, -amt)
      BY <1>2, <3>1, EosToEosio
    <3> QED
      BY <1>2, <3>2, Zenon
  <2> QED
    BY <1>1, <1>2, <2>1, MoveBackwards DEF Moves
<1>4. saved'.xyz = Move(saved.xyz, Self, u, amt)
  BY <1>2, XyzToUser DEF Moves
<1>5. saved.xyz[Self] \in Nat /\ saved.eos[System] \in Nat
  BY <1>1 DEF Holds
<1>6. amt \in 1 .. saved.eos[System] /\ amt <= saved.xyz[Self]
  BY <1>5 DEF Holds
<1>7. \/ OwedIn(savedSystem') = OwedIn(savedSystem)
      \/ /\ amt <= OwedIn(savedSystem)[u]
         /\ OwedIn(savedSystem') = [OwedIn(savedSystem) EXCEPT ![u] = @ - amt]
  <2>1. CASE h = 0
    BY <2>1 DEF Moves
  <2>2. CASE h = -amt
    <3>1. OwedIn(savedSystem)[u] \in Int
      BY DEF Holds
    <3>2. amt <= OwedIn(savedSystem)[u]
      BY <2>2, <3>1 DEF Holds
    <3>3. OwedIn(savedSystem)[u] + h = OwedIn(savedSystem)[u] - amt
      BY <2>2, <3>1
    <3> QED
      BY <3>2, <3>3 DEF Moves
  <2> QED
    BY <2>1, <2>2
<1> QED
  BY <1>3, <1>4, <1>6, <1>7 DEF Calls!Pay, Calls!Move, Move, Moves, OwedIn, RexIn

LEMMA SaleMovesEos ==
    ASSUME NEW u, u \notin {Self, System, RamFee}, NEW price \in Int, NEW fee \in Int,
           saved.eos \in [Name -> Int], Moves(u, price - fee, -price, fee, 0)
    PROVE  saved'.eos = Move(Move(saved.eos, System, RamFee, fee), System, Self, price - fee)
<1> DEFINE e == saved.eos
           s == price - fee
           y == -price
           g == EosShift(e, u, 0, s, y, fee)
           m == Move(e, System, RamFee, fee)
           k == Move(m, System, Self, s)
<1>0. e \in [Name -> Int] /\ s \in Int /\ y \in Int /\ fee \in Int /\ y = -(s + fee)
      /\ saved'.eos = g
  BY DEF Moves
<1> HIDE DEF e, s, y
<1>1. /\ Self \in Name /\ System \in Name /\ RamFee \in Name
      /\ Self # System /\ Self # RamFee /\ System # RamFee
  BY NamesAssumption, SystemAssumption
<1>2. /\ g \in [Name -> Int]
      /\ \A n \in Name : g[n] = e[n] + (IF n = u THEN 0 ELSE IF n = Self THEN s
                                        ELSE IF n = System THEN y
                                        ELSE IF n = RamFee THEN fee ELSE 0)
  BY <1>0, EosShiftAt
<1>3. /\ m \in [Name -> Int] /\ m[System] = e[System] - fee /\ m[RamFee] = e[RamFee] + fee
      /\ \A n \in Name \ {System, RamFee} : m[n] = e[n]
  BY <1>0, <1>1 DEF Move
<1> HIDE DEF g, m
<1>4. /\ k \in [Name -> Int] /\ k[System] = m[System] - s
      /\ k[Self] = m[Self] + s
      /\ \A n \in Name \ {System, Self} : k[n] = m[n]
  BY <1>0, <1>1, <1>3 DEF Move
<1> HIDE DEF k
<1>5. \A n \in Name : g[n] = k[n]
  BY <1>0, <1>1, <1>2, <1>3, <1>4
<1>6. g = k
  BY <1>2, <1>4, <1>5
<1> QED
  BY <1>0, <1>6 DEF e, s, g, m, k

LEMMA SaleIsStep ==
    ASSUME NEW u \in Name \ {Self}, u \notin {System, RamFee}, NEW price \in Nat,
           NEW fee \in 1 .. price,
           Moves(u, price - fee, -price, fee, 0), Holds(u, price - fee, -price, fee, 0)
    PROVE  Calls!SellWithFee(u)
<1>1. Self \in Name /\ System \in Name
  BY NamesAssumption, SystemAssumption
<1>2. /\ saved.eos \in [Name -> Int] /\ saved.xyz \in [Name -> Int]
      /\ price \in Int /\ fee \in Int /\ price - fee \in Int
  BY DEF Holds
<1>3. saved'.eos = Move(Move(saved.eos, System, RamFee, fee), System, Self, price - fee)
  BY <1>2, SaleMovesEos
<1>4. saved'.xyz = Move(saved.xyz, Self, u, price - fee)
  BY <1>2, XyzToUser DEF Moves
<1>5. saved.xyz[Self] \in Nat /\ saved.eos[System] \in Nat
  BY <1>1 DEF Holds
<1>6. price \in 1 .. saved.eos[System] /\ price - fee <= saved.xyz[Self]
  BY <1>2, <1>5 DEF Holds
<1>7. OwedIn(savedSystem') = OwedIn(savedSystem)
  BY DEF Moves
<1> QED
  BY <1>3, <1>4, <1>6, <1>7
     DEF Calls!SellWithFee, Calls!held, Calls!Move, Move, Moves, OwedIn, RexIn

\* A call that commits is one step.
LEMMA FlowIsStep ==
    ASSUME SystemTypeOK, SystemTypeOK', ConservedIn(saved), Conserved', FundsIn(SystemTables'),
           saved' = Tables', savedSystem' = SystemTables', NEW u \in Name \ {Self},
           NEW s \in Int, NEW y \in Int, NEW f \in Int, NEW h \in Int,
           s + y + f = 0, Right(y, f, h), After(u, 0, s, y, f, s, h)
    PROVE  [Calls!CallNext]_Calls!callVars
<1>1. /\ Self \in Name /\ System \in Name /\ RamFee \in Name
      /\ Self # System /\ Self # RamFee /\ System # RamFee
  BY NamesAssumption, SystemAssumption
<1>2. /\ saved.eos \in [Name -> Nat] /\ saved.xyz \in [Name -> Nat]
      /\ eos' \in [Name -> Nat] /\ xyz' \in [Name -> Nat]
      /\ saved.eos \in [Name -> Int] /\ saved.xyz \in [Name -> Int]
  <2>1. saved.eos \in [Name -> Nat] /\ saved.xyz \in [Name -> Nat]
    BY DEF SystemTypeOK, TypeOK, Database
  <2>2. eos' \in [Name -> Nat] /\ xyz' \in [Name -> Nat]
    BY DEF SystemTypeOK, TypeOK
  <2> QED
    BY <2>1, <2>2
<1>3. /\ eos' = EosShift(saved.eos, u, 0, s, y, f) /\ xyz' = XyzShift(saved.xyz, u, s)
      /\ HeldShift(savedSystem', savedSystem, u, h)
  BY DEF After, Moved, Tables
<1>4. Moves(u, s, y, f, h)
  <2>1. IsSystemDatabase(savedSystem)
    BY DEF SystemTypeOK
  <2>2. /\ saved'.eos = eos' /\ saved'.xyz = xyz'
        /\ saved'.blocked = saved.blocked /\ saved'.supply = saved.supply
    BY DEF After, Moved, Tables
  <2> QED
    BY <1>3, <2>1, <2>2, HeldAtEnd DEF Moves
<1>5. Holds(u, s, y, f, h)
  <2>1. 0 \in Int
    OBVIOUS
  <2>2. \A n \in Name : eos'[n] = saved.eos[n] + (IF n = u THEN 0 ELSE IF n = Self THEN s
                                                  ELSE IF n = System THEN y
                                                  ELSE IF n = RamFee THEN f ELSE 0)
    BY <1>2, <1>3, <2>1, EosShiftAt
  <2>3. saved.eos[Self] + s >= 0 /\ (u # System => saved.eos[System] + y >= 0)
    BY <1>1, <1>2, <2>2
  <2>4. /\ xyz'[u] = saved.xyz[u] + s /\ xyz'[Self] = saved.xyz[Self] - s
        /\ xyz'[u] >= 0 /\ xyz'[Self] >= 0
    <3>1. xyz'[u] = saved.xyz[u] + s /\ xyz'[Self] = saved.xyz[Self] + (-s)
      BY <1>1, <1>3 DEF XyzShift
    <3> QED
      BY <1>1, <1>2, <3>1
  <2>5. OwedIn(savedSystem) \in [Name -> Int] /\ OwedIn(savedSystem)[u] = Owed(savedSystem, u)
    BY OwedType DEF OwedIn, SystemTypeOK
  <2>6. Owed(savedSystem', u) = Owed(savedSystem, u) + h
    BY <1>3 DEF HeldShift
  <2>7. Owed(savedSystem', u) >= 0
    <3> DEFINE S == savedSystem'
    <3>1. IsSystemDatabase(S) /\ FundsIn(S)
      BY DEF SystemTypeOK
    <3> HIDE DEF S
    <3>2. /\ S.net[u] \in Nat /\ S.cpu[u] \in Nat /\ S.refunds[u] \in Nat
          /\ Row(S.fund, u) >= 0 /\ Row(S.fund, u) \in Int
      BY <3>1, RowType DEF IsSystemDatabase, FundsIn
    <3>3. Owed(S, u) >= 0
      BY <3>2 DEF Owed
    <3> QED
      BY <3>3 DEF S
  <2> QED
    BY <1>2, <2>3, <2>4, <2>5, <2>6, <2>7 DEF Holds
<1>6. (u = System => s + f = 0) /\ (u = RamFee => s + y = 0)
  <2>1. SumFunction(EosShift(saved.eos, u, 0, s, y, f)) = SumFunction(saved.eos)
    BY <1>3 DEF Conserved, ConservedIn
  <2> QED
    BY <1>2, <2>1, ShiftsAddUp
<1>7. f \in Nat /\ (f > 0 => y + f <= 0 /\ h = 0) /\ (h = y \/ h = 0)
  BY DEF Right
<1>8. CASE y = 0
  <2>1. s = 0 /\ f = 0 /\ h = 0
    BY <1>7, <1>8
  <2>2. saved'.eos = saved.eos /\ saved'.xyz = saved.xyz
    BY <1>2, <1>4, <1>8, <2>1, NothingShifts DEF Moves
  <2> QED
    BY <1>4, <2>1, <2>2 DEF Moves, OwedIn, RexIn, Calls!callVars, Calls!vars, Calls!held
<1>9. CASE y > 0
  <2>1. f = 0 /\ s = -y /\ u # System /\ y \in Nat \ {0} /\ h \in {0, y}
    BY <1>6, <1>7, <1>9
  <2>2. Calls!Charge(u)
    BY <1>4, <1>5, <2>1, ChargeIsStep
  <2> QED
    BY <2>2 DEF Calls!CallNext, Calls!Users
<1>10. CASE y < 0 /\ f = 0
  <2>1. s \in Nat \ {0} /\ y = -s /\ u # System /\ h \in {0, -s}
    BY <1>6, <1>7, <1>10
  <2>2. Calls!Pay(u)
    BY <1>4, <1>5, <1>10, <2>1, PayIsStep
  <2> QED
    BY <2>2 DEF Calls!CallNext, Calls!Users
<1>11. CASE y < 0 /\ f > 0
  <2>1. PICK price \in Nat : price = -y
    BY <1>11
  <2>2. y = -price /\ s = price - f /\ f \in 1 .. price /\ h = 0
    BY <1>7, <1>11, <2>1
  <2>3. u \notin {System, RamFee}
    BY <1>6, <1>7, <1>11
  <2>4. Calls!SellWithFee(u)
    BY <1>4, <1>5, <2>2, <2>3, SaleIsStep
  <2> QED
    BY <2>4 DEF Calls!CallNext, Calls!Users
<1> QED
  BY <1>7, <1>8, <1>9, <1>10, <1>11

\* A swap or a transfer is a step of AtomicSwap, and eosio holds what it held.
LEMMA SwapIsStep ==
    ASSUME Atomic!Next \/ UNCHANGED Atomic!vars,
           savedSystem'.pool = savedSystem.pool,
           OwedIn(savedSystem') = OwedIn(savedSystem), RexIn(savedSystem') = RexIn(savedSystem)
    PROVE  [Calls!CallNext]_Calls!callVars
<1>1. UNCHANGED Calls!held
  BY DEF Calls!held, OwedIn, RexIn
<1>2. CASE UNCHANGED Atomic!vars
  BY <1>1, <1>2 DEF Atomic!vars, Calls!callVars, Calls!vars
<1>3. CASE Atomic!Issue
  BY <1>1, <1>3 DEF Atomic!Issue, Calls!Issue, Calls!Next, Calls!CallNext
<1>4. ASSUME NEW from \in Atomic!Users, NEW to \in Atomic!Users,
             Atomic!SendEos(from, to) \/ Atomic!SendXyz(from, to)
      PROVE  Calls!CallNext
  <2>1. Calls!SendEos(from, to) \/ Calls!SendXyz(from, to)
    BY <1>4 DEF Atomic!SendEos, Calls!SendEos, Atomic!SendXyz, Calls!SendXyz,
                Atomic!Move, Calls!Move
  <2> QED
    BY <1>1, <2>1 DEF Atomic!Users, Calls!Users, Calls!Next, Calls!CallNext
<1>5. ASSUME NEW from \in Atomic!Users, NEW to \in Atomic!Users,
             Atomic!EosForXyz(from, to) \/ Atomic!XyzForEos(from, to)
      PROVE  Calls!CallNext
  <2>1. Calls!EosForXyz(from, to) \/ Calls!XyzForEos(from, to)
    BY <1>5 DEF Atomic!EosForXyz, Calls!EosForXyz, Atomic!XyzForEos, Calls!XyzForEos,
                Atomic!Welcome, Calls!Welcome, Atomic!Move, Calls!Move
  <2> QED
    BY <1>1, <2>1 DEF Atomic!Users, Calls!Users, Calls!Next, Calls!CallNext
<1>6. ASSUME NEW n \in Atomic!Users, Atomic!Keep(n)
      PROVE  Calls!CallNext
  <2>1. Calls!Keep(n)
    BY <1>6 DEF Atomic!Keep, Calls!Keep, Atomic!Move, Calls!Move
  <2> QED
    BY <1>1, <2>1 DEF Atomic!Users, Calls!Users, Calls!Next, Calls!CallNext
<1>7. ASSUME NEW n \in Name, Atomic!SetBlocked(n)
      PROVE  Calls!CallNext
  <2>1. Calls!SetBlocked(n)
    BY <1>7 DEF Atomic!SetBlocked, Calls!SetBlocked
  <2> QED
    BY <1>1, <2>1 DEF Calls!Next, Calls!CallNext
<1> QED
  BY <1>2, <1>3, <1>4, <1>5, <1>6, <1>7 DEF Atomic!Next

\* A trade changes only what eosio holds for the trader.
LEMMA TradeRows ==
    ASSUME SystemTypeOK, NEW a \in Action, EosioTrade(a)
    PROVE  /\ UNCHANGED <<eos, xyz, blocked, supply, pool>>
           /\ \A n \in Name \ {a.from} :
                  /\ Owed(SystemTables', n) = Owed(SystemTables, n)
                  /\ Rex(SystemTables', n) = Rex(SystemTables, n)
<1>1. SystemExecute(a)
  BY DEF EosioTrade, SystemExecute
<1>2. UNCHANGED <<eos, xyz, blocked, supply, pool>>
  BY DEF EosioTrade, EosioBuyrex, EosioMvfrsavings, EosioSellrex, tables
<1>3. \A n \in Name \ {a.from} : UNCHANGED HeldFor(n)
  BY <1>1, EosioHolds
<1> QED
  BY <1>2, <1>3, HeldIsOwed

\* Moving REX out of savings leaves the trader as much.
LEMMA SavingsAreHeld ==
    ASSUME SystemTypeOK, NEW a \in Action, EosioMvfrsavings(a)
    PROVE  /\ Owed(SystemTables', a.from) = Owed(SystemTables, a.from)
           /\ Rex(SystemTables', a.from) = Rex(SystemTables, a.from)
<1> DEFINE n == a.from
           amt == a.amt
<1>1. amt \in Int /\ n \in Name /\ IsTable(staked) /\ IsTable(unstaking)
  BY DEF Action, SystemTypeOK, IsSystemDatabase, SystemTables
<1>2. /\ UNCHANGED <<net, cpu, refunds, fund>>
      /\ n \in DOMAIN staked /\ staked' = [staked EXCEPT ![n] = @ - amt]
      /\ unstaking' = Add(unstaking, n, amt)
  BY DEF EosioMvfrsavings, HasRex, stakeTables
<1> HIDE DEF n, amt
<1>3. Row(staked', n) = Row(staked, n) - amt
  BY <1>1, <1>2 DEF IsTable, Row
<1>4. Row(unstaking', n) = Row(unstaking, n) + amt
  BY <1>1, <1>2, AddToSame
<1>5. Row(staked, n) \in Int /\ Row(unstaking, n) \in Int
  BY <1>1, RowType
<1>6. Row(staked', n) + Row(unstaking', n) = Row(staked, n) + Row(unstaking, n)
  BY <1>1, <1>3, <1>4, <1>5
<1>7. Rex(SystemTables', n) = Rex(SystemTables, n)
  BY <1>6 DEF Rex, SystemTables
<1>8. Owed(SystemTables', n) = Owed(SystemTables, n)
  BY <1>2 DEF Owed, SystemTables
<1> QED
  BY <1>7, <1>8 DEF n

\* A trade that commits is one step.
LEMMA TradeIsStep ==
    ASSUME SystemTypeOK, NEW a \in Action, a.from # Self, a.amt > 0, EosioTrade(a),
           TablesAsSaved, SystemAsSaved, saved' = Tables', savedSystem' = SystemTables'
    PROVE  [Calls!CallNext]_Calls!callVars
<1> DEFINE n == a.from
<1>1. n \in Name \ {Self}
  BY DEF Action
<1>2. /\ UNCHANGED <<eos, xyz, blocked, supply, pool>>
      /\ \A m \in Name \ {n} : /\ Owed(SystemTables', m) = Owed(SystemTables, m)
                               /\ Rex(SystemTables', m) = Rex(SystemTables, m)
  BY TradeRows
<1>3. /\ saved'.eos = saved.eos /\ saved'.xyz = saved.xyz
      /\ saved'.blocked = saved.blocked /\ saved'.supply = saved.supply
  BY <1>2 DEF Tables, TablesAsSaved
<1>4. \A m \in Name : /\ Owed(SystemTables, m) = Owed(savedSystem, m)
                     /\ Rex(SystemTables, m) = Rex(savedSystem, m)
  BY DEF SystemAsSaved, Owed, Rex, SystemTables
<1>5. savedSystem.pool = pool /\ savedSystem'.pool = savedSystem.pool
  BY <1>2 DEF SystemAsSaved, SystemTables
<1>6. /\ \A m \in Name \ {n} : /\ Owed(savedSystem', m) = Owed(savedSystem, m)
                               /\ Rex(savedSystem', m) = Rex(savedSystem, m)
  BY <1>2, <1>4
<1> HIDE DEF n
<1>7. CASE EosioMvfrsavings(a)
  <2>1. /\ Owed(savedSystem', n) = Owed(savedSystem, n)
        /\ Rex(savedSystem', n) = Rex(savedSystem, n)
    BY <1>1, <1>4, <1>7, SavingsAreHeld DEF n
  <2>2. OwedIn(savedSystem') = OwedIn(savedSystem) /\ RexIn(savedSystem') = RexIn(savedSystem)
    BY <1>1, <1>6, <2>1 DEF OwedIn, RexIn
  <2> QED
    BY <1>3, <1>5, <2>2 DEF OwedIn, RexIn, Calls!callVars, Calls!vars, Calls!held
<1>8. CASE EosioBuyrex(a) \/ EosioSellrex(a)
  <2>1. pool # NoRow
    BY <1>8 DEF EosioBuyrex, EosioBuyrexOk, EosioSellrex, EosioSellrexOk
  <2>2. RexWorth(SystemTables', n) <= RexWorth(SystemTables, n)
    BY <2>1, TradeGainsNothing DEF n
  <2>3. SystemTables.pool = pool /\ SystemTables'.pool = pool
    BY <1>2 DEF SystemTables
  <2>4. pool.rex * Owed(savedSystem', n) + pool.lendable * Rex(savedSystem', n)
            <= pool.rex * Owed(savedSystem, n) + pool.lendable * Rex(savedSystem, n)
    BY <1>1, <1>4, <2>2, <2>3 DEF RexWorth
  <2>5. /\ OwedIn(savedSystem') = [OwedIn(savedSystem) EXCEPT ![n] = OwedIn(savedSystem')[n]]
        /\ RexIn(savedSystem') = [RexIn(savedSystem) EXCEPT ![n] = RexIn(savedSystem')[n]]
    BY <1>1, <1>6 DEF OwedIn, RexIn
  <2>6. \A s : OwedIn(s)[n] = Owed(s, n) /\ RexIn(s)[n] = Rex(s, n)
    BY <1>1 DEF OwedIn, RexIn
  <2>7. Calls!Trade(n)
    BY <1>3, <1>5, <2>1, <2>4, <2>5, <2>6 DEF Calls!Trade, Calls!vars, OwedIn, RexIn
  <2> QED
    BY <1>1, <2>7 DEF Calls!CallNext, Calls!Users
<1> QED
  BY <1>7, <1>8 DEF EosioTrade

\* Nothing is lost when REX is sold to a pool that has some.
LEMMA RexSoldPays ==
    ASSUME pool \in Pool, pool.rex > 0, NEW amt \in Nat
    PROVE  RexToEos(amt) \in Nat
<1> DEFINE L == pool.lendable
           R == pool.rex
           q == (L * (R + amt)) \div R
<1>1. L \in Nat /\ R \in Nat \ {0} /\ RexToEos(amt) = q - L
  BY DEF Pool, RexToEos
<1> HIDE DEF L, R
<1>2. L * (R + amt) \in Nat
  BY <1>1
<1>3. /\ q \in Int /\ L * (R + amt) = R * q + ((L * (R + amt)) % R)
      /\ (L * (R + amt)) % R < R
  BY <1>1, <1>2
<1>4. L * (R + amt) < R * q + R
  <2>1. \A n, d, m : n \in Int /\ d \in Int /\ m \in Int /\ n = d + m /\ m < R => n < d + R
    BY <1>1
  <2>2. R * q \in Int /\ (L * (R + amt)) % R \in Int
    BY <1>1, <1>2, <1>3
  <2> QED
    BY <1>2, <1>3, <2>1, <2>2
<1> HIDE DEF q
<1>5. L * (R + amt) = R * L + L * amt /\ L * amt \in Nat /\ R * (q + 1) = R * q + R
  BY <1>1, <1>3
<1>6. R * L < R * (q + 1)
  <2>1. R * L \in Int /\ R * (q + 1) \in Int /\ R * q \in Int
    BY <1>1, <1>3
  <2> QED
    BY <1>1, <1>4, <1>5, <2>1
<1>7. q >= L
  <2>1. CASE q + 1 <= L
    <3>1. R * (L - (q + 1)) \in Nat /\ R * (L - (q + 1)) = R * L - R * (q + 1)
      BY <1>1, <1>3, <2>1
    <3> QED
      BY <1>1, <1>3, <1>6, <3>1
  <2> QED
    BY <1>1, <1>3, <2>1
<1> QED
  BY <1>1, <1>3, <1>7

LEMMA EosioFunds ==
    ASSUME SystemTypeOK, FundsIn(SystemTables), NEW a \in Action, SystemExecute(a),
           a.kind = "eosio::sellrex" => a.amt > 0, a.kind = "eosio::setrex" => a.more > 0
    PROVE  FundsIn(SystemTables')
<1> DEFINE u == a.from
<1>1. /\ a.amt \in Int /\ a.more \in Int /\ u \in Name /\ IsTable(fund)
      /\ pool \in Pool \cup {NoRow}
  BY DEF Action, SystemTypeOK, IsSystemDatabase, SystemTables
<1>2. /\ SystemTables.fund = fund /\ SystemTables.pool = pool
      /\ SystemTables'.fund = fund' /\ SystemTables'.pool = pool'
  BY DEF SystemTables
<1>3. \A n \in Name \ {u} : Row(fund', n) = Row(fund, n)
  BY EosioHolds DEF HeldFor
<1>4. Row(fund, u) \in Int /\ Row(fund, u) >= 0 /\ (pool # NoRow => pool.rex > 0)
  BY <1>1, <1>2, RowType DEF FundsIn
<1>5. CASE UNCHANGED fund /\ UNCHANGED pool
  BY <1>2, <1>5 DEF FundsIn
<1>6. CASE Setrex(a)
  <2>1. fund' = fund /\ pool'.rex = a.more /\ a.more > 0
    BY <1>6 DEF Setrex
  <2> QED
    BY <1>2, <2>1 DEF FundsIn
<1>7. ASSUME pool' = pool, Row(fund', u) >= 0 PROVE FundsIn(SystemTables')
  BY <1>2, <1>3, <1>4, <1>7 DEF FundsIn
<1>8. CASE EosioDeposit(a)
  <2>1. fund' = Add(fund, u, a.amt) /\ pool' = pool /\ a.amt > 0
    BY <1>8 DEF EosioDeposit, EosioDepositOk, rexTables
  <2>2. Row(fund', u) = Row(fund, u) + a.amt
    BY <1>1, <2>1, AddToSame
  <2> QED
    BY <1>1, <1>4, <1>7, <2>1, <2>2
<1>9. CASE EosioWithdraw(a) \/ EosioBuyrex(a)
  <2>1. /\ u \in DOMAIN fund /\ fund[u] >= a.amt /\ fund' = [fund EXCEPT ![u] = @ - a.amt]
        /\ pool' = pool
    BY <1>9 DEF EosioWithdraw, HasFund, EosioBuyrex, EosioBuyrexOk, rexTables
  <2>2. Row(fund', u) = fund[u] - a.amt /\ fund[u] \in Int
    BY <1>1, <2>1 DEF Row, IsTable
  <2> QED
    BY <1>1, <1>7, <2>1, <2>2
<1>10. CASE EosioSellrex(a)
  <2>1. /\ fund' = Add(fund, u, RexToEos(a.amt)) /\ pool' = pool /\ pool # NoRow
        /\ a.amt > 0
    BY <1>10 DEF EosioSellrex, EosioSellrexOk
  <2>2. RexToEos(a.amt) \in Nat
    BY <1>1, <1>4, <2>1, RexSoldPays
  <2>3. Row(fund', u) = Row(fund, u) + RexToEos(a.amt)
    BY <1>1, <2>1, <2>2, AddToSame
  <2> QED
    BY <1>4, <1>7, <2>1, <2>2, <2>3
<1>11. \/ UNCHANGED fund /\ UNCHANGED pool
       \/ Setrex(a) \/ EosioDeposit(a) \/ EosioWithdraw(a) \/ EosioBuyrex(a) \/ EosioSellrex(a)
  BY DEF SystemExecute, systemTables, rexTables, EosioBidname, EosioBidrefund, EosioBuyram,
         EosioBuyrambytes, EosioSellram, EosioDonatetorex, EosioPowerup, Setrammarket,
         EosioClaimrewards, EosioQuiet, EosioDelegatebw, EosioUndelegatebw, EosioRefund,
         EosioMvfrsavings
<1> QED
  BY <1>5, <1>6, <1>8, <1>9, <1>10, <1>11

\* No fund becomes negative, if REX is sold in positive amounts only and to a pool
\* that has some.
LEMMA FundsStep ==
    ASSUME SystemTypeOK, FundsIn(SystemTables), NEW a \in Action, ForwardingExecute(a),
           a.kind = "eosio::sellrex" => a.amt > 0, a.kind = "eosio::setrex" => a.more > 0
    PROVE  FundsIn(SystemTables')
<1>1. UNCHANGED systemTables \/ SystemExecute(a)
  BY StepShapes DEF TokenStep, Swaptrace, SwapStep, SwapBefore, CallStep
<1>2. CASE UNCHANGED systemTables
  BY <1>2 DEF systemTables, rexTables, FundsIn, SystemTables
<1> QED
  BY <1>1, <1>2, EosioFunds

\* Of the calls of eosio, only those that a trade makes sell REX.
Harmless(a) == a.kind \notin {"eosio::sellrex", "eosio::setrex"}

LEMMA HeadOf ==
    ASSUME NEW x \in Action, NEW rest \in Seq(Action), pending = <<x>> \o rest, Harmless(x)
    PROVE  Harmless(Head(pending))
  BY FrontStep

LEMMA LastIsHarmless ==
    ASSUME NEW u, NEW d, Due(u, pending, d), pending # <<>>
    PROVE  Harmless(Head(pending))
<1>1. PICK l \in Action : /\ pending = <<l>>
                          /\ l.kind \in {"swapexcess", "enforcebal", "eosio.token::transfer"}
  BY DEF Due, ExcessEnd, CheckEnd, BackEnd, PaysEos
<1> QED
  BY <1>1 DEF Harmless

LEMMA StageHead ==
    ASSUME NEW u, Stage(u), pending # <<>>, ~Trading(u)
    PROVE  Harmless(Head(pending))
<1>1. ASSUME NEW t \in Action, NEW c \in Action, NEW k \in Action, NEW E \in Seq(Action),
             pending = <<t>> \o (<<c>> \o (<<k>> \o E)), Harmless(t)
      PROVE  Harmless(Head(pending))
  BY <1>1, FrontSeq, HeadOf
<1>2. ASSUME NEW c \in Action, NEW k \in Action, NEW E \in Seq(Action),
             pending = <<c>> \o (<<k>> \o E), Harmless(c)
      PROVE  Harmless(Head(pending))
  BY <1>2, FrontSeq, HeadOf
<1>3. ASSUME NEW c \in Action, NEW E \in Seq(Action), pending = <<c>> \o E, Harmless(c)
      PROVE  Harmless(Head(pending))
  BY <1>3, HeadOf
<1>4. CASE Traced(u)
  <2>1. PICK t \in Action, c \in Action, k \in Action, E \in Seq(Action) :
            pending = <<t>> \o (<<c>> \o (<<k>> \o E)) /\ t.kind = "swaptrace"
    BY <1>4 DEF Traced
  <2> QED
    BY <1>1, <2>1 DEF Harmless
<1>5. CASE Credited(u)
  <2>1. PICK c \in Action, k \in Action, E \in Seq(Action), amt \in Int :
            pending = <<c>> \o (<<k>> \o E) /\ PaysEos(c, Self, u, amt)
    BY <1>5 DEF Credited
  <2> QED
    BY <1>2, <2>1 DEF Harmless, PaysEos
<1>6. CASE Called(u)
  <2>1. PICK k \in Action, E \in Seq(Action), amt \in Int :
            pending = <<k>> \o E /\ Charging(u, k, E, amt)
    BY <1>6 DEF Called
  <2>2. Harmless(k)
    BY <2>1 DEF Harmless, Charging, PaidKinds
  <2> QED
    BY <1>3, <2>1, <2>2
<1>7. CASE Charged(u)
  <2>1. PICK p \in Action, E \in Seq(Action), b \in Int :
            pending = <<p>> \o E /\ PaysEos(p, u, System, b)
    BY <1>7 DEF Charged
  <2> QED
    BY <1>3, <2>1 DEF Harmless, PaysEos
<1>8. CASE Claiming(u)
  <2>1. PICK k \in Action, E \in Seq(Action) :
            /\ pending = <<k>> \o E
            /\ k.kind \in PayingKinds \cup {"eosio::sellram", "eosio::withdraw"}
    BY <1>8 DEF Claiming
  <2>2. Harmless(k)
    BY <2>1 DEF Harmless, PayingKinds
  <2> QED
    BY <1>3, <2>1, <2>2
<1>9. CASE FeeTaken(u)
  <2>1. PICK q \in Action, p \in Action, E \in Seq(Action), fee \in Int :
            pending = <<q>> \o (<<p>> \o E) /\ PaysEos(q, u, RamFee, fee)
    BY <1>9 DEF FeeTaken
  <2> QED
    BY <1>2, <2>1 DEF Harmless, PaysEos
<1>10. CASE PaidBy(u)
  <2>1. PICK p \in Action, E \in Seq(Action), b \in Int :
            pending = <<p>> \o E /\ PaysEos(p, System, u, b)
    BY <1>10 DEF PaidBy
  <2> QED
    BY <1>3, <2>1 DEF Harmless, PaysEos
<1>11. CASE Ending(u)
  BY <1>11, LastIsHarmless DEF Ending
<1>12. CASE Swapped(u)
  BY <1>12 DEF Swapped, PaysXyz, Harmless
<1>13. CASE Passed(u)
  BY <1>13 DEF Passed, QuietKinds, Harmless
<1> QED
  BY <1>4, <1>5, <1>6, <1>7, <1>8, <1>9, <1>10, <1>11, <1>12, <1>13 DEF Stage

-----------------------------------------------------------------------------
(* Transactions of one action                                              *)

\* What CallsAlone lets users push.
Allowed(a) ==
    /\ a.kind \in ForwardingKinds => a.from \notin Ignored
    /\ a.kind \in TradeKinds => a.amt > 0
    /\ a.kind \in SystemKinds => a.kind \in Setters
    /\ a.kind = "eosio::setrex" => a.more > 0

\* The transaction is a transfer or a swap, or sets up eosio: eosio holds what it did.
Direct ==
    /\ blocked = saved.blocked /\ supply = saved.supply /\ SystemAsSaved
    /\ Underway \/ (pending = running /\ Pushed(running[1]))

\* What a transaction does between two of its actions, and what eosio's tables may hold.
CallsInv ==
    /\ FlowInv /\ TradeInv /\ ConservedInv
    /\ FundsIn(SystemTables) /\ FundsIn(savedSystem)
    /\ pending # <<>> =>
           /\ Len(running) = 1 /\ Allowed(running[1])
           /\ running[1].kind \notin CallKinds => Direct

LEMMA OnlyAction ==
    ASSUME CallsInv, pending # <<>>
    PROVE  /\ running = <<running[1]>> /\ running[1] \in UserAction /\ running[1] \in Action
           /\ Head(running) = running[1]
<1>1. running \in Seq(UserAction) /\ Len(running) = 1
  BY DEF CallsInv, FlowInv
<1>2. running = <<running[1]>> /\ running[1] \in UserAction
  BY <1>1
<1>3. Head(running) = running[1]
  BY <1>1, OnlyElement
<1> QED
  BY <1>2, <1>3 DEF UserAction

LEMMA UnderwayHead ==
    ASSUME Underway
    PROVE  Head(pending).kind \in {"eosio.token::transfer", "transfer"}
<1>1. \A x, y : Head(<<x>>) = x /\ Head(<<x, y>>) = x
  OBVIOUS
<1>2. \A x, u, v, amt : OneLeft(x, u, v, amt) =>
          x.kind \in {"eosio.token::transfer", "transfer"}
  BY DEF OneLeft, PaysEos, PaysXyz
<1>3. \A x, y, u, v, amt : TwoLeft(x, y, u, v, amt) =>
          x.kind \in {"eosio.token::transfer", "transfer"}
  BY DEF TwoLeft, PaysEos, PaysXyz
<1> QED
  BY <1>1, <1>2, <1>3 DEF Underway

\* The actions whose amounts matter to the fund.
LEMMA HeadAllowed ==
    ASSUME Coded = {}, CallsInv, pending # <<>>, NEW a, a = Head(pending)
    PROVE  (a.kind = "eosio::sellrex" => a.amt > 0) /\ (a.kind = "eosio::setrex" => a.more > 0)
<1>1. Allowed(running[1]) /\ Len(running) = 1
  BY DEF CallsInv
<1>2. CASE running[1].kind \in CallKinds
  <2>1. PICK u : u = running[1].from
    OBVIOUS
  <2>2. OneCall
    BY <1>1, <1>2 DEF OneCall
  <2>3. CASE Starts(u, running[1])
    <3>1. a.kind \in ForwardingKinds
      BY <1>2, <2>3, OnlyAction DEF Starts, CallKinds
    <3>2. {"eosio::sellrex", "eosio::setrex"} \cap ForwardingKinds = {}
      BY DEF ForwardingKinds, SwapsBefore, SwapsAfter, PassedOn, PassedOnInEos
    <3> QED
      BY <3>1, <3>2
  <2>4. CASE Trading(u)
    <3>1. Passes(pending[1], running[1]) /\ running[1].kind \in TradeKinds /\ Len(pending) = 1
      BY <2>4 DEF Trading
    <3>2. pending[1] = a
      <4>1. pending \in Seq(Action)
        BY DEF CallsInv, FlowInv, IdleInv, CallInv, SystemTypeOK, TypeOK
      <4> QED
        BY <3>1, <4>1, OnlyElement
    <3> QED
      BY <1>1, <3>1, <3>2 DEF Passes, Allowed
  <2>5. CASE Stage(u) /\ ~Trading(u)
    BY <2>5, StageHead DEF Harmless
  <2> QED
    BY <2>1, <2>2, <2>3, <2>4, <2>5 DEF CallsInv, FlowInv
<1>3. CASE running[1].kind \notin CallKinds
  <2>1. CASE Underway
    BY <2>1, UnderwayHead
  <2>2. CASE pending = running
    <3>1. a = running[1]
      BY <2>2, OnlyAction
    <3>2. {"eosio::sellrex", "eosio::setrex"} \subseteq SystemKinds
      BY DEF SystemKinds
    <3> QED
      BY <1>1, <3>1, <3>2 DEF Allowed, Setters
  <2> QED
    BY <1>3, <2>1, <2>2 DEF CallsInv, Direct
<1> QED
  BY <1>2, <1>3

LEMMA SetterByKind ==
    ASSUME NEW a, SystemExecute(a), a.kind \in Setters PROVE Setrammarket(a) \/ Setrex(a)
  BY DEF SystemExecute, EosioBidname, EosioBidrefund, EosioBuyram, EosioBuyrambytes,
         EosioSellram, EosioDonatetorex, EosioPowerup, EosioClaimrewards, EosioQuiet,
         EosioDelegatebw, EosioUndelegatebw, EosioRefund, EosioDeposit, EosioWithdraw,
         EosioBuyrex, EosioMvfrsavings, EosioSellrex, Setters, QuietKinds

LEMMA NothingCommits ==
    ASSUME saved' = saved, savedSystem' = savedSystem
    PROVE  [Calls!CallNext]_Calls!callVars
  BY DEF Calls!callVars, Calls!vars, Calls!held

\* A step of a call: the tables are left alone, or the call has been one step.
LEMMA CallIsStep ==
    ASSUME Coded = {}, CallsInv, SystemTypeOK', Conserved', FundsIn(SystemTables'),
           pending # <<>>, ForwardingExecute(Head(pending)), running[1].kind \in CallKinds
    PROVE  [Calls!CallNext]_Calls!callVars
<1>1. /\ Len(running) = 1 /\ Allowed(running[1]) /\ SystemTypeOK /\ OneCall
      /\ ConservedIn(saved)
  BY DEF CallsInv, FlowInv, IdleInv, CallInv, OneCall, ConservedInv
<1>2. PICK u \in Name : u = running[1].from
  BY OnlyAction DEF Action
<1>3. Proceeds(u) /\ (u = Self => After(u, 0, 0, 0, 0, 0, 0))
  BY <1>1, <1>2, CallProceeds DEF CallsInv
<1>4. CASE saved' = saved /\ savedSystem' = savedSystem
  BY <1>4, NothingCommits
<1>5. CASE Goes(<<>>) /\ Outcome(u)
  <2>1. saved' = Tables' /\ savedSystem' = SystemTables' /\ pending' = <<>>
    BY <1>5 DEF Goes
  <2>2. CASE u = Self
    <3>1. After(u, 0, 0, 0, 0, 0, 0)
      BY <1>3, <2>2
    <3>2. saved.eos \in [Name -> Int] /\ saved.xyz \in [Name -> Int]
      <4>1. saved.eos \in [Name -> Nat] /\ saved.xyz \in [Name -> Nat]
        BY <1>1 DEF SystemTypeOK, TypeOK, Database
      <4> QED
        BY <4>1
    <3>3. /\ saved'.eos = saved.eos /\ saved'.xyz = saved.xyz
          /\ saved'.blocked = saved.blocked /\ saved'.supply = saved.supply
      BY <2>1, <3>1, <3>2, NothingShifts DEF After, Moved
    <3>4. HeldShift(savedSystem', savedSystem, u, 0)
      BY <2>1, <3>1 DEF After, Moved
    <3>5. /\ OwedIn(savedSystem') = OwedIn(savedSystem)
          /\ RexIn(savedSystem') = RexIn(savedSystem) /\ savedSystem'.pool = savedSystem.pool
      <4>1. IsSystemDatabase(savedSystem) /\ 0 \in Int
        BY <1>1 DEF SystemTypeOK
      <4> QED
        BY <1>2, <3>4, <4>1, HeldAtEnd
    <3> QED
      BY <3>3, <3>5 DEF OwedIn, RexIn, Calls!callVars, Calls!vars, Calls!held
  <2>3. CASE u # Self /\ running[1].kind \in TradeKinds
    <3> DEFINE a == Head(pending)
    <3>1. a \in Action /\ TablesAsSaved /\ SystemAsSaved
      BY <1>1, <2>3, HeadIsCall DEF CallsInv, TradeInv, IdleInv
    <3>2. Passes(a, running[1]) /\ EosioTrade(a)
      BY <1>1, <2>1, <2>3, TradeStep DEF CallsInv
    <3>3. a.from # Self /\ a.amt > 0
      BY <1>1, <1>2, <2>3, <3>2 DEF Passes, Allowed
    <3> QED
      BY <1>1, <2>1, <3>1, <3>2, <3>3, TradeIsStep
  <2>4. CASE u # Self /\ running[1].kind \notin TradeKinds
    <3>1. u \notin Ignored
      BY <1>1, <1>2 DEF Allowed, OneCall, CallKinds
    <3>2. PICK s \in Int, y \in Int, f \in Int, h \in Int :
              s + y + f = 0 /\ Right(y, f, h) /\ After(u, 0, s, y, f, s, h)
      BY <1>5, <2>4, <3>1 DEF Outcome
    <3> QED
      BY <1>1, <2>1, <2>4, <3>2, FlowIsStep
  <2> QED
    BY <2>2, <2>3, <2>4
<1> QED
  BY <1>3, <1>4, <1>5 DEF Proceeds

\* The same of a transfer, a swap, or an action that sets up eosio.
LEMMA TokensGoOn ==
    ASSUME Coded = {}, CallsInv, Direct, pending # <<>>, NEW a, a = Head(pending), TokenStep(a)
    PROVE  /\ [Calls!CallNext]_Calls!callVars
           /\ pending' # <<>> => Direct'
<1>1. Execute(a) /\ UNCHANGED systemTables /\ Recorded
  BY DEF TokenStep
<1>2. AtomicInv
  <2>1. Underway \/ \E x \in Action : pending = <<x>> /\ Pushed(x)
    BY OnlyAction DEF Direct
  <2> QED
    BY <2>1 DEF CallsInv, Direct, AtomicInv, Swapping
<1>3. Progress
  BY <1>1, <1>2, SwapProgresses
<1>4. UNCHANGED <<net, cpu, refunds, fund, pool, staked, unstaking>>
  BY <1>1 DEF systemTables, stakeTables, rexTables
<1>5. CASE /\ saved' = saved /\ UNCHANGED <<blocked, supply>>
           /\ pending' # <<>> /\ Underway'
  <2>1. savedSystem' = savedSystem
    BY <1>1, <1>5 DEF Recorded
  <2>2. SystemAsSaved'
    BY <1>4, <2>1 DEF Direct, SystemAsSaved
  <2> QED
    BY <1>5, <2>1, <2>2, NothingCommits DEF Direct
<1>6. CASE /\ saved' = Tables' /\ pending' = <<>>
           /\ Atomic!Next \/ UNCHANGED Atomic!vars
  <2>1. savedSystem' = SystemTables'
    BY <1>1, <1>6 DEF Recorded
  <2>2. /\ savedSystem'.pool = savedSystem.pool
        /\ \A n : /\ Owed(savedSystem', n) = Owed(savedSystem, n)
                  /\ Rex(savedSystem', n) = Rex(savedSystem, n)
    BY <1>4, <2>1 DEF Direct, SystemAsSaved, SystemTables, Owed, Rex
  <2>3. OwedIn(savedSystem') = OwedIn(savedSystem) /\ RexIn(savedSystem') = RexIn(savedSystem)
    BY <2>2 DEF OwedIn, RexIn
  <2> QED
    BY <1>6, <2>2, <2>3, SwapIsStep
<1> QED
  BY <1>3, <1>5, <1>6 DEF Progress

LEMMA SetterIsStep ==
    ASSUME Unpaid, blocked = saved.blocked, supply = saved.supply, SystemAsSaved,
           NEW a \in Action, pending = <<a>>, Setrammarket(a) \/ Setrex(a)
    PROVE  [Calls!CallNext]_Calls!callVars /\ pending' = <<>>
<1>1. UNCHANGED tables /\ Finish(<<>>) /\ SystemExecute(a) /\ a.kind \in Setters
  BY DEF Setrammarket, Setrex, SystemExecute, Setters
<1>2. pending' = <<>> /\ saved' = Tables' /\ savedSystem' = SystemTables'
  BY <1>1, WhatIsLeft DEF Finish, Recorded
<1>3. /\ saved'.eos = saved.eos /\ saved'.xyz = saved.xyz
      /\ saved'.blocked = saved.blocked /\ saved'.supply = saved.supply
  BY <1>1, <1>2 DEF tables, Tables, Unpaid
<1>4. \A n : /\ Owed(SystemTables', n) = Owed(SystemTables, n)
             /\ Rex(SystemTables', n) = Rex(SystemTables, n)
  BY <1>1, SettersHold, HeldIsOwed
<1>5. \A n : /\ Owed(SystemTables, n) = Owed(savedSystem, n)
             /\ Rex(SystemTables, n) = Rex(savedSystem, n)
  BY DEF SystemAsSaved, SystemTables, Owed, Rex
<1>6. OwedIn(savedSystem') = OwedIn(savedSystem) /\ RexIn(savedSystem') = RexIn(savedSystem)
  BY <1>2, <1>4, <1>5 DEF OwedIn, RexIn
<1>7. savedSystem'.pool = savedSystem.pool => UNCHANGED Calls!callVars
  BY <1>3, <1>6 DEF OwedIn, RexIn, Calls!callVars, Calls!vars, Calls!held
<1>8. savedSystem'.pool # savedSystem.pool => Calls!CallNext
  BY <1>3, <1>6 DEF OwedIn, RexIn, Calls!vars, Calls!SetPool, Calls!CallNext
<1> QED
  BY <1>2, <1>7, <1>8

LEMMA DirectIsStep ==
    ASSUME Coded = {}, CallsInv, pending # <<>>, NEW a, a = Head(pending),
           ForwardingExecute(a), running[1].kind \notin CallKinds
    PROVE  /\ [Calls!CallNext]_Calls!callVars
           /\ pending' # <<>> => Direct'
<1>1. /\ Direct /\ Allowed(running[1]) /\ a \in Action /\ SystemTypeOK
  BY HeadIsCall DEF CallsInv, FlowInv, IdleInv, CallInv
<1>2. CASE TokenStep(a)
  BY <1>1, <1>2, TokensGoOn
<1>3. CASE ~TokenStep(a)
  <2>1. pending = running /\ Pushed(running[1])
    <3>1. ~Underway
      BY <1>3, UnderwayHead, ExecutesEos, ExecutesXyz
    <3> QED
      BY <1>1, <3>1 DEF Direct
  <2>2. a = running[1] /\ a \in UserAction /\ pending = <<a>> /\ Unpaid
    BY <2>1, OnlyAction DEF Pushed
  <2>3. a.kind \in {"swapexcess"} \cup SystemKinds
    <3>1. a.kind \in OtherKinds
      BY <1>1, <1>3, StepShapes, KindsOfOthers
         DEF Swaptrace, SwapStep, CallStep, ForwardingKinds
    <3> QED
      BY <2>2, <3>1, KindsOfOthers DEF CallKinds
  <2>4. a.kind # "swapexcess"
    <3>1. a.kind = "swapexcess" => Self \in a.auth
      BY ChecksByKind DEF Swapexcess, SwapexcessOk
    <3>2. a.kind = "swapexcess" => Self \notin a.auth
      BY <2>2, KindsOfOthers DEF UserAction
    <3> QED
      BY <3>1, <3>2
  <2>5. a.kind \in SystemKinds /\ a.kind \in Setters
    BY <1>1, <2>2, <2>3, <2>4 DEF Allowed
  <2>6. Setrammarket(a) \/ Setrex(a)
    BY <2>5, ExecutesSystem, SetterByKind
  <2> QED
    BY <1>1, <2>2, <2>6, SetterIsStep DEF Direct
<1> QED
  BY <1>2, <1>3

LEMMA CallsRun ==
    ASSUME CallsAlone, CallsInv, FlowInv', TradeInv', ConservedInv', pending # <<>>,
           NEW a, a = Head(pending), ForwardingExecute(a)
    PROVE  CallsInv' /\ [Calls!CallNext]_Calls!callVars
<1>1. /\ Coded = {} /\ CallInv /\ SystemTypeOK /\ SystemTypeOK' /\ Conserved' /\ a \in Action
      /\ FundsIn(SystemTables) /\ FundsIn(savedSystem)
      /\ Len(running) = 1 /\ Allowed(running[1])
  BY HeadIsCall
     DEF CallsAlone, SwapsAlone, CallsInv, FlowInv, IdleInv, CallInv, ConservedInv
<1>2. FundsIn(SystemTables')
  BY <1>1, HeadAllowed, FundsStep
<1>3. PICK s : Done(s) /\ Recorded
  BY <1>1, StepIsDone
<1>4. FundsIn(savedSystem')
  BY <1>1, <1>2, <1>3 DEF Recorded
<1>5. [Calls!CallNext]_Calls!callVars
  BY <1>1, <1>2, CallIsStep, DirectIsStep
<1>6. ASSUME pending' # <<>>
      PROVE  /\ Len(running') = 1 /\ Allowed(running'[1])
             /\ running'[1].kind \notin CallKinds => Direct'
  <2>1. running' = running
    BY <1>3, <1>6, StillRunning
  <2> QED
    BY <1>1, <1>6, <2>1, DirectIsStep
<1>7. CallsInv'
  BY <1>2, <1>4, <1>6 DEF CallsInv, Allowed
<1> QED
  BY <1>5, <1>7

\* A transaction that CallsAlone lets a user push.
LEMMA CallsBegin ==
    ASSUME CallsAlone, CallsInv, FlowInv', TradeInv', ConservedInv',
           NEW tx \in Transactions, ForwardingBegin(tx)
    PROVE  CallsInv'
<1>1. /\ pending = <<>> /\ pending' = tx /\ running' = tx
      /\ UNCHANGED <<tables, saved, systemTables, savedSystem>>
  BY DEF ForwardingBegin, Begin
<1>2. UNCHANGED <<eos, xyz, blocked, supply, net, cpu, refunds, fund, pool, staked, unstaking>>
  BY <1>1 DEF tables, systemTables, stakeTables, rexTables
<1>3. FundsIn(SystemTables') /\ FundsIn(savedSystem')
  BY <1>1, <1>2 DEF CallsInv, FundsIn, SystemTables
<1>4. /\ tx \in Seq(UserAction) /\ Len(tx) = 1 /\ tx[1] \in UserAction
      /\ tx[1].kind = "swapto" => tx[1].from \notin Ignored
  <2>1. /\ tx \in Seq(UserAction) /\ Len(tx) = 1
        /\ tx[1].kind = "swapto" => tx[1].from \notin Ignored
    BY TransactionsAssumption DEF CallsAlone, SwapsAlone
  <2>2. 1 \in 1 .. Len(tx)
    BY <2>1
  <2> QED
    BY <2>1, <2>2, ElementOfSeq
<1>5. Allowed(running'[1])
  BY <1>1 DEF CallsAlone, Allowed, TradeKinds, Setters
<1>6. TablesAsSaved' /\ SystemAsSaved'
  BY <1>1, <1>2 DEF CallsInv, FlowInv, IdleInv, TablesAsSaved, SystemAsSaved
<1>7. Direct'
  <2>1. Pushed(running[1])'
    BY <1>1, <1>4, <1>6 DEF Pushed, TablesAsSaved, Unpaid
  <2> QED
    BY <1>1, <1>6, <2>1 DEF Direct, TablesAsSaved
<1> QED
  BY <1>1, <1>3, <1>4, <1>5, <1>7 DEF CallsInv, Allowed

LEMMA CallsStay ==
    ASSUME CallsInv, FlowInv', TradeInv', ConservedInv', UNCHANGED allVars
    PROVE  CallsInv'
<1>1. UNCHANGED <<pending, running, saved, savedSystem, tables, systemTables>>
  BY DEF allVars, vars
<1>2. UNCHANGED <<eos, xyz, blocked, supply, net, cpu, refunds, fund, pool, staked, unstaking>>
  BY <1>1 DEF tables, systemTables, stakeTables, rexTables
<1>3. FundsIn(SystemTables') /\ FundsIn(savedSystem')
  BY <1>1, <1>2 DEF CallsInv, FundsIn, SystemTables
<1>4. Underway' <=> Underway
  BY <1>1, <1>2 DEF Underway, Unpaid, OneLeft, TwoLeft, EosPaid, XyzPaid, EosSwapped,
                    XyzSwapped
<1>5. Direct => Direct'
  BY <1>1, <1>2, <1>4 DEF Direct, SystemAsSaved, Pushed, Unpaid
<1> QED
  BY <1>1, <1>3, <1>5 DEF CallsInv, Allowed

LEMMA CallsInductive ==
    ASSUME CallsAlone, CallsInv, [ForwardingNext]_allVars
    PROVE  CallsInv' /\ [Calls!CallNext]_Calls!callVars
<1>1. FlowInv' /\ TradeInv' /\ ConservedInv' /\ CallInv
  BY FlowInductive, TradeInductive, CallsConserve DEF CallsInv, FlowInv, IdleInv
<1>2. ASSUME pending # <<>>, NEW a, a = Head(pending), ForwardingExecute(a)
      PROVE  CallsInv' /\ [Calls!CallNext]_Calls!callVars
  BY <1>1, <1>2, CallsRun
<1>3. CASE SystemRollback
  <2>1. /\ pending' = <<>> /\ saved' = saved /\ savedSystem' = savedSystem
        /\ fund' = savedSystem.fund /\ pool' = savedSystem.pool
    BY <1>3 DEF SystemRollback, Rollback
  <2>2. FundsIn(SystemTables') /\ FundsIn(savedSystem')
    BY <2>1 DEF CallsInv, FundsIn, SystemTables
  <2> QED
    BY <1>1, <2>1, <2>2, NothingCommits DEF CallsInv
<1>4. ASSUME NEW tx \in Transactions, ForwardingBegin(tx)
      PROVE  CallsInv' /\ [Calls!CallNext]_Calls!callVars
  <2>1. saved' = saved /\ savedSystem' = savedSystem
    BY <1>4 DEF ForwardingBegin, Begin
  <2> QED
    BY <1>1, <1>4, <2>1, CallsBegin, NothingCommits
<1>5. CASE UNCHANGED allVars
  <2>1. saved' = saved /\ savedSystem' = savedSystem
    BY <1>5 DEF allVars, vars
  <2> QED
    BY <1>1, <1>5, <2>1, CallsStay, NothingCommits
<1> QED
  BY <1>1, <1>2, <1>3, <1>4, <1>5, CallStepCases

LEMMA CallsAtInit == SystemInit => CallsInv /\ Calls!CallInit
<1> SUFFICES ASSUME SystemInit PROVE CallsInv /\ Calls!CallInit
  OBVIOUS
<1>1. /\ Init /\ pending = <<>> /\ saved = Tables /\ savedSystem = SystemTables
      /\ fund = <<>> /\ staked = <<>> /\ unstaking = <<>> /\ pool = NoRow
      /\ net = [n \in Name |-> 0] /\ cpu = [n \in Name |-> 0] /\ refunds = [n \in Name |-> 0]
  BY DEF SystemInit, Init
<1>2. FlowInv /\ TradeInv /\ ConservedInv
  <2>1. FlowInv /\ ConservedInv
    BY <1>1, FlowAtFirst, ConservedAtFirst
  <2> QED
    BY <1>1, <2>1 DEF FlowInv, TradeInv
<1>3. \A n : Row(fund, n) = 0 /\ Row(staked, n) = 0 /\ Row(unstaking, n) = 0
  BY <1>1 DEF Row
<1>4. FundsIn(SystemTables)
  BY <1>1, <1>3 DEF FundsIn, SystemTables
<1>5. CallsInv
  BY <1>1, <1>2, <1>4 DEF CallsInv
<1>6. \A n \in Name : Owed(savedSystem, n) = 0 /\ Rex(savedSystem, n) = 0
  BY <1>1, <1>3 DEF Owed, Rex, SystemTables
<1>7. Calls!Init
  BY <1>1 DEF Init, Tables, Calls!Init
<1> QED
  BY <1>5, <1>6, <1>7 DEF Calls!CallInit

\* On a chain where no account has code, a call is one step of AtomicForwarding or
\* none: XYZ is taken for exactly the EOS that eosio gets, and given for exactly the
\* EOS it pays, whatever the swap, the call and the swap back of what was left of it
\* did on the way, and wherever they were rejected.
THEOREM CallsAreWhole == ASSUME CallsAlone PROVE ForwardingSpec => CallsAreAtomic
<1>1. CallsInv /\ [ForwardingNext]_allVars => CallsInv' /\ [Calls!CallNext]_Calls!callVars
  BY CallsInductive
<1> QED
  BY <1>1, CallsAtInit, PTL DEF ForwardingSpec, CallsAreAtomic, Calls!CallSpec

=============================================================================
