-------------------------- MODULE RamPricesProofs --------------------------
(***************************************************************************)
(* The price of RAM keeps the product of the reserves, whatever they are   *)
(* and however much is traded, and the fees on it are half a percent.      *)
(***************************************************************************)
EXTENDS MCRamPrices, TLAPS

-----------------------------------------------------------------------------
(* Quotients                                                               *)

\* A quotient is the largest number whose product with the divisor is no larger
\* than what is divided.
LEMMA QuotientBounds ==
    ASSUME NEW n \in Nat, NEW d \in Nat \ {0}
    PROVE  /\ n \div d \in Nat
           /\ (n \div d) * d <= n
           /\ n < ((n \div d) + 1) * d
<1>1. n \div d \in Int /\ n = d * (n \div d) + (n % d) /\ n % d \in 0 .. d - 1
  OBVIOUS
<1>2. n \div d \in Nat
  OBVIOUS
<1> QED
  BY <1>1, <1>2

LEMMA ProductOfNats == \A x, y \in Nat : x * y \in Nat
  OBVIOUS

-----------------------------------------------------------------------------
(* Prices                                                                  *)

\* A purchase keeps the product of the reserves as well as whole units can: it does
\* not rise, and with a unit more it would.
LEMMA InputKeepsProduct ==
    ASSUME NEW R \in Nat, NEW M \in Nat, NEW b \in Nat, b < R
    PROVE  LET c == GetBancorInput(R, M, b)
           IN  /\ c \in Nat
               /\ (M + c) * (R - b) <= M * R
               /\ M * R < (M + c + 1) * (R - b)
<1> DEFINE c == GetBancorInput(R, M, b)
           d == R - b
<1>1. d \in Nat \ {0} /\ M * b \in Nat /\ R = d + b
  BY ProductOfNats
<1>2. c = (M * b) \div d
  BY DEF GetBancorInput
<1> HIDE DEF c, d
<1>3. c \in Nat /\ c * d <= M * b /\ M * b < (c + 1) * d
  BY <1>1, <1>2, QuotientBounds
<1>4. /\ (M + c) * d = M * d + c * d
      /\ (M + c + 1) * d = M * d + (c + 1) * d
      /\ M * (d + b) = M * d + M * b
  BY <1>1, <1>3
<1>5. M * d \in Nat /\ c * d \in Nat /\ (c + 1) * d \in Nat /\ M * b \in Nat
  BY <1>1, <1>3, ProductOfNats
<1>6. (M + c) * d <= M * R /\ M * R < (M + c + 1) * d
  BY <1>1, <1>3, <1>4, <1>5
<1> QED
  BY <1>3, <1>6 DEF c, d

\* A sale does not lower the product of the reserves, and with a unit more it would.
LEMMA OutputKeepsProduct ==
    ASSUME NEW R \in Nat, NEW M \in Nat, NEW b \in Nat \ {0}
    PROVE  LET p == GetBancorOutput(R, M, b)
           IN  /\ p \in Nat
               /\ (M - p) * (R + b) >= M * R
               /\ (M - p - 1) * (R + b) < M * R
<1> DEFINE p == GetBancorOutput(R, M, b)
           d == R + b
<1>1. d \in Nat \ {0} /\ b * M \in Nat /\ R = d - b
  BY ProductOfNats
<1>2. p = (b * M) \div d
  BY DEF GetBancorOutput
<1> HIDE DEF p, d
<1>3. p \in Nat /\ p * d <= b * M /\ b * M < (p + 1) * d
  BY <1>1, <1>2, QuotientBounds
<1>4. /\ (M - p) * d = M * d - p * d
      /\ (M - p - 1) * d = M * d - (p + 1) * d
      /\ M * (d - b) = M * d - b * M
  BY <1>1, <1>3
<1>5. M * d \in Nat /\ p * d \in Nat /\ (p + 1) * d \in Nat /\ b * M \in Nat
  BY <1>1, <1>3, ProductOfNats
<1>6. (M - p) * d >= M * R /\ (M - p - 1) * d < M * R
  BY <1>1, <1>3, <1>4, <1>5
<1> QED
  BY <1>3, <1>6 DEF p, d

\* Bytes sold where they were bought yield what they cost, before the fees.
LEMMA RoundTripYieldsCost ==
    ASSUME NEW R \in Nat, NEW M \in Nat, NEW b \in Nat \ {0}, b < R
    PROVE  LET c == GetBancorInput(R, M, b)
           IN  GetBancorOutput(R - b, M + c, b) = c
<1> DEFINE c == GetBancorInput(R, M, b)
           d == R - b
           p == GetBancorOutput(d, M + c, b)
<1>1. c \in Nat /\ (M + c) * d <= M * R /\ M * R < (M + c + 1) * d
  BY InputKeepsProduct
<1>2. d \in Nat \ {0} /\ R = d + b /\ M + c \in Nat
  BY <1>1
<1>3. p = (b * (M + c)) \div R
  BY <1>2 DEF GetBancorOutput
<1> HIDE DEF c, d, p
<1>4. b * (M + c) \in Nat /\ R \in Nat \ {0}
  BY <1>2, ProductOfNats
<1>5. p \in Nat /\ p * R <= b * (M + c) /\ b * (M + c) < (p + 1) * R
  BY <1>3, <1>4, QuotientBounds
<1>6. c * R <= b * (M + c) /\ b * (M + c) < (c + 1) * R
  <2>1. /\ (M + c) * R = (M + c) * d + b * (M + c)
        /\ (M + c) * R = M * R + c * R
        /\ (M + c + 1) * d = (M + c) * d + d
        /\ (c + 1) * R = c * R + R
    BY <1>1, <1>2
  <2>2. (M + c) * d \in Nat /\ M * R \in Nat /\ c * R \in Nat
    BY <1>1, <1>2, ProductOfNats
  <2> QED
    BY <1>1, <1>2, <1>4, <2>1, <2>2
<1>7. p = c
  <2>1. ASSUME NEW x \in Nat, NEW y \in Nat, x < y PROVE (x + 1) * R <= y * R
    <3>1. y * R = (x + 1) * R + (y - x - 1) * R
      BY <1>4
    <3>2. (y - x - 1) * R \in Nat /\ (x + 1) * R \in Nat
      <4>1. y - x - 1 \in Nat /\ x + 1 \in Nat
        BY <2>1
      <4> QED
        BY <1>4, <4>1, ProductOfNats
    <3> QED
      BY <3>1, <3>2
  <2>2. /\ p * R \in Nat /\ (p + 1) * R \in Nat /\ c * R \in Nat /\ (c + 1) * R \in Nat
    BY <1>1, <1>4, <1>5, ProductOfNats
  <2>3. ~(p < c)
    BY <1>1, <1>4, <1>5, <1>6, <2>1, <2>2
  <2>4. ~(c < p)
    BY <1>1, <1>4, <1>5, <1>6, <2>1, <2>2
  <2> QED
    BY <1>1, <1>5, <2>3, <2>4
<1> QED
  BY <1>7 DEF c, d, p

LEMMA ChargeLeavesCost ==
    ASSUME NEW cost \in Nat
    PROVE  /\ CostPlusFee(cost) \in Nat /\ cost <= CostPlusFee(cost)
           /\ CostPlusFee(cost) * 995 <= cost * 1000
           /\ cost * 1000 < (CostPlusFee(cost) + 1) * 995
<1>1. cost * 1000 \in Nat
  OBVIOUS
<1>2. /\ CostPlusFee(cost) \in Nat
      /\ CostPlusFee(cost) * 995 <= cost * 1000
      /\ cost * 1000 < (CostPlusFee(cost) + 1) * 995
  BY <1>1, QuotientBounds DEF CostPlusFee
<1> QED
  BY <1>2

LEMMA SaleFeeRoundsUp ==
    ASSUME NEW p \in Nat
    PROVE  /\ SellFee(p) \in Nat
           /\ p <= SellFee(p) * 200
           /\ p > 0 => (SellFee(p) - 1) * 200 < p
<1>1. p + 199 \in Nat
  OBVIOUS
<1>2. /\ SellFee(p) \in Nat
      /\ SellFee(p) * 200 <= p + 199
      /\ p + 199 < (SellFee(p) + 1) * 200
  BY <1>1, QuotientBounds DEF SellFee
<1> QED
  BY <1>2

-----------------------------------------------------------------------------
(* The theorems                                                            *)

\* Reserves and amounts are not negative.
NotNegative == ram \in Nat /\ money \in Nat /\ bytes \in Nat /\ price \in Nat

LEMMA NotNegativeHolds == Spec => []NotNegative
<1>1. Init => NotNegative
  BY BoundsAssumption DEF Init, NotNegative
<1>2. NotNegative /\ [Next]_vars => NotNegative'
  BY BoundsAssumption DEF NotNegative, Next, vars
<1> QED
  BY <1>1, <1>2, PTL DEF Spec

\* The price of a purchase is the largest that does not raise the product of the
\* reserves (get_bancor_input), for reserves and amounts of any size.
THEOREM InputIsBancor == Spec => []PurchaseKeepsProduct
<1>1. NotNegative => PurchaseKeepsProduct
  BY InputKeepsProduct DEF NotNegative, PurchaseKeepsProduct, Cost
<1> QED
  BY <1>1, NotNegativeHolds, PTL

\* What a sale yields is the most that does not lower the product of the reserves
\* (get_bancor_output), for reserves and amounts of any size.
THEOREM OutputIsBancor == Spec => []SaleKeepsProduct
<1>1. NotNegative => SaleKeepsProduct
  BY OutputKeepsProduct DEF NotNegative, SaleKeepsProduct, Proceeds
<1> QED
  BY <1>1, NotNegativeHolds, PTL

\* Nobody gains by buying RAM and selling it back: the market returns exactly what
\* the bytes cost, which is never more than the buyer was charged.
THEOREM RoundTripsNeverGain == Spec => []RoundTripNeverGains
<1>1. NotNegative => RoundTripNeverGains
  <2> SUFFICES ASSUME NotNegative, bytes < ram, Cost > 0
               PROVE  GetBancorOutput(ram - bytes, money + Cost, bytes) <= CostPlusFee(Cost)
    BY DEF RoundTripNeverGains
  <2>1. ram \in Nat /\ money \in Nat /\ bytes \in Nat
    BY DEF NotNegative
  <2>2. bytes # 0
    <3> SUFFICES ASSUME bytes = 0 PROVE Cost = 0
      BY <2>1
    <3>1. Cost = (money * 0) \div (ram - 0) /\ ram > 0
      BY <2>1 DEF Cost, GetBancorInput
    <3> QED
      BY <2>1, <3>1
  <2>3. Cost \in Nat
    BY <2>1, InputKeepsProduct DEF Cost
  <2>4. GetBancorOutput(ram - bytes, money + Cost, bytes) = Cost
    BY <2>1, <2>2, RoundTripYieldsCost DEF Cost
  <2> QED
    BY <2>3, <2>4, ChargeLeavesCost
<1> QED
  BY <1>1, NotNegativeHolds, PTL

\* The buyer's charge leaves the cost after a fee of 0.5%, and a sale pays 0.5%
\* rounded up, for every price.
THEOREM FeesAreRight == Spec => []FeesAreHalfAPercent
<1>1. NotNegative => FeesAreHalfAPercent
  BY ChargeLeavesCost, SaleFeeRoundsUp DEF NotNegative, FeesAreHalfAPercent
<1> QED
  BY <1>1, NotNegativeHolds, PTL

=============================================================================
