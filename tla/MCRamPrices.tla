---------------------------- MODULE MCRamPrices ----------------------------
(* The RAM prices against what defines them: every pair of reserves and every *)
(* amount up to a bound, one per state.                                       *)
EXTENDS RamPrices

CONSTANTS MaxReserve, MaxBytes, MaxPrice

ASSUME BoundsAssumption == MaxReserve \in Nat /\ MaxBytes \in Nat /\ MaxPrice \in Nat

VARIABLES
    ram, money,     \* reserves
    bytes,          \* what is traded
    price           \* a price before its fee

vars == <<ram, money, bytes, price>>

Init ==
    /\ ram \in 0 .. MaxReserve /\ money \in 0 .. MaxReserve
    /\ bytes = 0 /\ price = 0

\* Amounts are tried in turn; the fee does not depend on the reserves.
Next ==
    \/ bytes' = (bytes + 1) % (MaxBytes + 1) /\ UNCHANGED <<ram, money, price>>
    \/ /\ ram = 0 /\ money = 0 /\ bytes = 0
       /\ price' = (price + 1) % (MaxPrice + 1) /\ UNCHANGED <<ram, money, bytes>>

Spec == Init /\ [][Next]_vars

Cost == GetBancorInput(ram, money, bytes)
Proceeds == GetBancorOutput(ram, money, bytes)

-----------------------------------------------------------------------------
\* get_bancor_input is the largest price at which a purchase does not raise the
\* product of the reserves, which is what makes the market a Bancor market.
PurchaseKeepsProduct ==
    bytes < ram =>
        /\ (money + Cost) * (ram - bytes) <= money * ram
        /\ money * ram < (money + Cost + 1) * (ram - bytes)

\* get_bancor_output never pays so much that the product of the reserves falls,
\* and never a unit less than it could.
SaleKeepsProduct ==
    bytes > 0 =>
        /\ (money - Proceeds) * (ram + bytes) >= money * ram
        /\ (money - Proceeds - 1) * (ram + bytes) < money * ram

\* Selling the bytes just bought, to the market as the purchase left it, never
\* yields more than they cost with the fee of buyrambytes.
RoundTripNeverGains ==
    bytes < ram /\ Cost > 0 =>
        GetBancorOutput(ram - bytes, money + Cost, bytes) <= CostPlusFee(Cost)

\* Both fees are half a percent: the buyer's charge leaves the cost once the fee
\* is taken from it, give or take the unit that truncation costs, and no sale is free of charge.
FeesAreHalfAPercent ==
    /\ LET charge == CostPlusFee(price)
       IN  charge * 995 <= price * 1000 /\ price * 1000 < (charge + 1) * 995
    /\ LET fee == SellFee(price)
       IN  price <= fee * 200 /\ (price > 0 => (fee - 1) * 200 < price)

=============================================================================
