----------------------------- MODULE RamPrices -----------------------------
(***************************************************************************)
(* The price of RAM (contracts/include/system/oldsystem.hpp), and the fees *)
(* on it.  A Bancor market holds two reserves, RAM and EOS, and trades at  *)
(* prices that keep their product.                                         *)
(*                                                                         *)
(* The code computes in doubles and truncates; here the same quotients are *)
(* exact.  Reserves and amounts are not negative: their callers pass the   *)
(* balances of the market and unsigned numbers of bytes.                   *)
(***************************************************************************)
EXTENDS Integers

\* Mutant: the price is what a sale of as much would yield.
BancorInputOfSale(outReserve, inpReserve, out) ==
    IF out < outReserve THEN (inpReserve * out) \div (outReserve + out) ELSE 0

\* What `out` of one reserve costs in the other; 0, which no caller accepts, when
\* the reserve is too small for it.
GetBancorInput(outReserve, inpReserve, out) ==
    IF out < outReserve THEN (inpReserve * out) \div (outReserve - out) ELSE 0

\* Mutant: the price is the current ratio of the reserves.
BancorOutputAtRatio(inpReserve, outReserve, inp) ==
    IF inp > 0 /\ inpReserve > 0 THEN (inp * outReserve) \div inpReserve ELSE 0

\* What `inp` put into one reserve yields of the other.
GetBancorOutput(inpReserve, outReserve, inp) ==
    IF inp > 0 THEN (inp * outReserve) \div (inpReserve + inp) ELSE 0

\* What the buyer is charged, so that the cost remains after a fee of 0.5%.
CostPlusFee(cost) == (cost * 1000) \div 995

\* Mutant: the fee is rounded down.
SellFeeRoundedDown(price) == price \div 200

\* The fee on a sale: 0.5%, rounded up.
SellFee(price) == (price + 199) \div 200

=============================================================================
