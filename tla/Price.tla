------------------------------- MODULE Price -------------------------------
(***************************************************************************)
(* The driver's fee for a ride (PriceCalculation), as the suggestion page  *)
(* shows it.  Distances are in metres, fees in hundred-thousandths of the  *)
(* currency's unit, so that each band's rate is a whole number a metre;    *)
(* the page rounds to cents.                                               *)
(***************************************************************************)
EXTENDS Integers

(* The bands begin at 4, 11 and 21 km, and their rates count from 4, 10    *)
(* and 20 km.                                                              *)
driverFeeForDistance(metres) ==
  IF 0 <= metres /\ metres < 4000 THEN 100000
  ELSE IF 4000 <= metres /\ metres < 11000 THEN 100000 + 20 * (metres - 4000)
  ELSE IF 11000 <= metres /\ metres < 21000 THEN 240000 + 15 * (metres - 10000)
  ELSE 390000 + 10 * (metres - 20000)

(* Whole cents, half a cent up: what "%.2f" shows of a positive fee, for   *)
(* all but the distances on the half.                                      *)
driverFeeStringValue(fee) == (fee + 500) \div 1000

=============================================================================
