--------------------------- MODULE MCRiderClient ---------------------------
(* RiderClient for TLC: the ways its calls may end and what it may hear.   *)
EXTENDS RiderClient

AllDetails == {"complete", "noPhoto", "noUser", "error"}
AllAnswers == {"confirmed", "arrived"}
AllPushes == {"accepted", "rejected", "arrived"}
=============================================================================
