--------------------------- MODULE MCDriverClient ---------------------------
(* DriverClient for TLC: the ways its calls may end and its app may stop.  *)
EXTENDS DriverClient

AllDetails == {"complete", "incomplete", "error"}
AllStatuses == {"confirmed", "cancelled"}
QuitAndLaunch == {"quit", "launch"}
=============================================================================
