--------------------------- MODULE MCAvailability ---------------------------
(***************************************************************************)
(* Availability on a small instance.                                       *)
(***************************************************************************)
EXTENDS Availability

CONSTANTS p1

OneDay == [pair : {p1}, days : {1}, key : {NoKey}]
=============================================================================
