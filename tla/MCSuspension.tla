---------------------------- MODULE MCSuspension ----------------------------
(* Suspension on small instances: the constants are sets of model values.  *)
EXTENDS Suspension
=============================================================================
