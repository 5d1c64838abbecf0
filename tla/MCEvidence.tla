----------------------------- MODULE MCEvidence -----------------------------
(* Evidence on a small instance. *)
EXTENDS Evidence
=============================================================================
