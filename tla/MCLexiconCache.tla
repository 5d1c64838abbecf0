--------------------------- MODULE MCLexiconCache ---------------------------
(* LexiconCache on a small instance. *)
EXTENDS LexiconCache
=============================================================================
