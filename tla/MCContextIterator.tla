------------------------- MODULE MCContextIterator -------------------------
(* An instance of ContextIterator for TLC. *)
EXTENDS ContextIterator

\* operator++, operator-- and operator+= of two.
ShortStrides == { -1, 1, 2 }
=============================================================================
