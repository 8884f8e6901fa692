-------------------------- MODULE MCArraySideBook --------------------------
(***************************************************************************)
(* The array side book, in step with the map, on 3 words of 2 bits: a      *)
(* search stays in its word, moves to the next one, or skips an empty one. *)
(***************************************************************************)
EXTENDS SideBooksInStep
=============================================================================
