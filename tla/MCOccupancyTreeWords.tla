------------------------ MODULE MCOccupancyTreeWords ------------------------
(***************************************************************************)
(* OccupancyTreeWords on 4 words of 4 bits.  As in the code kL1Count =     *)
(* kWordBits, so that L2 is exactly one full word, and the width is a      *)
(* power of two, as the mask bit & (kWordBits - 1) needs.  The touched     *)
(* bits hold both ends of every word; the searches start from all 16.      *)
(***************************************************************************)
EXTENDS OccupancyTreeWords
=============================================================================
