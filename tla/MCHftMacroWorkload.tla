------------------------- MODULE MCHftMacroWorkload -------------------------
(***************************************************************************)
(* HftMacroWorkload on a small instance.                                   *)
(***************************************************************************)
EXTENDS HftMacroWorkload

MCLevels == {"Buy", "Sell"} \X (0 .. kL1Count * kWordBits - 1)

\* Every event takes at most one new id.
MCOrderId == 1 .. SeedEvents + WarmupEvents + batch_size
=============================================================================
