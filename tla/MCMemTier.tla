----------------------------- MODULE MCMemTier -----------------------------
(***************************************************************************)
(* MemTier for TLC: a table of two chains, pages of two entries, log pages *)
(* of two records and chunks of two pages, so that the write buffer is     *)
(* reused, the block field wraps and a chunk fills up within few steps.    *)
(***************************************************************************)
EXTENDS MemTier

MCPage == 0 .. (NumBlocks * SectorsPerChunk - 1)
=============================================================================
