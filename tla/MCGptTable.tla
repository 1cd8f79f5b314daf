----------------------------- MODULE MCGptTable -----------------------------
(* GptTable for TLC. *)
EXTENDS GptTable

\* Some sectors of the smallest disk, or all of the largest one.
SmallSectors == 3..Min(Sizes) - 2
AllSectors == 1..Max(Sizes)
=============================================================================
