----------------------------- MODULE MC_NvmeBench -----------------------------
(* Two processes on one file, two threads, pages of 16 bytes (tags 0, 2, *)
(* 4), runs of 0 to 3 pages so that the static split has a remainder and *)
(* a read may ask for more pages than a write left.                      *)
EXTENDS NvmeBench

MCPageCounts == {0, 1, 3}
=============================================================================
