------------------------------ MODULE MC_OpenMap ------------------------------
(* Every combination of the three options, sizes of 0 to 2 pages for the *)
(* request and for an existing file, and every call failing or not.     *)
EXTENDS OpenMap

MCOptions == [iodirect : BOOLEAN, noinit : BOOLEAN, usemmap : BOOLEAN]
=============================================================================
