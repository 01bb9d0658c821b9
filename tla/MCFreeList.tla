----------------------------- MODULE MCFreeList -----------------------------
(***************************************************************************)
(* A free list of four registers under every sequence of requests and      *)
(* returns, whoever returns what.                                          *)
(***************************************************************************)
EXTENDS FreeListArray
=============================================================================
