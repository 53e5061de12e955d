---------------------------- MODULE MCFlowModTest ----------------------------
(***************************************************************************)
(* FlowModTest for TLC.  hash_int takes two values: every way for the hash *)
(* of ETH_TYPE to be its own or that of some of the other three fields is  *)
(* among the sixteen functions.  The body is followed for two rounds, the  *)
(* one test.c means and one on freed memory.                               *)
(***************************************************************************)
EXTENDS FlowModTest

MCHashes == {0, 1}

MCMaxPrints == 2

=============================================================================
