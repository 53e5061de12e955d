---------------------------- MODULE MCOflMsgPrint ----------------------------
(***************************************************************************)
(* OflMsgPrint for TLC: every message type and statistics type, lists of   *)
(* no, one and two elements, every combination of null pointers in 'exp'.  *)
(***************************************************************************)
EXTENDS OflMsgPrint

MCMaxNum == 2

=============================================================================
