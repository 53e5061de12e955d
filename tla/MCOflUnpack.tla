---------------------------- MODULE MCOflUnpack ----------------------------
(* OflUnpack for TLC.  Three units hold a record after a record that holds *)
(* one, a record that fails inside one whose neighbour is unpacked, and    *)
(* three levels of records; every header, right or wrong, is in the        *)
(* buffers.  size_t wraps at 8.                                            *)
EXTENDS OflUnpack

MCMaxLen == 3
MCSizeWrap == 8
=============================================================================
