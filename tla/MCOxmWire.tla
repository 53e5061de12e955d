----------------------------- MODULE MCOxmWire -----------------------------
(***************************************************************************)
(* OxmWire for TLC, over the matches of MCOflMatch: one field of each      *)
(* width, masked and not, up to three entries, the same field twice, the   *)
(* fields of a packet.                                                     *)
(***************************************************************************)
EXTENDS OxmWire, MCOflMatch

=============================================================================
