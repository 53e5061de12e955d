--------------------------- MODULE MCOflMatchWrap ---------------------------
(***************************************************************************)
(* OflMatch for TLC at the full width of header.length: one field of the   *)
(* widest kind, one value, no mask, and room for as many TLVs as it takes  *)
(* for their bytes to pass 65535.  The puts do not look for the field in   *)
(* the map, so the same put can be repeated.                               *)
(***************************************************************************)
EXTENDS OflMatch

MCFieldWidth == [ipv6_src |-> IPv6_ADDR_LEN]

MCValues == {"v1"}

MCMasks == {}

MCNoMask == "none"

MCPacketFieldPool == {}

(* Bound: the first number of 20-byte TLVs whose sum is past UINT16_LIMIT. *)
MCMaxEntries == (UINT16_LIMIT \div (IPv6_ADDR_LEN + 4)) + 1

=============================================================================
