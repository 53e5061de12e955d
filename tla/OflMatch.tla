------------------------------ MODULE OflMatch ------------------------------
(***************************************************************************)
(* The match of oflib/ofl-structs-match.c: struct ofl_match is a header    *)
(* (type, length) and a hash map of OXM TLVs, each an OXM header and a     *)
(* value buffer.  The code only ever inserts: a match is initialised, then *)
(* filled by the twelve typed puts or by the conversion of the fields      *)
(* found in a packet.                                                      *)
(*                                                                         *)
(* header.length is a running sum kept beside the map.  The pack routine   *)
(* and ofl_structs_match_ofp_total_len (outside src/) take the wire size   *)
(* of the match from it and the size of each TLV from the length bits of   *)
(* its OXM header, so the sum, the headers and the buffers must agree.     *)
(*                                                                         *)
(* Data is abstracted as follows.  An OXM header is a record of the parts  *)
(* the code takes from it (OXM_VENDOR, OXM_LENGTH) and the parts that tell *)
(* two headers apart (field, hasmask).  Values and masks are members of    *)
(* small sets; a value buffer is its size in bytes and what was copied     *)
(* into it.  The hash map is a bag: it keeps duplicates and has no order   *)
(* a caller may rely on.                                                   *)
(***************************************************************************)
EXTENDS Naturals, FiniteSets, Bags, BagsExt, FiniteSetsExt

CONSTANTS
    FieldWidth,         \* field registry: field id -> bytes of its value
    Values,             \* values a caller may store
    Masks,              \* masks a caller may store
    NoMask,             \* the absent mask of an unmasked TLV
    PacketFieldPool,    \* packet_fields a parsed packet may contain
    MaxEntries          \* bound: TLVs in the match

OFPXMC_OPENFLOW_BASIC == 32768      \* 0x8000, the OXM class of the registry
ETH_ADDR_LEN == 6
IPv6_ADDR_LEN == 16
UINT16_LIMIT == 65536               \* header.length is a uint16_t

(* OXM_HEADER and OXM_HEADER_W of the registry's fields.                   *)
OXM_HEADER(f) ==
    [vendor |-> OFPXMC_OPENFLOW_BASIC, field |-> f, hasmask |-> FALSE,
     length |-> FieldWidth[f]]

OXM_HEADER_W(f) ==
    [vendor |-> OFPXMC_OPENFLOW_BASIC, field |-> f, hasmask |-> TRUE,
     length |-> 2 * FieldWidth[f]]

OXM_VENDOR(header) == header.vendor

OXM_LENGTH(header) == header.length

(* The headers a caller passes to the put of len bytes.                    *)
HeadersOf(len) == { OXM_HEADER(f) : f \in { g \in DOMAIN FieldWidth : FieldWidth[g] = len } }

MaskedHeadersOf(len) ==
    { OXM_HEADER_W(f) : f \in { g \in DOMAIN FieldWidth : FieldWidth[g] = len } }

ASSUME
    /\ NoMask \notin Masks
    /\ MaxEntries \in Nat
    /\ \A f \in DOMAIN FieldWidth : FieldWidth[f] \in Nat \ {0}
    /\ \A pf \in PacketFieldPool : ~pf.header.hasmask /\ pf.value \in Values

VARIABLES
    match,      \* struct ofl_match: [type, length, match_fields]
    asked       \* history: bag of the <<header, value, mask>> asked for

vars == <<match, asked>>

-----------------------------------------------------------------------------
(* struct ofl_match_tlv: the header and the malloc'ed value buffer, which  *)
(* holds the value, then the mask if there is one.                         *)
Tlv(header, size, value, mask) ==
    [header |-> header, size |-> size, value |-> value, mask |-> mask]

(* The tail every put shares: hmap_insert of the new TLV, then the length  *)
(* of the match advanced in uint16_t arithmetic.                           *)
Insert(m, tlv, bytes) ==
    [m EXCEPT !.match_fields = BagAdd(@, tlv),
              !.length = (@ + bytes) % UINT16_LIMIT]

(* Slip: the type not set, so that it stays the 0 of zeroed memory, which  *)
(* is OFPMT_STANDARD.                                                      *)
ofl_structs_match_init_no_type ==
    [type |-> "OFPMT_STANDARD", length |-> 0, match_fields |-> EmptyBag]

ofl_structs_match_init ==
    [type |-> "OFPMT_OXM", length |-> 0, match_fields |-> EmptyBag]

ofl_structs_match_put8(m, header, value) ==
    LET len == 1 IN Insert(m, Tlv(header, len, value, NoMask), len + 4)

ofl_structs_match_put8m(m, header, value, mask) ==
    LET len == 1 IN Insert(m, Tlv(header, len * 2, value, mask), len * 2 + 4)

ofl_structs_match_put16(m, header, value) ==
    LET len == 2 IN Insert(m, Tlv(header, len, value, NoMask), len + 4)

(* Slip: the masked put counts the value and not the mask.                 *)
ofl_structs_match_put16m_short_sum(m, header, value, mask) ==
    LET len == 2 IN Insert(m, Tlv(header, len * 2, value, mask), len + 4)

ofl_structs_match_put16m(m, header, value, mask) ==
    LET len == 2 IN Insert(m, Tlv(header, len * 2, value, mask), len * 2 + 4)

(* Slip: the four bytes of the OXM header not counted.                     *)
ofl_structs_match_put32_no_header(m, header, value) ==
    LET len == 4 IN Insert(m, Tlv(header, len, value, NoMask), len)

ofl_structs_match_put32(m, header, value) ==
    LET len == 4 IN Insert(m, Tlv(header, len, value, NoMask), len + 4)

ofl_structs_match_put32m(m, header, value, mask) ==
    LET len == 4 IN Insert(m, Tlv(header, len * 2, value, mask), len * 2 + 4)

ofl_structs_match_put64(m, header, value) ==
    LET len == 8 IN Insert(m, Tlv(header, len, value, NoMask), len + 4)

ofl_structs_match_put64m(m, header, value, mask) ==
    LET len == 8 IN Insert(m, Tlv(header, len * 2, value, mask), len * 2 + 4)

ofl_structs_match_put_eth(m, header, value) ==
    LET len == ETH_ADDR_LEN IN Insert(m, Tlv(header, len, value, NoMask), len + 4)

(* Slip: the buffer of the masked put allocated for the value alone.       *)
ofl_structs_match_put_eth_m_short_buffer(m, header, value, mask) ==
    LET len == ETH_ADDR_LEN IN Insert(m, Tlv(header, len, value, mask), len * 2 + 4)

ofl_structs_match_put_eth_m(m, header, value, mask) ==
    LET len == ETH_ADDR_LEN IN Insert(m, Tlv(header, len * 2, value, mask), len * 2 + 4)

ofl_structs_match_put_ipv6(m, header, value) ==
    LET len == IPv6_ADDR_LEN IN Insert(m, Tlv(header, len, value, NoMask), len + 4)

ofl_structs_match_put_ipv6m(m, header, value, mask) ==
    LET len == IPv6_ADDR_LEN IN Insert(m, Tlv(header, len * 2, value, mask), len * 2 + 4)

(* Slip: the case of the 6-byte addresses missing from the switch.         *)
ConvertField_no_eth(m, pf) ==
    LET len == OXM_LENGTH(pf.header) IN
    IF OXM_VENDOR(pf.header) # OFPXMC_OPENFLOW_BASIC THEN m
    ELSE CASE len = 1 -> ofl_structs_match_put8(m, pf.header, pf.value)
           [] len = 2 -> ofl_structs_match_put16(m, pf.header, pf.value)
           [] len = 4 -> ofl_structs_match_put32(m, pf.header, pf.value)
           [] len = 8 -> ofl_structs_match_put64(m, pf.header, pf.value)
           [] len = IPv6_ADDR_LEN -> ofl_structs_match_put_ipv6(m, pf.header, pf.value)
           [] OTHER -> m

(* One round of the loop of ofl_structs_match_convert_pktf2oflm: a field   *)
(* of another class is passed over, a field of the basic class goes to the *)
(* put that the length in its header selects, and to none if the switch    *)
(* has no case for that length.                                            *)
ConvertField(m, pf) ==
    LET len == OXM_LENGTH(pf.header) IN
    IF OXM_VENDOR(pf.header) # OFPXMC_OPENFLOW_BASIC THEN m
    ELSE CASE len = 1 -> ofl_structs_match_put8(m, pf.header, pf.value)
           [] len = 2 -> ofl_structs_match_put16(m, pf.header, pf.value)
           [] len = 4 -> ofl_structs_match_put32(m, pf.header, pf.value)
           [] len = ETH_ADDR_LEN -> ofl_structs_match_put_eth(m, pf.header, pf.value)
           [] len = 8 -> ofl_structs_match_put64(m, pf.header, pf.value)
           [] len = IPv6_ADDR_LEN -> ofl_structs_match_put_ipv6(m, pf.header, pf.value)
           [] OTHER -> m

(* HMAP_FOR_EACH over the packet's fields, in the order of the hash map.   *)
ofl_structs_match_convert_pktf2oflm(hmap_packet_fields, m) ==
    FoldSet(LAMBDA pf, acc : ConvertField(acc, pf), m, hmap_packet_fields)

-----------------------------------------------------------------------------
(* What a caller asked the match to hold.                                  *)
Request(header, value, mask) == <<header, value, mask>>

(* The fields of a packet that belong in a match: those of the basic class *)
(* whose length is the width of a field of the registry.                   *)
Wanted(hmap_packet_fields) ==
    { pf \in hmap_packet_fields :
        /\ OXM_VENDOR(pf.header) = OFPXMC_OPENFLOW_BASIC
        /\ \E f \in DOMAIN FieldWidth : FieldWidth[f] = OXM_LENGTH(pf.header) }

Init ==
    /\ match = ofl_structs_match_init
    /\ asked = EmptyBag

(* The caller initialises the match again (the TLVs of the old map are not *)
(* freed by this; memory is not modelled).                                 *)
Reinit ==
    /\ match' = ofl_structs_match_init
    /\ asked' = EmptyBag

(* One call of a put: the match becomes m, the request is recorded.        *)
Put(m, header, value, mask) ==
    /\ BagCardinality(match.match_fields) < MaxEntries
    /\ match' = m
    /\ asked' = BagAdd(asked, Request(header, value, mask))

Put8 == \E h \in HeadersOf(1), v \in Values :
    Put(ofl_structs_match_put8(match, h, v), h, v, NoMask)

Put8m == \E h \in MaskedHeadersOf(1), v \in Values, k \in Masks :
    Put(ofl_structs_match_put8m(match, h, v, k), h, v, k)

Put16 == \E h \in HeadersOf(2), v \in Values :
    Put(ofl_structs_match_put16(match, h, v), h, v, NoMask)

Put16m == \E h \in MaskedHeadersOf(2), v \in Values, k \in Masks :
    Put(ofl_structs_match_put16m(match, h, v, k), h, v, k)

Put32 == \E h \in HeadersOf(4), v \in Values :
    Put(ofl_structs_match_put32(match, h, v), h, v, NoMask)

Put32m == \E h \in MaskedHeadersOf(4), v \in Values, k \in Masks :
    Put(ofl_structs_match_put32m(match, h, v, k), h, v, k)

Put64 == \E h \in HeadersOf(8), v \in Values :
    Put(ofl_structs_match_put64(match, h, v), h, v, NoMask)

Put64m == \E h \in MaskedHeadersOf(8), v \in Values, k \in Masks :
    Put(ofl_structs_match_put64m(match, h, v, k), h, v, k)

PutEth == \E h \in HeadersOf(ETH_ADDR_LEN), v \in Values :
    Put(ofl_structs_match_put_eth(match, h, v), h, v, NoMask)

PutEthM == \E h \in MaskedHeadersOf(ETH_ADDR_LEN), v \in Values, k \in Masks :
    Put(ofl_structs_match_put_eth_m(match, h, v, k), h, v, k)

PutIpv6 == \E h \in HeadersOf(IPv6_ADDR_LEN), v \in Values :
    Put(ofl_structs_match_put_ipv6(match, h, v), h, v, NoMask)

PutIpv6m == \E h \in MaskedHeadersOf(IPv6_ADDR_LEN), v \in Values, k \in Masks :
    Put(ofl_structs_match_put_ipv6m(match, h, v, k), h, v, k)

(* The fields of one packet are converted into the match.                  *)
Convert ==
    \E fields \in SUBSET PacketFieldPool :
        /\ fields # {}
        /\ BagCardinality(match.match_fields) + Cardinality(fields) <= MaxEntries
        /\ match' = ofl_structs_match_convert_pktf2oflm(fields, match)
        /\ asked' = asked (+) SetToBag({ Request(pf.header, pf.value, NoMask) :
                                            pf \in Wanted(fields) })

Next ==
    \/ Reinit
    \/ Put8 \/ Put8m \/ Put16 \/ Put16m \/ Put32 \/ Put32m
    \/ Put64 \/ Put64m \/ PutEth \/ PutEthM \/ PutIpv6 \/ PutIpv6m
    \/ Convert

Spec == Init /\ [][Next]_vars

-----------------------------------------------------------------------------
Headers ==
    { OXM_HEADER(f) : f \in DOMAIN FieldWidth } \cup
    { OXM_HEADER_W(f) : f \in DOMAIN FieldWidth } \cup
    { pf.header : pf \in PacketFieldPool }

TypeOK ==
    /\ match.type = "OFPMT_OXM"
    /\ match.length \in 0 .. UINT16_LIMIT - 1
    /\ IsABag(match.match_fields)
    /\ \A tlv \in BagToSet(match.match_fields) :
        /\ tlv.header \in Headers
        /\ tlv.size \in Nat \ {0}
        /\ tlv.value \in Values
        /\ tlv.mask \in Masks \cup {NoMask}

(* The bytes the TLVs of a bag take on the wire: for each, four bytes of   *)
(* OXM header and the payload its header declares.                         *)
WireBytes(fields) ==
    MapThenSumSet(LAMBDA tlv : fields[tlv] * (4 + OXM_LENGTH(tlv.header)),
                  BagToSet(fields))

(* Section 3 of the specification: the declared length of the match "must  *)
(* equal the sum of (4-byte TLV header + payload bytes, payload doubled if *)
(* masked) over all entries", because it is taken as the wire length       *)
(* without recounting.  The sum is kept by twelve puts that each add their *)
(* own constant, and by the conversion, which picks the put from the       *)
(* length in the header: all of them must add what the header declares.    *)
LengthIsWireBytes == match.length = WireBytes(match.match_fields)

(* The pack routine copies OXM_LENGTH(header) bytes out of each value      *)
(* buffer.  Every buffer, the ones the conversion allocated through the    *)
(* put it selected included, must be exactly that long, and hold a mask    *)
(* exactly when its header has the mask bit.                               *)
BufferIsWhatHeaderDeclares ==
    \A tlv \in BagToSet(match.match_fields) :
        /\ tlv.size = OXM_LENGTH(tlv.header)
        /\ tlv.header.hasmask <=> tlv.mask # NoMask

(* The match holds what it was asked to hold, no more and no less: every   *)
(* put arrives in the map with its value and mask, and of a packet's       *)
(* fields ofl_structs_match_convert_pktf2oflm forwards the ones of the     *)
(* basic class (section 4.3 of the specification), whatever other fields   *)
(* the packet has and whatever the match held before.                      *)
MatchHoldsWhatWasAsked ==
    /\ BagToSet(match.match_fields) =
           { Tlv(r[1], OXM_LENGTH(r[1]), r[2], r[3]) : r \in BagToSet(asked) }
    /\ \A r \in BagToSet(asked) :
           CopiesIn(Tlv(r[1], OXM_LENGTH(r[1]), r[2], r[3]), match.match_fields)
               = CopiesIn(r, asked)

=============================================================================
