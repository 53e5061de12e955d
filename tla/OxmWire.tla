------------------------------ MODULE OxmWire ------------------------------
(***************************************************************************)
(* The wire form of a match: ofl_structs_match_pack,                       *)
(* ofl_structs_match_unpack and ofl_structs_match_ofp_total_len, which     *)
(* oflib/ofl-structs.h declares and whose bodies are not in src/.  They    *)
(* are written here from section 4.3 of the specification, over the match  *)
(* of OflMatch and its puts, which are written from the code.              *)
(*                                                                         *)
(* Bytes are abstracted to what has a length: a packed match is the type   *)
(* and the declared length of its header, the TLVs in the order they were  *)
(* written, and the number of padding bytes.  A TLV on the wire is its OXM *)
(* header, four bytes, and a payload of OXM_LENGTH(header) bytes holding   *)
(* the value and, with the mask bit, the mask.                             *)
(***************************************************************************)
EXTENDS OflMatch, Sequences, SequencesExt

ROUND_UP(x, y) == ((x + y - 1) \div y) * y

(* "returns the wire length including the 8-byte-alignment padding": taken *)
(* from the declared length, not counted from the entries.                 *)
ofl_structs_match_ofp_total_len(m) == ROUND_UP(m.length, 8)

-----------------------------------------------------------------------------
(* Pack.                                                                   *)

WireTlv(tlv) == [header |-> tlv.header, value |-> tlv.value, mask |-> tlv.mask]

(* The orders in which a walk of the hash map can meet the entries: any    *)
(* order of the distinct ones, the copies of one entry side by side.       *)
IterationOrders(fields) ==
    { FlattenSeq([i \in DOMAIN s |-> [j \in 1 .. fields[s[i]] |-> s[i]]]) :
        s \in SetToSeqs(BagToSet(fields)) }

(* The bytes of a run of TLVs, each as long as its header says.            *)
BytesOf(tlvs) == FoldLeft(LAMBDA n, t : n + 4 + OXM_LENGTH(t.header), 0, tlvs)

(* The header as the match declares it, each entry in iteration order,     *)
(* then zero bytes up to the next multiple of eight.                       *)
ofl_structs_match_pack(m, order) ==
    LET oxm_fields == [i \in DOMAIN order |-> WireTlv(order[i])] IN
    [type |-> m.type, length |-> m.length, oxm_fields |-> oxm_fields,
     pad |-> ROUND_UP(BytesOf(oxm_fields), 8) - BytesOf(oxm_fields)]

(* What pack returns: the bytes written, padding included.                 *)
PackedBytes(wire) == BytesOf(wire.oxm_fields) + wire.pad

-----------------------------------------------------------------------------
(* Unpack.                                                                 *)

NoError == "none"

Failed(kind) == [error |-> kind, match |-> ofl_structs_match_init]

(* The put of the registered width of the field, masked or not.            *)
PutByWidth(m, header, value, mask) ==
    LET w == FieldWidth[header.field] IN
    IF header.hasmask
    THEN CASE w = 1 -> ofl_structs_match_put8m(m, header, value, mask)
           [] w = 2 -> ofl_structs_match_put16m(m, header, value, mask)
           [] w = 4 -> ofl_structs_match_put32m(m, header, value, mask)
           [] w = 8 -> ofl_structs_match_put64m(m, header, value, mask)
           [] w = ETH_ADDR_LEN -> ofl_structs_match_put_eth_m(m, header, value, mask)
           [] w = IPv6_ADDR_LEN -> ofl_structs_match_put_ipv6m(m, header, value, mask)
    ELSE CASE w = 1 -> ofl_structs_match_put8(m, header, value)
           [] w = 2 -> ofl_structs_match_put16(m, header, value)
           [] w = 4 -> ofl_structs_match_put32(m, header, value)
           [] w = 8 -> ofl_structs_match_put64(m, header, value)
           [] w = ETH_ADDR_LEN -> ofl_structs_match_put_eth(m, header, value)
           [] w = IPv6_ADDR_LEN -> ofl_structs_match_put_ipv6(m, header, value)

(* "repeatedly reads 4-byte field headers and infers payload length from   *)
(* the field id's registered width and a mask-presence bit embedded in the *)
(* header, until the declared match length is consumed".                   *)
RECURSIVE ReadFields(_, _, _)
ReadFields(oxm_fields, remaining, m) ==
    CASE remaining = 0 -> [error |-> NoError, match |-> m]
      [] remaining \in 1 .. 3 -> Failed("BadAlignment")
      [] oxm_fields = <<>> -> Failed("TruncatedBuffer")
      [] OTHER ->
            LET t == Head(oxm_fields)
                known == /\ OXM_VENDOR(t.header) = OFPXMC_OPENFLOW_BASIC
                         /\ t.header.field \in DOMAIN FieldWidth
                payload == FieldWidth[t.header.field] * (IF t.header.hasmask THEN 2 ELSE 1)
            IN  CASE ~known -> Failed("UnknownFieldId")
                  [] known /\ 4 + payload > remaining -> Failed("TruncatedBuffer")
                  [] OTHER -> ReadFields(Tail(oxm_fields), remaining - 4 - payload,
                                         PutByWidth(m, t.header, t.value, t.mask))

(* Slip: the declared length cut down to whole 4-byte words before the     *)
(* fields are read.                                                        *)
ofl_structs_match_unpack_whole_words(wire) ==
    IF wire.type # "OFPMT_OXM" THEN Failed("MalformedMatch")
    ELSE ReadFields(wire.oxm_fields, (wire.length \div 4) * 4, ofl_structs_match_init)

(* The error, or the match read from the wire; no partial match with an    *)
(* error.                                                                  *)
ofl_structs_match_unpack(wire) ==
    IF wire.type # "OFPMT_OXM" THEN Failed("MalformedMatch")
    ELSE ReadFields(wire.oxm_fields, wire.length, ofl_structs_match_init)

-----------------------------------------------------------------------------
(* Section 8 of the specification: unpack(pack(M)) reproduces the entries  *)
(* of every match built by the puts.  It is stated there for distinct      *)
(* fields; here for every match the puts and the conversion of             *)
(* ofl-structs-match.c build, a field put twice included, and for every    *)
(* order in which the hash map hands the entries to pack: what each put    *)
(* stored and added to header.length is what unpack reads and consumes.    *)
(* Section 9 expects a field put twice to "double-count declared length    *)
(* and corrupt ofp_total_len": both entries are counted, and both are      *)
(* packed and read back.                                                   *)
UnpackInvertsPack ==
    \A order \in IterationOrders(match.match_fields) :
        ofl_structs_match_unpack(ofl_structs_match_pack(match, order))
            = [error |-> NoError, match |-> match]

(* Sections 4.3 and 7 of the specification: unpack reads "until the        *)
(* declared match length is consumed" and fails if that length "does not   *)
(* align to a 4-byte header boundary, or if the buffer is shorter than the *)
(* declared length"; a bad length "must fail ..., not silently truncate".  *)
(* For every match the puts build, every order of its TLVs, the buffer cut *)
(* short after any of them and every length its header can then declare:   *)
(* ofl_structs_match_unpack reports no error exactly when the declared     *)
(* length ends on the end of a TLV that is there, and the match it then    *)
(* gives declares that length again.                                       *)
DamagedWireIsRefused ==
    \A order \in IterationOrders(match.match_fields) :
        \A kept \in 0 .. Len(order), declared \in 0 .. match.length + 4 :
            LET wire == [ofl_structs_match_pack(match, order) EXCEPT
                            !.oxm_fields = SubSeq(@, 1, kept), !.length = declared]
                read == ofl_structs_match_unpack(wire)
                ends == { BytesOf(SubSeq(wire.oxm_fields, 1, k)) : k \in 0 .. kept }
            IN  /\ read.error = NoError <=> declared \in ends
                /\ read.error = NoError => read.match.length = declared

=============================================================================
