---------------------------- MODULE FlowModTest ----------------------------
(***************************************************************************)
(* The program of udatapath/test.c: it builds a match of four fields with  *)
(* the puts of OflMatch, packs a flow-mod that carries it, unpacks the     *)
(* bytes, looks ETH_TYPE up in the unpacked match by its hash, prints the  *)
(* value, and frees the unpacked message inside the loop of the lookup.    *)
(*                                                                         *)
(* The puts are the code's (OflMatch); pack and unpack are OxmWire; the    *)
(* hash map is what its macros promise: a walk of it meets the entries in  *)
(* an order the program does not choose, and a walk "with hash" meets the  *)
(* entries inserted with that hash.  hash_int is not in src/: it is any    *)
(* function of the header, two fields with one hash included.  Of the      *)
(* flow-mod the match goes through pack and unpack; the scalar fields and  *)
(* the instruction are carried as the values test.c gives them.            *)
(*                                                                         *)
(* ofl_msg_free_flow_mod with with_match = true frees the message, its     *)
(* match and every TLV.  A read of freed memory can give anything.         *)
(***************************************************************************)
EXTENDS Naturals, Sequences, FiniteSets, Bags, SequencesExt

CONSTANTS
    NULL,           \* the null pointer
    NoMask,         \* the absent mask of an unmasked TLV
    Garbage,        \* what freed memory can hold besides a value once stored
    Hashes,         \* the values hash_int can take
    MaxPrints       \* bound: rounds of the body that are followed

VARIABLES
    hash_int,       \* hash_int(header, 0), as a function of the header
    pc,             \* the statement the program is at
    msg,            \* struct ofl_msg_flow_mod msg, on the stack
    m,              \* struct ofl_match m, on the stack
    buf,            \* the bytes ofl_msg_pack returned
    error,          \* what ofl_msg_unpack returned
    msga,           \* the message ofl_msg_unpack built
    oft,            \* the loop variable of the lookup
    chain,          \* the entries with the hash looked up that follow oft
    freed,          \* the unpacked message was freed
    printed         \* the values printed, in order

vars == <<hash_int, pc, msg, m, buf, error, msga, oft, chain, freed, printed>>

(* The fields test.c names, with their widths in the registry.             *)
Registry ==
    [OXM_OF_IP_PROTO |-> 1, OXM_OF_ETH_TYPE |-> 2, OXM_OF_TCP_SRC |-> 2,
     OXM_OF_IN_PORT |-> 4]

(* 6, 0x800, 80 and 1.                                                     *)
Stored == {6, 2048, 80, 1}

W == INSTANCE OxmWire WITH
        FieldWidth <- Registry, Values <- Stored, Masks <- {},
        PacketFieldPool <- {}, MaxEntries <- Cardinality(DOMAIN Registry),
        match <- m, asked <- EmptyBag

-----------------------------------------------------------------------------
(* Slip: TCP_SRC, a field of two bytes, stored with the put of one.        *)
BuiltMatch_tcp_put8 ==
    LET m1 == W!ofl_structs_match_put8(W!ofl_structs_match_init,
                                       W!OXM_HEADER("OXM_OF_IP_PROTO"), 6)
        m2 == W!ofl_structs_match_put16(m1, W!OXM_HEADER("OXM_OF_ETH_TYPE"), 2048)
        m3 == W!ofl_structs_match_put8(m2, W!OXM_HEADER("OXM_OF_TCP_SRC"), 80)
    IN  W!ofl_structs_match_put32(m3, W!OXM_HEADER("OXM_OF_IN_PORT"), 1)

(* The match after ofl_structs_match_init and the four puts.               *)
BuiltMatch ==
    LET m1 == W!ofl_structs_match_put8(W!ofl_structs_match_init,
                                       W!OXM_HEADER("OXM_OF_IP_PROTO"), 6)
        m2 == W!ofl_structs_match_put16(m1, W!OXM_HEADER("OXM_OF_ETH_TYPE"), 2048)
        m3 == W!ofl_structs_match_put16(m2, W!OXM_HEADER("OXM_OF_TCP_SRC"), 80)
    IN  W!ofl_structs_match_put32(m3, W!OXM_HEADER("OXM_OF_IN_PORT"), 1)

(* Slip: the hash of another field of the same width.                      *)
LookupHeader_tcp == W!OXM_HEADER("OXM_OF_TCP_SRC")

(* The field whose hash the loop asks for.                                 *)
LookupHeader == W!OXM_HEADER("OXM_OF_ETH_TYPE")

(* hmap_first_with_hash and hmap_next_with_hash: the entries that were     *)
(* inserted with the hash of 'header'.                                     *)
WithHash(match, header) ==
    { tlv \in BagToSet(match.match_fields) : hash_int[tlv.header] = hash_int[header] }

(* A read through a pointer into the unpacked message.                     *)
Read(now, anything) == IF freed THEN anything ELSE {now}

(* memcpy(&value, oft->value, sizeof(uint16_t)): the value of an entry of  *)
(* two bytes; one half of a longer one; of a shorter one, or of one that   *)
(* was freed, whatever the two bytes hold.                                 *)
Copied(tlv) ==
    CASE freed \/ tlv.size < 2 -> Stored \cup {Garbage}
      [] tlv.size = 2 -> {tlv.value}
      [] OTHER -> {tlv.value, Garbage}

(* The instruction test.c builds: WRITE_ACTIONS with one output action to  *)
(* port 1.                                                                 *)
WriteActions ==
    [type |-> "OFPIT_WRITE_ACTIONS", actions |-> <<[type |-> "OFPAT_OUTPUT", port |-> 1]>>]

-----------------------------------------------------------------------------
Headers == { W!OXM_HEADER(f) : f \in DOMAIN Registry }

(* The initialiser of msg; instructions_num is the length of instructions. *)
Init ==
    /\ hash_int \in [Headers -> Hashes]
    /\ pc = "build"
    /\ msg = [type |-> "OFPT_FLOW_MOD", cookie |-> 0, cookie_mask |-> 0,
              table_id |-> 255, command |-> "OFPFC_ADD", idle_timeout |-> 0,
              hard_timeout |-> 0, priority |-> 32768, buffer_id |-> "0xffffffff",
              out_port |-> "OFPP_ANY", out_group |-> "OFPG_ANY", flags |-> 0,
              match |-> NULL, instructions |-> <<>>]
    /\ m = NULL /\ buf = NULL /\ msga = NULL /\ oft = NULL
    /\ error = W!NoError
    /\ chain = <<>>
    /\ freed = FALSE
    /\ printed = <<>>

BuildMatch ==
    /\ pc = "build"
    /\ m' = BuiltMatch
    /\ msg' = [msg EXCEPT !.match = BuiltMatch]
    /\ pc' = "instr"
    /\ UNCHANGED <<hash_int, buf, error, msga, oft, chain, freed, printed>>

(* The instruction and its action are allocated, filled and hung into msg. *)
BuildInstructions ==
    /\ pc = "instr"
    /\ msg' = [msg EXCEPT !.instructions = Append(@, WriteActions)]
    /\ pc' = "pack"
    /\ UNCHANGED <<hash_int, m, buf, error, msga, oft, chain, freed, printed>>

(* ofl_msg_pack: the match is written in the order the walk of its hash    *)
(* map gives.                                                              *)
PackMsg ==
    /\ pc = "pack"
    /\ \E order \in W!IterationOrders(msg.match.match_fields) :
        buf' = [msg EXCEPT !.match = W!ofl_structs_match_pack(@, order)]
    /\ pc' = "unpack"
    /\ UNCHANGED <<hash_int, msg, m, error, msga, oft, chain, freed, printed>>

(* ofl_msg_unpack and the test of its result: an error is printed and the  *)
(* program is over, or the lookup begins.                                  *)
UnpackMsg ==
    /\ pc = "unpack"
    /\ LET r == W!ofl_structs_match_unpack(buf.match) IN
        /\ error' = r.error
        /\ msga' = IF r.error = W!NoError THEN [buf EXCEPT !.match = r.match] ELSE NULL
        /\ pc' = IF r.error = W!NoError THEN "first" ELSE "done"
    /\ UNCHANGED <<hash_int, msg, m, buf, oft, chain, freed, printed>>

(* The first clause of HMAP_FOR_EACH_WITH_HASH.                            *)
LoopFirst ==
    /\ pc = "first"
    /\ \E found \in SetToSeqs(WithHash(msga.match, LookupHeader)) :
        /\ oft' = IF found = <<>> THEN NULL ELSE Head(found)
        /\ chain' = IF found = <<>> THEN <<>> ELSE Tail(found)
    /\ pc' = "test"
    /\ UNCHANGED <<hash_int, msg, m, buf, error, msga, freed, printed>>

(* The second clause.                                                      *)
LoopTest ==
    /\ pc = "test"
    /\ pc' = IF oft = NULL THEN "done" ELSE "body"
    /\ UNCHANGED <<hash_int, msg, m, buf, error, msga, oft, chain, freed, printed>>

(* The body: the value is copied out of oft->value and printed, then the   *)
(* message is freed.                                                       *)
LoopBody ==
    /\ pc = "body"
    /\ Len(printed) < MaxPrints
    /\ \E value \in Copied(oft) : printed' = Append(printed, value)
    /\ freed' = TRUE
    /\ pc' = "next"
    /\ UNCHANGED <<hash_int, msg, m, buf, error, msga, oft, chain>>

(* The third clause: hmap_next_with_hash reads oft->hmap_node.             *)
LoopNext ==
    /\ pc = "next"
    /\ oft' \in Read(IF chain = <<>> THEN NULL ELSE Head(chain),
                     BagToSet(m.match_fields) \cup {NULL})
    /\ chain' = IF chain = <<>> THEN <<>> ELSE Tail(chain)
    /\ pc' = "test"
    /\ UNCHANGED <<hash_int, msg, m, buf, error, msga, freed, printed>>

Next ==
    \/ BuildMatch \/ BuildInstructions \/ PackMsg \/ UnpackMsg
    \/ LoopFirst \/ LoopTest \/ LoopBody \/ LoopNext

Spec == Init /\ [][Next]_vars

-----------------------------------------------------------------------------
Tlvs == [header : Headers,
         size : 1 .. 4, value : Stored, mask : {NoMask}]

TypeOK ==
    /\ hash_int \in [Headers -> Hashes]
    /\ pc \in {"build", "instr", "pack", "unpack", "first", "test", "body", "next", "done"}
    /\ m # NULL => m.type = "OFPMT_OXM" /\ BagToSet(m.match_fields) \subseteq Tlvs
    /\ msg.match \in {NULL, m} /\ Len(msg.instructions) <= 1
    /\ buf # NULL => buf.match.type = m.type /\ buf.match.pad \in 0 .. 7
    /\ msga # NULL => BagToSet(msga.match.match_fields) \subseteq Tlvs
    /\ oft \in Tlvs \cup {NULL}
    /\ chain \in Seq(Tlvs)
    /\ freed \in BOOLEAN
    /\ printed \in Seq(Stored \cup {Garbage})

(* Section 8 of the specification: a match built by puts of distinct       *)
(* fields comes back from unpack(pack(M)) with the same entries.  Here:    *)
(* ofl_msg_unpack of what ofl_msg_pack wrote reports no error, and the     *)
(* match it builds is the match test.c built, length and buffers included, *)
(* in whatever order the hash map handed the four entries to pack.         *)
RoundTrip ==
    pc \notin {"build", "instr", "pack", "unpack"} =>
        /\ error = W!NoError
        /\ ~freed => msga = msg

(* Another field of the match has the hash of the field looked up.        *)
Collision ==
    \E tlv \in BagToSet(m.match_fields) :
        tlv.header # LookupHeader /\ hash_int[tlv.header] = hash_int[LookupHeader]

(* The lookup of test.c finds what line 21 stored: the first value the     *)
(* loop prints is the 0x800 put for ETH_TYPE, after the way through pack,  *)
(* unpack and the hash map.  The loop never compares oft->header with the  *)
(* field it asked for, so this holds as long as no other field of the      *)
(* match has the hash of ETH_TYPE, and in no other case may it fail.       *)
LookupFindsEthType == printed # <<>> => printed[1] = 2048 \/ Collision

(* The loop of test.c works on memory that is still allocated: its body    *)
(* reads oft->value and its third clause reads oft->hmap_node, so at both  *)
(* the message that owns oft must not have been freed.                     *)
NoUseAfterFree == pc \in {"body", "next"} => ~freed

=============================================================================
