------------------------------ MODULE OflUnpack ------------------------------
(***************************************************************************)
(* Count-then-unpack, the algorithm the unpack functions of structures     *)
(* share.                                                                  *)
(* oflib/ofl-structs.h declares the unpack functions and the               *)
(* ofl_utils_count_ofp functions they scan with; the bodies are not in     *)
(* src/ and are written here from sections 4.4 and 7 of the specification. *)
(*                                                                         *)
(* The wire form is a flat run of records, each a header that declares the *)
(* length of the record, and no count in front.  A call first counts the   *)
(* records in the range it was given, then allocates an array of that many *)
(* and unpacks them one by one; a record that holds records itself (an     *)
(* instruction its actions, a bucket its actions) is unpacked by a call of *)
(* the same kind on its body.  The calls in progress are the frames of     *)
(* stack.                                                                  *)
(*                                                                         *)
(* Lengths are counted in headers: a record of length 1 is a bare header.  *)
(* The buffer is arbitrary: data[o] is the header a read at offset o finds.*)
(***************************************************************************)
EXTENDS Integers, Sequences, SequencesExt

CONSTANTS
    MaxLen,             \* bound: the length of the buffer
    SizeWrap            \* size_t counts modulo this

ASSUME MaxLen \in Nat /\ SizeWrap \in Nat /\ SizeWrap > MaxLen

Kinds == {"plain", "nested"}

Header == [kind : Kinds, len : 0 .. MaxLen]

NoError == "none"

Errors == {"MalformedHeader", "TruncatedBuffer"}

VARIABLES
    data,               \* the buffer
    data_len,           \* the range of it the call is to unpack
    pc,                 \* idle, busy, done or failed
    stack,              \* the calls in progress, the outermost first
    dst,                \* the tree handed to the caller
    error               \* the ofl_err returned

vars == <<data, data_len, pc, stack, dst, error>>

top == Last(stack)

(* A call on the range of 'room' units at 'from', about to count.          *)
Frame(from, room) ==
    [from |-> from, room |-> room, pass |-> "count",
     at |-> from, left |-> room, count |-> 0, recs |-> <<>>]

(* The header at offset o; past the end of the buffer, whatever is there.  *)
Peek(o) == IF o \in DOMAIN data THEN {data[o]} ELSE Header

(* Slip: the declared length is not compared with what is left.            *)
Refusal_overlong(hdr, left) == IF hdr.len = 0 THEN "MalformedHeader" ELSE NoError

(* Slip: a declared length below that of the header is let through.        *)
Refusal_short(hdr, left) == IF hdr.len > left THEN "TruncatedBuffer" ELSE NoError

(* The test of the count pass on one header: an inconsistent length field, *)
(* or a declared length that exceeds the remaining bytes.                  *)
Refusal(hdr, left) ==
    CASE hdr.len = 0 -> "MalformedHeader"
      [] hdr.len > left -> "TruncatedBuffer"
      [] OTHER -> NoError

(* Slip: the second pass goes on where the count ended.                    *)
Rewound_not == [top EXCEPT !.pass = "unpack"]

(* The call as it starts its second pass, at the first record again.       *)
Rewound == [top EXCEPT !.pass = "unpack", !.at = top.from]

(* Slip: the body of a record taken to be as long as the record.           *)
BodyOf_whole(hdr) == Frame(top.at + 1, hdr.len)

(* The call on the records a record holds: what follows its header.        *)
BodyOf(hdr) == Frame(top.at + 1, hdr.len - 1)

(* The call with one more record unpacked and its cursor behind it.        *)
Unpacked(call, hdr, sub) ==
    [call EXCEPT !.recs = Append(@, [kind |-> hdr.kind, len |-> hdr.len, sub |-> sub]),
                 !.at = @ + hdr.len]

(* Where a call is: in its count loop, in its second pass, through.        *)
Counting == pc = "busy" /\ top.pass = "count"
Unpacking == pc = "busy" /\ top.pass = "unpack" /\ Len(top.recs) < top.count
Through == pc = "busy" /\ top.pass = "unpack" /\ Len(top.recs) = top.count

(* A step inside the calls: all it changes is the stack.                   *)
Step(frames) == stack' = frames /\ UNCHANGED <<data, data_len, pc, dst, error>>

-----------------------------------------------------------------------------
Init ==
    /\ data \in [0 .. MaxLen - 1 -> Header]
    /\ data_len = 0 /\ pc = "idle" /\ stack = <<>> /\ dst = <<>> /\ error = NoError

(* The outermost call, on the first len units of the buffer.               *)
Unpack(len) ==
    /\ pc = "idle"
    /\ data_len' = len /\ stack' = <<Frame(0, len)>> /\ pc' = "busy"
    /\ UNCHANGED <<data, dst, error>>

(* One round of the count loop that finds the header in order.             *)
Counts(hdr) ==
    /\ Counting /\ top.left # 0 /\ Refusal(hdr, top.left) = NoError
    /\ Step([stack EXCEPT ![Len(stack)] =
                [@ EXCEPT !.at = @ + hdr.len, !.left = (@ - hdr.len) % SizeWrap,
                          !.count = (@ + 1) % SizeWrap]])

(* The error goes up through every call unchanged, and each call frees     *)
(* what it had built.                                                      *)
Fail(kind) == pc' = "failed" /\ error' = kind /\ stack' = <<>> /\ dst' = <<>>

(* One round of the count loop that refuses the header.                    *)
Refuses(hdr) ==
    /\ Counting /\ top.left # 0 /\ Refusal(hdr, top.left) # NoError
    /\ Fail(Refusal(hdr, top.left))
    /\ UNCHANGED <<data, data_len>>

(* The count ended at the end of the range: the array of count elements is *)
(* allocated and the second pass starts.                                   *)
Allocate == Counting /\ top.left = 0 /\ Step([stack EXCEPT ![Len(stack)] = Rewound])

(* The second pass unpacks a record that holds no records.                 *)
UnpackPlain(hdr) ==
    /\ Unpacking /\ hdr.kind = "plain"
    /\ Step([stack EXCEPT ![Len(stack)] = Unpacked(top, hdr, <<>>)])

(* The second pass meets a record that holds records: a call on its body.  *)
Descend(hdr) == Unpacking /\ hdr.kind = "nested" /\ Step(Append(stack, BodyOf(hdr)))

(* An inner call is through: its array becomes the record of its caller.   *)
Ascend ==
    /\ Through /\ Len(stack) > 1
    /\ LET caller == stack[Len(stack) - 1] IN
       \E hdr \in Peek(caller.at) :
           Step(Append(SubSeq(stack, 1, Len(stack) - 2), Unpacked(caller, hdr, top.recs)))

(* The outermost call is through.                                          *)
Return ==
    /\ Through /\ Len(stack) = 1
    /\ dst' = top.recs /\ stack' = <<>> /\ pc' = "done"
    /\ UNCHANGED <<data, data_len, error>>

(* The caller frees the tree, or is done with the error.                   *)
Release ==
    /\ pc \in {"done", "failed"}
    /\ pc' = "idle" /\ stack' = <<>> /\ dst' = <<>> /\ error' = NoError
    /\ UNCHANGED <<data, data_len>>

Decode ==
    \/ \E hdr \in IF pc = "busy" THEN Peek(top.at) ELSE {} :
          Counts(hdr) \/ Refuses(hdr) \/ UnpackPlain(hdr) \/ Descend(hdr)
    \/ Allocate
    \/ Ascend
    \/ Return

Next ==
    \/ \E len \in 0 .. MaxLen : Unpack(len)
    \/ Decode
    \/ Release

(* An unpack is a function call: once made it runs until it returns.       *)
Spec == Init /\ [][Next]_vars /\ WF_vars(Decode)

-----------------------------------------------------------------------------
(* What pack can write.                                                    *)

Units(recs) == FoldLeft(LAMBDA n, rec : n + rec.len, 0, recs)

(* The runs of records of a set that fit in room units.                    *)
RunsOf(recs, room) == { run \in SeqOf(recs, room) : Units(run) <= room }

(* The records that fit in room units: a header and its payload, or a      *)
(* header and the records it holds.                                        *)
RECURSIVE Records(_)
Records(room) ==
    IF room = 0 THEN {}
    ELSE { [kind |-> "plain", len |-> n, sub |-> <<>>] : n \in 1 .. room } \cup
         { [kind |-> "nested", len |-> 1 + Units(sub), sub |-> sub] :
             sub \in RunsOf(Records(room - 1), room - 1) }

Trees == RunsOf(Records(MaxLen), MaxLen)

(* The headers pack writes for a run of records put at offset from, each   *)
(* with the offset it is written at.                                       *)
RECURSIVE Written(_, _)
Written(recs, from) ==
    IF recs = <<>> THEN {}
    ELSE {<<from, [kind |-> Head(recs).kind, len |-> Head(recs).len]>>}
         \cup Written(Head(recs).sub, from + 1)
         \cup Written(Tail(recs), from + Head(recs).len)

(* The trees whose packing is the first data_len units of the buffer.      *)
Packed ==
    { tree \in Trees : /\ Units(tree) = data_len
                       /\ \A w \in Written(tree, 0) : data[w[1]] = w[2] }

-----------------------------------------------------------------------------
Frames ==
    [from : 0 .. MaxLen, room : 0 .. MaxLen, pass : {"count", "unpack"},
     at : 0 .. MaxLen, left : 0 .. MaxLen, count : 0 .. MaxLen, recs : Trees]

TypeOK ==
    /\ data \in [0 .. MaxLen - 1 -> Header]
    /\ data_len \in 0 .. MaxLen
    /\ pc \in {"idle", "busy", "done", "failed"}
    /\ Len(stack) <= MaxLen + 1 /\ \A i \in DOMAIN stack : stack[i] \in Frames
    /\ dst \in Trees
    /\ error \in Errors \cup {NoError}

(* Section 4.4: the count validates "that no record's declared length      *)
(* exceeds the remaining bytes", at any nesting level (section 7), and "a  *)
(* corrupt length field is caught during counting, before any allocation   *)
(* sized from untrusted data occurs".  Every call reads inside the range   *)
(* it was given, an inner call inside the record its caller stands at, and *)
(* no call counts more records than it has passed units of the buffer,     *)
(* whatever the headers declare.                                           *)
CallsStayInside ==
    \A i \in DOMAIN stack :
        LET call == stack[i] IN
        /\ call.from <= call.at /\ call.at <= call.from + call.room
        /\ call.pass = "count" =>
              call.at + call.left = call.from + call.room /\ call.count <= call.at - call.from
        /\ i = 1 => call.from = 0 /\ call.room = data_len
        /\ i > 1 => LET caller == stack[i - 1] IN
                     /\ call.from = caller.at + 1
                     /\ call.from + call.room = caller.at + data[caller.at].len
                     /\ call.from + call.room <= caller.from + caller.room

(* Section 8: "unpack(pack(M)) == M", and section 7: "All decode failures  *)
(* are detected eagerly during the count-then-unpack two-pass scan".  The  *)
(* call that returns a tree returns the one tree whose packing is the      *)
(* bytes it was given; the call that returns an error was given bytes that *)
(* no tree packs to.                                                       *)
UnpackInvertsPack ==
    /\ pc = "done" => Packed = {dst}
    /\ pc = "failed" => Packed = {}

(* Section 5: "an unpack either completes or fails on the buffer given".   *)
(* The count loop ends only by using up the range: every round must take   *)
(* it nearer to the end, whatever length the header declares.              *)
EveryUnpackEnds == pc = "busy" ~> pc \in {"done", "failed"}

=============================================================================
