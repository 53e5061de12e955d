# TLA+ models of the of12softswitch message core

This directory holds TLA+ specifications of the parts of the CPqD OpenFlow 1.2
software switch that are in `src/`, the TLC configurations that check them and
`PROJECT.json`, which lists every component, run, mutant, mapped definition,
finding and hazard. Run a model with

    tlc -workers 2 -config <run>.cfg <MCmodule>

## 1. Inventory

The repository slice is a sequential C library: nothing in it runs
concurrently, nothing is persisted and nothing is sent. What is hard in it is
(a) bit and width arithmetic, (b) pointer structures whose operations have
unchecked caller contracts, (c) accumulators that must stay in step with the
collection they summarise and (d) dispatch tables that must cover every case.

| component | source | state | operations | interacts with |
|---|---|---|---|---|
| Tag | `lib/tag.h` | none (a `uint32_t` with two bits set) | `tag_intersects`, `tag_is_valid`; `tag_create_random`, `tag_create_deterministic` (declared only) | used by TagSet and by the flow tracking |
| TagSet | `lib/tag.h` | `total`, `tags[4]`, `n` | `tag_set_is_empty`, `tag_set_intersects`; `tag_set_init`, `tag_set_add` (declared only) | calls `tag_intersects`; owned by one flow-tracking record |
| Match engine | `oflib/ofl-structs-match.c` | `header.type`, `header.length` (`uint16_t`), `match_fields` (hash map of TLVs: header, value buffer) | `ofl_structs_match_init`, twelve `ofl_structs_match_put*`, `ofl_structs_match_convert_pktf2oflm` | reads OXM headers (`OXM_VENDOR`, `OXM_LENGTH`); its `length` is what pack and `ofp_total_len` (outside `src/`) trust |
| Field registry | outside `src/` (`oxm-match.h`) | static table: field, width, maskable | lookup | the headers the match engine is given |
| Doubly linked list | `lib/list_t.c`, `lib/list_t.h` | `prev`, `next` of every `list_t` | `list_t_init`, `_insert`, `_splice`, `_push_front`, `_push_back`, `_replace`, `_remove`, `_pop_front`, `_pop_back`, `_front`, `_back`, `_size`, `_is_empty` | intrusive: callers embed `list_t` and own the memory |
| List iteration | `lib/list_t.h` | loop cursor `ITER`, cached `NEXT` | `LIST_FOR_EACH`, `LIST_FOR_EACH_REVERSE`, `LIST_FOR_EACH_SAFE` | the loop body is caller code that may change the list it walks |
| Message printing | `oflib/ofl-messages-print.c` | the output stream | `ofl_msg_print`, `ofl_msg_to_string`, one printer per message and statistics type | dispatches on `msg->type`; calls the experimenter callbacks `exp->msg->to_string`, `exp->stats->req_to_string`, `exp->stats->reply_to_string` when present |
| Structure types and codec interface | `oflib/ofl-structs.h` | the in-memory trees (instruction, bucket, statistics, port, queue, match) | declarations of pack/unpack/free/len/print; bodies outside `src/` | message codec, printing |
| Structure codec, message codec | outside `src/`; the functions of the structure codec are declared in `oflib/ofl-structs.h` | none between calls; inside one, the cursor, the remaining length and the count of every level | pack, unpack, `ofp_total_len`, `ofl_utils_count_ofp_*` and the unpack that follows (count-then-unpack) | described by `spec.md` only; pack and `ofp_total_len` of a match trust the `length` the puts summed |
| Experimenter hooks | `udatapath/dp_exp.h` | none | four declarations | datapath, outside `src/` |
| Flow-mod scenario | `udatapath/test.c` | a flow-mod with a four-field match | builds, packs, unpacks, looks up a field, frees | match engine, message codec, hash map |

### What is hard, per component

* **Tag** - `x & (x - 1)` on unsigned values: `0 - 1` wraps. The tests must
  answer for 0, one bit, two bits, many bits, all bits. `tag_intersects` is
  "two common bits", deliberately not "any common bit".
* **TagSet** - three pieces of state (`n`, `tags`, `total`) read by different
  functions; the array is bounded at four; `tag_set_intersects` reads all four
  slots regardless of `n`. Correct means: no tag added goes unnoticed; a
  slot never written answers for nothing; an empty set matches nothing.
* **Match engine** - `header.length` is a running sum kept beside the
  collection; the puts neither check for a field already present nor that the
  width of the put agrees with the length in the OXM header;
  `convert_pktf2oflm` dispatches on the header's length and drops lengths it
  has no case for. Correct means: `length` equals the bytes the entries take on
  the wire; each entry's buffer is as long as its header says; conversion
  forwards every field of the basic class and nothing else.
* **List** - six pointer writes per operation in an order that matters;
  `list_t_remove` leaves the removed element's own pointers in place;
  `list_t_replace` leaves `position` pointing into the list; `list_t_splice`
  moves a range between lists. Correct means: `prev` and `next` stay inverse,
  every element is in at most one list, and each operation does to the walk
  from the head what the corresponding sequence operation does.
* **List iteration** - the loop reads `ITER->next` after the body ran
  (`LIST_FOR_EACH`) or before it (`LIST_FOR_EACH_SAFE`); a body that removes
  elements makes one or the other read stale.
* **Match on the wire** - pack writes the entries in the order a walk of the
  hash map meets them and declares the length the puts summed; unpack consumes
  that length entry by entry with payload sizes taken from the registry.
  Correct means: unpack builds the match that was packed, whatever the order,
  and refuses a buffer that ends early or declares a length that ends inside
  a TLV.
* **Count-then-unpack** - the lengths that steer the scan come from the
  buffer: one that is zero, or larger than what is left, must stop the call
  and not the process; a record refused inside another is found after memory
  was allocated for what came before it.
* **Flow-mod scenario** - a pointer into the unpacked message is held across
  the call that frees the message; the lookup by hash never compares the
  header of the entry it meets.
* **Message printing** - a dispatch over 23 message types and 9 statistics
  types with three optional callbacks, each behind a three-part null test;
  separators inside lists depend on `i < num - 1` on unsigned `num`.

The hazards are listed one by one, with their lines, in `PROJECT.json`. The
list holds what code under `src/` is exposed to. What the modules written
from the specification guard against (a damaged match on the wire, the order
of a packed match, the lengths that steer count-then-unpack) is checked by
their runs and is not listed as a hazard of this code: the lines in `src/`
are prototypes.

## 2. Plan

Order: the state the switch's correctness rests on first, diagnostics last.

1. `Tag`, `TagPair`, `TagSet` - tags and tag sets. *(done)*
2. `OflMatch` - the match engine of `ofl-structs-match.c`. *(done)*
3. `ListT` with the abstract `ListSeq` - the list of `list_t.c` refining
   sequences. *(done)*
4. `ListIter` - the three iteration macros with a body that removes elements,
   composed with `ListT`. *(done)*
5. `OflMsgPrint` - dispatch, callbacks and list separators of
   `ofl-messages-print.c`, output abstracted to tokens. *(done)*
6. `OxmWire` - pack, unpack and `ofp_total_len` of a match as section 4.3 of
   the specification describes them (not in `src/`), composed with `OflMatch`:
   round trip in every order of the entries, the 16-bit `length` at its
   limit. *(done)*
7. `FlowModTest` - the scenario of `test.c` over `OflMatch` and `OxmWire`: the
   looked-up field is used after the message that owns it was freed. *(done)*
8. `OflUnpack` - count-then-unpack, the algorithm the unpack functions of
   the structures declared in `ofl-structs.h` share, as sections 4.4 and 7 of
   the specification describe it (not in `src/`), over buffers with every
   header right or wrong. *(done)*
9. The fields of the single structures and the message codec (header,
   dispatch of `ofl_msg_pack` and `ofl_msg_unpack`, backpatch of the
   length). No line of it is in `src/`; see section 7. *(not planned)*

Abstract specifications: `ListSeq` (lists as sequences) for `ListT`; the
history variable `added` for `TagSet`; the multiset of fields asked for
(`asked`) for `OflMatch`; the trees pack can write (`Packed`) for
`OflUnpack`.

## 3. Modules

### Tag, TagPair (lib/tag.h)

`Tag` has no variables. `tag_type` is `0 .. 2^TAG_BITS - 1`; `Decr` is the
unsigned `x - 1`; `tag_intersects` and `tag_is_valid` are the expressions of
`tag.h` over the `&` of the community module `Bitwise`. `tag_create_random`
is the set of values with two bits set, which is all the declaration and the
specification say about the two constructors. `BitsOf`, `PopCount` are the
reference definitions.

`TagPair` applies the two tests to every pair: `a` and `b` are replaced by any
value at any time (`Retag`, `Retest`). It has no type invariant: its two
variables only ever take values of `tag_type`.

### TagSet (lib/tag.h)

| model | code |
|---|---|
| `total`, `tags`, `n` | the fields of `struct tag_set` |
| `added` | history variable: the tags added since `tag_set_init` |
| `tag_set_is_empty`, `tag_set_intersects(q)` | the inline functions, `tag.h:132-149` |
| `tag_set_init`, `AddAppend`, `AddOverflow`, `tag_set_add` | declared in `tag.h:125-126`, modelled from the specification |

`FoldOnOverflow` selects between the two readings the specification gives of
an add on a full array (section 4.1: OR into `total` only; section 3: "OR into
an overflow slot"). Adds take any tag of `tag_create_random`; the same tag may
be added twice. The passing run takes the reading of section 3, under which
the set keeps the promise of `tag.h`; `tagset_miss` takes the other.

### OflMatch (oflib/ofl-structs-match.c)

| model | code |
|---|---|
| `match` | a `struct ofl_match`: `header.type`, `header.length` (modulo 2^16), `match_fields` as a bag of TLVs |
| a TLV `[header, size, value, mask]` | `struct ofl_match_tlv`; `size` is the number of bytes `malloc`ed for `value`, `value` and `mask` are model values |
| `asked` | history variable: the bag of (header, value, mask) the callers asked to be put since the last init |
| `ofl_structs_match_init`, `ofl_structs_match_put8` ... `put_ipv6m` | the functions of the same names, each with its own width, buffer size and increment of `length` |
| `ConvertField`, `ofl_structs_match_convert_pktf2oflm` | the body and the loop of the conversion: the vendor test, then the switch on `OXM_LENGTH` |
| `Put8` ... `PutIpv6m`, `Convert`, `Reinit` | one call each |

An OXM header is a record `[vendor, field, hasmask, length]`; `OXM_VENDOR` and
`OXM_LENGTH` read it (the macros themselves are outside `src/`). A put is
given any header whose length is the width of that put, which is what every
caller in the repository does; the puts themselves check nothing. `Convert`
is given any non-empty subset of a pool of packet fields that holds widths
with a case in the switch, one without (3 bytes) and a field of the
experimenter class. The order in which the hash map of packet fields is
walked does not matter to the result, so the fold over the set is one step.

### ListT, ListSeq (lib/list_t.c, lib/list_t.h)

| model | code |
|---|---|
| `next[x]`, `prev[x]` | `x->next`, `x->prev` of every `struct list_t`; `Unset` before the first write |
| `ret` | the node returned by the last call that returns one |
| `list_t_init` ... `list_t_is_empty` | the functions of the same names as operators from memory to memory, their pointer writes in the order of the source, each reading what the earlier ones wrote |
| `ListInit`, `Insert`, `Splice`, `PushFront`, `PushBack`, `Replace`, `RemoveElem`, `PopFront`, `PopBack`, `FrontOf`, `BackOf` | one call each |

The code checks no precondition. The guards of the actions are the contracts
of the comments in `list_t.c`: an element inserted is not in a list, an
element removed is, a range spliced lies in one list and does not contain the
place it is moved to, `front`, `back` and the pops are not called on an empty
list. Elements keep the pointers they had when they left a list and come back
with them.

`ListSeq` is what the comments of `list_t.c` promise, over one sequence per
head. `ListT` implements it under the mapping `seqs[h] = Walk(h)`, the walk
from `h` along `next`, and `result = ret`.

### ListIter (lib/list_t.h)

| model | code |
|---|---|
| `macro`, `pc` | which of the three loops runs and at which clause of its `for` statement it is |
| `ITER`, `NEXT` | the loop variables |
| `Enter(m)`, `Test`, `Step` | the first, second and third clause; `Test` of `LIST_FOR_EACH_SAFE` first reads `NEXT = ITER->next`, also when `ITER` is the head |
| `BodyKeeps`, `BodyRemoves(elem)` | the caller's body: it looks at `ITER`, and may `list_t_remove` one element and free it |
| `Fill(elem)` | between loops, `list_t_push_back` of a node that is not in the list, new or freed before |
| `freed`, `seen` | the nodes freed and not allocated again; the nodes the body has run for |

The module instantiates `ListT` over the same `next`, `prev` and `ret` and
uses its actions for the calls. A read of a pointer of a node that was freed,
or of a pointer that was never written, can give any node (`Read`). What a
body may remove is the contract of its macro (`Removable`): not `ITER` in
`LIST_FOR_EACH` and `LIST_FOR_EACH_REVERSE`, not `NEXT` in
`LIST_FOR_EACH_SAFE`. The body of a `_SAFE` loop removes `ITER` without
knowing whether it still is in the list: when an earlier round removed it,
`list_t_remove` goes through the pointers that round left.

### OflMsgPrint (oflib/ofl-messages-print.c)

| model | code |
|---|---|
| `msg` | the message: its `type`, for statistics its statistics type, and `num`, the length of the array the printer loops over |
| `exp` | the `struct ofl_exp`: `NULL`, or its `msg` and `stats` parts, each `NULL` or a record whose callbacks are `NULL` or present |
| `str` | the text written, as a sequence of tokens: brackets, commas, quoted and bare values, nested structures, the marks of the callbacks |
| `called` | the callbacks called by the last print |
| `ofl_msg_print_error` ... `ofl_msg_print_queue_get_config_reply` | the printers, each the tokens it writes in order |
| `ofl_msg_print`, `ofl_msg_to_string` | the dispatch over `msg->type` and the wrapper that returns the text |
| `PrintSimple`, `PrintExperimenterMsg`, `PrintStats` | one call of `ofl_msg_to_string` each |

Wording and number formats are left out; what is kept of the text is what the
properties are about: where a bracket opens and closes, where a separator
stands, which value is in quotes. `Deref` is the read of a field through a
pointer that may be `NULL`.

### OxmWire (declared in oflib/ofl-structs.h, bodies outside src/)

`OxmWire` extends `OflMatch` and adds no state. Its operators are written
from section 4.3 of the specification; the puts they call are the code's.

| model | specification |
|---|---|
| `ofl_structs_match_ofp_total_len(m)` | "the wire length including the 8-byte-alignment padding", from the declared length |
| `IterationOrders(fields)` | "each entry in iteration order": every order of the entries of the hash map |
| `ofl_structs_match_pack(m, order)` | a wire match `[type, length, oxm_fields, pad]`: the header, the TLVs in that order, zero bytes up to a multiple of eight |
| `ReadFields`, `ofl_structs_match_unpack(wire)` | header after header until the declared length is used up, payload sizes from the registry and the mask bit, each entry stored by the put of its width (`PutByWidth`); an error and no match for an unknown field, a length that ends inside a header, or a buffer that ends before the length |

Bytes are counted, not written: a TLV on the wire is its header, value and
mask, and takes `4 + OXM_LENGTH(header)` bytes.

### OflUnpack (declared in oflib/ofl-structs.h, bodies outside src/)

Written from section 4.4 (count-then-unpack) and section 7 (errors) of the
specification. Lengths are counted in headers: a record of length 1 is a bare
header. A record is `plain` (a header and a payload) or `nested` (a header
and a run of records, as an instruction holds actions).

| model | specification |
|---|---|
| `data`, `data_len` | the buffer and the range of it to unpack; `data[o]` is the header a read at offset `o` finds, and every buffer is an initial state |
| `stack` | the calls in progress, one frame each: the range (`from`, `room`), the pass, the cursor `at`, the remaining length `left`, the `count`, the records unpacked (`recs`) |
| `Counts(hdr)`, `Refuses(hdr)` | one round of the count loop: "validating that no record's declared length exceeds the remaining bytes" (`Refusal`), then on by the declared length |
| `Allocate` | "then allocates a correctly-sized owned sequence": the pass changes and the cursor goes back to the first record |
| `UnpackPlain(hdr)`, `Descend(hdr)`, `Ascend` | "unpacks each record in a second pass"; a record that holds records is a call on its body, whose array becomes the record |
| `Fail(kind)` | the error goes up unchanged through every level and "no partial tree is returned": the model has it so by construction, and no property is spent on it |
| `Return`, `Release` | the outermost call hands out the tree; the caller frees it |
| `pc`, `dst`, `error` | whether a call runs, the tree and the error it returned |

`left` and `count` are `size_t` and wrap at `SizeWrap`. A read past the end
of the buffer gives any header (`Peek`). The reference the result is compared
with is not a scan: `Records` and `Trees` build every tree that fits,
`Written` says which headers pack writes for a tree and where, and `Packed`
is the set of trees whose packing is the buffer.

### FlowModTest (udatapath/test.c)

| model | code |
|---|---|
| `pc` | the statement the program is at |
| `msg` | the flow-mod on the stack, with the fields of its initialiser (lines 2-17); `instructions_num` is the length of `instructions` |
| `hash_int` | `hash_int(header, 0)`: outside `src/`, so any function of the four headers, chosen by `Init` and never changed |
| `m`, `buf`, `error`, `msga`, `oft` | the variables of the same names |
| `chain` | the entries `hmap_next_with_hash` will still return |
| `freed` | `ofl_msg_free_flow_mod` was called on the unpacked message |
| `printed` | what `printf("VALUE %x")` wrote |
| `BuildMatch` | lines 18-24: `ofl_structs_match_init`, the four puts, `msg.match` |
| `BuildInstructions` | lines 26-41: the `WRITE_ACTIONS` instruction with its output action to port 1, hung into `msg` |
| `PackMsg` | lines 42-44: `ofl_msg_pack`, the match in some order of its hash map |
| `UnpackMsg` | lines 47-55: `ofl_msg_unpack` and the test of `error` |
| `LoopFirst`, `LoopTest`, `LoopNext` | the three clauses of `HMAP_FOR_EACH_WITH_HASH`, lines 56-57 |
| `LoopBody` | lines 58-61: the copy out of `oft->value`, the print, the free |

A read through `oft` after the free is undefined: `Copied` lets the body
print the value that was there, any other value of the match or garbage, and
`Read` lets the third clause find any entry or `NULL`. The `memcpy` of the
body takes two bytes whatever entry it was handed: of an entry of four bytes
one half of the value, of an entry of one byte the byte behind its buffer
too (`Copied`). Two fields may have one hash; the lookup then meets both, in
either order. The scalar fields and the instruction go through pack and
unpack as values (their wire layout has no line in `src/`); the xid is left
out. Every allocation of the program is taken to give memory.

## 4. Runs

| run | module / cfg | checks | result |
|---|---|---|---|
| `tag_pair` | `MCTagPair` / `MCTagPair.cfg` | `IntersectsIffCommonTag`, `ValidIffTwoBits` | pass, 4096 states |
| `tagset` | `MCTagSet` / `MCTagSet.cfg` | `NoFalseNegative`, `StoredTagsAnswerExactly`, `EmptyMatchesNothing`, `TypeOK` | pass, 405 501 states |
| `tagset_miss` | `MCTagSet` / `MCTagSetMiss.cfg` | `NoFalseNegative` | violated after five adds |
| `match_puts` | `MCOxmWire` / `MCOxmWire.cfg` | `LengthIsWireBytes`, `BufferIsWhatHeaderDeclares`, `MatchHoldsWhatWasAsked`, `UnpackInvertsPack`, `DamagedWireIsRefused`, `TypeOK` | pass, 2925 states |
| `match_wrap` | `MCOflMatchWrap` / `MCOflMatchWrap.cfg` | `LengthIsWireBytes` | violated after 3277 puts |
| `flow_mod` | `MCFlowModTest` / `MCFlowModTest.cfg` | `RoundTrip`, `LookupFindsEthType`, `TypeOK` | pass, 245 712 states |
| `flow_mod_free` | `MCFlowModTest` / `MCFlowModTestFree.cfg` | `NoUseAfterFree` | violated in the first round of the loop |
| `list_refines` | `MCListT` / `MCListT.cfg` | `WellFormed`, `BothWaysAgree`, `TypeOK`, `ImplementsListSeq` | pass, 30 709 states up to symmetry |
| `list_iter` | `MCListIter` / `MCListIter.cfg` | `NoUseAfterFree`, `EachElementOnce`, `ListSurvivesLoop`, `TypeOK`, `LoopEnds` | pass, 25 425 states |
| `print_dispatch` | `MCOflMsgPrint` / `MCOflMsgPrint.cfg` | `CallbackWhenGiven`, `BracketsBalanced`, `ElementsSeparated`, `TypeOK` | pass, 992 states |
| `print_text` | `MCOflMsgPrint` / `MCOflMsgPrintText.cfg` | `TextReadsBack` | violated by one print |
| `unpack_records` | `MCOflUnpack` / `MCOflUnpack.cfg` | `CallsStayInside`, `UnpackInvertsPack`, `TypeOK`, `EveryUnpackEnds` | pass, 9136 states |

What the passing runs show:

* `tagset` - with an add on a full array that ORs the tag into a slot as well
  as into `total`, no tag added since `tag_set_init` tests as absent, and
  `tag_set_is_empty` agrees with
  `tag_set_intersects` through adds and re-initialisation. As long as no add
  found the array full, a single tag intersects exactly when it was added:
  the slots read beyond `n` answer for nothing.
* `match_puts` - after any sequence of puts and conversions `header.length`
  is the sum over the entries of four bytes and the payload, twice the payload
  for a masked entry; every buffer is as long as its header says, twice for a
  masked one; the match holds exactly what was asked for, and a conversion
  adds exactly the packet fields of the basic class whose length has a case.
  Packed in any order of its entries and unpacked, the match comes back as it
  was, entries put twice included: the puts count both, pack writes both and
  unpack reads both, so the double entry that section 9 of the specification
  expects to "corrupt `ofp_total_len`" leaves length and bytes in step. What
  it breaks is the invariant "at most one entry per field id" of section 3,
  which the puts (`hmap_insert` without a lookup, `ofl-structs-match.c:54`)
  leave to their callers. The fault model of the run is a buffer damaged on
  its way: for every match, every order, the run of TLVs cut after any of
  them and every length from 0 to four bytes past the true one in the header,
  unpack reports no error exactly when the declared length ends where a TLV
  that is there ends, and then gives a match of that length; everything else
  is an error and no match.
* `flow_mod` - in each of the 24 orders in which the hash map can hand the
  four entries to pack, `ofl_msg_unpack` reports no error and builds the
  message `test.c` built. For each of the sixteen functions `hash_int` can be
  over two values, the first value the loop prints is the `0x800` stored for
  `ETH_TYPE` unless another field of the match has the hash of `ETH_TYPE`:
  the loop does not compare `oft->header`, so with such a field it can print
  that field's value, or for `IP_PROTO` a byte from behind the buffer. Whether
  two of the four headers share a hash is up to `hash_int`, which is not in
  `src/`. What is printed after the free, if the loop goes on, can be
  anything.
* `list_refines` - every list stays a ring in both directions, no element is
  in two lists, the walk back is the walk forth reversed, and every call does
  to the walks what `ListSeq` says it does to the sequences.
* `list_iter` - no loop reads a freed node or runs its body for one, every
  element still in the list when the loop ends had its turn exactly once, no
  loop hands its body a node that an earlier round removed (a second
  `list_t_remove` of it would break the ring, which `list_t.c:104` leaves
  undefined), and every loop ends.
* `print_dispatch` - a callback is called exactly when the three-part test in
  front of it says it is there, and never through a `NULL`; every bracket a
  printer opens is closed by the matching one, for every message type and
  every `num`; the elements of a list are separated and the last one is not
  followed by a separator.

* `unpack_records` - for each of the 512 buffers of three units and every
  range of it, headers with any kind and any length from 0 to 3 at every
  offset: every call reads inside the range it was given and an inner call
  inside the record it is about; the call returns a tree exactly when some
  tree packs to the bytes, there is one such tree and it is the one returned;
  every call ends. The test that ends
  a call on a record of length zero is not among those section 4.4 lists
  ("no record's declared length exceeds the remaining bytes"); the model
  takes it from the "inconsistent length fields" of section 7, and without it
  (`Refusal_short`) the count loop runs for ever.

The four disagreements:

* `tagset_miss` - `tag_set_intersects` (`tag.h:144-148`) wants one of the four
  slots to intersect the tag. If `tag_set_add` leaves the array alone once it
  is full, as section 4.1 of the specification says, then after adding 3, 3,
  3, 3, 5 (bits {0,1} four times, then {0,2}) `total` is 7 and accepts 5, no
  slot does, and the set answers that 5 is absent, against section 8 of the
  specification and the comment of `tag.h` on combinations. Under the reading
  of section 3 the property holds.
* `match_wrap` - `match->header.length` is a `uint16_t` that every put
  advances by `len + 4` (`ofl-structs-match.c:55`) without a test, and no put
  looks for its field in the map or in the registry, so the library puts no
  bound on the number of entries. After 3277 puts of a 16-byte field the map
  holds 65 540 bytes of TLVs and `length` is 4. Section 3 of the
  specification makes `length` the sum over the entries and the authority for
  the wire length: pack would declare and allocate 8 bytes.
* `flow_mod_free` - `ofl_msg_free_flow_mod(f, true, false, NULL)`
  (`test.c:61`) is inside the body of the `HMAP_FOR_EACH_WITH_HASH` loop over
  `f`'s own match. It frees the TLV `oft` points to; the third clause of the
  loop then reads `oft->hmap_node`. The loop may end, or run its body again
  on freed memory and free the message a second time.
* `print_text` - the printers write `name="value"` pairs separated by `", "`.
  `ofl_msg_print_queue_get_config_reply` (`ofl-messages-print.c:493`) closes
  the quote of `port` and goes on with ` queues=[` without the comma, and
  `ofl_msg_print_stats_request_flow` (`:232`) writes a closing quote after
  `cookie` and `mask` values that have no opening one: a reader that splits the text at
  the separators and quotes does not get the fields back.

## 5. Bounds

* `TAG_BITS`: 32 in the code, 6 in `tag_pair` and 5 in the tag set runs. The
  tests of `tag.h` treat all bit positions alike and look at no more than the
  three lowest 1-bits of a value, so every case (no bit, one, two, three or
  more, all) occurs with five bits; the wrap of `0 - 1` is modelled at the
  model's width.
* `MaxAdds = 5`: four adds fill the array, the fifth overflows it.
* `MaxEntries = 3` entries in a match: enough for two entries of one field
  beside one of another, and for a conversion of three fields. One field of
  each width the puts know (1, 2, 4, 6, 8, 16 bytes), two values, one mask.
  With three entries `length` stays far below 2^16. `match_wrap` reaches the
  wrap at the code's own width: one field of 16 bytes, one value, and
  `MaxEntries = 65536 / 20 + 1 = 3277`. Only the number and the width of the
  entries matter to the sum, so the entries are copies of one another and the
  run has one state per number of entries.
* `flow_mod`: the program has no input. The orders of the hash map are all
  24; `Hashes = {0, 1}` makes `hash_int` one of sixteen functions, in which
  `ETH_TYPE` has a hash of its own or shares it with any of the other
  fields; `MaxPrints = 2`
  rounds of the body are followed, the first on live memory and one on freed
  memory.
* Lists: two heads and four elements in `list_refines` (a splice between two
  lists and within one, with a range of one, of two and of no elements, and
  with an element left on either side of the range); the functions of
  `list_t.c` compare nodes and nothing else, so the four elements are a
  symmetry set (`ElemSymmetry`), which is sound for the invariants and the
  refinement, both safety properties. The heads are not in it: `Init` and
  `ListSeq` choose among them. One head and three elements in `list_iter`
  (a node before the cursor, the cursor, a node after it). `MaxWalk`, the number of nodes, bounds every
  walk along pointers: a walk that has not come back by then never does.
* `MaxLen = 3` units of buffer in `unpack_records`: room for a record after
  a record that holds one, for a record refused inside another whose
  neighbour was unpacked before, for a record in a record in a record, and
  for declared lengths that are zero, right, one too long and past the
  buffer. `SizeWrap = 8` stands for the 2^64 of `size_t`: it is reached only
  where a subtraction goes below zero.
* `MaxNum = 2`: arrays of 0, 1 and 2 elements in the printers: no element, a
  last element that is also the first, an element followed by a separator.

## 6. Fairness and deadlock

`list_iter` and `unpack_records` check liveness. `ListIter` assumes weak
fairness of `Iterate`, the clauses and the body of a loop that was entered:
the program is sequential and does not stop between two clauses of a `for`
statement. Nothing is assumed of `Fill` and `Enter`; a caller need not start
a loop. `OflUnpack` assumes weak fairness of `Decode`, the steps of a call
that was made: section 5 of the specification has no blocking and no
cancellation, a call runs until it returns. Nothing is assumed of `Unpack`
and `Release`, which are the caller's. No symmetry set is used in these
runs.

Every library module has an operation that is always enabled
(re-initialisation, a print, a push or the start of a loop), so deadlock is
checked in their runs. `FlowModTest` is a program that ends (after the
lookup, or after printing the error of `ofl_msg_unpack`): its two runs do not
check deadlock.

## 7. Not modelled

* The fields of the structures other than the match, the experimenter
  callbacks of the structure codec, and the message codec (sections 4.4 and
  4.5 of the specification): no line of them is in `src/`, and the
  specification names them without their layouts. What the specification
  does describe step by step, count-then-unpack, is `OflUnpack`; its records
  are a kind and a length. Of the flow-mod of `test.c` only the match goes
  through `OxmWire`; its other fields and its instruction are values that
  pack and unpack hand on.
* The hash map, `hash_int` and the OXM macros, outside `src/`: a bag of
  entries, walks in any order, any hash function, and records read by field.
* `tag.c`: `tag_create_random` and `tag_create_deterministic` are the set of
  values they may return.
* Failure of `malloc`. The puts test neither of their two calls
  (`ofl-structs-match.c:47` and `:51` in `ofl_structs_match_put8`, and so in
  each put): a put that gets `NULL` writes through it before it touches the
  match, so there is no state after the failure to check anything in, and no
  error path to follow. Section 5 of the specification wants every failure
  returned as an error; the puts return `void`.
* Failure of `open_memstream` in `ofl_msg_to_string`
  (`ofl-messages-print.c:507`), which is not tested either: the printers
  would write through a `NULL` stream.
* The structure printers called by the message printers
  (`ofl_structs_*_print`, declared in `ofl-structs.h`): a nested structure is
  one token of the text.
* The wording and number formatting of the printers.
* `dp_exp.h`: four declarations without behaviour.
* Callers that break the contracts of `list_t.c` on their own (inserting a
  node that is in a list, popping an empty list): undefined by its comments.
  The second removal of a node is modelled where the loops could cause it
  (`ListSurvivesLoop`).
