----------------------------- MODULE OflMsgPrint -----------------------------
(***************************************************************************)
(* The message printer of oflib/ofl-messages-print.c.  ofl_msg_print       *)
(* writes the name of the message type and dispatches on the type to one   *)
(* printer per message; statistics requests and replies dispatch a second  *)
(* time on the statistics type; experimenter messages and statistics go to *)
(* the callbacks of 'exp' when they are given.                             *)
(*                                                                         *)
(* The text is abstracted to its structure.  What is written is a sequence *)
(* of tokens: the punctuation the printers write themselves, "key=" for a  *)
(* field name, "q" for a double quote, "val" for a number or name put in   *)
(* by a format or by one of the ofl_*_print of other files, "obj" for a    *)
(* structure printed by an ofl_structs_*_print or ofl_action_print, "name" *)
(* for the message type, "cb" for the string a callback returned.  A       *)
(* message is its type, its statistics type and the number of elements of  *)
(* its list; the other fields only fill in values.                         *)
(***************************************************************************)
EXTENDS Naturals, Sequences, SequencesExt

CONSTANTS
    NULL,       \* the null pointer
    Wild,       \* what a read through a null pointer gives
    MaxNum      \* bound: elements in the list of a message

Plain ==        \* message types whose printer has no list and no callback
    {"OFPT_HELLO", "OFPT_ERROR", "OFPT_ECHO_REQUEST", "OFPT_ECHO_REPLY",
     "OFPT_FEATURES_REQUEST", "OFPT_GET_CONFIG_REQUEST", "OFPT_GET_CONFIG_REPLY",
     "OFPT_SET_CONFIG", "OFPT_PACKET_IN", "OFPT_FLOW_REMOVED", "OFPT_PORT_STATUS",
     "OFPT_PORT_MOD", "OFPT_TABLE_MOD", "OFPT_BARRIER_REQUEST", "OFPT_BARRIER_REPLY",
     "OFPT_QUEUE_GET_CONFIG_REQUEST"}

WithList ==
    {"OFPT_FEATURES_REPLY", "OFPT_PACKET_OUT", "OFPT_FLOW_MOD", "OFPT_GROUP_MOD",
     "OFPT_QUEUE_GET_CONFIG_REPLY"}

Stats == {"OFPT_STATS_REQUEST", "OFPT_STATS_REPLY"}

StatsTypes ==
    {"OFPST_DESC", "OFPST_FLOW", "OFPST_AGGREGATE", "OFPST_TABLE", "OFPST_PORT",
     "OFPST_QUEUE", "OFPST_GROUP", "OFPST_GROUP_DESC", "OFPST_EXPERIMENTER"}

StatsWithList ==    \* replies that carry an array of statistics
    {"OFPST_FLOW", "OFPST_TABLE", "OFPST_PORT", "OFPST_QUEUE", "OFPST_GROUP",
     "OFPST_GROUP_DESC"}

(* The messages: 'stats' is the statistics type of a statistics message,   *)
(* 'num' the length of the one array a printer loops over.                 *)
Messages ==
    [type : Plain \cup {"OFPT_EXPERIMENTER"}, stats : {NULL}, num : {0}]
        \cup [type : WithList, stats : {NULL}, num : 0 .. MaxNum]
        \cup [type : {"OFPT_STATS_REQUEST"}, stats : StatsTypes, num : {0}]
        \cup [type : {"OFPT_STATS_REPLY"}, stats : StatsWithList, num : 0 .. MaxNum]
        \cup [type : {"OFPT_STATS_REPLY"}, stats : StatsTypes \ StatsWithList, num : {0}]

(* struct ofl_exp as the printer sees it: the pointer itself, its two      *)
(* tables and the three function pointers may each be null.                *)
Exps ==
    {NULL} \cup
    [msg : {NULL} \cup [to_string : {NULL, "msg_to_string"}],
     stats : {NULL} \cup [req_to_string : {NULL, "req_to_string"},
                          reply_to_string : {NULL, "reply_to_string"}]]

VARIABLES
    msg,        \* the message of the last call
    exp,        \* the callbacks of the last call
    str,        \* what ofl_msg_to_string returned: the tokens written
    called      \* the function pointer the call went through, or NULL

vars == <<msg, exp, str, called>>

-----------------------------------------------------------------------------
(* The pieces the printers write fields with.                              *)
Quoted == <<"key=", "q", "val", "q">>       \* key="value"

Bare == <<"key=", "val">>                   \* key=value

Nested == <<"key=", "obj">>                 \* key={...}

Times(field, n) == [i \in 1 .. n |-> field]

(* Fields written one after the other, ", " before each but the first, in  *)
(* braces; and fields appended to text that is already there, ", " before  *)
(* each.                                                                   *)
Struct(fields) ==
    <<"{">> \o FlattenSeq([i \in DOMAIN fields |->
                              IF i = 1 THEN fields[i] ELSE <<",">> \o fields[i]])
            \o <<"}">>

More(fields) == FlattenSeq([i \in DOMAIN fields |-> <<",">> \o fields[i]])

(* Slip: the separator written after every element, the last included.     *)
Elements_trailing(num) == FlattenSeq([j \in 1 .. num |-> <<"obj", ",">>])

(* The loop all list printers share: each element, and ", " after it when  *)
(* i < num - 1.  The sequence is indexed from 1, i runs from 0.            *)
Elements(num) ==
    FlattenSeq([j \in 1 .. num |->
                   LET i == j - 1 IN IF i < num - 1 THEN <<"obj", ",">> ELSE <<"obj">>])

List(num) == <<"key=", "[">> \o Elements(num) \o <<"]">>

(* p->f as the machine does it: through a null pointer there is no field,  *)
(* the read gives something that is no function.                           *)
Deref(p, f) == IF p \in {NULL, Wild} THEN Wild ELSE p[f]

(* What a printer leaves: the tokens, and the callback it went through.    *)
Wrote(out) == [out |-> out, called |-> NULL]

Through(fn) == [out |-> <<"cb">>, called |-> fn]

-----------------------------------------------------------------------------
(* The printers, in the order of the file.                                 *)

ofl_msg_print_error == Struct(Times(Quoted, 3))

ofl_msg_print_echo == Struct(<<Quoted>>)

ofl_msg_print_experimenter == Struct(<<Quoted>>)

ofl_msg_print_features_reply(m) == Struct(Times(Quoted, 4) \o <<List(m.num)>>)

ofl_msg_print_get_config_reply == Struct(<<Nested>>)

ofl_msg_print_set_config == Struct(<<Nested>>)

ofl_msg_print_packet_in == Struct(Times(Quoted, 5))

ofl_msg_print_flow_removed == Struct(<<Quoted, Nested>>)

ofl_msg_print_port_status == Struct(<<Bare, Nested>>)

ofl_msg_print_packet_out(m) == Struct(<<Quoted, Quoted, List(m.num)>>)

ofl_msg_print_flow_mod(m) == Struct(Times(Quoted, 11) \o <<Nested, List(m.num)>>)

ofl_msg_print_group_mod(m) == Struct(Times(Quoted, 3) \o <<List(m.num)>>)

ofl_msg_print_port_mod == Struct(Times(Quoted, 5))

ofl_msg_print_table_mod == Struct(Times(Quoted, 2))

(* cookie and mask are written as  cookie=0x..",  the quote after the      *)
(* value only.                                                             *)
ofl_msg_print_stats_request_flow ==
    More(Times(Quoted, 3) \o Times(<<"key=", "val", "q">>, 2) \o <<Nested>>)

ofl_msg_print_stats_request_port == More(<<Quoted>>)

ofl_msg_print_stats_request_queue == More(<<Quoted, Quoted>>)

ofl_msg_print_stats_request_group == More(<<Quoted>>)

ofl_msg_print_stats_request_experimenter == More(<<Quoted>>)

(* Slip: a case of the switch that returns where it should break.          *)
ofl_msg_print_stats_request_early_return(m, e) ==
    Wrote(<<"{">> \o Quoted \o <<",">> \o Quoted)

ofl_msg_print_stats_request(m, e) ==
    IF /\ m.stats = "OFPST_EXPERIMENTER"
       /\ e # NULL /\ e.stats # NULL /\ e.stats.req_to_string # NULL
    THEN Through(e.stats.req_to_string)
    ELSE LET body ==
                 CASE m.stats \in {"OFPST_FLOW", "OFPST_AGGREGATE"} ->
                          ofl_msg_print_stats_request_flow
                   [] m.stats = "OFPST_PORT" -> ofl_msg_print_stats_request_port
                   [] m.stats = "OFPST_QUEUE" -> ofl_msg_print_stats_request_queue
                   [] m.stats = "OFPST_GROUP" -> ofl_msg_print_stats_request_group
                   [] m.stats = "OFPST_EXPERIMENTER" ->
                          ofl_msg_print_stats_request_experimenter
                   [] OTHER -> <<>>
         IN  Wrote(<<"{">> \o Quoted \o <<",">> \o Quoted \o body \o <<"}">>)

ofl_msg_print_stats_reply_desc == More(Times(Quoted, 5))

(* The six replies that carry an array: each its own loop over stats_num.  *)
ofl_msg_print_stats_reply_flow(m) == More(<<List(m.num)>>)

ofl_msg_print_stats_reply_aggregate == More(Times(Quoted, 3))

ofl_msg_print_stats_reply_table(m) == More(<<List(m.num)>>)

ofl_msg_print_stats_reply_port(m) == More(<<List(m.num)>>)

ofl_msg_print_stats_reply_queue(m) == More(<<List(m.num)>>)

ofl_msg_print_stats_reply_group(m) == More(<<List(m.num)>>)

ofl_msg_print_stats_reply_group_desc(m) == More(<<List(m.num)>>)

ofl_msg_print_stats_reply_experimenter == More(<<Quoted>>)

(* Slip: the callback taken without the three tests for null.              *)
ofl_msg_print_stats_reply_unchecked(m, e) ==
    IF m.stats = "OFPST_EXPERIMENTER"
    THEN Through(Deref(Deref(e, "stats"), "reply_to_string"))
    ELSE Wrote(<<"{">> \o Quoted \o <<",">> \o Quoted \o <<"}">>)

ofl_msg_print_stats_reply(m, e) ==
    IF /\ m.stats = "OFPST_EXPERIMENTER"
       /\ e # NULL /\ e.stats # NULL /\ e.stats.reply_to_string # NULL
    THEN Through(e.stats.reply_to_string)
    ELSE LET body ==
                 CASE m.stats = "OFPST_DESC" -> ofl_msg_print_stats_reply_desc
                   [] m.stats = "OFPST_FLOW" -> ofl_msg_print_stats_reply_flow(m)
                   [] m.stats = "OFPST_AGGREGATE" -> ofl_msg_print_stats_reply_aggregate
                   [] m.stats = "OFPST_TABLE" -> ofl_msg_print_stats_reply_table(m)
                   [] m.stats = "OFPST_PORT" -> ofl_msg_print_stats_reply_port(m)
                   [] m.stats = "OFPST_QUEUE" -> ofl_msg_print_stats_reply_queue(m)
                   [] m.stats = "OFPST_GROUP" -> ofl_msg_print_stats_reply_group(m)
                   [] m.stats = "OFPST_GROUP_DESC" ->
                          ofl_msg_print_stats_reply_group_desc(m)
                   [] m.stats = "OFPST_EXPERIMENTER" ->
                          ofl_msg_print_stats_reply_experimenter
                   [] OTHER -> <<>>
         IN  Wrote(<<"{">> \o Quoted \o <<",">> \o Quoted \o body \o <<"}">>)

ofl_msg_print_queue_get_config_request == Struct(<<Quoted>>)

(* No ", " between the port and the queues.                                *)
ofl_msg_print_queue_get_config_reply(m) ==
    <<"{">> \o Quoted \o List(m.num) \o <<"}">>

(* Slip: the test for a missing callback with 'and' for 'or'.              *)
PrintExperimenter_and(m, e) ==
    IF e = NULL /\ Deref(e, "msg") = NULL /\ Deref(Deref(e, "msg"), "to_string") = NULL
    THEN Wrote(ofl_msg_print_experimenter)
    ELSE Through(Deref(Deref(e, "msg"), "to_string"))

(* The case OFPT_EXPERIMENTER of ofl_msg_print.                            *)
PrintExperimenter(m, e) ==
    IF e = NULL \/ Deref(e, "msg") = NULL \/ Deref(Deref(e, "msg"), "to_string") = NULL
    THEN Wrote(ofl_msg_print_experimenter)
    ELSE Through(Deref(Deref(e, "msg"), "to_string"))

(* The switch of ofl_msg_print over the message type.                      *)
Body(m, e) ==
    LET t == m.type IN
    CASE t \in {"OFPT_HELLO", "OFPT_FEATURES_REQUEST", "OFPT_GET_CONFIG_REQUEST",
                "OFPT_BARRIER_REQUEST", "OFPT_BARRIER_REPLY"} -> Wrote(<<>>)
      [] t = "OFPT_ERROR" -> Wrote(ofl_msg_print_error)
      [] t \in {"OFPT_ECHO_REQUEST", "OFPT_ECHO_REPLY"} -> Wrote(ofl_msg_print_echo)
      [] t = "OFPT_EXPERIMENTER" -> PrintExperimenter(m, e)
      [] t = "OFPT_FEATURES_REPLY" -> Wrote(ofl_msg_print_features_reply(m))
      [] t = "OFPT_GET_CONFIG_REPLY" -> Wrote(ofl_msg_print_get_config_reply)
      [] t = "OFPT_SET_CONFIG" -> Wrote(ofl_msg_print_set_config)
      [] t = "OFPT_PACKET_IN" -> Wrote(ofl_msg_print_packet_in)
      [] t = "OFPT_FLOW_REMOVED" -> Wrote(ofl_msg_print_flow_removed)
      [] t = "OFPT_PORT_STATUS" -> Wrote(ofl_msg_print_port_status)
      [] t = "OFPT_PACKET_OUT" -> Wrote(ofl_msg_print_packet_out(m))
      [] t = "OFPT_FLOW_MOD" -> Wrote(ofl_msg_print_flow_mod(m))
      [] t = "OFPT_GROUP_MOD" -> Wrote(ofl_msg_print_group_mod(m))
      [] t = "OFPT_PORT_MOD" -> Wrote(ofl_msg_print_port_mod)
      [] t = "OFPT_TABLE_MOD" -> Wrote(ofl_msg_print_table_mod)
      [] t = "OFPT_STATS_REQUEST" -> ofl_msg_print_stats_request(m, e)
      [] t = "OFPT_STATS_REPLY" -> ofl_msg_print_stats_reply(m, e)
      [] t = "OFPT_QUEUE_GET_CONFIG_REQUEST" ->
             Wrote(ofl_msg_print_queue_get_config_request)
      [] t = "OFPT_QUEUE_GET_CONFIG_REPLY" ->
             Wrote(ofl_msg_print_queue_get_config_reply(m))

(* ofl_message_type_print, then the switch.                                *)
ofl_msg_print(m, e) ==
    LET body == Body(m, e)
    IN  [out |-> <<"name">> \o body.out, called |-> body.called]

-----------------------------------------------------------------------------
(* ofl_msg_to_string: a fresh stream, ofl_msg_print into it, its text.     *)
ofl_msg_to_string(m, e) ==
    LET printed == ofl_msg_print(m, e)
    IN  /\ msg' = m
        /\ exp' = e
        /\ str' = printed.out
        /\ called' = printed.called

Hello == [type |-> "OFPT_HELLO", stats |-> NULL, num |-> 0]

Init ==
    /\ msg = Hello
    /\ exp = NULL
    /\ str = ofl_msg_print(Hello, NULL).out
    /\ called = NULL

(* The three kinds of message, by what the printer does with them.         *)
PrintSimple == \E m \in Messages, e \in Exps :
    m.type \in Plain \cup WithList /\ ofl_msg_to_string(m, e)

PrintExperimenterMsg == \E m \in Messages, e \in Exps :
    m.type = "OFPT_EXPERIMENTER" /\ ofl_msg_to_string(m, e)

PrintStats == \E m \in Messages, e \in Exps :
    m.type \in Stats /\ ofl_msg_to_string(m, e)

Next == PrintSimple \/ PrintExperimenterMsg \/ PrintStats

Spec == Init /\ [][Next]_vars

-----------------------------------------------------------------------------
Tokens == {"{", "}", "[", "]", ",", "key=", "q", "val", "obj", "name", "cb"}

TypeOK ==
    /\ msg \in Messages
    /\ exp \in Exps
    /\ str \in Seq(Tokens)
    /\ called \in {NULL, "msg_to_string", "req_to_string", "reply_to_string"}

(* The callback a message is for: experimenter messages have to_string,    *)
(* experimenter statistics req_to_string and reply_to_string.              *)
CallbackFor(m, e) ==
    CASE m.type = "OFPT_EXPERIMENTER" -> Deref(Deref(e, "msg"), "to_string")
      [] m.type = "OFPT_STATS_REQUEST" /\ m.stats = "OFPST_EXPERIMENTER" ->
             Deref(Deref(e, "stats"), "req_to_string")
      [] m.type = "OFPT_STATS_REPLY" /\ m.stats = "OFPST_EXPERIMENTER" ->
             Deref(Deref(e, "stats"), "reply_to_string")
      [] OTHER -> NULL

(* The experimenter callbacks are "invoked only for experimenter-typed     *)
(* messages/stats; absence of a callback degrades to opaque blob handling, *)
(* never a hard failure" (section 6 of the specification): for every       *)
(* message and every way 'exp', its tables and its function pointers can   *)
(* be null, ofl_msg_print goes through the callback of that message when   *)
(* it is there and then writes only its string, and otherwise through no   *)
(* pointer at all and writes the built-in text.                            *)
CallbackWhenGiven ==
    LET fn == CallbackFor(msg, exp) IN
    IF fn \in {NULL, Wild}
    THEN called = NULL /\ "cb" \notin ToSet(str)
    ELSE called = fn /\ str = <<"name", "cb">>

(* The brackets open after the first i tokens of s, innermost first.  A    *)
(* bracket that closes another than the one open stays on the stack.       *)
Closes == [x \in {"}", "]"} |-> IF x = "}" THEN "{" ELSE "["]

RECURSIVE Open(_, _)
Open(s, i) ==
    IF i = 0 THEN <<>>
    ELSE LET stack == Open(s, i - 1) IN
         CASE s[i] \in {"}", "]"} /\ stack # <<>> /\ Head(stack) = Closes[s[i]] ->
                  Tail(stack)
           [] s[i] \in {"{", "[", "}", "]"} -> Cons(s[i], stack)
           [] OTHER -> stack

(* Whatever the message, its statistics type and the length of its list,   *)
(* the text has every "{" and "[" closed by its own "}" or "]", in order:  *)
(* ofl_msg_print_stats_request and ofl_msg_print_stats_reply open the      *)
(* brace, leave the middle to one of nine printers (or none) and close it  *)
(* after the switch, on every path through it.                             *)
BracketsBalanced == Len(Open(str, Len(str))) = 0

(* A ", " stands between two things and nowhere else: the loops of the     *)
(* list printers write it after every element but the last (i < num - 1,   *)
(* for lists of no, one and more elements), so no list starts or ends      *)
(* with one and no two elements touch.                                     *)
ElementsSeparated ==
    \A i \in 1 .. Len(str) - 1 :
        /\ str[i] = "," => str[i + 1] \in {"key=", "obj"}
        /\ str[i + 1] = "," => str[i] \in {"q", "val", "obj"}
        /\ ~(str[i] = "obj" /\ str[i + 1] = "obj")

(* The text can be read back: a value has a quote on both sides or on      *)
(* none, and a field name comes first in its braces or after a ", ".       *)
TextReadsBack ==
    \A i \in 2 .. Len(str) :
        /\ str[i] = "val" /\ i < Len(str) => (str[i - 1] = "q" <=> str[i + 1] = "q")
        /\ str[i] = "key=" => str[i - 1] \in {"{", ","}

=============================================================================
