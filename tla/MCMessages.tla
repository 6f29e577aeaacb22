------------------------------ MODULE MCMessages ------------------------------
(* Frames for the message store: every WAMP message whole, cut short       *)
(* anywhere, and with any one field of another kind; the routed messages   *)
(* with every shape of options and payload; and tables whose parts         *)
(* contradict each other.                                                  *)
EXTENDS Messages

Int == Val("int", "id")
Str == Val("str", "text")
Opts == Dict([custom |-> "other"])
Pay == <<Val("list", "ordinary"), Val("map", "full")>>

Whole ==
    1 :> <<Str, Opts>> @@ 2 :> <<Int, Opts>> @@ 3 :> <<Opts, Str>> \o Pay
 @@ 4 :> <<Str, Opts>> @@ 5 :> <<Str, Opts>> @@ 6 :> <<Opts, Str>> \o Pay
 @@ 7 :> <<Opts, Int, Int, Int>> @@ 8 :> <<Val("int", "68"), Int, Opts, Str>> \o Pay
 @@ 16 :> <<Int, Opts, Str>> \o Pay @@ 17 :> <<Int, Val("int", "other")>>
 @@ 32 :> <<Int, Opts, Str>> @@ 33 :> <<Int, Val("int", "other")>>
 @@ 34 :> <<Int, Val("int", "other")>> @@ 35 :> <<Int, Opts>>
 @@ 36 :> <<Int, Val("int", "other"), Opts>> \o Pay
 @@ 48 :> <<Int, Opts, Str>> \o Pay @@ 49 :> <<Int, Opts>> @@ 50 :> <<Int, Opts>> \o Pay
 @@ 64 :> <<Int, Opts, Str>> @@ 65 :> <<Int, Val("int", "other")>>
 @@ 66 :> <<Int, Val("int", "other")>> @@ 67 :> <<Int, Opts>>
 @@ 68 :> <<Int, Val("int", "other"), Opts>> \o Pay
 @@ 69 :> <<Int, Opts>> @@ 70 :> <<Int, Opts>> \o Pay @@ 99 :> <<Int, Opts>>

Others == {Int, Val("int", "7"), Str, Val("str", "ticket"), Val("str", "blank"), Null,
           Dict(<<>>), Val("map", "full"), EmptyList, Val("list", "ordinary")}

Deviating(c) ==
    {Message(c, SubSeq(Whole[c], 1, n)) : n \in 0 .. Len(Whole[c])}
    \cup {Message(c, [Whole[c] EXCEPT ![i] = v]) : i \in DOMAIN Whole[c], v \in Others}
    \cup {Message(c, Append(Whole[c], v)) : v \in {Int, Null}}

Dicts ==
    { <<>>, [custom |-> "other"], [ppt_scheme |-> "known"],
      [ppt_scheme |-> "other", ppt_keyid |-> "other"], [ppt_scheme |-> "blank"],
      [ppt_scheme |-> "known", ppt_keyid |-> "null"], [ppt_scheme |-> "int"],
      [progress |-> "true"], [progress |-> "int"] }

Payloads ==
    {<<>>} \cup {<<a>> : a \in {EmptyList, OneBinary, Val("list", "ordinary"), Val("list", "deep")}}
    \cup {<<a, k>> : a \in {Null, OneBinary, Val("list", "ordinary")},
                     k \in {Val("map", "empty"), Val("map", "full")}}

Routed ==
    {Message(c, <<Int, Dict(d), Str>> \o p) : c \in {16, 48}, d \in Dicts, p \in Payloads}
    \cup {Message(70, <<Int, Dict(d)>> \o p) : d \in Dicts, p \in Payloads}
    \cup {Message(8, <<Val("int", "68"), Int, Dict(d), Str>> \o p) : d \in Dicts, p \in Payloads}

(* Tables: what the writer makes of the messages above, opaque bodies, and *)
(* tables with one column more, other or missing.                          *)
Opaque(m) == [m EXCEPT !.f.args = Absent, !.f.kwargs = Absent, !.f.transparent = Body]
Tables(frames) ==
    LET parsed == {ParseCbor(w, FALSE) : w \in frames} \ {Bad}
    IN  {FlatEncode(m) : m \in parsed \cup {Opaque(m) : m \in {p \in parsed : p.code \in PayloadCodes}}}
        \ {BadTable}

Contradicting(t) ==
    {[t EXCEPT !.body = c @@ t.body] :
        c \in {"session" :> Int, "payload" :> Body, "ppt_scheme" :> Val("enum", "known"),
               "progress" :> Val("bool", "true"), "method" :> Val("int", "wampcra"),
               "method_name" :> Val("str", "wampcra"), "ping" :> Int,
               "presence" :> [Val("int", "bits") EXCEPT !.d = [outgoing |-> "bit"]]}}
    \cup {[t EXCEPT !.body = [k \in DOMAIN t.body \ {c} |-> t.body[k]]] : c \in DOMAIN t.body}
    \cup {[t EXCEPT !.meta = m] : m \in {Absent, Dict([ppt_scheme |-> "known"])}}

MCInputs ==
    {[serializer |-> "json", segmented |-> FALSE, wire |-> w] :
        w \in UNION {Deviating(c) : c \in DOMAIN Whole}}
    \cup {[serializer |-> s, segmented |-> g, wire |-> w] :
            s \in {"json", "msgpack", "cbor"}, g \in BOOLEAN, w \in Routed}
    \cup {[serializer |-> "flatbuffers", segmented |-> FALSE, wire |-> t] :
            t \in Tables(Routed) \cup Tables({Message(c, Whole[c]) : c \in DOMAIN Whole})}
    \cup {[serializer |-> "flatbuffers", segmented |-> FALSE, wire |-> x] :
            x \in UNION {Contradicting(t) :
                          t \in Tables({Message(c, Whole[c]) : c \in DOMAIN Whole}
                                       \cup {Message(4, <<Val("str", "ticket"), Opts>>)})}}

(* A CALL and a YIELD with an opaque body, contiguous or not, a PUBLISH    *)
(* with ordinary arguments, and an opaque CALL in the table form.          *)
MCRaced ==
    {[serializer |-> s, segmented |-> g, wire |-> Message(48, <<Int, Dict([ppt_scheme |-> "known"]), Str, OneBinary>>)] :
        s \in {"cbor", "msgpack"}, g \in BOOLEAN}
    \cup {[serializer |-> "json", segmented |-> FALSE,
            wire |-> Message(16, <<Int, Dict(<<>>), Str, Val("list", "ordinary")>>)],
          [serializer |-> "flatbuffers", segmented |-> FALSE,
            wire |-> FlatEncode(Opaque(ParseCbor(Message(70, <<Int, Dict([ppt_scheme |-> "known"])>>), FALSE)))]}

Symmetry == Permutations(Workers)
==============================================================================
