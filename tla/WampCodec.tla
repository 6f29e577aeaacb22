------------------------------ MODULE WampCodec ------------------------------
(***************************************************************************)
(* The native transport reads and writes WAMP messages in four encodings.  *)
(* wamp.rs holds three hand-written readers of the array form (JSON,       *)
(* MessagePack, and CBOR, which lifts the application payload out of a     *)
(* contiguous frame and parses a segmented one as a value), and the        *)
(* flatbuffers_* files a reader and a writer of the table form, in which a *)
(* message's dictionary travels twice: whole, as CBOR metadata, and        *)
(* projected onto the typed fields of the message's table.                 *)
(*                                                                         *)
(* Bytes are abstracted to values that keep what the readers branch on: a  *)
(* kind, and a name that tells one value from another.  A dictionary is a  *)
(* function from its keys to what their values are: a text some            *)
(* enumeration of the schema knows, another text, the empty text, a        *)
(* boolean, an integer or null.                                            *)
(***************************************************************************)
EXTENDS Naturals, Sequences, FiniteSets, TLC

Val(kind, x) == [kind |-> kind, x |-> x, d |-> <<>>]
Dict(d) == [kind |-> "map", x |-> "dict", d |-> d]
Absent == Val("absent", "")
Null == Val("null", "")
EmptyList == Val("list", "empty")
Wrong == Val("wrong", "")

(* WampMessage: a code and its named fields; Bad stands for a ParseError.  *)
Message(code, f) == [code |-> code, f |-> f]
Bad == Message(0, <<>>)

Serializers == {"json", "msgpack", "cbor", "flatbuffers"}
PayloadCodes == {3, 6, 8, 16, 36, 48, 50, 68, 70}

(* A row of a reader: what is read from each place of the array after the  *)
(* code, and the field it becomes.                                         *)
UInt(name) == [as |-> "uint", name |-> name]
Text(name) == [as |-> "text", name |-> name]
Map(name) == [as |-> "map", name |-> name]
OptMap(name) == [as |-> "optmap", name |-> name]
OptUInt(name) == [as |-> "optuint", name |-> name]
Arguments == <<[as |-> "args", name |-> "args"], [as |-> "kwargs", name |-> "kwargs"]>>

Place(i, f) == IF i <= Len(f) THEN f[i] ELSE Absent
Fields(row) == {row[i].name : i \in DOMAIN row}
At(row, name) == CHOOSE i \in DOMAIN row : row[i].name = name

(* An absent or null dictionary is the empty one, any other absent or null *)
(* field is None.                                                          *)
Taken(as, v) ==
    IF v.kind \notin {"absent", "null"} THEN v
    ELSE IF as \in {"map", "optmap"} THEN Dict(<<>>) ELSE Absent

(* One reader at one frame: every place must hold a kind its row accepts.  *)
(* A message that carries application data starts without a transparent    *)
(* payload.  Fields after the row's last are not looked at.                *)
ReadRow(row, accepts, frame) ==
    IF \A i \in DOMAIN row : Place(i, frame.f).kind \in accepts[row[i].as]
    THEN Message(frame.code,
                 [n \in Fields(row) |->
                    Taken(row[At(row, n)].as, Place(At(row, n), frame.f))]
                 @@ (IF frame.code \in PayloadCodes THEN "transparent" :> Absent ELSE <<>>))
    ELSE Bad

(* An unknown code keeps all its fields.                                   *)
ReadArray(rows, accepts, frame) ==
    IF frame.code \in DOMAIN rows
    THEN ReadRow(rows[frame.code], accepts, frame)
    ELSE Message(frame.code, [fields |-> frame.f])

------------------------------------------------------------------------------
(* The arms of parse_json_message.                                         *)
JsonSession ==
    1 :> <<Text("realm"), Map("details")>>
 @@ 2 :> <<UInt("session_id"), Map("details")>>
 @@ 3 :> <<Map("details"), Text("reason")>> \o Arguments
 @@ 4 :> <<Text("auth_method"), Map("extra")>>
 @@ 5 :> <<Text("signature"), OptMap("extra")>>
 @@ 6 :> <<Map("details"), Text("reason")>> \o Arguments
 @@ 7 :> <<Map("details"), OptUInt("ping"), OptUInt("incoming"), OptUInt("outgoing")>>
 @@ 8 :> <<UInt("request_type"), UInt("request_id"), Map("details"), Text("error")>>
         \o Arguments

JsonPubSub ==
    16 :> <<UInt("request_id"), Map("options"), Text("topic")>> \o Arguments
 @@ 17 :> <<UInt("request_id"), UInt("publication_id")>>
 @@ 32 :> <<UInt("request_id"), Map("options"), Text("topic")>>
 @@ 33 :> <<UInt("request_id"), UInt("subscription_id")>>
 @@ 34 :> <<UInt("request_id"), UInt("subscription_id")>>
 @@ 35 :> <<UInt("request_id"), OptMap("details")>>
 @@ 36 :> <<UInt("subscription_id"), UInt("publication_id"), Map("details")>> \o Arguments

JsonCalls ==
    48 :> <<UInt("request_id"), Map("options"), Text("procedure")>> \o Arguments
 @@ 49 :> <<UInt("request_id"), Map("options")>>
 @@ 50 :> <<UInt("request_id"), Map("details")>> \o Arguments
 @@ 64 :> <<UInt("request_id"), Map("options"), Text("procedure")>>
 @@ 65 :> <<UInt("request_id"), UInt("registration_id")>>
 @@ 66 :> <<UInt("request_id"), UInt("registration_id")>>
 @@ 67 :> <<UInt("request_id"), OptMap("details")>>
 @@ 68 :> <<UInt("request_id"), UInt("registration_id"), Map("details")>> \o Arguments
 @@ 69 :> <<UInt("request_id"), Map("options")>>
 @@ 70 :> <<UInt("request_id"), Map("options")>> \o Arguments

(* What a field accepts: json_u64, json_string, json_map,                  *)
(* json_optional_map, json_optional_u64 and json_payload.                  *)
JsonAccepts ==
    [uint |-> {"int"}, text |-> {"str"}, map |-> {"map", "null"},
     optmap |-> {"map", "null", "absent"}, optuint |-> {"int", "null", "absent"},
     args |-> {"list", "null", "absent"}, kwargs |-> {"map", "null", "absent"}]

ParseJson(frame) == ReadArray(JsonSession @@ JsonPubSub @@ JsonCalls, JsonAccepts, frame)

------------------------------------------------------------------------------
(* The arms of parse_msgpack_message.                                      *)
MsgPackSession ==
    1 :> <<Text("realm"), Map("details")>>
 @@ 2 :> <<UInt("session_id"), Map("details")>>
 @@ 3 :> <<Map("details"), Text("reason")>> \o Arguments
 @@ 4 :> <<Text("auth_method"), Map("extra")>>
 @@ 5 :> <<Text("signature"), OptMap("extra")>>
 @@ 6 :> <<Map("details"), Text("reason")>> \o Arguments
 @@ 7 :> <<Map("details"), OptUInt("ping"), OptUInt("incoming"), OptUInt("outgoing")>>
 @@ 8 :> <<UInt("request_type"), UInt("request_id"), Map("details"), Text("error")>>
         \o Arguments

MsgPackPubSub ==
    16 :> <<UInt("request_id"), Map("options"), Text("topic")>> \o Arguments
 @@ 17 :> <<UInt("request_id"), UInt("publication_id")>>
 @@ 32 :> <<UInt("request_id"), Map("options"), Text("topic")>>
 @@ 33 :> <<UInt("request_id"), UInt("subscription_id")>>
 @@ 34 :> <<UInt("request_id"), UInt("subscription_id")>>
 @@ 35 :> <<UInt("request_id"), OptMap("details")>>
 @@ 36 :> <<UInt("subscription_id"), UInt("publication_id"), Map("details")>> \o Arguments

MsgPackCalls ==
    48 :> <<UInt("request_id"), Map("options"), Text("procedure")>> \o Arguments
 @@ 49 :> <<UInt("request_id"), Map("options")>>
 @@ 50 :> <<UInt("request_id"), Map("details")>> \o Arguments
 @@ 64 :> <<UInt("request_id"), Map("options"), Text("procedure")>>
 @@ 65 :> <<UInt("request_id"), UInt("registration_id")>>
 @@ 66 :> <<UInt("request_id"), UInt("registration_id")>>
 @@ 67 :> <<UInt("request_id"), OptMap("details")>>
 @@ 68 :> <<UInt("request_id"), UInt("registration_id"), Map("details")>> \o Arguments
 @@ 69 :> <<UInt("request_id"), Map("options")>>
 @@ 70 :> <<UInt("request_id"), Map("options")>> \o Arguments

(* msgpack_required_map, unlike json_map, refuses nil.                     *)
MsgPackAccepts ==
    [uint |-> {"int"}, text |-> {"str"}, map |-> {"map"},
     optmap |-> {"map", "null", "absent"}, optuint |-> {"int", "null", "absent"},
     args |-> {"list", "null", "absent"}, kwargs |-> {"map", "null", "absent"}]

ParseMsgPack(frame) ==
    ReadArray(MsgPackSession @@ MsgPackPubSub @@ MsgPackCalls, MsgPackAccepts, frame)

------------------------------------------------------------------------------
(* parse_value_parts and the functions it calls, for a deserialized value.  *)
ValueSession ==
    1 :> <<Text("realm"), Map("details")>>
 @@ 2 :> <<UInt("session_id"), Map("details")>>
 @@ 3 :> <<Map("details"), Text("reason")>> \o Arguments
 @@ 4 :> <<Text("auth_method"), Map("extra")>>
 @@ 5 :> <<Text("signature"), OptMap("extra")>>
 @@ 6 :> <<Map("details"), Text("reason")>> \o Arguments
 @@ 7 :> <<Map("details"), OptUInt("ping"), OptUInt("incoming"), OptUInt("outgoing")>>
 @@ 8 :> <<UInt("request_type"), UInt("request_id"), Map("details"), Text("error")>>
         \o Arguments

ValuePubSub ==
    16 :> <<UInt("request_id"), Map("options"), Text("topic")>> \o Arguments
 @@ 17 :> <<UInt("request_id"), UInt("publication_id")>>
 @@ 32 :> <<UInt("request_id"), Map("options"), Text("topic")>>
 @@ 33 :> <<UInt("request_id"), UInt("subscription_id")>>
 @@ 34 :> <<UInt("request_id"), UInt("subscription_id")>>
 @@ 35 :> <<UInt("request_id"), OptMap("details")>>
 @@ 36 :> <<UInt("subscription_id"), UInt("publication_id"), Map("details")>> \o Arguments

ValueCalls ==
    48 :> <<UInt("request_id"), Map("options"), Text("procedure")>> \o Arguments
 @@ 49 :> <<UInt("request_id"), Map("options")>>
 @@ 50 :> <<UInt("request_id"), Map("details")>> \o Arguments
 @@ 64 :> <<UInt("request_id"), Map("options"), Text("procedure")>>
 @@ 65 :> <<UInt("request_id"), UInt("registration_id")>>
 @@ 66 :> <<UInt("request_id"), UInt("registration_id")>>
 @@ 67 :> <<UInt("request_id"), OptMap("details")>>
 @@ 68 :> <<UInt("request_id"), UInt("registration_id"), Map("details")>> \o Arguments
 @@ 69 :> <<UInt("request_id"), Map("options")>>
 @@ 70 :> <<UInt("request_id"), Map("options")>> \o Arguments

(* expect_map takes a unit for the empty map; the three counters of a      *)
(* HEARTBEAT are mapped through value_as_u64, which takes no unit.         *)
ValueAccepts ==
    [uint |-> {"int"}, text |-> {"str"}, map |-> {"map", "null"},
     optmap |-> {"map", "null", "absent"}, optuint |-> {"int", "absent"},
     args |-> {"list", "null", "absent"}, kwargs |-> {"map", "null", "absent"}]

ParseValueParts(frame) ==
    ReadArray(ValueSession @@ ValuePubSub @@ ValueCalls, ValueAccepts, frame)

(* Where cbor_payload_spec says that the payload of a message is.          *)
CborPayloadSpecOff == [c \in PayloadCodes |-> IF c \in {3, 6, 50, 70} THEN 3 ELSE 4]
CborPayloadSpec == [c \in PayloadCodes |-> IF c = 8 THEN 5 ELSE IF c \in {3, 6, 50, 70} THEN 3 ELSE 4]

(* cbor_payload_part: one half of the payload, taken by its range.         *)
CborPayloadPart(i, kind, frame) ==
    LET v == Place(i, frame.f)
    IN  CASE v.kind \in {"absent", "null"} -> Absent
          [] v.kind = kind -> v
          [] OTHER -> Wrong

(* A stand-in for one half of the payload, for the value parser.           *)
StandIn(part, empty) == IF part = Absent THEN Null ELSE empty

(* parse_cbor_message.  A segmented frame is parsed as a whole value; in a *)
(* contiguous one the payload is cut out first, empty containers stand in  *)
(* for it while the rest is parsed, and it is put back at the end.         *)
ParseCbor(frame, segmented) ==
    IF segmented \/ frame.code \notin PayloadCodes THEN ParseValueParts(frame)
    ELSE LET at     == CborPayloadSpec[frame.code]
             args   == CborPayloadPart(at, "list", frame)
             kwargs == CborPayloadPart(at + 1, "map", frame)
             rest   == [i \in DOMAIN frame.f |->
                          CASE i = at     -> StandIn(args, EmptyList)
                            [] i = at + 1 -> StandIn(kwargs, Dict(<<>>))
                            [] OTHER      -> frame.f[i]]
             m      == ParseValueParts([frame EXCEPT !.f = rest])
         IN  IF Wrong \in {args, kwargs} \/ m = Bad THEN Bad
             ELSE [m EXCEPT !.f.args = args, !.f.kwargs = kwargs]

------------------------------------------------------------------------------
(* FlatBuffers.  A frame is a table (named by the message's code), with    *)
(* the fields of its body, and the CBOR metadata beside it.                *)
Table(code, body, meta) == [code |-> code, body |-> body, meta |-> meta]
BadTable == Table(0, <<>>, Absent)

NoDictionary == {17, 33, 34, 65, 66}
Methods == {"anonymous", "ticket", "wampcra", "wamp-scram", "cryptosign"}
RequestTypes == {"16", "32", "34", "48", "64", "66", "68"}
DictionaryOf(code) ==
    CASE code \in {4, 5} -> "extra"
      [] code \in {16, 32, 48, 49, 64, 69, 70} -> "options"
      [] code \in NoDictionary -> "none"
      [] OTHER -> "details"

(* The typed fields of a table, of the keys this model tells apart, and    *)
(* what enumeration, unsigned or a boolean asks of the value.              *)
Typed(code) ==
    (IF code \in {8, 16, 36, 48, 50, 68, 70}
     THEN [ppt_scheme |-> "enum", ppt_keyid |-> "text"] ELSE <<>>)
    @@ (IF code \in {50, 70} THEN [progress |-> "bool"] ELSE <<>>)
    @@ (IF code = 36 THEN [topic |-> "text"] ELSE <<>>)
    @@ (IF code = 68 THEN [procedure |-> "text", receive_progress |-> "bool"] ELSE <<>>)

Texts == {"known", "other", "blank"}
Suits == [enum |-> Texts, text |-> Texts, bool |-> {"true", "false"}]

(* The columns of a payload; Abort and Goodbye have none.                  *)
Columns(code) == IF code \in PayloadCodes \ {3, 6} THEN {"args", "kwargs", "payload"} ELSE {}

(* project: the keys of a dictionary the table has a field for, null being *)
(* absent and a text outside the enumeration leaving the default.  One     *)
(* value of the wrong type fails the message.                              *)
Projects(code, d) ==
    \A k \in DOMAIN d \cap DOMAIN Typed(code) : d[k] \in Suits[Typed(code)[k]] \cup {"null"}

Project(code, d) ==
    LET keys == {k \in DOMAIN d \cap DOMAIN Typed(code) :
                   /\ d[k] # "null"
                   /\ Typed(code)[k] = "enum" => d[k] = "known"}
    IN  [k \in keys |-> Val(Typed(code)[k], d[k])]

(* agree: the typed fields must say what the metadata says.                *)
Agree(code, body, d) ==
    /\ Projects(code, d)
    /\ \A k \in DOMAIN Typed(code) :
         IF k \in DOMAIN Project(code, d)
         THEN k \in DOMAIN body /\ body[k] = Project(code, d)[k]
         ELSE k \notin DOMAIN body

(* validate_flatbuffers_payload: opaque or ordinary, and containers within *)
(* the binding's depth and size limits.                                    *)
ValidPayload(args, kwargs, transparent) ==
    /\ transparent # Absent => args = Absent /\ kwargs = Absent
    /\ args.x # "deep"

------------------------------------------------------------------------------
(* The control fields the encoder writes, and under which column.          *)
WritesSession ==
    1 :> [realm |-> "realm"] @@ 2 :> [session_id |-> "session"]
 @@ 3 :> [reason |-> "reason"] @@ 4 :> <<>> @@ 5 :> [signature |-> "signature"]
 @@ 6 :> [reason |-> "reason"] @@ 7 :> <<>>
 @@ 8 :> [request_type |-> "request_type", request_id |-> "request", error |-> "error"]

WritesPubSub ==
    16 :> [request_id |-> "request", topic |-> "topic"]
 @@ 17 :> [request_id |-> "request", publication_id |-> "publication"]
 @@ 32 :> [request_id |-> "request", topic |-> "topic"]
 @@ 33 :> [request_id |-> "request", subscription_id |-> "subscription"]
 @@ 34 :> [request_id |-> "request", subscription_id |-> "subscription"]
 @@ 35 :> [request_id |-> "request"]
 @@ 36 :> [subscription_id |-> "subscription", publication_id |-> "publication"]

WritesCalls ==
    48 :> [request_id |-> "request", procedure |-> "procedure"]
 @@ 49 :> [request_id |-> "request"] @@ 50 :> [request_id |-> "request"]
 @@ 64 :> [request_id |-> "request", procedure |-> "procedure"]
 @@ 65 :> [request_id |-> "request", registration_id |-> "registration"]
 @@ 66 :> [request_id |-> "request", registration_id |-> "registration"]
 @@ 67 :> [request_id |-> "request"]
 @@ 68 :> [request_id |-> "request", registration_id |-> "registration"]
 @@ 69 :> [request_id |-> "request"] @@ 70 :> [request_id |-> "request"]

Writes == WritesSession @@ WritesPubSub @@ WritesCalls

(* A known method is written by its number and by its name, another one    *)
(* as number 0, which is anonymous, and its name.                          *)
WriteMethod(name) ==
    [method |-> Val("int", IF name.x \in Methods THEN name.x ELSE "anonymous"),
     method_name |-> name]

(* The counters a HEARTBEAT has, and which of them these are.              *)
Counters == {"ping", "incoming", "outgoing"}
WriteCounters(f) ==
    LET present == {c \in Counters : f[c] # Absent}
    IN  [c \in present |-> f[c]] @@ "presence" :> [Val("int", "bits") EXCEPT !.d = [c \in present |-> "bit"]]

WritePayload(f) ==
    LET column == [args |-> "args", kwargs |-> "kwargs", transparent |-> "payload"]
        full   == {p \in DOMAIN column : f[p] # Absent}
    IN  [c \in {column[p] : p \in full} |-> f[CHOOSE p \in full : column[p] = c]]

(* encode: the whole table, or BadTable where the encoder refuses.         *)
FlatEncode(m) ==
    LET dict    == IF DictionaryOf(m.code) = "none" THEN Absent ELSE m.f[DictionaryOf(m.code)]
        writes  == Writes[m.code]
        control == [c \in {writes[n] : n \in DOMAIN writes} |->
                      m.f[CHOOSE n \in DOMAIN writes : writes[n] = c]]
                   @@ (IF m.code = 4 THEN WriteMethod(m.f.auth_method) ELSE <<>>)
                   @@ (IF m.code = 7 THEN WriteCounters(m.f) ELSE <<>>)
        payload == IF m.code \in PayloadCodes THEN WritePayload(m.f) ELSE <<>>
        fine    == /\ m.code = 4 => m.f.auth_method.x # "blank"
                   /\ m.code = 8 => m.f.request_type.x \in RequestTypes
                   /\ dict # Absent /\ m.code # 7 => Projects(m.code, dict.d)
                   /\ m.code \in PayloadCodes =>
                         ValidPayload(m.f.args, m.f.kwargs, m.f.transparent)
                   /\ DOMAIN payload \subseteq Columns(m.code)
    IN  IF m.code \in DOMAIN Writes /\ fine
        THEN Table(m.code, control @@ payload @@ Project(m.code, dict.d), dict)
        ELSE BadTable

------------------------------------------------------------------------------
(* What parse takes from the table: an integer nobody wrote is zero, a     *)
(* text must be there.                                                     *)
ReadsSession ==
    1 :> [realm |-> "realm"] @@ 2 :> [session_id |-> "session"]
 @@ 3 :> [reason |-> "reason"] @@ 4 :> <<>> @@ 5 :> [signature |-> "signature"]
 @@ 6 :> [reason |-> "reason"] @@ 7 :> <<>>
 @@ 8 :> [request_type |-> "request_type", request_id |-> "request", error |-> "error"]

ReadsRouted ==
    16 :> [request_id |-> "request", topic |-> "topic"]
 @@ 17 :> [request_id |-> "request", publication_id |-> "publication"]
 @@ 32 :> [request_id |-> "request", topic |-> "topic"]
 @@ 33 :> [request_id |-> "request", subscription_id |-> "subscription"]
 @@ 34 :> [request_id |-> "request", subscription_id |-> "subscription"]
 @@ 35 :> [request_id |-> "request"]
 @@ 36 :> [subscription_id |-> "subscription", publication_id |-> "publication"]
 @@ 48 :> [request_id |-> "request", procedure |-> "procedure"]
 @@ 49 :> [request_id |-> "request"] @@ 50 :> [request_id |-> "request"]
 @@ 64 :> [request_id |-> "request", procedure |-> "procedure"]
 @@ 65 :> [request_id |-> "request", registration_id |-> "registration"]
 @@ 66 :> [request_id |-> "request", registration_id |-> "registration"]
 @@ 67 :> [request_id |-> "request"]
 @@ 68 :> [request_id |-> "request", registration_id |-> "registration"]
 @@ 69 :> [request_id |-> "request"] @@ 70 :> [request_id |-> "request"]

Reads == ReadsSession @@ ReadsRouted
TextColumns == {"realm", "reason", "signature", "error", "topic", "procedure"}
Column(w, c) == IF c \in DOMAIN w.body THEN w.body[c] ELSE Absent
Integer(w, c) == IF c \in DOMAIN w.body THEN w.body[c] ELSE Val("int", "0")

(* challenge: the number and the name must not contradict each other.      *)
ReadMethod(w) ==
    LET method == IF "method" \in DOMAIN w.body THEN w.body.method.x ELSE "anonymous"
        name   == Column(w, "method_name")
    IN  IF name = Absent THEN Val("str", method)
        ELSE IF \/ name.x = "blank"
                \/ name.x \in Methods /\ name.x # method
                \/ name.x \notin Methods /\ method # "anonymous"
             THEN Wrong ELSE name

(* A counter without its presence bit is None, and must then be zero.      *)
ReadCounter(w, c) ==
    IF "presence" \notin DOMAIN w.body \/ c \in DOMAIN w.body.presence.d
    THEN Integer(w, c)
    ELSE IF Integer(w, c).x = "0" THEN Absent ELSE Wrong

(* parse: the guards in their order, then the message of the table.        *)
FlatParse(w) ==
    LET reads == Reads[w.code]
        f == [n \in DOMAIN reads |->
                IF reads[n] \in TextColumns THEN Column(w, reads[n]) ELSE Integer(w, reads[n])]
             @@ (IF w.code = 4 THEN "auth_method" :> ReadMethod(w) ELSE <<>>)
             @@ (IF w.code = 7 THEN [c \in Counters |-> ReadCounter(w, c)] ELSE <<>>)
             @@ (IF w.code \in NoDictionary THEN <<>> ELSE DictionaryOf(w.code) :> w.meta)
             @@ (IF w.code \notin PayloadCodes THEN <<>>
                 ELSE [args |-> Column(w, "args"), kwargs |-> Column(w, "kwargs"),
                       transparent |-> Column(w, "payload")])
    IN  IF /\ w.code \in DOMAIN Reads
           /\ w.code \notin {2, 7} => Integer(w, "session").x = "0"
           /\ (w.meta = Absent) <=> (w.code \in NoDictionary)
           /\ w.code # 7 => Agree(w.code, w.body, w.meta.d)
           /\ ValidPayload(Column(w, "args"), Column(w, "kwargs"), Column(w, "payload"))
           /\ w.code = 8 => f.request_type.x \in RequestTypes
           /\ \A n \in DOMAIN f : f[n] # Wrong
           /\ \A n \in DOMAIN reads : f[n] # Absent
        THEN Message(w.code, f)
        ELSE Bad

(* parse_message_frame.                                                    *)
Parse(serializer, wire, segmented) ==
    CASE serializer = "json"    -> ParseJson(wire)
      [] serializer = "msgpack" -> ParseMsgPack(wire)
      [] serializer = "cbor"    -> ParseCbor(wire, segmented)
      [] OTHER                  -> FlatParse(wire)
==============================================================================
