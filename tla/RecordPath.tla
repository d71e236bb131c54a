----------------------------- MODULE RecordPath -----------------------------
(***************************************************************************)
(* What process_record does with the bytes of one message: the identifier  *)
(* of its stream (cache.rs, record/router.rs) and the line appended to     *)
(* that stream's file (record/decoder.rs, json_serializer.rs).  Module     *)
(* StateMachine takes both as given by the log.                            *)
(*                                                                         *)
(* A text is the sequence of its segments, the parts between delimiters    *)
(* (0x1F, RouterStrategy::DELIMITER): joining texts by a delimiter is \o,  *)
(* and << >> is the empty text.  A payload is the sequence of its bytes.   *)
(***************************************************************************)
EXTENDS Naturals, Sequences, SequencesExt

CONSTANTS
    InputTopics,    \* config.kafka.input_topics
    Messages,       \* the messages of these topics
    NoValue,        \* the value of a header without one
    NoPayload,      \* the payload of a tombstone
    NotUtf8,        \* segments with bytes that are not UTF-8
    NotJson         \* segments with a quote, a backslash or a control byte

Routers  == {"TopicVersion", "Dlq"}
Decoders == {"JsonSchemaDecoder", "JsonStringDecoder"}
TopicConfig == [decoder : Decoders, router : Routers]
Text     == Seq(STRING)
Header   == [key : STRING, value : Text \cup {NoValue}]
Message  == [topic : STRING, headers : Seq(Header),
             payload : Seq(0 .. 255) \cup {NoPayload}]

ASSUME RecordPathAssumption ==
    /\ InputTopics \in Seq([config : TopicConfig, topics : SUBSET STRING])
    /\ \A m \in Messages : m \in Message
    /\ \A m \in Messages : \E i \in DOMAIN InputTopics : m.topic \in InputTopics[i].topics
    /\ NoValue \notin Text

VARIABLES
    running,    \* the process runs
    id_buf,     \* Cache.buf
    ids,        \* Cache.ids
    buf,        \* JsonSerializer.buf, as the sequence of the lines in it
    taken       \* history: [message, stream_id, lines it had written]

vars == <<running, id_buf, ids, buf, taken>>

-----------------------------------------------------------------------------
(* RouterStrategy::write_id                                                 *)

IsUtf8(text) == ToSet(text) \cap NotUtf8 = {}

Usable(header, key) ==
    /\ header.key = key
    /\ header.value # NoValue
    /\ header.value # << >>
    /\ IsUtf8(header.value)

\* The names that stand for a missing header.
Unknown == {"unknown_schema_name", "unknown_schema_version", "unknown_status_code"}

First(I) == CHOOSE i \in I : \A j \in I : i <= j

\* Mutant of get_header: finds the first header of that name, then looks at it.
get_header_first(m, key, unknown) ==
    LET named == {i \in DOMAIN m.headers : m.headers[i].key = key}
    IN  IF named # {} /\ Usable(m.headers[First(named)], key)
        THEN m.headers[First(named)].value ELSE <<unknown>>

get_header(m, key, unknown) ==
    LET usable == {i \in DOMAIN m.headers : Usable(m.headers[i], key)}
    IN  IF usable = {} THEN <<unknown>> ELSE m.headers[First(usable)].value

group_by_topic_version(m) ==
    get_header(m, "schema_name", "unknown_schema_name")
        \o get_header(m, "schema_version", "unknown_schema_version")

StatusSegment(text) == "status_code=" \o text

group_by_dlq(m) ==
    LET status == get_header(m, "status_code", "unknown_status_code")
    IN  <<m.topic>> \o group_by_topic_version(m)
            \o <<StatusSegment(Head(status))>> \o Tail(status)

\* A name before a text makes a text, and another one before another text: facts
\* about strings, stated for those that occur.
StatusTexts == {Head(h.value) : h \in {g \in UNION {ToSet(m.headers) : m \in Messages} :
                                            Usable(g, "status_code")}}
                   \cup {"unknown_status_code"}

ASSUME TextAssumption ==
    /\ Unknown \subseteq STRING
    /\ \A s, t \in StatusTexts :
          /\ StatusSegment(s) \in STRING
          /\ StatusSegment(s) = StatusSegment(t) => s = t

\* Cache::new: of the entries that list a topic the last one counts.
ConfigOf(m) ==
    InputTopics[SelectLastInSeq(InputTopics, LAMBDA e : m.topic \in e.topics)].config

\* Mutant of write_id: appends to what the buffer holds.
write_id_unclear(m) ==
    id_buf \o (IF ConfigOf(m).router = "Dlq" THEN group_by_dlq(m)
                                             ELSE group_by_topic_version(m))

\* What the buffer holds afterwards: it is cleared before the groups are written.
write_id(m) ==
    IF ConfigOf(m).router = "Dlq" THEN group_by_dlq(m) ELSE group_by_topic_version(m)

-----------------------------------------------------------------------------
(* RecordDecoder::data_payload and JsonSerializer::serialize                *)

SchemaHeader == 5   \* magic byte and schema id

Decodes(m) ==
    ConfigOf(m).decoder = "JsonSchemaDecoder"
        => Len(m.payload) >= SchemaHeader /\ m.payload[1] = 0

data_payload(m) ==
    IF ConfigOf(m).decoder = "JsonSchemaDecoder"
    THEN SubSeq(m.payload, SchemaHeader + 1, Len(m.payload))
    ELSE m.payload

\* No quote, backslash or control byte; a delimiter is a control byte.
is_valid_json(text) == Len(text) <= 1 /\ ToSet(text) \cap NotJson = {}

\* Mutant of Kept: looks at the value alone.
KeptByValue(header) == header.value # NoValue /\ is_valid_json(header.value)

Kept(header) ==
    /\ header.value # NoValue
    /\ is_valid_json(header.value)
    /\ is_valid_json(<<header.key>>)

\* The headers that are kept, each at its place in the message.
line(m) ==
    [data    |-> data_payload(m),
     headers |-> Restrict(m.headers, {i \in DOMAIN m.headers : Kept(m.headers[i])})]

\* Mutant of serialize: appends to what the buffer holds.
serialize_unclear(m) == Append(buf, line(m))

serialize(m) == <<line(m)>>

-----------------------------------------------------------------------------
Init ==
    /\ running = TRUE
    /\ id_buf = << >>
    /\ ids = {}
    /\ buf = << >>
    /\ taken = {}

\* Cache::get_or_create_record_metadata; the identifier is read from the buffer.
Metadata(m) ==
    /\ running
    /\ id_buf' = write_id(m)
    /\ ids' = ids \cup {id_buf'}

\* The state machine takes the record with the identifier Metadata read from the
\* buffer and the lines the serializer left in its own.
Took(m, lines) ==
    taken' = taken \cup {[message |-> m, stream_id |-> id_buf', lines |-> lines]}

\* What is in the serializer's buffer goes to the file of the stream.
WriteRecord(m) ==
    /\ Metadata(m)
    /\ m.payload # NoPayload
    /\ Decodes(m)
    /\ data_payload(m) # << >>
    /\ buf' = serialize(m)
    /\ Took(m, buf')
    /\ UNCHANGED running

\* A tombstone, or a payload without a body: consumed, with nothing to write.
SkipRecord(m) ==
    /\ Metadata(m)
    /\ \/ m.payload = NoPayload /\ UNCHANGED buf
       \/ m.payload # NoPayload /\ Decodes(m) /\ data_payload(m) = << >> /\ buf' = << >>
    /\ Took(m, << >>)
    /\ UNCHANGED running

\* A payload the decoder refuses is fatal.
RefuseRecord(m) ==
    /\ Metadata(m)
    /\ m.payload # NoPayload
    /\ ~Decodes(m)
    /\ buf' = << >>
    /\ running' = FALSE
    /\ UNCHANGED taken

\* A new process, after a fatal record or at any time.
Restart ==
    /\ running' = TRUE
    /\ id_buf' = << >>
    /\ ids' = {}
    /\ buf' = << >>
    /\ UNCHANGED taken

Next ==
    \/ \E m \in Messages : WriteRecord(m) \/ SkipRecord(m) \/ RefuseRecord(m)
    \/ Restart

Spec == Init /\ [][Next]_vars

-----------------------------------------------------------------------------
(* An identifier has as many segments as its texts have, and the buffer     *)
(* never holds more than the last line.                                     *)
TypeOK ==
    /\ running \in BOOLEAN
    /\ \A id \in ids \cup {id_buf} : id \in Text
    /\ id_buf \in ids \cup {<< >>}
    /\ Len(buf) <= 1
    /\ \A t \in taken : t.message \in Messages /\ t.stream_id \in Text

\* The values that identify a message's stream, as a reader of the headers
\* finds them: the first one that is text and not empty.
HeaderText(m, key) ==
    LET I == {i \in DOMAIN m.headers : Usable(m.headers[i], key)}
    IN  IF I = {} THEN NoValue
        ELSE m.headers[First(I)].value

Route(m) ==
    LET named == <<HeaderText(m, "schema_name"), HeaderText(m, "schema_version")>>
    IN  IF ConfigOf(m).router = "Dlq"
        THEN named \o <<m.topic, HeaderText(m, "status_code")>>
        ELSE named

\* No header that identifies the stream has a delimiter inside, or spells the
\* name that stands for a missing one.
Plain(m) ==
    \A key \in {"schema_name", "schema_version", "status_code"} :
        LET text == HeaderText(m, key)
        IN  text = NoValue \/ (Len(text) = 1 /\ Head(text) \notin Unknown)

\* Two messages go to one stream exactly if they agree on what routes them,
\* whichever messages came before, from whichever topics, in this process or
\* an earlier one.  Headers that are not Plain make identifiers ambiguous and
\* are excepted (write_id, get_or_create_stream_id).
StreamPerRoute ==
    \A s, t \in taken :
        Plain(s.message) /\ Plain(t.message) =>
            (s.stream_id = t.stream_id <=> Route(s.message) = Route(t.message))

\* What is appended to a file for a message is one line, it holds that
\* message's own payload without what its own topic's decoder takes off, and no
\* header in it can end the JSON string it is written into; a message without
\* a body appends nothing, and none with a broken schema header is passed over
\* as if it had no body (serialize, data_payload).
LinesStandAlone ==
    \A t \in taken :
        LET prefix == IF ConfigOf(t.message).decoder = "JsonSchemaDecoder" THEN SchemaHeader ELSE 0
            body == IF t.message.payload = NoPayload THEN << >>
                    ELSE SubSeq(t.message.payload, prefix + 1, Len(t.message.payload))
        IN  /\ Len(t.lines) = (IF body = << >> THEN 0 ELSE 1)
            /\ prefix > 0 /\ t.message.payload # NoPayload =>
                  Len(t.message.payload) >= prefix /\ t.message.payload[1] = 0
            /\ \A i \in DOMAIN t.lines :
                  /\ t.lines[i].data = body
                  /\ \A j \in DOMAIN t.lines[i].headers :
                        LET h == t.lines[i].headers[j]
                        IN  /\ h \in ToSet(t.message.headers)
                            /\ is_valid_json(h.value) /\ is_valid_json(<<h.key>>)

\* "Headers that contain problematic characters will be dropped"
\* (json_serializer.rs): what is left of the headers in a line is UTF-8 text.
HeadersAreText ==
    \A t \in taken : \A i \in DOMAIN t.lines : \A j \in DOMAIN t.lines[i].headers :
        IsUtf8(t.lines[i].headers[j].value)
=============================================================================
