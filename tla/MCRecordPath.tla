---------------------------- MODULE MCRecordPath ----------------------------
(* Messages for the model checking runs of RecordPath and ObjectKeys.   *)
EXTENDS ObjectKeys

Config(decoder, router) == [decoder |-> decoder, router |-> router]

\* Two topics with one router and different decoders share streams; `events`
\* is listed twice.
Topics == <<[config |-> Config("JsonSchemaDecoder", "TopicVersion"), topics |-> {"orders", "events"}],
            [config |-> Config("JsonStringDecoder", "TopicVersion"), topics |-> {"events"}],
            [config |-> Config("JsonStringDecoder", "Dlq"), topics |-> {"dlq"}]>>

Msg(topic, headers, payload) == [topic |-> topic, headers |-> headers, payload |-> payload]
H(key, value) == [key |-> key, value |-> value]

Name(v) == H("schema_name", v)
Version(v) == H("schema_version", v)

\* A magic byte, four bytes of schema id, and a body of one byte.
Framed == <<0, 1, 1, 1, 1, 123>>

TestMessages == {
    Msg("orders", <<Name(<<"a">>), Version(<<"1">>), H("escaped", <<"x">>)>>, Framed),
    Msg("orders", <<Name(<< >>), Name(<<"binary">>), Name(<<"a">>), Version(<<"1">>)>>, <<0, 1, 1, 1, 1>>),
    Msg("orders", <<Name(<<"a">>)>>, <<0, 1, 1>>),
    Msg("orders", <<Name(<<"a">>)>>, <<7, 1, 1, 1, 1, 123>>),
    Msg("events", <<Name(<<"a">>), Version(<<"1">>), H("trace", <<"quoted">>)>>, Framed),
    Msg("events", <<Name(NoValue), H("trace", NoValue), H("trace", << >>)>>, <<123>>),
    Msg("events", <<Name(<<"dlq", "a">>), Version(<<"1", "status_code=400">>)>>, <<123>>),
    Msg("dlq", <<Name(<<"a">>), Version(<<"1">>), H("status_code", <<"400">>)>>, <<123, 125>>),
    Msg("dlq", <<Name(<<"a">>), Version(<<"1">>)>>, NoPayload),
    Msg("events", <<Name(<<"a">>), Version(<<"1/x">>)>>, <<123>>) }

\* A version with a slash, and two seconds of different days.
SlashedSegments == [s \in {"1/x"} |-> <<"1", "x">>]
TestInstants == {[day |-> "2026-05-29", time |-> "2026-05-29T23:59:59Z"],
                 [day |-> "2026-05-30", time |-> "2026-05-30T00:00:00Z"]}

\* A header whose value is not text, after one that is.
BinaryMessages == {
    Msg("events", <<Name(<<"a">>)>>, <<123>>),
    Msg("events", <<Name(<<"a">>), H("trace", <<"binary">>)>>, <<123>>) }
=============================================================================
