---------------------------- MODULE RecordProofs ----------------------------
(***************************************************************************)
(* What process_record makes of a message, for all messages and            *)
(* configurations: identifiers are sequences of texts, messages share a    *)
(* stream exactly if they agree on what routes them, and a line holds      *)
(* nothing but its own message.                                            *)
(*                                                                         *)
(* The inductive invariant is the history's: a message was given the       *)
(* identifier write_id makes of it and the line serialize makes of it,     *)
(* both read from reused buffers, whatever these held before.  The rest is *)
(* about the operators: which header is chosen, and that joining texts     *)
(* loses none.                                                             *)
(***************************************************************************)
EXTENDS ObjectKeys, SequenceTheorems, WellFoundedInduction, TLAPS

\* The first index of a non-empty set exists and is in it.
LEMMA FirstIsLeast ==
    ASSUME NEW I \in SUBSET Nat, I # {}
    PROVE  /\ First(I) \in I
           /\ \A j \in I : First(I) <= j
<1> DEFINE Less == OpToRel(<, Nat)
<1>1. IsWellFoundedOn(Less, Nat) /\ (\A x, y \in Nat : y < x => <<y, x>> \in Less)
  BY NatLessThanWellFounded DEF OpToRel
<1> HIDE DEF Less
<1>2. PICK n \in I : \A j \in I : ~ (<<j, n>> \in Less)
  BY <1>1, WFMin
<1>3. ASSUME NEW j \in I PROVE n <= j
  <2>1. ~ (j < n)
    BY <1>1, <1>2, Zenon
  <2> QED
    BY <2>1
<1> QED
  BY <1>3 DEF First

LEMMA Singleton == ASSUME NEW S, NEW x \in S PROVE <<x>> \in Seq(S)
OBVIOUS

LEMMA MessageTypes ==
    ASSUME NEW m \in Messages
    PROVE  /\ m.topic \in STRING
           /\ m.headers \in Seq(Header)
           /\ DOMAIN m.headers \subseteq Nat
           /\ \A i \in DOMAIN m.headers : m.headers[i] \in Header
           /\ m.payload = NoPayload \/ m.payload \in Seq(0 .. 255)
<1>1. m \in Message
  BY RecordPathAssumption
<1>2. m.headers \in Seq(Header)
  BY <1>1 DEF Message
<1>3. DOMAIN m.headers = 1 .. Len(m.headers) /\ Len(m.headers) \in Nat
  BY <1>2
<1> QED
  BY <1>1, <1>2, <1>3 DEF Message

-----------------------------------------------------------------------------
(* The identifier of a message.                                             *)

\* get_header gives the text that HeaderText finds, or the name for none.
LEMMA HeaderFacts ==
    ASSUME NEW m \in Messages, NEW key, NEW unknown \in STRING
    PROVE  /\ HeaderText(m, key) \in Text \cup {NoValue}
           /\ HeaderText(m, key) # << >>
           /\ get_header(m, key, unknown) =
                 IF HeaderText(m, key) = NoValue THEN <<unknown>> ELSE HeaderText(m, key)
           /\ HeaderText(m, key) # NoValue =>
                 \E i \in DOMAIN m.headers :
                     Usable(m.headers[i], key) /\ HeaderText(m, key) = m.headers[i].value
<1> DEFINE I == {i \in DOMAIN m.headers : Usable(m.headers[i], key)}
<1>1. I \subseteq Nat
  BY MessageTypes
<1>2. CASE I = {}
  <2>1. NoValue # << >>
    <3>1. NoValue \notin Text /\ << >> \in Text
      BY RecordPathAssumption DEF Text
    <3> QED
      BY <3>1
  <2>2. HeaderText(m, key) = NoValue /\ get_header(m, key, unknown) = <<unknown>>
    BY <1>2 DEF HeaderText, get_header
  <2> QED
    BY <2>1, <2>2
<1>3. CASE I # {}
  <2>1. First(I) \in I
    BY <1>1, <1>3, FirstIsLeast
  <2>2. /\ HeaderText(m, key) = m.headers[First(I)].value
        /\ get_header(m, key, unknown) = m.headers[First(I)].value
    BY <1>3 DEF HeaderText, get_header
  <2>3. m.headers[First(I)] \in Header /\ Usable(m.headers[First(I)], key)
    BY <2>1, MessageTypes
  <2> HIDE DEF I
  <2> QED
    BY <2>1, <2>2, <2>3 DEF Usable, Header, I
<1> QED
  BY <1>2, <1>3

LEMMA GetHeaderType ==
    ASSUME NEW m \in Messages, NEW key, NEW unknown \in STRING
    PROVE  get_header(m, key, unknown) \in Text /\ get_header(m, key, unknown) # << >>
<1>1. <<unknown>> \in Text /\ <<unknown>> # << >>
  <2>1. <<unknown>> \in Text
    BY Singleton DEF Text
  <2>2. Len(<<unknown>>) = 1 /\ Len(<< >>) = 0
    OBVIOUS
  <2> QED
    BY <2>1, <2>2
<1> QED
  BY <1>1, HeaderFacts

\* The names for a missing header are texts.
LEMMA UnknownType ==
    /\ "unknown_schema_name" \in STRING
    /\ "unknown_schema_version" \in STRING
    /\ "unknown_status_code" \in STRING
    /\ \A s \in Unknown : s \in STRING
BY TextAssumption DEF Unknown

\* What follows status_code= is one of the texts the assumption is about.
LEMMA StatusKnown ==
    ASSUME NEW m \in Messages
    PROVE  Head(get_header(m, "status_code", "unknown_status_code")) \in StatusTexts
<1> DEFINE text == HeaderText(m, "status_code")
<1>1. CASE text = NoValue
  <2>1. get_header(m, "status_code", "unknown_status_code") = <<"unknown_status_code">>
    BY <1>1, HeaderFacts, UnknownType
  <2> QED
    BY <2>1 DEF StatusTexts
<1>2. CASE text # NoValue
  <2>1. PICK i \in DOMAIN m.headers :
           Usable(m.headers[i], "status_code") /\ text = m.headers[i].value
    BY <1>2, HeaderFacts, UnknownType
  <2>2. m.headers[i] \in UNION {ToSet(x.headers) : x \in Messages}
    BY DEF ToSet
  <2>3. Head(text) \in StatusTexts
    BY <2>1, <2>2 DEF StatusTexts
  <2> QED
    BY <1>2, <2>3, HeaderFacts, UnknownType
<1> QED
  BY <1>1, <1>2

LEMMA WriteIdType ==
    ASSUME NEW m \in Messages
    PROVE  write_id(m) \in Text
<1> DEFINE name    == get_header(m, "schema_name", "unknown_schema_name")
           version == get_header(m, "schema_version", "unknown_schema_version")
           status  == get_header(m, "status_code", "unknown_status_code")
<1>1. name \in Text /\ version \in Text /\ status \in Text /\ status # << >>
  BY GetHeaderType, UnknownType
<1>2. StatusSegment(Head(status)) \in STRING
  BY StatusKnown, TextAssumption
<1>3. Tail(status) \in Text
  BY <1>1 DEF Text
<1>4. m.topic \in STRING
  BY MessageTypes
<1>5. group_by_topic_version(m) \in Text
  BY <1>1 DEF group_by_topic_version, Text
<1> HIDE DEF status
<1>6. group_by_dlq(m) \in Text
  <2>1. <<m.topic>> \in Text /\ <<StatusSegment(Head(status))>> \in Text
    BY <1>2, <1>4 DEF Text
  <2>2. group_by_dlq(m) = <<m.topic>> \o group_by_topic_version(m)
                              \o <<StatusSegment(Head(status))>> \o Tail(status)
    BY DEF group_by_dlq, status
  <2> QED
    BY <1>3, <1>5, <2>1, <2>2 DEF Text
<1> QED
  BY <1>5, <1>6 DEF write_id

\* The texts of a Plain message are single segments, and the name for a missing
\* one is none of them.
LEMMA PlainHeader ==
    ASSUME NEW m \in Messages, Plain(m),
           NEW key \in {"schema_name", "schema_version", "status_code"},
           NEW unknown \in Unknown
    PROVE  \E s \in STRING :
              /\ get_header(m, key, unknown) = <<s>>
              /\ HeaderText(m, key) = NoValue => s = unknown
              /\ HeaderText(m, key) # NoValue => HeaderText(m, key) = <<s>> /\ s \notin Unknown
<1>1. unknown \in STRING
  BY UnknownType
<1>2. CASE HeaderText(m, key) = NoValue
  BY <1>1, <1>2, HeaderFacts
<1>3. CASE HeaderText(m, key) # NoValue
  <2> DEFINE text == HeaderText(m, key)
  <2>1. text \in Seq(STRING) /\ Len(text) = 1 /\ Head(text) \notin Unknown
    BY <1>1, <1>3, HeaderFacts DEF Plain, Text
  <2> HIDE DEF text
  <2>2. text = <<Head(text)>> /\ Head(text) \in STRING
    BY <2>1
  <2>3. get_header(m, key, unknown) = text
    BY <1>1, <1>3, HeaderFacts DEF text
  <2> QED
    BY <1>3, <2>1, <2>2, <2>3 DEF text
<1> QED
  BY <1>2, <1>3

\* Two Plain messages have the same name for a header exactly if they have the
\* same text.
LEMMA SameHeader ==
    ASSUME NEW m \in Messages, NEW n \in Messages, Plain(m), Plain(n),
           NEW key \in {"schema_name", "schema_version", "status_code"},
           NEW unknown \in Unknown
    PROVE  get_header(m, key, unknown) = get_header(n, key, unknown)
              <=> HeaderText(m, key) = HeaderText(n, key)
<1>1. PICK s \in STRING :
        /\ get_header(m, key, unknown) = <<s>>
        /\ HeaderText(m, key) = NoValue => s = unknown
        /\ HeaderText(m, key) # NoValue => HeaderText(m, key) = <<s>> /\ s \notin Unknown
  BY PlainHeader
<1>2. PICK t \in STRING :
        /\ get_header(n, key, unknown) = <<t>>
        /\ HeaderText(n, key) = NoValue => t = unknown
        /\ HeaderText(n, key) # NoValue => HeaderText(n, key) = <<t>> /\ t \notin Unknown
  BY PlainHeader
<1>3. <<s>> = <<t>> <=> s = t
  OBVIOUS
<1>4. unknown \in Unknown
  OBVIOUS
<1> QED
  BY <1>1, <1>2, <1>3, <1>4

LEMMA SecondPart ==
    ASSUME NEW S, NEW a \in Seq(S), NEW b \in Seq(S), NEW i \in 1 .. Len(b)
    PROVE  (a \o b)[Len(a) + i] = b[i]
OBVIOUS

\* A concatenation can be taken apart where its first part ends.
LEMMA Unjoin ==
    ASSUME NEW S, NEW a \in Seq(S), NEW b \in Seq(S), NEW c \in Seq(S), NEW d \in Seq(S),
           Len(a) = Len(c), a \o b = c \o d
    PROVE  a = c /\ b = d
<1>1. /\ Len(a) \in Nat /\ Len(b) \in Nat /\ Len(c) \in Nat /\ Len(d) \in Nat
      /\ Len(a \o b) = Len(a) + Len(b) /\ Len(c \o d) = Len(c) + Len(d)
  BY ConcatProperties, LenProperties
<1>2. Len(b) = Len(d)
  BY <1>1
<1>3. \A i \in 1 .. Len(a) : (a \o b)[i] = a[i] /\ (c \o d)[i] = c[i]
  OBVIOUS
<1>4. /\ \A i \in 1 .. Len(b) : (a \o b)[Len(a) + i] = b[i]
      /\ \A i \in 1 .. Len(d) : (c \o d)[Len(c) + i] = d[i]
  BY SecondPart, Zenon
<1>5. a = c
  BY <1>3, SeqEqual
<1>6. b = d
  BY <1>2, <1>4, SeqEqual
<1> QED
  BY <1>5, <1>6

\* A Plain message of a Dlq topic has four segments, another one two.
LEMMA PlainId ==
    ASSUME NEW m \in Messages, Plain(m)
    PROVE  \E name, version, status \in STRING :
              /\ <<name>> = get_header(m, "schema_name", "unknown_schema_name")
              /\ <<version>> = get_header(m, "schema_version", "unknown_schema_version")
              /\ <<status>> = get_header(m, "status_code", "unknown_status_code")
              /\ status \in StatusTexts
              /\ group_by_topic_version(m) = <<name>> \o <<version>>
              /\ group_by_dlq(m) = <<m.topic>> \o (<<name>> \o <<version>>)
                                       \o <<StatusSegment(status)>>
<1>1. PICK name \in STRING : get_header(m, "schema_name", "unknown_schema_name") = <<name>>
  BY PlainHeader DEF Unknown
<1>2. PICK version \in STRING :
         get_header(m, "schema_version", "unknown_schema_version") = <<version>>
  BY PlainHeader DEF Unknown
<1>3. PICK status \in STRING :
         get_header(m, "status_code", "unknown_status_code") = <<status>>
  BY PlainHeader DEF Unknown
<1>4. Head(<<status>>) = status /\ Tail(<<status>>) = << >>
  OBVIOUS
<1>5. status \in StatusTexts
  BY <1>3, <1>4, StatusKnown
<1>6. group_by_topic_version(m) = <<name>> \o <<version>>
  BY <1>1, <1>2 DEF group_by_topic_version
<1>7. StatusSegment(status) \in STRING /\ m.topic \in STRING
  BY <1>5, TextAssumption, MessageTypes
<1>8. group_by_dlq(m) = <<m.topic>> \o (<<name>> \o <<version>>) \o <<StatusSegment(status)>>
  <2>1. group_by_dlq(m) = <<m.topic>> \o (<<name>> \o <<version>>)
                              \o <<StatusSegment(status)>> \o << >>
    BY <1>3, <1>4, <1>6 DEF group_by_dlq
  <2>2. /\ <<m.topic>> \in Seq(STRING) /\ <<name>> \in Seq(STRING)
        /\ <<version>> \in Seq(STRING) /\ <<StatusSegment(status)>> \in Seq(STRING)
    BY <1>7
  <2>3. <<m.topic>> \o (<<name>> \o <<version>>) \o <<StatusSegment(status)>> \in Seq(STRING)
    BY <2>2
  <2> QED
    BY <2>1, <2>3
<1> QED
  BY <1>1, <1>2, <1>3, <1>5, <1>6, <1>8

LEMMA JoinLength ==
    ASSUME NEW S, NEW s \in Seq(S), NEW t \in Seq(S)
    PROVE  s \o t \in Seq(S) /\ Len(s \o t) = Len(s) + Len(t)
OBVIOUS

LEMMA TwoLong ==
    ASSUME NEW S, NEW a \in S, NEW b \in S
    PROVE  <<a>> \o <<b>> \in Seq(S) /\ Len(<<a>> \o <<b>>) = 2
OBVIOUS

\* Identifiers of one router agree exactly if the messages' routes do; those
\* of different routers never do.
LEMMA SameRoute ==
    ASSUME NEW m \in Messages, NEW n \in Messages, Plain(m), Plain(n)
    PROVE  write_id(m) = write_id(n) <=> Route(m) = Route(n)
<1> DEFINE dlq(x) == ConfigOf(x).router = "Dlq"
           N(x) == HeaderText(x, "schema_name")
           V(x) == HeaderText(x, "schema_version")
           C(x) == HeaderText(x, "status_code")
<1>1. PICK a, b, c \in STRING :
         /\ <<a>> = get_header(m, "schema_name", "unknown_schema_name")
         /\ <<b>> = get_header(m, "schema_version", "unknown_schema_version")
         /\ <<c>> = get_header(m, "status_code", "unknown_status_code")
         /\ c \in StatusTexts
         /\ group_by_topic_version(m) = <<a>> \o <<b>>
         /\ group_by_dlq(m) = <<m.topic>> \o (<<a>> \o <<b>>) \o <<StatusSegment(c)>>
  BY PlainId
<1>2. PICK d, e, f \in STRING :
         /\ <<d>> = get_header(n, "schema_name", "unknown_schema_name")
         /\ <<e>> = get_header(n, "schema_version", "unknown_schema_version")
         /\ <<f>> = get_header(n, "status_code", "unknown_status_code")
         /\ f \in StatusTexts
         /\ group_by_topic_version(n) = <<d>> \o <<e>>
         /\ group_by_dlq(n) = <<n.topic>> \o (<<d>> \o <<e>>) \o <<StatusSegment(f)>>
  BY PlainId
<1>3. /\ a = d <=> N(m) = N(n)
      /\ b = e <=> V(m) = V(n)
      /\ c = f <=> C(m) = C(n)
  <2>1. (<<a>> = <<d>> <=> a = d) /\ (<<b>> = <<e>> <=> b = e) /\ (<<c>> = <<f>> <=> c = f)
    OBVIOUS
  <2> QED
    BY <1>1, <1>2, <2>1, SameHeader DEF Unknown
<1>4. /\ m.topic \in STRING /\ n.topic \in STRING
      /\ StatusSegment(c) \in STRING /\ StatusSegment(f) \in STRING
      /\ StatusSegment(c) = StatusSegment(f) => c = f
  BY <1>1, <1>2, MessageTypes, TextAssumption
<1>5. <<a>> \o <<b>> = <<d>> \o <<e>> <=> (a = d /\ b = e)
  <2>1. /\ <<a>> \in Seq(STRING) /\ <<b>> \in Seq(STRING)
        /\ <<d>> \in Seq(STRING) /\ <<e>> \in Seq(STRING)
    BY Singleton, Zenon
  <2>2. Len(<<a>>) = Len(<<d>>)
    OBVIOUS
  <2>3. <<a>> \o <<b>> = <<d>> \o <<e>> => <<a>> = <<d>> /\ <<b>> = <<e>>
    BY <2>1, <2>2, Unjoin, Zenon
  <2>4. (<<a>> = <<d>> => a = d) /\ (<<b>> = <<e>> => b = e)
    OBVIOUS
  <2> QED
    BY <2>3, <2>4, Zenon
<1>6. group_by_dlq(m) = group_by_dlq(n)
         <=> (m.topic = n.topic /\ a = d /\ b = e /\ c = f)
  <2> DEFINE ab == <<a>> \o <<b>>
             de == <<d>> \o <<e>>
             tm == <<m.topic>>
             tn == <<n.topic>>
             sc == <<StatusSegment(c)>>
             sf == <<StatusSegment(f)>>
  <2>1. ab \in Seq(STRING) /\ de \in Seq(STRING) /\ Len(ab) = 2 /\ Len(de) = 2
    BY TwoLong
  <2>2. /\ tm \in Seq(STRING) /\ tn \in Seq(STRING) /\ Len(tm) = 1 /\ Len(tn) = 1
        /\ tm = tn => m.topic = n.topic
    BY <1>4
  <2>3. sc \in Seq(STRING) /\ sf \in Seq(STRING) /\ (sc = sf => c = f)
    BY <1>4
  <2>4. group_by_dlq(m) = tm \o ab \o sc /\ group_by_dlq(n) = tn \o de \o sf
    BY <1>1, <1>2
  <2>5. ab = de => a = d /\ b = e
    BY <1>5
  <2> HIDE DEF ab, de, tm, tn, sc, sf
  <2>6. /\ tm \o ab \in Seq(STRING) /\ tn \o de \in Seq(STRING)
        /\ Len(tm \o ab) = Len(tn \o de)
    <3>1. Len(tm \o ab) = Len(tm) + Len(ab) /\ Len(tn \o de) = Len(tn) + Len(de)
      BY <2>1, <2>2, JoinLength, Zenon
    <3> QED
      BY <2>1, <2>2, <3>1, JoinLength, Zenon
  <2>7. ASSUME tm \o ab \o sc = tn \o de \o sf
        PROVE  tm = tn /\ ab = de /\ sc = sf
    <3>1. tm \o ab = tn \o de /\ sc = sf
      BY <2>3, <2>6, <2>7, Unjoin, Zenon
    <3>2. tm = tn /\ ab = de
      BY <2>1, <2>2, <3>1, Unjoin, Zenon
    <3> QED
      BY <3>1, <3>2
  <2>8. ASSUME m.topic = n.topic, a = d, b = e, c = f
        PROVE  tm \o ab \o sc = tn \o de \o sf
    BY <2>8 DEF ab, de, tm, tn, sc, sf
  <2> QED
    BY <2>2, <2>3, <2>4, <2>5, <2>7, <2>8
<1>7. group_by_dlq(m) # group_by_topic_version(n) /\ group_by_dlq(n) # group_by_topic_version(m)
  <2>1. /\ \A x, y \in STRING : Len(<<x>> \o <<y>>) = 2
        /\ \A t, x, y, z \in STRING : Len(<<t>> \o (<<x>> \o <<y>>) \o <<z>>) = 4
    OBVIOUS
  <2>2. Len(group_by_topic_version(m)) = 2 /\ Len(group_by_topic_version(n)) = 2
    BY <1>1, <1>2, <2>1
  <2>3. Len(group_by_dlq(m)) = 4 /\ Len(group_by_dlq(n)) = 4
    BY <1>1, <1>2, <1>4, <2>1
  <2> QED
    BY <2>2, <2>3
<1>8. Route(m) = Route(n) <=>
        /\ dlq(m) <=> dlq(n)
        /\ N(m) = N(n) /\ V(m) = V(n)
        /\ dlq(m) => m.topic = n.topic /\ C(m) = C(n)
  <2> DEFINE Values   == STRING \cup Text \cup {NoValue}
             named(x) == <<N(x), V(x)>>
             more(x)  == <<x.topic, C(x)>>
  <2>1. \A x \in {m, n} : N(x) \in Values /\ V(x) \in Values /\ C(x) \in Values /\ x.topic \in Values
    BY HeaderFacts, UnknownType, MessageTypes
  <2>2. \A x \in {m, n} : Route(x) = IF dlq(x) THEN named(x) \o more(x) ELSE named(x)
    BY DEF Route
  <2>3. \A x \in {m, n} : /\ named(x) \in Seq(Values) /\ more(x) \in Seq(Values)
                          /\ Len(named(x)) = 2 /\ Len(more(x)) = 2
    BY <2>1
  <2>4. /\ named(m) = named(n) <=> N(m) = N(n) /\ V(m) = V(n)
        /\ more(m) = more(n) <=> m.topic = n.topic /\ C(m) = C(n)
    OBVIOUS
  <2> HIDE DEF Values, named, more, N, V, C, dlq
  <2>5. ASSUME NEW x \in {m, n}
        PROVE  Len(named(x) \o more(x)) = 4
    <3>1. Len(named(x) \o more(x)) = Len(named(x)) + Len(more(x))
      BY <2>3, JoinLength, Zenon
    <3>2. Len(named(x)) = 2 /\ Len(more(x)) = 2
      BY <2>3
    <3> QED
      BY <3>1, <3>2
  <2>6. \A x, y \in {m, n} : named(x) # named(y) \o more(y)
    BY <2>3, <2>5
  <2>7. named(m) \o more(m) = named(n) \o more(n)
          <=> (named(m) = named(n) /\ more(m) = more(n))
    BY <2>3, Unjoin, Zenon
  <2>8. CASE dlq(m) /\ dlq(n)
    BY <2>2, <2>4, <2>7, <2>8
  <2>9. CASE ~dlq(m) /\ ~dlq(n)
    BY <2>2, <2>4, <2>9
  <2>10. CASE ~(dlq(m) <=> dlq(n))
    BY <2>2, <2>6, <2>10
  <2> QED
    BY <2>8, <2>9, <2>10
<1> QED
  BY <1>1, <1>2, <1>3, <1>5, <1>6, <1>7, <1>8 DEF write_id

-----------------------------------------------------------------------------
(* The line of a message.                                                   *)

\* A payload the decoder accepts is a sequence of bytes, and what is taken off
\* it is the header that was looked at.
LEMMA PayloadCut ==
    ASSUME NEW m \in Messages, m.payload # NoPayload, Decodes(m)
    PROVE  LET prefix == IF ConfigOf(m).decoder = "JsonSchemaDecoder" THEN SchemaHeader ELSE 0
           IN  /\ data_payload(m) = SubSeq(m.payload, prefix + 1, Len(m.payload))
               /\ prefix > 0 => Len(m.payload) >= prefix /\ m.payload[1] = 0
<1>1. m.payload \in Seq(0 .. 255)
  BY MessageTypes
<1>2. SubSeq(m.payload, 1, Len(m.payload)) = m.payload
  BY <1>1, SubSeqFull
<1>3. CASE ConfigOf(m).decoder = "JsonSchemaDecoder"
  BY <1>3 DEF data_payload, Decodes, SchemaHeader
<1>4. CASE ConfigOf(m).decoder # "JsonSchemaDecoder"
  <2>1. 0 + 1 = 1 /\ ~(0 > 0)
    OBVIOUS
  <2> QED
    BY <1>2, <1>4, <2>1, Zenon DEF data_payload
<1> QED
  BY <1>3, <1>4

\* Every header of a line is one of the message's that is kept.
LEMMA LineHeaders ==
    ASSUME NEW m \in Messages, NEW j \in DOMAIN line(m).headers
    PROVE  /\ line(m).headers[j] \in ToSet(m.headers)
           /\ Kept(line(m).headers[j])
<1>1. line(m).headers =
        [i \in {x \in DOMAIN m.headers : Kept(m.headers[x])} |-> m.headers[i]]
  BY DEF line, Restrict
<1>2. j \in DOMAIN m.headers /\ Kept(m.headers[j]) /\ line(m).headers[j] = m.headers[j]
  BY <1>1
<1> QED
  BY <1>2 DEF ToSet

\* What was taken: the identifier and the line are the message's own.
Recorded(t) ==
    /\ t.message \in Messages
    /\ t.stream_id = write_id(t.message)
    /\ \/ /\ t.lines = << >>
          /\ \/ t.message.payload = NoPayload
             \/ Decodes(t.message) /\ data_payload(t.message) = << >>
       \/ /\ t.lines = <<line(t.message)>>
          /\ t.message.payload # NoPayload
          /\ Decodes(t.message)
          /\ data_payload(t.message) # << >>

RecordInv ==
    /\ TypeOK
    /\ \A t \in taken : Recorded(t)

LEMMA RecordInit == Init => RecordInv
<1>1. << >> \in Text /\ Len(<< >>) = 0
  BY DEF Text
<1> QED
  BY <1>1 DEF Init, RecordInv, TypeOK

\* The identifier and its buffer, whatever the buffer held.
LEMMA MetadataKeeps ==
    ASSUME RecordInv, NEW m \in Messages, Metadata(m)
    PROVE  /\ \A id \in ids' \cup {id_buf'} : id \in Text
           /\ id_buf' \in ids' \cup {<< >>}
           /\ id_buf' = write_id(m)
BY WriteIdType DEF Metadata, RecordInv, TypeOK

LEMMA TookKeeps ==
    ASSUME RecordInv, NEW m \in Messages, NEW lines, Took(m, lines), id_buf' = write_id(m),
           Recorded([message |-> m, stream_id |-> write_id(m), lines |-> lines])
    PROVE  \A t \in taken' : Recorded(t) /\ t.message \in Messages /\ t.stream_id \in Text
<1> DEFINE new == [message |-> m, stream_id |-> write_id(m), lines |-> lines]
<1>1. new.message \in Messages /\ new.stream_id \in Text
  BY WriteIdType
<1> QED
  BY <1>1 DEF Took, RecordInv, TypeOK

LEMMA RecordNext == RecordInv /\ [Next]_vars => RecordInv'
<1> SUFFICES ASSUME RecordInv, [Next]_vars PROVE RecordInv'
  OBVIOUS
<1> USE DEF RecordInv, TypeOK
<1>1. ASSUME NEW m \in Messages, WriteRecord(m) PROVE RecordInv'
  <2>1. Recorded([message |-> m, stream_id |-> write_id(m), lines |-> serialize(m)])
    BY <1>1 DEF WriteRecord, Recorded, serialize
  <2>2. Len(serialize(m)) = 1
    BY DEF serialize
  <2>3. Took(m, serialize(m)) /\ buf' = serialize(m)
    BY <1>1 DEF WriteRecord, Took
  <2> QED
    BY <1>1, <2>1, <2>2, <2>3, MetadataKeeps, TookKeeps DEF WriteRecord
<1>2. ASSUME NEW m \in Messages, SkipRecord(m) PROVE RecordInv'
  <2>1. Recorded([message |-> m, stream_id |-> write_id(m), lines |-> << >>])
    BY <1>2 DEF SkipRecord, Recorded
  <2>2. Len(<< >>) = 0
    OBVIOUS
  <2> QED
    BY <1>2, <2>1, <2>2, MetadataKeeps, TookKeeps DEF SkipRecord
<1>3. ASSUME NEW m \in Messages, RefuseRecord(m) PROVE RecordInv'
  <2>1. buf' = << >> /\ Len(<< >>) = 0 /\ running' = FALSE /\ taken' = taken
    BY <1>3 DEF RefuseRecord
  <2>2. (\A id \in ids' \cup {id_buf'} : id \in Text) /\ id_buf' \in ids' \cup {<< >>}
    BY <1>3, MetadataKeeps DEF RefuseRecord
  <2>3. Len(buf') <= 1
    BY <2>1
  <2> QED
    BY <2>1, <2>2, <2>3
<1>4. CASE Restart
  <2>1. << >> \in Text /\ Len(<< >>) = 0
    BY DEF Text
  <2> QED
    BY <1>4, <2>1 DEF Restart
<1>5. CASE UNCHANGED vars
  BY <1>5 DEF vars
<1> QED
  BY <1>1, <1>2, <1>3, <1>4, <1>5 DEF Next

LEMMA RecordInductive == Spec => []RecordInv
BY RecordInit, RecordNext, PTL DEF Spec

\* Identifiers are sequences of texts in every state, and the serializer's
\* buffer never holds more than one line.
THEOREM RecordTypeCorrect == Spec => []TypeOK
<1>1. RecordInv => TypeOK
  BY DEF RecordInv
<1> QED
  BY <1>1, RecordInductive, PTL

\* Two Plain messages share a stream exactly if they agree on topic (for Dlq),
\* schema name, schema version and status code, for all messages,
\* configurations and orders, across restarts (write_id).
THEOREM StreamPerRouteHolds == Spec => []StreamPerRoute
<1>1. RecordInv => StreamPerRoute
  BY SameRoute DEF RecordInv, Recorded, StreamPerRoute
<1> QED
  BY <1>1, RecordInductive, PTL

\* A line holds its own message's body and headers that end no string, for all
\* payloads, headers and configurations (serialize, data_payload).
THEOREM LinesHold == Spec => []LinesStandAlone
<1>1. ASSUME RecordInv, NEW t \in taken
      PROVE  LET prefix == IF ConfigOf(t.message).decoder = "JsonSchemaDecoder"
                           THEN SchemaHeader ELSE 0
                 body == IF t.message.payload = NoPayload THEN << >>
                         ELSE SubSeq(t.message.payload, prefix + 1, Len(t.message.payload))
             IN  /\ Len(t.lines) = (IF body = << >> THEN 0 ELSE 1)
                 /\ prefix > 0 /\ t.message.payload # NoPayload =>
                       Len(t.message.payload) >= prefix /\ t.message.payload[1] = 0
                 /\ \A i \in DOMAIN t.lines :
                       /\ t.lines[i].data = body
                       /\ \A j \in DOMAIN t.lines[i].headers :
                             LET h == t.lines[i].headers[j]
                             IN  /\ h \in ToSet(t.message.headers)
                                 /\ is_valid_json(h.value) /\ is_valid_json(<<h.key>>)
  <2>1. Recorded(t) /\ t.message \in Messages
    BY <1>1 DEF RecordInv, Recorded
  <2>2. CASE t.lines = << >>
    <3>1. DOMAIN t.lines = {} /\ Len(t.lines) = 0
      BY <2>2
    <3>2. CASE t.message.payload = NoPayload
      BY <3>1, <3>2
    <3>3. CASE t.message.payload # NoPayload
      <4>1. Decodes(t.message) /\ data_payload(t.message) = << >>
        BY <2>1, <2>2, <3>3 DEF Recorded
      <4> QED
        BY <2>1, <3>1, <3>3, <4>1, PayloadCut
    <3> QED
      BY <3>2, <3>3
  <2>3. CASE t.lines # << >>
    <3>1. /\ t.lines = <<line(t.message)>>
          /\ t.message.payload # NoPayload
          /\ Decodes(t.message)
          /\ data_payload(t.message) # << >>
      BY <2>1, <2>3 DEF Recorded
    <3>2. /\ DOMAIN t.lines = {1} /\ Len(t.lines) = 1
          /\ t.lines[1] = line(t.message)
          /\ line(t.message).data = data_payload(t.message)
      BY <3>1 DEF line
    <3>3. \A j \in DOMAIN line(t.message).headers :
             LET h == line(t.message).headers[j]
             IN  /\ h \in ToSet(t.message.headers)
                 /\ is_valid_json(h.value) /\ is_valid_json(<<h.key>>)
      BY <2>1, LineHeaders DEF Kept
    <3> QED
      BY <2>1, <3>1, <3>2, <3>3, PayloadCut
  <2> QED
    BY <2>2, <2>3
<1>2. RecordInv => LinesStandAlone
  BY <1>1 DEF LinesStandAlone
<1> QED
  BY <1>2, RecordInductive, PTL

-----------------------------------------------------------------------------
(* The key of an object.                                                    *)

LEMMA OneLong == ASSUME NEW S, NEW s \in Seq(S), Len(s) = 1 PROVE s = <<s[1]>>
OBVIOUS

\* A prefix is the one before it and one element more.
LEMMA PrefixStep ==
    ASSUME NEW S, NEW s \in Seq(S), NEW i \in 2 .. Len(s)
    PROVE  SubSeq(s, 1, i) = SubSeq(s, 1, i - 1) \o <<s[i]>>
<1> DEFINE a == SubSeq(s, 1, i)
           b == SubSeq(s, 1, i - 1)
           c == <<s[i]>>
<1>1. /\ a \in Seq(S) /\ Len(a) = i /\ \A j \in 1 .. i : a[j] = s[j]
      /\ b \in Seq(S) /\ Len(b) = i - 1 /\ \A j \in 1 .. i - 1 : b[j] = s[j]
  OBVIOUS
<1>2. c \in Seq(S) /\ Len(c) = 1 /\ c[1] = s[i]
  OBVIOUS
<1> HIDE DEF a, b, c
<1>3. /\ b \o c \in Seq(S) /\ Len(b \o c) = i
      /\ \A j \in 1 .. i : (b \o c)[j] = IF j <= i - 1 THEN b[j] ELSE c[j - (i - 1)]
  <2>1. /\ b \o c \in Seq(S) /\ Len(b \o c) = Len(b) + Len(c)
        /\ \A j \in 1 .. Len(b) + Len(c) :
              (b \o c)[j] = IF j <= Len(b) THEN b[j] ELSE c[j - Len(b)]
    BY <1>1, <1>2, ConcatProperties, Zenon
  <2> QED
    BY <1>1, <1>2, <2>1
<1>4. \A j \in 1 .. i : a[j] = (b \o c)[j]
  BY <1>1, <1>2, <1>3
<1>5. a = b \o c
  BY <1>1, <1>3, <1>4, SeqEqual
<1> QED
  BY <1>5 DEF a, b, c

\* FlattenSeq of one-element sequences: the function it defines by recursion is
\* that of the prefixes, for at the least index where it differs it would not
\* differ either.
LEMMA FlattenSingletons ==
    ASSUME NEW S, NEW s \in Seq(S)
    PROVE  FlattenSeq([i \in DOMAIN s |-> <<s[i]>>]) = s
<1> DEFINE n == Len(s)
           seqs == [i \in 1 .. n |-> <<s[i]>>]
           Flattens(f) == f = [i \in 1 .. n |-> IF i = 1 THEN seqs[i] ELSE f[i - 1] \o seqs[i]]
           flatten == CHOOSE f : Flattens(f)
           prefixes == [i \in 1 .. n |-> SubSeq(s, 1, i)]
<1>1. n \in Nat /\ DOMAIN s = 1 .. n /\ Len(seqs) = n
  OBVIOUS
<1>2. CASE n = 0
  BY <1>1, <1>2 DEF FlattenSeq
<1>3. CASE n # 0
  <2>1. FlattenSeq(seqs) = flatten[n]
    BY <1>1, <1>3 DEF FlattenSeq
  <2>2. prefixes[1] = seqs[1]
    <3>1. /\ SubSeq(s, 1, 1) \in Seq(S) /\ Len(SubSeq(s, 1, 1)) = 1
          /\ SubSeq(s, 1, 1)[1] = s[1]
      BY <1>1, <1>3
    <3>2. SubSeq(s, 1, 1) = <<s[1]>>
      BY <3>1, OneLong, Zenon
    <3>3. prefixes[1] = SubSeq(s, 1, 1) /\ seqs[1] = <<s[1]>>
      BY <1>1, <1>3
    <3> QED
      BY <3>2, <3>3, Zenon
  <2>3. ASSUME NEW i \in 2 .. n PROVE prefixes[i] = prefixes[i - 1] \o seqs[i]
    <3>1. prefixes[i] = SubSeq(s, 1, i) /\ prefixes[i - 1] = SubSeq(s, 1, i - 1)
      BY <1>1
    <3>2. seqs[i] = <<s[i]>>
      BY <1>1
    <3> QED
      BY <3>1, <3>2, PrefixStep, Zenon
  <2>4. DOMAIN seqs = 1 .. n /\ DOMAIN prefixes = 1 .. n
    OBVIOUS
  <2>5. Flattens(prefixes)
    <3> HIDE DEF seqs
    <3>1. \A i \in 1 .. n : prefixes[i] = IF i = 1 THEN seqs[i] ELSE prefixes[i - 1] \o seqs[i]
      <4> SUFFICES ASSUME NEW i \in 1 .. n
                   PROVE  prefixes[i] = IF i = 1 THEN seqs[i] ELSE prefixes[i - 1] \o seqs[i]
        OBVIOUS
      <4>1. CASE i = 1
        BY <2>2, <4>1, Zenon
      <4>2. CASE i # 1
        <5>1. i \in 2 .. n
          BY <1>1, <4>2
        <5> QED
          BY <2>3, <4>2, <5>1, Zenon
      <4> QED
        BY <4>1, <4>2
    <3>2. prefixes = [i \in 1 .. n |-> prefixes[i]]
      OBVIOUS
    <3> HIDE DEF prefixes
    <3> QED
      BY <3>1, <3>2
  <2>6. Flattens(flatten)
    BY <2>5
  <2> HIDE DEF flatten, prefixes, seqs
  <2>7. \A i \in 1 .. n : flatten[i] = IF i = 1 THEN seqs[i] ELSE flatten[i - 1] \o seqs[i]
    BY <2>6
  <2>8. \A i \in 1 .. n : flatten[i] = prefixes[i]
    <3> DEFINE Wrong == {i \in 1 .. n : flatten[i] # prefixes[i]}
    <3> SUFFICES ASSUME Wrong # {} PROVE FALSE
      OBVIOUS
    <3>1. Wrong \subseteq Nat
      BY <1>1
    <3> HIDE DEF Wrong
    <3>2. PICK i \in Wrong : \A j \in Wrong : i <= j
      BY <3>1, FirstIsLeast
    <3> USE DEF Wrong
    <3>3. i # 1
      BY <1>1, <2>2, <2>7
    <3>4. i \in 2 .. n /\ i - 1 \in 1 .. n /\ ~(i <= i - 1)
      BY <1>1, <3>3
    <3>5. i - 1 \notin Wrong
      BY <3>2, <3>4
    <3>6. flatten[i - 1] = prefixes[i - 1]
      BY <3>4, <3>5
    <3>7. flatten[i] = flatten[i - 1] \o seqs[i] /\ prefixes[i] = prefixes[i - 1] \o seqs[i]
      BY <2>3, <2>7, <3>3, <3>4
    <3> QED
      BY <3>6, <3>7
  <2>9. prefixes[n] = s
    BY <1>1, <1>3, SubSeqFull DEF prefixes
  <2>10. n \in 1 .. n /\ FlattenSeq(seqs) = s
    BY <1>1, <1>3, <2>1, <2>8, <2>9
  <2> QED
    BY <1>1, <2>10 DEF seqs
<1> QED
  BY <1>2, <1>3

\* The parts of a Regular identifier are its segments.
LEMMA KeyOfRegular ==
    ASSUME NEW id \in Text, Regular(id), NEW now, NEW uuid
    PROVE  key_inner(id, now, uuid) = id \o <<Ingest(now), FileName(now, uuid)>>
<1>1. \A i \in DOMAIN id : Parts(id[i]) = <<id[i]>>
  BY DEF Regular, Parts
<1>2. [i \in DOMAIN id |-> Parts(id[i])] = [i \in DOMAIN id |-> <<id[i]>>]
  BY <1>1
<1>3. FlattenSeq([i \in DOMAIN id |-> Parts(id[i])]) = id
  BY <1>2, FlattenSingletons DEF Text
<1> QED
  BY <1>3 DEF key_inner

\* What the argument needs to know of a key: it begins with the identifier and
\* the day, and one part follows.
KeyFor(S, key, id, day) ==
    /\ key \in Seq(S) /\ id \in Seq(S)
    /\ Len(key) = Len(id) + 2
    /\ \A i \in 1 .. Len(id) : key[i] = id[i]
    /\ key[Len(id) + 1] = day

LEMMA KeyParts ==
    ASSUME NEW S, NEW id \in Seq(S), NEW day \in S, NEW file \in S
    PROVE  /\ KeyFor(S, id \o <<day, file>>, id, day)
           /\ (id \o <<day, file>>)[Len(id) + 2] = file
<1> DEFINE tail == <<day, file>>
           key  == id \o tail
<1>1. tail \in Seq(S) /\ Len(tail) = 2 /\ tail[1] = day /\ tail[2] = file
  OBVIOUS
<1> HIDE DEF tail
<1>2. key \in Seq(S) /\ Len(key) = Len(id) + Len(tail)
  BY <1>1, JoinLength, Zenon
<1>3. key[Len(id) + 1] = tail[1] /\ key[Len(id) + 2] = tail[2]
  <2>1. tail \in Seq(S) /\ 1 \in 1 .. Len(tail) /\ 2 \in 1 .. Len(tail)
    BY <1>1
  <2> QED
    BY <1>1, <2>1, ConcatProperties
<1>4. \A i \in 1 .. Len(id) : key[i] = id[i]
  BY <1>1
<1> HIDE DEF key
<1>5. KeyFor(S, key, id, day) /\ key[Len(id) + 2] = file
  BY <1>1, <1>2, <1>3, <1>4 DEF KeyFor
<1> QED
  BY <1>5 DEF key, tail

\* A key without its file name is a prefix of another key only if both are of
\* the same identifier: a longer one would have a day among its segments.
LEMMA PrefixTells ==
    ASSUME NEW S, NEW a, NEW b, NEW d, NEW e, NEW k, NEW l,
           KeyFor(S, k, a, d), KeyFor(S, l, b, e),
           \A i \in DOMAIN a : a[i] # e,
           \A i \in DOMAIN b : b[i] # d,
           IsPrefix(Front(k), l)
    PROVE  a = b
<1> DEFINE m == Len(a)
           n == Len(b)
<1>1. /\ k \in Seq(S) /\ Len(k) = m + 2 /\ k[m + 1] = d
      /\ \A i \in 1 .. m : k[i] = a[i]
  BY DEF KeyFor
<1>2. /\ l \in Seq(S) /\ Len(l) = n + 2 /\ l[n + 1] = e
      /\ \A i \in 1 .. n : l[i] = b[i]
  BY DEF KeyFor
<1>3. /\ m \in Nat /\ n \in Nat /\ DOMAIN a = 1 .. m /\ DOMAIN b = 1 .. n
      /\ a \in Seq(S) /\ b \in Seq(S)
  BY DEF KeyFor
<1> HIDE DEF m, n
<1>4. m + 1 <= n + 2 /\ \A i \in 1 .. m + 1 : k[i] = l[i]
  <2> DEFINE front == Front(k)
  <2>1. front = SubSeq(k, 1, m + 1)
    BY <1>1, <1>3 DEF Front
  <2>2. front \in Seq(S) /\ Len(front) = m + 1 /\ \A i \in 1 .. m + 1 : front[i] = k[i]
    BY <1>1, <1>3, <2>1
  <2> HIDE DEF front
  <2>3. m + 1 <= n + 2 /\ SubSeq(front, 1, m + 1) = SubSeq(l, 1, m + 1)
    BY <1>2, <1>3, <2>2 DEF IsPrefix, front
  <2>4. \A i \in 1 .. m + 1 : SubSeq(front, 1, m + 1)[i] = front[i]
    BY <1>3, <2>2
  <2>5. \A i \in 1 .. m + 1 : SubSeq(l, 1, m + 1)[i] = l[i]
    BY <1>2, <1>3, <2>3
  <2> QED
    BY <2>2, <2>3, <2>4, <2>5
<1>5. ~(m < n)
  <2> SUFFICES ASSUME m < n PROVE FALSE
    OBVIOUS
  <2>1. m + 1 \in 1 .. n /\ m + 1 \in 1 .. m + 1
    BY <1>3
  <2> QED
    BY <1>1, <1>2, <1>3, <1>4, <2>1
<1>6. ~(n < m)
  <2> SUFFICES ASSUME n < m PROVE FALSE
    OBVIOUS
  <2>1. n + 1 \in 1 .. m
    BY <1>3
  <2> QED
    BY <1>1, <1>2, <1>3, <1>4, <2>1
<1>7. m = n
  BY <1>3, <1>5, <1>6
<1>8. \A i \in 1 .. m : a[i] = b[i]
  BY <1>1, <1>2, <1>3, <1>4, <1>7
<1> QED
  BY <1>3, <1>7, <1>8, SeqEqual DEF m, n

LEMMA FrontIsPrefix ==
    ASSUME NEW S, NEW s \in Seq(S), Len(s) > 1
    PROVE  IsPrefix(Front(s), s)
<1> DEFINE front == SubSeq(s, 1, Len(s) - 1)
<1>1. /\ front \in Seq(S) /\ Len(front) = Len(s) - 1
      /\ SubSeq(front, 1, Len(front)) = front
  <2>1. Len(s) \in Nat /\ \A i \in 1 .. Len(s) - 1 : s[i] \in S
    OBVIOUS
  <2>2. front \in Seq(S) /\ Len(front) = Len(s) - 1
    BY <2>1, SubSeqProperties
  <2> QED
    BY <2>2, SubSeqFull
<1> QED
  BY <1>1 DEF IsPrefix, Front

\* The directory of a stream and day holds the objects of that stream alone and
\* no object replaces another one, for all streams whose identifiers are
\* Regular, all instants and all UUIDs (S3Partitioner::key_inner).
THEOREM KeysTell == Spec => []KeysTellStreams
<1>1. ASSUME RecordInv PROVE KeysTellStreams
  <2> DEFINE Ids     == {t.stream_id : t \in {u \in taken : Regular(u.stream_id)}}
             Objects == Ids \X Instants \X Uuids
             KeyOf   == [o \in Objects |-> key_inner(o[1], o[2], o[3])]
             Names   == STRING \cup {Ingest(now) : now \in Instants}
                               \cup {FileName(now, uuid) : now \in Instants, uuid \in Uuids}
             day(o)  == Ingest(o[2])
             file(o) == FileName(o[2], o[3])
  <2>1. \A id \in Ids : id \in Text /\ id \in Seq(Names) /\ Regular(id)
    <3>1. \A id \in Ids : id \in Text /\ Regular(id)
      BY <1>1 DEF RecordInv, TypeOK
    <3>2. Seq(STRING) \subseteq Seq(Names)
      OBVIOUS
    <3> QED
      BY <3>1, <3>2 DEF Text
  <2>2. ASSUME NEW o \in Objects
        PROVE  /\ KeyOf[o] = o[1] \o <<day(o), file(o)>>
               /\ KeyFor(Names, KeyOf[o], o[1], day(o))
               /\ KeyOf[o][Len(o[1]) + 2] = file(o)
               /\ \A now \in Instants : \A i \in DOMAIN o[1] : o[1][i] # Ingest(now)
    <3>1. o[1] \in Ids /\ o[2] \in Instants /\ o[3] \in Uuids
      OBVIOUS
    <3>2. KeyOf[o] = key_inner(o[1], o[2], o[3])
      OBVIOUS
    <3>3. day(o) \in Names /\ file(o) \in Names
      BY <3>1
    <3> HIDE DEF Ids, Names, KeyOf
    <3>4. KeyOf[o] = o[1] \o <<day(o), file(o)>>
      BY <2>1, <3>1, <3>2, KeyOfRegular
    <3>5. \A now \in Instants : \A i \in DOMAIN o[1] : o[1][i] # Ingest(now)
      BY <2>1, <3>1 DEF Regular
    <3>6. o[1] \in Seq(Names)
      BY <2>1, <3>1
    <3> HIDE DEF day, file
    <3>7. /\ KeyFor(Names, o[1] \o <<day(o), file(o)>>, o[1], day(o))
          /\ (o[1] \o <<day(o), file(o)>>)[Len(o[1]) + 2] = file(o)
      BY <3>3, <3>6, KeyParts
    <3> QED
      BY <3>4, <3>5, <3>7
  <2>3. \A o \in Objects : o[2] \in Instants /\ o[3] \in Uuids /\ o = <<o[1], o[2], o[3]>>
    OBVIOUS
  <2> HIDE DEF Ids, Objects, KeyOf, Names
  <2>4. ASSUME NEW o \in Objects, NEW q \in Objects, IsPrefix(Front(KeyOf[o]), KeyOf[q])
        PROVE  o[1] = q[1]
    <3>1. /\ \A i \in DOMAIN o[1] : o[1][i] # day(q)
          /\ \A i \in DOMAIN q[1] : q[1][i] # day(o)
      BY <2>2, <2>3
    <3>2. KeyFor(Names, KeyOf[o], o[1], day(o)) /\ KeyFor(Names, KeyOf[q], q[1], day(q))
      BY <2>2
    <3> HIDE DEF day
    <3> QED
      BY <2>4, <3>1, <3>2, PrefixTells
  <2>5. ASSUME NEW o \in Objects, NEW q \in Objects, KeyOf[o] = KeyOf[q]
        PROVE  o = q
    <3>1. IsPrefix(Front(KeyOf[q]), KeyOf[q])
      <4>1. KeyFor(Names, KeyOf[q], q[1], day(q))
        BY <2>2, Zenon
      <4>2. KeyOf[q] \in Seq(Names) /\ Len(KeyOf[q]) > 1
        <5> HIDE DEF day
        <5> QED
          BY <4>1 DEF KeyFor
      <4> QED
        BY <4>2, FrontIsPrefix
    <3>2. o[1] = q[1]
      BY <2>4, <2>5, <3>1
    <3>3. day(o) = day(q) /\ file(o) = file(q)
      BY <2>2, <2>5, <3>2 DEF KeyFor
    <3>4. o[2] = q[2] /\ o[3] = q[3]
      BY <2>3, <3>3, NamesAssumption
    <3> QED
      BY <2>3, <3>2, <3>4
  <2> QED
    BY <2>4, <2>5 DEF KeysTellStreams, Objects, KeyOf, Ids
<1> QED
  BY <1>1, RecordInductive, PTL
=============================================================================
