SPECIFICATION Spec
CONSTANTS
    NoValue = NoValue
    NoPayload = NoPayload
    NotUtf8 = {"binary"}
    NotJson = {"escaped", "quoted"}
    InputTopics <- Topics
    Slashed <- SlashedSegments
    Instants <- TestInstants
    Uuids = {"1234abcd", "5678abcd"}
    Messages <- TestMessages
INVARIANTS
    TypeOK
    StreamPerRoute
    LinesStandAlone
    KeysTellStreams
