CONSTANTS
    Streams <- MCStreams
    MaxHeaderSize = 8
    MaxBodySize = 4
    Chunk = 5
    Char <- MCChar
    UrlPaths <- MCUrlPaths
    Authority = "upstream:80"
    ClientIp = "client"
    MaxSize = 12
    NumberIn <- MCNumberIn
    Decimal <- MCDecimal
    None = None
SPECIFICATION FairRequestSpec
INVARIANTS
    OutcomeDeserved
    HeaderBuffer
    BodyOfStream
    SurplusBound
    InspectedIsForwarded
    FramedByBody
    OneValuePerName
PROPERTY ReaderEnds
\* A request is sent, refused or too large; a silent client waits for ever.
CHECK_DEADLOCK FALSE
