SPECIFICATION Spec
CONSTANTS
    self = self
    other = other
    Contexts <- MCContexts
    Self = self
    MaxBuffer = 2
    WsBuffer = 2
    MetaSize = 1
    ValueSize = 1
    MaxProduced = 4
    MaxLinks = 2
    p1 = p1
    p2 = p2
    r1 = r1
    r2 = r2
    r3 = r3
    Putters <- MCPutters
    Ids <- MCIds
    NoId = NoId
    Garbage = Garbage
    a = a
    b = b
    v1 = v1
    v2 = v2
    m1 = m1
    q1 = q1
    q2 = q2
    Paths <- MCPaths
    ValueListeners <- MCValueListeners
    MetaListeners <- MCMetaListeners
    PutListeners <- MCPutListeners
    Subjects <- MCSubjects
    Messages <- MCMessages
    MaxValues = 2
    MaxMeta = 1
    MaxReceived = 5
INVARIANTS
    TypeOK
    MetadataOwed
    OversizeBounded
    FreshestKept
    OneOutstanding
    OneOutcome
    KindsIndependent
    PutAnswered
PROPERTIES
    InOrderOnce
    RequestsEnd
    NeverOlder
    MessageEnds
    WaitingIsTaken
\* the ids run out, and so do the values and the messages
CHECK_DEADLOCK FALSE
