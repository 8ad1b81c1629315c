SPECIFICATION RequestSpec
CONSTANTS
    p1 = p1
    p2 = p2
    r1 = r1
    r2 = r2
    r3 = r3
    Putters <- MCPutters
    Ids <- MCIds
    NoId = NoId
    Garbage = Garbage
PROPERTIES
    SentIdReturned
