CONSTANTS
    Clients = {c1, c2, c3}
    Handlers = {h1, h2}
    Descriptors = {1, 2}
    NoClient = NoClient
    ftplTransientMaxRetryCount = 1
    MaxRounds = 4
    Size = 36
    Header = 8
    ReadBlock = 6
    Junk = Junk
    Slots = {0, 1}
    Request = 3
    MaxSent = 7
SYMMETRY Alike
SPECIFICATION TransfersSpec
INVARIANTS SessionFramesWhole SharedOnlyByRace AddressMatches RepliesMatched TransfersAccounted RequestsIntact
\* The process of server_tool may end, and ftpXfer returns.
CHECK_DEADLOCK FALSE
