SPECIFICATION FairSpec
CONSTANTS
    epP = epP
    epJ = epJ
    plexEntry = plexEntry
    jellyEntry = jellyEntry
    jellyTwin = jellyTwin
    Refs <- TwoEntries
    ItemOf <- RowOf
    ServerOf <- Server
    Ids <- OneEpisode
    Paths <- NoFiles
    MaxPos = 1
    BatchSize = 1
    MaxEvents = 2
INVARIANTS  RecordedIsTrue SentOnce
PROPERTIES CompletionKept  KeepsPromise Settles
