CONSTANTS
  Rows <- MCRows
  Kind <- KindOf
  Number <- NumberOf
  FirstParent <- Tree
  FirstIds <- Known
  Token <- Tokens
  Refs <- Entries
  Source <- From
  PlexSources = {"plex"}
  FirstAt <- Where
  Above <- Over
  FirstFiles <- FilesNow
  Files <- FilesLater
  Reports <- ReportsLater
  FirstSeen <- Shown
  Watched = {5, 6, 13}
  Matches <- Confirmable
  MaxPlays = 2
  MaxChanges = 2
SPECIFICATION Spec
INVARIANTS NothingDangles
PROPERTIES HistoryFollows EditionsApart FilesTell MatchKept
