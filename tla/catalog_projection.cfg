CONSTANTS
  Rows <- MCRows
  Kind <- KindOf
  Number <- NumberOf
  FirstParent <- Tree
  FirstIds <- Known
  Token <- Tokens
  Refs <- Entries
  Source <- From
  PlexSources = {"plex"}
  FirstAt <- Where
  Above <- Over
  FirstFiles <- FilesNow
  Files <- FilesLater
  Reports <- ReportsLater
  FirstSeen <- Available
  Watched = {3, 8}
  Remapped = {9}
  Name <- Titles_
  Matches <- Confirmable
  MaxPlays = 2
  MaxChanges = 1
SPECIFICATION ProjectionSpec
INVARIANTS ServedIsCurrent CardsSafe PlaysPending
