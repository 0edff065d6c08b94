CONSTANTS
  Rows <- MCRows
  Kind <- KindOf
  Number <- NumberAs
  FirstParent <- NoRows
  FirstIds <- NoIds
  Token <- NoIds
  Refs <- Entries
  Source <- From
  PlexSources = {"plex"}
  FirstAt <- Unplaced
  Above <- Over
  FirstFiles <- Nothing
  Files <- Nothing
  Reports <- Nothing
  FirstSeen = {}
  Watched = {1, 11, 4}
  Matches <- Confirmable
  MaxPlays = 0
  MaxChanges = 1
  Level <- Sort
  Spot <- SpotOf
  Label <- LabelOf
  Pages <- PagesOf
  Title <- TitleIs
  Era <- EraOf
  Near = 1
  HookLimit = 1
  Archives <- Exports
  Libraries <- Shelves
  Importer = "plex"
  MaxTime = 3
  MaxEra = 1
SPECIFICATION HistorySpec
INVARIANTS HierarchyAgrees PlaysOnce PlaysCounted ImportedOnce 
PROPERTIES PlaysStay ContainersHonest
