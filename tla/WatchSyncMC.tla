----------------------------- MODULE WatchSyncMC -----------------------------
(* Constants for model checking WatchSync: an episode with one row per server,  *)
(* joined by an identifier, and two entries of it on Jellyfin.                  *)
EXTENDS WatchSync, TLC

CONSTANTS epP, epJ, plexEntry, jellyEntry, jellyTwin

AllEntries == {plexEntry, jellyEntry, jellyTwin}
TwoEntries == {plexEntry, jellyEntry}
RowOf == plexEntry :> epP @@ jellyEntry :> epJ @@ jellyTwin :> epJ
Server == plexEntry :> "plex" @@ jellyEntry :> "jellyfin" @@ jellyTwin :> "jellyfin"
OneEpisode == epP :> {"tvdb"} @@ epJ :> {"tvdb"}
NoFiles == [r \in AllEntries |-> {}]
===============================================================================
