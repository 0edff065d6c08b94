-------------------------- MODULE CatalogProjectionMC --------------------------
(* Constants for model checking CatalogProjection: an episode that each server   *)
(* shows under its own show, and a movie that Plex shows twice over the years    *)
(* and Jellyfin once.                                                            *)
EXTENDS CatalogProjection, TLC

\* rows: 1 show, 2 season, 3 episode (Plex); 4 show, 5 season, 6 episode (Jellyfin);
\* 7 the movie as Plex once had it, 8 as it has it, 9 Jellyfin's
MCRows == 1 .. 9
Tree == <<0, 1, 2, 0, 4, 5, 0, 0, 0>>
KindOf == <<"show", "season", "episode", "show", "season", "episode", "movie", "movie", "movie">>
NumberOf == <<0, 1, 1, 0, 1, 1, 0, 0, 0>>
Known == [i \in MCRows |-> CASE i \in {3, 6} -> {<<"tvdb", 1>>} [] i = 1 -> {<<"tmdb", 1>>}
                             [] i = 7 -> {<<"tvdb", 5>>, <<"tmdb", 9>>} [] i = 8 -> {<<"tvdb", 5>>}
                             [] OTHER -> {}]
Tokens == [i \in MCRows |-> {}]
Titles_ == [i \in MCRows |-> IF i \in {1, 4} THEN i ELSE 0]

Where == 1 :> 1 @@ 3 :> 3 @@ 4 :> 4 @@ 6 :> 6 @@ 7 :> 7 @@ 8 :> 8 @@ 9 :> 9
Entries == DOMAIN Where
From == [r \in Entries |-> IF r \in {4, 6, 9} THEN "jellyfin" ELSE "plex"]
Over == [r \in Entries |-> CASE r = 3 -> {1} [] r = 6 -> {4} [] OTHER -> {}]
FilesNow == [r \in Entries |-> IF r = 8 THEN {"m"} ELSE {}]
FilesLater == [r \in Entries |-> IF r = 9 THEN {{"n"}} ELSE {{}}]
ReportsLater == [r \in Entries |-> CASE r = 6 -> {{<<"tmdb", 1>>}} [] r = 9 -> {{<<"tmdb", 9>>}}
                                     [] OTHER -> {{}}]
Available == Entries \ {7}
Confirmable == {<<"tvdb", 5>>}
\* The theorems of CatalogMergeProofs apply to this instance.
ASSUME TreeFits == FirstTree
===============================================================================
