---------------------------- MODULE CatalogMergeMC ----------------------------
(* Constants for model checking CatalogMerge: a show of two episodes on Plex    *)
(* that Jellyfin splits into two shows, and a movie with a Plex entry, two      *)
(* entries of Jellyfin servers and a row left from an earlier Plex entry.       *)
EXTENDS CatalogMerge, TLC

\* rows: 1 show, 2 season, 3 and 4 its episodes (Plex); 5 show, 6 season, 7 episode
\* and 8 show, 9 season, 10 episode (Jellyfin); 11 .. 14 the movie
MCRows == 1 .. 14
Tree == <<0, 1, 2, 2, 0, 5, 6, 0, 8, 9, 0, 0, 0, 0>>
KindOf == <<"show", "season", "episode", "episode", "show", "season", "episode",
            "show", "season", "episode", "movie", "movie", "movie", "movie">>
NumberOf == <<0, 1, 1, 2, 0, 1, 1, 0, 1, 2, 0, 0, 0, 0>>
Known == [i \in MCRows |-> CASE i = 1 -> {<<"tmdb", 1>>} [] i = 8 -> {<<"tmdb", 2>>}
                             [] i \in {11, 14} -> {<<"tmdb", 5>>} [] OTHER -> {}]
Tokens == [i \in MCRows |-> IF i = 13 THEN {<<"tmdb", 5>>} ELSE {}]

\* entries: Plex 1..5 (show, season, two episodes, the movie) and 6 (its predecessor),
\* Jellyfin 11..16 (the two shows) and 17 (the movie), a second Jellyfin 18 (the movie)
Where == 1 :> 1 @@ 2 :> 2 @@ 3 :> 3 @@ 4 :> 4 @@ 5 :> 12 @@ 6 :> 11 @@
         11 :> 5 @@ 12 :> 6 @@ 13 :> 7 @@ 14 :> 8 @@ 15 :> 9 @@ 16 :> 10 @@ 17 :> 13 @@ 18 :> 14
Entries == DOMAIN Where
From == [r \in Entries |-> IF r < 10 THEN "plex" ELSE IF r < 18 THEN "jellyfin" ELSE "attic"]
Over == [r \in Entries |-> CASE r \in {3, 4} -> {1, 2} [] r = 13 -> {11, 12} [] r = 16 -> {14, 15}
                             [] OTHER -> {}]
File1 == 3 :> {"e1"} @@ 13 :> {"e1"} @@ 4 :> {"e2"} @@ 18 :> {"n"}
FilesNow == [r \in Entries |-> IF r \in DOMAIN File1 THEN File1[r] ELSE {}]
FilesLater == [r \in Entries |-> CASE r = 16 -> {{}, {"e2"}} [] r = 5 -> {{}, {"m"}}
                                   [] r = 17 -> {{"m"}, {"m", "n"}} [] OTHER -> {{}}]
ReportsLater == [r \in Entries |-> CASE r = 13 -> {{}, {<<"tmdb", 1>>}}
                                     [] r = 16 -> {{}, {<<"tvdb", 2>>}}
                                     [] r = 3 -> {{}, {<<"tvdb", 2>>}}
                                     [] r \in {5, 17} -> {{<<"tmdb", 5>>}} [] OTHER -> {{}}]
Shown == Entries \ {6}
Confirmable == {<<"tmdb", 1>>, <<"tmdb", 5>>}
\* The theorems of CatalogMergeProofs apply to this instance.
ASSUME TreeFits == FirstTree /\ FirstShelves
===============================================================================
