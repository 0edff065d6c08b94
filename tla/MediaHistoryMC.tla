---------------------------- MODULE MediaHistoryMC ----------------------------
(* Constants for model checking MediaHistory: a movie both servers have, once    *)
(* exported and once on the Plex server that replaces the first; two editions    *)
(* that one identifier is given for; a show of two episodes that both servers    *)
(* have under different titles; an episode that three servers have, after an     *)
(* export made another show of the same title.                                   *)
EXTENDS MediaHistory

MCRows == 1 .. 16
KindOf == [i \in MCRows |-> CASE i <= 4 -> "movie" [] i <= 7 -> "show" [] i <= 10 -> "season"
                              [] OTHER -> "episode"]
NumberAs == [i \in MCRows |-> CASE i <= 7 -> 0 [] i \in 15 .. 16 -> 2 [] OTHER -> 1]

\* entries: Plex 1 movie, 2 show, 3 season, 4 and 5 episodes, 6 edition; Jellyfin
\* 11 movie, 12 show, 13 season, 14 episode, 16 edition; the next Plex 21 movie; an
\* episode the two have besides, 8 and 17, and its show, season and itself on a third, 22, 23, 27
Entries == {1, 2, 3, 4, 5, 6, 8, 11, 12, 13, 14, 16, 17, 21, 22, 23, 27}
From == [r \in Entries |-> CASE r \in 11 .. 17 -> "jellyfin" [] r > 21 -> "other" [] OTHER -> "plex"]
Over == [r \in Entries |-> CASE r \in {4, 5, 8} -> {2, 3} [] r \in {14, 17} -> {12, 13} [] r = 27 -> {22, 23}
                             [] OTHER -> {}]
Sort == [r \in Entries |-> CASE r \in {2, 12, 22} -> "show" [] r \in {3, 13, 23} -> "season"
                             [] r \in {4, 5, 8, 14, 17, 27} -> "episode" [] OTHER -> "movie"]
SpotOf == [r \in Entries |-> CASE r = 5 -> <<1, 2>>
                               [] Sort[r] \in {"season", "episode"} -> <<1, 1>> [] OTHER -> <<0, 0>>]
LabelOf == [r \in Entries |-> CASE Sort[r] = "movie" -> "film" [] r \in {2, 22} -> "serie"
                                [] r = 12 -> "serie 2" [] OTHER -> "none"]
TitleIs == [r \in Entries \ {8, 17, 27} |-> CASE r = 6 -> "theatrical" [] r = 16 -> "director's cut"
                                [] Sort[r] = "movie" -> "film" [] r = 5 -> "second" [] OTHER -> "first"]
EraOf == [r \in Entries |-> IF r = 21 THEN 1 ELSE 0]
Told(ids, show, files) == [ids |-> ids, show |-> show, files |-> files]
PagesOf == [r \in Entries |->
    CASE r \in {1, 21} -> {Told({<<"tmdb", 1>>}, {}, {})}
      [] r = 11 -> {Told({<<"imdb", 1>>}, {}, {}), Told({<<"imdb", 1>>, <<"tmdb", 1>>}, {}, {})}
      [] r \in {6, 16} -> {Told({<<"tmdb", 1>>}, {}, {r})}
      [] r = 4 -> {Told({<<"tvdb", 7>>}, {<<"tvdb", 2>>}, {"file"})}
      [] r = 5 -> {Told({<<"tvdb", 8>>}, {<<"tvdb", 2>>}, {})}
      [] r = 14 -> {Told({<<"tvdb", 7>>}, {<<"tvdb", 2>>}, {}), Told({}, {}, {"file"})}
      [] r \in {8, 17, 27} -> {Told({<<"tvdb", 9>>}, {}, {})}
      [] OTHER -> {}]
Nothing == [r \in Entries |-> {}]
NoRows == [i \in MCRows |-> 0]
NoIds == [i \in MCRows |-> {}]
Unplaced == [r \in Entries |-> 0]
Event(id, kind, ids, show, time) ==
    [id |-> id, kind |-> kind, ids |-> ids, show |-> show, time |-> time,
     label |-> IF kind = "movie" THEN "film" ELSE "none", showLabel |-> "serie", spot |-> <<1, 1>>]
Exports ==
    "movies" :> <<Event(1, "movie", {<<"imdb", 1>>, <<"trakt", 1>>}, {}, 1)>>
    @@ "shows" :> <<Event(2, "episode", {<<"tvdb", 7>>, <<"trakt", 7>>}, {<<"tvdb", 2>>, <<"trakt", 2>>}, 1)>>
    @@ "others" :> <<Event(3, "episode", {<<"tvdb", 70>>}, {<<"trakt", 70>>}, 1)>>
Movies == [entries |-> {1, 21}, exports |-> {"movies"}, plays |-> 2]
Moved == [entries |-> {1, 11, 21}, exports |-> {"movies"}, plays |-> 1]
Rewatched == [entries |-> {1, 11, 21}, exports |-> {}, plays |-> 2]
Editions == [entries |-> {6, 16}, exports |-> {}, plays |-> 0]
Series == [entries |-> {4, 5, 14}, exports |-> {}, plays |-> 1]
Exported == [entries |-> {4, 5}, exports |-> {"shows"}, plays |-> 1]
Split == [entries |-> {5, 8, 17, 27}, exports |-> {"others"}, plays |-> 0]
Shelves == {Movies, Moved, Rewatched, Editions, Series, Exported, Split}
Confirmable == {<<"tmdb", 9>>}
===============================================================================
