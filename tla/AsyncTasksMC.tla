---------------------------- MODULE AsyncTasksMC ----------------------------
(* Constants for model checking AsyncTasks. *)
EXTENDS AsyncTasks

CONSTANTS film, plex, jelly

OneFilm == {film}
TwoServers == {plex, jelly}
KnownOrEarly == {[catalogued |-> {film}, early |-> FALSE], [catalogued |-> {}, early |-> TRUE]}
PlexOnly == {plex}
=============================================================================
