----------------------------- MODULE WatchPromise -----------------------------
(* What propagating the watched state promises, without any of the bookkeeping *)
(* of watch_sync.py: the program completes an entry of a server only when a    *)
(* user, or an imported history, has finished its title, and leaves it         *)
(* completed.  Only what happens outside the program takes completions away,   *)
(* with one exception the code has: a resume position written to Jellyfin      *)
(* carries "Played": False.                                                    *)
EXTENDS Naturals

CONSTANTS Refs,      \* entries of the servers' libraries
          TitleOf,   \* the title an entry shows
          Unplayable \* entries a written resume position makes unplayed

VARIABLES finished,  \* titles finished so far
          done,      \* entries the servers report as played
          outside    \* how many things happened outside the program

vars == <<finished, done, outside>>

Titles == {TitleOf[r] : r \in Refs}

Init == finished = {} /\ done = {} /\ outside = 0

\* Users finish titles, histories are imported, servers are cleared or replaced.
World ==
    /\ outside' = outside + 1
    /\ \E F \in SUBSET Titles :
          /\ finished' = finished \cup F
          /\ done' \in SUBSET Refs
          /\ \A r \in done' \ done : TitleOf[r] \in F

\* The program completes an entry of a finished title.
Propagate(r) ==
    /\ TitleOf[r] \in finished
    /\ done' = done \cup {r}
    /\ UNCHANGED <<finished, outside>>

\* The program writes a resume position.
TakeBack(r) ==
    /\ r \in Unplayable
    /\ done' = done \ {r}
    /\ UNCHANGED <<finished, outside>>

Next == World \/ \E r \in Refs : Propagate(r) \/ TakeBack(r)

Spec == Init /\ [][Next]_vars
===============================================================================
