----------------------------- MODULE JobQueueMC -----------------------------
(***************************************************************************)
(* Instances of JobQueue for TLC.  Each set of jobs brings in different     *)
(* code: a synchronization with its own token, jobs run inside the drain    *)
(* thread, executors shared by successive runs, the two-phase image one.    *)
(***************************************************************************)
EXTENDS JobQueue

CONSTANT t1

RestartJobs == {"sync_plex", "maintenance"}
FairJobs == {"catalog_images", "metadata", "watched_plex_to_jellyfin"}
SyncJobs == {"sync_plex"}

OneThread == {t1}
TwoAttempts == {2}

=============================================================================
