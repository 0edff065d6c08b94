SPECIFICATION FairSpec
CONSTANTS
    film = film
    plex = plex
    jelly = jelly
    Media <- OneFilm
    Targets <- TwoServers
    Starts <- KnownOrEarly
    PlexTargets <- PlexOnly
    AttemptLimit = 2
    MaxEvents = 3
    MaxFailures = 2
    MaxRefusals = 1
    MaxCrashes = 1
INVARIANTS NothingLost StrandedByRefusal
PROPERTIES CompletionWins EventsSettle
