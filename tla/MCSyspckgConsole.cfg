SPECIFICATION FairSpec
CONSTANTS
    Repos = {r1, r2}
    Planned = {"primary"}
    Loads <- MCLoads
    MaxTransfers = 2
    MaxArchives = 1
    MAX_MIRROR_TRIES = 2
INVARIANTS
    NotGarbled
    NoDangling
    ProgressConsistent
PROPERTY
    CommandEnds
