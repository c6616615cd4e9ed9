SPECIFICATION Spec
CONSTANTS
    MaxQueries = 4
    BatchSize = 2
    GroupSize = 2
    MinDistance = 1
    MaxNoise = 2
    MaxHashes = 6
    Songs = {1, 2}
    Catalogs <- MCCatalogs
INVARIANTS
    EachQueryOnce
    EachHashOnce
    NoTaskOutlives
    AnswerIsAligned
    DominantSongIsFound
CHECK_DEADLOCK FALSE
