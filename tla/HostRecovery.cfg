CONSTANTS
    Metrics = {1, 2}
    LastMetrics = {2}
    Values = {1, 3}
    Resolution = 3
    RollupAfter = 1
    RetentionAge = 3
    BatchSize = 2
    SeriesResolution = 3
    SeriesDuration = 3
    Reasons = {"DATABASE_CORRUPT"}
    LastTime = 2
    MaxSeq = 3
    MaxBad = 1
SPECIFICATION HistorySpec
INVARIANT LossIsReported
CHECK_DEADLOCK FALSE
