CONSTANTS
    Attempts = {t1, t2}
    Threshold = 2
    MaxUnguarded = 2
    Readers = {q1, q2}
    Rollouts = {u1, u2}
    MaxLatest = 3
    Runners = {n1, n2}
    Recipients = {m1}
    Timings <- SomeTimings
    DayLength = 2
    WeekLength = 2
    MonthStarts <- SomeMonths
    LastHour = 4
    MaxFaults = 1
    MaxEdits = 2
    Events = {v1, v2, v3}
    ChanSize = 2
    BatchSize = 2
    Askers = {k1, k2}
    Candidates = {g1, g2, g3}
    Fingerprints = {f1, f2}
    MaxRetries = 1
    CacheThreshold = 85
    LastModel = 2
    Drifts = {d0, d1, d2, da}
    NoDrift = d0
    AllMissing = da
    Syncs = {"sync"}
    MaxDrifts = 3
    MaxDriftFaults = 2
SPECIFICATION Spec
CHECK_DEADLOCK FALSE
INVARIANTS LockoutSound CompositeSound ReportsOnce AuditSound AnswersSound
PROPERTIES DriftSound EverythingEnds
