SPECIFICATION ExchangeSpec
CONSTANTS
    BodiesCut = FALSE
    MaxTransient = 3
    MaxStoreRetries = 5
    FetchAttempts = 4
    Payloads <- MCPayloads
    None = None
    Seeds <- MCSeeds
    Durations <- MCDurations
    MinDuration = 10
    MaxDuration = 300
    Tempos <- MCTempos
    MinTempo = 20
    MaxTempo = 400
    KeyShifts <- MCKeyShifts
    MaxKeyShift = 6
    Recordings <- MCRecordings
    Scores <- MCScores
    MaxCandidates = 2
    SureScore = 90
    ClearLead = 5
    ScoreKeys <- MCScoreKeys
    Intervals <- MCIntervals
    Positions <- MCPositions
    NoAccidental = NoAccidental
    Music <- MCMusic
    song1 = song1
    song2 = song2
    Songs <- MCSongs
    \* A second loss may hit a volume that was itself restored.
    MaxLosses = 2
INVARIANTS ExchangeTypeOK RequeuedIsUnbilled OutputIsRead CompletedIsNotDiscarded WorkerTakesIt SourceIsHonest AnswerIsHonest HeardAsMoved SameScale RecoveryIsComplete
PROPERTIES HeaderIsSimplest BackupIsNotReplaced
CHECK_DEADLOCK FALSE
