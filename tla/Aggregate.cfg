\* Two processes on the same files, while users change them.
SPECIFICATION FairSpec
CONSTANTS
    x = x  a = a  b = b  out = out  deep = deep  p1 = p1  p2 = p2
    Absent = Absent  Torn = Torn  None = None
    Proc = {p1, p2}
    File = {a, b, out}
    Challenge <- MCChallenge
    Delivered = {x, Absent}
    Call <- MCCall
    ChallengeOf <- IdealChallengeOf
    FlushFails = TRUE
    MaxRuns = 2
    MaxFaults = 1
    MaxEdits = 1
INVARIANTS
    TypeOK
    AggregatesItsInputs
PROPERTIES
    OutputOnlyWhenComplete
    EveryAggregationEnds
CHECK_DEADLOCK FALSE
