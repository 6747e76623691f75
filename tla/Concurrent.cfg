\* Two users at a time, who share the default locations.
SPECIFICATION Spec
CONSTANTS
    c1 = c1  c2 = c2  t1 = t1  t2 = t2  bad = bad  s1 = s1  s2 = s2
    fri1 = fri1  fri2 = fri2  here = here  there = there  p1 = p1  p2 = p2
    None = None  Absent = Absent  Torn = Torn
    Circuit = {c1}
    Table = {t1, bad}
    Shape = {s1}
    ShapeOf <- MCShapeOf
    Satisfies <- OneCircuitSatisfies
    Fri = {fri1}
    Loc = {here, there}
    Proc = {p1, p2}
    Invocation <- SplitAndAll
    LateFlushFails = TRUE
    MaxRuns = 3
    MaxFaults = 1
    MaxEdits = 0
INVARIANTS
    
    OptionalsEngaged
    VerdictIsExact
    ExitZeroIsDurable
    
PROPERTIES
    PublishedProofsVerified
    ImplementsPublication
CHECK_DEADLOCK FALSE
