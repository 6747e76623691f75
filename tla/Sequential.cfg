\* One process after the other, as in README.md and the test script.
SPECIFICATION Spec
CONSTANTS
    c1 = c1  c2 = c2  t1 = t1  t2 = t2  bad = bad  s1 = s1  s2 = s2
    fri1 = fri1  fri2 = fri2  here = here  there = there  p1 = p1  p2 = p2
    None = None  Absent = Absent  Torn = Torn
    Circuit <- MCCircuit
    Table <- MCTable
    Shape <- MCShape
    ShapeOf <- MCShapeOf
    Satisfies <- MCSatisfies
    Fri <- MCFri
    Loc = {here}
    Proc = {p1}
    Invocation <- EveryoneSlips
    LateFlushFails = FALSE
    MaxRuns = 3
    MaxFaults = 1
    MaxEdits = 1
INVARIANTS
    TypeOK
    OptionalsEngaged
    VerdictIsExact
    ExitZeroIsDurable
    ArtifactsCoherent
    JsonFollowsProof
    VerifyRejectsForCause
PROPERTY
    PublishedProofsVerified
CHECK_DEADLOCK FALSE
