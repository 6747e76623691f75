\* preprocess, then prove, with nothing going wrong.
SPECIFICATION Spec
CONSTANTS
    c1 = c1  c2 = c2  t1 = t1  t2 = t2  bad = bad  s1 = s1  s2 = s2
    fri1 = fri1  fri2 = fri2  here = here  there = there  p1 = p1  p2 = p2
    None = None  Absent = Absent  Torn = Torn
    Circuit = {c1}
    Table <- MCTable
    Shape <- MCShape
    ShapeOf <- MCShapeOf
    Satisfies <- OneCircuitSatisfies
    Fri <- MCFri
    Loc = {here}
    Proc = {p1}
    Invocation <- EveryoneReadme
    LateFlushFails = FALSE
    MaxRuns = 2
    MaxFaults = 0
    MaxEdits = 0
INVARIANT
    PreprocessedDataSuffices
CHECK_DEADLOCK FALSE
