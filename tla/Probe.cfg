\* Two processes of one user, or of two, one of whom may have no right to write.
SPECIFICATION Spec
CONSTANTS
    p1 = p1  p2 = p2  u1 = u1  u2 = u2  guest = guest  a = a  b = b
    Temp = Temp  Absent = Absent
    Proc = {p1, p2}
    User = {u1, u2, guest}
    MayWrite = {u1, u2}
    Path = {a, b}
    MaxRuns = 3
    MaxFaults = 1
    MaxEdits = 2
SYMMETRY Symmetry
INVARIANTS
    TypeOK
    NoLitter
    
    NoHolds
PROPERTY
    ProofsSurviveProbes
CHECK_DEADLOCK FALSE
