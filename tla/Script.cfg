\* Two scripts at once.
SPECIFICATION Spec
CONSTANTS
    s1 = s1  s2 = s2  t1 = t1  t2 = t2  t3 = t3  good1 = good1  good2 = good2
    out1 = out1  out2 = out2  out3 = out3
    None = None  Absent = Absent  Torn = Torn
    Script = {s1, s2}
    Table = {t1, t2, t3}
    HasCircuit = {t1, t2}
    Targets <- Both
    ProofAt <- MCProofAt
    Made <- MCMade
    Loc = {out1, out2, out3}
    Proof = {good1, good2}
    Genuine = {good1, good2}
    LateFlushFails = FALSE
INVARIANTS
    TypeOK
    ExitCodeExact
    
PROPERTY
    EveryScriptEnds
CHECK_DEADLOCK FALSE
