\* The calls README.md gives.
SPECIFICATION Spec
CONSTANTS
    CommandLine <- ReadmeCommandLine
    ConfigFile <- MCConfigFile
    PrefixOf <- MCPrefixOf
    Number <- MCNumber
    Severity <- MCSeverity
    Blank <- MCBlank
    NoFile = NoFile
    None = None
INVARIANTS
    SampleCallsAccepted
CHECK_DEADLOCK FALSE
