\* Command lines and configuration files, right and wrong ones.
SPECIFICATION Spec
CONSTANTS
    CommandLine <- MCCommandLine
    ConfigFile <- MCConfigFile
    PrefixOf <- MCPrefixOf
    Number <- MCNumber
    Severity <- MCSeverity
    Blank <- MCBlank
    NoFile = NoFile
    None = None
INVARIANTS
    TypeOK
    Precedence
    TerminatesForCause
CHECK_DEADLOCK FALSE
