\* All command lines of up to four words.
SPECIFICATION Spec
CONSTANT CommandLine <- UpTo4
INVARIANT
    EveryWordInPlace
PROPERTY
    ParsingEnds
CHECK_DEADLOCK FALSE
