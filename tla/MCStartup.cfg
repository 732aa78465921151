\* The three programs, every order of defects in two sections of the local file
\* and in what the configuration server answers.
CONSTANTS
    Fields = {f1, f2}
    LocalFiles <- MCLocalFiles
    Answers <- MCAnswers
    Missing = Missing
    None = None
SPECIFICATION Spec
\* A process that is up, or that ended, initialises nothing more.
CHECK_DEADLOCK FALSE
INVARIANTS
    TypeOK
    UpIsRegistrable
    EarlyIsLocal
    UnreadableNeverStarts
    LoadIsWhole
