\* Two commands on one directory, one death, two preparations, one evaluation.
\* Every command asks for two operations per problem (Ops).
SPECIFICATION Spec
CONSTANTS
    Commands <- MCCommands
    MaxCommands = 2
    MaxCrashes = 1
    MaxDraws = 5
    Malformed = Malformed
    Modulus = 23
    Ops = {2}
    MaxFiles = 2
    ValNum = 1
    ValDen = 3
    SftCommands <- MCSftCommands
    MaxPreps = 2
    GenTexts <- MCGenTexts
    Solutions <- MCSolutions
INVARIANTS
    GenTypeOK
    QuotaMet
    ModesShareChains
    OneLinePerCrash
    ValidationUnseen
    SftServesFiles
    GradedAlike
PROPERTIES
    ReturnsIffProductive
CHECK_DEADLOCK FALSE
