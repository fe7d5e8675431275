\* All chains of three operations, modulo an odd number (the code uses 23).
SPECIFICATION Spec
CONSTANTS
    Mod = 5
    Op = 3
    NumberRange = 5
INVARIANTS
    BackwardInv
    EveryLineTrue
    AnswerAgrees
    Canonical
