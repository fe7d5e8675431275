\* Eight operations: three segments, so that a left half is resolved and a
\* right half of two segments is folded before it is applied.
SPECIFICATION Spec
CONSTANTS
    Mod = 5
    Op = 8
    NumberRange = 3
INVARIANTS
    TypeOK
    LinesTrue
    TreeAgrees
