\* Odd and even modulus behave alike; every chain of four operations, cut into
\* groups that divide four, do not divide it, and are longer than the chain.
SPECIFICATION Spec
CONSTANTS
    Mod = 5
    Op = 4
    NumberRange = 4
    Nests = {1, 2, 3, 4, 6}
INVARIANTS
    GroupedInv
    ExpressionMeansNode
