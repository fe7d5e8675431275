----------------------------- MODULE LinearForm -----------------------------
(***************************************************************************)
(* The arithmetic the solution writers of src/src/generator.py share: one  *)
(* chain operation, and linear forms a * X + b in an unknown X, modulo     *)
(* Mod.  A form is the pair <<a, b>>.  Python's % has the sign of its      *)
(* (positive) divisor, as TLA+'s has.                                      *)
(***************************************************************************)
EXTENDS Integers

CONSTANT Mod

ASSUME ModAssumption == Mod \in Nat \ {0}

Ops == {"+", "-", "*"}

\* one operation before its reduction modulo Mod
Apply(o, v, c) ==
    CASE o = "+" -> v + c
      [] o = "-" -> v - c
      [] o = "*" -> v * c

\* mutant: b is moved below zero from Mod \div 2 on
CanonicalizeEarly(f) ==
    LET b == f[2] % Mod
    IN  <<f[1] % Mod, IF b >= Mod \div 2 THEN b - Mod ELSE b>>

\* _canonicalize: b is the representative nearest to zero
Canonicalize(f) ==
    LET b == f[2] % Mod
    IN  <<f[1] % Mod, IF b > Mod \div 2 THEN b - Mod ELSE b>>

\* X o c, as a form in X
LinearOf(o, c) ==
    CASE o = "+" -> <<1, c>>
      [] o = "-" -> <<1, -c>>
      [] o = "*" -> <<c, 0>>

\* mutant: the sign of the constant is lost
SubstituteUnsigned(f, o, c) ==
    CASE o \in {"+", "-"} -> <<f[1], f[1] * c + f[2]>>
      [] o = "*" -> <<f[1] * c, f[2]>>

\* f with X replaced by (X o c)
Substitute(f, o, c) ==
    CASE o = "+" -> <<f[1], f[1] * c + f[2]>>
      [] o = "-" -> <<f[1], (-f[1]) * c + f[2]>>
      [] o = "*" -> <<f[1] * c, f[2]>>

\* mutant: only the coefficient is multiplied
ExtendHalf(f, o, c) ==
    CASE o = "+" -> <<f[1], f[2] + c>>
      [] o = "-" -> <<f[1], f[2] - c>>
      [] o = "*" -> <<f[1] * c, f[2]>>

\* (f) o c
Extend(f, o, c) ==
    CASE o = "+" -> <<f[1], f[2] + c>>
      [] o = "-" -> <<f[1], f[2] - c>>
      [] o = "*" -> <<f[1] * c, f[2] * c>>

\* mutant: the two halves are composed in the wrong order
ComposeSwapped(g, f) == <<f[1] * g[1], f[1] * g[2] + f[2]>>

\* g with its unknown replaced by the form f
Compose(g, f) == <<g[1] * f[1], g[1] * f[2] + g[2]>>

\* the value of a form
Eval(f, v) == (f[1] * v + f[2]) % Mod

Form == Int \X Int
CanonicalForm == (0 .. Mod - 1) \X ((Mod \div 2) - Mod + 1 .. Mod \div 2)
=============================================================================
