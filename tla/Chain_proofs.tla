----------------------------- MODULE Chain_proofs -----------------------------
(***************************************************************************)
(* Facts about remainders, linear forms and generate_chain that the proofs *)
(* of the solution writers share.                                          *)
(***************************************************************************)
EXTENDS Chain, TLAPS

\* Quotient and remainder of Python's // and % with a positive divisor.
LEMMA DivMod ==
    ASSUME NEW x \in Int
    PROVE  /\ x \div Mod \in Int /\ x % Mod \in 0 .. Mod - 1
           /\ x = Mod * (x \div Mod) + (x % Mod)
  BY ModAssumption

\* A multiple of Mod that is not zero is at least Mod away from it.
LEMMA MultipleIsFar ==
    ASSUME NEW m \in Nat \ {0}, NEW q \in Int, -m < m * q, m * q < m
    PROVE  q = 0
<1>1. CASE q > 0
  <2>1. m * (q - 1) >= 0  BY <1>1
  <2>2. m * q = m * (q - 1) + m  OBVIOUS
  <2> QED  BY <2>1, <2>2
<1>2. CASE q < 0
  <2>1. m * ((-1) - q) >= 0  BY <1>2
  <2>2. m * q = -(m * ((-1) - q)) - m  OBVIOUS
  <2> QED  BY <2>1, <2>2
<1> QED  BY <1>1, <1>2

\* Numbers that differ by a multiple of Mod have the same remainder.
LEMMA Congruent ==
    ASSUME NEW x \in Int, NEW y \in Int, NEW q \in Int, x = y + Mod * q
    PROVE  x % Mod = y % Mod
<1> DEFINE p == (x \div Mod) - (y \div Mod) - q
<1>1. p \in Int  BY DivMod
<1>2. /\ x = Mod * (x \div Mod) + (x % Mod)
      /\ y = Mod * (y \div Mod) + (y % Mod)
      /\ x % Mod \in 0 .. Mod - 1 /\ y % Mod \in 0 .. Mod - 1
      /\ x \div Mod \in Int /\ y \div Mod \in Int /\ Mod \in Nat \ {0}
  BY DivMod, ModAssumption
<1>3. Mod * p = Mod * (x \div Mod) - Mod * (y \div Mod) - Mod * q
  BY <1>2
<1>4. Mod * p = (y % Mod) - (x % Mod)  BY <1>2, <1>3
<1>5. -Mod < Mod * p /\ Mod * p < Mod  BY <1>2, <1>4
<1>6. p = 0  BY <1>1, <1>2, <1>5, MultipleIsFar
<1> QED  BY <1>2, <1>4, <1>6

\* A remainder is its own remainder.
LEMMA SmallRemainder ==
    ASSUME NEW x \in 0 .. Mod - 1
    PROVE  x % Mod = x
<1>1. /\ x = Mod * (x \div Mod) + (x % Mod) /\ x \div Mod \in Int
      /\ x % Mod \in 0 .. Mod - 1 /\ Mod \in Nat \ {0}
  BY DivMod, ModAssumption
<1>2. -Mod < Mod * (x \div Mod) /\ Mod * (x \div Mod) < Mod  BY <1>1
<1>3. x \div Mod = 0  BY <1>1, <1>2, MultipleIsFar
<1> QED  BY <1>1, <1>3

\* One operation on an integer is an integer.
LEMMA ApplyType ==
    ASSUME NEW o \in Ops, NEW v \in Int, NEW c \in Int
    PROVE  Apply(o, v, c) \in Int /\ Apply(o, v, c) % Mod \in 0 .. Mod - 1
<1>1. Apply(o, v, c) \in Int  BY DEF Apply, Ops
<1> QED  BY <1>1, DivMod

\* An operation does not tell a number from its remainder.
LEMMA ApplyReduces ==
    ASSUME NEW o \in Ops, NEW v \in Int, NEW w \in Int, NEW c \in Int,
           v % Mod = w % Mod
    PROVE  Apply(o, v, c) % Mod = Apply(o, w, c) % Mod
<1> DEFINE q == (v \div Mod) - (w \div Mod)
<1>1. /\ v = Mod * (v \div Mod) + (v % Mod) /\ v \div Mod \in Int
      /\ w = Mod * (w \div Mod) + (w % Mod) /\ w \div Mod \in Int
      /\ v % Mod \in Int /\ Mod \in Int
  BY DivMod, ModAssumption
<1>2. q \in Int /\ Mod * q = Mod * (v \div Mod) - Mod * (w \div Mod)
  BY <1>1
<1>3. v = w + Mod * q  BY <1>1, <1>2
<1> HIDE DEF q
<1>4. CASE o = "+"
  <2>1. v + c = (w + c) + Mod * q  BY <1>1, <1>2, <1>3
  <2>2. (v + c) % Mod = (w + c) % Mod  BY <1>2, <2>1, Congruent
  <2> QED  BY <1>4, <2>2 DEF Apply
<1>5. CASE o = "-"
  <2>1. v - c = (w - c) + Mod * q  BY <1>1, <1>2, <1>3
  <2>2. (v - c) % Mod = (w - c) % Mod  BY <1>2, <2>1, Congruent
  <2> QED  BY <1>5, <2>2 DEF Apply
<1>6. CASE o = "*"
  <2>1. v * c = (w + Mod * q) * c  BY <1>3
  <2>2. (w + Mod * q) * c = w * c + Mod * (q * c)  BY <1>1, <1>2
  <2>3. v * c = w * c + Mod * (q * c)  BY <2>1, <2>2
  <2>4. v * c \in Int /\ w * c \in Int /\ q * c \in Int  BY <1>2
  <2>5. (v * c) % Mod = (w * c) % Mod  BY <2>3, <2>4, Congruent
  <2> QED  BY <1>6, <2>5 DEF Apply
<1> QED  BY <1>4, <1>5, <1>6 DEF Ops

-----------------------------------------------------------------------------
(* Linear forms *)

\* The two components of a form are integers.
LEMMA FormParts ==
    ASSUME NEW f \in Form
    PROVE  f[1] \in Int /\ f[2] \in Int /\ f = <<f[1], f[2]>>
  BY DEF Form

\* _canonicalize changes the text of a form, not its value modulo Mod.
LEMMA CanonicalizeKeepsValue ==
    ASSUME NEW f \in Form, NEW v \in Int
    PROVE  /\ Canonicalize(f) \in Form
           /\ Eval(Canonicalize(f), v) = Eval(f, v)
<1> DEFINE a == f[1] % Mod
           b == f[2] % Mod
           p == f[1] \div Mod
           q == f[2] \div Mod
<1>1. /\ a \in Int /\ b \in Int /\ p \in Int /\ q \in Int
      /\ f[1] = Mod * p + a /\ f[2] = Mod * q + b
      /\ Mod \in Int
  BY FormParts, DivMod, ModAssumption
<1> HIDE DEF a, b, p, q
<1>2. f[1] * v + f[2] = (Mod * p + a) * v + Mod * q + b  BY <1>1
<1>3. (Mod * p + a) * v + Mod * q + b = (a * v + b) + Mod * (p * v + q)
  BY <1>1
<1>4. (Mod * p + a) * v + Mod * q + b
        = (a * v + (b - Mod)) + Mod * (p * v + q + 1)
  BY <1>1
<1>5. Eval(f, v) = (a * v + b) % Mod
  <2>1. f[1] * v + f[2] = (a * v + b) + Mod * (p * v + q)  BY <1>2, <1>3
  <2>2. /\ f[1] * v + f[2] \in Int /\ a * v + b \in Int
        /\ p * v + q \in Int
    BY <1>1, FormParts
  <2> QED  BY <2>1, <2>2, Congruent DEF Eval
<1>6. Eval(f, v) = (a * v + (b - Mod)) % Mod
  <2>1. f[1] * v + f[2] = (a * v + (b - Mod)) + Mod * (p * v + q + 1)
    BY <1>2, <1>4
  <2>2. /\ f[1] * v + f[2] \in Int /\ a * v + (b - Mod) \in Int
        /\ p * v + q + 1 \in Int
    BY <1>1, FormParts
  <2> QED  BY <2>1, <2>2, Congruent DEF Eval
<1>7. Canonicalize(f) = <<a, IF b > Mod \div 2 THEN b - Mod ELSE b>>
  BY DEF Canonicalize, a, b
<1>8. CASE b > Mod \div 2
  <2>1. Canonicalize(f) = <<a, b - Mod>>  BY <1>7, <1>8
  <2> QED  BY <2>1, <1>1, <1>6 DEF Eval, Form
<1>9. CASE ~(b > Mod \div 2)
  <2>1. Canonicalize(f) = <<a, b>>  BY <1>7, <1>9
  <2> QED  BY <2>1, <1>1, <1>5 DEF Eval, Form
<1> QED  BY <1>8, <1>9

\* What _canonicalize returns is in canonical form.
LEMMA CanonicalizeIsCanonical ==
    ASSUME NEW f \in Form
    PROVE  Canonicalize(f) \in CanonicalForm
<1> DEFINE a == f[1] % Mod
           b == f[2] % Mod
<1>1. a \in 0 .. Mod - 1 /\ b \in 0 .. Mod - 1 /\ Mod \in Nat \ {0}
  BY FormParts, DivMod, ModAssumption
<1>2. Canonicalize(f) = <<a, IF b > Mod \div 2 THEN b - Mod ELSE b>>
  BY DEF Canonicalize
<1> HIDE DEF a, b
<1>3. (IF b > Mod \div 2 THEN b - Mod ELSE b)
        \in (Mod \div 2) - Mod + 1 .. Mod \div 2
  BY <1>1
<1> QED  BY <1>1, <1>2, <1>3 DEF CanonicalForm

\* The form of the last operation has that operation's value.
LEMMA LinearOfValue ==
    ASSUME NEW o \in Ops, NEW v \in Int, NEW c \in Int
    PROVE  /\ LinearOf(o, c) \in Form
           /\ Eval(LinearOf(o, c), v) = Apply(o, v, c) % Mod
  BY DEF LinearOf, Form, Eval, Apply, Ops

\* Putting (X o c) for the unknown yields the form's value at v o c.
LEMMA SubstituteValue ==
    ASSUME NEW f \in Form, NEW o \in Ops, NEW v \in Int, NEW c \in Int
    PROVE  /\ Substitute(f, o, c) \in Form
           /\ Eval(Substitute(f, o, c), v) = Eval(f, Apply(o, v, c))
<1>1. f[1] \in Int /\ f[2] \in Int  BY FormParts
<1>2. CASE o = "+"
  <2>1. Substitute(f, o, c) = <<f[1], f[1] * c + f[2]>>
    BY <1>2 DEF Substitute
  <2>2. Apply(o, v, c) = v + c  BY <1>2 DEF Apply
  <2>3. f[1] * v + (f[1] * c + f[2]) = f[1] * (v + c) + f[2]  BY <1>1
  <2> QED  BY <1>1, <2>1, <2>2, <2>3 DEF Eval, Form
<1>3. CASE o = "-"
  <2>1. Substitute(f, o, c) = <<f[1], (-f[1]) * c + f[2]>>
    BY <1>3 DEF Substitute
  <2>2. Apply(o, v, c) = v - c  BY <1>3 DEF Apply
  <2>3. f[1] * v + ((-f[1]) * c + f[2]) = f[1] * (v - c) + f[2]  BY <1>1
  <2> QED  BY <1>1, <2>1, <2>2, <2>3 DEF Eval, Form
<1>4. CASE o = "*"
  <2>1. Substitute(f, o, c) = <<f[1] * c, f[2]>>
    BY <1>4 DEF Substitute
  <2>2. Apply(o, v, c) = v * c  BY <1>4 DEF Apply
  <2>3. (f[1] * c) * v + f[2] = f[1] * (v * c) + f[2]  BY <1>1
  <2> QED  BY <1>1, <2>1, <2>2, <2>3 DEF Eval, Form
<1> QED  BY <1>2, <1>3, <1>4 DEF Ops

\* A form does not tell a number from its remainder.
LEMMA EvalReduces ==
    ASSUME NEW f \in Form, NEW v \in Int
    PROVE  Eval(f, v % Mod) = Eval(f, v)
<1> DEFINE r == v % Mod
           q == v \div Mod
<1>1. /\ r \in Int /\ q \in Int /\ v = Mod * q + r /\ Mod \in Int
      /\ f[1] \in Int /\ f[2] \in Int
  BY DivMod, ModAssumption, FormParts
<1> HIDE DEF r, q
<1>2. f[1] * v + f[2] = f[1] * (Mod * q + r) + f[2]  BY <1>1
<1>3. f[1] * (Mod * q + r) + f[2] = (f[1] * r + f[2]) + Mod * (f[1] * q)
  BY <1>1
<1>4. (f[1] * v + f[2]) % Mod = (f[1] * r + f[2]) % Mod
  <2>1. /\ f[1] * v + f[2] \in Int /\ f[1] * r + f[2] \in Int
        /\ f[1] * q \in Int
    BY <1>1
  <2> QED  BY <1>2, <1>3, <2>1, Congruent
<1> QED  BY <1>4 DEF Eval, r

\* Extending a form applies the operation to its value.
LEMMA ExtendValue ==
    ASSUME NEW f \in Form, NEW o \in Ops, NEW v \in Int, NEW c \in Int
    PROVE  /\ Extend(f, o, c) \in Form
           /\ Eval(Extend(f, o, c), v) = Apply(o, Eval(f, v), c) % Mod
<1> DEFINE w == f[1] * v + f[2]
<1>1. f[1] \in Int /\ f[2] \in Int  BY FormParts
<1>2. w \in Int /\ w % Mod \in 0 .. Mod - 1 /\ w % Mod \in Int
  <2>1. w \in Int  BY <1>1
  <2> HIDE DEF w
  <2>2. w % Mod \in 0 .. Mod - 1  BY <2>1, DivMod
  <2> QED  BY <2>1, <2>2, ModAssumption
<1>3. (w % Mod) % Mod = w % Mod  BY <1>2, SmallRemainder
<1>4. Apply(o, w % Mod, c) % Mod = Apply(o, w, c) % Mod
  BY <1>2, <1>3, ApplyReduces
<1>5. Extend(f, o, c) \in Form /\ Eval(Extend(f, o, c), v)
                                     = Apply(o, w, c) % Mod
  <2>1. CASE o = "+"
    <3>1. Extend(f, o, c) = <<f[1], f[2] + c>>  BY <2>1 DEF Extend
    <3>2. f[1] * v + (f[2] + c) = Apply(o, w, c)  BY <1>1, <2>1 DEF Apply
    <3> QED  BY <1>1, <3>1, <3>2 DEF Eval, Form
  <2>2. CASE o = "-"
    <3>1. Extend(f, o, c) = <<f[1], f[2] - c>>  BY <2>2 DEF Extend
    <3>2. f[1] * v + (f[2] - c) = Apply(o, w, c)  BY <1>1, <2>2 DEF Apply
    <3> QED  BY <1>1, <3>1, <3>2 DEF Eval, Form
  <2>3. CASE o = "*"
    <3>1. Extend(f, o, c) = <<f[1] * c, f[2] * c>>  BY <2>3 DEF Extend
    <3>2. (f[1] * c) * v + f[2] * c = (f[1] * v + f[2]) * c  BY <1>1
    <3>3. Apply(o, w, c) = w * c  BY <2>3 DEF Apply
    <3> QED  BY <1>1, <3>1, <3>2, <3>3 DEF Eval, Form
  <2> QED  BY <2>1, <2>2, <2>3 DEF Ops
<1>6. Eval(f, v) = w % Mod  BY DEF Eval
<1> QED  BY <1>4, <1>5, <1>6

\* A composed form has the value of the outer form at that of the inner one.
LEMMA ComposeValue ==
    ASSUME NEW g \in Form, NEW f \in Form, NEW v \in Int
    PROVE  /\ Compose(g, f) \in Form
           /\ Eval(Compose(g, f), v) = Eval(g, Eval(f, v))
<1> DEFINE w == f[1] * v + f[2]
<1>1. /\ f[1] \in Int /\ f[2] \in Int /\ g[1] \in Int /\ g[2] \in Int
      /\ w \in Int
  BY FormParts
<1>2. Compose(g, f) = <<g[1] * f[1], g[1] * f[2] + g[2]>>  BY DEF Compose
<1>3. (g[1] * f[1]) * v + (g[1] * f[2] + g[2]) = g[1] * w + g[2]  BY <1>1
<1>4. Eval(Compose(g, f), v) = Eval(g, w)  BY <1>2, <1>3 DEF Eval
<1>5. Eval(g, w % Mod) = Eval(g, w)  BY <1>1, EvalReduces
<1>6. Eval(f, v) = w % Mod  BY DEF Eval
<1>7. Compose(g, f) \in Form  BY <1>1, <1>2 DEF Form
<1> QED  BY <1>4, <1>5, <1>6, <1>7

-----------------------------------------------------------------------------
(* The chain *)

\* The constants generate_chain draws are natural numbers.
LEMMA ConstantsAreNat ==
    ASSUME NEW o \in Ops
    PROVE  ConstantsFor(o) \subseteq Nat
  BY ChainAssumption DEF ConstantsFor

\* The first node is a chain.
LEMMA ChainInitType == ChainInit => ChainType /\ ChainCorrect
<1> SUFFICES ASSUME ChainInit PROVE ChainType /\ ChainCorrect  OBVIOUS
<1>1. PICK v \in 1 .. (NumberRange - 1) : values = <<v>>  BY DEF ChainInit
<1>2. ops = <<>> /\ constants = <<>>  BY DEF ChainInit
<1>3. values \in Seq(Nat) /\ Len(values) = 1  BY <1>1, ChainAssumption
<1> QED  BY <1>2, <1>3, ChainAssumption DEF ChainType, ChainCorrect

\* One more node leaves the chain well formed and true.
LEMMA AddNodeStep ==
    ASSUME ChainType, ChainCorrect, AddNode
    PROVE  ChainType' /\ ChainCorrect'
<1>1. PICK o \in Ops : \E c \in ConstantsFor(o) :
        /\ values' = Append(values, Apply(o, values[Len(values)], c) % Mod)
        /\ ops' = Append(ops, o) /\ constants' = Append(constants, c)
  BY DEF AddNode
<1>2. PICK c \in ConstantsFor(o) :
        /\ values' = Append(values, Apply(o, values[Len(values)], c) % Mod)
        /\ ops' = Append(ops, o) /\ constants' = Append(constants, c)
  BY <1>1
<1> DEFINE n == Len(ops)
           v == Apply(o, values[Len(values)], c) % Mod
<1>3. /\ n \in Nat /\ n < Op /\ Len(values) = n + 1 /\ Len(constants) = n
      /\ values \in Seq(Nat) /\ ops \in Seq(Ops) /\ constants \in Seq(Nat)
      /\ Op \in Nat
  BY ChainAssumption DEF AddNode, ChainType, Complete
<1>4. c \in Nat  BY ConstantsAreNat
<1>5. v \in Nat
  <2>1. values[Len(values)] \in Int  BY <1>3
  <2> QED  BY <1>4, <2>1, ApplyType, ModAssumption
<1> HIDE DEF v
<1>6. /\ values' = Append(values, v) /\ values' \in Seq(Nat)
      /\ Len(values') = n + 2
      /\ \A i \in 1 .. n + 1 : values'[i] = values[i]
      /\ values'[n + 2] = v
  BY <1>2, <1>3, <1>5 DEF v
<1>7. /\ ops' \in Seq(Ops) /\ Len(ops') = n + 1 /\ ops'[n + 1] = o
      /\ \A i \in 1 .. n : ops'[i] = ops[i]
  BY <1>2, <1>3
<1>8. /\ constants' \in Seq(Nat) /\ Len(constants') = n + 1
      /\ constants'[n + 1] = c
      /\ \A i \in 1 .. n : constants'[i] = constants[i]
  BY <1>2, <1>3, <1>4
<1>9. ChainType'  BY <1>3, <1>6, <1>7, <1>8 DEF ChainType
<1>10. ASSUME NEW i \in 1 .. n + 1
      PROVE  values'[i + 1] = Apply(ops'[i], values'[i], constants'[i]) % Mod
  <2>1. CASE i = n + 1
    <3>1. values'[i + 1] = v /\ ops'[i] = o /\ constants'[i] = c
          /\ values'[i] = values[Len(values)]
      BY <1>3, <1>6, <1>7, <1>8, <2>1
    <3> QED  BY <3>1 DEF v
  <2>2. CASE i # n + 1
    <3>1. i \in 1 .. n  BY <1>3, <2>2
    <3>2. i \in 1 .. n + 1 /\ i + 1 \in 1 .. n + 1  BY <1>3, <3>1
    <3>3. values'[i + 1] = values[i + 1] /\ values'[i] = values[i]
      BY <1>6, <3>2
    <3>4. ops'[i] = ops[i] /\ constants'[i] = constants[i]
      BY <1>7, <1>8, <3>1
    <3> QED  BY <3>1, <3>3, <3>4 DEF ChainCorrect
  <2> QED  BY <2>1, <2>2
<1>11. ChainCorrect'  BY <1>7, <1>10 DEF ChainCorrect
<1> QED  BY <1>9, <1>11

\* The parts of a node that is in the chain.
LEMMA NodeType ==
    ASSUME ChainType, NEW i \in 1 .. Len(ops)
    PROVE  /\ values[i] \in Int /\ values[i + 1] \in Int
           /\ ops[i] \in Ops /\ constants[i] \in Int
<1>1. /\ Len(values) = Len(ops) + 1 /\ Len(constants) = Len(ops)
      /\ values \in Seq(Nat) /\ ops \in Seq(Ops) /\ constants \in Seq(Nat)
      /\ Len(ops) \in Nat
  BY DEF ChainType
<1>2. i \in 1 .. Len(values) /\ i + 1 \in 1 .. Len(values)  BY <1>1
<1> QED  BY <1>1, <1>2
=============================================================================
