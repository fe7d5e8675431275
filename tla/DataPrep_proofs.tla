--------------------------- MODULE DataPrep_proofs ---------------------------
(***************************************************************************)
(* The generation workers, the preparations and the evaluation, for every  *)
(* set of commands and every number of crashes: the state is well typed, a *)
(* crash spoils one line at most, what was ordered is delivered, no line   *)
(* is written more often than ordered, the modes of a command share their  *)
(* chains, the training files serve their mode, no problem is in both      *)
(* splits, and reward and evaluation give one verdict on an answer that is *)
(* well put.                                                               *)
(***************************************************************************)
EXTENDS DataPrep, TLAPS, FiniteSetTheorems, SequenceTheorems,
        WellFoundedInduction

\* Every nonempty set of natural numbers has a least element.
LEMMA Least ==
    ASSUME NEW T, T \subseteq Nat, T # {}
    PROVE  \E x \in T : \A y \in T : x <= y
<1> DEFINE R == {p \in Nat \X Nat : p[1] < p[2]}
<1>1. IsWellFoundedOn(R, Nat)
  <2>1. OpToRel(<, Nat) = R  BY DEF OpToRel
  <2> QED  BY <2>1, NatLessThanWellFounded
<1>2. \E x \in T : \A y \in T : ~(<<y, x>> \in R)  BY <1>1, WFMin
<1>3. PICK x \in T : \A y \in T : ~(<<y, x>> \in R)  BY <1>2
<1>4. ASSUME NEW y \in T PROVE x <= y
  <2>1. x \in Nat /\ y \in Nat  OBVIOUS
  <2>2. ~(<<y, x>> \in R)  BY <1>3
  <2>3. <<y, x>> \in Nat \X Nat  BY <2>1
  <2>4. ~(y < x)  BY <2>2, <2>3
  <2> QED  BY <2>1, <2>4
<1> QED  BY <1>4

-----------------------------------------------------------------------------
(* FlattenSeq *)

\* what FlattenSeq has joined after i sequences when g is what it had joined
\* after fewer
JoinBody(g, seqs, i) == IF i = 1 THEN seqs[i] ELSE g[i - 1] \o seqs[i]

\* g is right for the first k sequences
JoinsUpTo(g, seqs, k) ==
    g = [i \in 1 .. Len(seqs) |-> IF i <= k THEN JoinBody(g, seqs, i) ELSE <<>>]

\* A function that is right for k sequences makes one that is right for k + 1.
LEMMA JoinsOneMore ==
    ASSUME NEW seqs, Len(seqs) \in Nat, NEW k \in Nat, NEW g,
           JoinsUpTo(g, seqs, k)
    PROVE  \E h : JoinsUpTo(h, seqs, k + 1)
<1> DEFINE D == 1 .. Len(seqs)
           h == [i \in D |-> IF i <= k + 1 THEN JoinBody(g, seqs, i)
                                           ELSE <<>>]
<1>1. ASSUME NEW i \in D, i <= k PROVE h[i] = g[i]
  <2>1. g[i] = JoinBody(g, seqs, i)  BY <1>1 DEF JoinsUpTo
  <2>2. i <= k + 1  BY <1>1
  <2> QED  BY <2>1, <2>2
<1>2. ASSUME NEW i \in D, i <= k + 1
      PROVE  JoinBody(g, seqs, i) = JoinBody(h, seqs, i)
  <2>1. CASE i = 1  BY <2>1 DEF JoinBody
  <2>2. CASE i # 1
    <3>1. i - 1 \in D /\ i - 1 <= k  BY <1>2, <2>2
    <3>2. h[i - 1] = g[i - 1]  BY <1>1, <3>1
    <3> HIDE DEF h
    <3> QED  BY <3>2 DEF JoinBody
  <2> QED  BY <2>1, <2>2
<1>3. h = [i \in D |-> IF i <= k + 1 THEN JoinBody(h, seqs, i) ELSE <<>>]
  <2>1. \A i \in D : i <= k + 1 => JoinBody(g, seqs, i) = JoinBody(h, seqs, i)
    BY <1>2
  <2> QED  BY <2>1, Zenon
<1> QED  BY <1>3 DEF JoinsUpTo

\* FlattenSeq(seqs) is what is joined after the last of the sequences.
Joins(F, seqs, S) ==
    /\ F \in [1 .. Len(seqs) -> Seq(S)]
    /\ \A i \in 1 .. Len(seqs) : F[i] = JoinBody(F, seqs, i)
    /\ FlattenSeq(seqs) = IF Len(seqs) = 0 THEN <<>> ELSE F[Len(seqs)]

LEMMA FlattenJoins ==
    ASSUME NEW S, NEW seqs \in Seq(Seq(S))
    PROVE  \E F : Joins(F, seqs, S)
<1> DEFINE n == Len(seqs)
           D == 1 .. n
           F == CHOOSE g : g = [i \in D |-> IF i = 1 THEN seqs[i]
                                            ELSE g[i - 1] \o seqs[i]]
           T == {k \in Nat : ~ \E g : JoinsUpTo(g, seqs, k)}
<1>1. n \in Nat /\ \A i \in D : seqs[i] \in Seq(S)  OBVIOUS
<1>2. T = {}
  <2> SUFFICES ASSUME T # {} PROVE FALSE  OBVIOUS
  <2>1. PICK k \in T : \A y \in T : k <= y
    <3>1. T \subseteq Nat  OBVIOUS
    <3> QED  BY <3>1, Least
  <2>2. CASE k = 0
    <3> DEFINE g == [i \in D |-> <<>>]
    <3>1. \A i \in D : ~(i <= 0)  BY <1>1
    <3>2. g = [i \in D |-> IF i <= 0 THEN JoinBody(g, seqs, i) ELSE <<>>]
      BY <3>1, Zenon
    <3>3. JoinsUpTo(g, seqs, k)  BY <2>2, <3>2 DEF JoinsUpTo
    <3> QED  BY <3>3
  <2>3. CASE k # 0
    <3>1. k - 1 \in Nat /\ k = (k - 1) + 1 /\ ~(k <= k - 1)  BY <2>3
    <3>2. \E g : JoinsUpTo(g, seqs, k - 1)  BY <2>1, <3>1
    <3>3. \E g : JoinsUpTo(g, seqs, (k - 1) + 1)
      BY <1>1, <3>1, <3>2, JoinsOneMore
    <3> QED  BY <3>1, <3>3
  <2> QED  BY <2>2, <2>3
<1>3. PICK g : JoinsUpTo(g, seqs, n)  BY <1>1, <1>2
<1>4. g = [i \in D |-> JoinBody(g, seqs, i)]
  <2>1. \A i \in D : i <= n  BY <1>1
  <2> QED  BY <1>3, <2>1, Zenon DEF JoinsUpTo
<1>5. F = [i \in D |-> IF i = 1 THEN seqs[i] ELSE F[i - 1] \o seqs[i]]
  BY <1>4, Zenon DEF JoinBody
<1>6. n # 0 => FlattenSeq(seqs) = F[n]  BY Zenon DEF FlattenSeq
<1>7. n = 0 => FlattenSeq(seqs) = <<>>  BY DEF FlattenSeq
<1> HIDE DEF F
<1> DEFINE U == {k \in D : F[k] \notin Seq(S)}
<1>8. U = {}
  <2> SUFFICES ASSUME U # {} PROVE FALSE  OBVIOUS
  <2>1. PICK k \in U : \A y \in U : k <= y
    <3>1. U \subseteq Nat  OBVIOUS
    <3> QED  BY <3>1, Least
  <2>2. k \in D /\ k \in Nat /\ F[k] \notin Seq(S)  BY <2>1
  <2>3. F[k] = IF k = 1 THEN seqs[k] ELSE F[k - 1] \o seqs[k]
    BY <1>5, <2>2, Zenon
  <2>4. CASE k = 1  BY <1>1, <2>2, <2>3, <2>4
  <2>5. CASE k # 1
    <3>1. k - 1 \in D /\ ~(k <= k - 1)  BY <2>2, <2>5
    <3>2. F[k - 1] \in Seq(S)  BY <2>1, <3>1
    <3>3. seqs[k] \in Seq(S)  BY <1>1, <2>2
    <3> QED  BY <2>2, <2>3, <2>5, <3>2, <3>3
  <2> QED  BY <2>4, <2>5
<1>9. F = [i \in D |-> JoinBody(F, seqs, i)]  BY <1>5, Zenon DEF JoinBody
<1>10. F \in [D -> Seq(S)]
  <2>1. DOMAIN F = D  BY <1>9
  <2> QED  BY <1>8, <1>9, <2>1
<1>11. \A i \in D : F[i] = JoinBody(F, seqs, i)  BY <1>9, Zenon
<1>12. FlattenSeq(seqs) = IF n = 0 THEN <<>> ELSE F[n]  BY <1>6, <1>7
<1>13. Joins(F, seqs, S)  BY <1>10, <1>11, <1>12, Zenon DEF Joins
<1> QED  BY <1>13, Zenon

\* Joining sequences over a set yields a sequence over that set.
LEMMA FlattenType ==
    ASSUME NEW S, NEW seqs \in Seq(Seq(S))
    PROVE  FlattenSeq(seqs) \in Seq(S)
<1>1. PICK F : Joins(F, seqs, S)  BY FlattenJoins
<1>2. Len(seqs) \in Nat  OBVIOUS
<1>3. CASE Len(seqs) = 0  BY <1>1, <1>3, EmptySeq DEF Joins
<1>4. CASE Len(seqs) # 0
  <2>1. Len(seqs) \in 1 .. Len(seqs)  BY <1>2, <1>4
  <2> QED  BY <1>1, <1>4, <2>1 DEF Joins
<1> QED  BY <1>3, <1>4

-----------------------------------------------------------------------------
(* The lines of a file *)

TextLine == ItemLine \cup {Malformed}

\* Line k of file f is malformed, or has yet to be ended.
SpoiltAt(f, k) ==
    \/ k \in DOMAIN file[f].lines /\ file[f].lines[k] = Malformed
    \/ file[f].open /\ k = Len(file[f].lines)

\* The lines that are malformed, and those that the next text is glued to.
Spoilt ==
    UNION {{<<f, k>> : k \in {i \in 0 .. Len(file[f].lines) : SpoiltAt(f, i)}} :
              f \in DOMAIN file}

FilesTyped ==
    \A f \in DOMAIN file : /\ f[3] \in Ids /\ FileOK(file[f])
                          /\ file[f].lines \in Seq(TextLine)

\* at most one spoilt line per crash
CrashesCount == IsFiniteSet(Spoilt) /\ Cardinality(Spoilt) <= crashes

\* a process that was started
Started(w) ==
    /\ commands # <<>>
    /\ pass[w] \in DOMAIN cmd.passes /\ next[w] \in DOMAIN cmd.ops
    /\ items[w] \in [DOMAIN cmd.ops -> Seq(Chains)]

GenInv ==
    /\ commands \in Seq(Commands) /\ Len(commands) <= MaxCommands
    /\ pc \in [Ids -> {"absent", "generate", "write", "done", "dead"}]
    /\ pass \in [Ids -> Nat] /\ next \in [Ids -> Nat]
    /\ rng \in [Ids -> Seq(Nat \X Nat)] /\ DOMAIN items = Ids
    /\ \A w \in Ids : /\ pc[w] # "absent" => Started(w)
                      /\ Len(rng[w]) <= MaxDraws
    /\ FilesTyped /\ crashes \in 0 .. MaxCrashes /\ CrashesCount

\* The lines of a file that exists, or none.
LEMMA ExistingType ==
    ASSUME FilesTyped, NEW f
    PROVE  /\ Existing(f).lines \in Seq(TextLine)
           /\ Existing(f).open \in BOOLEAN
           /\ Existing(f).open => /\ f \in DOMAIN file /\ file[f].open
                                  /\ Existing(f).lines # <<>>
           /\ Existing(f).lines # <<>> => f \in DOMAIN file
           /\ f \in DOMAIN file => Existing(f) = file[f]
<1>1. CASE f \in DOMAIN file
  <2>1. Existing(f) = file[f]  BY <1>1 DEF Existing
  <2>2. file[f].lines \in Seq(TextLine) /\ FileOK(file[f])
    BY <1>1 DEF FilesTyped
  <2> QED  BY <1>1, <2>1, <2>2 DEF FileOK
<1>2. CASE f \notin DOMAIN file
  <2>1. Existing(f) = [lines |-> <<>>, open |-> FALSE]
    BY <1>2 DEF Existing
  <2> QED  BY <1>2, <2>1
<1> QED  BY <1>1, <1>2

\* What a text does to the lines of a file that ends in a newline, and to those
\* of one that does not.
LEMMA Joined ==
    ASSUME NEW s \in Seq(TextLine), NEW text \in Seq(TextLine)
    PROVE  LET L == Len(s)
               plain == s \o text
               glued == Front(s) \o <<Malformed>> \o Tail(text)
           IN  /\ plain \in Seq(TextLine) /\ Len(plain) = L + Len(text)
               /\ \A k \in 1 .. Len(plain) :
                     plain[k] = IF k <= L THEN s[k] ELSE text[k - L]
               /\ s # <<>> /\ text # <<>> =>
                     /\ glued \in Seq(TextLine)
                     /\ Len(glued) = L + Len(text) - 1
                     /\ \A k \in 1 .. Len(glued) :
                           glued[k] = IF k < L THEN s[k]
                                      ELSE IF k = L THEN Malformed
                                      ELSE text[k - L + 1]
<1> DEFINE L == Len(s)
           n == Len(text)
           plain == s \o text
           front == Front(s)
           back == Tail(text)
           glued == front \o <<Malformed>> \o back
<1>1. L \in Nat /\ n \in Nat  OBVIOUS
<1>2. /\ plain \in Seq(TextLine) /\ Len(plain) = L + n
      /\ \A k \in 1 .. Len(plain) :
            plain[k] = IF k <= L THEN s[k] ELSE text[k - L]
  OBVIOUS
<1>3. ASSUME s # <<>>, text # <<>>
      PROVE  /\ glued \in Seq(TextLine) /\ Len(glued) = L + n - 1
             /\ \A k \in 1 .. Len(glued) :
                   glued[k] = IF k < L THEN s[k]
                              ELSE IF k = L THEN Malformed
                              ELSE text[k - L + 1]
  <2>1. L >= 1 /\ n >= 1  BY <1>1, <1>3
  <2>2. /\ front \in Seq(TextLine) /\ Len(front) = L - 1
        /\ \A k \in 1 .. L - 1 : front[k] = s[k]
    <3>1. front = SubSeq(s, 1, L - 1)  BY DEF Front
    <3>2. \A k \in 1 .. L - 1 : s[k] \in TextLine  BY <1>1
    <3>3. /\ SubSeq(s, 1, L - 1) \in Seq(TextLine)
          /\ Len(SubSeq(s, 1, L - 1))
                = IF 1 <= L - 1 THEN (L - 1) - 1 + 1 ELSE 0
          /\ \A k \in 1 .. (L - 1) - 1 + 1 :
                SubSeq(s, 1, L - 1)[k] = s[1 + k - 1]
      <4>1. L - 1 \in Int /\ 1 \in Int  BY <1>1
      <4> QED  BY <3>2, <4>1, SubSeqProperties
    <3> HIDE DEF front
    <3>4. ASSUME NEW k \in 1 .. L - 1 PROVE front[k] = s[k]
      <4>1. k \in 1 .. (L - 1) - 1 + 1 /\ 1 + k - 1 = k  BY <1>1
      <4>2. SubSeq(s, 1, L - 1)[k] = s[1 + k - 1]  BY <3>3, <4>1, Zenon
      <4>3. s[1 + k - 1] = s[k]  BY <4>1, Zenon
      <4> QED  BY <3>1, <4>2, <4>3, Zenon
    <3>5. Len(front) = L - 1
      <4>1. Len(front) = IF 1 <= L - 1 THEN (L - 1) - 1 + 1 ELSE 0
        BY <3>1, <3>3
      <4> HIDE DEF L
      <4> QED  BY <1>1, <2>1, <4>1
    <3> QED  BY <3>1, <3>3, <3>4, <3>5
  <2>3. /\ back \in Seq(TextLine) /\ Len(back) = n - 1
        /\ \A k \in 1 .. n - 1 : back[k] = text[k + 1]
    BY <1>1, <2>1
  <2>4. /\ <<Malformed>> \in Seq(TextLine) /\ Len(<<Malformed>>) = 1
        /\ <<Malformed>>[1] = Malformed
    BY DEF TextLine
  <2> DEFINE torn == <<Malformed>>
             head == front \o torn
  <2> HIDE DEF front, back, torn
  <2>5. /\ head \in Seq(TextLine) /\ Len(head) = L
        /\ \A k \in 1 .. L : head[k] = IF k < L THEN s[k] ELSE Malformed
    <3>1. head \in Seq(TextLine) /\ Len(head) = L
      BY <1>1, <2>1, <2>2, <2>4 DEF torn
    <3>2. ASSUME NEW k \in 1 .. L
          PROVE  head[k] = IF k < L THEN s[k] ELSE Malformed
      <4>1. head[k] = IF k <= L - 1 THEN front[k] ELSE torn[k - (L - 1)]
        BY <1>1, <2>1, <2>2, <2>4 DEF torn
      <4>2. CASE k < L  BY <1>1, <2>2, <4>1, <4>2
      <4>3. CASE ~(k < L)
        <5>1. k = L /\ k - (L - 1) = 1  BY <1>1, <4>3
        <5>2. ~(k <= L - 1)  BY <1>1, <5>1
        <5> QED  BY <2>4, <4>1, <4>3, <5>1, <5>2 DEF torn
      <4> QED  BY <4>2, <4>3
    <3> QED  BY <3>1, <3>2
  <2>6. glued = head \o back  BY DEF torn, front, back
  <2> HIDE DEF glued, head
  <2>7. glued \in Seq(TextLine) /\ Len(glued) = L + (n - 1)
    <3>1. head \in Seq(TextLine) /\ back \in Seq(TextLine)  BY <2>3, <2>5
    <3>2. /\ head \o back \in Seq(TextLine)
          /\ Len(head \o back) = Len(head) + Len(back)
      BY <3>1, ConcatProperties
    <3> QED  BY <2>3, <2>5, <2>6, <3>2
  <2>8. ASSUME NEW k \in 1 .. Len(glued)
        PROVE  glued[k] = IF k < L THEN s[k]
                          ELSE IF k = L THEN Malformed ELSE text[k - L + 1]
    <3>1. k \in 1 .. L + (n - 1) /\ k \in Int  BY <1>1, <2>7
    <3>2. glued[k] = IF k <= L THEN head[k] ELSE back[k - L]
      BY <2>3, <2>5, <2>6, <3>1
    <3>3. CASE k <= L  BY <1>1, <2>5, <3>1, <3>2, <3>3
    <3>4. CASE k > L
      <4>1. k - L \in 1 .. n - 1  BY <1>1, <3>1, <3>4
      <4>2. back[k - L] = text[(k - L) + 1]  BY <2>3, <4>1
      <4> QED  BY <1>1, <3>1, <3>2, <3>4, <4>2
    <3> QED  BY <1>1, <3>1, <3>3, <3>4
  <2> QED  BY <1>1, <2>7, <2>8
<1> QED  BY <1>2, <1>3 DEF TextLine

\* A text whose last line only may be torn spoils nothing but the last line of
\* its file, and not even that when its last line is whole and ended.
LEMMA AppendSpoils ==
    ASSUME FilesTyped, NEW f, f[3] \in Ids, NEW text \in Seq(TextLine),
           NEW open \in BOOLEAN, open => text # <<>>,
           \A k \in 1 .. Len(text) - 1 : text[k] # Malformed,
           file' = Appended(f, text, open)
    PROVE  /\ FilesTyped'
           /\ Spoilt' \subseteq Spoilt \cup {<<f, Len(file'[f].lines)>>}
           /\ ~open /\ (text # <<>> => text[Len(text)] # Malformed)
                 => Spoilt' \subseteq Spoilt
<1> DEFINE s == Existing(f).lines
           n == Len(text)
           L == Len(s)
           glue == Existing(f).open /\ text # <<>>
           lines == IF glue THEN Front(s) \o <<Malformed>> \o Tail(text)
                            ELSE s \o text
<1>1. /\ DOMAIN file' = DOMAIN file \cup {f}
      /\ file'[f] = [lines |-> lines, open |-> open]
      /\ \A g \in DOMAIN file : g # f => file'[g] = file[g]
  BY DEF Appended
<1>2. /\ s \in Seq(TextLine) /\ Existing(f).open \in BOOLEAN
      /\ Existing(f).open => f \in DOMAIN file /\ file[f].open /\ s # <<>>
      /\ s # <<>> => f \in DOMAIN file
      /\ f \in DOMAIN file => Existing(f) = file[f]
  BY ExistingType
<1>3. /\ lines \in Seq(TextLine)
      /\ Len(lines) = IF glue THEN L + n - 1 ELSE L + n
      /\ \A k \in 1 .. Len(lines) :
            lines[k] = IF glue THEN IF k < L THEN s[k]
                                    ELSE IF k = L THEN Malformed
                                    ELSE text[k - L + 1]
                               ELSE IF k <= L THEN s[k] ELSE text[k - L]
  <2>1. CASE glue
    <3>1. s # <<>> /\ text # <<>>  BY <1>2, <2>1
    <3>2. lines = Front(s) \o <<Malformed>> \o Tail(text)  BY <2>1
    <3>3. s \in Seq(TextLine)  BY <1>2
    <3> HIDE DEF s, lines
    <3> QED  BY <2>1, <3>1, <3>2, <3>3, Joined
  <2>2. CASE ~glue
    <3>1. lines = s \o text  BY <2>2
    <3>2. s \in Seq(TextLine)  BY <1>2
    <3> HIDE DEF s, lines
    <3> QED  BY <2>2, <3>1, <3>2, Joined
  <2> QED  BY <2>1, <2>2
<1>4. L \in Nat /\ n \in Nat /\ (s # <<>> => L >= 1) /\ (text # <<>> => n >= 1)
  BY <1>2
<1> HIDE DEF lines, s
<1>5. FilesTyped'
  <2> SUFFICES ASSUME NEW g \in DOMAIN file'
               PROVE  /\ g[3] \in Ids /\ FileOK(file'[g])
                      /\ file'[g].lines \in Seq(TextLine)
    BY DEF FilesTyped, FileOK
  <2>1. CASE g # f
    <3>1. g \in DOMAIN file /\ file'[g] = file[g]  BY <1>1, <2>1
    <3> QED  BY <3>1 DEF FilesTyped, FileOK
  <2>2. CASE g = f
    <3>1. open => Len(lines) # 0  BY <1>2, <1>3, <1>4
    <3>2. FileOK(file'[f])  BY <1>1, <1>3, <3>1 DEF FileOK
    <3> QED  BY <1>1, <1>3, <2>2, <3>2
  <2> QED  BY <2>1, <2>2
<1> DEFINE last == Len(file'[f].lines)
           whole == text # <<>> => text[Len(text)] # Malformed
<1>6. last = Len(lines) /\ last \in Nat  BY <1>1, <1>3
<1>7. ASSUME NEW g \in DOMAIN file', NEW k \in 0 .. Len(file'[g].lines),
             SpoiltAt(g, k)'
      PROVE  <<g, k>> \in Spoilt \/ (g = f /\ k = last /\ ~(~open /\ whole))
  <2>1. CASE g # f
    <3>1. g \in DOMAIN file /\ file'[g] = file[g]  BY <1>1, <2>1
    <3>2. SpoiltAt(g, k) /\ k \in 0 .. Len(file[g].lines)
      BY <1>7, <3>1 DEF SpoiltAt
    <3> QED  BY <3>1, <3>2 DEF Spoilt
  <2>2. CASE g = f /\ open /\ k = last  BY <2>2
  <2>3. CASE g = f /\ k \in 1 .. last /\ lines[k] = Malformed
    <3>1. k \in Nat /\ k >= 1 /\ k <= last  BY <1>6, <2>3
    <3>2. CASE s # <<>> /\ k <= L /\ s[k] = Malformed
      <4>1. f \in DOMAIN file /\ file[f].lines = s  BY <1>2, <3>2 DEF s
      <4>2. SpoiltAt(f, k) /\ k \in 0 .. Len(file[f].lines)
        BY <1>2, <1>4, <3>1, <3>2, <4>1 DEF SpoiltAt
      <4> QED  BY <2>3, <4>1, <4>2 DEF Spoilt
    <3>3. CASE glue /\ k = L
      <4>1. f \in DOMAIN file /\ file[f].open /\ file[f].lines = s
        BY <1>2, <3>3 DEF s
      <4>2. SpoiltAt(f, k) /\ k \in 0 .. Len(file[f].lines)
        BY <1>4, <3>3, <4>1 DEF SpoiltAt
      <4> QED  BY <2>3, <4>1, <4>2 DEF Spoilt
    <3>4. ASSUME NEW i \in 1 .. n, text[i] = Malformed,
                 k = (IF glue THEN i + L - 1 ELSE i + L)
          PROVE  k = last /\ ~(~open /\ whole)
      <4>1. i = n
        <5>1. i \notin 1 .. n - 1  BY <3>4
        <5> QED  BY <1>4, <5>1
      <4>2. k = last  BY <1>3, <1>4, <1>6, <3>4, <4>1
      <4>3. ~whole  BY <1>4, <3>4, <4>1
      <4> QED  BY <4>2, <4>3
    <3>5. CASE glue
      <4>1. lines[k] = IF k < L THEN s[k] ELSE IF k = L THEN Malformed
                       ELSE text[k - L + 1]
        BY <1>3, <1>6, <2>3, <3>5
      <4>2. CASE k < L  BY <1>4, <2>3, <3>1, <3>2, <4>1, <4>2
      <4>3. CASE k = L  BY <3>3, <3>5, <4>3
      <4>4. CASE k > L
        <5>1. k - L + 1 \in 1 .. n /\ k = (k - L + 1) + L - 1
          BY <1>3, <1>4, <1>6, <3>1, <3>5, <4>4
        <5>2. text[k - L + 1] = Malformed
          <6>1. ~(k < L) /\ k # L  BY <1>4, <3>1, <4>4
          <6> QED  BY <2>3, <4>1, <6>1
        <5> QED  BY <2>3, <3>4, <3>5, <5>1, <5>2
      <4> QED  BY <1>4, <3>1, <4>2, <4>3, <4>4
    <3>6. CASE ~glue
      <4>1. lines[k] = IF k <= L THEN s[k] ELSE text[k - L]
        BY <1>3, <1>6, <2>3, <3>6
      <4>2. CASE k <= L
        <5>1. s # <<>>  BY <1>2, <1>4, <3>1, <4>2
        <5> QED  BY <2>3, <3>2, <4>1, <4>2, <5>1
      <4>3. CASE k > L
        <5>1. k - L \in 1 .. n /\ k = (k - L) + L
          BY <1>3, <1>4, <1>6, <3>1, <3>6, <4>3
        <5>2. text[k - L] = Malformed
          <6>1. ~(k <= L)  BY <1>4, <3>1, <4>3
          <6> QED  BY <2>3, <4>1, <6>1
        <5> QED  BY <2>3, <3>4, <3>6, <5>1, <5>2
      <4> QED  BY <1>4, <3>1, <4>2, <4>3
    <3> QED  BY <3>5, <3>6
  <2> QED
    <3>1. CASE g = f
      <4>1. file'[g].lines = lines /\ file'[g].open = open  BY <1>1, <3>1
      <4>2. \/ k \in DOMAIN lines /\ lines[k] = Malformed
            \/ open /\ k = Len(lines)
        BY <1>7, <4>1 DEF SpoiltAt
      <4>3. DOMAIN lines = 1 .. last  BY <1>3, <1>6
      <4> QED  BY <1>6, <2>2, <2>3, <3>1, <4>2, <4>3
    <3> QED  BY <2>1, <3>1
<1>8. ASSUME NEW at \in Spoilt'
      PROVE  at \in Spoilt \/ (at = <<f, last>> /\ ~(~open /\ whole))
  <2>1. PICK g \in DOMAIN file' :
          at \in {<<g, k>> : k \in {i \in 0 .. Len(file'[g].lines) :
                                      SpoiltAt(g, i)'}}
    BY DEF Spoilt
  <2>2. PICK k \in 0 .. Len(file'[g].lines) : SpoiltAt(g, k)' /\ at = <<g, k>>
    BY <2>1
  <2> QED  BY <1>7, <2>2
<1> QED  BY <1>5, <1>8

-----------------------------------------------------------------------------
(* The steps of the workers *)

\* The first state.
LEMMA GenInitInv == GenInit => GenInv
<1> SUFFICES ASSUME GenInit PROVE GenInv  OBVIOUS
<1>1. /\ commands = <<>> /\ crashes = 0 /\ file = <<>>
      /\ pc = [w \in Ids |-> "absent"]
      /\ pass = [w \in Ids |-> 1] /\ rng = [w \in Ids |-> <<>>]
      /\ items = [w \in Ids |-> <<>>] /\ next = [w \in Ids |-> 1]
  BY DEF GenInit
<1>2. MaxCommands \in Nat /\ MaxCrashes \in Nat /\ MaxDraws \in Nat
  BY DataGenAssumption
<1>3. DOMAIN file = {}  BY <1>1
<1>4. FilesTyped /\ Spoilt = {}  BY <1>3 DEF FilesTyped, Spoilt
<1>5. CrashesCount  BY <1>1, <1>4, FS_EmptySet DEF CrashesCount
<1> QED  BY <1>1, <1>2, <1>4, <1>5 DEF GenInv

\* The command that runs.
LEMMA CommandFacts ==
    ASSUME GenInv, commands # <<>>
    PROVE  /\ cmd \in Commands /\ cmd.ops \in Seq(Nat) /\ cmd.ops # <<>>
           /\ cmd.passes \in Seq(Seq(Modes)) /\ cmd.passes # <<>>
<1>1. commands \in Seq(Commands) /\ Len(commands) >= 1  BY DEF GenInv
<1>2. cmd \in Commands  BY <1>1 DEF cmd, Last
<1> QED  BY <1>2, DataGenAssumption

\* The same files and crashes have the same counts.
LEMMA FilesSame ==
    ASSUME FilesTyped, CrashesCount, UNCHANGED <<file, crashes>>
    PROVE  FilesTyped' /\ CrashesCount'
<1>1. FilesTyped'  BY DEF FilesTyped, FileOK
<1>2. Spoilt' = Spoilt  BY DEF Spoilt, SpoiltAt
<1> QED  BY <1>1, <1>2 DEF CrashesCount

\* A command starts its processes.
LEMMA LaunchStep ==
    ASSUME GenInv, NEW c \in Commands, Launch(c)
    PROVE  GenInv'
<1>1. /\ Len(commands) < MaxCommands /\ commands' = Append(commands, c)
      /\ pc' = [w \in Ids |-> IF w < c.procs THEN "generate" ELSE "absent"]
      /\ pass' = [w \in Ids |-> 1] /\ rng' = [w \in Ids |-> <<>>]
      /\ items' = [w \in Ids |-> [i \in DOMAIN c.ops |-> <<>>]]
      /\ next' = [w \in Ids |-> 1] /\ UNCHANGED <<file, crashes>>
  BY DEF Launch
<1>2. /\ commands \in Seq(Commands) /\ MaxCommands \in Nat
      /\ MaxDraws \in Nat /\ c.ops \in Seq(Nat) /\ c.ops # <<>>
      /\ c.passes \in Seq(Seq(Modes)) /\ c.passes # <<>>
      /\ FilesTyped /\ CrashesCount /\ crashes \in 0 .. MaxCrashes
  BY DataGenAssumption DEF GenInv
<1>3. /\ commands' \in Seq(Commands) /\ Len(commands') <= MaxCommands
      /\ commands' # <<>> /\ cmd' = c
  <2> DEFINE n == Len(commands)
  <2>1. /\ Append(commands, c) \in Seq(Commands)
        /\ Len(Append(commands, c)) = n + 1 /\ n \in Nat
        /\ Append(commands, c)[n + 1] = c
    BY <1>2
  <2>2. /\ commands' \in Seq(Commands) /\ Len(commands') = n + 1
        /\ commands'[n + 1] = c
    BY <1>1, <2>1
  <2>3. cmd' = c  BY <2>2 DEF cmd, Last
  <2>4. Len(commands') <= MaxCommands /\ Len(commands') # 0
    <3>1. n < MaxCommands  BY <1>1
    <3> HIDE DEF n
    <3> QED  BY <1>2, <2>1, <2>2, <3>1
  <2>5. commands' # <<>>  BY <2>4
  <2> QED  BY <2>2, <2>3, <2>4, <2>5
<1>4. 1 \in DOMAIN c.ops /\ 1 \in DOMAIN c.passes  BY <1>2
<1>5. ASSUME NEW w \in Ids PROVE Started(w)'
  <2>1. items'[w] = [i \in DOMAIN c.ops |-> <<>>]  BY <1>1
  <2>2. items'[w] \in [DOMAIN c.ops ->
                        Seq(Chains)]
    BY <2>1
  <2>3. pass'[w] = 1 /\ next'[w] = 1  BY <1>1
  <2> QED  BY <1>3, <1>4, <2>2, <2>3 DEF Started
<1>6. FilesTyped' /\ CrashesCount'  BY <1>1, <1>2, FilesSame
<1>7. \A w \in Ids : Len(rng'[w]) <= MaxDraws  BY <1>1, <1>2
<1>8. /\ pc' \in [Ids -> {"absent", "generate", "write", "done", "dead"}]
      /\ pass' \in [Ids -> Nat] /\ next' \in [Ids -> Nat]
      /\ rng' \in [Ids -> Seq(Nat \X Nat)] /\ DOMAIN items' = Ids
  BY <1>1
<1> QED  BY <1>1, <1>2, <1>3, <1>5, <1>6, <1>7, <1>8 DEF GenInv

\* There is an entry with the fewest chains.
LEMMA FewestIsEntry ==
    ASSUME GenInv, NEW w \in Ids, Started(w)
    PROVE  /\ Fewest(w) \in DOMAIN cmd.ops
           /\ \A j \in DOMAIN cmd.ops :
                 Len(items[w][Fewest(w)]) <= Len(items[w][j])
<1> DEFINE D == DOMAIN cmd.ops
           n == [i \in D |-> Len(items[w][i])]
           T == {n[i] : i \in D}
<1>1. D \subseteq Nat /\ D # {} /\ \A i \in D : n[i] \in Nat
  <2>1. cmd.ops \in Seq(Nat) /\ cmd.ops # <<>>
    <3>1. commands # <<>>  BY DEF Started
    <3> QED  BY <3>1, CommandFacts
  <2>2. D \subseteq Nat /\ D # {}
    <3>1. ASSUME NEW o \in Seq(Nat), o # <<>>
          PROVE  DOMAIN o \subseteq Nat /\ DOMAIN o # {}
      <4>1. Len(o) \in Nat \ {0} /\ DOMAIN o = 1 .. Len(o)
        BY <3>1, EmptySeq, LenProperties
      <4> QED  BY <4>1
    <3> QED  BY <2>1, <3>1
  <2>3. ASSUME NEW i \in D PROVE n[i] \in Nat
    <3>1. items[w][i] \in Seq(Chains)
      BY DEF Started
    <3> QED  BY <3>1
  <2> QED  BY <2>2, <2>3
<1>2. T \subseteq Nat /\ T # {}  BY <1>1
<1>3. PICK m \in T : \A y \in T : m <= y  BY <1>2, Least
<1> DEFINE U == {i \in D : n[i] = m}
<1>4. U \subseteq Nat /\ U # {}  BY <1>1, <1>3
<1>5. PICK i \in U : \A y \in U : i <= y  BY <1>4, Least
<1>6. \A j \in D : n[i] < n[j] \/ (n[i] = n[j] /\ i <= j)
  <2> SUFFICES ASSUME NEW j \in D, ~(n[i] < n[j])
               PROVE  n[i] = n[j] /\ i <= j
    OBVIOUS
  <2>1. n[i] = m /\ m <= n[j] /\ n[j] \in Nat /\ m \in Nat
    BY <1>1, <1>2, <1>3, <1>5
  <2>2. n[j] = m  BY <2>1
  <2> QED  BY <1>5, <2>1, <2>2
<1>7. \E k \in DOMAIN cmd.ops : \A j \in DOMAIN cmd.ops :
        \/ Len(items[w][k]) < Len(items[w][j])
        \/ Len(items[w][k]) = Len(items[w][j]) /\ k <= j
  BY <1>5, <1>6
<1>8. /\ Fewest(w) \in DOMAIN cmd.ops
      /\ \A j \in DOMAIN cmd.ops :
            \/ Len(items[w][Fewest(w)]) < Len(items[w][j])
            \/ /\ Len(items[w][Fewest(w)]) = Len(items[w][j])
               /\ Fewest(w) <= j
  BY <1>7, Zenon DEF Fewest
<1> QED  BY <1>1, <1>8

\* One turn of the loop keeps the types, whichever way it ends.
LEMMA DrawStep ==
    ASSUME GenInv, NEW w \in Ids, Draw(w)
    PROVE  GenInv'
<1> DEFINE modes == cmd.passes[pass[w]]
           op == cmd.ops[Fewest(w)]
           c == Chain(w, op)
<1>1. /\ pc[w] = "generate" /\ Len(rng[w]) < MaxDraws
      /\ UNCHANGED <<commands, pass, next, file, crashes>>
  BY DEF Draw
<1>2. /\ Started(w) /\ FilesTyped /\ CrashesCount /\ DOMAIN items = Ids
      /\ crashes \in 0 .. MaxCrashes /\ MaxDraws \in Nat
      /\ pc \in [Ids -> {"absent", "generate", "write", "done", "dead"}]
      /\ rng \in [Ids -> Seq(Nat \X Nat)]
  BY <1>1, DataGenAssumption DEF GenInv
<1>3. op \in Nat
  <2>1. commands # <<>>  BY <1>2 DEF Started
  <2>2. cmd.ops \in Seq(Nat)  BY <2>1, CommandFacts
  <2>3. Fewest(w) \in DOMAIN cmd.ops  BY <1>2, FewestIsEntry
  <2> QED  BY <2>2, <2>3
<1>4. Shuffles(modes) \in Nat
  <2>1. modes \in Seq(Modes)
    <3>1. commands # <<>> /\ pass[w] \in DOMAIN cmd.passes
      BY <1>2 DEF Started
    <3>2. cmd.passes \in Seq(Seq(Modes))  BY <3>1, CommandFacts
    <3> QED  BY <3>1, <3>2
  <2>2. Len(modes) \in Nat /\ DOMAIN modes = 1 .. Len(modes)
    BY <2>1, LenProperties
  <2>3. IsFiniteSet(DOMAIN modes)
    <3>1. IsFiniteSet(1 .. Len(modes))  BY <2>2, FS_Interval
    <3> QED  BY <2>2, <3>1
  <2> DEFINE S == {k \in DOMAIN modes : modes[k][1] # "implicit"}
  <2>4. IsFiniteSet(S)
    <3>1. S \subseteq DOMAIN modes  OBVIOUS
    <3> QED  BY <2>3, <3>1, FS_Subset
  <2>5. Cardinality(S) \in Nat  BY <2>4, FS_CardinalityType
  <2> QED  BY <2>5 DEF Shuffles
<1>5. c \in Chains
  <2>1. rng[w] \in Seq(Nat \X Nat)  BY <1>2
  <2>2. c = [seed |-> w, past |-> rng[w], op |-> op]  BY DEF Chain
  <2> QED  BY <1>3, <2>1, <2>2 DEF Chains
<1> HIDE DEF c, op, modes
<1>6. \E n \in Nat : rng' = [rng EXCEPT ![w] = Append(@, <<op, n>>)]
  BY <1>4 DEF Draw, op, modes
<1>7. \/ items' = items /\ pc' = pc
      \/ /\ items' = [items EXCEPT ![w][Place(op)] = Append(@, c)]
         /\ \E p \in {"write", "generate"} : pc' = [pc EXCEPT ![w] = p]
  BY DEF Draw, op, modes, c
<1>8. /\ rng' \in [Ids -> Seq(Nat \X Nat)]
      /\ \A v \in Ids : Len(rng'[v]) <= MaxDraws
  <2>1. PICK n \in Nat : rng' = [rng EXCEPT ![w] = Append(@, <<op, n>>)]
    BY <1>6
  <2> DEFINE grown == Append(rng[w], <<op, n>>)
  <2>2. /\ grown \in Seq(Nat \X Nat) /\ Len(grown) = Len(rng[w]) + 1
        /\ Len(rng[w]) \in Nat
    <3>1. rng[w] \in Seq(Nat \X Nat) /\ <<op, n>> \in Nat \X Nat
      BY <1>2, <1>3
    <3> QED  BY <3>1
  <2>3. rng' = [rng EXCEPT ![w] = grown]  BY <2>1
  <2> HIDE DEF grown
  <2>4. Len(grown) <= MaxDraws  BY <1>1, <1>2, <2>2
  <2>5. ASSUME NEW v \in Ids PROVE Len(rng'[v]) <= MaxDraws
    <3>1. CASE v = w  BY <1>2, <2>3, <2>4, <3>1
    <3>2. CASE v # w
      <4>1. rng'[v] = rng[v]  BY <1>2, <2>3, <3>2
      <4> QED  BY <4>1 DEF GenInv
    <3> QED  BY <3>1, <3>2
  <2> QED  BY <1>2, <2>2, <2>3, <2>5
<1>9. /\ pc' \in [Ids -> {"absent", "generate", "write", "done", "dead"}]
      /\ \A v \in Ids : pc'[v] # "absent" => pc[v] # "absent"
  BY <1>1, <1>2, <1>7
<1>10. DOMAIN items' = Ids  BY <1>2, <1>7
<1>11. ASSUME NEW v \in Ids, pc'[v] # "absent" PROVE Started(v)'
  <2>1. Started(v)  BY <1>9, <1>11 DEF GenInv
  <2>2. items'[v] \in [DOMAIN cmd.ops -> Seq(Chains)]
    <3>1. CASE items' = items \/ v # w
      <4>1. items'[v] = items[v]  BY <1>2, <1>7, <3>1
      <4> QED  BY <2>1, <4>1 DEF Started
    <3>2. CASE /\ v = w
               /\ items' = [items EXCEPT ![w][Place(op)] = Append(@, c)]
      <4>1. items'[w] = [items[w] EXCEPT ![Place(op)] = Append(@, c)]
        BY <1>2, <3>2
      <4>2. items[w] \in [DOMAIN cmd.ops -> Seq(Chains)]
        BY <1>2 DEF Started
      <4>3. CASE Place(op) \in DOMAIN cmd.ops
        <5>1. Append(items[w][Place(op)], c) \in Seq(Chains)
          BY <1>5, <4>2, <4>3
        <5> QED  BY <3>2, <4>1, <4>2, <5>1
      <4>4. CASE Place(op) \notin DOMAIN cmd.ops
        <5>1. items'[w] = items[w]  BY <4>1, <4>2, <4>4
        <5> QED  BY <3>2, <4>2, <5>1
      <4> QED  BY <4>3, <4>4
    <3> QED  BY <1>7, <3>1, <3>2
  <2>3. cmd' = cmd  BY <1>1 DEF cmd, Last
  <2> QED  BY <1>1, <2>1, <2>2, <2>3 DEF Started
<1>12. FilesTyped' /\ CrashesCount'  BY <1>1, <1>2, FilesSame
<1> QED
  BY <1>1, <1>2, <1>8, <1>9, <1>10, <1>11, <1>12 DEF GenInv

\* what a process writes for one chain, and for all chains of an entry
Block(w, i, k) ==
    LET modes == cmd.passes[pass[w]]
    IN  [m \in DOMAIN modes |-> [chain |-> items[w][i][k], mode |-> modes[m]]]

Blocks(w, i) == [k \in DOMAIN items[w][i] |-> Block(w, i, k)]

\* The blocks of an entry are sequences of lines that can be read.
LEMMA BlocksType ==
    ASSUME GenInv, NEW w \in Ids, Started(w), NEW i \in DOMAIN cmd.ops
    PROVE  /\ Lines(w, i) = FlattenSeq(Blocks(w, i))
           /\ Blocks(w, i) \in Seq(Seq(ItemLine))
           /\ Len(Blocks(w, i)) = Len(items[w][i])
           /\ cmd.passes[pass[w]] \in Seq(Modes)
           /\ items[w][i] \in Seq(Chains)
<1> DEFINE modes == cmd.passes[pass[w]]
           chains == items[w][i]
           block(k) == [m \in DOMAIN modes |-> [chain |-> chains[k],
                                               mode |-> modes[m]]]
           blocks == [k \in DOMAIN chains |-> block(k)]
<1>1. modes \in Seq(Modes)
  <2>1. commands # <<>> /\ pass[w] \in DOMAIN cmd.passes  BY DEF Started
  <2>2. cmd.passes \in Seq(Seq(Modes))  BY <2>1, CommandFacts
  <2> QED  BY <2>1, <2>2
<1>2. chains \in Seq(Chains)  BY DEF Started
<1>3. Blocks(w, i) = blocks  BY Zenon DEF Blocks, Block
<1>4. Lines(w, i) = FlattenSeq(blocks)  BY Zenon DEF Lines
<1> HIDE DEF modes, chains
<1>5. /\ Len(modes) \in Nat /\ DOMAIN modes = 1 .. Len(modes)
      /\ \A m \in DOMAIN modes : modes[m] \in Modes
  BY <1>1, LenProperties
<1>6. /\ Len(chains) \in Nat /\ DOMAIN chains = 1 .. Len(chains)
      /\ \A k \in DOMAIN chains : chains[k] \in Chains
  BY <1>2, LenProperties
<1>7. ASSUME NEW k \in DOMAIN chains PROVE block(k) \in Seq(ItemLine)
  <2>1. \A m \in DOMAIN modes :
           [chain |-> chains[k], mode |-> modes[m]] \in ItemLine
    BY <1>5, <1>6 DEF ItemLine
  <2>2. block(k) \in [1 .. Len(modes) -> ItemLine]  BY <1>5, <2>1
  <2> HIDE DEF block
  <2> QED  BY <1>5, <2>2, SeqDef
<1>8. blocks \in Seq(Seq(ItemLine)) /\ Len(blocks) = Len(chains)
  <2> HIDE DEF block
  <2>1. blocks \in [1 .. Len(chains) -> Seq(ItemLine)]  BY <1>6, <1>7
  <2> HIDE DEF blocks
  <2>2. blocks \in Seq(Seq(ItemLine))  BY <1>6, <2>1, SeqDef
  <2>3. DOMAIN blocks = 1 .. Len(chains)  BY <2>1
  <2> QED  BY <1>6, <2>2, <2>3, LenProperties
<1> QED  BY <1>1, <1>2, <1>3, <1>4, <1>8, Zenon DEF modes, chains

\* What a process writes for an entry are lines that can be read.
LEMMA LinesType ==
    ASSUME GenInv, NEW w \in Ids, Started(w), NEW i \in DOMAIN cmd.ops
    PROVE  Lines(w, i) \in Seq(ItemLine)
<1>1. /\ Lines(w, i) = FlattenSeq(Blocks(w, i))
      /\ Blocks(w, i) \in Seq(Seq(ItemLine))
  BY BlocksType
<1> QED  BY <1>1, FlattenType

\* A line that can be read is not malformed.
LEMMA WholeText ==
    ASSUME NEW text \in Seq(ItemLine)
    PROVE  /\ text \in Seq(TextLine)
           /\ \A k \in 1 .. Len(text) : text[k] # Malformed
<1>1. ItemLine \subseteq TextLine /\ Malformed \notin ItemLine
  BY MalformedAssumption DEF TextLine
<1>2. text \in Seq(TextLine)  BY <1>1, SeqMonotonic
<1>3. \A k \in 1 .. Len(text) : text[k] \in ItemLine  BY ElementOfSeq
<1> QED  BY <1>1, <1>2, <1>3

\* Nothing more is spoilt.
LEMMA NoneSpoilt ==
    ASSUME CrashesCount, crashes \in Nat, Spoilt' \subseteq Spoilt,
           crashes' \in {crashes, crashes + 1}
    PROVE  CrashesCount'
<1>1. IsFiniteSet(Spoilt) /\ Cardinality(Spoilt) <= crashes
  BY DEF CrashesCount
<1>2. /\ IsFiniteSet(Spoilt') /\ Cardinality(Spoilt') <= Cardinality(Spoilt)
  BY <1>1, FS_Subset
<1>3. Cardinality(Spoilt) \in Nat /\ Cardinality(Spoilt') \in Nat
  BY <1>1, <1>2, FS_CardinalityType
<1> QED  BY <1>1, <1>2, <1>3 DEF CrashesCount

\* A crash may spoil one line.
LEMMA OneSpoilt ==
    ASSUME CrashesCount, crashes \in Nat, NEW at,
           Spoilt' \subseteq Spoilt \cup {at}, crashes' = crashes + 1
    PROVE  CrashesCount'
<1> DEFINE S == Spoilt \cup {at}
<1>1. IsFiniteSet(Spoilt) /\ Cardinality(Spoilt) <= crashes
  BY DEF CrashesCount
<1>2. IsFiniteSet(S) /\ Cardinality(S) <= Cardinality(Spoilt) + 1
  <2>1. Cardinality(Spoilt) \in Nat  BY <1>1, FS_CardinalityType
  <2>2. IsFiniteSet(S) /\ Cardinality(S) = IF at \in Spoilt
                             THEN Cardinality(Spoilt)
                             ELSE Cardinality(Spoilt) + 1
    BY <1>1, FS_AddElement
  <2> QED  BY <2>1, <2>2
<1>3. IsFiniteSet(Spoilt') /\ Cardinality(Spoilt') <= Cardinality(S)
  BY <1>2, FS_Subset
<1>4. /\ Cardinality(Spoilt) \in Nat /\ Cardinality(Spoilt') \in Nat
      /\ Cardinality(S) \in Nat
  BY <1>1, <1>2, <1>3, FS_CardinalityType
<1> HIDE DEF S
<1> QED  BY <1>1, <1>2, <1>3, <1>4 DEF CrashesCount

\* After an entry the next one, the next pass or the end.
LEMMA AfterWriteStep ==
    ASSUME GenInv, NEW w \in Ids, pc[w] = "write", AfterWrite(w),
           FilesTyped', CrashesCount'
    PROVE  GenInv'
<1>1. /\ UNCHANGED <<commands, crashes>> /\ cmd' = cmd /\ Started(w)
      /\ pc \in [Ids -> {"absent", "generate", "write", "done", "dead"}]
      /\ pass \in [Ids -> Nat] /\ next \in [Ids -> Nat]
      /\ rng \in [Ids -> Seq(Nat \X Nat)] /\ DOMAIN items = Ids
      /\ MaxDraws \in Nat
  BY DataGenAssumption DEF GenInv, AfterWrite, cmd, Last
<1>2. /\ cmd.ops \in Seq(Nat) /\ cmd.ops # <<>>
      /\ cmd.passes \in Seq(Seq(Modes))
      /\ next[w] \in DOMAIN cmd.ops /\ pass[w] \in DOMAIN cmd.passes
      /\ next[w] \in Nat /\ pass[w] \in Nat
  <2>1. commands # <<>>  BY <1>1 DEF Started
  <2> QED  BY <1>1, <2>1, CommandFacts DEF Started
<1>3. /\ DOMAIN cmd.ops = 1 .. Len(cmd.ops) /\ Len(cmd.ops) \in Nat
      /\ DOMAIN cmd.passes = 1 .. Len(cmd.passes) /\ Len(cmd.passes) \in Nat
      /\ 1 \in DOMAIN cmd.ops
  <2>1. /\ DOMAIN cmd.ops = 1 .. Len(cmd.ops) /\ Len(cmd.ops) \in Nat
        /\ DOMAIN cmd.passes = 1 .. Len(cmd.passes)
        /\ Len(cmd.passes) \in Nat
    BY <1>2, LenProperties
  <2> QED  BY <1>2, <2>1
<1> DEFINE Stages == {"absent", "generate", "write", "done", "dead"}
<1>4. \A v \in Ids : /\ pc[v] # "absent" => Started(v)
                    /\ Len(rng[v]) <= MaxDraws
  BY DEF GenInv
<1>5. CASE /\ next[w] < Len(cmd.ops) /\ next' = [next EXCEPT ![w] = @ + 1]
           /\ UNCHANGED <<pc, pass, rng, items>>
  <2>1. next[w] + 1 \in DOMAIN cmd.ops  BY <1>2, <1>3, <1>5
  <2>2. ASSUME NEW v \in Ids, pc'[v] # "absent" PROVE Started(v)'
    <3>1. Started(v)  BY <1>4, <1>5, <2>2
    <3>2. next'[v] \in DOMAIN cmd.ops
      BY <1>1, <1>5, <2>1, <3>1 DEF Started
    <3> QED  BY <1>1, <1>5, <3>1, <3>2 DEF Started
  <2>3. next' \in [Ids -> Nat]
    <3>1. next[w] + 1 \in Nat /\ next \in [Ids -> Nat]  BY <1>1, <1>2
    <3>2. next' = [next EXCEPT ![w] = next[w] + 1]  BY <1>5
    <3> QED  BY <3>1, <3>2
  <2> QED  BY <1>1, <1>4, <1>5, <2>2, <2>3 DEF GenInv
<1>6. CASE /\ pass[w] < Len(cmd.passes)
           /\ pass' = [pass EXCEPT ![w] = @ + 1]
           /\ pc' = [pc EXCEPT ![w] = "generate"] /\ Seeded(w)
  <2>1. pass[w] + 1 \in DOMAIN cmd.passes
    <3>1. pass[w] \in Nat /\ pass[w] < Len(cmd.passes)  BY <1>2, <1>6
    <3>2. Len(cmd.passes) \in Nat  BY <1>3
    <3>3. pass[w] + 1 \in 1 .. Len(cmd.passes)  BY <3>1, <3>2
    <3> QED  BY <1>3, <3>3
  <2>2. /\ rng' = [rng EXCEPT ![w] = <<>>]
        /\ items' = [items EXCEPT ![w] = [i \in DOMAIN cmd.ops |-> <<>>]]
        /\ next' = [next EXCEPT ![w] = 1]
    BY <1>1, <1>6 DEF Seeded
  <2>3. ASSUME NEW v \in Ids, pc'[v] # "absent" PROVE Started(v)'
    <3>1. CASE v = w
      <4>1. /\ items'[v] = [i \in DOMAIN cmd.ops |-> <<>>] /\ next'[v] = 1
            /\ pass'[v] = pass[w] + 1
        BY <1>1, <1>6, <2>2, <3>1
      <4>2. items'[v] \in [DOMAIN cmd.ops -> Seq(Chains)]  BY <4>1
      <4>3. commands' # <<>>  BY <1>1 DEF Started
      <4> QED  BY <1>1, <1>3, <2>1, <4>1, <4>2, <4>3 DEF Started
    <3>2. CASE v # w
      <4>1. /\ items'[v] = items[v] /\ next'[v] = next[v]
            /\ pass'[v] = pass[v] /\ pc'[v] = pc[v]
        BY <1>1, <1>6, <2>2, <3>2
      <4>2. Started(v)  BY <1>4, <2>3, <4>1
      <4> QED  BY <1>1, <4>1, <4>2 DEF Started
    <3> QED  BY <3>1, <3>2
  <2>4. /\ rng' \in [Ids -> Seq(Nat \X Nat)]
        /\ \A v \in Ids : Len(rng'[v]) <= MaxDraws
    BY <1>1, <1>4, <2>2
  <2>5. /\ pc' \in [Ids -> Stages] /\ pass' \in [Ids -> Nat]
        /\ next' \in [Ids -> Nat] /\ DOMAIN items' = Ids
    <3>1. pass[w] + 1 \in Nat  BY <1>2
    <3>2. pass' = [pass EXCEPT ![w] = pass[w] + 1]  BY <1>6
    <3>3. pass' \in [Ids -> Nat]  BY <1>1, <3>1, <3>2
    <3>4. pc' \in [Ids -> Stages]  BY <1>1, <1>6
    <3>5. next' \in [Ids -> Nat] /\ DOMAIN items' = Ids  BY <1>1, <2>2
    <3> QED  BY <3>3, <3>4, <3>5
  <2> QED  BY <1>1, <2>3, <2>4, <2>5 DEF GenInv
<1>7. CASE /\ pc' = [pc EXCEPT ![w] = "done"]
           /\ UNCHANGED <<pass, rng, items, next>>
  <2>1. ASSUME NEW v \in Ids, pc'[v] # "absent" PROVE Started(v)'
    <3>1. Started(v)  BY <1>1, <1>4, <1>7, <2>1
    <3> QED  BY <1>1, <1>7, <3>1 DEF Started
  <2>2. pc' \in [Ids -> Stages]  BY <1>1, <1>7
  <2> QED  BY <1>1, <1>4, <1>7, <2>1, <2>2 DEF GenInv
<1> QED  BY <1>5, <1>6, <1>7 DEF AfterWrite

\* A write puts whole lines at the end of its file.
LEMMA WriteStep ==
    ASSUME GenInv, NEW w \in Ids, Write(w)
    PROVE  GenInv'
<1> DEFINE f == File(w)
           text == Lines(w, next[w])
<1>1. /\ pc[w] = "write" /\ file' = Appended(f, text, FALSE)
      /\ AfterWrite(w) /\ Started(w) /\ FilesTyped /\ CrashesCount
      /\ crashes' = crashes /\ crashes \in Nat
  BY DataGenAssumption DEF Write, GenInv, AfterWrite
<1>2. /\ text \in Seq(TextLine) /\ Len(text) \in Nat
      /\ \A k \in 1 .. Len(text) : text[k] # Malformed
  <2>1. next[w] \in DOMAIN cmd.ops  BY <1>1 DEF Started
  <2>2. text \in Seq(ItemLine)  BY <1>1, <2>1, LinesType
  <2> HIDE DEF text
  <2> QED  BY <2>2, WholeText
<1>3. f[3] \in Ids  BY DEF File
<1> HIDE DEF f, text
<1>4. /\ \A k \in 1 .. Len(text) - 1 : text[k] # Malformed
      /\ text # <<>> => text[Len(text)] # Malformed
  BY <1>2
<1>5. FilesTyped' /\ Spoilt' \subseteq Spoilt
  <2>1. FALSE \in BOOLEAN /\ (FALSE => text # <<>>)  OBVIOUS
  <2> QED  BY <1>1, <1>2, <1>3, <1>4, <2>1, AppendSpoils
<1>6. CrashesCount'  BY <1>1, <1>5, NoneSpoilt
<1> QED  BY <1>1, <1>5, <1>6, AfterWriteStep

\* An empty text leaves the lines as they are.
LEMMA NothingAppended ==
    ASSUME FilesTyped, NEW f, f[3] \in Ids,
           file' = Appended(f, <<>>, Existing(f).open)
    PROVE  FilesTyped' /\ Spoilt' \subseteq Spoilt
<1> DEFINE s == Existing(f).lines
<1>1. /\ DOMAIN file' = DOMAIN file \cup {f}
      /\ file'[f] = [lines |-> s \o <<>>, open |-> Existing(f).open]
      /\ \A g \in DOMAIN file : g # f => file'[g] = file[g]
  BY DEF Appended
<1>2. /\ s \in Seq(TextLine) /\ Existing(f).open \in BOOLEAN
      /\ Existing(f).open => f \in DOMAIN file /\ s # <<>>
      /\ s # <<>> => f \in DOMAIN file
      /\ f \in DOMAIN file => Existing(f) = file[f]
  BY ExistingType
<1>3. s \o <<>> = s  BY <1>2, ConcatEmptySeq
<1>4. f \in DOMAIN file => /\ file'[f].lines = file[f].lines
                           /\ file'[f].open = file[f].open
  BY <1>1, <1>2, <1>3
<1>5. f \notin DOMAIN file => /\ file'[f].lines = <<>>
                              /\ file'[f].open = FALSE
  BY <1>1, <1>2, <1>3
<1> HIDE DEF s
<1>6. ASSUME NEW g \in DOMAIN file'
      PROVE  \/ /\ g \in DOMAIN file /\ file'[g].lines = file[g].lines
                /\ file'[g].open = file[g].open
             \/ g = f /\ file'[g].lines = <<>> /\ file'[g].open = FALSE
  BY <1>1, <1>4, <1>5
<1>7. FilesTyped'
  <2> SUFFICES ASSUME NEW g \in DOMAIN file'
               PROVE  /\ g[3] \in Ids /\ FileOK(file'[g])
                      /\ file'[g].lines \in Seq(TextLine)
    BY DEF FilesTyped, FileOK
  <2>1. CASE /\ g \in DOMAIN file /\ file'[g].lines = file[g].lines
             /\ file'[g].open = file[g].open
    BY <2>1 DEF FilesTyped, FileOK
  <2>2. CASE g = f /\ file'[g].lines = <<>> /\ file'[g].open = FALSE
    <3>1. <<>> \in Seq(TextLine)  BY EmptySeq
    <3>2. FileOK(file'[g])  BY <2>2 DEF FileOK
    <3> QED  BY <2>2, <3>1, <3>2
  <2> QED  BY <1>6, <2>1, <2>2
<1>8. ASSUME NEW at \in Spoilt' PROVE at \in Spoilt
  <2>1. PICK g \in DOMAIN file' :
          at \in {<<g, k>> : k \in {i \in 0 .. Len(file'[g].lines) :
                                      SpoiltAt(g, i)'}}
    BY DEF Spoilt
  <2>2. PICK k \in 0 .. Len(file'[g].lines) : SpoiltAt(g, k)' /\ at = <<g, k>>
    BY <2>1
  <2>3. CASE /\ g \in DOMAIN file /\ file'[g].lines = file[g].lines
             /\ file'[g].open = file[g].open
    <3>1. SpoiltAt(g, k) /\ k \in 0 .. Len(file[g].lines)
      BY <2>2, <2>3 DEF SpoiltAt
    <3> QED  BY <2>2, <2>3, <3>1 DEF Spoilt
  <2>4. CASE g = f /\ file'[g].lines = <<>> /\ file'[g].open = FALSE
    <3>1. DOMAIN <<>> = {}  OBVIOUS
    <3> QED  BY <2>2, <2>4, <3>1 DEF SpoiltAt
  <2> QED  BY <1>6, <2>3, <2>4
<1> QED  BY <1>7, <1>8

\* A crash in the middle of a write spoils one line at most.
LEMMA TornWrite ==
    ASSUME FilesTyped, CrashesCount, crashes \in Nat, crashes' = crashes + 1,
           NEW f, f[3] \in Ids, NEW whole \in Seq(ItemLine),
           \/ file' = Appended(f, <<>>, Existing(f).open)
           \/ \E k \in DOMAIN whole :
                 \/ file' = Appended(f, SubSeq(whole, 1, k), TRUE)
                 \/ k < Len(whole)
                    /\ file' = Appended(f, SubSeq(whole, 1, k), FALSE)
                 \/ file' = Appended(f, Append(SubSeq(whole, 1, k - 1),
                                              Malformed), TRUE)
    PROVE  FilesTyped' /\ CrashesCount'
<1>1. CASE file' = Appended(f, <<>>, Existing(f).open)
  <2>1. FilesTyped' /\ Spoilt' \subseteq Spoilt  BY <1>1, NothingAppended
  <2>2. CrashesCount'  BY <2>1, NoneSpoilt
  <2> QED  BY <2>1, <2>2
<1>2. ASSUME NEW text \in Seq(TextLine), text # <<>>, NEW open \in BOOLEAN,
             \A k \in 1 .. Len(text) - 1 : text[k] # Malformed,
             file' = Appended(f, text, open)
      PROVE  FilesTyped' /\ CrashesCount'
  <2>1. /\ FilesTyped'
        /\ Spoilt' \subseteq Spoilt \cup {<<f, Len(file'[f].lines)>>}
    BY <1>2, AppendSpoils
  <2>2. CrashesCount'  BY <2>1, OneSpoilt
  <2> QED  BY <2>1, <2>2
<1>3. ASSUME NEW k \in 0 .. Len(whole)
      PROVE  LET part == SubSeq(whole, 1, k)
             IN  /\ part \in Seq(TextLine) /\ Len(part) = k
                 /\ \A i \in 1 .. k : part[i] # Malformed
  <2> DEFINE part == SubSeq(whole, 1, k)
  <2>1. Len(whole) \in Nat /\ \A i \in 1 .. k : whole[i] \in ItemLine
    BY ElementOfSeq
  <2>2. /\ part \in Seq(ItemLine)
        /\ Len(part) = IF 1 <= k THEN k - 1 + 1 ELSE 0
    <3>1. 1 \in Int /\ k \in Int  BY <2>1
    <3> QED  BY <2>1, <3>1, SubSeqProperties
  <2>3. Len(part) = k  BY <2>1, <2>2
  <2> HIDE DEF part
  <2> QED  BY <2>2, <2>3, WholeText DEF part
<1>4. ASSUME NEW k \in DOMAIN whole, NEW open \in BOOLEAN,
             file' = Appended(f, SubSeq(whole, 1, k), open)
      PROVE  FilesTyped' /\ CrashesCount'
  <2> DEFINE part == SubSeq(whole, 1, k)
  <2>1. k \in 0 .. Len(whole) /\ k \in Nat /\ k # 0  BY LenProperties
  <2>2. /\ part \in Seq(TextLine) /\ Len(part) = k
        /\ \A i \in 1 .. k : part[i] # Malformed
    BY <1>3, <2>1
  <2> HIDE DEF part
  <2>3. part # <<>> /\ \A i \in 1 .. Len(part) - 1 : part[i] # Malformed
    BY <2>1, <2>2
  <2>4. file' = Appended(f, part, open)  BY <1>4 DEF part
  <2> QED  BY <1>2, <2>2, <2>3, <2>4
<1>5. ASSUME NEW k \in DOMAIN whole,
             file' = Appended(f, Append(SubSeq(whole, 1, k - 1), Malformed),
                              TRUE)
      PROVE  FilesTyped' /\ CrashesCount'
  <2> DEFINE part == SubSeq(whole, 1, k - 1)
             text == Append(part, Malformed)
  <2>1. k - 1 \in 0 .. Len(whole) /\ k \in Nat  BY LenProperties
  <2>2. /\ part \in Seq(TextLine) /\ Len(part) = k - 1
        /\ \A i \in 1 .. k - 1 : part[i] # Malformed
    BY <1>3, <2>1
  <2>3. file' = Appended(f, text, TRUE)  BY <1>5
  <2> HIDE DEF part
  <2>4. /\ text \in Seq(TextLine) /\ Len(text) = k
        /\ \A i \in 1 .. k - 1 : text[i] = part[i]
    <3>1. Malformed \in TextLine  BY DEF TextLine
    <3> QED  BY <2>1, <2>2, <3>1
  <2> HIDE DEF text
  <2>5. k # 0  BY LenProperties
  <2>6. text # <<>> /\ \A i \in 1 .. Len(text) - 1 : text[i] # Malformed
    BY <2>1, <2>2, <2>4, <2>5
  <2>7. TRUE \in BOOLEAN  OBVIOUS
  <2> QED  BY <1>2, <2>3, <2>4, <2>6, <2>7
<1>6. CASE \E k \in DOMAIN whole :
              \/ file' = Appended(f, SubSeq(whole, 1, k), TRUE)
              \/ file' = Appended(f, SubSeq(whole, 1, k), FALSE)
              \/ file' = Appended(f, Append(SubSeq(whole, 1, k - 1),
                                           Malformed), TRUE)
  BY <1>4, <1>5, <1>6
<1> QED  BY <1>1, <1>6

\* A process dies.
LEMMA CrashStep ==
    ASSUME GenInv, NEW w \in Ids, Crash(w)
    PROVE  GenInv'
<1>1. /\ pc[w] \in {"generate", "write"} /\ crashes < MaxCrashes
      /\ crashes' = crashes + 1 /\ pc' = [pc EXCEPT ![w] = "dead"]
      /\ UNCHANGED <<commands, pass, rng, items, next>>
  BY DEF Crash
<1>2. /\ FilesTyped /\ CrashesCount /\ Started(w) /\ crashes \in Nat
      /\ crashes \in 0 .. MaxCrashes /\ MaxCrashes \in Nat
      /\ pc \in [Ids -> {"absent", "generate", "write", "done", "dead"}]
  BY <1>1, DataGenAssumption DEF GenInv
<1>3. FilesTyped' /\ CrashesCount'
  <2>1. CASE UNCHANGED file
    <3>1. FilesTyped'  BY <1>2, <2>1 DEF FilesTyped, FileOK
    <3>2. Spoilt' = Spoilt  BY <2>1 DEF Spoilt, SpoiltAt
    <3>3. CrashesCount'  BY <1>1, <1>2, <3>2, NoneSpoilt
    <3> QED  BY <3>1, <3>3
  <2>2. CASE ~UNCHANGED file
    <3> DEFINE f == File(w)
               text == Lines(w, next[w])
    <3>1. \/ file' = Appended(f, <<>>, Existing(f).open)
          \/ \E k \in DOMAIN text :
                \/ file' = Appended(f, SubSeq(text, 1, k), TRUE)
                \/ k < Len(text)
                   /\ file' = Appended(f, SubSeq(text, 1, k), FALSE)
                \/ file' = Appended(f, Append(SubSeq(text, 1, k - 1),
                                             Malformed), TRUE)
      BY <2>2, Zenon DEF Crash
    <3>2. next[w] \in DOMAIN cmd.ops  BY <1>2 DEF Started
    <3>3. text \in Seq(ItemLine)  BY <1>2, <3>2, LinesType
    <3>4. f[3] \in Ids  BY DEF File
    <3> HIDE DEF f, text
    <3> QED  BY <1>1, <1>2, <3>1, <3>3, <3>4, TornWrite
  <2> QED  BY <2>1, <2>2
<1>4. /\ pc' \in [Ids -> {"absent", "generate", "write", "done", "dead"}]
      /\ \A v \in Ids : pc'[v] # "absent" => pc[v] # "absent"
  BY <1>1, <1>2
<1>5. ASSUME NEW v \in Ids, pc'[v] # "absent" PROVE Started(v)'
  <2>1. Started(v)  BY <1>4, <1>5 DEF GenInv
  <2>2. cmd' = cmd  BY <1>1 DEF cmd, Last
  <2> QED  BY <1>1, <2>1, <2>2 DEF Started
<1>6. crashes' \in 0 .. MaxCrashes  BY <1>1, <1>2
<1> QED  BY <1>1, <1>3, <1>4, <1>5, <1>6 DEF GenInv

\* Every step keeps the invariant; the preparations and the evaluation only
\* read the files.
LEMMA GenStep == GenInv /\ [Next]_vars => GenInv'
<1> SUFFICES ASSUME GenInv, [Next]_vars PROVE GenInv'  OBVIOUS
<1>1. CASE UNCHANGED genVars
  <2>1. FilesTyped' /\ CrashesCount'
    BY <1>1, FilesSame DEF genVars, GenInv
  <2>2. cmd' = cmd  BY <1>1 DEF genVars, cmd, Last
  <2>3. ASSUME NEW w \in Ids, pc'[w] # "absent" PROVE Started(w)'
    <3>1. Started(w)  BY <1>1, <2>3 DEF genVars, GenInv
    <3> QED  BY <1>1, <2>2, <3>1 DEF genVars, Started
  <2> QED  BY <1>1, <2>1, <2>3 DEF genVars, GenInv
<1>2. CASE GenNext
  <2>1. CASE \E c \in Commands : Launch(c)  BY <2>1, LaunchStep
  <2>2. ASSUME NEW w \in Ids, Draw(w) \/ Write(w) \/ Crash(w) PROVE GenInv'
    BY <2>2, DrawStep, WriteStep, CrashStep
  <2> QED  BY <1>2, <2>1, <2>2 DEF GenNext
<1> QED
  BY <1>1, <1>2 DEF Next, vars, PrepareRlvr, PrepareSft, Evaluate

-----------------------------------------------------------------------------
\* The generation workers are well typed, whatever commands follow each other
\* and whatever dies; no process is in a pass or at an entry that its command
\* does not have.
THEOREM WorkersTyped == Spec => []GenTypeOK
<1>1. GenInv => GenTypeOK
  <2> SUFFICES ASSUME GenInv PROVE GenTypeOK  OBVIOUS
  <2>1. Range(commands) \subseteq Commands
    BY LenProperties, ElementOfSeq DEF GenInv, Range
  <2>2. ASSUME NEW w \in Ids, pc[w] # "absent"
        PROVE  /\ pass[w] \in DOMAIN cmd.passes /\ next[w] \in DOMAIN cmd.ops
               /\ DOMAIN items[w] = DOMAIN cmd.ops
    BY <2>2 DEF GenInv, Started
  <2>3. \A f \in DOMAIN file : f[3] \in Ids /\ FileOK(file[f])
    BY DEF GenInv, FilesTyped
  <2> QED  BY <2>1, <2>2, <2>3 DEF GenInv, GenTypeOK
<1>2. Init => GenInv  BY GenInitInv DEF Init
<1> QED  BY <1>1, <1>2, GenStep, PTL DEF Spec

\* A process that dies in a write spoils one line of one file, the torn one or
\* the one that the next command glues to it, and nothing else spoils any.
THEOREM CrashesSpoilOneLine == Spec => []OneLinePerCrash
<1>1. GenInv => OneLinePerCrash
  <2> SUFFICES ASSUME GenInv PROVE OneLinePerCrash  OBVIOUS
  <2>1. FilesTyped /\ CrashesCount /\ crashes \in Nat
    BY DataGenAssumption DEF GenInv
  <2>2. MalformedLines \subseteq Spoilt
    <3> SUFFICES ASSUME NEW at \in MalformedLines PROVE at \in Spoilt
      OBVIOUS
    <3>1. PICK f \in DOMAIN file :
            at \in {<<f, k>> : k \in {i \in DOMAIN file[f].lines :
                                        file[f].lines[i] = Malformed}}
      BY DEF MalformedLines
    <3>2. PICK k \in DOMAIN file[f].lines :
            file[f].lines[k] = Malformed /\ at = <<f, k>>
      BY <3>1
    <3>3. k \in 0 .. Len(file[f].lines)
      <4>1. file[f].lines \in Seq(TextLine)  BY <2>1 DEF FilesTyped
      <4> QED  BY <4>1, LenProperties
    <3>4. SpoiltAt(f, k)  BY <3>2 DEF SpoiltAt
    <3> QED  BY <3>2, <3>3, <3>4 DEF Spoilt
  <2>3. IsFiniteSet(Spoilt) /\ Cardinality(Spoilt) <= crashes
    BY <2>1 DEF CrashesCount
  <2>4. /\ IsFiniteSet(MalformedLines)
        /\ Cardinality(MalformedLines) <= Cardinality(Spoilt)
    BY <2>2, <2>3, FS_Subset
  <2>5. Cardinality(MalformedLines) \in Nat /\ Cardinality(Spoilt) \in Nat
    BY <2>3, <2>4, FS_CardinalityType
  <2> QED  BY <2>1, <2>3, <2>4, <2>5 DEF OneLinePerCrash
<1>2. Init => GenInv  BY GenInitInv DEF Init
<1> QED  BY <1>1, <1>2, GenStep, PTL DEF Spec

-----------------------------------------------------------------------------
(* Counting lines *)

\* the lines of a mode
LinesIn(lines, mode) == {i \in DOMAIN lines : lines[i].mode = mode}

\* There are as many numbers when all are moved by n.
LEMMA Shifted ==
    ASSUME NEW S, S \subseteq Nat, IsFiniteSet(S), NEW n \in Nat
    PROVE  LET T == {i + n : i \in S}
           IN  IsFiniteSet(T) /\ Cardinality(T) = Cardinality(S)
<1> DEFINE T == {i + n : i \in S}
           F == [i \in S |-> i + n]
<1>1. F \in [S -> T]  OBVIOUS
<1>2. \A a, b \in S : F[a] = F[b] => a = b  BY SMT
<1>3. \A t \in T : \E s \in S : F[s] = t  OBVIOUS
<1> HIDE DEF F, T
<1>4. F \in Bijection(S, T)
  BY <1>1, <1>2, <1>3, Zenon DEF Bijection, Injection, Surjection,
     IsInjective
<1>5. ExistsBijection(S, T)  BY <1>4 DEF ExistsBijection
<1> QED  BY <1>5, FS_Bijection DEF T

\* The lines of a sequence are finitely many.
LEMMA LinesFinite ==
    ASSUME NEW S, NEW s \in Seq(S), NEW mode
    PROVE  /\ LinesIn(s, mode) \subseteq 1 .. Len(s)
           /\ IsFiniteSet(LinesIn(s, mode))
           /\ Cardinality(LinesIn(s, mode)) \in Nat
<1>1. DOMAIN s = 1 .. Len(s) /\ Len(s) \in Nat  BY LenProperties
<1>2. IsFiniteSet(1 .. Len(s))  BY <1>1, FS_Interval
<1>3. LinesIn(s, mode) \subseteq 1 .. Len(s)  BY <1>1 DEF LinesIn
<1>4. IsFiniteSet(LinesIn(s, mode))  BY <1>2, <1>3, FS_Subset
<1> QED  BY <1>3, <1>4, FS_CardinalityType

\* Lines put behind each other add up.
LEMMA ConcatCount ==
    ASSUME NEW S, NEW a \in Seq(S), NEW b \in Seq(S), NEW mode
    PROVE  Cardinality(LinesIn(a \o b, mode))
              = Cardinality(LinesIn(a, mode)) + Cardinality(LinesIn(b, mode))
<1> DEFINE n == Len(a)
           A == LinesIn(a, mode)
           B == LinesIn(b, mode)
           T == {i + n : i \in B}
<1>1. /\ n \in Nat /\ Len(b) \in Nat /\ DOMAIN a = 1 .. n
      /\ DOMAIN b = 1 .. Len(b) /\ a \o b \in Seq(S)
      /\ Len(a \o b) = n + Len(b) /\ DOMAIN (a \o b) = 1 .. n + Len(b)
      /\ \A i \in 1 .. n + Len(b) :
            (a \o b)[i] = IF i <= n THEN a[i] ELSE b[i - n]
  BY LenProperties, ConcatProperties
<1>2. /\ A \subseteq 1 .. n /\ IsFiniteSet(A) /\ B \subseteq 1 .. Len(b)
      /\ IsFiniteSet(B) /\ Cardinality(A) \in Nat /\ Cardinality(B) \in Nat
  BY LinesFinite
<1>3. IsFiniteSet(T) /\ Cardinality(T) = Cardinality(B)
  <2>1. B \subseteq Nat  BY <1>1, <1>2
  <2> HIDE DEF A, B
  <2> QED  BY <1>1, <1>2, <2>1, Shifted
<1>4. LinesIn(a \o b, mode) = A \cup T
  <2>1. ASSUME NEW i \in LinesIn(a \o b, mode) PROVE i \in A \cup T
    <3>1. i \in 1 .. n + Len(b) /\ (a \o b)[i].mode = mode
      BY <1>1 DEF LinesIn
    <3>2. CASE i <= n
      <4>1. i \in DOMAIN a /\ a[i].mode = mode  BY <1>1, <3>1, <3>2
      <4> QED  BY <4>1 DEF LinesIn
    <3>3. CASE ~(i <= n)
      <4>1. i - n \in DOMAIN b /\ b[i - n].mode = mode /\ (i - n) + n = i
        BY <1>1, <3>1, <3>3
      <4>2. i - n \in B  BY <4>1 DEF LinesIn
      <4> QED  BY <4>1, <4>2
    <3> QED  BY <3>2, <3>3
  <2>2. ASSUME NEW i \in A PROVE i \in LinesIn(a \o b, mode)
    <3>1. i \in 1 .. n /\ a[i].mode = mode  BY <1>1 DEF LinesIn
    <3>2. i \in 1 .. n + Len(b) /\ i <= n  BY <1>1, <3>1
    <3>3. (a \o b)[i] = a[i]  BY <1>1, <3>2
    <3> QED  BY <1>1, <3>1, <3>2, <3>3 DEF LinesIn
  <2>3. ASSUME NEW k \in B PROVE k + n \in LinesIn(a \o b, mode)
    <3>1. k \in 1 .. Len(b) /\ b[k].mode = mode  BY <1>1 DEF LinesIn
    <3>2. k + n \in 1 .. n + Len(b) /\ ~(k + n <= n) /\ (k + n) - n = k
      BY <1>1, <3>1
    <3>3. (a \o b)[k + n] = b[k]  BY <1>1, <3>2
    <3> QED  BY <1>1, <3>1, <3>2, <3>3 DEF LinesIn
  <2> QED  BY <2>1, <2>2, <2>3
<1>5. A \cap T = {}  BY <1>1, <1>2, SMT
<1> HIDE DEF A, B, T
<1>6. Cardinality(A \cup T)
         = Cardinality(A) + Cardinality(T) - Cardinality(A \cap T)
  BY <1>2, <1>3, FS_Union
<1>7. Cardinality(A \cap T) = 0  BY <1>5, FS_EmptySet
<1>8. Cardinality(A \cup T) = Cardinality(A) + Cardinality(B)
  BY <1>2, <1>3, <1>6, <1>7
<1> QED  BY <1>4, <1>8 DEF A, B

\* No lines.
LEMMA NoLines ==
    ASSUME NEW mode
    PROVE  LinesIn(<<>>, mode) = {} /\ Cardinality(LinesIn(<<>>, mode)) = 0
<1>1. DOMAIN <<>> = {}  OBVIOUS
<1>2. LinesIn(<<>>, mode) = {}  BY <1>1 DEF LinesIn
<1> QED  BY <1>2, FS_EmptySet

\* Joined, sequences with q lines of a mode each have q for every sequence.
LEMMA FlattenCount ==
    ASSUME NEW S, NEW seqs \in Seq(Seq(S)), NEW mode, NEW q \in Nat,
           \A i \in 1 .. Len(seqs) : Cardinality(LinesIn(seqs[i], mode)) = q
    PROVE  Cardinality(LinesIn(FlattenSeq(seqs), mode)) = q * Len(seqs)
<1> DEFINE n == Len(seqs)
           D == 1 .. n
<1>1. PICK F : Joins(F, seqs, S)  BY FlattenJoins
<1>2. n \in Nat /\ (\A i \in D : seqs[i] \in Seq(S))  OBVIOUS
<1>3. /\ F \in [D -> Seq(S)]
      /\ \A i \in D : F[i] = IF i = 1 THEN seqs[i] ELSE F[i - 1] \o seqs[i]
      /\ FlattenSeq(seqs) = IF n = 0 THEN <<>> ELSE F[n]
  BY <1>1 DEF Joins, JoinBody
<1> DEFINE count(s) == Cardinality(LinesIn(s, mode))
           U == {k \in D : count(F[k]) # q * k}
<1>4. U = {}
  <2> SUFFICES ASSUME U # {} PROVE FALSE  OBVIOUS
  <2>1. PICK k \in U : \A y \in U : k <= y
    <3>1. U \subseteq Nat  OBVIOUS
    <3> QED  BY <3>1, Least
  <2>2. k \in D /\ k \in Nat /\ count(F[k]) # q * k  BY <2>1
  <2>3. CASE k = 1
    <3>1. F[k] = seqs[k] /\ count(seqs[k]) = q  BY <1>3, <2>2, <2>3
    <3>2. q * 1 = q  OBVIOUS
    <3> QED  BY <2>2, <2>3, <3>1, <3>2
  <2>4. CASE k # 1
    <3>1. k - 1 \in D /\ ~(k <= k - 1) /\ k - 1 \in Nat  BY <2>2, <2>4
    <3>2. count(F[k - 1]) = q * (k - 1)  BY <2>1, <3>1
    <3>3. F[k] = F[k - 1] \o seqs[k]  BY <1>3, <2>2, <2>4
    <3>4. count(F[k]) = count(F[k - 1]) + count(seqs[k])
      <4>1. F[k - 1] \in Seq(S) /\ seqs[k] \in Seq(S)
        BY <1>2, <1>3, <2>2, <3>1
      <4> QED  BY <3>3, <4>1, ConcatCount
    <3>5. count(seqs[k]) = q  BY <2>2
    <3>6. q * (k - 1) + q = q * k  BY <3>1
    <3> QED  BY <2>2, <3>2, <3>4, <3>5, <3>6
  <2> QED  BY <2>3, <2>4
<1>5. CASE n = 0
  <2>1. q * 0 = 0  OBVIOUS
  <2> QED  BY <1>3, <1>5, <2>1, NoLines
<1>6. CASE n # 0
  <2>1. n \in D  BY <1>2, <1>6
  <2> QED  BY <1>3, <1>4, <1>6, <2>1
<1> QED  BY <1>5, <1>6

\* the positions of a mode in a pass
PositionsOf(modes, mode) == {m \in DOMAIN modes : modes[m] = mode}

\* What a process writes for an entry has, for every chain, as many lines of a
\* mode as the pass has positions for it.
LEMMA LinesCount ==
    ASSUME GenInv, NEW w \in Ids, Started(w), NEW i \in DOMAIN cmd.ops,
           NEW mode
    PROVE  LET P == PositionsOf(cmd.passes[pass[w]], mode)
           IN  /\ IsFiniteSet(P) /\ Cardinality(P) \in Nat
               /\ Cardinality(LinesIn(Lines(w, i), mode))
                     = Cardinality(P) * Len(items[w][i])
<1> DEFINE modes == cmd.passes[pass[w]]
           P == PositionsOf(modes, mode)
           blocks == Blocks(w, i)
<1>1. /\ Lines(w, i) = FlattenSeq(blocks) /\ blocks \in Seq(Seq(ItemLine))
      /\ Len(blocks) = Len(items[w][i]) /\ modes \in Seq(Modes)
      /\ items[w][i] \in Seq(Chains)
  BY BlocksType
<1>2. IsFiniteSet(P) /\ Cardinality(P) \in Nat
  <2>1. DOMAIN modes = 1 .. Len(modes) /\ Len(modes) \in Nat
    BY <1>1, LenProperties
  <2>2. IsFiniteSet(1 .. Len(modes))  BY <2>1, FS_Interval
  <2>3. P \subseteq 1 .. Len(modes)  BY <2>1 DEF PositionsOf
  <2>4. IsFiniteSet(P)  BY <2>2, <2>3, FS_Subset
  <2> QED  BY <2>4, FS_CardinalityType
<1>3. ASSUME NEW k \in 1 .. Len(blocks)
      PROVE  Cardinality(LinesIn(blocks[k], mode)) = Cardinality(P)
  <2>1. k \in DOMAIN items[w][i]  BY <1>1, LenProperties
  <2>2. blocks[k] = [m \in DOMAIN modes |->
                        [chain |-> items[w][i][k], mode |-> modes[m]]]
    BY <2>1 DEF Blocks, Block
  <2>3. LinesIn(blocks[k], mode) = P
    <3> HIDE DEF modes, blocks
    <3> QED  BY <2>2 DEF LinesIn, PositionsOf
  <2> QED  BY <2>3
<1>4. Cardinality(LinesIn(FlattenSeq(blocks), mode))
         = Cardinality(P) * Len(blocks)
  <2> HIDE DEF blocks, P
  <2> QED  BY <1>1, <1>2, <1>3, FlattenCount
<1> QED  BY <1>1, <1>2, <1>4

-----------------------------------------------------------------------------
(* What the processes deliver *)

\* the files the commands write, and the modes they write
Targets ==
    UNION {{c.layout} \X Range(c.ops) \X (0 .. c.procs - 1) : c \in Commands}
KnownModes == UNION {ModesOf(c) : c \in Commands}

\* process w has written the lines of operation op in pass p
Written(w, p, op) ==
    \/ pc[w] = "done"
    \/ p < pass[w]
    \/ /\ p = pass[w] /\ pc[w] = "write"
       /\ \E i \in 1 .. next[w] - 1 : cmd.ops[i] = op

\* what has been delivered of the items that were ordered
Delivered(f, mode) ==
    {d \in Ordered(f, mode) :
        d[1] < Len(commands) \/ Written(f[3], d[2][1], f[2])}

\* an entry of ops with an operation that an earlier one has
Repeats(i) == \E j \in 1 .. i - 1 : cmd.ops[j] = cmd.ops[i]

\* An entry gets num_per_worker chains and no more, unless some entry repeats
\* another: it never gets any and the pass never ends.
EntriesOK(w) ==
    /\ \A i \in DOMAIN cmd.ops : Repeats(i) => items[w][i] = <<>>
    /\ \/ \E i \in DOMAIN cmd.ops : Repeats(i)
       \/ \A i \in DOMAIN cmd.ops : Len(items[w][i]) <= Quota(cmd)
    /\ pc[w] = "generate" =>
          \E i \in DOMAIN cmd.ops : Len(items[w][i]) < Quota(cmd)
    /\ pc[w] = "write" =>
          \A i \in DOMAIN cmd.ops : Len(items[w][i]) >= Quota(cmd)

ProcessOK(w) ==
    /\ pc[w] # "dead"
    /\ commands = <<>> \/ (pc[w] = "absent" <=> w >= cmd.procs)
    /\ pc[w] = "generate" => next[w] = 1
    /\ pc[w] \in {"generate", "write"} => EntriesOK(w)

FilesWhole ==
    \A f \in DOMAIN file : ~file[f].open /\ file[f].lines \in Seq(ItemLine)

FilesCounted ==
    \A f \in Targets, mode \in KnownModes :
        /\ IsFiniteSet(Delivered(f, mode))
        /\ Cardinality(LinesIn(Existing(f).lines, mode))
              = Cardinality(Delivered(f, mode))

QuotaInv ==
    crashes = 0 => /\ FilesWhole /\ FilesCounted
                   /\ \A w \in Ids : ProcessOK(w)

\* num_per_worker is positive.
LEMMA QuotaPositive ==
    ASSUME NEW c \in Commands
    PROVE  Quota(c) \in Nat \ {0}
<1>1. c.procs \in Nat \ {0} /\ c.total \in Nat \ {0}  BY DataGenAssumption
<1>2. ASSUME NEW p \in Nat, p > 0, NEW a \in Nat, a >= p
      PROVE  a \div p \in Int /\ a \div p >= 1
  BY <1>2
<1>3. c.total + c.procs - 1 \in Nat /\ c.total + c.procs - 1 >= c.procs
  BY <1>1
<1> QED  BY <1>1, <1>2, <1>3 DEF Quota

\* The members of Ordered.
LEMMA OrderedIs ==
    ASSUME NEW f, NEW mode, NEW d
    PROVE  d \in Ordered(f, mode) <=>
             \E j \in DOMAIN commands :
                LET c == commands[j]
                IN  /\ Serves(c, f)
                    /\ \E p \in DOMAIN c.passes :
                         \E m \in PositionsOf(c.passes[p], mode),
                            k \in 1 .. Quota(c) : d = <<j, <<p, m>>, k>>
<1>1. ASSUME NEW c, NEW place
      PROVE  place \in Places(c, mode) <=>
                \E p \in DOMAIN c.passes :
                   \E m \in PositionsOf(c.passes[p], mode) : place = <<p, m>>
  BY DEF Places, PositionsOf
<1>2. d \in Ordered(f, mode) <=>
        \E j \in DOMAIN commands : /\ Serves(commands[j], f)
                                   /\ \E place \in Places(commands[j], mode),
                                         k \in 1 .. Quota(commands[j]) :
                                            d = <<j, place, k>>
  BY DEF Ordered
<1> QED  BY <1>1, <1>2

\* The items of one pass and operation: one per position and chain.
ItemsOf(n, p, P, q) == {<<n, <<p, m>>, k>> : m \in P, k \in 1 .. q}

LEMMA ItemsCount ==
    ASSUME NEW n, NEW p, NEW P, IsFiniteSet(P), NEW q \in Nat
    PROVE  /\ IsFiniteSet(ItemsOf(n, p, P, q))
           /\ Cardinality(ItemsOf(n, p, P, q)) = Cardinality(P) * q
<1> DEFINE T == {<<n, <<p, m>>, k>> : m \in P, k \in 1 .. q}
           S == P \X (1 .. q)
           F == [x \in S |-> <<n, <<p, x[1]>>, x[2]>>]
<1>1. IsFiniteSet(1 .. q) /\ Cardinality(1 .. q) = q
  BY FS_Interval
<1>2. IsFiniteSet(S) /\ Cardinality(S) = Cardinality(P) * q
  BY <1>1, FS_Product
<1>3. F \in [S -> T]  OBVIOUS
<1>4. ASSUME NEW a \in S, NEW b \in S, F[a] = F[b] PROVE a = b
  <2>1. a[1] = b[1] /\ a[2] = b[2]  BY <1>4
  <2> QED  BY <2>1
<1>5. ASSUME NEW t \in T PROVE \E s \in S : F[s] = t
  <2>1. PICK m \in P, k \in 1 .. q : t = <<n, <<p, m>>, k>>  OBVIOUS
  <2>2. <<m, k>> \in S /\ F[<<m, k>>] = t  BY <2>1
  <2> QED  BY <2>2
<1> HIDE DEF F, S, T
<1>6. F \in Bijection(S, T)
  BY <1>3, <1>4, <1>5, Zenon DEF Bijection, Injection, Surjection,
     IsInjective
<1>7. ExistsBijection(S, T)  BY <1>6 DEF ExistsBijection
<1>8. IsFiniteSet(T) /\ Cardinality(T) = Cardinality(P) * q
  BY <1>2, <1>7, FS_Bijection
<1>9. ItemsOf(n, p, P, q) = T  BY DEF ItemsOf, T
<1> QED  BY <1>8, <1>9

\* Before the first command.
LEMMA QuotaInitInv == GenInit => QuotaInv
<1> SUFFICES ASSUME GenInit PROVE QuotaInv  OBVIOUS
<1>1. /\ commands = <<>> /\ file = <<>> /\ pc = [w \in Ids |-> "absent"]
  BY DEF GenInit
<1>2. DOMAIN file = {} /\ DOMAIN commands = {}  BY <1>1
<1>3. FilesWhole  BY <1>2 DEF FilesWhole
<1>4. \A w \in Ids : ProcessOK(w)  BY <1>1 DEF ProcessOK
<1>5. ASSUME NEW f, NEW mode
      PROVE  /\ IsFiniteSet(Delivered(f, mode))
             /\ Cardinality(LinesIn(Existing(f).lines, mode))
                   = Cardinality(Delivered(f, mode))
  <2>1. Existing(f).lines = <<>>  BY <1>2 DEF Existing
  <2>2. Delivered(f, mode) = {}
    <3> SUFFICES ASSUME NEW d \in Delivered(f, mode) PROVE FALSE  OBVIOUS
    <3>1. d \in Ordered(f, mode)  BY DEF Delivered
    <3> QED  BY <1>2, <3>1, OrderedIs
  <2> QED  BY <2>1, <2>2, NoLines, FS_EmptySet
<1> QED  BY <1>3, <1>4, <1>5 DEF QuotaInv, FilesCounted

\* The commands so far.
LEMMA CommandsAre ==
    ASSUME GenInv
    PROVE  /\ Len(commands) \in Nat /\ DOMAIN commands = 1 .. Len(commands)
           /\ \A j \in DOMAIN commands : commands[j] \in Commands
           /\ commands # <<>> => /\ Len(commands) \in DOMAIN commands
                                 /\ cmd = commands[Len(commands)]
<1>1. commands \in Seq(Commands)  BY DEF GenInv
<1>2. Len(commands) \in Nat /\ DOMAIN commands = 1 .. Len(commands)
  BY <1>1, LenProperties
<1>3. \A j \in DOMAIN commands : commands[j] \in Commands
  BY <1>1, <1>2, ElementOfSeq
<1>4. commands # <<>> => Len(commands) # 0  BY <1>1, EmptySeq
<1> QED  BY <1>2, <1>3, <1>4 DEF cmd, Last

\* An identifier is a number.
LEMMA IdsAreNumbers == Ids \subseteq Nat
<1> SUFFICES ASSUME NEW w \in Ids PROVE w \in Nat  OBVIOUS
<1>1. PICK c \in Commands : w \in 0 .. c.procs - 1  BY DEF Ids
<1> QED  BY <1>1, DataGenAssumption

\* The members of Delivered.
LEMMA DeliveredIs ==
    ASSUME NEW f, NEW mode, NEW d
    PROVE  d \in Delivered(f, mode) <=>
             \E j \in DOMAIN commands :
                LET c == commands[j]
                IN  /\ Serves(c, f)
                    /\ \E p \in DOMAIN c.passes :
                         /\ j < Len(commands) \/ Written(f[3], p, f[2])
                         /\ \E m \in PositionsOf(c.passes[p], mode),
                               k \in 1 .. Quota(c) : d = <<j, <<p, m>>, k>>
<1>1. ASSUME d \in Delivered(f, mode)
      PROVE  \E j \in DOMAIN commands :
                LET c == commands[j]
                IN  /\ Serves(c, f)
                    /\ \E p \in DOMAIN c.passes :
                         /\ j < Len(commands) \/ Written(f[3], p, f[2])
                         /\ \E m \in PositionsOf(c.passes[p], mode),
                               k \in 1 .. Quota(c) : d = <<j, <<p, m>>, k>>
  <2>1. /\ d \in Ordered(f, mode)
        /\ d[1] < Len(commands) \/ Written(f[3], d[2][1], f[2])
    BY <1>1 DEF Delivered
  <2>2. PICK j \in DOMAIN commands :
                LET c == commands[j]
                IN  /\ Serves(c, f)
                    /\ \E p \in DOMAIN c.passes :
                         \E m \in PositionsOf(c.passes[p], mode),
                            k \in 1 .. Quota(c) : d = <<j, <<p, m>>, k>>
    BY <2>1, OrderedIs
  <2> QED  BY <2>1, <2>2
<1>2. ASSUME NEW j \in DOMAIN commands, Serves(commands[j], f),
             NEW p \in DOMAIN commands[j].passes,
             j < Len(commands) \/ Written(f[3], p, f[2]),
             NEW m \in PositionsOf(commands[j].passes[p], mode),
             NEW k \in 1 .. Quota(commands[j]), d = <<j, <<p, m>>, k>>
      PROVE  d \in Delivered(f, mode)
  <2>1. d \in Ordered(f, mode)  BY <1>2, OrderedIs
  <2>2. d[1] = j /\ d[2][1] = p  BY <1>2
  <2> QED  BY <1>2, <2>1, <2>2 DEF Delivered
<1> QED  BY <1>1, <1>2

\* What was delivered stays the same while nothing more is written.
LEMMA DeliveredSame ==
    ASSUME NEW f, NEW mode, commands' = commands,
           \A p : Written(f[3], p, f[2])' <=> Written(f[3], p, f[2])
    PROVE  Delivered(f, mode)' = Delivered(f, mode)
<1>1. Ordered(f, mode)' = Ordered(f, mode)  BY DEF Ordered, Serves
<1> QED  BY <1>1 DEF Delivered

\* The next command is started when the last one has delivered.
LEMMA IdleDelivered ==
    ASSUME GenInv, QuotaInv, crashes = 0, Idle,
           NEW f, f[3] \in Ids, NEW mode
    PROVE  Delivered(f, mode) = Ordered(f, mode)
<1> SUFFICES ASSUME NEW d \in Ordered(f, mode) PROVE d \in Delivered(f, mode)
  BY DEF Delivered
<1>1. PICK j \in DOMAIN commands :
                LET c == commands[j]
                IN  /\ Serves(c, f)
                    /\ \E p \in DOMAIN c.passes :
                         \E m \in PositionsOf(c.passes[p], mode),
                            k \in 1 .. Quota(c) : d = <<j, <<p, m>>, k>>
  BY OrderedIs
<1>2. d[1] = j  BY <1>1
<1>3. CASE j < Len(commands)  BY <1>2, <1>3 DEF Delivered
<1>4. CASE ~(j < Len(commands))
  <2>1. j = Len(commands) /\ commands # <<>>
    <3>1. Len(commands) \in Nat /\ j \in 1 .. Len(commands)
      BY CommandsAre
    <3> QED  BY <1>4, <3>1
  <2>2. f[3] < cmd.procs  BY <1>1, <2>1, CommandsAre DEF Serves
  <2>3. pc[f[3]] # "absent" /\ pc[f[3]] # "dead"
    <3>1. ProcessOK(f[3])  BY DEF QuotaInv
    <3>2. ~(f[3] >= cmd.procs)
      <4>1. f[3] \in Nat  BY IdsAreNumbers
      <4>2. cmd.procs \in Nat  BY <2>1, CommandsAre, DataGenAssumption
      <4> QED  BY <2>2, <4>1, <4>2
    <3> QED  BY <2>1, <3>1, <3>2 DEF ProcessOK
  <2>4. pc[f[3]] = "done"  BY <2>3 DEF GenInv, Idle, Alive
  <2> QED  BY <2>4 DEF Delivered, Written
<1> QED  BY <1>3, <1>4

\* A new command has delivered nothing.
LEMMA LaunchQuota ==
    ASSUME GenInv, QuotaInv, NEW c \in Commands, Launch(c)
    PROVE  QuotaInv'
<1> SUFFICES ASSUME crashes' = 0
             PROVE  FilesWhole' /\ FilesCounted'
                    /\ \A w \in Ids : ProcessOK(w)'
  BY DEF QuotaInv
<1> DEFINE n == Len(commands)
<1>1. /\ Idle /\ commands' = Append(commands, c)
      /\ pc' = [w \in Ids |-> IF w < c.procs THEN "generate" ELSE "absent"]
      /\ pass' = [w \in Ids |-> 1]
      /\ items' = [w \in Ids |-> [i \in DOMAIN c.ops |-> <<>>]]
      /\ next' = [w \in Ids |-> 1] /\ UNCHANGED <<file, crashes>>
      /\ crashes = 0
  BY DEF Launch
<1>2. FilesWhole /\ FilesCounted  BY <1>1 DEF QuotaInv
<1>3. /\ n \in Nat /\ DOMAIN commands = 1 .. n /\ Len(commands') = n + 1
      /\ DOMAIN commands' = 1 .. n + 1 /\ commands'[n + 1] = c
      /\ \A j \in 1 .. n : commands'[j] = commands[j]
      /\ cmd' = c /\ commands' # <<>>
  <2>1. n \in Nat /\ DOMAIN commands = 1 .. n  BY CommandsAre
  <2>2. commands \in Seq(Commands)  BY DEF GenInv
  <2>3. /\ commands' \in Seq(Commands) /\ Len(commands') = n + 1
        /\ commands'[n + 1] = c
        /\ \A j \in 1 .. n : commands'[j] = commands[j]
    BY <1>1, <2>2, AppendProperties
  <2>4. DOMAIN commands' = 1 .. n + 1  BY <2>3, LenProperties
  <2>5. cmd' = c  BY <2>3 DEF cmd, Last
  <2>6. commands' # <<>>  BY <2>1, <2>3, EmptySeq
  <2> QED  BY <2>1, <2>3, <2>4, <2>5, <2>6
<1>4. FilesWhole'  BY <1>1, <1>2 DEF FilesWhole
<1>5. ASSUME NEW f, f[3] \in Ids, NEW mode
      PROVE  Delivered(f, mode)' = Delivered(f, mode)
  <2>1. Delivered(f, mode) = Ordered(f, mode)  BY <1>1, <1>5, IdleDelivered
  <2>2. ASSUME NEW d \in Delivered(f, mode)' PROVE d \in Ordered(f, mode)
    <3>1. d \in Ordered(f, mode)'
          /\ (d[1] < Len(commands') \/ Written(f[3], d[2][1], f[2])')
      BY DEF Delivered
    <3>2. PICK j \in 1 .. n + 1 :
                /\ Serves(commands'[j], f)
                /\ \E p \in DOMAIN commands'[j].passes :
                         \E m \in PositionsOf(commands'[j].passes[p], mode),
                            k \in 1 .. Quota(commands'[j]) :
                               d = <<j, <<p, m>>, k>>
      <4>1. \E j \in DOMAIN commands' :
                /\ Serves(commands'[j], f)
                /\ \E p \in DOMAIN commands'[j].passes :
                         \E m \in PositionsOf(commands'[j].passes[p], mode),
                            k \in 1 .. Quota(commands'[j]) :
                               d = <<j, <<p, m>>, k>>
        BY <3>1 DEF Ordered, Places, PositionsOf, Serves, Quota
      <4> QED  BY <1>3, <4>1
    <3>3. CASE j = n + 1
      <4>1. d[1] = n + 1 /\ d[2][1] \in DOMAIN c.passes /\ f[3] < c.procs
        BY <1>3, <3>2, <3>3 DEF Serves
      <4>2. d[2][1] \in Nat /\ d[2][1] >= 1
        <5>1. c.passes \in Seq(Seq(Modes))  BY DataGenAssumption
        <5>2. DOMAIN c.passes = 1 .. Len(c.passes) /\ Len(c.passes) \in Nat
          BY <5>1, LenProperties
        <5> QED  BY <4>1, <5>2
      <4>3. pc'[f[3]] = "generate" /\ pass'[f[3]] = 1
        BY <1>1, <1>5, <4>1
      <4>4. ~Written(f[3], d[2][1], f[2])'  BY <4>2, <4>3 DEF Written
      <4> QED  BY <1>3, <3>1, <4>1, <4>4
    <3>4. CASE j # n + 1
      <4>1. j \in DOMAIN commands /\ commands'[j] = commands[j]
        BY <1>3, <3>4
      <4> QED  BY <3>2, <4>1, OrderedIs
    <3> QED  BY <3>3, <3>4
  <2>3. ASSUME NEW d \in Ordered(f, mode) PROVE d \in Delivered(f, mode)'
    <3>1. PICK j \in DOMAIN commands :
                /\ Serves(commands[j], f)
                /\ \E p \in DOMAIN commands[j].passes :
                         \E m \in PositionsOf(commands[j].passes[p], mode),
                            k \in 1 .. Quota(commands[j]) :
                               d = <<j, <<p, m>>, k>>
      BY OrderedIs
    <3>2. j \in DOMAIN commands' /\ commands'[j] = commands[j] /\ j < n + 1
          /\ d[1] = j
      BY <1>3, <3>1
    <3>3. d \in Ordered(f, mode)'
      BY <3>1, <3>2 DEF Ordered, Places, PositionsOf, Serves, Quota
    <3> QED  BY <1>3, <3>2, <3>3 DEF Delivered
  <2> QED  BY <2>1, <2>2, <2>3
<1>6. FilesCounted'
  <2> SUFFICES ASSUME NEW f \in Targets, NEW mode \in KnownModes
               PROVE  /\ IsFiniteSet(Delivered(f, mode)')
                      /\ Cardinality(LinesIn(Existing(f).lines, mode)')
                            = Cardinality(Delivered(f, mode)')
    BY DEF FilesCounted
  <2>1. f[3] \in Ids  BY DEF Targets, Ids
  <2>2. Existing(f)' = Existing(f)  BY <1>1 DEF Existing
  <2>3. LinesIn(Existing(f).lines, mode)' = LinesIn(Existing(f).lines, mode)
    BY <2>2 DEF LinesIn
  <2>4. Delivered(f, mode)' = Delivered(f, mode)  BY <1>5, <2>1
  <2> QED  BY <1>2, <2>3, <2>4 DEF FilesCounted
<1>7. ASSUME NEW w \in Ids PROVE ProcessOK(w)'
  <2>1. w \in Nat /\ c.procs \in Nat  BY IdsAreNumbers, DataGenAssumption
  <2>2. pc'[w] \in {"generate", "absent"}
        /\ (pc'[w] = "absent" <=> w >= c.procs)
    BY <1>1, <2>1
  <2>3. items'[w] = [i \in DOMAIN c.ops |-> <<>>] /\ next'[w] = 1
    BY <1>1
  <2>4. Quota(c) \in Nat \ {0}  BY QuotaPositive
  <2>5. 1 \in DOMAIN c.ops  BY DataGenAssumption
  <2>6. Len(<<>>) = 0  OBVIOUS
  <2>7. \A i \in DOMAIN c.ops : items'[w][i] = <<>> /\ Len(items'[w][i]) = 0
    BY <2>3, <2>6
  <2>8. EntriesOK(w)'
    <3>1. \A i \in DOMAIN c.ops : Len(items'[w][i]) <= Quota(c)
      BY <2>4, <2>7
    <3>2. \E i \in DOMAIN c.ops : Len(items'[w][i]) < Quota(c)
      BY <2>4, <2>5, <2>7
    <3>3. pc'[w] # "write"  BY <2>2
    <3>4. Quota(cmd)' = Quota(c)  BY <1>3 DEF Quota
    <3> QED  BY <1>3, <2>7, <3>1, <3>2, <3>3, <3>4 DEF EntriesOK
  <2> QED  BY <1>3, <2>2, <2>3, <2>8 DEF ProcessOK
<1> QED  BY <1>4, <1>6, <1>7

\* An item goes to the first entry of its operation.
LEMMA PlaceIsFirst ==
    ASSUME GenInv, commands # <<>>, NEW e \in DOMAIN cmd.ops
    PROVE  LET p == Place(cmd.ops[e])
           IN  /\ p \in DOMAIN cmd.ops /\ cmd.ops[p] = cmd.ops[e]
               /\ ~Repeats(p)
<1> DEFINE op == cmd.ops[e]
           T == {i \in DOMAIN cmd.ops : cmd.ops[i] = op}
<1>1. DOMAIN cmd.ops = 1 .. Len(cmd.ops) /\ Len(cmd.ops) \in Nat
  BY CommandFacts, LenProperties
<1>2. T \subseteq Nat /\ T # {}  BY <1>1
<1>3. PICK i \in T : \A y \in T : i <= y  BY <1>2, Least
<1>4. \A j \in 1 .. i - 1 : cmd.ops[j] # op
  <2> SUFFICES ASSUME NEW j \in 1 .. i - 1, cmd.ops[j] = op PROVE FALSE
    OBVIOUS
  <2>1. j \in T /\ ~(i <= j)  BY <1>1, <1>3
  <2> QED  BY <1>3, <2>1
<1>5. \E k \in DOMAIN cmd.ops :
         cmd.ops[k] = op /\ \A j \in 1 .. k - 1 : cmd.ops[j] # op
  BY <1>3, <1>4
<1>6. /\ Place(op) \in DOMAIN cmd.ops /\ cmd.ops[Place(op)] = op
      /\ \A j \in 1 .. Place(op) - 1 : cmd.ops[j] # op
  BY <1>5, Zenon DEF Place
<1> QED  BY <1>6 DEF Repeats

\* One turn of the loop: an entry that lacks chains gets the next one.
LEMMA DrawEntries ==
    ASSUME GenInv, NEW w \in Ids, Draw(w), EntriesOK(w)
    PROVE  EntriesOK(w)'
<1> DEFINE op == cmd.ops[Fewest(w)]
           c == Chain(w, op)
           p == Place(op)
           old == items[w]
           D == DOMAIN cmd.ops
<1>1. /\ pc[w] = "generate" /\ Started(w) /\ DOMAIN items = Ids
      /\ pc \in [Ids -> {"absent", "generate", "write", "done", "dead"}]
      /\ cmd' = cmd /\ commands # <<>>
  BY DEF Draw, GenInv, Started, cmd, Last
<1>2. \/ UNCHANGED <<items, pc>>
      \/ /\ items' = [items EXCEPT ![w][p] = Append(@, c)]
         /\ pc' = [pc EXCEPT ![w] = IF \A i \in D : Len(items'[w][i])
                                                      >= Quota(cmd)
                                    THEN "write" ELSE "generate"]
  BY DEF Draw
<1>3. \A i \in D : Repeats(i)' <=> Repeats(i)  BY <1>1 DEF Repeats
<1>4. Quota(cmd)' = Quota(cmd)  BY <1>1 DEF Quota
<1>5. CASE UNCHANGED <<items, pc>>
  BY <1>1, <1>3, <1>4, <1>5 DEF EntriesOK
<1>6. CASE /\ items' = [items EXCEPT ![w][p] = Append(@, c)]
           /\ pc' = [pc EXCEPT ![w] = IF \A i \in D : Len(items'[w][i])
                                                        >= Quota(cmd)
                                      THEN "write" ELSE "generate"]
  <2>1. /\ Fewest(w) \in D
        /\ \A j \in D : Len(old[Fewest(w)]) <= Len(old[j])
    BY <1>1, FewestIsEntry
  <2>2. p \in D /\ cmd.ops[p] = op /\ ~Repeats(p)
    BY <1>1, <2>1, PlaceIsFirst
  <2>3. old \in [D -> Seq(Chains)]  BY <1>1 DEF Started
  <2>4. Quota(cmd) \in Nat \ {0}  BY <1>1, CommandFacts, QuotaPositive
  <2> HIDE DEF c, op, p, D, old
  <2>5. items'[w] = [old EXCEPT ![p] = Append(old[p], c)]
    BY <1>1, <1>6 DEF old
  <2>6. /\ items'[w][p] = Append(old[p], c)
        /\ \A i \in D : i # p => items'[w][i] = old[i]
        /\ Len(items'[w][p]) = Len(old[p]) + 1
        /\ \A i \in D : Len(old[i]) \in Nat
    <3>1. /\ items'[w][p] = Append(old[p], c)
          /\ \A i \in D : i # p => items'[w][i] = old[i]
      BY <2>2, <2>3, <2>5
    <3>2. \A i \in D : old[i] \in Seq(Chains)  BY <2>3
    <3>3. \A i \in D : Len(old[i]) \in Nat  BY <3>2, LenProperties
    <3>4. Len(Append(old[p], c)) = Len(old[p]) + 1
      <4>1. ASSUME NEW s \in Seq(Chains) PROVE Len(Append(s, c)) = Len(s) + 1
        OBVIOUS
      <4> QED  BY <2>2, <3>2, <4>1
    <3> QED  BY <3>1, <3>3, <3>4
  <2>7. ASSUME NEW i \in D, Repeats(i) PROVE items'[w][i] = <<>>
    <3>1. i # p  BY <2>2, <2>7
    <3>2. old[i] = <<>>  BY <2>7 DEF EntriesOK, old, D
    <3> QED  BY <2>6, <3>1, <3>2
  <2>8. ASSUME \A i \in D : ~Repeats(i), NEW i \in D
        PROVE  Len(items'[w][i]) <= Quota(cmd)
    <3>1. \A j \in D : Len(old[j]) <= Quota(cmd)
      BY <2>8 DEF EntriesOK, old, D
    <3>2. p = Fewest(w)
      <4>1. cmd.ops[p] = cmd.ops[Fewest(w)]  BY <2>2 DEF op
      <4>2. ~Repeats(p) /\ ~Repeats(Fewest(w))  BY <2>1, <2>2, <2>8
      <4>3. D = 1 .. Len(cmd.ops) /\ Len(cmd.ops) \in Nat
        BY <1>1, CommandFacts, LenProperties DEF D
      <4>4. p \in Nat /\ p >= 1 /\ Fewest(w) \in Nat /\ Fewest(w) >= 1
        BY <2>1, <2>2, <4>3
      <4>5. ~(p < Fewest(w))
        <5> SUFFICES ASSUME p < Fewest(w) PROVE FALSE  OBVIOUS
        <5>1. p \in 1 .. Fewest(w) - 1  BY <4>4
        <5> QED  BY <4>1, <4>2, <5>1 DEF Repeats
      <4>6. ~(Fewest(w) < p)
        <5> SUFFICES ASSUME Fewest(w) < p PROVE FALSE  OBVIOUS
        <5>1. Fewest(w) \in 1 .. p - 1  BY <4>4
        <5> QED  BY <4>1, <4>2, <5>1 DEF Repeats
      <4> QED  BY <4>4, <4>5, <4>6
    <3>3. PICK j \in D : Len(old[j]) < Quota(cmd)
      BY <1>1 DEF EntriesOK, old, D
    <3>4. Len(old[p]) < Quota(cmd)
      BY <2>1, <2>2, <2>4, <2>6, <3>2, <3>3
    <3>5. CASE i = p  BY <2>2, <2>4, <2>6, <3>4, <3>5
    <3>6. CASE i # p  BY <2>6, <3>1, <3>6
    <3> QED  BY <3>5, <3>6
  <2>9. pc'[w] = IF \A i \in D : Len(items'[w][i]) >= Quota(cmd)
                 THEN "write" ELSE "generate"
    BY <1>1, <1>6 DEF D
  <2>10. \A i \in D : Len(items'[w][i]) \in Nat  BY <2>2, <2>6
  <2>11. pc'[w] = "generate" => \E i \in D : Len(items'[w][i]) < Quota(cmd)
    BY <2>4, <2>9, <2>10
  <2>12. pc'[w] = "write" => \A i \in D : Len(items'[w][i]) >= Quota(cmd)
    BY <2>9
  <2>13. D' = D  BY <1>1 DEF D
  <2> QED  BY <1>3, <1>4, <2>7, <2>8, <2>11, <2>12, <2>13 DEF EntriesOK, D
<1> QED  BY <1>2, <1>5, <1>6

\* While chains are drawn nothing is delivered.
LEMMA DrawQuota ==
    ASSUME GenInv, QuotaInv, NEW w \in Ids, Draw(w)
    PROVE  QuotaInv'
<1> SUFFICES ASSUME crashes' = 0
             PROVE  FilesWhole' /\ FilesCounted'
                    /\ \A v \in Ids : ProcessOK(v)'
  BY DEF QuotaInv
<1>1. /\ pc[w] = "generate" /\ UNCHANGED <<commands, pass, next, file>>
      /\ crashes = 0 /\ cmd' = cmd /\ DOMAIN items = Ids
      /\ pc \in [Ids -> {"absent", "generate", "write", "done", "dead"}]
  BY DEF Draw, GenInv, cmd, Last
<1>2. \/ UNCHANGED <<items, pc>>
      \/ /\ \E p, e : items' = [items EXCEPT ![w][p] = e]
         /\ \E s \in {"write", "generate"} : pc' = [pc EXCEPT ![w] = s]
  BY DEF Draw
<1>3. \A v \in Ids : v # w => pc'[v] = pc[v] /\ items'[v] = items[v]
  BY <1>1, <1>2
<1>4. pc'[w] \in {"write", "generate"}  BY <1>1, <1>2
<1>5. FilesWhole /\ FilesCounted /\ \A v \in Ids : ProcessOK(v)
  BY <1>1 DEF QuotaInv
<1>6. next[w] = 1  BY <1>1, <1>5 DEF ProcessOK
<1>7. FilesWhole'  BY <1>1, <1>5 DEF FilesWhole
<1>8. ASSUME NEW v \in Ids, NEW p, NEW op
      PROVE  Written(v, p, op)' <=> Written(v, p, op)
  <2>1. CASE v # w  BY <1>1, <1>3, <2>1 DEF Written
  <2>2. CASE v = w
    <3>1. 1 .. next[w] - 1 = {}  BY <1>6
    <3> QED  BY <1>1, <1>4, <2>2, <3>1 DEF Written
  <2> QED  BY <2>1, <2>2
<1>9. FilesCounted'
  <2> SUFFICES ASSUME NEW f \in Targets, NEW mode \in KnownModes
               PROVE  /\ IsFiniteSet(Delivered(f, mode)')
                      /\ Cardinality(LinesIn(Existing(f).lines, mode)')
                            = Cardinality(Delivered(f, mode)')
    BY DEF FilesCounted
  <2>1. f[3] \in Ids  BY DEF Targets, Ids
  <2>2. Existing(f)' = Existing(f)  BY <1>1 DEF Existing
  <2>3. LinesIn(Existing(f).lines, mode)' = LinesIn(Existing(f).lines, mode)
    BY <2>2 DEF LinesIn
  <2>4. Delivered(f, mode)' = Delivered(f, mode)
    BY <1>1, <1>8, <2>1, DeliveredSame
  <2> QED  BY <1>5, <2>3, <2>4 DEF FilesCounted
<1>10. ASSUME NEW v \in Ids PROVE ProcessOK(v)'
  <2>1. CASE v # w
    <3>1. pc'[v] = pc[v] /\ items'[v] = items[v] /\ next'[v] = next[v]
      BY <1>1, <1>3, <2>1
    <3>2. EntriesOK(v) => EntriesOK(v)'
      BY <1>1, <3>1 DEF EntriesOK, Repeats, Quota
    <3> QED  BY <1>1, <1>5, <3>1, <3>2 DEF ProcessOK
  <2>2. CASE v = w
    <3>1. EntriesOK(w)  BY <1>1, <1>5 DEF ProcessOK
    <3>2. EntriesOK(w)'  BY <3>1, DrawEntries
    <3>3. ProcessOK(w) /\ pc[w] # "absent"  BY <1>1, <1>5
    <3> QED  BY <1>1, <1>4, <1>6, <2>2, <3>2, <3>3 DEF ProcessOK
  <2> QED  BY <2>1, <2>2
<1> QED  BY <1>7, <1>9, <1>10

\* When all entries have their chains none of them repeats another, and none
\* has more.
LEMMA WriteEntries ==
    ASSUME GenInv, NEW w \in Ids, pc[w] = "write", EntriesOK(w)
    PROVE  \A i \in DOMAIN cmd.ops : /\ ~Repeats(i)
                                     /\ Len(items[w][i]) = Quota(cmd)
<1>1. Started(w) /\ commands # <<>>  BY DEF GenInv, Started
<1>2. Quota(cmd) \in Nat \ {0}  BY <1>1, CommandFacts, QuotaPositive
<1>3. ASSUME NEW i \in DOMAIN cmd.ops
      PROVE  Len(items[w][i]) \in Nat /\ Len(items[w][i]) >= Quota(cmd)
  <2>1. items[w][i] \in Seq(Chains)  BY <1>1 DEF Started
  <2>2. Len(items[w][i]) \in Nat  BY <2>1, LenProperties
  <2> QED  BY <2>2 DEF EntriesOK
<1>4. ASSUME NEW i \in DOMAIN cmd.ops PROVE ~Repeats(i)
  <2> SUFFICES ASSUME Repeats(i) PROVE FALSE  OBVIOUS
  <2>1. items[w][i] = <<>>  BY DEF EntriesOK
  <2>2. Len(items[w][i]) = 0  BY <2>1
  <2> QED  BY <1>2, <1>3, <2>2
<1>5. \A i \in DOMAIN cmd.ops : Len(items[w][i]) <= Quota(cmd)
  BY <1>4 DEF EntriesOK
<1> QED  BY <1>2, <1>3, <1>4, <1>5

\* A write delivers one operation of one pass.
LEMMA WriteWrites ==
    ASSUME GenInv, NEW w \in Ids, pc[w] = "write", AfterWrite(w),
           NEW p \in DOMAIN cmd.passes, NEW op \in Range(cmd.ops)
    PROVE  Written(w, p, op)' <=>
              \/ Written(w, p, op)
              \/ p = pass[w] /\ op = cmd.ops[next[w]]
<1>1. /\ cmd' = cmd /\ Started(w) /\ commands # <<>>
      /\ pc \in [Ids -> {"absent", "generate", "write", "done", "dead"}]
      /\ pass \in [Ids -> Nat] /\ next \in [Ids -> Nat]
  BY DEF GenInv, Started, AfterWrite, cmd, Last
<1>2. /\ DOMAIN cmd.ops = 1 .. Len(cmd.ops) /\ Len(cmd.ops) \in Nat
      /\ DOMAIN cmd.passes = 1 .. Len(cmd.passes) /\ Len(cmd.passes) \in Nat
  BY <1>1, CommandFacts, LenProperties
<1>3. /\ next[w] \in 1 .. Len(cmd.ops) /\ pass[w] \in 1 .. Len(cmd.passes)
      /\ p \in 1 .. Len(cmd.passes)
  BY <1>1, <1>2 DEF Started
<1>4. CASE /\ next[w] < Len(cmd.ops) /\ next' = [next EXCEPT ![w] = @ + 1]
           /\ UNCHANGED <<pc, pass, rng, items>>
  <2>1. next'[w] = next[w] + 1 /\ pc'[w] = pc[w] /\ pass'[w] = pass[w]
    BY <1>1, <1>4
  <2>2. \A i : i \in 1 .. next'[w] - 1
                  <=> i \in 1 .. next[w] - 1 \/ i = next[w]
    BY <1>3, <2>1
  <2>3. Written(w, p, op)' <=>
           \/ p < pass[w]
           \/ p = pass[w] /\ \E i \in 1 .. next'[w] - 1 : cmd.ops[i] = op
    BY <1>1, <2>1 DEF Written
  <2>4. Written(w, p, op) <=>
           \/ p < pass[w]
           \/ p = pass[w] /\ \E i \in 1 .. next[w] - 1 : cmd.ops[i] = op
    BY DEF Written
  <2> QED  BY <2>2, <2>3, <2>4
<1>5. ASSUME ~(next[w] < Len(cmd.ops))
      PROVE  Written(w, p, op) \/ (p = pass[w] /\ op = cmd.ops[next[w]])
                <=> p < pass[w] \/ p = pass[w]
  <2>1. next[w] = Len(cmd.ops)  BY <1>2, <1>3, <1>5
  <2>2. PICK i \in 1 .. Len(cmd.ops) : cmd.ops[i] = op  BY <1>2 DEF Range
  <2>3. i \in 1 .. next[w] - 1 \/ i = next[w]  BY <1>2, <2>1
  <2> QED  BY <2>2, <2>3 DEF Written
<1>6. CASE /\ ~(next[w] < Len(cmd.ops)) /\ pass[w] < Len(cmd.passes)
           /\ pass' = [pass EXCEPT ![w] = @ + 1]
           /\ pc' = [pc EXCEPT ![w] = "generate"] /\ Seeded(w)
  <2>1. pass'[w] = pass[w] + 1 /\ pc'[w] = "generate"  BY <1>1, <1>6
  <2>2. Written(w, p, op)' <=> p < pass[w] + 1  BY <2>1 DEF Written
  <2> QED  BY <1>3, <1>5, <1>6, <2>2
<1>7. CASE /\ ~(next[w] < Len(cmd.ops)) /\ ~(pass[w] < Len(cmd.passes))
           /\ pc' = [pc EXCEPT ![w] = "done"]
           /\ UNCHANGED <<pass, rng, items, next>>
  <2>1. Written(w, p, op)'  BY <1>1, <1>7 DEF Written
  <2>2. p < pass[w] \/ p = pass[w]  BY <1>2, <1>3, <1>7
  <2> QED  BY <1>5, <1>7, <2>1, <2>2
<1> QED  BY <1>4, <1>6, <1>7 DEF AfterWrite

\* A write adds the lines of what it delivers to its file.
LEMMA WriteDelivers ==
    ASSUME GenInv, QuotaInv, crashes = 0, NEW w \in Ids, Write(w),
           NEW f \in Targets, NEW mode \in KnownModes
    PROVE  /\ IsFiniteSet(Delivered(f, mode)')
           /\ Cardinality(LinesIn(Existing(f).lines, mode)')
                 = Cardinality(Delivered(f, mode)')
<1> DEFINE text == Lines(w, next[w])
           n == Len(commands)
           P == PositionsOf(cmd.passes[pass[w]], mode)
           New == ItemsOf(n, pass[w], P, Quota(cmd))
<1>1. /\ pc[w] = "write" /\ file' = Appended(File(w), text, FALSE)
      /\ AfterWrite(w) /\ UNCHANGED <<commands, crashes>>
      /\ Started(w) /\ commands # <<>> /\ next[w] \in DOMAIN cmd.ops
  BY DEF Write, AfterWrite, GenInv, Started
<1>2. FilesWhole /\ FilesCounted /\ EntriesOK(w) /\ f[3] \in Ids
  BY <1>1 DEF QuotaInv, ProcessOK, Targets, Ids
<1>3. /\ IsFiniteSet(Delivered(f, mode))
      /\ Cardinality(LinesIn(Existing(f).lines, mode))
            = Cardinality(Delivered(f, mode))
  BY <1>2 DEF FilesCounted
<1>4. /\ n \in DOMAIN commands /\ cmd = commands[n] /\ n \in Nat
      /\ DOMAIN commands = 1 .. n
  BY <1>1, CommandsAre
<1>5. Ordered(f, mode)' = Ordered(f, mode)
  BY <1>1 DEF Ordered, Serves
<1>6. ASSUME NEW v \in Ids, v # w, NEW p, NEW op
      PROVE  Written(v, p, op)' <=> Written(v, p, op)
  <2>1. /\ pc'[v] = pc[v] /\ pass'[v] = pass[v] /\ next'[v] = next[v]
    BY <1>1, <1>6 DEF AfterWrite, Seeded, GenInv
  <2>2. cmd' = cmd  BY <1>1 DEF cmd, Last
  <2> QED  BY <2>1, <2>2 DEF Written
<1>7. CASE f # File(w)
  <2>1. Existing(f)' = Existing(f)
    BY <1>1, <1>7 DEF Existing, Appended
  <2>2. LinesIn(Existing(f).lines, mode)' = LinesIn(Existing(f).lines, mode)
    BY <2>1 DEF LinesIn
  <2>3. ASSUME NEW d \in Ordered(f, mode)
        PROVE  d \in Delivered(f, mode)' <=> d \in Delivered(f, mode)
    <3>1. PICK j \in DOMAIN commands :
                LET c == commands[j]
                IN  /\ Serves(c, f)
                    /\ \E p \in DOMAIN c.passes :
                         \E m \in PositionsOf(c.passes[p], mode),
                            k \in 1 .. Quota(c) : d = <<j, <<p, m>>, k>>
      BY OrderedIs
    <3>2. d[1] = j /\ d[2][1] \in DOMAIN commands[j].passes  BY <3>1
    <3>3. CASE j # n
      <4>1. d[1] < Len(commands)  BY <1>4, <3>2, <3>3
      <4> QED  BY <1>1, <1>5, <4>1 DEF Delivered
    <3>4. CASE j = n /\ f[3] # w
      BY <1>1, <1>2, <1>5, <1>6, <3>4 DEF Delivered
    <3>5. CASE j = n /\ f[3] = w
      <4>1. Serves(cmd, f) /\ d[2][1] \in DOMAIN cmd.passes
        BY <1>4, <3>1, <3>2, <3>5
      <4>2. f = <<f[1], f[2], f[3]>>  BY DEF Targets
      <4>3. f[2] # cmd.ops[next[w]]
        BY <1>7, <3>5, <4>1, <4>2 DEF File, Serves
      <4>4. Written(w, d[2][1], f[2])' <=> Written(w, d[2][1], f[2])
        BY <1>1, <4>1, <4>3, WriteWrites DEF Serves
      <4> QED  BY <1>1, <1>5, <3>5, <4>4 DEF Delivered
    <3> QED  BY <3>3, <3>4, <3>5
  <2>4. Delivered(f, mode)' = Delivered(f, mode)
    BY <1>5, <2>3 DEF Delivered
  <2> QED  BY <1>3, <2>2, <2>4
<1>8. CASE f = File(w)
  <2>1. f[1] = cmd.layout /\ f[2] = cmd.ops[next[w]] /\ f[3] = w
    BY <1>8 DEF File
  <2>2. Serves(cmd, f)
    <3>1. ProcessOK(w) /\ pc[w] # "absent"  BY <1>1 DEF QuotaInv
    <3>2. ~(w >= cmd.procs)  BY <1>1, <3>1 DEF ProcessOK
    <3>3. w \in Nat /\ cmd.procs \in Nat
      BY <1>1, IdsAreNumbers, CommandFacts, DataGenAssumption
    <3>4. w < cmd.procs  BY <3>2, <3>3
    <3>5. f[2] \in Range(cmd.ops)  BY <1>1, <2>1 DEF Range
    <3> QED  BY <2>1, <3>4, <3>5 DEF Serves
  <2>3. pass[w] \in DOMAIN cmd.passes  BY <1>1 DEF Started
  <2>4. ASSUME NEW d \in Ordered(f, mode)
        PROVE  d \in Delivered(f, mode)' <=>
                  d \in Delivered(f, mode) \/ d \in New
    <3>1. PICK j \in DOMAIN commands :
                LET c == commands[j]
                IN  /\ Serves(c, f)
                    /\ \E p \in DOMAIN c.passes :
                         \E m \in PositionsOf(c.passes[p], mode),
                            k \in 1 .. Quota(c) : d = <<j, <<p, m>>, k>>
      BY OrderedIs
    <3>2. PICK p \in DOMAIN commands[j].passes :
             \E m \in PositionsOf(commands[j].passes[p], mode),
                k \in 1 .. Quota(commands[j]) : d = <<j, <<p, m>>, k>>
      BY <3>1
    <3>3. PICK m \in PositionsOf(commands[j].passes[p], mode),
               k \in 1 .. Quota(commands[j]) : d = <<j, <<p, m>>, k>>
      BY <3>2
    <3>4. d[1] = j /\ d[2][1] = p  BY <3>3
    <3>5. CASE j # n
      <4>1. d[1] < Len(commands)  BY <1>4, <3>4, <3>5
      <4>2. d \in Delivered(f, mode)  BY <4>1 DEF Delivered
      <4> QED  BY <1>1, <1>5, <4>1, <4>2 DEF Delivered
    <3>6. CASE j = n
      <4>1. d \in New <=> p = pass[w]
        <5>1. p = pass[w] => d \in New  BY <1>4, <3>3, <3>6 DEF ItemsOf
        <5>2. d \in New => d[2][1] = pass[w]  BY DEF ItemsOf
        <5> QED  BY <3>4, <5>1, <5>2
      <4>2. p \in DOMAIN cmd.passes  BY <1>4, <3>6
      <4>3. Written(w, p, f[2])' <=>
               Written(w, p, f[2]) \/ (p = pass[w] /\ f[2] = cmd.ops[next[w]])
        BY <1>1, <2>2, <4>2, WriteWrites DEF Serves
      <4>4. ~(d[1] < Len(commands))  BY <1>4, <3>4, <3>6
      <4>5. d \in Delivered(f, mode) <=> Written(w, p, f[2])
        BY <2>1, <3>4, <4>4 DEF Delivered
      <4>6. d \in Delivered(f, mode)' <=> Written(w, p, f[2])'
        BY <1>1, <1>5, <2>1, <3>4, <4>4 DEF Delivered
      <4> QED  BY <2>1, <4>1, <4>3, <4>5, <4>6
    <3> QED  BY <3>5, <3>6
  <2>5. New \subseteq Ordered(f, mode)
    <3> SUFFICES ASSUME NEW d \in New PROVE d \in Ordered(f, mode)  OBVIOUS
    <3>1. PICK m \in P, k \in 1 .. Quota(cmd) : d = <<n, <<pass[w], m>>, k>>
      BY DEF ItemsOf
    <3> HIDE DEF n
    <3>2. /\ n \in DOMAIN commands /\ Serves(commands[n], f)
          /\ pass[w] \in DOMAIN commands[n].passes
          /\ m \in PositionsOf(commands[n].passes[pass[w]], mode)
          /\ k \in 1 .. Quota(commands[n]) /\ d = <<n, <<pass[w], m>>, k>>
      BY <1>4, <2>2, <2>3, <3>1
    <3> QED  BY <3>2, OrderedIs
  <2>6. New \cap Delivered(f, mode) = {}
    <3> SUFFICES ASSUME NEW d \in New, d \in Delivered(f, mode) PROVE FALSE
      OBVIOUS
    <3>1. d[1] = n /\ d[2][1] = pass[w]  BY DEF ItemsOf
    <3>2. Written(w, pass[w], cmd.ops[next[w]])
      <4>1. ~(n < n)  BY <1>4
      <4> QED  BY <2>1, <3>1, <4>1 DEF Delivered
    <3>3. ~(pass[w] < pass[w])
      <4>1. pass[w] \in Nat  BY DEF GenInv
      <4> QED  BY <4>1
    <3>4. Repeats(next[w])  BY <1>1, <3>2, <3>3 DEF Written, Repeats
    <3> QED  BY <1>1, <1>2, <3>4, WriteEntries
  <2>7. Delivered(f, mode)' = Delivered(f, mode) \cup New
    <3>1. Delivered(f, mode)' \subseteq Ordered(f, mode)
      BY <1>5 DEF Delivered
    <3>2. Delivered(f, mode) \subseteq Ordered(f, mode)  BY DEF Delivered
    <3> HIDE DEF New
    <3> QED  BY <2>4, <2>5, <3>1, <3>2
  <2>8. /\ IsFiniteSet(P) /\ Cardinality(P) \in Nat
        /\ Cardinality(LinesIn(text, mode)) = Cardinality(P) * Quota(cmd)
    BY <1>1, <1>2, LinesCount, WriteEntries
  <2>9. Quota(cmd) \in Nat  BY <1>1, CommandFacts, QuotaPositive
  <2>10. IsFiniteSet(New) /\ Cardinality(New) = Cardinality(P) * Quota(cmd)
    <3> HIDE DEF P
    <3> QED  BY <2>8, <2>9, ItemsCount
  <2>11. Existing(f).lines' = Existing(f).lines \o text
    <3>1. ~Existing(f).open  BY <1>2 DEF Existing, FilesWhole
    <3> HIDE DEF text
    <3>2. /\ file'[f] = [lines |-> Existing(f).lines \o text, open |-> FALSE]
          /\ f \in DOMAIN file'
      BY <1>1, <1>8, <3>1 DEF Appended
    <3>3. Existing(f)' = file'[f]  BY <3>2 DEF Existing
    <3> QED  BY <3>2, <3>3
  <2>12. Existing(f).lines \in Seq(ItemLine) /\ text \in Seq(ItemLine)
    <3>1. text \in Seq(ItemLine)  BY <1>1, LinesType
    <3>2. Existing(f).lines \in Seq(ItemLine)
      BY <1>2, EmptySeq DEF Existing, FilesWhole
    <3> QED  BY <3>1, <3>2
  <2> HIDE DEF text, New, P
  <2>13. Cardinality(LinesIn(Existing(f).lines, mode)')
            = Cardinality(LinesIn(Existing(f).lines, mode))
              + Cardinality(LinesIn(text, mode))
    <3>1. LinesIn(Existing(f).lines, mode)'
             = LinesIn(Existing(f).lines \o text, mode)
      BY <2>11 DEF LinesIn
    <3> QED  BY <2>12, <3>1, ConcatCount
  <2>14. /\ IsFiniteSet(Delivered(f, mode) \cup New)
         /\ Cardinality(Delivered(f, mode) \cup New)
               = Cardinality(Delivered(f, mode)) + Cardinality(New)
    <3>1. /\ IsFiniteSet(Delivered(f, mode) \cup New)
          /\ Cardinality(Delivered(f, mode) \cup New)
                = Cardinality(Delivered(f, mode)) + Cardinality(New)
                  - Cardinality(Delivered(f, mode) \cap New)
      BY <1>3, <2>10, FS_Union
    <3>2. Cardinality(Delivered(f, mode) \cap New) = 0
      <4>1. Delivered(f, mode) \cap New = {}  BY <2>6
      <4> QED  BY <4>1, FS_EmptySet
    <3>3. /\ Cardinality(Delivered(f, mode)) \in Nat
          /\ Cardinality(New) \in Nat
      BY <1>3, <2>10, FS_CardinalityType
    <3> QED  BY <3>1, <3>2, <3>3
  <2> QED  BY <1>3, <2>7, <2>8, <2>10, <2>13, <2>14
<1> QED  BY <1>7, <1>8

\* A write delivers what is due and leaves whole files.
LEMMA WriteQuota ==
    ASSUME GenInv, QuotaInv, NEW w \in Ids, Write(w)
    PROVE  QuotaInv'
<1> SUFFICES ASSUME crashes' = 0
             PROVE  FilesWhole' /\ FilesCounted'
                    /\ \A v \in Ids : ProcessOK(v)'
  BY DEF QuotaInv
<1> DEFINE text == Lines(w, next[w])
<1>1. /\ pc[w] = "write" /\ file' = Appended(File(w), text, FALSE)
      /\ AfterWrite(w) /\ UNCHANGED <<commands, crashes>> /\ crashes = 0
      /\ Started(w) /\ commands # <<>> /\ next[w] \in DOMAIN cmd.ops
      /\ cmd' = cmd
  BY DEF Write, AfterWrite, GenInv, Started, cmd, Last
<1>2. FilesWhole /\ \A v \in Ids : ProcessOK(v)  BY <1>1 DEF QuotaInv
<1>3. FilesWhole'
  <2>1. text \in Seq(ItemLine)  BY <1>1, LinesType
  <2> HIDE DEF text
  <2> SUFFICES ASSUME NEW f \in DOMAIN file'
               PROVE  ~file'[f].open /\ file'[f].lines \in Seq(ItemLine)
    BY DEF FilesWhole
  <2>2. CASE f # File(w)
    <3>1. f \in DOMAIN file /\ file'[f] = file[f]
      BY <1>1, <2>2 DEF Appended
    <3> QED  BY <1>2, <3>1 DEF FilesWhole
  <2>3. CASE f = File(w)
    <3>1. /\ ~Existing(f).open
          /\ Existing(f).lines \in Seq(ItemLine)
      BY <1>2, EmptySeq DEF Existing, FilesWhole
    <3>2. file'[f] = [lines |-> Existing(f).lines \o text, open |-> FALSE]
      BY <1>1, <2>3, <3>1 DEF Appended
    <3>3. Existing(f).lines \o text \in Seq(ItemLine)
      BY <2>1, <3>1, ConcatProperties
    <3> QED  BY <3>2, <3>3
  <2> QED  BY <2>2, <2>3
<1>4. FilesCounted'
  BY <1>1, WriteDelivers DEF FilesCounted
<1>5. /\ pc \in [Ids -> {"absent", "generate", "write", "done", "dead"}]
      /\ next \in [Ids -> Nat] /\ DOMAIN items = Ids
  BY DEF GenInv
<1>6. ASSUME NEW v \in Ids, v # w PROVE ProcessOK(v)'
  <2>1. pc'[v] = pc[v] /\ next'[v] = next[v] /\ items'[v] = items[v]
    BY <1>1, <1>5, <1>6 DEF AfterWrite, Seeded
  <2>2. EntriesOK(v) => EntriesOK(v)'
    BY <1>1, <2>1 DEF EntriesOK, Repeats, Quota
  <2> QED  BY <1>1, <1>2, <2>1, <2>2 DEF ProcessOK
<1>7. ProcessOK(w)'
  <2>1. ProcessOK(w) /\ EntriesOK(w) /\ ~(w >= cmd.procs)
    BY <1>1, <1>2 DEF ProcessOK
  <2>2. CASE UNCHANGED <<pc, items>>
    <3>1. EntriesOK(w)'  BY <1>1, <2>1, <2>2 DEF EntriesOK, Repeats, Quota
    <3> QED  BY <1>1, <2>1, <2>2, <3>1 DEF ProcessOK
  <2>3. CASE pc' = [pc EXCEPT ![w] = "generate"] /\ Seeded(w)
    <3>1. /\ pc'[w] = "generate" /\ next'[w] = 1
          /\ items'[w] = [i \in DOMAIN cmd.ops |-> <<>>]
      BY <1>1, <1>5, <2>3 DEF Seeded
    <3>2. Quota(cmd) \in Nat \ {0} /\ 1 \in DOMAIN cmd.ops
      BY <1>1, CommandFacts, QuotaPositive
    <3>3. Len(<<>>) = 0  OBVIOUS
    <3>4. \A i \in DOMAIN cmd.ops : /\ items'[w][i] = <<>>
                                    /\ Len(items'[w][i]) = 0
      BY <3>1, <3>3
    <3>5. /\ \A i \in DOMAIN cmd.ops : Len(items'[w][i]) <= Quota(cmd)
          /\ \E i \in DOMAIN cmd.ops : Len(items'[w][i]) < Quota(cmd)
      BY <3>2, <3>4
    <3>6. Quota(cmd)' = Quota(cmd)  BY <1>1 DEF Quota
    <3>7. EntriesOK(w)'
      BY <1>1, <3>1, <3>4, <3>5, <3>6 DEF EntriesOK
    <3> QED  BY <1>1, <2>1, <3>1, <3>7 DEF ProcessOK
  <2>4. CASE pc' = [pc EXCEPT ![w] = "done"]
    <3>1. pc'[w] = "done"  BY <1>5, <2>4
    <3> QED  BY <1>1, <2>1, <3>1 DEF ProcessOK
  <2> QED  BY <1>1, <2>2, <2>3, <2>4 DEF AfterWrite
<1> QED  BY <1>3, <1>4, <1>6, <1>7

\* Every step keeps the count.
LEMMA QuotaStep == GenInv /\ QuotaInv /\ [Next]_vars => QuotaInv'
<1> SUFFICES ASSUME GenInv, QuotaInv, [Next]_vars PROVE QuotaInv'  OBVIOUS
<1>1. CASE UNCHANGED genVars
  <2> SUFFICES ASSUME crashes' = 0
               PROVE  FilesWhole' /\ FilesCounted'
                      /\ \A v \in Ids : ProcessOK(v)'
    BY DEF QuotaInv
  <2>1. /\ crashes = 0 /\ cmd' = cmd
        /\ UNCHANGED <<commands, pc, pass, items, next, file>>
    BY <1>1 DEF genVars, cmd, Last
  <2>2. FilesWhole'  BY <2>1 DEF QuotaInv, FilesWhole
  <2>3. FilesCounted'
    <3> SUFFICES ASSUME NEW f \in Targets, NEW mode \in KnownModes
                 PROVE  /\ IsFiniteSet(Delivered(f, mode)')
                        /\ Cardinality(LinesIn(Existing(f).lines, mode)')
                              = Cardinality(Delivered(f, mode)')
      BY DEF FilesCounted
    <3>1. \A v, p, op : Written(v, p, op)' <=> Written(v, p, op)
      BY <2>1 DEF Written
    <3>2. Delivered(f, mode)' = Delivered(f, mode)
      BY <2>1, <3>1, DeliveredSame
    <3>3. LinesIn(Existing(f).lines, mode)' = LinesIn(Existing(f).lines, mode)
      BY <2>1 DEF LinesIn, Existing
    <3> QED  BY <2>1, <3>2, <3>3 DEF QuotaInv, FilesCounted
  <2>4. ASSUME NEW v \in Ids PROVE ProcessOK(v)'
    <3>1. EntriesOK(v) => EntriesOK(v)'
      BY <2>1 DEF EntriesOK, Repeats, Quota
    <3>2. ProcessOK(v)  BY <2>1 DEF QuotaInv
    <3> QED  BY <2>1, <3>1, <3>2 DEF ProcessOK
  <2> QED  BY <2>2, <2>3, <2>4
<1>2. CASE GenNext
  <2>1. CASE \E c \in Commands : Launch(c)  BY <2>1, LaunchQuota
  <2>2. ASSUME NEW w \in Ids, Draw(w) \/ Write(w) PROVE QuotaInv'
    BY <2>2, DrawQuota, WriteQuota
  <2>3. ASSUME NEW w \in Ids, Crash(w) PROVE QuotaInv'
    <3>1. crashes \in Nat /\ crashes' = crashes + 1
      BY <2>3, DataGenAssumption DEF GenInv, Crash
    <3>2. crashes' # 0  BY <3>1
    <3> QED  BY <3>2 DEF QuotaInv
  <2> QED  BY <1>2, <2>1, <2>2, <2>3 DEF GenNext
<1> QED
  BY <1>1, <1>2 DEF Next, vars, PrepareRlvr, PrepareSft, Evaluate

\* Every command that returned delivered, in every file, num_per_worker lines
\* for every place it has for a mode, next to what earlier commands left there
\* (the loops of work_function and _work_all_variants), whatever operations,
\* passes, processes and commands there are.
THEOREM QuotasAreMet == Spec => []QuotaMet
<1>1. GenInv /\ QuotaInv => QuotaMet
  <2> SUFFICES ASSUME GenInv, QuotaInv, Clean, NEW k \in DOMAIN commands,
                      NEW op \in Range(commands[k].ops),
                      NEW w \in 0 .. commands[k].procs - 1,
                      NEW mode \in ModesOf(commands[k])
               PROVE  LET f == <<commands[k].layout, op, w>>
                      IN  Cardinality({i \in DOMAIN file[f].lines :
                                          file[f].lines[i].mode = mode})
                             = Cardinality(Ordered(f, mode))
    BY DEF QuotaMet
  <2> DEFINE c == commands[k]
             f == <<c.layout, op, w>>
  <2>1. c \in Commands  BY CommandsAre
  <2>2. f \in Targets /\ mode \in KnownModes /\ f[3] \in Ids
    BY <2>1 DEF Targets, KnownModes, Ids
  <2>3. crashes = 0 /\ Idle  BY DEF Clean
  <2>4. Delivered(f, mode) = Ordered(f, mode)
    BY <2>2, <2>3, IdleDelivered
  <2>5. /\ IsFiniteSet(Ordered(f, mode))
        /\ Cardinality(LinesIn(Existing(f).lines, mode))
              = Cardinality(Ordered(f, mode))
    BY <2>2, <2>3, <2>4 DEF QuotaInv, FilesCounted
  <2>6. f \in DOMAIN file
    <3> SUFFICES ASSUME f \notin DOMAIN file PROVE FALSE  OBVIOUS
    <3>1. Existing(f).lines = <<>>  BY DEF Existing
    <3>2. Cardinality(Ordered(f, mode)) = 0  BY <2>5, <3>1, NoLines
    <3>3. Ordered(f, mode) = {}  BY <2>5, <3>2, FS_EmptySet
    <3>4. PICK p \in DOMAIN c.passes : mode \in Range(c.passes[p])
      BY DEF ModesOf, Range
    <3>5. PICK m \in DOMAIN c.passes[p] : c.passes[p][m] = mode
      BY <3>4 DEF Range
    <3>6. Serves(c, f)
      <4>1. w < c.procs  BY <2>1, DataGenAssumption
      <4> QED  BY <4>1 DEF Serves
    <3>7. 1 \in 1 .. Quota(c)
      <4>1. Quota(c) \in Nat \ {0}  BY <2>1, QuotaPositive
      <4> QED  BY <4>1
    <3>8. m \in PositionsOf(c.passes[p], mode)  BY <3>5 DEF PositionsOf
    <3>9. <<k, <<p, m>>, 1>> \in Ordered(f, mode)
      BY <3>4, <3>6, <3>7, <3>8, OrderedIs
    <3> QED  BY <3>3, <3>9
  <2>7. Existing(f) = file[f]  BY <2>6 DEF Existing
  <2> QED  BY <2>5, <2>7 DEF LinesIn
<1>2. Init => GenInv /\ QuotaInv  BY GenInitInv, QuotaInitInv DEF Init
<1> QED  BY <1>1, <1>2, GenStep, QuotaStep, PTL DEF Spec

-----------------------------------------------------------------------------
(* How often a line occurs *)

Occurs(lines, l) == {i \in DOMAIN lines : lines[i] = l}

\* A line occurs finitely often.
LEMMA OccursFinite ==
    ASSUME NEW S, NEW s \in Seq(S), NEW l
    PROVE  /\ Occurs(s, l) \subseteq 1 .. Len(s)
           /\ IsFiniteSet(Occurs(s, l))
           /\ Cardinality(Occurs(s, l)) \in Nat
<1>1. DOMAIN s = 1 .. Len(s) /\ Len(s) \in Nat  BY LenProperties
<1>2. IsFiniteSet(1 .. Len(s))  BY <1>1, FS_Interval
<1>3. Occurs(s, l) \subseteq 1 .. Len(s)  BY <1>1 DEF Occurs
<1>4. IsFiniteSet(Occurs(s, l))  BY <1>2, <1>3, FS_Subset
<1> QED  BY <1>3, <1>4, FS_CardinalityType

\* Where a line occurs in s, it occurs in a or, moved by n, in b.
LEMMA OccursSplit ==
    ASSUME NEW S, NEW s \in Seq(S), NEW a \in Seq(S), NEW b \in Seq(S),
           NEW l, NEW n \in Nat,
           \A i \in DOMAIN s : s[i] = l =>
              \/ i \in DOMAIN a /\ a[i] = l
              \/ i - n \in DOMAIN b /\ b[i - n] = l
    PROVE  Cardinality(Occurs(s, l))
              <= Cardinality(Occurs(a, l)) + Cardinality(Occurs(b, l))
<1> DEFINE A == Occurs(a, l)
           B == Occurs(b, l)
           T == {i + n : i \in B}
<1>1. /\ DOMAIN s = 1 .. Len(s) /\ Len(s) \in Nat
      /\ DOMAIN b = 1 .. Len(b) /\ Len(b) \in Nat
  BY LenProperties
<1>2. /\ IsFiniteSet(A) /\ IsFiniteSet(B) /\ B \subseteq 1 .. Len(b)
      /\ Cardinality(A) \in Nat /\ Cardinality(B) \in Nat
      /\ IsFiniteSet(Occurs(s, l)) /\ Cardinality(Occurs(s, l)) \in Nat
  BY OccursFinite
<1>3. IsFiniteSet(T) /\ Cardinality(T) = Cardinality(B)
  <2>1. B \subseteq Nat  BY <1>1, <1>2
  <2> HIDE DEF B
  <2> QED  BY <1>2, <2>1, Shifted
<1>4. Occurs(s, l) \subseteq A \cup T
  <2> SUFFICES ASSUME NEW i \in Occurs(s, l) PROVE i \in A \cup T  OBVIOUS
  <2>1. i \in DOMAIN s /\ s[i] = l /\ i \in Nat  BY <1>1 DEF Occurs
  <2>2. CASE i \in DOMAIN a /\ a[i] = l  BY <2>2 DEF Occurs
  <2>3. CASE i - n \in DOMAIN b /\ b[i - n] = l
    <3>1. i - n \in B /\ (i - n) + n = i  BY <2>1, <2>3 DEF Occurs
    <3> QED  BY <3>1
  <2> QED  BY <2>1, <2>2, <2>3
<1> HIDE DEF A, B, T
<1>5. /\ IsFiniteSet(A \cup T)
      /\ Cardinality(A \cup T)
            = Cardinality(A) + Cardinality(T) - Cardinality(A \cap T)
  BY <1>2, <1>3, FS_Union
<1>6. IsFiniteSet(A \cap T) /\ Cardinality(A \cap T) \in Nat
  <2>1. A \cap T \subseteq A  OBVIOUS
  <2>2. IsFiniteSet(A \cap T)  BY <1>2, <2>1, FS_Subset
  <2> QED  BY <2>2, FS_CardinalityType
<1>7. Cardinality(Occurs(s, l)) <= Cardinality(A \cup T)
  BY <1>4, <1>5, FS_Subset
<1> QED  BY <1>2, <1>3, <1>5, <1>6, <1>7 DEF A, B

\* Behind each other, two sequences have a line as often as both together.
LEMMA ConcatOccurs ==
    ASSUME NEW S, NEW a \in Seq(S), NEW b \in Seq(S), NEW l
    PROVE  Cardinality(Occurs(a \o b, l))
              <= Cardinality(Occurs(a, l)) + Cardinality(Occurs(b, l))
<1> DEFINE n == Len(a)
           s == a \o b
<1>1. /\ n \in Nat /\ Len(b) \in Nat /\ DOMAIN a = 1 .. n
      /\ DOMAIN b = 1 .. Len(b) /\ s \in Seq(S)
      /\ DOMAIN s = 1 .. n + Len(b)
      /\ \A i \in 1 .. n + Len(b) : s[i] = IF i <= n THEN a[i] ELSE b[i - n]
  BY LenProperties, ConcatProperties
<1> HIDE DEF s, n
<1>2. ASSUME NEW i \in DOMAIN s, s[i] = l
      PROVE  \/ i \in DOMAIN a /\ a[i] = l
             \/ i - n \in DOMAIN b /\ b[i - n] = l
  <2>1. CASE i <= n  BY <1>1, <1>2, <2>1
  <2>2. CASE ~(i <= n)  BY <1>1, <1>2, <2>2
  <2> QED  BY <2>1, <2>2
<1>3. Cardinality(Occurs(s, l))
         <= Cardinality(Occurs(a, l)) + Cardinality(Occurs(b, l))
  BY <1>1, <1>2, OccursSplit
<1> QED  BY <1>3 DEF s

\* No lines.
LEMMA OccursNone ==
    ASSUME NEW l
    PROVE  Occurs(<<>>, l) = {} /\ Cardinality(Occurs(<<>>, l)) = 0
<1>1. DOMAIN <<>> = {}  OBVIOUS
<1>2. Occurs(<<>>, l) = {}  BY <1>1 DEF Occurs
<1> QED  BY <1>2, FS_EmptySet

\* Joined, sequences of which only one has the line have it as often as that
\* one.
LEMMA FlattenOccurs ==
    ASSUME NEW S, NEW seqs \in Seq(Seq(S)), NEW l, NEW q \in Nat,
           NEW j \in Nat,
           \A i \in 1 .. Len(seqs) : i # j => Occurs(seqs[i], l) = {},
           j \in 1 .. Len(seqs) => Cardinality(Occurs(seqs[j], l)) <= q
    PROVE  Cardinality(Occurs(FlattenSeq(seqs), l)) <= q
<1> DEFINE n == Len(seqs)
           D == 1 .. n
           count(s) == Cardinality(Occurs(s, l))
           most(k) == IF k < j THEN 0 ELSE q
<1>1. PICK F : Joins(F, seqs, S)  BY FlattenJoins
<1>2. n \in Nat /\ (\A i \in D : seqs[i] \in Seq(S))  OBVIOUS
<1>3. /\ F \in [D -> Seq(S)]
      /\ \A i \in D : F[i] = IF i = 1 THEN seqs[i] ELSE F[i - 1] \o seqs[i]
      /\ FlattenSeq(seqs) = IF n = 0 THEN <<>> ELSE F[n]
  BY <1>1 DEF Joins, JoinBody
<1>4. ASSUME NEW k \in D
      PROVE  /\ count(seqs[k]) \in Nat /\ count(F[k]) \in Nat
             /\ k # j => count(seqs[k]) = 0
             /\ k = j => count(seqs[k]) <= q
  <2>1. seqs[k] \in Seq(S) /\ F[k] \in Seq(S)  BY <1>2, <1>3
  <2>2. count(seqs[k]) \in Nat /\ count(F[k]) \in Nat
    BY <2>1, OccursFinite
  <2>3. k # j => count(seqs[k]) = 0  BY FS_EmptySet
  <2> QED  BY <2>2, <2>3
<1> DEFINE U == {k \in D : ~(count(F[k]) <= most(k))}
<1>5. U = {}
  <2> SUFFICES ASSUME U # {} PROVE FALSE  OBVIOUS
  <2>1. PICK k \in U : \A y \in U : k <= y
    <3>1. U \subseteq Nat  OBVIOUS
    <3> QED  BY <3>1, Least
  <2>2. k \in D /\ k \in Nat /\ ~(count(F[k]) <= most(k))  BY <2>1
  <2>3. CASE k = 1
    <3>1. F[k] = seqs[k]  BY <1>3, <2>2, <2>3
    <3>2. count(seqs[k]) <= most(k)
      <4>1. /\ count(seqs[k]) \in Nat
            /\ k # j => count(seqs[k]) = 0
            /\ k = j => count(seqs[k]) <= q
        BY <1>4, <2>2
      <4>2. ASSUME NEW z \in Nat, k # j => z = 0, k = j => z <= q
            PROVE  z <= most(k)
        BY <2>2, <4>2
      <4> HIDE DEF count, most
      <4> QED  BY <4>1, <4>2
    <3> HIDE DEF count, most
    <3> QED  BY <2>2, <3>1, <3>2
  <2>4. CASE k # 1
    <3>1. k - 1 \in D /\ ~(k <= k - 1) /\ k - 1 \in Nat  BY <2>2, <2>4
    <3>2. count(F[k - 1]) <= most(k - 1)  BY <2>1, <3>1
    <3>3. F[k] = F[k - 1] \o seqs[k]  BY <1>3, <2>2, <2>4
    <3>4. count(F[k]) <= count(F[k - 1]) + count(seqs[k])
      <4>1. F[k - 1] \in Seq(S) /\ seqs[k] \in Seq(S)
        BY <1>2, <1>3, <2>2, <3>1
      <4> QED  BY <3>3, <4>1, ConcatOccurs
    <3>5. /\ count(F[k - 1]) \in Nat /\ count(seqs[k]) \in Nat
          /\ count(F[k]) \in Nat
      BY <1>4, <2>2, <3>1
    <3>6. count(F[k]) <= most(k)
      <4>1. k # j => count(seqs[k]) = 0  BY <1>4, <2>2
      <4>2. k = j => count(seqs[k]) <= q  BY <1>4, <2>2
      <4>3. ASSUME NEW x \in Nat, NEW y \in Nat, NEW z \in Nat,
                   x <= y + z, y <= most(k - 1), k # j => z = 0,
                   k = j => z <= q
            PROVE  x <= most(k)
        BY <2>2, <4>3
      <4> QED  BY <3>2, <3>4, <3>5, <4>1, <4>2, <4>3
    <3> QED  BY <2>2, <3>6
  <2> QED  BY <2>3, <2>4
<1>6. CASE n = 0
  BY <1>3, <1>6, OccursNone
<1>7. CASE n # 0
  <2>1. n \in D  BY <1>2, <1>7
  <2>2. count(F[n]) <= most(n)  BY <1>5, <2>1
  <2>3. count(F[n]) \in Nat  BY <1>4, <2>1
  <2>4. count(F[n]) <= q
    <3> HIDE DEF count
    <3> QED  BY <1>2, <2>2, <2>3
  <2> QED  BY <1>3, <1>7, <2>4
<1> QED  BY <1>6, <1>7

\* What is in a file after a text was appended was there before or is of the
\* text, but for a line that is glued.
LEMMA AppendedLines ==
    ASSUME FilesTyped, NEW f, NEW text \in Seq(TextLine), NEW open,
           file' = Appended(f, text, open)
    PROVE  /\ DOMAIN file' = DOMAIN file \cup {f}
           /\ \A g \in DOMAIN file : g # f => file'[g] = file[g]
           /\ file'[f].lines \in Seq(TextLine)
           /\ \E n \in Nat : \A k \in DOMAIN file'[f].lines :
                 \/ file'[f].lines[k] = Malformed
                 \/ /\ k \in DOMAIN Existing(f).lines
                    /\ Existing(f).lines[k] = file'[f].lines[k]
                 \/ /\ k - n \in DOMAIN text
                    /\ text[k - n] = file'[f].lines[k]
<1> DEFINE s == Existing(f).lines
           t == Len(text)
           L == Len(s)
           glue == Existing(f).open /\ text # <<>>
           lines == IF glue THEN Front(s) \o <<Malformed>> \o Tail(text)
                            ELSE s \o text
<1>1. /\ DOMAIN file' = DOMAIN file \cup {f}
      /\ file'[f] = [lines |-> lines, open |-> open]
      /\ \A g \in DOMAIN file : g # f => file'[g] = file[g]
  BY DEF Appended
<1>2. /\ s \in Seq(TextLine) /\ Existing(f).open \in BOOLEAN
      /\ Existing(f).open => s # <<>>
  BY ExistingType
<1>3. /\ lines \in Seq(TextLine)
      /\ Len(lines) = IF glue THEN L + t - 1 ELSE L + t
      /\ \A k \in 1 .. Len(lines) :
            lines[k] = IF glue THEN IF k < L THEN s[k]
                                    ELSE IF k = L THEN Malformed
                                    ELSE text[k - L + 1]
                               ELSE IF k <= L THEN s[k] ELSE text[k - L]
  <2>1. CASE glue
    <3>1. s # <<>> /\ text # <<>>  BY <1>2, <2>1
    <3>2. lines = Front(s) \o <<Malformed>> \o Tail(text)  BY <2>1
    <3>3. s \in Seq(TextLine)  BY <1>2
    <3> HIDE DEF s, lines
    <3> QED  BY <2>1, <3>1, <3>2, <3>3, Joined
  <2>2. CASE ~glue
    <3>1. lines = s \o text  BY <2>2
    <3>2. s \in Seq(TextLine)  BY <1>2
    <3> HIDE DEF s, lines
    <3> QED  BY <2>2, <3>1, <3>2, Joined
  <2> QED  BY <2>1, <2>2
<1>4. /\ L \in Nat /\ t \in Nat /\ DOMAIN s = 1 .. L /\ DOMAIN text = 1 .. t
      /\ glue => L >= 1
  <2>1. L \in Nat /\ t \in Nat /\ DOMAIN s = 1 .. L /\ DOMAIN text = 1 .. t
    BY <1>2, LenProperties
  <2>2. s # <<>> => L # 0  BY <1>2, EmptySeq
  <2> QED  BY <1>2, <2>1, <2>2
<1>5. DOMAIN lines = 1 .. Len(lines) /\ Len(lines) \in Nat
  BY <1>3, LenProperties
<1>6. file'[f].lines = lines  BY <1>1
<1> HIDE DEF lines, s, L, t, glue
<1> DEFINE n == IF glue THEN L - 1 ELSE L
<1>7. n \in Nat  BY <1>4
<1>8. ASSUME NEW k \in DOMAIN lines
      PROVE  \/ lines[k] = Malformed
             \/ k \in DOMAIN s /\ s[k] = lines[k]
             \/ k - n \in DOMAIN text /\ text[k - n] = lines[k]
  <2>1. k \in Nat /\ k >= 1 /\ k <= Len(lines)  BY <1>5
  <2>2. CASE glue
    <3>1. n = L - 1  BY <2>2
    <3> HIDE DEF n
    <3>2. CASE k < L
      <4>1. lines[k] = s[k]  BY <1>3, <1>5, <2>2, <3>2
      <4> QED  BY <1>4, <2>1, <3>2, <4>1
    <3>3. CASE k = L  BY <1>3, <1>4, <1>5, <2>2, <3>3
    <3>4. CASE k > L
      <4>1. k - n = k - L + 1 /\ k - n \in 1 .. t
        BY <1>3, <1>4, <2>1, <2>2, <3>1, <3>4
      <4>2. ~(k < L) /\ k # L  BY <1>4, <2>1, <3>4
      <4>3. lines[k] = text[k - L + 1]  BY <1>3, <1>5, <2>2, <4>2
      <4> QED  BY <1>4, <4>1, <4>3
    <3> QED  BY <1>4, <2>1, <3>2, <3>3, <3>4
  <2>3. CASE ~glue
    <3>1. n = L  BY <2>3
    <3> HIDE DEF n
    <3>2. CASE k <= L
      <4>1. lines[k] = s[k]  BY <1>3, <1>5, <2>3, <3>2
      <4> QED  BY <1>4, <2>1, <3>2, <4>1
    <3>3. CASE ~(k <= L)
      <4>1. k - n = k - L /\ k - n \in 1 .. t
        BY <1>3, <1>4, <2>1, <2>3, <3>1, <3>3
      <4>2. lines[k] = text[k - L]  BY <1>3, <1>5, <2>3, <3>3
      <4> QED  BY <1>4, <4>1, <4>2
    <3> QED  BY <3>2, <3>3
  <2> QED  BY <2>2, <2>3
<1>9. file'[f].lines \in Seq(TextLine)  BY <1>3, <1>6
<1> HIDE DEF n
<1>10. \E m \in Nat : \A k \in DOMAIN file'[f].lines :
          \/ file'[f].lines[k] = Malformed
          \/ k \in DOMAIN s /\ s[k] = file'[f].lines[k]
          \/ k - m \in DOMAIN text /\ text[k - m] = file'[f].lines[k]
  BY <1>6, <1>7, <1>8
<1> QED  BY <1>1, <1>9, <1>10 DEF s

\* A text adds its own occurrences of a line at most.
LEMMA AppendOccurs ==
    ASSUME FilesTyped, NEW f, NEW text \in Seq(TextLine), NEW open,
           file' = Appended(f, text, open), NEW l \in ItemLine
    PROVE  Cardinality(Occurs(file'[f].lines, l))
              <= Cardinality(Occurs(Existing(f).lines, l))
                    + Cardinality(Occurs(text, l))
<1> DEFINE s == Existing(f).lines
           new == file'[f].lines
<1>1. PICK n \in Nat : \A k \in DOMAIN new :
                 \/ new[k] = Malformed
                 \/ k \in DOMAIN s /\ s[k] = new[k]
                 \/ k - n \in DOMAIN text /\ text[k - n] = new[k]
  BY AppendedLines
<1>2. s \in Seq(TextLine) /\ new \in Seq(TextLine)
  BY AppendedLines, ExistingType
<1>3. l # Malformed  BY MalformedAssumption
<1> HIDE DEF s, new
<1>4. \A k \in DOMAIN new : new[k] = l =>
                 \/ k \in DOMAIN s /\ s[k] = l
                 \/ k - n \in DOMAIN text /\ text[k - n] = l
  BY <1>1, <1>3
<1>5. Cardinality(Occurs(new, l))
         <= Cardinality(Occurs(s, l)) + Cardinality(Occurs(text, l))
  BY <1>2, <1>4, OccursSplit
<1> QED  BY <1>5 DEF s, new

-----------------------------------------------------------------------------
(* How often a line may occur *)

\* the files there can be
FileNames == {"flat", "nested"} \X Nat \X Ids

\* the places of a mode from which file f may have been given items so far
Given(f, mode) ==
    {a \in Asked(mode) :
        /\ Serves(commands[a[1]], f)
        /\ \/ a[1] < Len(commands)
           \/ Written(f[3], a[2][1], f[2])
           \/ pc[f[3]] = "dead"}

\* The chains of an entry differ, because each is drawn later than the last.
ChainsOK(w) ==
    /\ \A i \in DOMAIN cmd.ops : Repeats(i) => items[w][i] = <<>>
    /\ \A i \in DOMAIN cmd.ops : \A k \in DOMAIN items[w][i] :
          /\ items[w][i][k].seed = w /\ items[w][i][k].op = cmd.ops[i]
          /\ Len(items[w][i][k].past) < Len(rng[w])
          /\ \A h \in DOMAIN items[w][i] :
                items[w][i][h] = items[w][i][k] => h = k

\* A file has lines of its own operation and process only.
OwnLine(f, x) ==
    x # Malformed => x.chain.seed = f[3] /\ x.chain.op = f[2]

OwnLines ==
    \A f \in DOMAIN file :
        /\ f \in FileNames
        /\ \A i \in DOMAIN file[f].lines : OwnLine(f, file[f].lines[i])

OccursAtMost ==
    \A f \in FileNames, l \in ItemLine :
        Cardinality(Occurs(Existing(f).lines, l))
           <= Cardinality(Given(f, l.mode))

OccurInv ==
    /\ commands = <<>> => DOMAIN file = {}
    /\ \A w \in Ids : /\ pc[w] # "absent" => w < cmd.procs
                      /\ pc[w] \in {"generate", "write"} => ChainsOK(w)
    /\ OwnLines /\ OccursAtMost

\* Finitely many finite sets have a finite union.
LEMMA FiniteUnion ==
    ASSUME NEW n \in Nat, NEW F, \A i \in 1 .. n : IsFiniteSet(F[i])
    PROVE  IsFiniteSet(UNION {F[i] : i \in 1 .. n})
<1> DEFINE T == {F[i] : i \in 1 .. n}
           g == [i \in 1 .. n |-> F[i]]
<1>1. IsFiniteSet(1 .. n)  BY FS_Interval
<1>2. g \in Surjection(1 .. n, T)  BY Zenon DEF Surjection
<1>3. IsFiniteSet(T)  BY <1>1, <1>2, FS_Surjection
<1>4. \A S \in T : IsFiniteSet(S)  OBVIOUS
<1> HIDE DEF T
<1>5. IsFiniteSet(UNION T)  BY <1>3, <1>4, FS_UNION
<1> QED  BY <1>5 DEF T

\* the positions of a pass, as places
PassPlaces(c, p) == {p} \X DOMAIN c.passes[p]

\* A command has finitely many places.
LEMMA PlacesFinite ==
    ASSUME NEW c \in Commands
    PROVE  /\ IsFiniteSet(AllPlaces(c))
           /\ \A mode : IsFiniteSet(Places(c, mode))
           /\ \A mode : Places(c, mode) \subseteq AllPlaces(c)
<1> DEFINE n == Len(c.passes)
           F == [p \in 1 .. n |-> PassPlaces(c, p)]
           U == UNION {F[p] : p \in 1 .. n}
<1>1. /\ c.passes \in Seq(Seq(Modes)) /\ n \in Nat /\ DOMAIN c.passes = 1 .. n
  BY DataGenAssumption, LenProperties
<1>2. ASSUME NEW p \in 1 .. n PROVE IsFiniteSet(F[p])
  <2>1. c.passes[p] \in Seq(Modes)  BY <1>1
  <2>2. /\ DOMAIN c.passes[p] = 1 .. Len(c.passes[p])
        /\ Len(c.passes[p]) \in Nat
    BY <2>1, LenProperties
  <2>3. IsFiniteSet(1 .. Len(c.passes[p]))  BY <2>2, FS_Interval
  <2>4. IsFiniteSet(DOMAIN c.passes[p])  BY <2>2, <2>3
  <2>5. IsFiniteSet({p} \X DOMAIN c.passes[p])
    BY <2>4, FS_Singleton, FS_Product
  <2> QED  BY <2>5 DEF PassPlaces
<1>3. IsFiniteSet(U)
  <2> HIDE DEF F, n
  <2> QED  BY <1>1, <1>2, FiniteUnion
<1>4. ASSUME NEW mode PROVE Places(c, mode) \subseteq U
  <2> SUFFICES ASSUME NEW a \in Places(c, mode) PROVE a \in U  OBVIOUS
  <2>1. PICK p \in DOMAIN c.passes : \E m \in DOMAIN c.passes[p] :
           c.passes[p][m] = mode /\ a = <<p, m>>
    BY DEF Places
  <2>2. a \in F[p]  BY <1>1, <2>1 DEF PassPlaces
  <2> QED  BY <1>1, <2>1, <2>2
<1>5. ASSUME NEW mode PROVE Places(c, mode) \subseteq AllPlaces(c)
  <2> SUFFICES ASSUME NEW a \in Places(c, mode) PROVE a \in AllPlaces(c)
    OBVIOUS
  <2>1. PICK p \in DOMAIN c.passes : \E m \in DOMAIN c.passes[p] :
           c.passes[p][m] = mode /\ a = <<p, m>>
    BY DEF Places
  <2>2. mode \in ModesOf(c)
    <3>1. mode \in Range(c.passes[p])  BY <2>1 DEF Range
    <3>2. c.passes[p] \in Range(c.passes)  BY <2>1 DEF Range
    <3> QED  BY <3>1, <3>2 DEF ModesOf
  <2> QED  BY <2>2 DEF AllPlaces
<1> HIDE DEF U
<1>6. AllPlaces(c) \subseteq U  BY <1>4 DEF AllPlaces
<1>7. IsFiniteSet(AllPlaces(c))  BY <1>3, <1>6, FS_Subset
<1>8. \A mode : IsFiniteSet(Places(c, mode))  BY <1>3, <1>4, FS_Subset
<1> QED  BY <1>5, <1>7, <1>8

\* The places that some commands have for a mode are finitely many.
LEMMA AskedFinite ==
    ASSUME NEW cs \in Seq(Commands), NEW mode
    PROVE  IsFiniteSet(UNION {{j} \X Places(cs[j], mode) : j \in DOMAIN cs})
<1> DEFINE n == Len(cs)
           F == [j \in 1 .. n |-> {j} \X Places(cs[j], mode)]
<1>1. /\ n \in Nat /\ DOMAIN cs = 1 .. n
      /\ \A j \in 1 .. n : cs[j] \in Commands
  BY LenProperties, ElementOfSeq
<1>2. ASSUME NEW j \in 1 .. n PROVE IsFiniteSet(F[j])
  <2>1. IsFiniteSet(Places(cs[j], mode))  BY <1>1, PlacesFinite
  <2>2. IsFiniteSet({j} \X Places(cs[j], mode))
    BY <2>1, FS_Singleton, FS_Product
  <2> QED  BY <2>2
<1>3. UNION {{j} \X Places(cs[j], mode) : j \in DOMAIN cs}
         = UNION {F[j] : j \in 1 .. n}
  BY <1>1
<1>4. IsFiniteSet(UNION {F[j] : j \in 1 .. n})
  <2> HIDE DEF F, n
  <2> QED  BY <1>1, <1>2, FiniteUnion
<1> HIDE DEF F, n
<1> QED  BY <1>3, <1>4

\* So are those that the commands so far have, and those that were given.
LEMMA GivenFinite ==
    ASSUME GenInv, NEW mode
    PROVE  /\ IsFiniteSet(Asked(mode)) /\ Cardinality(Asked(mode)) \in Nat
           /\ \A f : /\ Given(f, mode) \subseteq Asked(mode)
                     /\ IsFiniteSet(Given(f, mode))
                     /\ Cardinality(Given(f, mode)) \in Nat
<1>1. commands \in Seq(Commands)  BY DEF GenInv
<1>2. IsFiniteSet(Asked(mode))  BY <1>1, AskedFinite DEF Asked
<1>3. ASSUME NEW f
      PROVE  Given(f, mode) \subseteq Asked(mode)
             /\ IsFiniteSet(Given(f, mode))
  <2>1. Given(f, mode) \subseteq Asked(mode)  BY DEF Given
  <2> QED  BY <1>2, <2>1, FS_Subset
<1> QED  BY <1>2, <1>3, FS_CardinalityType

\* After the step, too.
LEMMA GivenFiniteNext ==
    ASSUME GenInv', NEW mode
    PROVE  /\ IsFiniteSet(Asked(mode)') /\ Cardinality(Asked(mode)') \in Nat
           /\ \A f : /\ IsFiniteSet(Given(f, mode)')
                     /\ Cardinality(Given(f, mode)') \in Nat
           /\ \A f, l : Cardinality(Occurs(Existing(f).lines, l)') \in Nat
<1>1. commands' \in Seq(Commands) /\ FilesTyped'  BY DEF GenInv
<1>2. IsFiniteSet(Asked(mode)')  BY <1>1, AskedFinite DEF Asked
<1>3. ASSUME NEW f PROVE IsFiniteSet(Given(f, mode)')
  <2>1. Given(f, mode)' \subseteq Asked(mode)'  BY DEF Given
  <2> QED  BY <1>2, <2>1, FS_Subset
<1>4. ASSUME NEW f, NEW l
      PROVE  Cardinality(Occurs(Existing(f).lines, l)') \in Nat
  <2>1. CASE f \in DOMAIN file'
    <3>1. Existing(f)' = file'[f]  BY <2>1 DEF Existing
    <3>2. file'[f].lines \in Seq(TextLine)
      BY <1>1, <2>1 DEF FilesTyped
    <3>3. Occurs(Existing(f).lines, l)' = Occurs(file'[f].lines, l)
      BY <3>1 DEF Occurs
    <3> QED  BY <3>2, <3>3, OccursFinite
  <2>2. CASE f \notin DOMAIN file'
    <3>1. Existing(f)'.lines = <<>>  BY <2>2 DEF Existing
    <3>2. Occurs(Existing(f).lines, l)' = Occurs(<<>>, l)
      BY <3>1 DEF Occurs
    <3> QED  BY <3>2, OccursNone
  <2> QED  BY <2>1, <2>2
<1> QED  BY <1>2, <1>3, <1>4, FS_CardinalityType

\* The members of Asked.
LEMMA AskedIs ==
    ASSUME NEW mode, NEW a
    PROVE  a \in Asked(mode) <=>
              \E j \in DOMAIN commands : \E p \in DOMAIN commands[j].passes :
                 \E m \in PositionsOf(commands[j].passes[p], mode) :
                    a = <<j, <<p, m>>>>
<1>1. ASSUME NEW c, NEW place
      PROVE  place \in Places(c, mode) <=>
                \E p \in DOMAIN c.passes :
                   \E m \in PositionsOf(c.passes[p], mode) : place = <<p, m>>
  BY DEF Places, PositionsOf
<1>2. a \in Asked(mode) <=>
         \E j \in DOMAIN commands : \E place \in Places(commands[j], mode) :
            a = <<j, place>>
  BY DEF Asked
<1> QED  BY <1>1, <1>2

\* A text for an entry has a line as often as the pass has places for its mode,
\* and not at all if the entry repeats another; it is of the process and the
\* operation.
LEMMA TextOccurs ==
    ASSUME GenInv, NEW w \in Ids, Started(w), ChainsOK(w),
           NEW i \in DOMAIN cmd.ops, NEW l \in ItemLine
    PROVE  LET P == PositionsOf(cmd.passes[pass[w]], l.mode)
           IN  /\ IsFiniteSet(P) /\ Cardinality(P) \in Nat
               /\ Cardinality(Occurs(Lines(w, i), l))
                     <= IF Repeats(i) THEN 0 ELSE Cardinality(P)
<1> DEFINE modes == cmd.passes[pass[w]]
           P == PositionsOf(modes, l.mode)
           chains == items[w][i]
           blocks == Blocks(w, i)
           q == IF Repeats(i) THEN 0 ELSE Cardinality(P)
           H == {k \in DOMAIN chains : chains[k] = l.chain}
           j == IF H = {} THEN 0 ELSE CHOOSE k \in H : TRUE
<1>1. /\ Lines(w, i) = FlattenSeq(blocks) /\ blocks \in Seq(Seq(ItemLine))
      /\ Len(blocks) = Len(chains) /\ modes \in Seq(Modes)
      /\ chains \in Seq(Chains)
  BY BlocksType
<1>2. IsFiniteSet(P) /\ Cardinality(P) \in Nat  BY LinesCount
<1>3. DOMAIN chains = 1 .. Len(blocks) /\ Len(blocks) \in Nat
  BY <1>1, LenProperties
<1>4. ASSUME NEW k \in H PROVE k = j
  <2>1. j \in H  BY <1>4
  <2>2. \A h \in DOMAIN chains : chains[h] = chains[k] => h = k
    BY DEF ChainsOK
  <2> QED  BY <2>1, <2>2
<1>5. j \in Nat  BY <1>3
<1>6. ASSUME NEW k \in 1 .. Len(blocks)
      PROVE  /\ k # j => Occurs(blocks[k], l) = {}
             /\ k = j => Cardinality(Occurs(blocks[k], l)) <= q
  <2>1. k \in DOMAIN items[w][i]  BY <1>3
  <2>2. blocks[k] = [m \in DOMAIN modes |->
                        [chain |-> chains[k], mode |-> modes[m]]]
    BY <2>1 DEF Blocks, Block
  <2>3. ASSUME NEW m \in DOMAIN modes
        PROVE  blocks[k][m] = l <=> chains[k] = l.chain /\ modes[m] = l.mode
    <3>1. blocks[k][m] = [chain |-> chains[k], mode |-> modes[m]]  BY <2>2
    <3>2. l = [chain |-> l.chain, mode |-> l.mode]  BY DEF ItemLine
    <3> HIDE DEF blocks, chains, modes
    <3> QED  BY <3>1, <3>2
  <2>4. DOMAIN blocks[k] = DOMAIN modes  BY <2>2
  <2>5. Occurs(blocks[k], l) = IF k \in H THEN P ELSE {}
    <3> HIDE DEF blocks, modes
    <3> QED  BY <1>3, <2>3, <2>4 DEF Occurs, PositionsOf
  <2>6. k # j => Occurs(blocks[k], l) = {}  BY <1>4, <2>5
  <2>7. ~Repeats(i)
    <3> SUFFICES ASSUME Repeats(i) PROVE FALSE  OBVIOUS
    <3>1. chains = <<>>  BY DEF ChainsOK
    <3> QED  BY <2>1, <3>1
  <2>8. Cardinality(Occurs(blocks[k], l)) <= q
    <3>1. Cardinality({}) = 0  BY FS_EmptySet
    <3> HIDE DEF P, H, blocks
    <3> QED  BY <1>2, <2>5, <2>7, <3>1
  <2> QED  BY <2>6, <2>8
<1>7. q \in Nat  BY <1>2
<1>8. Cardinality(Occurs(FlattenSeq(blocks), l)) <= q
  <2> HIDE DEF blocks, P, q, j
  <2> QED  BY <1>1, <1>5, <1>6, <1>7, FlattenOccurs
<1> QED  BY <1>1, <1>2, <1>8

\* the lines of a process and an operation
LinesOf(w, op) == {x \in ItemLine : x.chain.seed = w /\ x.chain.op = op}

LEMMA TextOwn ==
    ASSUME GenInv, NEW w \in Ids, Started(w), ChainsOK(w),
           NEW i \in DOMAIN cmd.ops
    PROVE  Lines(w, i) \in Seq(LinesOf(w, cmd.ops[i]))
<1> DEFINE modes == cmd.passes[pass[w]]
           chains == items[w][i]
           blocks == Blocks(w, i)
           S == LinesOf(w, cmd.ops[i])
<1>1. /\ Lines(w, i) = FlattenSeq(blocks) /\ blocks \in Seq(Seq(ItemLine))
      /\ Len(blocks) = Len(chains) /\ modes \in Seq(Modes)
      /\ chains \in Seq(Chains)
  BY BlocksType
<1>2. /\ DOMAIN chains = 1 .. Len(blocks) /\ Len(blocks) \in Nat
      /\ DOMAIN modes = 1 .. Len(modes) /\ Len(modes) \in Nat
  BY <1>1, LenProperties
<1>3. ASSUME NEW k \in 1 .. Len(blocks) PROVE blocks[k] \in Seq(S)
  <2>1. k \in DOMAIN items[w][i]  BY <1>2
  <2>2. blocks[k] = [m \in DOMAIN modes |->
                        [chain |-> chains[k], mode |-> modes[m]]]
    BY <2>1 DEF Blocks, Block
  <2>3. chains[k].seed = w /\ chains[k].op = cmd.ops[i]
    BY <2>1 DEF ChainsOK
  <2>4. chains[k] \in Chains /\ \A m \in DOMAIN modes : modes[m] \in Modes
    BY <1>1, <1>2, <2>1
  <2> HIDE DEF chains, modes, blocks
  <2>5. ASSUME NEW m \in DOMAIN modes
        PROVE  [chain |-> chains[k], mode |-> modes[m]] \in S
    BY <2>3, <2>4 DEF LinesOf, ItemLine
  <2>6. blocks[k] \in [1 .. Len(modes) -> S]  BY <1>2, <2>2, <2>5
  <2> HIDE DEF S
  <2> QED  BY <1>2, <2>6, SeqDef
<1>4. blocks \in Seq(Seq(S))
  <2>1. DOMAIN blocks = 1 .. Len(blocks)  BY <1>1, LenProperties
  <2>2. blocks = [k \in 1 .. Len(blocks) |-> blocks[k]]
    BY <1>2 DEF Blocks
  <2> HIDE DEF blocks, S
  <2>3. blocks \in [1 .. Len(blocks) -> Seq(S)]  BY <1>3, <2>1, <2>2
  <2> QED  BY <1>2, <2>3, SeqDef
<1> QED
  <2> HIDE DEF blocks, S
  <2>1. FlattenSeq(blocks) \in Seq(S)  BY <1>4, FlattenType
  <2> QED  BY <1>1, <2>1 DEF S

\* t is a part of a text, but for lines that are malformed
PartOf(t, text) ==
    /\ t \in Seq(TextLine)
    /\ \A k \in DOMAIN t : t[k] # Malformed =>
          k \in DOMAIN text /\ text[k] = t[k]

\* A part of a text has a line no more often than the text.
LEMMA PartOccurs ==
    ASSUME NEW text \in Seq(ItemLine), NEW t, PartOf(t, text),
           NEW l \in ItemLine
    PROVE  Cardinality(Occurs(t, l)) <= Cardinality(Occurs(text, l))
<1>1. l # Malformed  BY MalformedAssumption
<1>2. Occurs(t, l) \subseteq Occurs(text, l)
  BY <1>1 DEF Occurs, PartOf
<1>3. IsFiniteSet(Occurs(text, l))  BY OccursFinite
<1> QED  BY <1>2, <1>3, FS_Subset

\* What a process has in a file after it wrote, or died while it wrote, is a
\* part of its text.
LEMMA WritesPart ==
    ASSUME GenInv, NEW w \in Ids, pc[w] = "write",
           Write(w) \/ (Crash(w) /\ ~UNCHANGED file)
    PROVE  LET text == Lines(w, next[w])
           IN  /\ text \in Seq(ItemLine)
               /\ \E t, open : /\ PartOf(t, text)
                               /\ file' = Appended(File(w), t, open)
<1> DEFINE text == Lines(w, next[w])
           f == File(w)
<1>1. Started(w) /\ next[w] \in DOMAIN cmd.ops  BY DEF GenInv, Started
<1>2. text \in Seq(ItemLine)  BY <1>1, LinesType
<1>3. /\ text \in Seq(TextLine) /\ Len(text) \in Nat
      /\ DOMAIN text = 1 .. Len(text)
  <2> HIDE DEF text
  <2> QED  BY <1>2, WholeText, LenProperties
<1>4. PartOf(text, text)
  <2> HIDE DEF text
  <2> QED  BY <1>3 DEF PartOf
<1>5. PartOf(<<>>, text)  BY DEF PartOf
<1>6. ASSUME NEW k \in 0 .. Len(text)
      PROVE  LET t == SubSeq(text, 1, k)
             IN  PartOf(t, text) /\ Len(t) = k
  <2> DEFINE t == SubSeq(text, 1, k)
  <2> HIDE DEF text
  <2>1. \A i \in 1 .. k : text[i] \in TextLine  BY <1>3
  <2>2. /\ t \in Seq(TextLine) /\ Len(t) = IF 1 <= k THEN k - 1 + 1 ELSE 0
        /\ \A i \in 1 .. k - 1 + 1 : t[i] = text[1 + i - 1]
    <3>1. 1 \in Int /\ k \in Int  BY <1>3
    <3> QED  BY <2>1, <3>1, SubSeqProperties
  <2> HIDE DEF t
  <2>3. /\ Len(t) = k /\ DOMAIN t = 1 .. k
        /\ \A i \in 1 .. k : t[i] = text[i]
    <3>1. Len(t) = k  BY <1>3, <2>2
    <3>2. DOMAIN t = 1 .. k  BY <2>2, <3>1, LenProperties
    <3>3. ASSUME NEW i \in 1 .. k PROVE t[i] = text[i]
      <4>1. i \in 1 .. k - 1 + 1 /\ 1 + i - 1 = i  BY <1>3
      <4> QED  BY <2>2, <4>1
    <3> QED  BY <3>1, <3>2, <3>3
  <2>4. PartOf(t, text)  BY <1>3, <2>2, <2>3 DEF PartOf
  <2> QED  BY <2>3, <2>4 DEF t
<1>7. ASSUME NEW k \in DOMAIN text
      PROVE  PartOf(Append(SubSeq(text, 1, k - 1), Malformed), text)
  <2> DEFINE s == SubSeq(text, 1, k - 1)
             t == Append(s, Malformed)
  <2>1. k - 1 \in 0 .. Len(text) /\ k \in Nat  BY <1>3
  <2>2. PartOf(s, text) /\ Len(s) = k - 1  BY <1>6, <2>1
  <2> HIDE DEF s, text
  <2>3. s \in Seq(TextLine) /\ Malformed \in TextLine
    BY <2>2 DEF PartOf, TextLine
  <2>4. /\ t \in Seq(TextLine) /\ Len(t) = k /\ t[k] = Malformed
        /\ \A i \in 1 .. k - 1 : t[i] = s[i]
    <3>1. /\ t \in Seq(TextLine) /\ Len(t) = Len(s) + 1
          /\ \A i \in 1 .. Len(s) : t[i] = s[i]
          /\ t[Len(s) + 1] = Malformed
      BY <2>3, AppendProperties
    <3>2. Len(s) + 1 = k  BY <2>1, <2>2
    <3> HIDE DEF t
    <3> QED  BY <2>2, <3>1, <3>2
  <2>5. DOMAIN t = 1 .. k  BY <2>4, LenProperties
  <2>6. DOMAIN s = 1 .. k - 1  BY <2>2, <2>3, LenProperties
  <2> HIDE DEF t
  <2>7. ASSUME NEW i \in DOMAIN t, t[i] # Malformed
        PROVE  i \in DOMAIN text /\ text[i] = t[i]
    <3>1. i \in 1 .. k - 1  BY <2>1, <2>4, <2>5, <2>7
    <3> QED  BY <2>2, <2>4, <2>6, <2>7, <3>1 DEF PartOf
  <2> QED  BY <2>4, <2>7 DEF PartOf, t, s
<1>8. \E t, open : PartOf(t, text) /\ file' = Appended(f, t, open)
  <2>1. CASE Write(w)
    <3>1. file' = Appended(f, text, FALSE)  BY <2>1 DEF Write
    <3> HIDE DEF f, text
    <3> QED  BY <1>4, <3>1
  <2>2. CASE Crash(w) /\ ~UNCHANGED file
    <3>1. \/ file' = Appended(f, <<>>, Existing(f).open)
          \/ \E k \in DOMAIN text :
                \/ file' = Appended(f, SubSeq(text, 1, k), TRUE)
                \/ k < Len(text)
                   /\ file' = Appended(f, SubSeq(text, 1, k), FALSE)
                \/ file' = Appended(f, Append(SubSeq(text, 1, k - 1),
                                             Malformed), TRUE)
      BY <2>2, Zenon DEF Crash
    <3> HIDE DEF f, text
    <3>2. \A k \in DOMAIN text : k \in 0 .. Len(text)  BY <1>3
    <3>3. CASE file' = Appended(f, <<>>, Existing(f).open)
      BY <1>5, <3>3
    <3>4. ASSUME NEW k \in DOMAIN text,
                 \/ file' = Appended(f, SubSeq(text, 1, k), TRUE)
                 \/ file' = Appended(f, SubSeq(text, 1, k), FALSE)
          PROVE  \E t, open : PartOf(t, text) /\ file' = Appended(f, t, open)
      <4>1. PartOf(SubSeq(text, 1, k), text)  BY <1>6, <3>2
      <4> QED  BY <3>4, <4>1
    <3>5. ASSUME NEW k \in DOMAIN text,
                 file' = Appended(f, Append(SubSeq(text, 1, k - 1),
                                            Malformed), TRUE)
          PROVE  \E t, open : PartOf(t, text) /\ file' = Appended(f, t, open)
      <4>1. PartOf(Append(SubSeq(text, 1, k - 1), Malformed), text)  BY <1>7
      <4> QED  BY <3>5, <4>1
    <3> QED  BY <3>1, <3>3, <3>4, <3>5
  <2> QED  BY <2>1, <2>2
<1> QED  BY <1>2, <1>8

\* A write, whole or broken, adds to one file, and to that file nothing but
\* lines of its own, each at most once for every place of the pass.
LEMMA FileGrows ==
    ASSUME GenInv, OccurInv, NEW w \in Ids, pc[w] = "write",
           Write(w) \/ (Crash(w) /\ ~UNCHANGED file)
    PROVE  /\ OwnLines'
           /\ \A f \in FileNames, l \in ItemLine :
                 Cardinality(Occurs(Existing(f).lines, l)')
                    <= Cardinality(Occurs(Existing(f).lines, l))
                       + IF f = File(w) /\ ~Repeats(next[w])
                         THEN Cardinality(PositionsOf(cmd.passes[pass[w]],
                                                      l.mode))
                         ELSE 0
<1> DEFINE text == Lines(w, next[w])
           op == cmd.ops[next[w]]
<1>0. PICK g : g = File(w)  OBVIOUS
<1>1. /\ Started(w) /\ commands # <<>> /\ next[w] \in DOMAIN cmd.ops
      /\ ChainsOK(w) /\ FilesTyped /\ OwnLines
  BY DEF GenInv, Started, OccurInv
<1>2. PICK t, open : /\ PartOf(t, text)
                     /\ file' = Appended(g, t, open)
  BY <1>0, WritesPart
<1>3. text \in Seq(ItemLine) /\ t \in Seq(TextLine)
  BY <1>1, <1>2, LinesType DEF PartOf
<1>4. text \in Seq(LinesOf(w, op))  BY <1>1, TextOwn
<1>5. g \in FileNames /\ g[2] = op /\ g[3] = w
  <2>1. cmd.layout \in {"flat", "nested"} /\ op \in Nat
    BY <1>1, CommandFacts, DataGenAssumption
  <2> QED  BY <1>0, <2>1 DEF File, FileNames
<1>6. /\ \A l \in ItemLine :
            Cardinality(Occurs(text, l))
               <= IF Repeats(next[w]) THEN 0
                  ELSE Cardinality(PositionsOf(cmd.passes[pass[w]], l.mode))
      /\ \A l \in ItemLine :
            Cardinality(PositionsOf(cmd.passes[pass[w]], l.mode)) \in Nat
  BY <1>1, TextOccurs
<1> HIDE DEF text, op
<1>7. PICK n \in Nat :
         /\ DOMAIN file' = DOMAIN file \cup {g}
         /\ \A f \in DOMAIN file : f # g => file'[f] = file[f]
         /\ \A k \in DOMAIN file'[g].lines :
               \/ file'[g].lines[k] = Malformed
               \/ /\ k \in DOMAIN Existing(g).lines
                  /\ Existing(g).lines[k] = file'[g].lines[k]
               \/ /\ k - n \in DOMAIN t
                  /\ t[k - n] = file'[g].lines[k]
  BY <1>1, <1>2, <1>3, AppendedLines
<1>8. OwnLines'
  <2> SUFFICES ASSUME NEW f \in DOMAIN file'
               PROVE  /\ f \in FileNames
                      /\ \A i \in DOMAIN file'[f].lines :
                            OwnLine(f, file'[f].lines[i])
    BY DEF OwnLines
  <2>1. CASE f # g
    <3>1. f \in DOMAIN file /\ file'[f] = file[f]  BY <1>7, <2>1
    <3> QED  BY <1>1, <3>1 DEF OwnLines
  <2>2. CASE f = g
    <3> SUFFICES ASSUME NEW i \in DOMAIN file'[g].lines,
                        file'[g].lines[i] # Malformed
                 PROVE  OwnLine(g, file'[g].lines[i])
      BY <1>5, <2>2 DEF OwnLine
    <3>1. CASE /\ i \in DOMAIN Existing(g).lines
               /\ Existing(g).lines[i] = file'[g].lines[i]
      <4>1. g \in DOMAIN file
        <5> SUFFICES ASSUME g \notin DOMAIN file PROVE FALSE  OBVIOUS
        <5>1. Existing(g).lines = <<>>  BY DEF Existing
        <5> QED  BY <3>1, <5>1
      <4>2. Existing(g) = file[g]  BY <4>1 DEF Existing
      <4> QED  BY <1>1, <3>1, <4>1, <4>2 DEF OwnLines
    <3>2. CASE i - n \in DOMAIN t /\ t[i - n] = file'[g].lines[i]
      <4>1. i - n \in DOMAIN text /\ text[i - n] = file'[g].lines[i]
        BY <1>2, <3>2 DEF PartOf
      <4>2. file'[g].lines[i] \in LinesOf(w, op)  BY <1>4, <4>1
      <4> QED  BY <1>5, <4>2 DEF LinesOf, OwnLine
    <3> QED  BY <1>7, <3>1, <3>2
  <2> QED  BY <2>1, <2>2
<1>9. ASSUME NEW f \in FileNames, NEW l \in ItemLine, f # g
      PROVE  Occurs(Existing(f).lines, l)' = Occurs(Existing(f).lines, l)
  <2>1. Existing(f)' = Existing(f)  BY <1>7, <1>9 DEF Existing
  <2> QED  BY <2>1 DEF Occurs
<1>10. ASSUME NEW f, NEW l
       PROVE  Cardinality(Occurs(Existing(f).lines, l)) \in Nat
  <2>1. Existing(f).lines \in Seq(TextLine)  BY <1>1, ExistingType
  <2> QED  BY <2>1, OccursFinite
<1>11. ASSUME NEW l \in ItemLine
       PROVE  Cardinality(Occurs(Existing(g).lines, l)')
                 <= Cardinality(Occurs(Existing(g).lines, l))
                       + Cardinality(Occurs(text, l))
  <2>1. Existing(g)' = file'[g]
    <3>1. g \in DOMAIN file'  BY <1>7
    <3> QED  BY <3>1 DEF Existing
  <2>2. Occurs(Existing(g).lines, l)' = Occurs(file'[g].lines, l)
    BY <2>1 DEF Occurs
  <2>3. Cardinality(Occurs(file'[g].lines, l))
           <= Cardinality(Occurs(Existing(g).lines, l))
                 + Cardinality(Occurs(t, l))
    BY <1>1, <1>2, <1>3, AppendOccurs
  <2>4. Cardinality(Occurs(t, l)) <= Cardinality(Occurs(text, l))
    BY <1>2, <1>3, PartOccurs
  <2>5. /\ Cardinality(Occurs(t, l)) \in Nat
        /\ Cardinality(Occurs(text, l)) \in Nat
        /\ Cardinality(Occurs(file'[g].lines, l)) \in Nat
    <3>1. file'[g].lines \in Seq(TextLine)
      BY <1>1, <1>2, <1>3, AppendedLines
    <3> QED  BY <1>3, <3>1, OccursFinite
  <2> QED  BY <1>10, <2>2, <2>3, <2>4, <2>5
<1>12. ASSUME NEW f \in FileNames, NEW l \in ItemLine
       PROVE  Cardinality(Occurs(Existing(f).lines, l)')
                    <= Cardinality(Occurs(Existing(f).lines, l))
                       + IF f = File(w) /\ ~Repeats(next[w])
                         THEN Cardinality(PositionsOf(cmd.passes[pass[w]],
                                                      l.mode))
                         ELSE 0
  <2>1. CASE f # g
    <3>1. f # File(w)  BY <1>0, <2>1
    <3>2. Cardinality(Occurs(Existing(f).lines, l)') \in Nat
      BY <1>9, <1>10, <2>1
    <3> QED  BY <1>9, <1>10, <2>1, <3>1, <3>2
  <2>2. CASE f = g
    <3>1. f = File(w)  BY <1>0, <2>2
    <3>2. /\ Cardinality(Occurs(text, l)) \in Nat
          /\ Cardinality(Occurs(Existing(g).lines, l)') \in Nat
      <4>1. Existing(g)' = file'[g]
        <5>1. g \in DOMAIN file'  BY <1>7
        <5> QED  BY <5>1 DEF Existing
      <4>2. Occurs(Existing(g).lines, l)' = Occurs(file'[g].lines, l)
        BY <4>1 DEF Occurs
      <4>3. file'[g].lines \in Seq(TextLine)
        BY <1>1, <1>2, <1>3, AppendedLines
      <4> QED  BY <1>3, <4>2, <4>3, OccursFinite
    <3>3. /\ Cardinality(Occurs(Existing(g).lines, l)')
                <= Cardinality(Occurs(Existing(g).lines, l))
                      + Cardinality(Occurs(text, l))
          /\ Cardinality(Occurs(Existing(g).lines, l)) \in Nat
          /\ Cardinality(Occurs(text, l))
                <= IF Repeats(next[w]) THEN 0
                   ELSE Cardinality(PositionsOf(cmd.passes[pass[w]], l.mode))
          /\ Cardinality(PositionsOf(cmd.passes[pass[w]], l.mode)) \in Nat
      BY <1>6, <1>10, <1>11
    <3>4. CASE Repeats(next[w])  BY <2>2, <3>2, <3>3, <3>4
    <3>5. CASE ~Repeats(next[w])  BY <2>2, <3>1, <3>2, <3>3, <3>5
    <3> QED  BY <3>4, <3>5
  <2> QED  BY <2>1, <2>2
<1> QED  BY <1>8, <1>12

\* The places of a mode in one pass of one command.
PassAsked(n, p, P) == {n} \X ({p} \X P)

LEMMA PassAskedCount ==
    ASSUME NEW n, NEW p, NEW P, IsFiniteSet(P)
    PROVE  /\ IsFiniteSet(PassAsked(n, p, P))
           /\ Cardinality(PassAsked(n, p, P)) = Cardinality(P)
<1>1. /\ IsFiniteSet({n}) /\ Cardinality({n}) = 1
      /\ IsFiniteSet({p}) /\ Cardinality({p}) = 1
      /\ Cardinality(P) \in Nat
  BY FS_Singleton, FS_CardinalityType
<1>2. IsFiniteSet({p} \X P) /\ Cardinality({p} \X P) = 1 * Cardinality(P)
  BY <1>1, FS_Product
<1>3. /\ IsFiniteSet({n} \X ({p} \X P))
      /\ Cardinality({n} \X ({p} \X P)) = 1 * Cardinality({p} \X P)
  BY <1>1, <1>2, FS_Product
<1> QED  BY <1>1, <1>2, <1>3 DEF PassAsked

\* A write, whole or broken, takes nothing back, and the places of the pass
\* have then given to its file.
LEMMA GivenGrows ==
    ASSUME GenInv, OccurInv, NEW w \in Ids, pc[w] \in {"generate", "write"},
           (pc[w] = "write" /\ Write(w)) \/ Crash(w),
           NEW f \in FileNames, NEW mode
    PROVE  LET P == PositionsOf(cmd.passes[pass[w]], mode)
           IN  /\ Given(f, mode) \subseteq Given(f, mode)'
               /\ pc[w] = "write" /\ f = File(w)
                     => PassAsked(Len(commands), pass[w], P)
                           \subseteq Given(f, mode)'
<1> DEFINE n == Len(commands)
           P == PositionsOf(cmd.passes[pass[w]], mode)
<1>1. /\ Started(w) /\ commands # <<>> /\ commands' = commands
      /\ cmd' = cmd /\ next[w] \in DOMAIN cmd.ops
      /\ pass[w] \in DOMAIN cmd.passes
      /\ pc \in [Ids -> {"absent", "generate", "write", "done", "dead"}]
  BY DEF GenInv, Started, Write, AfterWrite, Crash, cmd, Last
<1>2. /\ n \in DOMAIN commands /\ cmd = commands[n] /\ n \in Nat
      /\ DOMAIN commands = 1 .. n
  BY <1>1, CommandsAre
<1>3. f[3] \in Ids  BY DEF FileNames
<1>4. Asked(mode)' = Asked(mode)  BY <1>1 DEF Asked
<1>5. ASSUME NEW v \in Ids, v # w
      PROVE  pc'[v] = pc[v] /\ \A p, op : Written(v, p, op)' <=> Written(v, p, op)
  <2>1. /\ pc'[v] = pc[v] /\ pass'[v] = pass[v] /\ next'[v] = next[v]
    BY <1>1, <1>5 DEF Write, AfterWrite, Seeded, Crash, GenInv
  <2> QED  BY <1>1, <2>1 DEF Written
<1>6. CASE Crash(w)
  <2>1. pc'[w] = "dead"  BY <1>1, <1>6 DEF Crash
  <2>2. \A a : a[1] < n => a[1] < Len(commands')  BY <1>1
  <2>3. Given(f, mode) \subseteq Given(f, mode)'
    <3> SUFFICES ASSUME NEW a \in Given(f, mode) PROVE a \in Given(f, mode)'
      OBVIOUS
    <3>1. CASE f[3] = w
      BY <1>1, <1>4, <2>1, <3>1 DEF Given, Serves
    <3>2. CASE f[3] # w
      BY <1>1, <1>3, <1>4, <1>5, <3>2 DEF Given, Serves
    <3> QED  BY <3>1, <3>2
  <2>4. ASSUME pc[w] = "write", f = File(w), NEW a \in PassAsked(n, pass[w], P)
        PROVE  a \in Given(f, mode)'
    <3>1. PICK m \in P : a = <<n, <<pass[w], m>>>>  BY DEF PassAsked
    <3>2. a \in Asked(mode)  BY <1>1, <1>2, <3>1, AskedIs
    <3>3. f[1] = cmd.layout /\ f[2] = cmd.ops[next[w]] /\ f[3] = w
      BY <2>4 DEF File
    <3>4. Serves(cmd, f)
      <4>1. w < cmd.procs  BY <2>4 DEF OccurInv
      <4>2. f[2] \in Range(cmd.ops)  BY <1>1, <3>3 DEF Range
      <4> QED  BY <3>3, <4>1, <4>2 DEF Serves
    <3>5. commands[a[1]] = cmd  BY <1>2, <3>1
    <3> QED  BY <1>1, <1>4, <2>1, <3>2, <3>3, <3>4, <3>5 DEF Given, Serves
  <2> QED  BY <2>3, <2>4
<1>7. CASE pc[w] = "write" /\ Write(w)
  <2>1. AfterWrite(w)  BY <1>7 DEF Write
  <2>2. Given(f, mode) \subseteq Given(f, mode)'
    <3> SUFFICES ASSUME NEW a \in Given(f, mode) PROVE a \in Given(f, mode)'
      OBVIOUS
    <3>1. a \in Asked(mode) /\ Serves(commands[a[1]], f)  BY DEF Given
    <3>2. CASE f[3] # w
      BY <1>1, <1>3, <1>4, <1>5, <3>2 DEF Given, Serves
    <3>3. CASE a[1] < n
      BY <1>1, <1>4, <3>1, <3>3 DEF Given, Serves
    <3>4. CASE ~(a[1] < n) /\ f[3] = w
      <4>0. PICK j \in DOMAIN commands : \E p \in DOMAIN commands[j].passes :
               \E m \in PositionsOf(commands[j].passes[p], mode) :
                  a = <<j, <<p, m>>>>
        BY <3>1, AskedIs
      <4>1. PICK p \in DOMAIN commands[j].passes :
               \E m \in PositionsOf(commands[j].passes[p], mode) :
                  a = <<j, <<p, m>>>>
        BY <4>0
      <4>2. a[1] = j /\ a[2][1] = p  BY <4>1
      <4>3. j = n  BY <1>2, <3>4, <4>2
      <4>4. f[2] \in Range(cmd.ops) /\ p \in DOMAIN cmd.passes
        BY <1>2, <3>1, <4>1, <4>2, <4>3 DEF Serves
      <4>5. Written(w, p, f[2])  BY <1>7, <3>4, <4>2 DEF Given
      <4>6. Written(w, p, f[2])'  BY <1>7, <2>1, <4>4, <4>5, WriteWrites
      <4> QED  BY <1>1, <1>4, <3>1, <3>4, <4>2, <4>6 DEF Given, Serves
    <3> QED  BY <3>2, <3>3, <3>4
  <2>3. ASSUME f = File(w), NEW a \in PassAsked(n, pass[w], P)
        PROVE  a \in Given(f, mode)'
    <3>1. PICK m \in P : a = <<n, <<pass[w], m>>>>  BY DEF PassAsked
    <3>2. a \in Asked(mode)  BY <1>1, <1>2, <3>1, AskedIs
    <3>3. f[1] = cmd.layout /\ f[2] = cmd.ops[next[w]] /\ f[3] = w
      BY <2>3 DEF File
    <3>4. Serves(cmd, f)
      <4>1. w < cmd.procs  BY <1>7 DEF OccurInv
      <4>2. f[2] \in Range(cmd.ops)  BY <1>1, <3>3 DEF Range
      <4> QED  BY <3>3, <4>1, <4>2 DEF Serves
    <3>5. commands[a[1]] = cmd /\ a[2][1] = pass[w]  BY <1>2, <3>1
    <3>6. Written(w, a[2][1], f[2])'
      <4>1. a[2][1] \in DOMAIN cmd.passes /\ f[2] \in Range(cmd.ops)
        BY <1>1, <3>4, <3>5 DEF Serves
      <4> QED  BY <1>7, <2>1, <3>3, <3>5, <4>1, WriteWrites
    <3> QED  BY <1>1, <1>4, <3>2, <3>3, <3>4, <3>5, <3>6 DEF Given, Serves
  <2> QED  BY <2>2, <2>3
<1> QED  BY <1>6, <1>7

\* Before the first command there are no files.
LEMMA OccurInitInv == GenInit => OccurInv
<1> SUFFICES ASSUME GenInit PROVE OccurInv  OBVIOUS
<1>1. /\ commands = <<>> /\ file = <<>> /\ pc = [w \in Ids |-> "absent"]
  BY DEF GenInit
<1>2. DOMAIN file = {}  BY <1>1
<1>3. GenInv  BY GenInitInv
<1>4. ASSUME NEW f, NEW l
      PROVE  Cardinality(Occurs(Existing(f).lines, l))
                <= Cardinality(Given(f, l.mode))
  <2>1. Existing(f).lines = <<>>  BY <1>2 DEF Existing
  <2>2. Cardinality(Given(f, l.mode)) \in Nat  BY <1>3, GivenFinite
  <2> QED  BY <2>1, <2>2, OccursNone
<1> QED  BY <1>1, <1>2, <1>4 DEF OccurInv, OwnLines, OccursAtMost

\* While nothing is written and nothing is taken back, no line occurs too often.
LEMMA OccurSame ==
    ASSUME GenInv, GenInv', OccursAtMost, file' = file,
           \A f \in FileNames : \A mode :
              Given(f, mode) \subseteq Given(f, mode)'
    PROVE  OccursAtMost'
<1> SUFFICES ASSUME NEW f \in FileNames, NEW l \in ItemLine
             PROVE  Cardinality(Occurs(Existing(f).lines, l)')
                       <= Cardinality(Given(f, l.mode)')
  BY DEF OccursAtMost
<1>1. Occurs(Existing(f).lines, l)' = Occurs(Existing(f).lines, l)
  BY DEF Existing, Occurs
<1>2. /\ IsFiniteSet(Given(f, l.mode)')
      /\ Cardinality(Given(f, l.mode)') \in Nat
  BY GivenFiniteNext
<1>3. Cardinality(Given(f, l.mode)) <= Cardinality(Given(f, l.mode)')
  BY <1>2, FS_Subset
<1>4. Cardinality(Given(f, l.mode)) \in Nat  BY GivenFinite
<1>5. Cardinality(Occurs(Existing(f).lines, l)) \in Nat
  <2>1. Existing(f).lines \in Seq(TextLine)
    BY ExistingType DEF GenInv
  <2> QED  BY <2>1, OccursFinite
<1>6. Cardinality(Occurs(Existing(f).lines, l))
         <= Cardinality(Given(f, l.mode))
  BY DEF OccursAtMost
<1> QED  BY <1>1, <1>2, <1>3, <1>4, <1>5, <1>6

\* Once it is followed by another, a command gives nothing any more.
LEMMA LaunchOccur ==
    ASSUME GenInv, OccurInv, NEW c \in Commands, Launch(c)
    PROVE  OccurInv'
<1> DEFINE n == Len(commands)
<1>1. /\ commands' = Append(commands, c) /\ file' = file
      /\ pc' = [w \in Ids |-> IF w < c.procs THEN "generate" ELSE "absent"]
      /\ items' = [w \in Ids |-> [i \in DOMAIN c.ops |-> <<>>]]
  BY DEF Launch
<1>2. GenInv'  BY LaunchStep
<1>3. /\ n \in Nat /\ DOMAIN commands = 1 .. n /\ Len(commands') = n + 1
      /\ DOMAIN commands' = 1 .. n + 1
      /\ \A j \in 1 .. n : commands'[j] = commands[j]
      /\ cmd' = c /\ commands' # <<>>
  <2>1. n \in Nat /\ DOMAIN commands = 1 .. n  BY CommandsAre
  <2>2. commands \in Seq(Commands)  BY DEF GenInv
  <2>3. /\ commands' \in Seq(Commands) /\ Len(commands') = n + 1
        /\ commands'[n + 1] = c
        /\ \A j \in 1 .. n : commands'[j] = commands[j]
    BY <1>1, <2>2, AppendProperties
  <2>4. DOMAIN commands' = 1 .. n + 1  BY <2>3, LenProperties
  <2>5. cmd' = c  BY <2>3 DEF cmd, Last
  <2>6. commands' # <<>>  BY <2>1, <2>3, EmptySeq
  <2> QED  BY <2>1, <2>3, <2>4, <2>5, <2>6
<1>4. ASSUME NEW f \in FileNames, NEW mode
      PROVE  Given(f, mode) \subseteq Given(f, mode)'
  <2> SUFFICES ASSUME NEW a \in Given(f, mode) PROVE a \in Given(f, mode)'
    OBVIOUS
  <2>1. a \in Asked(mode) /\ Serves(commands[a[1]], f)  BY DEF Given
  <2>2. PICK j \in DOMAIN commands : \E p \in DOMAIN commands[j].passes :
           \E m \in PositionsOf(commands[j].passes[p], mode) :
              a = <<j, <<p, m>>>>
    BY <2>1, AskedIs
  <2>3. a[1] = j /\ j \in DOMAIN commands' /\ commands'[j] = commands[j]
    BY <1>3, <2>2
  <2>4. a \in Asked(mode)'
    <3>1. PICK i \in DOMAIN commands : a \in {i} \X Places(commands[i], mode)
      BY <2>1 DEF Asked
    <3>2. i \in DOMAIN commands' /\ commands'[i] = commands[i]
      BY <1>3
    <3>3. a \in {i} \X Places(commands'[i], mode)  BY <3>1, <3>2
    <3> QED  BY <3>2, <3>3 DEF Asked
  <2>5. a[1] < Len(commands')  BY <1>3, <2>2, <2>3
  <2> QED  BY <2>1, <2>3, <2>4, <2>5 DEF Given, Serves
<1>5. OccursAtMost'  BY <1>1, <1>2, <1>4, OccurSame DEF OccurInv
<1>6. OwnLines'  BY <1>1 DEF OccurInv, OwnLines, OwnLine
<1>7. ASSUME NEW w \in Ids
      PROVE  /\ pc'[w] # "absent" => w < cmd'.procs
             /\ ChainsOK(w)'
  <2>1. items'[w] = [i \in DOMAIN c.ops |-> <<>>]  BY <1>1
  <2>2. \A i \in DOMAIN c.ops : items'[w][i] = <<>>  BY <2>1
  <2>3. ChainsOK(w)'  BY <1>3, <2>2 DEF ChainsOK
  <2> QED  BY <1>1, <1>3, <2>3
<1> QED  BY <1>3, <1>5, <1>6, <1>7 DEF OccurInv

\* The chain that is drawn is later than those before.
LEMMA DrawChains ==
    ASSUME GenInv, NEW w \in Ids, Draw(w), ChainsOK(w)
    PROVE  ChainsOK(w)'
<1> DEFINE op == cmd.ops[Fewest(w)]
           c == Chain(w, op)
           p == Place(op)
           old == items[w]
           D == DOMAIN cmd.ops
<1>1. /\ Started(w) /\ DOMAIN items = Ids /\ cmd' = cmd /\ commands # <<>>
      /\ rng \in [Ids -> Seq(Nat \X Nat)]
      /\ \A i : Repeats(i)' <=> Repeats(i)
  <2>1. pc[w] = "generate" /\ commands' = commands  BY DEF Draw
  <2>2. Started(w) /\ commands # <<>>  BY <2>1 DEF GenInv, Started
  <2>3. cmd' = cmd  BY <2>1 DEF cmd, Last
  <2> QED  BY <2>2, <2>3 DEF GenInv, Repeats
<1>2. \/ UNCHANGED items
      \/ items' = [items EXCEPT ![w][p] = Append(@, c)]
  BY DEF Draw
<1>3. Len(rng'[w]) = Len(rng[w]) + 1 /\ Len(rng[w]) \in Nat
  <2>1. \E x : rng' = [rng EXCEPT ![w] = Append(@, <<op, x>>)]
    BY DEF Draw
  <2>2. PICK x : rng' = [rng EXCEPT ![w] = Append(@, <<op, x>>)]  BY <2>1
  <2>3. rng'[w] = Append(rng[w], <<op, x>>)  BY <1>1, <2>2
  <2>4. ASSUME NEW s \in Seq(Nat \X Nat), NEW y
        PROVE  Len(Append(s, y)) = Len(s) + 1 /\ Len(s) \in Nat
    OBVIOUS
  <2> HIDE DEF op
  <2> QED  BY <1>1, <2>3, <2>4
<1>4. old \in [D -> Seq(Chains)]  BY <1>1 DEF Started
<1>5. CASE UNCHANGED items
  <2>1. \A i \in D : \A k \in DOMAIN old[i] : Len(old[i][k].past) \in Nat
    <3> SUFFICES ASSUME NEW i \in D, NEW k \in DOMAIN old[i]
                 PROVE  Len(old[i][k].past) \in Nat
      OBVIOUS
    <3>1. old[i][k] \in Chains  BY <1>4
    <3>2. old[i][k].past \in Seq(Nat \X Nat)  BY <3>1 DEF Chains
    <3> QED  BY <3>2, LenProperties
  <2> HIDE DEF D, old
  <2>2. \A i \in D : \A k \in DOMAIN old[i] :
           Len(old[i][k].past) < Len(rng'[w])
    BY <1>3, <2>1 DEF ChainsOK, D, old
  <2> QED  BY <1>1, <1>5, <2>2 DEF ChainsOK, D, old
<1>6. CASE items' = [items EXCEPT ![w][p] = Append(@, c)]
  <2>1. Fewest(w) \in D  BY <1>1, FewestIsEntry
  <2>2. p \in D /\ cmd.ops[p] = op /\ ~Repeats(p)
    BY <1>1, <2>1, PlaceIsFirst
  <2>3. op \in Nat  BY <1>1, <2>1, CommandFacts
  <2>4. c \in Chains /\ c.seed = w /\ c.op = op /\ c.past = rng[w]
    <3>1. c = [seed |-> w, past |-> rng[w], op |-> op]  BY DEF Chain
    <3> QED  BY <1>1, <2>3, <3>1 DEF Chains
  <2> HIDE DEF c, op, p, D, old
  <2>5. items'[w] = [old EXCEPT ![p] = Append(old[p], c)]
    BY <1>1, <1>6 DEF old
  <2>6. /\ items'[w][p] = Append(old[p], c)
        /\ \A i \in D : i # p => items'[w][i] = old[i]
    BY <1>4, <2>2, <2>5
  <2>7. ASSUME NEW i \in D, NEW k \in DOMAIN old[i]
        PROVE  /\ old[i][k].seed = w /\ old[i][k].op = cmd.ops[i]
               /\ Len(old[i][k].past) < Len(rng[w])
               /\ Len(old[i][k].past) \in Nat
               /\ \A h \in DOMAIN old[i] : old[i][h] = old[i][k] => h = k
    <3>1. /\ old[i][k].seed = w /\ old[i][k].op = cmd.ops[i]
          /\ Len(old[i][k].past) < Len(rng[w])
          /\ \A h \in DOMAIN old[i] : old[i][h] = old[i][k] => h = k
      BY DEF ChainsOK, D, old
    <3>2. old[i][k] \in Chains  BY <1>4
    <3>3. old[i][k].past \in Seq(Nat \X Nat)  BY <3>2 DEF Chains
    <3>4. Len(old[i][k].past) \in Nat  BY <3>3, LenProperties
    <3> QED  BY <3>1, <3>4
  <2>8. /\ DOMAIN items'[w][p] = DOMAIN old[p] \cup {Len(old[p]) + 1}
        /\ items'[w][p][Len(old[p]) + 1] = c
        /\ \A k \in DOMAIN old[p] : items'[w][p][k] = old[p][k]
        /\ Len(old[p]) + 1 \notin DOMAIN old[p]
    <3>1. old[p] \in Seq(Chains)  BY <1>4, <2>2
    <3>2. ASSUME NEW s \in Seq(Chains)
          PROVE  /\ DOMAIN Append(s, c) = DOMAIN s \cup {Len(s) + 1}
                 /\ Append(s, c)[Len(s) + 1] = c
                 /\ \A k \in DOMAIN s : Append(s, c)[k] = s[k]
                 /\ Len(s) + 1 \notin DOMAIN s
      <4>1. /\ Append(s, c) \in Seq(Chains)
            /\ Len(Append(s, c)) = Len(s) + 1
            /\ \A i \in 1 .. Len(s) : Append(s, c)[i] = s[i]
            /\ Append(s, c)[Len(s) + 1] = c
        BY <2>4, AppendProperties
      <4>2. DOMAIN Append(s, c) = 1 .. Len(s) + 1  BY <4>1, LenProperties
      <4>3. DOMAIN s = 1 .. Len(s) /\ Len(s) \in Nat  BY LenProperties
      <4>4. 1 .. Len(s) + 1 = (1 .. Len(s)) \cup {Len(s) + 1}  BY <4>3
      <4>5. Len(s) + 1 \notin 1 .. Len(s)  BY <4>3
      <4> QED  BY <4>1, <4>2, <4>3, <4>4, <4>5
    <3> QED  BY <2>6, <3>1, <3>2
  <2>9. ASSUME NEW i \in D, NEW k \in DOMAIN items'[w][i]
        PROVE  /\ items'[w][i][k].seed = w
               /\ items'[w][i][k].op = cmd.ops[i]
               /\ Len(items'[w][i][k].past) < Len(rng'[w])
               /\ \A h \in DOMAIN items'[w][i] :
                     items'[w][i][h] = items'[w][i][k] => h = k
    <3>1. CASE i # p
      <4>1. items'[w][i] = old[i]  BY <2>6, <3>1
      <4>2. k \in DOMAIN old[i]  BY <4>1
      <4>3. Len(old[i][k].past) < Len(rng'[w])  BY <1>3, <2>7, <4>2
      <4> QED  BY <2>7, <4>1, <4>2, <4>3
    <3>2. CASE i = p
      <4>1. ASSUME NEW h \in DOMAIN old[p] PROVE old[p][h] # c
        <5>1. Len(old[p][h].past) < Len(rng[w])  BY <2>2, <2>7
        <5>2. Len(old[p][h].past) \in Nat  BY <2>2, <2>7
        <5>3. old[p][h].past # c.past  BY <1>3, <2>4, <5>1, <5>2
        <5> QED  BY <5>3
      <4>2. CASE k = Len(old[p]) + 1
        <5>1. items'[w][i][k] = c  BY <2>8, <3>2, <4>2
        <5>2. Len(c.past) < Len(rng'[w])  BY <1>3, <2>4
        <5>3. ASSUME NEW h \in DOMAIN items'[w][i], items'[w][i][h] = c
              PROVE  h = k
          BY <2>8, <3>2, <4>1, <4>2, <5>3
        <5> QED  BY <2>2, <2>4, <3>2, <5>1, <5>2, <5>3
      <4>3. CASE k \in DOMAIN old[p]
        <5>1. items'[w][i][k] = old[p][k]  BY <2>8, <3>2, <4>3
        <5>2. Len(old[p][k].past) < Len(rng'[w])  BY <1>3, <2>2, <2>7, <4>3
        <5>3. ASSUME NEW h \in DOMAIN items'[w][i],
                     items'[w][i][h] = old[p][k]
              PROVE  h = k
          <6>1. h # Len(old[p]) + 1  BY <2>8, <3>2, <4>1, <4>3, <5>3
          <6>2. h \in DOMAIN old[p] /\ old[p][h] = old[p][k]
            BY <2>8, <3>2, <5>3, <6>1
          <6> QED  BY <2>2, <2>7, <4>3, <6>2
        <5> QED  BY <2>2, <2>7, <3>2, <4>3, <5>1, <5>2, <5>3
      <4> QED  BY <2>8, <3>2, <4>2, <4>3
    <3> QED  BY <3>1, <3>2
  <2>10. ASSUME NEW i \in D, Repeats(i) PROVE items'[w][i] = <<>>
    <3>1. i # p  BY <2>2, <2>10
    <3>2. old[i] = <<>>  BY <2>10 DEF ChainsOK, old, D
    <3> QED  BY <2>6, <3>1, <3>2
  <2> QED  BY <1>1, <2>9, <2>10 DEF ChainsOK, D
<1> QED  BY <1>2, <1>5, <1>6

\* While chains are drawn no file changes.
LEMMA DrawOccur ==
    ASSUME GenInv, OccurInv, NEW w \in Ids, Draw(w)
    PROVE  OccurInv'
<1>1. /\ pc[w] = "generate" /\ commands' = commands /\ cmd' = cmd
      /\ pass' = pass /\ next' = next /\ file' = file
      /\ DOMAIN items = Ids /\ rng \in [Ids -> Seq(Nat \X Nat)]
      /\ pc \in [Ids -> {"absent", "generate", "write", "done", "dead"}]
  BY DEF Draw, GenInv, cmd, Last
<1>2. \/ UNCHANGED <<items, pc>>
      \/ /\ \E p, e : items' = [items EXCEPT ![w][p] = e]
         /\ \E s \in {"write", "generate"} : pc' = [pc EXCEPT ![w] = s]
  BY DEF Draw
<1>3. \E x : rng' = [rng EXCEPT ![w] = x]  BY DEF Draw
<1>4. /\ \A v \in Ids : v # w => /\ pc'[v] = pc[v] /\ items'[v] = items[v]
                                 /\ rng'[v] = rng[v]
      /\ pc'[w] \in {"write", "generate"}
  BY <1>1, <1>2, <1>3
<1>5. GenInv'  BY DrawStep
<1>6. ASSUME NEW f \in FileNames, NEW mode
      PROVE  Given(f, mode) \subseteq Given(f, mode)'
  <2>1. f[3] \in Ids  BY DEF FileNames
  <2>2. \A p, op : Written(f[3], p, op) => Written(f[3], p, op)'
    BY <1>1, <1>4, <2>1 DEF Written
  <2>3. pc[f[3]] = "dead" => pc'[f[3]] = "dead"  BY <1>1, <1>4, <2>1
  <2>4. Asked(mode)' = Asked(mode)  BY <1>1 DEF Asked
  <2> QED  BY <1>1, <2>2, <2>3, <2>4 DEF Given, Serves
<1>7. OccursAtMost'  BY <1>1, <1>5, <1>6, OccurSame DEF OccurInv
<1>8. OwnLines'  BY <1>1 DEF OccurInv, OwnLines, OwnLine
<1>9. ASSUME NEW v \in Ids
      PROVE  /\ pc'[v] # "absent" => v < cmd'.procs
             /\ pc'[v] \in {"generate", "write"} => ChainsOK(v)'
  <2>1. CASE v = w
    <3>1. ChainsOK(w)  BY <1>1 DEF OccurInv
    <3>2. ChainsOK(w)'  BY <3>1, DrawChains
    <3> QED  BY <1>1, <2>1, <3>2 DEF OccurInv
  <2>2. CASE v # w
    <3>1. ChainsOK(v) => ChainsOK(v)'
      <4>1. items'[v] = items[v] /\ rng'[v] = rng[v]  BY <1>4, <2>2
      <4>2. \A i : Repeats(i)' <=> Repeats(i)  BY <1>1 DEF Repeats
      <4> QED  BY <1>1, <4>1, <4>2 DEF ChainsOK
    <3> QED  BY <1>1, <1>4, <2>2, <3>1 DEF OccurInv
  <2> QED  BY <2>1, <2>2
<1> QED  BY <1>1, <1>7, <1>8, <1>9 DEF OccurInv

\* A write, whole or broken, gives at most what the places of the pass ask for.
LEMMA WriteOccur ==
    ASSUME GenInv, OccurInv, NEW w \in Ids, Write(w) \/ Crash(w)
    PROVE  OccurInv'
<1>1. /\ pc[w] \in {"generate", "write"} /\ commands' = commands
      /\ cmd' = cmd /\ Started(w) /\ commands # <<>>
      /\ (pc[w] = "write" /\ Write(w)) \/ Crash(w)
      /\ pass[w] \in DOMAIN cmd.passes /\ next[w] \in DOMAIN cmd.ops
      /\ pc \in [Ids -> {"absent", "generate", "write", "done", "dead"}]
  BY DEF Write, AfterWrite, Crash, GenInv, Started, cmd, Last
<1>2. GenInv'  BY WriteStep, CrashStep
<1>3. \A f \in FileNames : \A mode :
         Given(f, mode) \subseteq Given(f, mode)'
  BY <1>1, GivenGrows
<1>4. OwnLines' /\ OccursAtMost'
  <2>1. CASE file' = file
    <3>1. OccursAtMost'  BY <1>2, <1>3, <2>1, OccurSame DEF OccurInv
    <3>2. OwnLines'  BY <2>1 DEF OccurInv, OwnLines, OwnLine
    <3> QED  BY <3>1, <3>2
  <2>2. CASE file' # file
    <3>1. pc[w] = "write" /\ (Write(w) \/ (Crash(w) /\ ~UNCHANGED file))
      BY <1>1, <2>2 DEF Crash
    <3>2. OwnLines'  BY <3>1, FileGrows
    <3>3. ASSUME NEW f \in FileNames, NEW l \in ItemLine
          PROVE  Cardinality(Occurs(Existing(f).lines, l)')
                    <= Cardinality(Given(f, l.mode)')
      <4> DEFINE P == PositionsOf(cmd.passes[pass[w]], l.mode)
                 G == Given(f, l.mode)
                 N == PassAsked(Len(commands), pass[w], P)
                 few == Cardinality(Occurs(Existing(f).lines, l))
      <4>1. /\ few \in Nat
            /\ few <= Cardinality(G)
            /\ IsFiniteSet(G) /\ Cardinality(G) \in Nat
        <5>1. Existing(f).lines \in Seq(TextLine)
          BY ExistingType DEF GenInv
        <5> QED  BY <5>1, OccursFinite, GivenFinite DEF OccurInv, OccursAtMost
      <4>2. /\ IsFiniteSet(Given(f, l.mode)')
            /\ Cardinality(Given(f, l.mode)') \in Nat
        BY <1>2, GivenFiniteNext
      <4>3. Cardinality(Occurs(Existing(f).lines, l)') \in Nat
        BY <1>2, GivenFiniteNext
      <4>4. Cardinality(Occurs(Existing(f).lines, l)')
               <= few + IF f = File(w) /\ ~Repeats(next[w])
                        THEN Cardinality(P) ELSE 0
        BY <3>1, FileGrows
      <4>5. CASE ~(f = File(w) /\ ~Repeats(next[w]))
        <5>1. Cardinality(Occurs(Existing(f).lines, l)') <= few
          <6> HIDE DEF few, P
          <6> QED  BY <4>1, <4>3, <4>4, <4>5
        <5>2. Cardinality(G) <= Cardinality(Given(f, l.mode)')
          BY <1>3, <4>2, FS_Subset
        <5> HIDE DEF few, G
        <5> QED  BY <4>1, <4>2, <4>3, <5>1, <5>2
      <4>6. CASE f = File(w) /\ ~Repeats(next[w])
        <5>1. IsFiniteSet(P) /\ Cardinality(P) \in Nat
          <6>1. ChainsOK(w)  BY <1>1 DEF OccurInv
          <6> QED  BY <1>1, <6>1, TextOccurs
        <5>2. /\ G \subseteq Given(f, l.mode)'
              /\ N \subseteq Given(f, l.mode)'
          BY <1>1, <3>1, <4>6, GivenGrows
        <5>3. IsFiniteSet(N) /\ Cardinality(N) = Cardinality(P)
          <6> HIDE DEF P
          <6> QED  BY <5>1, PassAskedCount
        <5>4. N \cap G = {}
          <6> SUFFICES ASSUME NEW a \in N, a \in G PROVE FALSE  OBVIOUS
          <6>1. PICK m \in P : a = <<Len(commands), <<pass[w], m>>>>
            BY DEF PassAsked
          <6>2. f[2] = cmd.ops[next[w]] /\ f[3] = w  BY <4>6 DEF File
          <6>3. Len(commands) \in Nat /\ pass[w] \in Nat
            BY CommandsAre DEF GenInv
          <6>4. ~(a[1] < Len(commands)) /\ ~(a[2][1] < pass[w])
            BY <6>1, <6>3
          <6>5. Written(w, pass[w], f[2])
            BY <3>1, <6>1, <6>2, <6>4 DEF Given
          <6>6. Repeats(next[w])
            BY <1>1, <3>1, <6>1, <6>2, <6>4, <6>5 DEF Written, Repeats
          <6> QED  BY <4>6, <6>6
        <5> HIDE DEF N, G, P, few
        <5>5. /\ Cardinality(G \cup N) = Cardinality(G) + Cardinality(P)
          <6>1. Cardinality(G \cap N) = 0
            <7>1. G \cap N = {}  BY <5>4
            <7> QED  BY <7>1, FS_EmptySet
          <6>2. Cardinality(G \cup N)
                   = Cardinality(G) + Cardinality(N) - Cardinality(G \cap N)
            BY <4>1, <5>3, FS_Union
          <6> QED  BY <4>1, <5>1, <5>3, <6>1, <6>2
        <5>6. Cardinality(G \cup N) <= Cardinality(Given(f, l.mode)')
          <6>1. G \cup N \subseteq Given(f, l.mode)'  BY <5>2
          <6> QED  BY <4>2, <6>1, FS_Subset
        <5>7. Cardinality(Occurs(Existing(f).lines, l)')
                 <= few + Cardinality(P)
          BY <4>4, <4>6
        <5> QED  BY <4>1, <4>2, <4>3, <5>1, <5>5, <5>6, <5>7
      <4> QED  BY <4>5, <4>6
    <3> QED  BY <3>2, <3>3 DEF OccursAtMost
  <2> QED  BY <2>1, <2>2
<1>5. ASSUME NEW v \in Ids
      PROVE  /\ pc'[v] # "absent" => v < cmd'.procs
             /\ pc'[v] \in {"generate", "write"} => ChainsOK(v)'
  <2>1. pc'[v] # "absent" => pc[v] # "absent"
    BY <1>1 DEF Write, AfterWrite, Crash
  <2>2. pc'[v] \in {"generate", "write"} => ChainsOK(v)'
    <3> SUFFICES ASSUME pc'[v] \in {"generate", "write"} PROVE ChainsOK(v)'
      OBVIOUS
    <3>1. CASE v # w \/ UNCHANGED <<pc, items, rng>>
      <4>1. pc'[v] = pc[v] /\ items'[v] = items[v] /\ rng'[v] = rng[v]
        BY <1>1, <3>1 DEF Write, AfterWrite, Seeded, Crash, GenInv
      <4>2. ChainsOK(v)  BY <4>1 DEF OccurInv
      <4> QED  BY <1>1, <4>1, <4>2 DEF ChainsOK, Repeats
    <3>2. CASE v = w /\ Seeded(w)
      <4>1. items'[w] = [i \in DOMAIN cmd.ops |-> <<>>]
        BY <1>1, <3>2 DEF Seeded, GenInv
      <4>2. \A i \in DOMAIN cmd.ops : items'[w][i] = <<>>  BY <4>1
      <4> QED  BY <1>1, <3>2, <4>2 DEF ChainsOK
    <3>3. CASE pc'[w] \in {"dead", "done"} /\ v = w  BY <3>3
    <3>4. \/ UNCHANGED <<pc, items, rng>> \/ Seeded(w)
          \/ pc'[w] \in {"dead", "done"}
      BY <1>1 DEF Write, AfterWrite, Crash
    <3> QED  BY <3>1, <3>2, <3>3, <3>4
  <2> QED  BY <1>1, <2>1, <2>2 DEF OccurInv
<1> QED  BY <1>1, <1>4, <1>5 DEF OccurInv

LEMMA OccurStep == GenInv /\ OccurInv /\ [Next]_vars => OccurInv'
<1> SUFFICES ASSUME GenInv, OccurInv, [Next]_vars PROVE OccurInv'  OBVIOUS
<1>1. CASE UNCHANGED genVars
  <2>1. GenInv'  BY GenStep
  <2>2. /\ UNCHANGED <<commands, pc, pass, rng, items, next, file>>
        /\ cmd' = cmd
    BY <1>1 DEF genVars, cmd, Last
  <2>3. ASSUME NEW f, NEW mode PROVE Given(f, mode)' = Given(f, mode)
    BY <2>2 DEF Given, Asked, Serves, Written
  <2>4. OccursAtMost'  BY <2>1, <2>2, <2>3, OccurSame DEF OccurInv
  <2>5. OwnLines'  BY <2>2 DEF OccurInv, OwnLines, OwnLine
  <2>6. \A w \in Ids : ChainsOK(w) => ChainsOK(w)'
    BY <2>2 DEF ChainsOK, Repeats
  <2> QED  BY <2>2, <2>4, <2>5, <2>6 DEF OccurInv
<1>2. CASE GenNext
  <2>1. CASE \E c \in Commands : Launch(c)  BY <2>1, LaunchOccur
  <2>2. ASSUME NEW w \in Ids, Draw(w) \/ Write(w) \/ Crash(w)
        PROVE  OccurInv'
    BY <2>2, DrawOccur, WriteOccur
  <2> QED  BY <1>2, <2>1, <2>2 DEF GenNext
<1> QED
  BY <1>1, <1>2 DEF Next, vars, PrepareRlvr, PrepareSft, Evaluate

-----------------------------------------------------------------------------
(* The preparations *)

\* the places of one line in one file
PlacesIn(f, l) == {f} \X Occurs(Existing(f).lines, l)

LEMMA PlacesInCount ==
    ASSUME GenInv, OccurInv, NEW f \in FileNames, NEW l \in ItemLine
    PROVE  /\ IsFiniteSet(PlacesIn(f, l))
           /\ Cardinality(PlacesIn(f, l)) \in Nat
           /\ Cardinality(PlacesIn(f, l)) <= Cardinality(Given(f, l.mode))
<1> DEFINE O == Occurs(Existing(f).lines, l)
<1>1. IsFiniteSet(O) /\ Cardinality(O) \in Nat
  <2>1. Existing(f).lines \in Seq(TextLine)  BY ExistingType DEF GenInv
  <2> QED  BY <2>1, OccursFinite
<1>2. Cardinality(O) <= Cardinality(Given(f, l.mode))
  BY DEF OccurInv, OccursAtMost
<1> HIDE DEF O
<1>3. IsFiniteSet({f}) /\ Cardinality({f}) = 1  BY FS_Singleton
<1>4. IsFiniteSet({f} \X O) /\ Cardinality({f} \X O) = 1 * Cardinality(O)
  BY <1>1, <1>3, FS_Product
<1> QED  BY <1>1, <1>2, <1>4 DEF PlacesIn, O

\* A line of a file is read as what it is: of the operation and the process
\* of its file.
LEMMA RowIs ==
    ASSUME GenInv, OccurInv, NEW files, files \subseteq DOMAIN file,
           NEW r \in Rows(files), Row(r) # Malformed
    PROVE  /\ Row(r) \in ItemLine
           /\ r = <<r[1], r[2]>> /\ r[1] \in files
           /\ r[2] \in Occurs(Existing(r[1]).lines, Row(r))
           /\ r[1] \in FileNames
           /\ r[1] = <<r[1][1], Row(r).chain.op, Row(r).chain.seed>>
<1>1. PICK f \in files : r \in {f} \X DOMAIN file[f].lines  BY DEF Rows
<1>2. /\ r = <<r[1], r[2]>> /\ r[1] = f /\ r[2] \in DOMAIN file[f].lines
      /\ f \in DOMAIN file
  BY <1>1
<1>3. file[f].lines \in Seq(TextLine)  BY <1>2 DEF GenInv, FilesTyped
<1>4. Row(r) = file[f].lines[r[2]]  BY <1>2 DEF Row
<1>5. Row(r) \in TextLine  BY <1>2, <1>3, <1>4
<1>6. Row(r) \in ItemLine  BY <1>5 DEF TextLine
<1>7. /\ f \in FileNames /\ OwnLine(f, Row(r))
  BY <1>2, <1>4 DEF OccurInv, OwnLines
<1>8. f = <<f[1], f[2], f[3]>>  BY <1>7 DEF FileNames
<1>9. f = <<f[1], Row(r).chain.op, Row(r).chain.seed>>
  BY <1>7, <1>8 DEF OwnLine
<1>10. Existing(f).lines = file[f].lines  BY <1>2 DEF Existing
<1> QED  BY <1>1, <1>2, <1>4, <1>6, <1>7, <1>9, <1>10 DEF Occurs

\* the rows of the preparation for fine-tuning that are one line
RowsOf(mode, l) == {r \in OfMode(mode) : Row(r) = l}

\* All files together hold a line at most once for every place of its mode: a
\* file of one layout and its twin of the other are given by different commands.
LEMMA RowsOfCount ==
    ASSUME GenInv, OccurInv, NEW mode, NEW l \in ItemLine, l.mode = mode
    PROVE  /\ IsFiniteSet(RowsOf(mode, l))
           /\ Cardinality(RowsOf(mode, l)) <= Cardinality(Asked(mode))
<1> DEFINE f == <<"flat", l.chain.op, l.chain.seed>>
           g == <<"nested", l.chain.op, l.chain.seed>>
<1>1. f \in FileNames /\ g \in FileNames
  BY DEF FileNames, ItemLine, Chains
<1>2. RowsOf(mode, l) \subseteq PlacesIn(f, l) \cup PlacesIn(g, l)
  <2> SUFFICES ASSUME NEW r \in RowsOf(mode, l)
               PROVE  r \in PlacesIn(f, l) \cup PlacesIn(g, l)
    OBVIOUS
  <2>1. r \in Rows(SftFiles) /\ Row(r) # Malformed /\ Row(r) = l
    BY DEF RowsOf, OfMode
  <2>2. SftFiles \subseteq DOMAIN file  BY DEF SftFiles
  <2>3. /\ r = <<r[1], r[2]>> /\ r[2] \in Occurs(Existing(r[1]).lines, l)
        /\ r[1] \in FileNames
        /\ r[1] = <<r[1][1], l.chain.op, l.chain.seed>>
    BY <2>1, <2>2, RowIs
  <2>4. r[1][1] \in {"flat", "nested"}  BY <2>3 DEF FileNames
  <2>5. r[1] = f \/ r[1] = g  BY <2>3, <2>4
  <2>6. r \in PlacesIn(r[1], l)  BY <2>3 DEF PlacesIn
  <2> QED  BY <2>5, <2>6
<1>3. /\ IsFiniteSet(PlacesIn(f, l)) /\ IsFiniteSet(PlacesIn(g, l))
      /\ Cardinality(PlacesIn(f, l)) \in Nat
      /\ Cardinality(PlacesIn(g, l)) \in Nat
      /\ Cardinality(PlacesIn(f, l)) <= Cardinality(Given(f, mode))
      /\ Cardinality(PlacesIn(g, l)) <= Cardinality(Given(g, mode))
  BY <1>1, PlacesInCount
<1>4. Given(f, mode) \cap Given(g, mode) = {}
  <2> SUFFICES ASSUME NEW a, a \in Given(f, mode), a \in Given(g, mode)
               PROVE  FALSE
    OBVIOUS
  <2>1. commands[a[1]].layout = "flat" /\ commands[a[1]].layout = "nested"
    BY DEF Given, Serves
  <2> QED  BY <2>1
<1>5. /\ IsFiniteSet(Given(f, mode)) /\ IsFiniteSet(Given(g, mode))
      /\ Cardinality(Given(f, mode)) \in Nat
      /\ Cardinality(Given(g, mode)) \in Nat
      /\ Given(f, mode) \subseteq Asked(mode)
      /\ Given(g, mode) \subseteq Asked(mode)
      /\ IsFiniteSet(Asked(mode)) /\ Cardinality(Asked(mode)) \in Nat
  BY GivenFinite
<1> HIDE DEF f, g
<1> DEFINE A == PlacesIn(f, l)  B == PlacesIn(g, l)
           G == Given(f, mode)  H == Given(g, mode)
<1>6. Cardinality(G) + Cardinality(H) <= Cardinality(Asked(mode))
  <2> HIDE DEF G, H
  <2>1. Cardinality(G \cap H) = 0  BY <1>4, FS_EmptySet DEF G, H
  <2>2. IsFiniteSet(G) /\ IsFiniteSet(H)  BY <1>5 DEF G, H
  <2>3. Cardinality(G \cup H)
           = Cardinality(G) + Cardinality(H) - Cardinality(G \cap H)
    BY <2>2, FS_Union
  <2>4. Cardinality(G \cup H) <= Cardinality(Asked(mode))
    <3>1. G \cup H \subseteq Asked(mode)  BY <1>5 DEF G, H
    <3> QED  BY <1>5, <3>1, FS_Subset
  <2>5. Cardinality(G) \in Nat /\ Cardinality(H) \in Nat
    BY <1>5 DEF G, H
  <2> QED  BY <2>1, <2>3, <2>4, <2>5
<1>7. /\ IsFiniteSet(A \cup B) /\ Cardinality(A \cup B) \in Nat
      /\ Cardinality(A \cup B) <= Cardinality(A) + Cardinality(B)
  <2> HIDE DEF A, B
  <2>1. IsFiniteSet(A) /\ IsFiniteSet(B)  BY <1>3 DEF A, B
  <2>2. /\ IsFiniteSet(A \cup B)
        /\ Cardinality(A \cup B)
              = Cardinality(A) + Cardinality(B) - Cardinality(A \cap B)
    BY <2>1, FS_Union
  <2>3. IsFiniteSet(A \cap B)
    <3>1. A \cap B \subseteq A  OBVIOUS
    <3> QED  BY <2>1, <3>1, FS_Subset
  <2>4. Cardinality(A \cap B) \in Nat /\ Cardinality(A \cup B) \in Nat
    BY <2>2, <2>3, FS_CardinalityType
  <2>5. Cardinality(A) \in Nat /\ Cardinality(B) \in Nat
    BY <2>1, FS_CardinalityType
  <2> QED  BY <2>2, <2>4, <2>5
<1>8. /\ IsFiniteSet(RowsOf(mode, l))
      /\ Cardinality(RowsOf(mode, l)) <= Cardinality(A \cup B)
      /\ Cardinality(RowsOf(mode, l)) \in Nat
  <2>1. RowsOf(mode, l) \subseteq A \cup B  BY <1>2
  <2> HIDE DEF A, B
  <2>2. /\ IsFiniteSet(RowsOf(mode, l))
        /\ Cardinality(RowsOf(mode, l)) <= Cardinality(A \cup B)
    BY <1>7, <2>1, FS_Subset
  <2> QED  BY <2>2, FS_CardinalityType
<1> QED  BY <1>3, <1>5, <1>6, <1>7, <1>8

\* the places of a data set that hold one line
DataOf(data, l) == {q \in DOMAIN data : data[q] = l}

SftInv ==
    \A m \in registered :
        /\ m \in DOMAIN sft /\ DOMAIN sft[m] # {}
        /\ \A r \in DOMAIN sft[m] : sft[m][r] \in ItemLine /\ sft[m][r].mode = m
        /\ \A l \in ItemLine : l.mode = m =>
              /\ IsFiniteSet(DataOf(sft[m], l))
              /\ Cardinality(DataOf(sft[m], l)) <= Cardinality(Asked(m))

\* A preparation writes what the files hold now.
LEMMA PrepareServes ==
    ASSUME GenInv, OccurInv, SftInv, NEW c \in SftCommands, PrepareSft(c)
    PROVE  SftInv'
<1> DEFINE written == {m \in ModesIn(Rows(SftFiles)) : Selected(c, m) # {}}
<1>1. /\ sft' = [m \in DOMAIN sft \cup written |->
                   IF m \in written THEN Content(Selected(c, m)) ELSE sft[m]]
      /\ registered' = registered \cup written /\ commands' = commands
  BY DEF PrepareSft, genVars
<1>2. \A m : Asked(m)' = Asked(m)  BY <1>1 DEF Asked
<1>3. ASSUME NEW m, Selected(c, m) # {}, NEW data, data = Content(Selected(c, m))
      PROVE  /\ DOMAIN data # {}
             /\ \A r \in DOMAIN data : data[r] \in ItemLine /\ data[r].mode = m
             /\ \A l \in ItemLine : l.mode = m =>
                   /\ IsFiniteSet(DataOf(data, l))
                   /\ Cardinality(DataOf(data, l)) <= Cardinality(Asked(m))
  <2>1. /\ DOMAIN data = Selected(c, m)
        /\ \A r \in Selected(c, m) : data[r] = Row(r)
    BY <1>3 DEF Content
  <2>2. Selected(c, m) \subseteq OfMode(m)  BY DEF Selected
  <2>3. ASSUME NEW r \in OfMode(m)
        PROVE  Row(r) \in ItemLine /\ Row(r).mode = m
    <3>1. /\ r \in Rows(SftFiles) /\ Row(r) # Malformed /\ Row(r).mode = m
          /\ SftFiles \subseteq DOMAIN file
      BY DEF OfMode, SftFiles
    <3> QED  BY <3>1, RowIs
  <2>4. ASSUME NEW l \in ItemLine, l.mode = m
        PROVE  /\ IsFiniteSet(DataOf(data, l))
               /\ Cardinality(DataOf(data, l)) <= Cardinality(Asked(m))
    <3>1. DataOf(data, l) \subseteq RowsOf(m, l)
      BY <2>1, <2>2 DEF DataOf, RowsOf
    <3>2. /\ IsFiniteSet(RowsOf(m, l))
          /\ Cardinality(RowsOf(m, l)) <= Cardinality(Asked(m))
      BY <2>4, RowsOfCount
    <3>3. /\ IsFiniteSet(DataOf(data, l))
          /\ Cardinality(DataOf(data, l)) <= Cardinality(RowsOf(m, l))
      BY <3>1, <3>2, FS_Subset
    <3>4. /\ Cardinality(DataOf(data, l)) \in Nat
          /\ Cardinality(RowsOf(m, l)) \in Nat
          /\ Cardinality(Asked(m)) \in Nat
      BY <3>2, <3>3, FS_CardinalityType, GivenFinite
    <3> QED  BY <3>2, <3>3, <3>4
  <2> QED  BY <1>3, <2>1, <2>2, <2>3, <2>4
<1> HIDE DEF written
<1>4. ASSUME NEW m \in registered'
      PROVE  /\ m \in DOMAIN sft' /\ DOMAIN sft'[m] # {}
             /\ \A r \in DOMAIN sft'[m] :
                   sft'[m][r] \in ItemLine /\ sft'[m][r].mode = m
             /\ \A l \in ItemLine : l.mode = m =>
                   /\ IsFiniteSet(DataOf(sft'[m], l))
                   /\ Cardinality(DataOf(sft'[m], l)) <= Cardinality(Asked(m))
  <2>1. CASE m \in written
    <3>1. m \in DOMAIN sft' /\ sft'[m] = Content(Selected(c, m))
      BY <1>1, <2>1
    <3>2. Selected(c, m) # {}  BY <2>1 DEF written
    <3> QED  BY <1>3, <3>1, <3>2
  <2>2. CASE m \notin written
    <3>1. m \in registered /\ m \in DOMAIN sft  BY <1>1, <2>2 DEF SftInv
    <3>2. m \in DOMAIN sft' /\ sft'[m] = sft[m]  BY <1>1, <2>2, <3>1
    <3> QED  BY <3>1, <3>2 DEF SftInv
  <2> QED  BY <2>1, <2>2
<1> QED  BY <1>2, <1>4 DEF SftInv, DataOf

\* Later commands only ask for more.
LEMMA SftStep ==
    GenInv /\ OccurInv /\ SftInv /\ [Next]_vars => SftInv'
<1> SUFFICES ASSUME GenInv, OccurInv, SftInv, [Next]_vars PROVE SftInv'
  OBVIOUS
<1>1. CASE \E c \in SftCommands : PrepareSft(c)  BY <1>1, PrepareServes
<1>2. CASE UNCHANGED <<sft, registered>>
  <2>1. GenInv'  BY GenStep
  <2>2. \/ commands' = commands
        \/ \E c : commands' = Append(commands, c) /\ c \in Commands
    BY DEF Next, GenNext, Launch, Draw, Write, AfterWrite, Crash, vars,
       genVars, PrepareRlvr, PrepareSft, Evaluate
  <2>3. ASSUME NEW m PROVE Asked(m) \subseteq Asked(m)'
    <3>1. CASE commands' = commands  BY <3>1 DEF Asked
    <3>2. CASE \E c : commands' = Append(commands, c) /\ c \in Commands
      <4>1. PICK c \in Commands : commands' = Append(commands, c)  BY <3>2
      <4>2. commands \in Seq(Commands)  BY DEF GenInv
      <4>3. ASSUME NEW i \in DOMAIN commands
            PROVE  i \in DOMAIN commands' /\ commands'[i] = commands[i]
        <5>1. i \in 1 .. Len(commands) /\ Len(commands) \in Nat
          BY <4>2, LenProperties
        <5>2. /\ commands' \in Seq(Commands)
              /\ Len(commands') = Len(commands) + 1
              /\ commands'[i] = commands[i]
          BY <4>1, <4>2, <5>1, AppendProperties
        <5>3. DOMAIN commands' = 1 .. Len(commands')
          BY <5>2, LenProperties
        <5> QED  BY <5>1, <5>2, <5>3
      <4> SUFFICES ASSUME NEW a \in Asked(m) PROVE a \in Asked(m)'  OBVIOUS
      <4>4. PICK i \in DOMAIN commands : a \in {i} \X Places(commands[i], m)
        BY DEF Asked
      <4>5. i \in DOMAIN commands' /\ a \in {i} \X Places(commands'[i], m)
        BY <4>3, <4>4
      <4> QED  BY <4>5 DEF Asked
    <3> QED  BY <2>2, <3>1, <3>2
  <2>4. ASSUME NEW m PROVE Cardinality(Asked(m)) <= Cardinality(Asked(m)')
    BY <2>1, <2>3, GivenFiniteNext, FS_Subset
  <2>5. ASSUME NEW m
        PROVE  Cardinality(Asked(m)) \in Nat /\ Cardinality(Asked(m)') \in Nat
    BY <2>1, GivenFinite, GivenFiniteNext
  <2>6. ASSUME NEW m \in registered, NEW l \in ItemLine, l.mode = m
        PROVE  /\ IsFiniteSet(DataOf(sft[m], l))
               /\ Cardinality(DataOf(sft[m], l)) <= Cardinality(Asked(m)')
    <3>1. /\ IsFiniteSet(DataOf(sft[m], l))
          /\ Cardinality(DataOf(sft[m], l)) <= Cardinality(Asked(m))
      BY <2>6 DEF SftInv
    <3>2. Cardinality(DataOf(sft[m], l)) \in Nat  BY <3>1, FS_CardinalityType
    <3> QED  BY <2>4, <2>5, <3>1, <3>2
  <2>7. \A m, l : DataOf(sft[m], l)' = DataOf(sft[m], l)
    BY <1>2 DEF DataOf
  <2> QED  BY <1>2, <2>6, <2>7 DEF SftInv
<1> QED
  BY <1>1, <1>2 DEF Next, vars, prepVars, PrepareRlvr, Evaluate

\* Whatever commands follow each other, whatever dies, and however often it is
\* prepared and with what limits: a registered data set is there, it is of its
\* mode, it has no malformed record, and it has no item more often than the
\* commands asked for the mode (write_jsonl and register_datasets).
THEOREM PreparedFilesServe == Spec => []SftServesFiles
<1>1. SftInv => SftServesFiles
  <2> SUFFICES ASSUME SftInv, NEW m \in registered
               PROVE  /\ m \in DOMAIN sft /\ DOMAIN sft[m] # {}
                      /\ \A r \in DOMAIN sft[m] :
                          /\ sft[m][r] # Malformed /\ sft[m][r].mode = m
                          /\ Cardinality({q \in DOMAIN sft[m] :
                                            sft[m][q] = sft[m][r]})
                                <= Cardinality(Asked(m))
    BY DEF SftServesFiles
  <2>1. m \in DOMAIN sft /\ DOMAIN sft[m] # {}  BY DEF SftInv
  <2>2. ASSUME NEW r \in DOMAIN sft[m]
        PROVE  /\ sft[m][r] # Malformed /\ sft[m][r].mode = m
               /\ Cardinality({q \in DOMAIN sft[m] : sft[m][q] = sft[m][r]})
                     <= Cardinality(Asked(m))
    <3>1. sft[m][r] \in ItemLine /\ sft[m][r].mode = m  BY <2>2 DEF SftInv
    <3>2. Cardinality(DataOf(sft[m], sft[m][r])) <= Cardinality(Asked(m))
      BY <3>1 DEF SftInv
    <3> QED  BY <3>1, <3>2, MalformedAssumption DEF DataOf
  <2> QED  BY <2>1, <2>2
<1>2. Init => GenInv /\ OccurInv /\ SftInv
  BY GenInitInv, OccurInitInv DEF Init, SftInv
<1> QED  BY <1>1, <1>2, GenStep, OccurStep, SftStep, PTL DEF Spec

\* what ValidationUnseen says of the two files
Separate ==
    \A i \in DOMAIN val, j \in DOMAIN train : val[i].chain # train[j].chain

UnseenInv ==
    /\ commands = <<>> => val = <<>> /\ train = <<>>
    /\ Len(commands) = 1 /\ Cardinality(AllPlaces(cmd)) = 1 => Separate

\* With one place for a mode, no two rows are of one chain.
LEMMA RowsDiffer ==
    ASSUME GenInv, OccurInv, Len(commands) = 1,
           Cardinality(AllPlaces(cmd)) = 1,
           NEW files, files \subseteq DOMAIN file,
           \A f \in files : f[1] = "flat",
           NEW r \in Rows(files), NEW q \in Rows(files),
           Row(r) # Malformed, Row(q) # Malformed,
           Row(r).chain = Row(q).chain
    PROVE  r = q
<1> DEFINE f == r[1]
           a == Row(r)
           b == Row(q)
<1>1. /\ a \in ItemLine /\ r = <<f, r[2]>> /\ f \in FileNames
      /\ r[2] \in Occurs(Existing(f).lines, a)
      /\ f = <<f[1], a.chain.op, a.chain.seed>> /\ f[1] = "flat"
  BY RowIs
<1>2. /\ b \in ItemLine /\ q = <<q[1], q[2]>>
      /\ q[2] \in Occurs(Existing(q[1]).lines, b)
      /\ q[1] = <<q[1][1], b.chain.op, b.chain.seed>> /\ q[1][1] = "flat"
  BY RowIs
<1>3. q[1] = f  BY <1>1, <1>2
<1>4. /\ commands # <<>> /\ DOMAIN commands = {1} /\ cmd = commands[1]
      /\ cmd \in Commands
  <2>1. /\ DOMAIN commands = 1 .. Len(commands)
        /\ \A j \in DOMAIN commands : commands[j] \in Commands
    BY CommandsAre
  <2>2. DOMAIN commands = {1} /\ cmd = commands[1]
    BY <2>1 DEF cmd, Last
  <2> QED  BY <2>1, <2>2
<1>5. PICK x : AllPlaces(cmd) = {x}
  <2>1. IsFiniteSet(AllPlaces(cmd))  BY <1>4, PlacesFinite
  <2> QED  BY <2>1, FS_Singleton
<1>6. ASSUME NEW mode
      PROVE  /\ Given(f, mode) \subseteq {<<1, x>>}
             /\ Given(f, mode) # {} =>
                   \E p \in DOMAIN cmd.passes : \E m \in DOMAIN cmd.passes[p] :
                      x = <<p, m>> /\ cmd.passes[p][m] = mode
  <2> SUFFICES ASSUME NEW g \in Given(f, mode)
               PROVE  /\ g = <<1, x>>
                      /\ \E p \in DOMAIN cmd.passes :
                            \E m \in DOMAIN cmd.passes[p] :
                               x = <<p, m>> /\ cmd.passes[p][m] = mode
    OBVIOUS
  <2>1. g \in Asked(mode)  BY DEF Given
  <2>2. PICK j \in DOMAIN commands : g \in {j} \X Places(commands[j], mode)
    BY <2>1 DEF Asked
  <2>3. g = <<1, g[2]>> /\ g[2] \in Places(cmd, mode)  BY <1>4, <2>2
  <2>4. g[2] = x  BY <1>4, <1>5, <2>3, PlacesFinite
  <2>5. \E p \in DOMAIN cmd.passes : \E m \in DOMAIN cmd.passes[p] :
           x = <<p, m>> /\ cmd.passes[p][m] = mode
    BY <2>3, <2>4 DEF Places
  <2> QED  BY <2>3, <2>4, <2>5
<1>7. ASSUME NEW l \in ItemLine, NEW k \in Occurs(Existing(f).lines, l)
      PROVE  /\ Given(f, l.mode) # {}
             /\ \A h \in Occurs(Existing(f).lines, l) : h = k
  <2> DEFINE O == Occurs(Existing(f).lines, l)
             G == Given(f, l.mode)
  <2>1. IsFiniteSet(O) /\ Cardinality(O) \in Nat
    <3>1. Existing(f).lines \in Seq(TextLine)  BY ExistingType DEF GenInv
    <3> QED  BY <3>1, OccursFinite
  <2>2. Cardinality(O) <= Cardinality(G)
    BY <1>1 DEF OccurInv, OccursAtMost
  <2>3. /\ IsFiniteSet(G) /\ Cardinality(G) \in Nat
        /\ G \subseteq {<<1, x>>}
    BY <1>6, GivenFinite
  <2>4. k \in O  OBVIOUS
  <2> HIDE DEF O, G
  <2>5. Cardinality(O) # 0  BY <2>1, <2>4, FS_EmptySet
  <2>6. Cardinality(G) <= 1
    <3>1. IsFiniteSet({<<1, x>>}) /\ Cardinality({<<1, x>>}) = 1
      BY FS_Singleton
    <3> QED  BY <2>3, <3>1, FS_Subset
  <2>7. Cardinality(O) = 1 /\ Cardinality(G) # 0
    BY <2>1, <2>2, <2>3, <2>5, <2>6
  <2>8. PICK y : O = {y}  BY <2>1, <2>7, FS_Singleton
  <2>9. G # {}  BY <2>7, FS_EmptySet
  <2> QED  BY <2>4, <2>8, <2>9 DEF O, G
<1>8. a.mode = b.mode
  <2>1. Given(f, a.mode) # {} /\ Given(f, b.mode) # {}
    BY <1>1, <1>2, <1>3, <1>7
  <2> HIDE DEF a, b, f
  <2>2. PICK p \in DOMAIN cmd.passes : \E m \in DOMAIN cmd.passes[p] :
           x = <<p, m>> /\ cmd.passes[p][m] = a.mode
    BY <1>6, <2>1
  <2>3. PICK s \in DOMAIN cmd.passes : \E m \in DOMAIN cmd.passes[s] :
           x = <<s, m>> /\ cmd.passes[s][m] = b.mode
    BY <1>6, <2>1
  <2>4. PICK m \in DOMAIN cmd.passes[p] :
           x = <<p, m>> /\ cmd.passes[p][m] = a.mode
    BY <2>2
  <2>5. PICK n \in DOMAIN cmd.passes[s] :
           x = <<s, n>> /\ cmd.passes[s][n] = b.mode
    BY <2>3
  <2>6. p = s /\ m = n  BY <2>4, <2>5
  <2> QED  BY <2>4, <2>5, <2>6
<1>9. a = b
  <2>1. a.chain = b.chain  OBVIOUS
  <2> HIDE DEF a, b
  <2> QED  BY <1>1, <1>2, <1>8, <2>1 DEF ItemLine
<1>10. q[2] = r[2]  BY <1>1, <1>2, <1>3, <1>7, <1>9
<1> QED  BY <1>1, <1>2, <1>3, <1>10

\* The split takes every row once.
LEMMA PrepareSeparates ==
    ASSUME GenInv, OccurInv, UnseenInv, PrepareRlvr
    PROVE  UnseenInv'
<1> DEFINE records == Rows(RlvrFiles)
<1>1. /\ commands' = commands /\ cmd' = cmd
  BY DEF PrepareRlvr, genVars, cmd, Last
<1>2. CASE UNCHANGED <<val, train>>
  BY <1>1, <1>2 DEF UnseenInv, Separate
<1>3. CASE ~UNCHANGED <<val, train>>
  <2>1. /\ RlvrFiles # {} /\ \A r \in records : Row(r) # Malformed
        /\ \E n : Split(records, n)
    BY <1>3 DEF PrepareRlvr
  <2>2. PICK n : Split(records, n)  BY <2>1
  <2>3. PICK chosen \in kSubset(n, records) :
           val' = Content(chosen) /\ train' = Content(records \ chosen)
    BY <2>2 DEF Split
  <2>4. chosen \subseteq records  BY <2>3 DEF kSubset
  <2>5. RlvrFiles \subseteq DOMAIN file /\ \A f \in RlvrFiles : f[1] = "flat"
    BY DEF RlvrFiles
  <2>6. commands # <<>>
    <3>1. DOMAIN file # {}  BY <2>1, <2>5
    <3> QED  BY <3>1 DEF OccurInv
  <2>7. ASSUME Len(commands) = 1, Cardinality(AllPlaces(cmd)) = 1
        PROVE  Separate'
    <3> SUFFICES ASSUME NEW i \in DOMAIN val', NEW j \in DOMAIN train',
                        val'[i].chain = train'[j].chain
                 PROVE  FALSE
      BY DEF Separate
    <3>1. /\ i \in chosen /\ val'[i] = Row(i)
          /\ j \in records \ chosen /\ train'[j] = Row(j)
      BY <2>3 DEF Content
    <3>2. i \in records /\ j \in records  BY <2>4, <3>1
    <3>3. Row(i) # Malformed /\ Row(j) # Malformed  BY <2>1, <3>2
    <3>4. Row(i).chain = Row(j).chain  BY <3>1
    <3>5. i = j  BY <2>5, <2>7, <3>2, <3>3, <3>4, RowsDiffer
    <3> QED  BY <3>1, <3>5
  <2> QED  BY <1>1, <2>6, <2>7 DEF UnseenInv
<1> QED  BY <1>2, <1>3

LEMMA UnseenStep ==
    GenInv /\ OccurInv /\ UnseenInv /\ [Next]_vars => UnseenInv'
<1> SUFFICES ASSUME GenInv, OccurInv, UnseenInv, [Next]_vars
             PROVE  UnseenInv'
  OBVIOUS
<1>1. CASE PrepareRlvr  BY <1>1, PrepareSeparates
<1>2. CASE UNCHANGED <<commands, val, train>>
  <2>1. cmd' = cmd  BY <1>2 DEF cmd, Last
  <2> QED  BY <1>2, <2>1 DEF UnseenInv, Separate
<1>3. CASE UNCHANGED <<val, train>> /\ \E c \in Commands : Launch(c)
  <2>1. PICK c \in Commands : commands' = Append(commands, c)
    BY <1>3 DEF Launch
  <2>2. commands \in Seq(Commands)  BY DEF GenInv
  <2>3. /\ commands' # <<>> /\ Len(commands') = Len(commands) + 1
        /\ Len(commands) \in Nat
    BY <2>1, <2>2, AppendProperties, LenProperties
  <2>4. CASE commands = <<>>
    <3>1. DOMAIN val' = {}  BY <1>3, <2>4 DEF UnseenInv
    <3> QED  BY <2>3, <3>1 DEF UnseenInv, Separate
  <2>5. CASE commands # <<>>
    <3>1. Len(commands) # 0  BY <2>2, <2>5, EmptySeq
    <3>2. Len(commands') # 1  BY <2>3, <3>1
    <3> QED  BY <2>3, <3>2 DEF UnseenInv
  <2> QED  BY <2>4, <2>5
<1>4. CASE GenNext /\ UNCHANGED prepVars
  BY <1>2, <1>3, <1>4 DEF GenNext, prepVars, Draw, Write, AfterWrite, Crash
<1>5. CASE \E c \in SftCommands : PrepareSft(c)
  BY <1>2, <1>5 DEF PrepareSft, genVars
<1>6. CASE Evaluate  BY <1>2, <1>6 DEF Evaluate, genVars
<1>7. CASE UNCHANGED vars  BY <1>2, <1>7 DEF vars, genVars, prepVars
<1> QED  BY <1>1, <1>4, <1>5, <1>6, <1>7 DEF Next

\* After one command that has one place for a mode, no problem is on both sides
\* of the split, whatever died while the files were written, and however many
\* files are read and rows are split off (collect_files and main of
\* prepare_rlvr_data.py).
THEOREM ValidationIsUnseen == Spec => []ValidationUnseen
<1>1. UnseenInv => ValidationUnseen
  BY DEF UnseenInv, Separate, ValidationUnseen
<1>2. Init => GenInv /\ OccurInv /\ UnseenInv
  <2> SUFFICES ASSUME Init PROVE GenInv /\ OccurInv /\ UnseenInv  OBVIOUS
  <2>1. GenInv /\ OccurInv  BY GenInitInv, OccurInitInv DEF Init
  <2>2. commands = <<>> /\ val = <<>> /\ train = <<>>
    BY DEF Init, GenInit
  <2>3. DOMAIN val = {}  BY <2>2
  <2> QED  BY <2>1, <2>2, <2>3 DEF UnseenInv, Separate
<1> QED  BY <1>1, <1>2, GenStep, OccurStep, UnseenStep, PTL DEF Spec

-----------------------------------------------------------------------------
(* In which turn a chain is drawn *)

\* The remainder of a multiple and something smaller is that.
LEMMA RemainderIs ==
    ASSUME NEW n \in Nat \ {0}, NEW r \in Nat, NEW e \in 0 .. n - 1
    PROVE  (r * n + e) % n = e
<1> DEFINE x == r * n + e
           q == x \div n
           m == x % n
<1>1. x \in Nat
  <2>1. r * n \in Nat  OBVIOUS
  <2> QED  BY <2>1
<1>2. q \in Nat /\ m \in 0 .. n - 1 /\ x = n * q + m
  <2>1. ASSUME NEW y \in Nat
        PROVE  /\ y \div n \in Nat /\ y % n \in 0 .. n - 1
               /\ y = n * (y \div n) + (y % n)
    OBVIOUS
  <2> QED  BY <1>1, <2>1
<1>3. n * q + m = n * r + e  BY <1>2
<1> HIDE DEF x, q, m
<1>4. ASSUME NEW a \in Nat, NEW b \in Nat, a < b
      PROVE  n * b >= n * a + n
  <2>1. b - a - 1 \in Nat  BY <1>4
  <2>2. n * (b - a - 1) \in Nat  BY <2>1
  <2>3. n * b = n * a + n + n * (b - a - 1)  BY <2>1
  <2> QED  BY <2>2, <2>3
<1>5. q = r
  <2>1. n * q \in Nat /\ n * r \in Nat  BY <1>2
  <2>2. ~(q < r)
    <3> SUFFICES ASSUME q < r PROVE FALSE  OBVIOUS
    <3>1. n * r >= n * q + n  BY <1>2, <1>4
    <3> QED  BY <1>2, <1>3, <2>1, <3>1
  <2>3. ~(r < q)
    <3> SUFFICES ASSUME r < q PROVE FALSE  OBVIOUS
    <3>1. n * q >= n * r + n  BY <1>2, <1>4
    <3> QED  BY <1>2, <1>3, <2>1, <3>1
  <2> QED  BY <1>2, <2>2, <2>3
<1>6. m = e  BY <1>2, <1>3, <1>5
<1> QED  BY <1>6 DEF m, x

\* what is drawn in the first turns when nothing is refused: the entries are
\* served in turn
PastOf(c, turns) ==
    [k \in 1 .. turns |-> <<c.ops[((k - 1) % Len(c.ops)) + 1],
                            Shuffles(c.passes[1])>>]

\* the chain that process w draws for entry i in its round k
Dealt(c, w, i, k) ==
    [seed |-> w, past |-> PastOf(c, (k - 1) * Len(c.ops) + (i - 1)),
     op |-> c.ops[i]]

\* After r rounds and e turns of the next one.
Dealing(w, r, e) ==
    /\ rng[w] = PastOf(cmd, r * Len(cmd.ops) + e)
    /\ \A i \in DOMAIN cmd.ops :
          /\ Len(items[w][i]) = IF i <= e THEN r + 1 ELSE r
          /\ \A k \in 1 .. Len(items[w][i]) :
                items[w][i][k] = Dealt(cmd, w, i, k)

\* The operation it asks for next is refused; it asks for it for ever.
Stuck(w) ==
    /\ pc[w] = "generate"
    /\ Refuses(cmd.ops[Fewest(w)], cmd.passes[pass[w]])

TurnsOK(w) ==
    \/ \E i \in DOMAIN cmd.ops : Repeats(i)
    \/ Stuck(w)
    \/ \E r \in Nat, e \in 0 .. Len(cmd.ops) - 1 : Dealing(w, r, e)

\* All passes of a command shuffle equally often.
LEMMA ShufflesAlike ==
    ASSUME NEW c \in Commands, NEW p \in DOMAIN c.passes
    PROVE  Shuffles(c.passes[p]) = Shuffles(c.passes[1])
<1>1. /\ c.passes \in Seq(Seq(Modes)) /\ c.passes # <<>>
      /\ Len(c.passes) = 1 \/ \A q \in DOMAIN c.passes :
            Len(c.passes[q]) = 1 /\ c.passes[q][1][1] # "implicit"
  BY DataGenAssumption
<1>2. DOMAIN c.passes = 1 .. Len(c.passes) /\ Len(c.passes) \in Nat
  BY <1>1, LenProperties
<1>3. CASE Len(c.passes) = 1
  <2>1. p = 1  BY <1>2, <1>3
  <2> QED  BY <2>1
<1>4. CASE \A q \in DOMAIN c.passes :
            Len(c.passes[q]) = 1 /\ c.passes[q][1][1] # "implicit"
  <2>1. ASSUME NEW q \in DOMAIN c.passes PROVE Shuffles(c.passes[q]) = 1
    <3>1. c.passes[q] \in Seq(Modes)  BY <1>1
    <3>2. DOMAIN c.passes[q] = 1 .. 1  BY <1>4, <3>1, LenProperties
    <3>3. {k \in DOMAIN c.passes[q] : c.passes[q][k][1] # "implicit"} = {1}
      BY <1>4, <3>2
    <3>4. Cardinality({1}) = 1  BY FS_Singleton
    <3> QED  BY <3>3, <3>4 DEF Shuffles
  <2>2. 1 \in DOMAIN c.passes
    <3>1. Len(c.passes) # 0  BY <1>1, EmptySeq
    <3> QED  BY <1>2, <3>1
  <2> QED  BY <2>1, <2>2
<1> QED  BY <1>1, <1>3, <1>4

\* No turn.
LEMMA PastNone ==
    ASSUME NEW c
    PROVE  PastOf(c, 0) = <<>>
<1>1. 1 .. 0 = {}  OBVIOUS
<1> QED  BY <1>1 DEF PastOf

\* One turn more.
LEMMA PastMore ==
    ASSUME NEW c \in Commands, NEW r \in Nat, NEW e \in 0 .. Len(c.ops) - 1
    PROVE  LET L == r * Len(c.ops) + e
           IN  Append(PastOf(c, L), <<c.ops[e + 1], Shuffles(c.passes[1])>>)
                  = PastOf(c, L + 1)
<1> DEFINE n == Len(c.ops)
           L == r * n + e
           x == <<c.ops[e + 1], Shuffles(c.passes[1])>>
           s == PastOf(c, L)
           T == {<<c.ops[((k - 1) % n) + 1], Shuffles(c.passes[1])>> :
                    k \in 1 .. L}
<1>1. n \in Nat \ {0}
  <2>1. c.ops \in Seq(Nat) /\ c.ops # <<>>  BY DataGenAssumption
  <2>2. n \in Nat  BY <2>1, LenProperties
  <2>3. n # 0  BY <2>1, EmptySeq
  <2> QED  BY <2>2, <2>3
<1>2. L % n = e
  <2>1. ASSUME NEW N \in Nat \ {0}, NEW d \in 0 .. N - 1
        PROVE  (r * N + d) % N = d
    BY RemainderIs
  <2> QED  BY <1>1, <2>1
<1>3. L \in Nat
  <2>1. r * n \in Nat  BY <1>1
  <2> QED  BY <1>1, <2>1
<1> HIDE DEF L
<1>4. s \in Seq(T) /\ Len(s) = L
  <2>1. s \in [1 .. L -> T]  BY DEF PastOf
  <2> HIDE DEF s, T
  <2>2. s \in Seq(T)  BY <1>3, <2>1, SeqDef
  <2>3. DOMAIN s = 1 .. L  BY <2>1
  <2> QED  BY <1>3, <2>2, <2>3, LenProperties
<1>5. Append(s, x) = [k \in 1 .. L + 1 |-> IF k <= L THEN s[k] ELSE x]
  <2> HIDE DEF s, x, T
  <2>1. /\ Len(Append(s, x)) = L + 1
        /\ \A i \in 1 .. L : Append(s, x)[i] = s[i]
        /\ Append(s, x)[L + 1] = x
        /\ Append(s, x) \in Seq(T \cup {x})
    <3>1. s \in Seq(T \cup {x})  BY <1>4
    <3> QED  BY <1>4, <3>1, AppendProperties
  <2>2. DOMAIN Append(s, x) = 1 .. L + 1  BY <2>1, LenProperties
  <2>3. Append(s, x) = [k \in 1 .. L + 1 |-> Append(s, x)[k]]
    <3>1. ASSUME NEW S, NEW q \in Seq(S)
          PROVE  q = [k \in 1 .. Len(q) |-> q[k]]
      OBVIOUS
    <3> QED  BY <2>1, <3>1
  <2>4. ASSUME NEW k \in 1 .. L + 1
        PROVE  Append(s, x)[k] = IF k <= L THEN s[k] ELSE x
    BY <1>3, <2>1
  <2> QED  BY <2>3, <2>4
<1>6. ASSUME NEW k \in 1 .. L + 1
      PROVE  (IF k <= L THEN s[k] ELSE x)
                = <<c.ops[((k - 1) % n) + 1], Shuffles(c.passes[1])>>
  <2>1. CASE k <= L
    <3>1. k \in 1 .. L  BY <1>3, <2>1
    <3> QED  BY <2>1, <3>1 DEF PastOf
  <2>2. CASE ~(k <= L)
    <3>1. k - 1 = L  BY <1>3, <2>2
    <3> QED  BY <1>2, <2>2, <3>1
  <2> QED  BY <2>1, <2>2
<1>7. Append(s, x) = PastOf(c, L + 1)
  <2> DEFINE F == [k \in 1 .. L + 1 |->
                     <<c.ops[((k - 1) % n) + 1], Shuffles(c.passes[1])>>]
  <2>1. ASSUME NEW k \in 1 .. L + 1 PROVE Append(s, x)[k] = F[k]
    <3> HIDE DEF s, x
    <3> QED  BY <1>5, <1>6
  <2>2. /\ F = [k \in 1 .. L + 1 |-> F[k]]
        /\ Append(s, x) = [k \in 1 .. L + 1 |-> Append(s, x)[k]]
    <3> HIDE DEF s, x
    <3> QED  BY <1>5
  <2>3. PastOf(c, L + 1) = F  BY DEF PastOf
  <2> HIDE DEF F, s, x
  <2>4. Append(s, x) = F  BY <2>1, <2>2
  <2> QED  BY <2>3, <2>4
<1> QED  BY <1>7 DEF L

\* When the entries were served in turn, it is the turn of the next one.
LEMMA FewestIsNext ==
    ASSUME GenInv, NEW w \in Ids, Started(w), NEW r \in Nat,
           NEW e \in 0 .. Len(cmd.ops) - 1,
           \A i \in DOMAIN cmd.ops :
              Len(items[w][i]) = IF i <= e THEN r + 1 ELSE r
    PROVE  e + 1 \in DOMAIN cmd.ops /\ Fewest(w) = e + 1
<1> DEFINE D == DOMAIN cmd.ops
           len(i) == Len(items[w][i])
           first(i) == \A j \in D : \/ len(i) < len(j)
                                    \/ len(i) = len(j) /\ i <= j
<1>1. /\ cmd.ops \in Seq(Nat) /\ D = 1 .. Len(cmd.ops)
      /\ Len(cmd.ops) \in Nat
  <2>1. commands # <<>>  BY DEF Started
  <2> QED  BY <2>1, CommandFacts, LenProperties
<1>2. e + 1 \in D /\ e \in Nat  BY <1>1
<1>3. \A i \in D : len(i) = IF i <= e THEN r + 1 ELSE r  OBVIOUS
<1>4. first(e + 1)
  <2> SUFFICES ASSUME NEW j \in D
               PROVE  \/ len(e + 1) < len(j)
                      \/ len(e + 1) = len(j) /\ e + 1 <= j
    OBVIOUS
  <2>1. len(e + 1) = r  BY <1>2, <1>3
  <2>2. CASE j <= e  BY <1>3, <2>1, <2>2
  <2>3. CASE ~(j <= e)  BY <1>1, <1>2, <1>3, <2>1, <2>3
  <2> QED  BY <2>2, <2>3
<1>5. Fewest(w) = CHOOSE i \in D : first(i)  BY DEF Fewest
<1> HIDE DEF first
<1>6. Fewest(w) \in D /\ first(Fewest(w))  BY <1>2, <1>4, <1>5
<1>7. ASSUME NEW i \in D, first(i) PROVE i = e + 1
  <2>1. \/ len(i) < len(e + 1)
        \/ len(i) = len(e + 1) /\ i <= e + 1
    BY <1>2, <1>7 DEF first
  <2>2. len(e + 1) = r  BY <1>2, <1>3
  <2>3. CASE i <= e
    <3>1. len(i) = r + 1  BY <1>3, <2>3
    <3> HIDE DEF len
    <3> QED  BY <2>1, <2>2, <3>1
  <2>4. CASE ~(i <= e)
    <3>1. len(i) = r  BY <1>3, <2>4
    <3>2. i <= e + 1
      <4> HIDE DEF len
      <4> QED  BY <2>1, <2>2, <3>1
    <3> QED  BY <1>1, <1>2, <2>4, <3>2
  <2> QED  BY <2>3, <2>4
<1> QED  BY <1>2, <1>6, <1>7

\* One more turn.
LEMMA DrawDeals ==
    ASSUME GenInv, NEW w \in Ids, Draw(w),
           \A i \in DOMAIN cmd.ops : ~Repeats(i),
           NEW r \in Nat, NEW e \in 0 .. Len(cmd.ops) - 1, Dealing(w, r, e)
    PROVE  TurnsOK(w)'
<1> DEFINE op == cmd.ops[Fewest(w)]
           modes == cmd.passes[pass[w]]
           c == Chain(w, op)
           p == Place(op)
           old == items[w]
           D == DOMAIN cmd.ops
           n == Len(cmd.ops)
           L == r * n + e
           d == e + 1
<1>1. /\ pc[w] = "generate" /\ Started(w) /\ DOMAIN items = Ids
      /\ rng \in [Ids -> Seq(Nat \X Nat)]
      /\ commands' = commands /\ cmd' = cmd /\ commands # <<>>
      /\ pass' = pass /\ cmd \in Commands
  BY CommandFacts DEF Draw, GenInv, Started, cmd, Last
<1>2. /\ D = 1 .. n /\ n \in Nat \ {0}
  <2>1. cmd.ops \in Seq(Nat) /\ cmd.ops # <<>>  BY <1>1, CommandFacts
  <2>2. D = 1 .. n /\ n \in Nat  BY <2>1, LenProperties
  <2>3. n # 0  BY <2>1, EmptySeq
  <2> QED  BY <2>2, <2>3
<1>3. d \in D /\ Fewest(w) = d
  <2>1. \A i \in D : Len(old[i]) = IF i <= e THEN r + 1 ELSE r
    BY DEF Dealing
  <2> QED  BY <1>1, <2>1, FewestIsNext
<1>4. CASE Refuses(op, modes)
  <2>1. items' = items /\ pc' = pc  BY <1>4 DEF Draw
  <2>2. Fewest(w)' = Fewest(w)  BY <1>1, <2>1 DEF Fewest
  <2>3. Stuck(w)'  BY <1>1, <1>4, <2>1, <2>2 DEF Stuck
  <2> QED  BY <2>3 DEF TurnsOK
<1>5. CASE ~Refuses(op, modes)
  <2>1. /\ rng' = [rng EXCEPT ![w] = Append(@, <<op, Shuffles(modes)>>)]
        /\ items' = [items EXCEPT ![w][p] = Append(@, c)]
    BY <1>5 DEF Draw
  <2>2. p = d
    <3>1. p \in D /\ cmd.ops[p] = op /\ ~Repeats(p)
      BY <1>1, <1>3, PlaceIsFirst
    <3>2. cmd.ops[p] = cmd.ops[d] /\ ~Repeats(d)  BY <1>3, <3>1
    <3> HIDE DEF p, D, n
    <3>3. ~(p < d)
      <4> SUFFICES ASSUME p < d PROVE FALSE  OBVIOUS
      <4>1. p \in 1 .. d - 1  BY <1>2, <1>3, <3>1
      <4> QED  BY <3>2, <4>1 DEF Repeats
    <3>4. ~(d < p)
      <4> SUFFICES ASSUME d < p PROVE FALSE  OBVIOUS
      <4>1. d \in 1 .. p - 1  BY <1>2, <1>3, <3>1
      <4>2. Repeats(p)  BY <3>2, <4>1 DEF Repeats
      <4> QED  BY <3>1, <4>2
    <3> QED  BY <1>2, <1>3, <3>1, <3>3, <3>4
  <2>3. Shuffles(modes) = Shuffles(cmd.passes[1])
    BY <1>1, ShufflesAlike DEF Started
  <2>4. rng'[w] = PastOf(cmd, L + 1)
    <3>1. rng'[w] = Append(rng[w], <<op, Shuffles(modes)>>)
      BY <1>1, <2>1
    <3>2. rng[w] = PastOf(cmd, L)  BY DEF Dealing
    <3>3. <<op, Shuffles(modes)>> = <<cmd.ops[e + 1], Shuffles(cmd.passes[1])>>
      BY <1>3, <2>3
    <3>4. Append(PastOf(cmd, L), <<cmd.ops[e + 1], Shuffles(cmd.passes[1])>>)
             = PastOf(cmd, L + 1)
      BY <1>1, PastMore
    <3> HIDE DEF op, modes, L
    <3> QED  BY <3>1, <3>2, <3>3, <3>4
  <2>5. c = Dealt(cmd, w, d, r + 1)
    <3>1. c = [seed |-> w, past |-> rng[w], op |-> op]  BY DEF Chain
    <3>2. rng[w] = PastOf(cmd, L)  BY DEF Dealing
    <3>3. L = (r + 1 - 1) * n + (d - 1)
      <4>1. r + 1 - 1 = r /\ d - 1 = e  OBVIOUS
      <4> QED  BY <4>1
    <3>4. op = cmd.ops[d]  BY <1>3
    <3> HIDE DEF op, L, c, n
    <3> QED  BY <3>1, <3>2, <3>3, <3>4 DEF Dealt, n
  <2>6. old \in [D -> Seq(Chains)]  BY <1>1 DEF Started
  <2>7. /\ items'[w][d] = Append(old[d], c)
        /\ \A i \in D : i # d => items'[w][i] = old[i]
    <3>1. items'[w] = [old EXCEPT ![d] = Append(old[d], c)]
      BY <1>1, <2>1, <2>2
    <3> HIDE DEF old, c, D, d
    <3> QED  BY <1>3, <2>6, <3>1
  <2>8. /\ \A i \in D : Len(old[i]) = IF i <= e THEN r + 1 ELSE r
        /\ \A i \in D : \A k \in 1 .. Len(old[i]) :
              old[i][k] = Dealt(cmd, w, i, k)
    BY DEF Dealing
  <2>9. /\ Len(items'[w][d]) = r + 1
        /\ \A k \in 1 .. r + 1 : items'[w][d][k] = Dealt(cmd, w, d, k)
    <3>1. old[d] \in Seq(Chains) /\ Len(old[d]) = r
      <4>1. ~(d <= e)  OBVIOUS
      <4> QED  BY <1>3, <2>6, <2>8, <4>1
    <3> HIDE DEF c, D, old, d
    <3>2. /\ Len(Append(old[d], c)) = r + 1
          /\ \A k \in 1 .. r : Append(old[d], c)[k] = old[d][k]
          /\ Append(old[d], c)[r + 1] = c
      <4>1. old[d] \in Seq(Chains \cup {c})  BY <3>1
      <4> QED  BY <3>1, <4>1, AppendProperties
    <3>3. ASSUME NEW k \in 1 .. r + 1
          PROVE  Append(old[d], c)[k] = Dealt(cmd, w, d, k)
      <4>1. CASE k = r + 1  BY <2>5, <3>2, <4>1
      <4>2. CASE k # r + 1
        <5>1. k \in 1 .. r  BY <4>2
        <5> QED  BY <1>3, <2>8, <3>1, <3>2, <5>1
      <4> QED  BY <4>1, <4>2
    <3> QED  BY <2>7, <3>2, <3>3
  <2>10. ASSUME NEW i \in D
         PROVE  /\ Len(items'[w][i]) = IF i <= d THEN r + 1 ELSE r
                /\ \A k \in 1 .. Len(items'[w][i]) :
                      items'[w][i][k] = Dealt(cmd, w, i, k)
    <3>1. CASE i = d
      <4>1. i <= d  BY <3>1
      <4> QED  BY <2>9, <3>1, <4>1
    <3>2. CASE i # d
      <4>1. items'[w][i] = old[i]  BY <2>7, <3>2
      <4>2. i <= d <=> i <= e  BY <1>2, <3>2
      <4> QED  BY <2>8, <4>1, <4>2
    <3> QED  BY <3>1, <3>2
  <2> HIDE DEF c, p, op, modes, old
  <2>11. CASE d < n
    <3>1. d \in 0 .. n - 1 /\ L + 1 = r * n + d
      <4>1. ASSUME NEW N \in Nat \ {0}, e \in 0 .. N - 1, e + 1 < N
            PROVE  e + 1 \in 0 .. N - 1 /\ r * N + e + 1 = r * N + (e + 1)
        <5>1. r * N \in Nat  OBVIOUS
        <5> QED  BY <4>1, <5>1
      <4> QED  BY <1>2, <2>11, <4>1
    <3>2. rng'[w] = PastOf(cmd, r * n + d)  BY <2>4, <3>1
    <3>3. Dealing(w, r, d)'  BY <1>1, <2>10, <3>2 DEF Dealing
    <3> QED  BY <1>1, <3>1, <3>3 DEF TurnsOK
  <2>12. CASE ~(d < n)
    <3>1. d = n /\ 0 \in 0 .. n - 1  BY <1>2, <2>12
    <3>2. L + 1 = (r + 1) * n + 0
      <4>1. ASSUME NEW N \in Nat \ {0}, e \in 0 .. N - 1, e + 1 = N
            PROVE  r * N + e + 1 = (r + 1) * N + 0
        <5>1. r * N \in Nat /\ (r + 1) * N = r * N + N  OBVIOUS
        <5> QED  BY <4>1, <5>1
      <4> QED  BY <1>2, <3>1, <4>1
    <3>3. rng'[w] = PastOf(cmd, (r + 1) * n + 0)  BY <2>4, <3>2
    <3>4. ASSUME NEW i \in D
          PROVE  /\ Len(items'[w][i]) = IF i <= 0 THEN r + 1 + 1 ELSE r + 1
                 /\ \A k \in 1 .. Len(items'[w][i]) :
                      items'[w][i][k] = Dealt(cmd, w, i, k)
      <4>1. i <= d /\ ~(i <= 0)  BY <1>2, <3>1
      <4> QED  BY <2>10, <4>1
    <3>5. Dealing(w, r + 1, 0)'  BY <1>1, <3>3, <3>4 DEF Dealing
    <3>6. r + 1 \in Nat /\ 0 \in 0 .. Len(cmd'.ops) - 1  BY <1>1, <3>1
    <3> QED  BY <3>5, <3>6 DEF TurnsOK
  <2> QED  BY <2>11, <2>12
<1> QED  BY <1>4, <1>5

LEMMA DrawTurns ==
    ASSUME GenInv, NEW w \in Ids, Draw(w), TurnsOK(w)
    PROVE  TurnsOK(w)'
<1>1. /\ pc[w] = "generate" /\ cmd' = cmd /\ pass' = pass
      /\ \A i : Repeats(i)' <=> Repeats(i)
  <2>1. pc[w] = "generate" /\ commands' = commands /\ pass' = pass
    BY DEF Draw
  <2>2. cmd' = cmd  BY <2>1 DEF cmd, Last
  <2> QED  BY <2>1, <2>2 DEF Repeats
<1>2. CASE \E i \in DOMAIN cmd.ops : Repeats(i)
  BY <1>1, <1>2 DEF TurnsOK
<1>3. CASE Stuck(w)
  <2>1. items' = items /\ pc' = pc  BY <1>3 DEF Draw, Stuck
  <2>2. Fewest(w)' = Fewest(w)  BY <1>1, <2>1 DEF Fewest
  <2>3. Stuck(w)'  BY <1>1, <1>3, <2>1, <2>2 DEF Stuck
  <2> QED  BY <2>3 DEF TurnsOK
<1>4. CASE /\ \A i \in DOMAIN cmd.ops : ~Repeats(i)
           /\ \E r \in Nat, e \in 0 .. Len(cmd.ops) - 1 : Dealing(w, r, e)
  BY <1>4, DrawDeals
<1> QED  BY <1>2, <1>3, <1>4 DEF TurnsOK

\* A pass begins with nothing drawn.
LEMMA NothingDealt ==
    ASSUME NEW w \in Ids, NEW c \in Commands, cmd' = c,
           rng'[w] = <<>>, items'[w] = [i \in DOMAIN c.ops |-> <<>>]
    PROVE  TurnsOK(w)'
<1>1. c.ops \in Seq(Nat) /\ c.ops # <<>>  BY DataGenAssumption
<1>2. /\ DOMAIN c.ops = 1 .. Len(c.ops) /\ Len(c.ops) \in Nat
      /\ Len(c.ops) # 0
  BY <1>1, LenProperties, EmptySeq
<1>3. 0 * Len(c.ops) + 0 = 0 /\ 0 \in 0 .. Len(c.ops) - 1  BY <1>2
<1>4. rng'[w] = PastOf(c, 0 * Len(c.ops) + 0)  BY <1>3, PastNone
<1>5. Len(<<>>) = 0  OBVIOUS
<1>6. ASSUME NEW i \in DOMAIN c.ops
      PROVE  /\ Len(items'[w][i]) = IF i <= 0 THEN 0 + 1 ELSE 0
             /\ \A k \in 1 .. Len(items'[w][i]) :
                   items'[w][i][k] = Dealt(c, w, i, k)
  <2>1. items'[w][i] = <<>>  OBVIOUS
  <2>2. ~(i <= 0)  BY <1>2
  <2>3. 1 .. 0 = {}  OBVIOUS
  <2> QED  BY <1>5, <2>1, <2>2, <2>3
<1>7. Dealing(w, 0, 0)'  BY <1>4, <1>6 DEF Dealing
<1> QED  BY <1>3, <1>7 DEF TurnsOK

\* When a pass writes, all entries have had all their turns.
LEMMA WriteDealt ==
    ASSUME GenInv, NEW w \in Ids, pc[w] = "write", EntriesOK(w), TurnsOK(w),
           NEW i \in DOMAIN cmd.ops
    PROVE  /\ Len(items[w][i]) = Quota(cmd)
           /\ \A k \in 1 .. Quota(cmd) : items[w][i][k] = Dealt(cmd, w, i, k)
<1>1. /\ ~Repeats(i) /\ Len(items[w][i]) = Quota(cmd)
      /\ \A j \in DOMAIN cmd.ops : ~Repeats(j)
  BY WriteEntries
<1>2. ~Stuck(w)  BY DEF Stuck
<1>3. \E r \in Nat, e \in 0 .. Len(cmd.ops) - 1 : Dealing(w, r, e)
  BY <1>1, <1>2 DEF TurnsOK
<1> QED  BY <1>1, <1>3 DEF Dealing

-----------------------------------------------------------------------------
(* The problems of a file *)

\* the lines of a mode up to line i
LinesTo(lines, mode, i) == {h \in 1 .. i : lines[h].mode = mode}

\* the first k problems when c are the chains
Numbered(c, k) == {<<j, c[j]>> : j \in 1 .. k}

LEMMA ProblemsAre ==
    ASSUME NEW lines, NEW mode, NEW x
    PROVE  x \in Problems(lines, mode) <=>
              \E i \in LinesIn(lines, mode) :
                 x = <<Cardinality(LinesTo(lines, mode, i)), lines[i].chain>>
BY DEF Problems, LinesIn, LinesTo

\* No problems.
LEMMA ProblemsNone ==
    ASSUME NEW lines, NEW mode
    PROVE  Problems(lines, mode) = {} <=> LinesIn(lines, mode) = {}
BY ProblemsAre

\* Behind each other, the problems of the second sequence are numbered on.
LEMMA ConcatProblems ==
    ASSUME NEW S, NEW a \in Seq(S), NEW b \in Seq(S), NEW mode, NEW x
    PROVE  x \in Problems(a \o b, mode) <=>
              \/ x \in Problems(a, mode)
              \/ \E y \in Problems(b, mode) :
                    x = <<Cardinality(LinesIn(a, mode)) + y[1], y[2]>>
<1> DEFINE n == Len(a)
           s == a \o b
           A == LinesIn(a, mode)
           B == LinesIn(b, mode)
<1>1. /\ n \in Nat /\ Len(b) \in Nat /\ DOMAIN a = 1 .. n
      /\ DOMAIN b = 1 .. Len(b) /\ s \in Seq(S)
      /\ DOMAIN s = 1 .. n + Len(b)
      /\ \A i \in 1 .. n + Len(b) : s[i] = IF i <= n THEN a[i] ELSE b[i - n]
  BY LenProperties, ConcatProperties
<1>2. A \subseteq 1 .. n /\ IsFiniteSet(A) /\ Cardinality(A) \in Nat
  BY LinesFinite
<1> HIDE DEF s, n
<1>3. ASSUME NEW i \in 1 .. n
      PROVE  /\ i \in LinesIn(s, mode) <=> i \in A
             /\ LinesTo(s, mode, i) = LinesTo(a, mode, i)
             /\ s[i] = a[i]
  <2>1. \A h \in 1 .. i : h \in 1 .. n + Len(b) /\ h <= n  BY <1>1
  <2>2. \A h \in 1 .. i : s[h] = a[h]  BY <1>1, <2>1
  <2>3. i \in 1 .. n + Len(b) /\ s[i] = a[i]  BY <1>1
  <2>4. LinesTo(s, mode, i) = LinesTo(a, mode, i)  BY <2>2 DEF LinesTo
  <2> QED  BY <1>1, <2>3, <2>4 DEF LinesIn
<1>4. ASSUME NEW i \in 1 .. Len(b)
      PROVE  /\ n + i \in LinesIn(s, mode) <=> i \in B
             /\ Cardinality(LinesTo(s, mode, n + i))
                   = Cardinality(A) + Cardinality(LinesTo(b, mode, i))
             /\ s[n + i] = b[i]
  <2> DEFINE C == LinesTo(b, mode, i)
             T == {h + n : h \in C}
  <2>1. /\ n + i \in 1 .. n + Len(b) /\ ~(n + i <= n) /\ (n + i) - n = i
    BY <1>1
  <2>2. s[n + i] = b[i]  BY <1>1, <2>1
  <2>3. C \subseteq 1 .. i /\ IsFiniteSet(C) /\ Cardinality(C) \in Nat
    <3>1. C \subseteq 1 .. i  BY DEF LinesTo
    <3>2. IsFiniteSet(1 .. i)  BY <1>1, FS_Interval
    <3> QED  BY <3>1, <3>2, FS_Subset, FS_CardinalityType
  <2>4. IsFiniteSet(T) /\ Cardinality(T) = Cardinality(C)
    <3>1. C \subseteq Nat  BY <2>3
    <3> HIDE DEF C
    <3> QED  BY <1>1, <2>3, <3>1, Shifted
  <2>5. LinesTo(s, mode, n + i) = A \cup T
    <3>1. ASSUME NEW h \in LinesTo(s, mode, n + i) PROVE h \in A \cup T
      <4>1. h \in 1 .. n + i /\ s[h].mode = mode  BY DEF LinesTo
      <4>2. h \in 1 .. n + Len(b) /\ h \in Nat  BY <1>1, <4>1
      <4>3. CASE h <= n
        <5>1. h \in DOMAIN a /\ a[h].mode = mode  BY <1>1, <4>1, <4>2, <4>3
        <5> QED  BY <5>1 DEF LinesIn
      <4>4. CASE ~(h <= n)
        <5>1. h - n \in 1 .. i /\ (h - n) + n = h
          BY <1>1, <4>1, <4>2, <4>4
        <5>2. b[h - n].mode = mode  BY <1>1, <4>1, <4>2, <4>4
        <5>3. h - n \in C  BY <5>1, <5>2 DEF LinesTo
        <5> QED  BY <5>1, <5>3
      <4> QED  BY <4>3, <4>4
    <3>2. ASSUME NEW h \in A PROVE h \in LinesTo(s, mode, n + i)
      <4>1. h \in 1 .. n /\ a[h].mode = mode  BY <1>2 DEF LinesIn
      <4>2. h \in 1 .. n + i /\ h \in 1 .. n + Len(b) /\ h <= n
        BY <1>1, <4>1
      <4> QED  BY <1>1, <4>1, <4>2 DEF LinesTo
    <3>3. ASSUME NEW h \in C PROVE h + n \in LinesTo(s, mode, n + i)
      <4>1. h \in 1 .. i /\ b[h].mode = mode  BY DEF LinesTo
      <4>2. /\ h + n \in 1 .. n + i /\ h + n \in 1 .. n + Len(b)
            /\ ~(h + n <= n) /\ (h + n) - n = h
        BY <1>1, <4>1
      <4>3. s[h + n] = b[h]  BY <1>1, <4>2
      <4> QED  BY <4>1, <4>2, <4>3 DEF LinesTo
    <3> QED  BY <3>1, <3>2, <3>3
  <2>6. A \cap T = {}
    <3> SUFFICES ASSUME NEW h \in C, h + n \in 1 .. n PROVE FALSE  BY <1>2
    <3>1. h \in Nat /\ h >= 1  BY <2>3
    <3> QED  BY <1>1, <3>1
  <2> HIDE DEF A, T, C
  <2>7. Cardinality(A \cup T)
           = Cardinality(A) + Cardinality(T) - Cardinality(A \cap T)
    BY <1>2, <2>4, FS_Union
  <2>8. Cardinality(A \cap T) = 0  BY <2>6, FS_EmptySet
  <2>9. Cardinality(A \cup T) = Cardinality(A) + Cardinality(C)
    BY <1>2, <2>3, <2>4, <2>7, <2>8
  <2>10. n + i \in LinesIn(s, mode) <=> i \in B
    BY <1>1, <2>1, <2>2 DEF LinesIn, B
  <2> QED  BY <2>2, <2>5, <2>9, <2>10 DEF C
<1>5. ASSUME x \in Problems(s, mode)
      PROVE  \/ x \in Problems(a, mode)
             \/ \E y \in Problems(b, mode) : x = <<Cardinality(A) + y[1], y[2]>>
  <2>1. PICK i \in LinesIn(s, mode) :
           x = <<Cardinality(LinesTo(s, mode, i)), s[i].chain>>
    BY <1>5, ProblemsAre
  <2>2. i \in 1 .. n + Len(b)  BY <1>1 DEF LinesIn
  <2>3. CASE i <= n
    <3>1. i \in 1 .. n  BY <1>1, <2>2, <2>3
    <3>2. x \in Problems(a, mode)  BY <1>3, <2>1, <3>1, ProblemsAre DEF A
    <3> QED  BY <3>2
  <2>4. CASE ~(i <= n)
    <3>1. PICK j \in 1 .. Len(b) : i = n + j
      <4>1. i - n \in 1 .. Len(b) /\ i = n + (i - n)  BY <1>1, <2>2, <2>4
      <4> QED  BY <4>1
    <3>2. PICK k : k = Cardinality(LinesTo(b, mode, j))  OBVIOUS
    <3>3. j \in B /\ x = <<Cardinality(A) + k, b[j].chain>>
      BY <1>4, <2>1, <3>1, <3>2
    <3>4. <<k, b[j].chain>> \in Problems(b, mode)
      BY <3>2, <3>3, ProblemsAre DEF B
    <3> QED  BY <3>3, <3>4
  <2> QED  BY <2>3, <2>4
<1>6. ASSUME x \in Problems(a, mode) PROVE x \in Problems(s, mode)
  <2>1. PICK i \in A : x = <<Cardinality(LinesTo(a, mode, i)), a[i].chain>>
    BY <1>6, ProblemsAre DEF A
  <2>2. i \in 1 .. n  BY <1>2
  <2> QED  BY <1>3, <2>1, <2>2, ProblemsAre
<1>7. ASSUME NEW y \in Problems(b, mode), x = <<Cardinality(A) + y[1], y[2]>>
      PROVE  x \in Problems(s, mode)
  <2>1. PICK j \in B : y = <<Cardinality(LinesTo(b, mode, j)), b[j].chain>>
    BY ProblemsAre DEF B
  <2>2. j \in 1 .. Len(b)  BY <1>1 DEF B, LinesIn
  <2>3. x = <<Cardinality(LinesTo(s, mode, n + j)), s[n + j].chain>>
    BY <1>4, <1>7, <2>1, <2>2
  <2>4. n + j \in LinesIn(s, mode)  BY <1>4, <2>2
  <2> QED  BY <2>3, <2>4, ProblemsAre
<1> QED  BY <1>5, <1>6, <1>7 DEF s, A

\* A sequence with one line of a mode.
LEMMA OneProblem ==
    ASSUME NEW S, NEW s \in Seq(S), NEW mode, NEW i, LinesIn(s, mode) = {i}
    PROVE  /\ Problems(s, mode) = {<<1, s[i].chain>>}
           /\ Cardinality(LinesIn(s, mode)) = 1
<1>1. i \in 1 .. Len(s) /\ DOMAIN s = 1 .. Len(s) /\ Len(s) \in Nat
  BY LinesFinite, LenProperties
<1>2. LinesTo(s, mode, i) = {i}
  <2>1. ASSUME NEW h \in LinesTo(s, mode, i) PROVE h = i
    <3>1. h \in 1 .. i /\ s[h].mode = mode  BY DEF LinesTo
    <3>2. h \in DOMAIN s  BY <1>1, <3>1
    <3> QED  BY <3>1, <3>2 DEF LinesIn
  <2>2. i \in LinesTo(s, mode, i)
    <3>1. i \in 1 .. i  BY <1>1
    <3>2. s[i].mode = mode  BY DEF LinesIn
    <3> QED  BY <3>1, <3>2 DEF LinesTo
  <2> QED  BY <2>1, <2>2
<1>3. Cardinality({i}) = 1  BY FS_Singleton
<1>4. ASSUME NEW x
      PROVE  x \in Problems(s, mode) <=> x = <<1, s[i].chain>>
  <2>1. x \in Problems(s, mode) <=>
           x = <<Cardinality(LinesTo(s, mode, i)), s[i].chain>>
    BY ProblemsAre
  <2>2. Cardinality(LinesTo(s, mode, i)) = 1  BY <1>2, <1>3
  <2> QED  BY <2>1, <2>2
<1> QED  BY <1>3, <1>4

\* Joined, sequences with one problem of a mode each number it in their order.
LEMMA FlattenProblems ==
    ASSUME NEW S, NEW seqs \in Seq(Seq(S)), NEW mode, NEW c,
           \A i \in 1 .. Len(seqs) :
              /\ Cardinality(LinesIn(seqs[i], mode)) = 1
              /\ Problems(seqs[i], mode) = {<<1, c[i]>>}
    PROVE  Problems(FlattenSeq(seqs), mode) = Numbered(c, Len(seqs))
<1> DEFINE n == Len(seqs)
           D == 1 .. n
           ok(s, k) == /\ Cardinality(LinesIn(s, mode)) = k
                       /\ Problems(s, mode) = Numbered(c, k)
<1>1. PICK F : Joins(F, seqs, S)  BY FlattenJoins
<1>2. n \in Nat /\ (\A i \in D : seqs[i] \in Seq(S))  OBVIOUS
<1>3. /\ F \in [D -> Seq(S)]
      /\ \A i \in D : F[i] = IF i = 1 THEN seqs[i] ELSE F[i - 1] \o seqs[i]
      /\ FlattenSeq(seqs) = IF n = 0 THEN <<>> ELSE F[n]
  BY <1>1 DEF Joins, JoinBody
<1> DEFINE U == {k \in D : ~ok(F[k], k)}
<1>4. U = {}
  <2> SUFFICES ASSUME U # {} PROVE FALSE  OBVIOUS
  <2>1. PICK k \in U : \A y \in U : k <= y
    <3>1. U \subseteq Nat  OBVIOUS
    <3> QED  BY <3>1, Least
  <2>2. k \in D /\ k \in Nat /\ ~ok(F[k], k)  BY <2>1
  <2>3. /\ Cardinality(LinesIn(seqs[k], mode)) = 1
        /\ Problems(seqs[k], mode) = {<<1, c[k]>>}
    BY <2>2
  <2>4. CASE k = 1
    <3>1. F[k] = seqs[k]  BY <1>3, <2>2, <2>4
    <3>2. Numbered(c, 1) = {<<1, c[1]>>}  BY DEF Numbered
    <3> QED  BY <2>2, <2>3, <2>4, <3>1, <3>2
  <2>5. CASE k # 1
    <3>1. k - 1 \in D /\ ~(k <= k - 1) /\ k - 1 \in Nat /\ (k - 1) + 1 = k
      BY <2>2, <2>5
    <3>2. ok(F[k - 1], k - 1)  BY <2>1, <3>1
    <3>3. F[k] = F[k - 1] \o seqs[k]  BY <1>3, <2>2, <2>5
    <3>4. F[k - 1] \in Seq(S) /\ seqs[k] \in Seq(S)
      BY <1>2, <1>3, <2>2, <3>1
    <3>5. Cardinality(LinesIn(F[k], mode)) = k
      <4>1. Cardinality(LinesIn(F[k], mode))
               = Cardinality(LinesIn(F[k - 1], mode))
                 + Cardinality(LinesIn(seqs[k], mode))
        BY <3>3, <3>4, ConcatCount
      <4> QED  BY <2>3, <3>1, <3>2, <4>1
    <3>6. ASSUME NEW x
          PROVE  x \in Problems(F[k], mode) <=> x \in Numbered(c, k)
      <4>1. x \in Problems(F[k], mode) <=>
               \/ x \in Problems(F[k - 1], mode)
               \/ \E y \in Problems(seqs[k], mode) :
                     x = <<Cardinality(LinesIn(F[k - 1], mode)) + y[1], y[2]>>
        BY <3>3, <3>4, ConcatProblems
      <4>2. Cardinality(LinesIn(F[k - 1], mode)) = k - 1  BY <3>2
      <4>3. x \in Problems(F[k], mode) <=>
               x \in Numbered(c, k - 1) \/ x = <<k, c[k]>>
        BY <2>3, <3>1, <3>2, <4>1, <4>2
      <4>4. x \in Numbered(c, k) <=>
               x \in Numbered(c, k - 1) \/ x = <<k, c[k]>>
        <5>1. \A j : j \in 1 .. k <=> j \in 1 .. k - 1 \/ j = k  BY <2>2
        <5> QED  BY <5>1 DEF Numbered
      <4> QED  BY <4>3, <4>4
    <3>7. Problems(F[k], mode) = Numbered(c, k)  BY <3>6
    <3> QED  BY <2>2, <3>5, <3>7
  <2> QED  BY <2>4, <2>5
<1>5. CASE n = 0
  <2>1. Problems(<<>>, mode) = {}  BY NoLines, ProblemsNone
  <2>2. Numbered(c, 0) = {}  BY DEF Numbered
  <2> QED  BY <1>3, <1>5, <2>1, <2>2
<1>6. CASE n # 0
  <2>1. n \in D  BY <1>2, <1>6
  <2>2. ok(F[n], n)  BY <1>4, <2>1
  <2> QED  BY <1>3, <1>6, <2>2
<1> QED  BY <1>5, <1>6

\* What a process writes for an entry states its chains, once for a mode the
\* pass has once, and nothing for a mode the pass does not have.
LEMMA TextProblems ==
    ASSUME GenInv, NEW w \in Ids, Started(w), NEW i \in DOMAIN cmd.ops,
           NEW mode
    PROVE  LET P == PositionsOf(cmd.passes[pass[w]], mode)
               chains == items[w][i]
           IN  /\ P = {} => LinesIn(Lines(w, i), mode) = {}
               /\ \A m : P = {m} => Problems(Lines(w, i), mode)
                                      = Numbered(chains, Len(chains))
<1> DEFINE modes == cmd.passes[pass[w]]
           P == PositionsOf(modes, mode)
           chains == items[w][i]
           blocks == Blocks(w, i)
<1>1. /\ Lines(w, i) = FlattenSeq(blocks) /\ blocks \in Seq(Seq(ItemLine))
      /\ Len(blocks) = Len(chains) /\ modes \in Seq(Modes)
      /\ chains \in Seq(Chains)
  BY BlocksType
<1>2. ASSUME P = {} PROVE LinesIn(Lines(w, i), mode) = {}
  <2>1. Cardinality(LinesIn(Lines(w, i), mode)) = Cardinality(P) * Len(chains)
    BY LinesCount
  <2>2. Cardinality(P) = 0  BY <1>2, FS_EmptySet
  <2>3. Cardinality(LinesIn(Lines(w, i), mode)) = 0
    <3>1. Len(chains) \in Nat  BY <1>1, LenProperties
    <3>2. ASSUME NEW z \in Nat PROVE 0 * z = 0  OBVIOUS
    <3> HIDE DEF P, chains
    <3> QED  BY <2>1, <2>2, <3>1, <3>2
  <2>4. IsFiniteSet(LinesIn(Lines(w, i), mode))  BY LinesType, LinesFinite
  <2> QED  BY <2>3, <2>4, FS_EmptySet
<1>3. ASSUME NEW m, P = {m}
      PROVE  Problems(Lines(w, i), mode) = Numbered(chains, Len(chains))
  <2>1. ASSUME NEW k \in 1 .. Len(blocks)
        PROVE  /\ Cardinality(LinesIn(blocks[k], mode)) = 1
               /\ Problems(blocks[k], mode) = {<<1, chains[k]>>}
    <3>1. k \in DOMAIN items[w][i]  BY <1>1, LenProperties
    <3>2. blocks[k] = [q \in DOMAIN modes |->
                          [chain |-> chains[k], mode |-> modes[q]]]
      BY <3>1 DEF Blocks, Block
    <3>3. blocks[k] \in Seq(ItemLine)  BY <1>1
    <3>4. LinesIn(blocks[k], mode) = P /\ blocks[k][m].chain = chains[k]
      <4>1. m \in DOMAIN modes  BY <1>3 DEF PositionsOf
      <4> HIDE DEF modes, blocks, chains
      <4> QED  BY <3>2, <4>1 DEF LinesIn, PositionsOf, P
    <3> HIDE DEF blocks, chains, modes, P
    <3>5. PICK s \in Seq(ItemLine) : s = blocks[k]  BY <3>3
    <3>6. LinesIn(s, mode) = {m}  BY <1>3, <3>4, <3>5
    <3>7. /\ Problems(s, mode) = {<<1, s[m].chain>>}
          /\ Cardinality(LinesIn(s, mode)) = 1
      BY <3>6, OneProblem
    <3> QED  BY <3>4, <3>5, <3>7
  <2>2. Problems(FlattenSeq(blocks), mode) = Numbered(chains, Len(blocks))
    <3> HIDE DEF blocks, chains
    <3> QED  BY <1>1, <2>1, FlattenProblems
  <2> QED  BY <1>1, <2>2
<1> QED  BY <1>2, <1>3

-----------------------------------------------------------------------------
(* The modes of one command share their chains *)

\* the problems of a file of a command of which nothing was refused
Deal(c, f) ==
    UNION {{<<k, Dealt(c, f[3], i, k)>> : k \in 1 .. Quota(c)} :
              i \in {j \in DOMAIN c.ops : c.ops[j] = f[2]}}

\* A mode that the command has at one place has been written from the chains
\* that were dealt, or not at all.
ProblemsOK(f) ==
    \A mode \in KnownModes : \A place \in AllPlaces(cmd) :
        Places(cmd, mode) = {place} =>
            Problems(Existing(f).lines, mode)
               = IF Written(f[3], place[1], f[2]) THEN Deal(cmd, f) ELSE {}

ShareInv ==
    crashes = 0 /\ Len(commands) = 1 =>
      /\ \A w \in Ids : pc[w] \in {"generate", "write"} => TurnsOK(w)
      /\ \A f \in DOMAIN file : Serves(cmd, f)
      /\ \A f \in FileNames : Serves(cmd, f) => ProblemsOK(f)

\* Only one pass has a mode that has one place.
LEMMA PlaceIs ==
    ASSUME NEW c \in Commands, NEW mode, NEW place, Places(c, mode) = {place}
    PROVE  \E p \in DOMAIN c.passes :
              /\ place[1] = p /\ p \in Nat \ {0}
              /\ \E m : PositionsOf(c.passes[p], mode) = {m}
              /\ \A q \in DOMAIN c.passes :
                    q # p => PositionsOf(c.passes[q], mode) = {}
<1>1. ASSUME NEW x
      PROVE  x \in Places(c, mode) <=>
                \E p \in DOMAIN c.passes :
                   \E m \in PositionsOf(c.passes[p], mode) : x = <<p, m>>
  BY DEF Places, PositionsOf
<1>2. PICK p \in DOMAIN c.passes :
         \E m \in PositionsOf(c.passes[p], mode) : place = <<p, m>>
  BY <1>1
<1>3. PICK m \in PositionsOf(c.passes[p], mode) : place = <<p, m>>
  BY <1>2
<1>4. ASSUME NEW q \in DOMAIN c.passes,
             NEW k \in PositionsOf(c.passes[q], mode)
      PROVE  q = p /\ k = m
  <2>1. <<q, k>> \in Places(c, mode)  BY <1>1
  <2>2. <<q, k>> = <<p, m>>  BY <1>3, <2>1
  <2> QED  BY <2>2
<1>5. p \in Nat \ {0}
  <2>1. c.passes \in Seq(Seq(Modes))  BY DataGenAssumption
  <2>2. DOMAIN c.passes = 1 .. Len(c.passes) /\ Len(c.passes) \in Nat
    BY <2>1, LenProperties
  <2> QED  BY <2>2
<1>6. /\ place[1] = p /\ PositionsOf(c.passes[p], mode) = {m}
      /\ \A q \in DOMAIN c.passes :
            q # p => PositionsOf(c.passes[q], mode) = {}
  BY <1>3, <1>4
<1> QED  BY <1>5, <1>6

\* A process that is left alone.
LEMMA TurnsSame ==
    ASSUME NEW w, cmd' = cmd, pc'[w] = pc[w], pass'[w] = pass[w],
           rng'[w] = rng[w], items'[w] = items[w], TurnsOK(w)
    PROVE  TurnsOK(w)'
<1>1. Fewest(w)' = Fewest(w)  BY DEF Fewest
<1>2. Stuck(w)' <=> Stuck(w)  BY <1>1 DEF Stuck
<1>3. \A i : Repeats(i)' <=> Repeats(i)  BY DEF Repeats
<1>4. \A r, e : Dealing(w, r, e)' <=> Dealing(w, r, e)  BY DEF Dealing
<1> QED  BY <1>2, <1>3, <1>4 DEF TurnsOK

\* The chains of an entry that no other repeats are those of its file.
LEMMA DealIs ==
    ASSUME GenInv, NEW w \in Ids, pc[w] = "write", EntriesOK(w), TurnsOK(w),
           NEW i \in DOMAIN cmd.ops, NEW f, f[2] = cmd.ops[i], f[3] = w
    PROVE  Numbered(items[w][i], Quota(cmd)) = Deal(cmd, f)
<1> DEFINE D == DOMAIN cmd.ops
<1>1. \A k \in 1 .. Quota(cmd) : items[w][i][k] = Dealt(cmd, w, i, k)
  BY WriteDealt
<1>2. D = 1 .. Len(cmd.ops) /\ Len(cmd.ops) \in Nat
  <2>1. commands # <<>>  BY DEF GenInv, Started
  <2> QED  BY <2>1, CommandFacts, LenProperties
<1>3. {j \in D : cmd.ops[j] = f[2]} = {i}
  <2> SUFFICES ASSUME NEW j \in D, cmd.ops[j] = cmd.ops[i] PROVE j = i
    OBVIOUS
  <2>1. ~Repeats(i) /\ ~Repeats(j)  BY WriteEntries
  <2>2. ~(j < i)
    <3> SUFFICES ASSUME j < i PROVE FALSE  OBVIOUS
    <3>1. j \in 1 .. i - 1  BY <1>2
    <3> QED  BY <2>1, <3>1 DEF Repeats
  <2>3. ~(i < j)
    <3> SUFFICES ASSUME i < j PROVE FALSE  OBVIOUS
    <3>1. i \in 1 .. j - 1  BY <1>2
    <3> QED  BY <2>1, <3>1 DEF Repeats
  <2> QED  BY <1>2, <2>2, <2>3
<1>4. Deal(cmd, f) = {<<k, Dealt(cmd, w, i, k)>> : k \in 1 .. Quota(cmd)}
  BY <1>3 DEF Deal
<1> QED  BY <1>1, <1>4 DEF Numbered

\* A write adds the chains that were dealt, once, for the modes of its pass.
LEMMA WriteProblems ==
    ASSUME GenInv, QuotaInv, crashes = 0, NEW w \in Ids, Write(w),
           TurnsOK(w), NEW f \in FileNames, Serves(cmd, f),
           NEW mode, NEW place, Places(cmd, mode) = {place},
           Problems(Existing(f).lines, mode)
              = IF Written(f[3], place[1], f[2]) THEN Deal(cmd, f) ELSE {}
    PROVE  Problems(Existing(f).lines, mode)'
              = IF Written(f[3], place[1], f[2])' THEN Deal(cmd, f) ELSE {}
<1> DEFINE text == Lines(w, next[w])
           old == Existing(f).lines
           chains == items[w][next[w]]
           deal == Deal(cmd, f)
<1>1. /\ pc[w] = "write" /\ file' = Appended(File(w), text, FALSE)
      /\ AfterWrite(w) /\ UNCHANGED <<commands, crashes>>
      /\ Started(w) /\ commands # <<>> /\ next[w] \in DOMAIN cmd.ops
      /\ pass[w] \in DOMAIN cmd.passes /\ cmd \in Commands
  BY CommandFacts DEF Write, AfterWrite, GenInv, Started
<1>2. FilesWhole /\ EntriesOK(w) /\ f[3] \in Ids
  BY <1>1 DEF QuotaInv, ProcessOK, FileNames
<1>3. PICK p \in DOMAIN cmd.passes :
              /\ place[1] = p /\ p \in Nat \ {0}
              /\ \E m : PositionsOf(cmd.passes[p], mode) = {m}
              /\ \A q \in DOMAIN cmd.passes :
                    q # p => PositionsOf(cmd.passes[q], mode) = {}
  BY <1>1, PlaceIs
<1>4. place[1] = p  BY <1>3
<1>5. CASE f # File(w)
  <2>1. Existing(f)' = Existing(f)
    BY <1>1, <1>5 DEF Existing, Appended
  <2>2. Problems(old, mode)' = Problems(old, mode)
    BY <2>1 DEF Problems
  <2>3. Written(f[3], p, f[2])' <=> Written(f[3], p, f[2])
    <3>1. CASE f[3] # w
      <4>1. /\ pc'[f[3]] = pc[f[3]] /\ pass'[f[3]] = pass[f[3]]
            /\ next'[f[3]] = next[f[3]]
        <5>1. ASSUME NEW v \in Ids, v # w
              PROVE  pc'[v] = pc[v] /\ pass'[v] = pass[v] /\ next'[v] = next[v]
          BY <1>1, <5>1 DEF AfterWrite, Seeded, GenInv
        <5> QED  BY <1>2, <3>1, <5>1
      <4>2. cmd' = cmd  BY <1>1 DEF cmd, Last
      <4> QED  BY <4>1, <4>2 DEF Written
    <3>2. CASE f[3] = w
      <4>1. f = <<f[1], f[2], f[3]>>  BY DEF FileNames
      <4>2. f[2] # cmd.ops[next[w]]
        BY <1>5, <3>2, <4>1 DEF File, Serves
      <4> QED  BY <1>1, <3>2, <4>2, WriteWrites DEF Serves
    <3> QED  BY <3>1, <3>2
  <2> QED  BY <1>4, <2>2, <2>3
<1>6. CASE f = File(w)
  <2>1. f[1] = cmd.layout /\ f[2] = cmd.ops[next[w]] /\ f[3] = w
    BY <1>6 DEF File
  <2>2. Written(w, p, f[2])' <=> Written(w, p, f[2]) \/ p = pass[w]
    BY <1>1, <2>1, WriteWrites DEF Serves
  <2>3. Existing(f).lines' = old \o text
    <3>1. ~Existing(f).open  BY <1>2 DEF Existing, FilesWhole
    <3> HIDE DEF text
    <3>2. /\ file'[f] = [lines |-> old \o text, open |-> FALSE]
          /\ f \in DOMAIN file'
      BY <1>1, <1>6, <3>1 DEF Appended
    <3>3. Existing(f)' = file'[f]  BY <3>2 DEF Existing
    <3> QED  BY <3>2, <3>3
  <2>4. old \in Seq(ItemLine) /\ text \in Seq(ItemLine)
    <3>1. text \in Seq(ItemLine)  BY <1>1, LinesType
    <3>2. old \in Seq(ItemLine)
      BY <1>2, EmptySeq DEF Existing, FilesWhole
    <3> QED  BY <3>1, <3>2
  <2>5. /\ p # pass[w] => LinesIn(text, mode) = {}
        /\ p = pass[w] => Problems(text, mode)
                             = Numbered(chains, Len(chains))
    <3>1. LET P == PositionsOf(cmd.passes[pass[w]], mode)
          IN  /\ P = {} => LinesIn(text, mode) = {}
              /\ \A m : P = {m} => Problems(text, mode)
                                     = Numbered(chains, Len(chains))
      BY <1>1, TextProblems
    <3> HIDE DEF text, chains
    <3>2. p # pass[w] => PositionsOf(cmd.passes[pass[w]], mode) = {}
      BY <1>1, <1>3
    <3> QED  BY <1>3, <3>1, <3>2
  <2>6. Len(chains) = Quota(cmd) /\ Numbered(chains, Quota(cmd)) = deal
    BY <1>1, <1>2, <2>1, DealIs, WriteDealt
  <2>7. p = pass[w] => ~Written(w, p, f[2])
    <3> SUFFICES ASSUME p = pass[w], Written(w, p, f[2]) PROVE FALSE
      OBVIOUS
    <3>1. ~(p < pass[w])  BY <1>3
    <3>2. Repeats(next[w])  BY <1>1, <2>1, <3>1 DEF Written, Repeats
    <3> QED  BY <1>1, <1>2, <3>2, WriteEntries
  <2> HIDE DEF text, old, chains, deal
  <2>8. Problems(Existing(f).lines, mode)' = Problems(old \o text, mode)
    BY <2>3 DEF Problems
  <2>9. ASSUME NEW x
        PROVE  x \in Problems(old \o text, mode) <=>
                  \/ x \in Problems(old, mode)
                  \/ \E y \in Problems(text, mode) :
                        x = <<Cardinality(LinesIn(old, mode)) + y[1], y[2]>>
    BY <2>4, ConcatProblems
  <2>10. CASE p # pass[w]
    <3>1. Problems(text, mode) = {}  BY <2>5, <2>10, ProblemsNone
    <3>2. Problems(old \o text, mode) = Problems(old, mode)  BY <2>9, <3>1
    <3>3. Problems(Existing(f).lines, mode)' = Problems(old, mode)
      BY <2>8, <3>2
    <3> QED  BY <1>4, <2>1, <2>2, <2>10, <3>3 DEF old, deal
  <2>11. CASE p = pass[w]
    <3>1. Problems(old, mode) = {}
      BY <1>4, <2>1, <2>7, <2>11 DEF old
    <3>2. Cardinality(LinesIn(old, mode)) = 0
      BY <3>1, ProblemsNone, FS_EmptySet
    <3>3. Problems(text, mode) = Numbered(chains, Quota(cmd))
      BY <2>5, <2>6, <2>11
    <3>4. ASSUME NEW x
          PROVE  x \in Problems(old \o text, mode) <=>
                    x \in Numbered(chains, Quota(cmd))
      <4>1. \A y \in Numbered(chains, Quota(cmd)) :
               <<0 + y[1], y[2]>> = y
        BY DEF Numbered
      <4> QED  BY <2>9, <3>1, <3>2, <3>3, <4>1
    <3>5. Problems(old \o text, mode) = deal  BY <2>6, <3>4
    <3>6. Problems(Existing(f).lines, mode)' = deal
      BY <2>8, <3>5
    <3> QED  BY <1>4, <2>1, <2>2, <2>11, <3>6 DEF deal
  <2> QED  BY <2>10, <2>11
<1> QED  BY <1>5, <1>6

\* Before the first command, and when it is launched.
LEMMA ShareInitInv == GenInit => ShareInv
<1> SUFFICES ASSUME GenInit PROVE ~(Len(commands) = 1)  BY DEF ShareInv
<1>1. commands = <<>> /\ Len(<<>>) = 0  BY DEF GenInit
<1> QED  BY <1>1

LEMMA LaunchShares ==
    ASSUME GenInv, OccurInv, NEW c \in Commands, Launch(c)
    PROVE  ShareInv'
<1> SUFFICES ASSUME crashes' = 0, Len(commands') = 1
             PROVE  /\ \A w \in Ids : TurnsOK(w)'
                    /\ \A f \in DOMAIN file' : Serves(cmd', f)
                    /\ \A f \in FileNames : ProblemsOK(f)'
  BY DEF ShareInv
<1>1. /\ commands' = Append(commands, c) /\ file' = file
      /\ pc' = [w \in Ids |-> IF w < c.procs THEN "generate" ELSE "absent"]
      /\ pass' = [w \in Ids |-> 1] /\ rng' = [w \in Ids |-> <<>>]
      /\ items' = [w \in Ids |-> [i \in DOMAIN c.ops |-> <<>>]]
  BY DEF Launch
<1>2. commands = <<>> /\ cmd' = c
  <2>1. commands \in Seq(Commands)  BY DEF GenInv
  <2>2. /\ Len(commands') = Len(commands) + 1
        /\ commands'[Len(commands) + 1] = c /\ Len(commands) \in Nat
    BY <1>1, <2>1, AppendProperties, LenProperties
  <2>3. Len(commands) = 0  BY <2>2
  <2> QED  BY <2>1, <2>2, <2>3, EmptySeq DEF cmd, Last
<1>3. DOMAIN file = {}  BY <1>2 DEF OccurInv
<1>4. ASSUME NEW w \in Ids PROVE TurnsOK(w)'
  <2>1. rng'[w] = <<>> /\ items'[w] = [i \in DOMAIN c.ops |-> <<>>]
    BY <1>1
  <2> QED  BY <1>2, <2>1, NothingDealt
<1>5. ASSUME NEW f \in FileNames, NEW mode, NEW place,
             Places(cmd', mode) = {place}
      PROVE  Problems(Existing(f).lines, mode)'
                = IF Written(f[3], place[1], f[2])' THEN Deal(cmd, f)' ELSE {}
  <2>1. PICK p \in DOMAIN c.passes : place[1] = p /\ p \in Nat \ {0}
    BY <1>2, <1>5, PlaceIs
  <2>2. f[3] \in Ids /\ place[1] = p /\ ~(p < 1)  BY <2>1 DEF FileNames
  <2>3. pc'[f[3]] \in {"generate", "absent"} /\ pass'[f[3]] = 1
    BY <1>1, <2>2
  <2>4. ~Written(f[3], place[1], f[2])'  BY <2>2, <2>3 DEF Written
  <2>5. Existing(f)'.lines = <<>>  BY <1>1, <1>3 DEF Existing
  <2>6. Problems(Existing(f).lines, mode)' = Problems(<<>>, mode)
    BY <2>5 DEF Problems
  <2>7. Problems(<<>>, mode) = {}  BY NoLines, ProblemsNone
  <2> QED  BY <2>4, <2>6, <2>7
<1>6. \A f \in FileNames : ProblemsOK(f)'  BY <1>5 DEF ProblemsOK
<1> QED  BY <1>1, <1>3, <1>4, <1>6

\* What was dealt for a file stays the same while the command does.
LEMMA ProblemsSame ==
    ASSUME cmd' = cmd, NEW f, Existing(f)' = Existing(f),
           \A p, op : Written(f[3], p, op)' <=> Written(f[3], p, op),
           ProblemsOK(f)
    PROVE  ProblemsOK(f)'
<1>1. \A mode : Problems(Existing(f).lines, mode)'
                   = Problems(Existing(f).lines, mode)
  BY DEF Problems
<1>2. Deal(cmd, f)' = Deal(cmd, f)  BY DEF Deal, Dealt, PastOf, Shuffles, Quota
<1>3. /\ AllPlaces(cmd)' = AllPlaces(cmd)
      /\ \A mode : Places(cmd, mode)' = Places(cmd, mode)
  BY DEF AllPlaces, Places, ModesOf
<1> QED  BY <1>1, <1>2, <1>3 DEF ProblemsOK

LEMMA DrawShares ==
    ASSUME GenInv, QuotaInv, ShareInv, NEW w \in Ids, Draw(w)
    PROVE  ShareInv'
<1>1. /\ pc[w] = "generate" /\ commands' = commands /\ cmd' = cmd
      /\ pass' = pass /\ next' = next /\ file' = file /\ crashes' = crashes
      /\ DOMAIN items = Ids /\ rng \in [Ids -> Seq(Nat \X Nat)]
      /\ pc \in [Ids -> {"absent", "generate", "write", "done", "dead"}]
  BY DEF Draw, GenInv, cmd, Last
<1> SUFFICES ASSUME crashes = 0, Len(commands) = 1
             PROVE  /\ \A v \in Ids : pc'[v] \in {"generate", "write"}
                                         => TurnsOK(v)'
                    /\ \A f \in DOMAIN file : Serves(cmd, f)
                    /\ \A f \in FileNames : Serves(cmd, f) => ProblemsOK(f)'
  BY <1>1 DEF ShareInv
<1>2. \/ UNCHANGED <<items, pc>>
      \/ /\ \E p, e : items' = [items EXCEPT ![w][p] = e]
         /\ \E s \in {"write", "generate"} : pc' = [pc EXCEPT ![w] = s]
  BY DEF Draw
<1>3. \E x : rng' = [rng EXCEPT ![w] = x]  BY DEF Draw
<1>4. /\ \A v \in Ids : v # w => /\ pc'[v] = pc[v] /\ items'[v] = items[v]
                                 /\ rng'[v] = rng[v]
      /\ pc'[w] \in {"write", "generate"}
  BY <1>1, <1>2, <1>3
<1>5. ASSUME NEW v \in Ids, pc'[v] \in {"generate", "write"}
      PROVE  TurnsOK(v)'
  <2>1. CASE v = w
    <3>1. TurnsOK(w)  BY <1>1 DEF ShareInv
    <3> QED  BY <2>1, <3>1, DrawTurns
  <2>2. CASE v # w
    <3>1. /\ pc'[v] = pc[v] /\ items'[v] = items[v] /\ rng'[v] = rng[v]
          /\ pass'[v] = pass[v]
      BY <1>1, <1>4, <2>2
    <3>2. TurnsOK(v)  BY <1>5, <3>1 DEF ShareInv
    <3> QED  BY <1>1, <3>1, <3>2, TurnsSame
  <2> QED  BY <2>1, <2>2
<1>6. ASSUME NEW v \in Ids, NEW p, NEW op
      PROVE  Written(v, p, op)' <=> Written(v, p, op)
  <2>1. CASE v # w
    BY <1>1, <1>4, <2>1 DEF Written
  <2>2. CASE v = w
    <3>1. next[w] = 1  BY <1>1 DEF QuotaInv, ProcessOK
    <3>2. 1 .. next[w] - 1 = {}  BY <3>1
    <3> QED  BY <1>1, <1>4, <2>2, <3>2 DEF Written
  <2> QED  BY <2>1, <2>2
<1>7. ASSUME NEW f \in FileNames, Serves(cmd, f) PROVE ProblemsOK(f)'
  <2>1. f[3] \in Ids  BY DEF FileNames
  <2>2. Existing(f)' = Existing(f)  BY <1>1 DEF Existing
  <2>3. \A p, op : Written(f[3], p, op)' <=> Written(f[3], p, op)
    BY <1>6, <2>1
  <2>4. ProblemsOK(f)  BY <1>7 DEF ShareInv
  <2> QED  BY <1>1, <2>2, <2>3, <2>4, ProblemsSame
<1> QED  BY <1>5, <1>7 DEF ShareInv

LEMMA WriteShares ==
    ASSUME GenInv, QuotaInv, ShareInv, NEW w \in Ids, Write(w)
    PROVE  ShareInv'
<1>1. /\ pc[w] = "write" /\ file' = Appended(File(w), Lines(w, next[w]), FALSE)
      /\ AfterWrite(w) /\ commands' = commands /\ crashes' = crashes
      /\ Started(w) /\ commands # <<>> /\ next[w] \in DOMAIN cmd.ops
      /\ cmd' = cmd /\ cmd \in Commands
  BY CommandFacts DEF Write, AfterWrite, GenInv, Started, cmd, Last
<1>2. /\ pc \in [Ids -> {"absent", "generate", "write", "done", "dead"}]
      /\ next \in [Ids -> Nat] /\ DOMAIN items = Ids
      /\ rng \in [Ids -> Seq(Nat \X Nat)] /\ pass \in [Ids -> Nat]
  BY DEF GenInv
<1> SUFFICES ASSUME crashes = 0, Len(commands) = 1
             PROVE  /\ \A v \in Ids : pc'[v] \in {"generate", "write"}
                                         => TurnsOK(v)'
                    /\ \A f \in DOMAIN file' : Serves(cmd, f)
                    /\ \A f \in FileNames : Serves(cmd, f) => ProblemsOK(f)'
  BY <1>1 DEF ShareInv
<1>3. TurnsOK(w)  BY <1>1 DEF ShareInv
<1>4. ASSUME NEW v \in Ids, pc'[v] \in {"generate", "write"}
      PROVE  TurnsOK(v)'
  <2>1. CASE v # w
    <3>1. /\ pc'[v] = pc[v] /\ items'[v] = items[v] /\ rng'[v] = rng[v]
          /\ pass'[v] = pass[v]
      BY <1>1, <1>2, <2>1 DEF AfterWrite, Seeded
    <3>2. TurnsOK(v)  BY <1>4, <3>1 DEF ShareInv
    <3> QED  BY <1>1, <3>1, <3>2, TurnsSame
  <2>2. CASE v = w
    <3>1. CASE UNCHANGED <<pc, pass, rng, items>>
      BY <1>1, <1>3, <2>2, <3>1, TurnsSame
    <3>2. CASE Seeded(w)
      <4>1. rng'[w] = <<>> /\ items'[w] = [i \in DOMAIN cmd.ops |-> <<>>]
        BY <1>1, <1>2, <3>2 DEF Seeded
      <4>2. PICK c \in Commands : c = cmd  BY <1>1
      <4>3. cmd' = c /\ items'[w] = [i \in DOMAIN c.ops |-> <<>>]
        BY <1>1, <4>1, <4>2
      <4> QED  BY <2>2, <4>1, <4>3, NothingDealt
    <3>3. CASE pc' = [pc EXCEPT ![w] = "done"]
      <4>1. pc'[w] = "done"  BY <1>2, <3>3
      <4> QED  BY <1>4, <2>2, <4>1
    <3> QED  BY <1>1, <3>1, <3>2, <3>3 DEF AfterWrite
  <2> QED  BY <2>1, <2>2
<1>5. ASSUME NEW f \in DOMAIN file' PROVE Serves(cmd, f)
  <2>1. CASE f # File(w)
    <3>1. f \in DOMAIN file  BY <1>1, <2>1 DEF Appended
    <3> QED  BY <3>1 DEF ShareInv
  <2>2. CASE f = File(w)
    <3>1. f[1] = cmd.layout /\ f[2] = cmd.ops[next[w]] /\ f[3] = w
      BY <2>2 DEF File
    <3>2. ProcessOK(w) /\ pc[w] # "absent"  BY <1>1 DEF QuotaInv
    <3>3. ~(w >= cmd.procs)  BY <1>1, <3>2 DEF ProcessOK
    <3>4. w \in Nat /\ cmd.procs \in Nat
      BY <1>1, IdsAreNumbers, DataGenAssumption
    <3>5. w < cmd.procs  BY <3>3, <3>4
    <3>6. f[2] \in Range(cmd.ops)  BY <1>1, <3>1 DEF Range
    <3> QED  BY <3>1, <3>5, <3>6 DEF Serves
  <2> QED  BY <2>1, <2>2
<1>6. ASSUME NEW f \in FileNames, Serves(cmd, f) PROVE ProblemsOK(f)'
  <2>1. ProblemsOK(f)  BY <1>6 DEF ShareInv
  <2>2. Deal(cmd, f)' = Deal(cmd, f)
    BY <1>1 DEF Deal, Dealt, PastOf, Shuffles, Quota
  <2>3. /\ AllPlaces(cmd)' = AllPlaces(cmd)
        /\ \A mode : Places(cmd, mode)' = Places(cmd, mode)
    BY <1>1 DEF AllPlaces, Places, ModesOf
  <2>4. ASSUME NEW mode \in KnownModes, NEW place \in AllPlaces(cmd),
               Places(cmd, mode) = {place}
        PROVE  Problems(Existing(f).lines, mode)'
                  = IF Written(f[3], place[1], f[2])' THEN Deal(cmd, f)
                    ELSE {}
    <3>1. Problems(Existing(f).lines, mode)
             = IF Written(f[3], place[1], f[2]) THEN Deal(cmd, f) ELSE {}
      BY <2>1, <2>4 DEF ProblemsOK
    <3> QED  BY <1>3, <1>6, <2>4, <3>1, WriteProblems
  <2> QED  BY <2>2, <2>3, <2>4 DEF ProblemsOK
<1> QED  BY <1>4, <1>5, <1>6

LEMMA ShareStep ==
    GenInv /\ QuotaInv /\ OccurInv /\ ShareInv /\ [Next]_vars => ShareInv'
<1> SUFFICES ASSUME GenInv, QuotaInv, OccurInv, ShareInv, [Next]_vars
             PROVE  ShareInv'
  OBVIOUS
<1>1. CASE UNCHANGED genVars
  <2>1. /\ UNCHANGED <<commands, pc, pass, rng, items, next, file, crashes>>
        /\ cmd' = cmd
    BY <1>1 DEF genVars, cmd, Last
  <2>2. \A w : TurnsOK(w) => TurnsOK(w)'  BY <2>1, TurnsSame
  <2>3. ASSUME NEW f PROVE ProblemsOK(f) => ProblemsOK(f)'
    <3>1. Existing(f)' = Existing(f)  BY <2>1 DEF Existing
    <3>2. \A p, op : Written(f[3], p, op)' <=> Written(f[3], p, op)
      BY <2>1 DEF Written
    <3> QED  BY <2>1, <3>1, <3>2, ProblemsSame
  <2> QED  BY <2>1, <2>2, <2>3 DEF ShareInv
<1>2. CASE GenNext
  <2>1. CASE \E c \in Commands : Launch(c)  BY <2>1, LaunchShares
  <2>2. ASSUME NEW w \in Ids, Draw(w) \/ Write(w) PROVE ShareInv'
    BY <2>2, DrawShares, WriteShares
  <2>3. ASSUME NEW w \in Ids, Crash(w) PROVE ShareInv'
    <3>1. crashes \in Nat /\ crashes' = crashes + 1
      BY <2>3, DataGenAssumption DEF GenInv, Crash
    <3>2. crashes' # 0  BY <3>1
    <3> QED  BY <3>2 DEF ShareInv
  <2> QED  BY <1>2, <2>1, <2>2, <2>3 DEF GenNext
<1> QED
  BY <1>1, <1>2 DEF Next, vars, PrepareRlvr, PrepareSft, Evaluate

\* The modes that one undisturbed command has once each state the same problems
\* in every file (work_function seeds again for every mode, _work_all_variants
\* writes all modes from the same chains): each process serves the entries of
\* listoperations in turn and shuffles equally often, so that the generator has
\* drawn the same when the same chain is due, whatever the pass.
THEOREM ModesStateTheSame == Spec => []ModesShareChains
<1>1. GenInv /\ QuotaInv /\ OccurInv /\ ShareInv => ModesShareChains
  <2> SUFFICES ASSUME GenInv, QuotaInv, OccurInv, ShareInv, Clean,
                      Len(commands) = 1, NEW f \in DOMAIN file
               PROVE  \A a, b \in ModesOf(cmd) :
                         Cardinality(Places(cmd, a)) = 1
                         /\ Cardinality(Places(cmd, b)) = 1
                           => Problems(file[f].lines, a)
                                = Problems(file[f].lines, b)
    BY DEF ModesShareChains
  <2>1. commands # <<>> /\ cmd \in Commands
    <3>1. Len(<<>>) = 0  OBVIOUS
    <3>2. commands # <<>>  BY <3>1
    <3> QED  BY <3>2, CommandFacts
  <2>2. /\ crashes = 0 /\ Idle /\ Serves(cmd, f) /\ f \in FileNames
        /\ ProblemsOK(f) /\ Existing(f) = file[f]
    BY DEF Clean, ShareInv, OccurInv, OwnLines, Existing
  <2>3. pc[f[3]] = "done"
    <3>1. f[3] \in Ids /\ f[3] < cmd.procs  BY <2>2 DEF FileNames, Serves
    <3>2. ProcessOK(f[3])  BY <2>2, <3>1 DEF QuotaInv
    <3>3. ~(f[3] >= cmd.procs)
      <4>1. f[3] \in Nat /\ cmd.procs \in Nat
        BY <2>1, <3>1, IdsAreNumbers, DataGenAssumption
      <4> QED  BY <3>1, <4>1
    <3>4. pc[f[3]] # "absent" /\ pc[f[3]] # "dead"
      BY <2>1, <3>2, <3>3 DEF ProcessOK
    <3> QED  BY <2>2, <3>1, <3>4 DEF GenInv, Idle, Alive
  <2>4. ASSUME NEW mode \in ModesOf(cmd), Cardinality(Places(cmd, mode)) = 1
        PROVE  Problems(file[f].lines, mode) = Deal(cmd, f)
    <3>1. /\ IsFiniteSet(Places(cmd, mode))
          /\ Places(cmd, mode) \subseteq AllPlaces(cmd)
      BY <2>1, PlacesFinite
    <3>2. PICK place : Places(cmd, mode) = {place}
      BY <2>4, <3>1, FS_Singleton
    <3>3. place \in AllPlaces(cmd) /\ mode \in KnownModes
      BY <2>1, <3>1, <3>2 DEF KnownModes
    <3>4. Written(f[3], place[1], f[2])  BY <2>3 DEF Written
    <3>5. Problems(Existing(f).lines, mode) = Deal(cmd, f)
      BY <2>2, <3>2, <3>3, <3>4 DEF ProblemsOK
    <3> QED  BY <2>2, <3>5
  <2> QED  BY <2>4
<1>2. Init => GenInv /\ QuotaInv /\ OccurInv /\ ShareInv
  BY GenInitInv, QuotaInitInv, OccurInitInv, ShareInitInv DEF Init
<1> QED
  BY <1>1, <1>2, GenStep, QuotaStep, OccurStep, ShareStep, PTL DEF Spec

-----------------------------------------------------------------------------
(* The graders *)

\* Where there is a single answer, the first one is the last one.
LEMMA SingleAnswer ==
    ASSUME NEW t \in Texts, CommitsOnce(t),
           NEW i \in At(t, {"answer"})
    PROVE  t[i][2] \in Extract(t)
<1>1. i \in DOMAIN t /\ t[i][1] = "answer" BY DEF At
<1>2. i \in At(t, {"answer", "lower"}) BY <1>1 DEF At
<1>3. IsLast(At(t, {"answer", "lower"}), i)
  <2>1. \A j \in At(t, {"answer", "lower"}) : j = i BY <1>2 DEF CommitsOnce
  <2>2. i \in Nat BY <1>1 DEF Texts
  <2> QED BY <1>2, <2>1, <2>2 DEF IsLast
<1>4. t[i][2] \in LastValue(t, {"answer", "lower"}) BY <1>1, <1>3 DEF LastValue
<1> QED BY <1>2, <1>4 DEF Extract

\* A text that commits itself once and passes the evaluation is rewarded.
LEMMA MatchScores ==
    ASSUME NEW t \in Texts, NEW gold, CommitsOnce(t), Match(t, gold)
    PROVE  Score(t, gold)
<1>1. gold \in {t[i][2] : i \in {k \in DOMAIN t :
                /\ IsFirst(At(t, {"answer"}), k) /\ EndsLine(t, k)}}
  BY DEF CommitsOnce, Match, Reading
<1>2. PICK i \in DOMAIN t : IsFirst(At(t, {"answer"}), i) /\ gold = t[i][2] BY <1>1
<1>3. i \in At(t, {"answer"}) BY <1>2 DEF IsFirst
<1>4. gold \in Extract(t) BY <1>2, <1>3, SingleAnswer
<1> QED BY <1>4 DEF Score

\* An answer that is well put and rewarded for a reduced gold answer passes the
\* evaluation: nothing but that answer has its residue.
LEMMA ScoreMatches ==
    ASSUME NEW t \in Texts, WellPut(t), NEW gold \in 0 .. Modulus - 1,
           Score(t, gold)
    PROVE  Match(t, gold)
<1>1. CommitsOnce(t) BY DEF WellPut
<1>2. PICK i \in At(t, {"answer"}) : EndsLine(t, i) /\ t[i][2] \in 0 .. Modulus - 1
  BY DEF WellPut
<1>3. i \in DOMAIN t /\ t[i][1] = "answer" /\ i \in Nat BY <1>2 DEF At, Texts
<1>4. \A j \in At(t, {"answer", "lower"}) : j = i BY <1>1, <1>3 DEF CommitsOnce, At
<1>5. i \in At(t, {"answer", "lower"}) BY <1>3 DEF At
<1>6. Extract(t) = LastValue(t, {"answer", "lower"}) BY <1>5 DEF Extract
<1>7. \A v \in Extract(t) : v = t[i][2]
  BY <1>4, <1>6 DEF LastValue, IsLast
<1>8. t[i][2] % Modulus = gold % Modulus BY <1>7 DEF Score
<1>9. t[i][2] = gold BY <1>2, <1>8, ModulusAssumption
<1>10. IsFirst(At(t, {"answer"}), i)
  <2>1. At(t, {"answer"}) \subseteq At(t, {"answer", "lower"}) BY DEF At
  <2> QED BY <1>2, <1>3, <1>4, <2>1 DEF IsFirst
<1>11. At(t, {"tag"}) = {} BY <1>1 DEF CommitsOnce
<1> QED BY <1>2, <1>3, <1>9, <1>10, <1>11 DEF Match, Reading

\* A recorded solution passes both graders against its own gold answer.
LEMMA SolutionPasses ==
    ASSUME NEW t \in Texts, IsSolution(t), NEW gold \in Gold(t)
    PROVE  Match(t, gold) /\ Score(t, gold)
<1> DEFINE n == Len(t)
<1>1. n \in DOMAIN t /\ t[n][1] = "answer" /\ n \in Nat BY DEF IsSolution, Texts
<1>2. At(t, {"answer", "lower", "tag", "newline"}) = {n} BY DEF IsSolution
<1>3. At(t, {"answer"}) = {n} BY <1>1, <1>2 DEF At
<1>4. At(t, {"tag"}) = {} BY <1>1, <1>2 DEF At
<1>5. At(t, {"answer", "lower"}) = {n} BY <1>1, <1>2 DEF At
<1>6. CommitsOnce(t) BY <1>4, <1>5 DEF CommitsOnce
<1>7. gold = t[n][2] BY <1>3 DEF Gold, LastValue, IsLast
<1>8. IsFirst(At(t, {"answer"}), n) BY <1>1, <1>3 DEF IsFirst
<1>9. EndsLine(t, n) BY DEF EndsLine
<1>10. Match(t, gold) BY <1>1, <1>4, <1>7, <1>8, <1>9 DEF Match, Reading
<1> QED BY <1>6, <1>10, MatchScores

\* Reward and evaluation (compute_score, exact_match), for every text, every gold
\* answer and every modulus: an answer that is well put gets the same verdict from
\* both, and any other single answer at most a reward that the evaluation denies.
THEOREM GradersAlwaysAgree == \A t \in Texts : \A gold : GradersAgree(t, gold)
<1> SUFFICES ASSUME NEW t \in Texts, NEW gold PROVE GradersAgree(t, gold) OBVIOUS
<1>1. CommitsOnce(t) /\ Match(t, gold) => Score(t, gold) BY MatchScores
<1>2. WellPut(t) /\ gold \in 0 .. Modulus - 1 => (Match(t, gold) <=> Score(t, gold))
  BY <1>1, ScoreMatches DEF WellPut
<1>3. IsSolution(t) /\ gold \in Gold(t) => Match(t, gold) /\ Score(t, gold)
  BY SolutionPasses
<1> QED BY <1>1, <1>2, <1>3 DEF GradersAgree

\* Whatever was generated, prepared and evaluated, reward and evaluation judged it
\* as GradersAgree says (exact_match of eval_pass1.py, compute_score of
\* rlvr_reward.py): with one verdict where the answer is well put.
THEOREM GradesAgree == Spec => []GradedAlike
<1> DEFINE Known == graded # <<>> => graded[1] \in Texts /\ graded[3] \in Texts
<1>1. Init => Known BY DEF Init
<1>2. Known /\ [Next]_vars => Known'
  <2> SUFFICES ASSUME Known, [Next]_vars PROVE Known' OBVIOUS
  <2>1. CASE UNCHANGED graded BY <2>1
  <2>2. CASE Evaluate
    <3>1. PICK t \in GenTexts, s \in Solutions :
                \E gold \in Gold(s) : graded' = <<t, gold, s>> BY <2>2 DEF Evaluate
    <3> QED BY <3>1, TextsAssumption
  <2> QED BY <2>1, <2>2 DEF Next, vars, prepVars, PrepareRlvr, PrepareSft
<1>3. Known => GradedAlike BY GradersAlwaysAgree DEF GradedAlike
<1> QED BY <1>1, <1>2, <1>3, PTL DEF Spec
=============================================================================
