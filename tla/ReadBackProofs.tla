--------------------------- MODULE ReadBackProofs ---------------------------
(***************************************************************************)
(* What a reader makes of a whole export, for every environment.  Induction *)
(* is over sets of numbers: the library's rule for operators cannot be     *)
(* cited, but a set of numbers has a least one.                            *)
(***************************************************************************)
EXTENDS RenderProofs, WellFoundedInduction, SequenceTheorems, FiniteSetTheorems

-----------------------------------------------------------------------------
(* Induction.                                                              *)

LEMMA LeastNumber ==
    ASSUME NEW T, T \subseteq Nat, T # {}
    PROVE  \E m \in T : \A k \in T : m <= k
<1> DEFINE R == {ss \in Nat \X Nat : ss[1] < ss[2]}
<1>1. IsWellFoundedOn(R, Nat)
  BY NatLessThanWellFounded DEF OpToRel
<1> HIDE DEF R
<1>2. PICK m \in T : \A k \in T : <<k, m>> \notin R
  BY <1>1, WFMin
<1>3. ASSUME NEW k \in T, k < m PROVE FALSE
  <2>1. <<k, m>> \in Nat \X Nat /\ <<k, m>>[1] = k /\ <<k, m>>[2] = m
    OBVIOUS
  <2>2. <<k, m>> \in R
    BY <1>3, <2>1 DEF R
  <2> QED
    BY <1>2, <2>2
<1> QED
  BY <1>3

(* Induction, with a set of numbers for the predicate.                     *)
LEMMA SetInduction ==
    ASSUME NEW T, 0 \in T, \A n \in Nat : n \in T => n + 1 \in T
    PROVE  Nat \subseteq T
<1> SUFFICES ASSUME Nat \ T # {} PROVE FALSE
  OBVIOUS
<1>1. PICK m \in Nat \ T : \A k \in Nat \ T : m <= k
  BY LeastNumber
<1>2. m # 0 /\ m - 1 \in Nat /\ ~(m <= m - 1)
  BY <1>1
<1>3. m - 1 \in T
  BY <1>1, <1>2
<1>4. (m - 1) + 1 \in T /\ (m - 1) + 1 = m
  BY <1>2, <1>3
<1> QED
  BY <1>1, <1>4

-----------------------------------------------------------------------------
(* A reader goes through a text by states of its own.                      *)

Path(format, text, path) ==
    /\ path = [n \in 0..Len(text) |-> path[n]]
    /\ \A n \in 1..Len(text) : path[n] = ReadStep(format, path[n - 1], text[n])

(* Reading the text takes the reader from r to s.                          *)
Reads(format, r, text, s) ==
    \E path : Path(format, text, path) /\ path[0] = r /\ path[Len(text)] = s

(* A path is what the recursive definition of AfterReading describes, and
   there is one such function alone.                                       *)
LEMMA ReadingIsDetermined ==
    ASSUME NEW format, NEW S, NEW text \in Seq(S), NEW s, Reads(format, Reader, text, s)
    PROVE  AfterReading(text, format) = s
<1>1. PICK path : Path(format, text, path) /\ path[0] = Reader /\ path[Len(text)] = s
  BY DEF Reads
<1> DEFINE Eq(f) == f = [n \in 0..Len(text) |->
                            IF n = 0 THEN Reader ELSE ReadStep(format, f[n - 1], text[n])]
           after == CHOOSE f : Eq(f)
<1>2. AfterReading(text, format) = after[Len(text)]
  BY DEF AfterReading
<1>3. Len(text) \in Nat
  OBVIOUS
<1>4. Eq(path)
  <2>1. ASSUME NEW n \in 0..Len(text)
        PROVE  path[n] = IF n = 0 THEN Reader ELSE ReadStep(format, path[n - 1], text[n])
    <3>1. CASE n = 0
      BY <1>1, <3>1
    <3>2. CASE n # 0
      <4>1. n \in 1..Len(text)
        BY <1>3, <3>2
      <4> QED
        BY <1>1, <3>2, <4>1 DEF Path
    <3> QED
      BY <3>1, <3>2
  <2> QED
    BY <1>1, <2>1 DEF Path
<1>5. Eq(after)
  BY <1>4
<1> HIDE DEF after
<1> DEFINE T == {n \in Nat : n <= Len(text) => after[n] = path[n]}
<1>6. 0 \in T
  BY <1>1, <1>3, <1>5
<1>7. ASSUME NEW n \in Nat, n \in T PROVE n + 1 \in T
  <2> SUFFICES ASSUME n + 1 <= Len(text) PROVE after[n + 1] = path[n + 1]
    OBVIOUS
  <2>1. n + 1 \in 0..Len(text) /\ n + 1 # 0 /\ (n + 1) - 1 = n /\ n <= Len(text)
    BY <1>3
  <2>2. after[n + 1] = ReadStep(format, after[n], text[n + 1])
    BY <1>5, <2>1
  <2>3. path[n + 1] = ReadStep(format, path[n], text[n + 1])
    BY <1>4, <2>1
  <2>4. after[n] = path[n]
    BY <1>7, <2>1
  <2> QED
    BY <2>2, <2>3, <2>4
<1>8. Len(text) \in T
  <2> HIDE DEF T
  <2> QED
    BY <1>3, <1>6, <1>7, SetInduction
<1> QED
  BY <1>1, <1>2, <1>3, <1>8

LEMMA ReadsNothing ==
    ASSUME NEW format, NEW r
    PROVE  Reads(format, r, <<>>, r)
<1> DEFINE path == [n \in 0..0 |-> r]
<1>1. Path(format, <<>>, path) /\ path[0] = r /\ path[Len(<<>>)] = r
  BY DEF Path
<1> QED
  BY <1>1 DEF Reads

LEMMA ReadsOne ==
    ASSUME NEW format, NEW r, NEW c
    PROVE  Reads(format, r, <<c>>, ReadStep(format, r, c))
<1> DEFINE s == ReadStep(format, r, c)
           path == [n \in 0..1 |-> IF n = 0 THEN r ELSE s]
<1>1. Len(<<c>>) = 1 /\ <<c>>[1] = c
  OBVIOUS
<1>2. path[0] = r /\ path[1] = s
  OBVIOUS
<1> HIDE DEF s
<1>3. \A n \in 1..1 : path[n] = ReadStep(format, path[n - 1], <<c>>[n])
  BY <1>1, <1>2 DEF s
<1>4. path = [n \in 0..1 |-> path[n]]
  OBVIOUS
<1> HIDE DEF path
<1>5. Path(format, <<c>>, path)
  BY <1>1, <1>3, <1>4 DEF Path
<1> QED
  BY <1>1, <1>2, <1>5 DEF Reads, s

(* A text after another is read from where the other has ended.            *)
LEMMA ReadsOn ==
    ASSUME NEW format, NEW S, NEW t \in Seq(S), NEW u \in Seq(S), NEW r, NEW s, NEW v,
           Reads(format, r, t, s), Reads(format, s, u, v)
    PROVE  Reads(format, r, t \o u, v)
<1>1. PICK p : Path(format, t, p) /\ p[0] = r /\ p[Len(t)] = s
  BY DEF Reads
<1>2. PICK q : Path(format, u, q) /\ q[0] = s /\ q[Len(u)] = v
  BY DEF Reads
<1>3. /\ Len(t) \in Nat /\ Len(u) \in Nat /\ Len(t \o u) = Len(t) + Len(u)
      /\ \A n \in 1..(Len(t) + Len(u)) :
            (t \o u)[n] = IF n <= Len(t) THEN t[n] ELSE u[n - Len(t)]
  BY ConcatProperties
<1> DEFINE N == Len(t) + Len(u)
           path == [n \in 0..N |-> IF n <= Len(t) THEN p[n] ELSE q[n - Len(t)]]
<1>4. /\ path[0] = r
      /\ path[N] = v
  BY <1>1, <1>2, <1>3
<1>5. ASSUME NEW n \in 1..N
      PROVE  path[n] = ReadStep(format, path[n - 1], (t \o u)[n])
  <2>1. n - 1 \in 0..N /\ n \in 0..N
    BY <1>3
  <2>2. CASE n <= Len(t)
    <3>1. n \in 1..Len(t)
      BY <1>3, <2>2
    <3>2. p[n] = ReadStep(format, p[n - 1], t[n])
      BY <1>1, <3>1 DEF Path
    <3>3. path[n] = p[n] /\ path[n - 1] = p[n - 1] /\ (t \o u)[n] = t[n]
      BY <1>3, <2>1, <2>2
    <3> QED
      BY <3>2, <3>3
  <2>3. CASE ~(n <= Len(t))
    <3> DEFINE m == n - Len(t)
    <3>1. m \in 1..Len(u) /\ m - 1 = (n - 1) - Len(t)
      BY <1>3, <2>3
    <3>2. q[m] = ReadStep(format, q[m - 1], u[m])
      BY <1>2, <3>1 DEF Path
    <3>3. path[n] = q[m] /\ (t \o u)[n] = u[m]
      BY <1>3, <2>1, <2>3
    <3>4. path[n - 1] = q[m - 1]
      <4>1. CASE n - 1 <= Len(t)
        <5>1. n - 1 = Len(t) /\ m - 1 = 0
          BY <1>3, <2>3, <4>1
        <5> QED
          BY <1>1, <1>2, <2>1, <5>1
      <4>2. CASE ~(n - 1 <= Len(t))
        BY <2>1, <3>1, <4>2
      <4> QED
        BY <4>1, <4>2
    <3> QED
      BY <3>2, <3>3, <3>4
  <2> QED
    BY <2>2, <2>3
<1>6. path = [n \in 0..N |-> path[n]]
  OBVIOUS
<1> HIDE DEF path
<1>7. Path(format, t \o u, path)
  BY <1>3, <1>5, <1>6 DEF Path
<1> QED
  BY <1>3, <1>4, <1>7 DEF Reads

-----------------------------------------------------------------------------
(* Concatenations.                                                         *)

(* The recursive definition of FlattenSeq has a function that satisfies it. *)
LEMMA Flattened ==
    ASSUME NEW seqs, Len(seqs) \in Nat \ {0}
    PROVE  \E g : /\ g[1] = seqs[1]
                  /\ \A i \in 2..Len(seqs) : g[i] = g[i - 1] \o seqs[i]
                  /\ FlattenSeq(seqs) = g[Len(seqs)]
<1> DEFINE Eq(f, n) == f = [i \in 1..n |-> IF i = 1 THEN seqs[i] ELSE f[i - 1] \o seqs[i]]
           T == {n \in Nat : \E f : Eq(f, n + 1)}
<1>1. 0 \in T
  <2>1. Eq([i \in 1..1 |-> seqs[1]], 1)
    OBVIOUS
  <2>2. 0 + 1 = 1
    OBVIOUS
  <2>3. Eq([i \in 1..1 |-> seqs[1]], 0 + 1)
    BY <2>1, <2>2
  <2> HIDE DEF Eq
  <2> QED
    BY <2>3
<1>2. ASSUME NEW n \in Nat, n \in T PROVE n + 1 \in T
  <2>1. PICK f : Eq(f, n + 1)
    BY <1>2
  <2> DEFINE g == [i \in 1..(n + 2) |-> IF i = n + 2 THEN f[n + 1] \o seqs[n + 2] ELSE f[i]]
  <2>2. ASSUME NEW i \in 1..(n + 2)
        PROVE  g[i] = IF i = 1 THEN seqs[i] ELSE g[i - 1] \o seqs[i]
    <3>1. CASE i = n + 2
      <4>1. i # 1 /\ i - 1 = n + 1 /\ n + 1 \in 1..(n + 2) /\ n + 1 # n + 2
        BY <3>1
      <4>2. g[i - 1] = f[n + 1]
        BY <4>1
      <4> QED
        BY <3>1, <4>1, <4>2
    <3>2. CASE i # n + 2
      <4>1. i \in 1..(n + 1)
        BY <3>2
      <4>2. g[i] = f[i]
        BY <3>2
      <4>3. i # 1 => i - 1 \in 1..(n + 2) /\ i - 1 # n + 2
        BY <4>1
      <4>4. i # 1 => g[i - 1] = f[i - 1]
        BY <4>3
      <4> QED
        BY <2>1, <4>1, <4>2, <4>4
    <3> QED
      BY <3>1, <3>2
  <2>3. Eq(g, n + 2)
    BY <2>2
  <2>4. (n + 1) + 1 = n + 2 /\ n + 1 \in Nat
    OBVIOUS
  <2> QED
    BY <2>3, <2>4
<1>3. Len(seqs) - 1 \in T
  <2> HIDE DEF T
  <2> QED
    BY <1>1, <1>2, SetInduction
<1>4. \E f : Eq(f, Len(seqs))
  <2>1. (Len(seqs) - 1) + 1 = Len(seqs)
    OBVIOUS
  <2>2. \E f : Eq(f, (Len(seqs) - 1) + 1)
    BY <1>3
  <2> HIDE DEF Eq
  <2> QED
    BY <2>1, <2>2
<1> DEFINE flatten == CHOOSE f : Eq(f, Len(seqs))
<1>5. Eq(flatten, Len(seqs))
  BY <1>4
<1>6. FlattenSeq(seqs) = flatten[Len(seqs)]
  BY DEF FlattenSeq
<1> HIDE DEF flatten
<1>7. /\ 1 \in 1..Len(seqs)
      /\ \A i \in 2..Len(seqs) : i \in 1..Len(seqs) /\ i # 1
  OBVIOUS
<1>8. /\ flatten[1] = seqs[1]
      /\ \A i \in 2..Len(seqs) : flatten[i] = flatten[i - 1] \o seqs[i]
  BY <1>5, <1>7
<1> QED
  BY <1>6, <1>8

(* Its values are texts.                                                   *)
LEMMA FlattenedTexts ==
    ASSUME NEW S, NEW seqs \in Seq(Seq(S)), seqs # <<>>
    PROVE  \E g : /\ g[1] = seqs[1]
                  /\ \A i \in 2..Len(seqs) : g[i] = g[i - 1] \o seqs[i]
                  /\ FlattenSeq(seqs) = g[Len(seqs)]
                  /\ \A i \in 1..Len(seqs) : g[i] \in Seq(S)
<1>1. Len(seqs) \in Nat \ {0}
  OBVIOUS
<1>2. PICK g : /\ g[1] = seqs[1]
               /\ \A i \in 2..Len(seqs) : g[i] = g[i - 1] \o seqs[i]
               /\ FlattenSeq(seqs) = g[Len(seqs)]
  BY <1>1, Flattened
<1>3. \A i \in 1..Len(seqs) : seqs[i] \in Seq(S)
  OBVIOUS
<1> DEFINE T == {n \in Nat : n + 1 <= Len(seqs) => g[n + 1] \in Seq(S)}
<1>4. 0 \in T
  <2>1. 1 \in 1..Len(seqs) /\ 0 + 1 = 1
    BY <1>1
  <2> QED
    BY <1>2, <1>3, <2>1
<1>5. ASSUME NEW n \in Nat, n \in T PROVE n + 1 \in T
  <2> SUFFICES ASSUME (n + 1) + 1 <= Len(seqs) PROVE g[(n + 1) + 1] \in Seq(S)
    OBVIOUS
  <2> DEFINE i == (n + 1) + 1
  <2>1. i \in 2..Len(seqs) /\ i \in 1..Len(seqs) /\ i - 1 = n + 1 /\ n + 1 <= Len(seqs)
    BY <1>1
  <2>2. g[i - 1] \in Seq(S)
    BY <1>5, <2>1
  <2>3. g[i] = g[i - 1] \o seqs[i] /\ seqs[i] \in Seq(S)
    BY <1>2, <1>3, <2>1
  <2> HIDE DEF i
  <2>4. g[i] \in Seq(S)
    BY <2>2, <2>3, ConcatProperties
  <2> QED
    BY <2>4 DEF i
<1>6. ASSUME NEW i \in 1..Len(seqs) PROVE g[i] \in Seq(S)
  <2>1. i - 1 \in T
    <3> HIDE DEF T
    <3>1. i - 1 \in Nat
      OBVIOUS
    <3> QED
      BY <1>4, <1>5, <3>1, SetInduction
  <2>2. (i - 1) + 1 = i /\ i <= Len(seqs)
    BY <1>1
  <2> QED
    BY <2>1, <2>2
<1> QED
  BY <1>2, <1>6

LEMMA FlattenType ==
    ASSUME NEW S, NEW seqs \in Seq(Seq(S))
    PROVE  FlattenSeq(seqs) \in Seq(S)
<1>1. CASE seqs = <<>>
  BY <1>1 DEF FlattenSeq
<1>2. CASE seqs # <<>>
  <2>1. Len(seqs) \in 1..Len(seqs)
    BY <1>2
  <2> QED
    BY <1>2, <2>1, FlattenedTexts
<1> QED
  BY <1>1, <1>2

(* A reader that passes through the states q, one for each piece.          *)
LEMMA ReadsPieces ==
    ASSUME NEW format, NEW S, NEW seqs \in Seq(Seq(S)), NEW q,
           \A i \in 1..Len(seqs) : Reads(format, q[i - 1], seqs[i], q[i])
    PROVE  Reads(format, q[0], FlattenSeq(seqs), q[Len(seqs)])
<1>1. CASE seqs = <<>>
  <2>1. FlattenSeq(seqs) = <<>> /\ Len(seqs) = 0
    BY <1>1 DEF FlattenSeq
  <2> QED
    BY <2>1, ReadsNothing
<1>2. CASE seqs # <<>>
  <2>1. Len(seqs) \in Nat \ {0}
    BY <1>2
  <2>2. PICK g : /\ g[1] = seqs[1]
                 /\ \A i \in 2..Len(seqs) : g[i] = g[i - 1] \o seqs[i]
                 /\ FlattenSeq(seqs) = g[Len(seqs)]
                 /\ \A i \in 1..Len(seqs) : g[i] \in Seq(S)
    BY <1>2, FlattenedTexts
  <2> DEFINE T == {n \in Nat : n + 1 <= Len(seqs) =>
                                  Reads(format, q[0], g[n + 1], q[n + 1])}
  <2>3. 0 \in T
    <3>1. 1 \in 1..Len(seqs) /\ 1 - 1 = 0 /\ 0 + 1 = 1
      BY <2>1
    <3>2. Reads(format, q[0], g[1], q[1])
      BY <2>2, <3>1
    <3> QED
      BY <3>1, <3>2
  <2>4. ASSUME NEW n \in Nat, n \in T PROVE n + 1 \in T
    <3> SUFFICES ASSUME (n + 1) + 1 <= Len(seqs)
                 PROVE  Reads(format, q[0], g[(n + 1) + 1], q[(n + 1) + 1])
      OBVIOUS
    <3> DEFINE i == (n + 1) + 1
    <3>1. /\ i \in 2..Len(seqs) /\ i \in 1..Len(seqs) /\ i - 1 = n + 1
          /\ n + 1 <= Len(seqs) /\ i - 1 \in 1..Len(seqs)
      BY <2>1
    <3>2. Reads(format, q[0], g[i - 1], q[i - 1])
      BY <2>4, <3>1
    <3>3. /\ g[i] = g[i - 1] \o seqs[i] /\ seqs[i] \in Seq(S) /\ g[i - 1] \in Seq(S)
          /\ Reads(format, q[i - 1], seqs[i], q[i])
      BY <2>2, <3>1, ElementOfSeq
    <3> HIDE DEF i
    <3>4. Reads(format, q[0], g[i], q[i])
      BY <3>2, <3>3, ReadsOn
    <3> QED
      BY <3>4 DEF i
  <2>5. Len(seqs) - 1 \in T
    <3> HIDE DEF T
    <3>1. Len(seqs) - 1 \in Nat
      BY <2>1
    <3> QED
      BY <2>3, <2>4, <3>1, SetInduction
  <2>6. (Len(seqs) - 1) + 1 = Len(seqs)
    BY <2>1
  <2> QED
    BY <2>1, <2>2, <2>5, <2>6
<1> QED
  BY <1>1, <1>2

-----------------------------------------------------------------------------
(* Characters: at least the bytes, at most all numbers.                    *)

Alphabet(S) == 0..255 \subseteq S /\ S \subseteq Nat

LEMMA TwoCharacters ==
    ASSUME NEW S, NEW a \in S, NEW b \in S
    PROVE  <<a, b>> = <<a>> \o <<b>> /\ <<a>> \in Seq(S) /\ <<b>> \in Seq(S)
<1>1. <<a>> \in Seq(S) /\ <<b>> \in Seq(S) /\ <<a, b>> \in Seq(S)
  OBVIOUS
<1> DEFINE t == <<a>> \o <<b>>
<1>2. t \in Seq(S) /\ Len(t) = 2 /\ t[1] = a /\ t[2] = b
  BY <1>1, ConcatProperties
<1>3. Len(<<a, b>>) = 2 /\ <<a, b>>[1] = a /\ <<a, b>>[2] = b
  OBVIOUS
<1>4. \A i \in 1..2 : i = 1 \/ i = 2
  OBVIOUS
<1> HIDE DEF t
<1>5. t = <<a, b>>
  BY <1>1, <1>2, <1>3, <1>4, SeqEqual
<1> QED
  BY <1>1, <1>5 DEF t

LEMMA PieceType ==
    ASSUME NEW S, Alphabet(S), NEW c \in S
    PROVE  /\ DotenvPiece(c) \in Seq(S)
           /\ ShellPiece(c) \in Seq(S)
           /\ JsonPiece(c) \in Seq(S)
<1>1. \A n \in 0..255 : n \in S
  BY DEF Alphabet
<1>2. /\ {Quote, Backslash, Apostrophe} \subseteq S
      /\ {48, 98, 102, 110, 114, 116, 117} \subseteq S
  BY <1>1 DEF Quote, Backslash, Apostrophe
<1>3. DotenvPiece(c) \in Seq(S)
  <2>1. \/ DotenvPiece(c) = <<c>>
        \/ \E d \in {c, 110, 114} : DotenvPiece(c) = <<Backslash, d>>
    BY DEF DotenvPiece
  <2>2. \A d \in {c, 110, 114} : <<Backslash, d>> \in Seq(S)
    BY <1>2
  <2>3. <<c>> \in Seq(S)
    OBVIOUS
  <2> QED
    BY <2>1, <2>2, <2>3, Zenon
<1>4. ShellPiece(c) \in Seq(S)
  BY <1>2 DEF ShellPiece
<1>5. JsonPiece(c) \in Seq(S)
  <2>1. CASE c \in 0..31
    <3>1. c \div 16 \in 0..15 /\ c % 16 \in 0..15
      BY <2>1
    <3>2. Hex(c \div 16) \in S /\ Hex(c % 16) \in S
      BY <1>1, <3>1 DEF Hex
    <3> DEFINE long == <<Backslash, 117, 48, 48, Hex(c \div 16), Hex(c % 16)>>
    <3>3. long \in Seq(S)
      BY <1>2, <3>2
    <3>4. \A d \in {98, 102, 110, 114, 116, c} : <<Backslash, d>> \in Seq(S)
      BY <1>2
    <3>5. \/ \E d \in {98, 102, 110, 114, 116, c} : JsonPiece(c) = <<Backslash, d>>
          \/ JsonPiece(c) = long
          \/ JsonPiece(c) = <<c>>
      BY <2>1 DEF JsonPiece
    <3>6. <<c>> \in Seq(S)
      OBVIOUS
    <3> HIDE DEF long
    <3>7. CASE \E d \in {98, 102, 110, 114, 116, c} : JsonPiece(c) = <<Backslash, d>>
      <4>1. PICK d \in {98, 102, 110, 114, 116, c} : JsonPiece(c) = <<Backslash, d>>
        BY <3>7
      <4> QED
        BY <3>4, <4>1
    <3> QED
      BY <3>3, <3>5, <3>6, <3>7
  <2>2. CASE c \notin 0..31
    <3>1. JsonPiece(c) = <<Backslash, c>> \/ JsonPiece(c) = <<c>>
      BY <2>2 DEF JsonPiece, Backspace, FormFeed, NewLine, Return, Tab
    <3>2. <<c>> \in Seq(S) /\ <<Backslash, c>> \in Seq(S)
      BY <1>2
    <3> QED
      BY <3>1, <3>2, Zenon
  <2> QED
    BY <2>1, <2>2
<1> QED
  BY <1>3, <1>4, <1>5

(* Which reader reads which format.                                        *)
LEMMA Readers ==
    ASSUME NEW r, NEW c
    PROVE  /\ \A format \in {"dotenv", "dotenv-export"} :
                 ReadStep(format, r, c) = DotenvStep(r, c)
           /\ ReadStep("dotenv-eval", r, c) = ShellStep(r, c)
           /\ \A format \in {"json", "yaml"} : ReadStep(format, r, c) = JsonStep(r, c)
BY DEF ReadStep

LEMMA ReadsTwo ==
    ASSUME NEW format, NEW S, NEW a \in S, NEW b \in S, NEW r
    PROVE  Reads(format, r, <<a, b>>, ReadStep(format, ReadStep(format, r, a), b))
<1>1. <<a, b>> = <<a>> \o <<b>> /\ <<a>> \in Seq(S) /\ <<b>> \in Seq(S)
  BY TwoCharacters
<1>2. Reads(format, r, <<a>>, ReadStep(format, r, a))
  BY ReadsOne
<1>3. Reads(format, ReadStep(format, r, a), <<b>>,
            ReadStep(format, ReadStep(format, r, a), b))
  BY ReadsOne
<1> HIDE DEF Reads
<1> QED
  BY <1>1, <1>2, <1>3, ReadsOn

(* The pieces that the formats have for one character.                     *)
LEMMA DotenvPieceRead ==
    ASSUME NEW S, Alphabet(S), NEW N, NEW F, NEW r \in In("quoted", N, F), NEW c \in S,
           NEW format \in {"dotenv", "dotenv-export"}
    PROVE  Reads(format, r, DotenvPiece(c), Take(r, c))
<1> DEFINE p == DotenvPiece(c)
<1>1. c \in Nat /\ p \in Seq(S)
  BY PieceType DEF Alphabet
<1>2. DotenvAfter(r, p) = Take(r, c)
  BY <1>1, DotenvCharacterReadsBack
<1>3. (\E a : p = <<a>>) \/ (\E a, b : p = <<a, b>>)
  BY DEF DotenvPiece
<1> HIDE DEF p
<1>4. CASE \E a : p = <<a>>
  <2>1. Len(p) = 1 /\ p = <<p[1]>>
    BY <1>4
  <2>2. ReadStep(format, r, p[1]) = Take(r, c)
    BY <1>2, <2>1, Readers DEF DotenvAfter
  <2>3. Reads(format, r, <<p[1]>>, ReadStep(format, r, p[1]))
    BY ReadsOne
  <2> QED
    BY <2>1, <2>2, <2>3 DEF p
<1>5. CASE \E a, b : p = <<a, b>>
  <2>1. Len(p) = 2 /\ p = <<p[1], p[2]>> /\ p[1] \in S /\ p[2] \in S
    BY <1>1, <1>5
  <2>2. ReadStep(format, ReadStep(format, r, p[1]), p[2]) = Take(r, c)
    BY <1>2, <2>1, Readers DEF DotenvAfter
  <2>3. Reads(format, r, <<p[1], p[2]>>, ReadStep(format, ReadStep(format, r, p[1]), p[2]))
    BY <2>1, ReadsTwo
  <2> QED
    BY <2>1, <2>2, <2>3 DEF p
<1> QED
  BY <1>3, <1>4, <1>5

LEMMA ShellPieceRead ==
    ASSUME NEW S, Alphabet(S), NEW N, NEW F, NEW r \in In("quoted", N, F), NEW c \in S
    PROVE  Reads("dotenv-eval", r, ShellPiece(c), Take(r, c))
<1> DEFINE p == ShellPiece(c)
           f == "dotenv-eval"
<1>1. c \in Nat /\ p \in Seq(S)
  BY PieceType DEF Alphabet
<1>2. ShellAfter(r, p) = Take(r, c)
  BY <1>1, ShellCharacterReadsBack
<1>3. (\E a : p = <<a>>) \/ (\E a, b, d, e : p = <<a, b, d, e>>)
  BY DEF ShellPiece
<1> HIDE DEF p, f
<1>0. \A s, d : ReadStep(f, s, d) = ShellStep(s, d)
  BY Readers DEF f
<1>4. CASE \E a : p = <<a>>
  <2>1. Len(p) = 1 /\ p = <<p[1]>>
    BY <1>4
  <2>2. ReadStep(f, r, p[1]) = Take(r, c)
    BY <1>0, <1>2, <2>1 DEF ShellAfter
  <2>3. Reads(f, r, <<p[1]>>, ReadStep(f, r, p[1]))
    BY ReadsOne
  <2> QED
    BY <2>1, <2>2, <2>3 DEF p, f
<1>5. CASE \E a, b, d, e : p = <<a, b, d, e>>
  <2>1. /\ Len(p) = 4 /\ p = <<p[1], p[2], p[3], p[4]>>
        /\ p[1] \in S /\ p[2] \in S /\ p[3] \in S /\ p[4] \in S
    BY <1>1, <1>5
  <2> DEFINE s == ReadStep(f, ReadStep(f, r, p[1]), p[2])
             t == ReadStep(f, ReadStep(f, s, p[3]), p[4])
  <2>2. t = Take(r, c)
    BY <1>0, <1>2, <2>1 DEF ShellAfter
  <2>3. Reads(f, r, <<p[1], p[2]>>, s) /\ Reads(f, s, <<p[3], p[4]>>, t)
    BY <2>1, ReadsTwo
  <2> HIDE DEF s, t
  <2>4. /\ p = <<p[1], p[2]>> \o <<p[3], p[4]>>
        /\ <<p[1], p[2]>> \in Seq(S) /\ <<p[3], p[4]>> \in Seq(S)
    BY <2>1
  <2>5. Reads(f, r, p, t)
    BY <2>3, <2>4, ReadsOn
  <2> QED
    BY <2>2, <2>5 DEF p, f
<1> QED
  BY <1>3, <1>4, <1>5

LEMMA JsonPieceRead ==
    ASSUME NEW S, Alphabet(S), NEW N, NEW F, NEW r \in In("string", N, F), NEW c \in S,
           NEW f \in {"json", "yaml"}
    PROVE  Reads(f, r, JsonPiece(c), Take(r, c))
<1> DEFINE p == JsonPiece(c)
<1>1. c \in Nat /\ p \in Seq(S)
  BY PieceType DEF Alphabet
<1>2. JsonAfter(r, p) = Take(r, c)
  BY <1>1, JsonCharacterReadsBack
<1>3. \/ \E a : p = <<a>>
      \/ \E a, b : p = <<a, b>>
      \/ \E a, b, d, e, g, h : p = <<a, b, d, e, g, h>>
  BY DEF JsonPiece
<1> HIDE DEF p
<1>0. \A s, d : ReadStep(f, s, d) = JsonStep(s, d)
  BY Readers
<1>4. CASE \E a : p = <<a>>
  <2>1. Len(p) = 1 /\ p = <<p[1]>>
    BY <1>4
  <2>2. ReadStep(f, r, p[1]) = Take(r, c)
    BY <1>0, <1>2, <2>1 DEF JsonAfter
  <2>3. Reads(f, r, <<p[1]>>, ReadStep(f, r, p[1]))
    BY ReadsOne
  <2> QED
    BY <2>1, <2>2, <2>3 DEF p
<1>5. CASE \E a, b : p = <<a, b>>
  <2>1. Len(p) = 2 /\ p = <<p[1], p[2]>> /\ p[1] \in S /\ p[2] \in S
    BY <1>1, <1>5
  <2>2. ReadStep(f, ReadStep(f, r, p[1]), p[2]) = Take(r, c)
    BY <1>0, <1>2, <2>1 DEF JsonAfter
  <2>3. Reads(f, r, <<p[1], p[2]>>, ReadStep(f, ReadStep(f, r, p[1]), p[2]))
    BY <2>1, ReadsTwo
  <2> QED
    BY <2>1, <2>2, <2>3 DEF p
<1>6. CASE \E a, b, d, e, g, h : p = <<a, b, d, e, g, h>>
  <2>1. /\ Len(p) = 6 /\ p = <<p[1], p[2], p[3], p[4], p[5], p[6]>>
        /\ p[1] \in S /\ p[2] \in S /\ p[3] \in S /\ p[4] \in S
        /\ p[5] \in S /\ p[6] \in S
    BY <1>1, <1>6
  <2> DEFINE s == ReadStep(f, ReadStep(f, r, p[1]), p[2])
             t == ReadStep(f, ReadStep(f, s, p[3]), p[4])
             u == ReadStep(f, ReadStep(f, t, p[5]), p[6])
  <2>2. u = Take(r, c)
    <3>1. t = JsonAfter4(r, p)
      BY <1>0 DEF JsonAfter4
    <3> HIDE DEF t
    <3> QED
      BY <1>0, <1>2, <2>1, <3>1 DEF JsonAfter
  <2>3. /\ Reads(f, r, <<p[1], p[2]>>, s) /\ Reads(f, s, <<p[3], p[4]>>, t)
        /\ Reads(f, t, <<p[5], p[6]>>, u)
    BY <2>1, ReadsTwo
  <2> HIDE DEF s, t, u
  <2>4. /\ <<p[1], p[2], p[3], p[4]>> = <<p[1], p[2]>> \o <<p[3], p[4]>>
        /\ p = <<p[1], p[2], p[3], p[4]>> \o <<p[5], p[6]>>
        /\ <<p[1], p[2]>> \in Seq(S) /\ <<p[3], p[4]>> \in Seq(S)
        /\ <<p[5], p[6]>> \in Seq(S) /\ <<p[1], p[2], p[3], p[4]>> \in Seq(S)
    BY <2>1
  <2>5. Reads(f, r, <<p[1], p[2], p[3], p[4]>>, t)
    BY <2>3, <2>4, ReadsOn
  <2>6. Reads(f, r, p, u)
    BY <2>3, <2>4, <2>5, ReadsOn
  <2> QED
    BY <2>2, <2>6 DEF p
<1> QED
  BY <1>3, <1>4, <1>5, <1>6

-----------------------------------------------------------------------------
(* States of a reader, and quoted texts.                                   *)

State(mode, name, text, found) ==
    [mode |-> mode, name |-> name, text |-> text, found |-> found]

(* Between two variables.                                                  *)
Between(found) == State("name", <<>>, <<>>, found)

LEMMA StateFields ==
    ASSUME NEW mode, NEW n, NEW t, NEW f
    PROVE  /\ State(mode, n, t, f).mode = mode
           /\ State(mode, n, t, f).name = n
           /\ State(mode, n, t, f).text = t
           /\ State(mode, n, t, f).found = f
BY DEF State

LEMMA GotoStep ==
    ASSUME NEW mode, NEW n, NEW t, NEW f, NEW m
    PROVE  Goto(State(mode, n, t, f), m) = State(m, n, t, f)
BY DEF State, Goto

LEMMA AssignedStep ==
    ASSUME NEW r
    PROVE  Assigned(r) = Between(Append(r.found, <<r.name, r.text>>))
<1> DEFINE g == Append(r.found, <<r.name, r.text>>)
<1>1. Assigned(r) = [Reader EXCEPT !.found = g]
  BY DEF Assigned
<1> HIDE DEF g
<1>2. [Reader EXCEPT !.found = g] = Between(g)
  BY DEF State, Reader, Between
<1> QED
  BY <1>1, <1>2 DEF g

LEMMA TakeStep ==
    ASSUME NEW mode, NEW n, NEW t, NEW f, NEW c
    PROVE  Take(State(mode, n, t, f), c) = State(mode, n, Append(t, c), f)
BY DEF State, Take

(* A beginning of a text, and the next character.                          *)
LEMMA Beginnings ==
    ASSUME NEW S, NEW s \in Seq(S)
    PROVE  /\ SubSeq(s, 1, 0) = <<>>
           /\ SubSeq(s, 1, Len(s)) = s
           /\ \A i \in 1..Len(s) : /\ SubSeq(s, 1, i - 1) \in Seq(S)
                                   /\ s[i] \in S
                                   /\ Append(SubSeq(s, 1, i - 1), s[i]) = SubSeq(s, 1, i)
<1>1. SubSeq(s, 1, 0) = <<>> /\ SubSeq(s, 1, Len(s)) = s
  BY SubSeqEmpty, SubSeqFull
<1>2. ASSUME NEW i \in 1..Len(s)
      PROVE  /\ SubSeq(s, 1, i - 1) \in Seq(S)
             /\ s[i] \in S
             /\ Append(SubSeq(s, 1, i - 1), s[i]) = SubSeq(s, 1, i)
  <2>1. s[i] \in S /\ \A j \in 1..(i - 1) : s[j] \in S
    BY ElementOfSeq
  <2>2. SubSeq(s, 1, i - 1) \in Seq(S)
    BY <2>1, SubSeqProperties
  <2>3. SubSeq(s, 1, i) = SubSeq(s, 1, i - 1) \o <<s[i]>>
    <3>1. 1 \in 1..Len(s)
      OBVIOUS
    <3> QED
      BY <3>1, SubSeqRecursiveSecond
  <2> QED
    BY <2>1, <2>2, <2>3, AppendIsConcat
<1> QED
  BY <1>1, <1>2

(* A reader that takes every character of a value as itself takes the value. *)
LEMMA ReadsValue ==
    ASSUME NEW format, NEW S, Alphabet(S), NEW mode, NEW n, NEW f,
           NEW value \in Seq(S), NEW pieces \in Seq(Seq(S)), Len(pieces) = Len(value),
           \A i \in 1..Len(value) : \A r \in In(mode, {n}, {f}) :
               Reads(format, r, pieces[i], Take(r, value[i]))
    PROVE  Reads(format, State(mode, n, <<>>, f), FlattenSeq(pieces),
                 State(mode, n, value, f))
<1> DEFINE q == [i \in 0..Len(value) |-> State(mode, n, SubSeq(value, 1, i), f)]
<1>1. Len(value) \in Nat
  OBVIOUS
<1>2. q[0] = State(mode, n, <<>>, f) /\ q[Len(value)] = State(mode, n, value, f)
  <2>1. q[0] = State(mode, n, SubSeq(value, 1, 0), f)
    BY <1>1
  <2>2. q[Len(value)] = State(mode, n, SubSeq(value, 1, Len(value)), f)
    BY <1>1
  <2> HIDE DEF q
  <2> QED
    BY <2>1, <2>2, Beginnings
<1>3. ASSUME NEW i \in 1..Len(value) PROVE Reads(format, q[i - 1], pieces[i], q[i])
  <2> DEFINE r == State(mode, n, SubSeq(value, 1, i - 1), f)
  <2>1. q[i - 1] = r /\ q[i] = State(mode, n, SubSeq(value, 1, i), f)
    BY <1>1
  <2>2. r \in In(mode, {n}, {f})
    <3>1. SubSeq(value, 1, i - 1) \in Seq(Nat)
      BY Beginnings, SeqMonotonic DEF Alphabet
    <3> QED
      BY <3>1 DEF In, State
  <2>3. Take(r, value[i]) = State(mode, n, SubSeq(value, 1, i), f)
    <3> DEFINE t == SubSeq(value, 1, i - 1)
               v == SubSeq(value, 1, i)
               c == value[i]
    <3>1. Append(t, c) = v
      BY Beginnings
    <3> HIDE DEF t, v, c
    <3>2. Take(State(mode, n, t, f), c) = State(mode, n, Append(t, c), f)
      BY TakeStep
    <3>3. State(mode, n, Append(t, c), f) = State(mode, n, v, f)
      BY <3>1
    <3> QED
      BY <3>2, <3>3 DEF t, v, c
  <2> HIDE DEF q, r
  <2> QED
    BY <2>1, <2>2, <2>3
<1> HIDE DEF q
<1> QED
  BY <1>2, <1>3, ReadsPieces

(* Pieces are texts, and so is what is mapped.                             *)
LEMMA MappedType ==
    ASSUME NEW S, Alphabet(S), NEW value \in Seq(S)
    PROVE  /\ Mapped(value, DotenvPiece) \in Seq(S)
           /\ Mapped(value, ShellPiece) \in Seq(S)
           /\ Mapped(value, JsonPiece) \in Seq(S)
           /\ [i \in DOMAIN value |-> DotenvPiece(value[i])] \in Seq(Seq(S))
           /\ [i \in DOMAIN value |-> ShellPiece(value[i])] \in Seq(Seq(S))
           /\ [i \in DOMAIN value |-> JsonPiece(value[i])] \in Seq(Seq(S))
<1>1. Len(value) \in Nat /\ DOMAIN value = 1..Len(value)
      /\ \A i \in 1..Len(value) : value[i] \in S
  BY ElementOfSeq
<1>2. /\ [i \in DOMAIN value |-> DotenvPiece(value[i])] \in Seq(Seq(S))
      /\ [i \in DOMAIN value |-> ShellPiece(value[i])] \in Seq(Seq(S))
      /\ [i \in DOMAIN value |-> JsonPiece(value[i])] \in Seq(Seq(S))
  <2>1. \A i \in 1..Len(value) : /\ DotenvPiece(value[i]) \in Seq(S)
                                 /\ ShellPiece(value[i]) \in Seq(S)
                                 /\ JsonPiece(value[i]) \in Seq(S)
    BY <1>1, PieceType
  <2> QED
    BY <1>1, <2>1
<1>3. /\ Mapped(value, DotenvPiece) = FlattenSeq([i \in DOMAIN value |-> DotenvPiece(value[i])])
      /\ Mapped(value, ShellPiece) = FlattenSeq([i \in DOMAIN value |-> ShellPiece(value[i])])
      /\ Mapped(value, JsonPiece) = FlattenSeq([i \in DOMAIN value |-> JsonPiece(value[i])])
  BY DEF Mapped
<1>4. /\ FlattenSeq([i \in DOMAIN value |-> DotenvPiece(value[i])]) \in Seq(S)
      /\ FlattenSeq([i \in DOMAIN value |-> ShellPiece(value[i])]) \in Seq(S)
      /\ FlattenSeq([i \in DOMAIN value |-> JsonPiece(value[i])]) \in Seq(S)
  BY <1>2, FlattenType
<1> QED
  BY <1>2, <1>3, <1>4

(* The readers' steps at the ends of a quoted text.                        *)
LEMMA QuoteSteps ==
    ASSUME NEW r
    PROVE  /\ r.mode = "value" => DotenvStep(r, Quote) = Goto(r, "quoted")
           /\ r.mode = "quoted" => DotenvStep(r, Quote) = Goto(r, "end")
           /\ r.mode = "value" => ShellStep(r, Apostrophe) = Goto(r, "quoted")
           /\ r.mode = "quoted" => ShellStep(r, Apostrophe) = Goto(r, "value")
           /\ r.mode = "name" => JsonStep(r, Quote) = Goto(r, "string")
           /\ r.mode = "string" => JsonStep(r, Quote) = Goto(r, "end")
<1>1. /\ r.mode = "value" => DotenvStep(r, Quote) = Goto(r, "quoted")
      /\ r.mode = "quoted" => DotenvStep(r, Quote) = Goto(r, "end")
  BY DEF DotenvStep, Quote, Backslash, NewLine, Return
<1>2. /\ r.mode = "value" => ShellStep(r, Apostrophe) = Goto(r, "quoted")
      /\ r.mode = "quoted" => ShellStep(r, Apostrophe) = Goto(r, "value")
  BY DEF ShellStep, Apostrophe, Backslash, NewLine
<1>3. /\ r.mode = "name" => JsonStep(r, Quote) = Goto(r, "string")
      /\ r.mode = "string" => JsonStep(r, Quote) = Goto(r, "end")
  <2>1. JsonName(r, Quote) = Goto(r, "string")
    BY DEF JsonName, Quote, NewLine, Space
  <2>2. JsonString(r, Quote) = Goto(r, "end")
    BY DEF JsonString, Quote, Backslash
  <2>3. r.mode = "name" => JsonStep(r, Quote) = JsonName(r, Quote)
    BY DEF JsonStep
  <2>4. r.mode = "string" => JsonStep(r, Quote) = JsonString(r, Quote)
    BY DEF JsonStep
  <2> QED
    BY <2>1, <2>2, <2>3, <2>4
<1> QED
  BY <1>1, <1>2, <1>3

LEMMA ReadsStep ==
    ASSUME NEW format, NEW mode, NEW n, NEW t, NEW f, NEW c, NEW m,
           ReadStep(format, State(mode, n, t, f), c) = Goto(State(mode, n, t, f), m)
    PROVE  Reads(format, State(mode, n, t, f), <<c>>, State(m, n, t, f))
<1>1. Goto(State(mode, n, t, f), m) = State(m, n, t, f)
  BY GotoStep
<1>2. Reads(format, State(mode, n, t, f), <<c>>, ReadStep(format, State(mode, n, t, f), c))
  BY ReadsOne
<1> HIDE DEF Reads, State, Goto, ReadStep
<1> QED
  BY <1>1, <1>2

(* A text between two quotes.                                              *)
LEMMA Enclosed ==
    ASSUME NEW format, NEW S, NEW c \in S, NEW m \in Seq(S), NEW a, NEW b, NEW d, NEW e,
           Reads(format, a, <<c>>, b), Reads(format, b, m, d), Reads(format, d, <<c>>, e)
    PROVE  /\ <<c>> \o m \o <<c>> \in Seq(S)
           /\ Reads(format, a, <<c>> \o m \o <<c>>, e)
<1> DEFINE q == <<c>>
<1>1. q \in Seq(S)
  OBVIOUS
<1>2. Reads(format, a, q, b) /\ Reads(format, d, q, e)
  OBVIOUS
<1> HIDE DEF q
<1>3. q \o m \in Seq(S)
  BY <1>1, ConcatProperties
<1>4. (q \o m) \o q \in Seq(S)
  BY <1>1, <1>3, ConcatProperties
<1>5. Reads(format, a, q \o m, d)
  BY <1>1, <1>2, ReadsOn
<1>6. Reads(format, a, (q \o m) \o q, e)
  BY <1>1, <1>2, <1>3, <1>5, ReadsOn
<1> QED
  BY <1>4, <1>6 DEF q

(* A quoted value, from its opening quote to its closing one.              *)
LEMMA DotenvQuotedRead ==
    ASSUME NEW S, Alphabet(S), NEW n, NEW f, NEW value \in Seq(S),
           NEW format \in {"dotenv", "dotenv-export"}
    PROVE  /\ DotenvQuoted(value) \in Seq(S)
           /\ Reads(format, State("value", n, <<>>, f), DotenvQuoted(value),
                    State("end", n, value, f))
<1> DEFINE m == Mapped(value, DotenvPiece)
           pieces == [i \in DOMAIN value |-> DotenvPiece(value[i])]
<1>1. pieces \in Seq(Seq(S)) /\ m \in Seq(S)
  BY MappedType
<1>2. m = FlattenSeq(pieces)
  BY DEF Mapped
<1>3. Len(pieces) = Len(value) /\ \A i \in 1..Len(value) : pieces[i] = DotenvPiece(value[i])
  OBVIOUS
<1> HIDE DEF m, pieces
<1>4. Reads(format, State("value", n, <<>>, f), <<Quote>>, State("quoted", n, <<>>, f))
  BY QuoteSteps, StateFields, Readers, ReadsStep
<1>5. Reads(format, State("quoted", n, value, f), <<Quote>>, State("end", n, value, f))
  BY QuoteSteps, StateFields, Readers, ReadsStep
<1>6. ASSUME NEW i \in 1..Len(value), NEW r \in In("quoted", {n}, {f})
      PROVE  Reads(format, r, pieces[i], Take(r, value[i]))
  BY <1>3, ElementOfSeq, DotenvPieceRead
<1>7. Reads(format, State("quoted", n, <<>>, f), m, State("quoted", n, value, f))
  BY <1>1, <1>2, <1>3, <1>6, ReadsValue
<1>8. Quote \in S
  BY DEF Alphabet, Quote
<1>9. DotenvQuoted(value) = <<Quote>> \o m \o <<Quote>>
  BY DEF DotenvQuoted, m
<1>10. /\ <<Quote>> \o m \o <<Quote>> \in Seq(S)
       /\ Reads(format, State("value", n, <<>>, f), <<Quote>> \o m \o <<Quote>>,
                State("end", n, value, f))
  BY <1>1, <1>4, <1>5, <1>7, <1>8, Enclosed
<1> DEFINE t == <<Quote>> \o m \o <<Quote>>
<1> HIDE DEF t
<1>11. DotenvQuoted(value) = t /\ t \in Seq(S)
       /\ Reads(format, State("value", n, <<>>, f), t, State("end", n, value, f))
  BY <1>9, <1>10 DEF t
<1> QED
  BY <1>11

LEMMA ShellQuotedRead ==
    ASSUME NEW S, Alphabet(S), NEW n, NEW f, NEW value \in Seq(S)
    PROVE  /\ ShellQuoted(value) \in Seq(S)
           /\ Reads("dotenv-eval", State("value", n, <<>>, f), ShellQuoted(value),
                    State("value", n, value, f))
<1> DEFINE m == Mapped(value, ShellPiece)
           pieces == [i \in DOMAIN value |-> ShellPiece(value[i])]
<1>1. pieces \in Seq(Seq(S)) /\ m \in Seq(S)
  BY MappedType
<1>2. m = FlattenSeq(pieces)
  BY DEF Mapped
<1>3. Len(pieces) = Len(value) /\ \A i \in 1..Len(value) : pieces[i] = ShellPiece(value[i])
  OBVIOUS
<1> HIDE DEF m, pieces
<1>4. Reads("dotenv-eval", State("value", n, <<>>, f), <<Apostrophe>>, State("quoted", n, <<>>, f))
  BY QuoteSteps, StateFields, Readers, ReadsStep
<1>5. Reads("dotenv-eval", State("quoted", n, value, f), <<Apostrophe>>, State("value", n, value, f))
  BY QuoteSteps, StateFields, Readers, ReadsStep
<1>6. ASSUME NEW i \in 1..Len(value), NEW r \in In("quoted", {n}, {f})
      PROVE  Reads("dotenv-eval", r, pieces[i], Take(r, value[i]))
  BY <1>3, ElementOfSeq, ShellPieceRead
<1>7. Reads("dotenv-eval", State("quoted", n, <<>>, f), m, State("quoted", n, value, f))
  BY <1>1, <1>2, <1>3, <1>6, ReadsValue
<1>8. Apostrophe \in S
  BY DEF Alphabet, Apostrophe
<1>9. ShellQuoted(value) = <<Apostrophe>> \o m \o <<Apostrophe>>
  BY DEF ShellQuoted, m
<1>10. /\ <<Apostrophe>> \o m \o <<Apostrophe>> \in Seq(S)
       /\ Reads("dotenv-eval", State("value", n, <<>>, f), <<Apostrophe>> \o m \o <<Apostrophe>>,
                State("value", n, value, f))
  BY <1>1, <1>4, <1>5, <1>7, <1>8, Enclosed
<1> DEFINE t == <<Apostrophe>> \o m \o <<Apostrophe>>
<1> HIDE DEF t
<1>11. ShellQuoted(value) = t /\ t \in Seq(S)
       /\ Reads("dotenv-eval", State("value", n, <<>>, f), t, State("value", n, value, f))
  BY <1>9, <1>10 DEF t
<1> QED
  BY <1>11

LEMMA JsonQuotedRead ==
    ASSUME NEW S, Alphabet(S), NEW n, NEW f, NEW value \in Seq(S),
           NEW format \in {"json", "yaml"}
    PROVE  /\ JsonQuoted(value) \in Seq(S)
           /\ Reads(format, State("name", n, <<>>, f), JsonQuoted(value),
                    State("end", n, value, f))
<1> DEFINE m == Mapped(value, JsonPiece)
           pieces == [i \in DOMAIN value |-> JsonPiece(value[i])]
<1>1. pieces \in Seq(Seq(S)) /\ m \in Seq(S)
  BY MappedType
<1>2. m = FlattenSeq(pieces)
  BY DEF Mapped
<1>3. Len(pieces) = Len(value) /\ \A i \in 1..Len(value) : pieces[i] = JsonPiece(value[i])
  OBVIOUS
<1> HIDE DEF m, pieces
<1>4. Reads(format, State("name", n, <<>>, f), <<Quote>>, State("string", n, <<>>, f))
  BY QuoteSteps, StateFields, Readers, ReadsStep
<1>5. Reads(format, State("string", n, value, f), <<Quote>>, State("end", n, value, f))
  BY QuoteSteps, StateFields, Readers, ReadsStep
<1>6. ASSUME NEW i \in 1..Len(value), NEW r \in In("string", {n}, {f})
      PROVE  Reads(format, r, pieces[i], Take(r, value[i]))
  BY <1>3, ElementOfSeq, JsonPieceRead
<1>7. Reads(format, State("string", n, <<>>, f), m, State("string", n, value, f))
  BY <1>1, <1>2, <1>3, <1>6, ReadsValue
<1>8. Quote \in S
  BY DEF Alphabet, Quote
<1>9. JsonQuoted(value) = <<Quote>> \o m \o <<Quote>>
  BY DEF JsonQuoted, m
<1>10. /\ <<Quote>> \o m \o <<Quote>> \in Seq(S)
       /\ Reads(format, State("name", n, <<>>, f), <<Quote>> \o m \o <<Quote>>,
                State("end", n, value, f))
  BY <1>1, <1>4, <1>5, <1>7, <1>8, Enclosed
<1> DEFINE t == <<Quote>> \o m \o <<Quote>>
<1> HIDE DEF t
<1>11. JsonQuoted(value) = t /\ t \in Seq(S)
       /\ Reads(format, State("name", n, <<>>, f), t, State("end", n, value, f))
  BY <1>9, <1>10 DEF t
<1> QED
  BY <1>11
-----------------------------------------------------------------------------
(* Texts that a reader takes, piece after piece.                           *)

Takes(S, format, r, text, s) == text \in Seq(S) /\ Reads(format, r, text, s)

LEMMA TakesOn ==
    ASSUME NEW S, NEW format, NEW r, NEW s, NEW e, NEW t, NEW z,
           Takes(S, format, r, t, s), Takes(S, format, s, z, e)
    PROVE  Takes(S, format, r, t \o z, e)
<1>1. t \in Seq(S) /\ z \in Seq(S) /\ Reads(format, r, t, s) /\ Reads(format, s, z, e)
  BY DEF Takes
<1>2. t \o z \in Seq(S)
  BY <1>1, ConcatProperties
<1>3. Reads(format, r, t \o z, e)
  BY <1>1, ReadsOn
<1> QED
  BY <1>2, <1>3 DEF Takes

LEMMA TakesOne ==
    ASSUME NEW S, NEW format, NEW r, NEW c \in S, NEW s, ReadStep(format, r, c) = s
    PROVE  Takes(S, format, r, <<c>>, s)
<1>1. Reads(format, r, <<c>>, s)
  BY ReadsOne
<1>2. <<c>> \in Seq(S)
  OBVIOUS
<1> QED
  BY <1>1, <1>2, Zenon DEF Takes

LEMMA TakesNothing ==
    ASSUME NEW S, NEW format, NEW r
    PROVE  Takes(S, format, r, <<>>, r)
<1>1. Reads(format, r, <<>>, r)
  BY ReadsNothing
<1>2. <<>> \in Seq(S)
  OBVIOUS
<1> QED
  BY <1>1, <1>2, Zenon DEF Takes

LEMMA TakesTwo ==
    ASSUME NEW S, NEW format, NEW r, NEW a \in S, NEW b \in S, NEW s, NEW e,
           ReadStep(format, r, a) = s, ReadStep(format, s, b) = e
    PROVE  Takes(S, format, r, <<a, b>>, e)
<1>1. Takes(S, format, r, <<a>>, s) /\ Takes(S, format, s, <<b>>, e)
  BY TakesOne
<1>2. Takes(S, format, r, <<a>> \o <<b>>, e)
  BY <1>1, TakesOn
<1>3. <<a, b>> = <<a>> \o <<b>>
  BY TwoCharacters
<1> DEFINE p == <<a, b>>
           q == <<a>> \o <<b>>
<1> HIDE DEF p, q
<1>4. p = q /\ Takes(S, format, r, q, e)
  BY <1>2, <1>3 DEF p, q
<1>5. Takes(S, format, r, p, e)
  BY <1>4
<1> QED
  BY <1>5 DEF p

LEMMA TakesThree ==
    ASSUME NEW S, NEW format, NEW r, NEW a \in S, NEW b \in S, NEW c \in S,
           NEW s, NEW t, NEW e,
           ReadStep(format, r, a) = s, ReadStep(format, s, b) = t,
           ReadStep(format, t, c) = e
    PROVE  Takes(S, format, r, <<a, b, c>>, e)
<1>1. Takes(S, format, r, <<a, b>>, t) /\ Takes(S, format, t, <<c>>, e)
  BY TakesOne, TakesTwo
<1> DEFINE p == <<a, b, c>>
           q == <<a, b>> \o <<c>>
<1>2. Takes(S, format, r, q, e)
  BY <1>1, TakesOn
<1>3. p = q
  <2>1. <<a, b>> \in Seq(S) /\ <<c>> \in Seq(S) /\ p \in Seq(S)
    OBVIOUS
  <2>2. q \in Seq(S) /\ Len(q) = 3 /\ q[1] = a /\ q[2] = b /\ q[3] = c
    BY <2>1, ConcatProperties
  <2>3. Len(p) = 3 /\ p[1] = a /\ p[2] = b /\ p[3] = c
    OBVIOUS
  <2>4. \A i \in 1..3 : i = 1 \/ i = 2 \/ i = 3
    OBVIOUS
  <2> HIDE DEF p, q
  <2> QED
    BY <2>1, <2>2, <2>3, <2>4, SeqEqual
<1> HIDE DEF p, q
<1>4. Takes(S, format, r, p, e)
  BY <1>2, <1>3
<1> QED
  BY <1>4 DEF p

-----------------------------------------------------------------------------
(* The line that assigns a variable, in the three formats for shells.      *)

Identifier == Upper \cup Lower \cup Digit \cup {95}

LEMMA NameSteps ==
    ASSUME NEW format \in Dotenvs, NEW t, NEW f, NEW n
    PROVE  /\ \A c \in Identifier : ReadStep(format, State("name", n, t, f), c)
                                      = State("name", Append(n, c), t, f)
           /\ ReadStep(format, State("name", n, t, f), Equals) = State("value", n, t, f)
           /\ ReadStep(format, State("name", ExportWord, t, f), Space)
                 = State("name", <<>>, t, f)
<1>1. \A m, c : ReadStep(format, State("name", m, t, f), c)
                  = ReadName(State("name", m, t, f), c)
  BY StateFields DEF ReadStep, Dotenvs, DotenvStep, ShellStep
<1>2. ASSUME NEW c \in Identifier
      PROVE  ReadName(State("name", n, t, f), c) = State("name", Append(n, c), t, f)
  <2>1. c # Equals /\ c # Space
    BY DEF Identifier, Upper, Lower, Digit, Equals, Space
  <2> DEFINE r == State("name", n, t, f)
  <2>2. ReadName(r, c) = [r EXCEPT !.name = Append(@, c)]
    BY <2>1 DEF ReadName, Identifier
  <2>3. [r EXCEPT !.name = Append(@, c)] = State("name", Append(n, c), t, f)
    BY DEF State
  <2> QED
    BY <2>2, <2>3, Zenon
<1>3. ReadName(State("name", n, t, f), Equals) = State("value", n, t, f)
  <2> DEFINE r == State("name", n, t, f)
  <2>1. Goto(r, "value") = State("value", n, t, f)
    BY GotoStep
  <2> HIDE DEF r
  <2>2. ReadName(r, Equals) = Goto(r, "value")
    BY DEF ReadName, Equals, Space, Upper, Lower, Digit
  <2> QED
    BY <2>1, <2>2 DEF r
<1>4. ReadName(State("name", ExportWord, t, f), Space) = State("name", <<>>, t, f)
  <2> DEFINE w == ExportWord
             r == State("name", w, t, f)
             z == <<>>
  <2>1. r.name = w
    BY StateFields
  <2> HIDE DEF r, w, z
  <2>2. ReadName(r, Space) = [r EXCEPT !.name = z]
    BY <2>1 DEF ReadName, Space, Equals, Upper, Lower, Digit, w, z
  <2>3. [r EXCEPT !.name = z] = State("name", z, t, f)
    BY DEF State, r
  <2> QED
    BY <2>2, <2>3, Zenon DEF r, w, z
<1> QED
  BY <1>1, <1>2, <1>3, <1>4, Zenon

LEMMA NameTaken ==
    ASSUME NEW S, Alphabet(S), NEW format \in Dotenvs, NEW f, NEW name \in Seq(S),
           \A i \in DOMAIN name : name[i] \in Identifier
    PROVE  Takes(S, format, Between(f), name, State("name", name, <<>>, f))
<1> DEFINE z == <<>>
           path == [i \in 0..Len(name) |-> State("name", SubSeq(name, 1, i), z, f)]
<1> HIDE DEF z
<1>1. Len(name) \in Nat /\ DOMAIN name = 1..Len(name)
  OBVIOUS
<1>2. path = [i \in 0..Len(name) |-> path[i]]
  OBVIOUS
<1>3. /\ path[0] = State("name", SubSeq(name, 1, 0), z, f)
      /\ path[Len(name)] = State("name", SubSeq(name, 1, Len(name)), z, f)
  BY <1>1
<1>4. ASSUME NEW i \in 1..Len(name)
      PROVE  path[i] = ReadStep(format, path[i - 1], name[i])
  <2> DEFINE b == SubSeq(name, 1, i - 1)
             e == SubSeq(name, 1, i)
             c == name[i]
  <2>1. path[i - 1] = State("name", b, z, f) /\ path[i] = State("name", e, z, f)
    BY <1>1
  <2>2. Append(b, c) = e
    BY Beginnings
  <2>3. c \in Identifier
    BY <1>1
  <2> HIDE DEF b, e, c, path
  <2>4. ReadStep(format, State("name", b, z, f), c) = State("name", Append(b, c), z, f)
    BY <2>3, NameSteps
  <2> QED
    BY <2>1, <2>2, <2>4, Zenon DEF c
<1> HIDE DEF path
<1>5. Path(format, name, path)
  BY <1>2, <1>4 DEF Path
<1>6. SubSeq(name, 1, 0) = z /\ SubSeq(name, 1, Len(name)) = name
  BY Beginnings DEF z
<1>7. path[0] = State("name", z, z, f) /\ path[Len(name)] = State("name", name, z, f)
  BY <1>3, <1>6, Zenon
<1>8. Reads(format, State("name", z, z, f), name, State("name", name, z, f))
  BY <1>5, <1>7, Zenon DEF Reads
<1> QED
  BY <1>8, Zenon DEF Takes, Between, z

(* The word export, with the space after it.                               *)
LEMMA ExportTaken ==
    ASSUME NEW S, Alphabet(S), NEW format \in Dotenvs, NEW f
    PROVE  Takes(S, format, Between(f), ExportWord \o <<Space>>, Between(f))
<1>1. ExportWord \in Seq(S) /\ \A i \in DOMAIN ExportWord : ExportWord[i] \in Identifier
  <2>1. {101, 120, 112, 111, 114, 116} \subseteq S
    BY DEF Alphabet
  <2>2. {101, 120, 112, 111, 114, 116} \subseteq Identifier
    BY DEF Identifier, Lower
  <2> QED
    BY <2>1, <2>2 DEF ExportWord
<1>2. Takes(S, format, Between(f), ExportWord, State("name", ExportWord, <<>>, f))
  BY <1>1, NameTaken
<1>3. Space \in S
  BY DEF Alphabet, Space
<1>4. Takes(S, format, State("name", ExportWord, <<>>, f), <<Space>>,
            State("name", <<>>, <<>>, f))
  BY <1>3, NameSteps, TakesOne
<1>5. Takes(S, format, State("name", ExportWord, <<>>, f), <<Space>>, Between(f))
  BY <1>4, Zenon DEF Between
<1> QED
  BY <1>2, <1>5, TakesOn

(* The end of the line.                                                    *)
LEMMA LineEnds ==
    ASSUME NEW r, r.mode = "end" \/ r.mode = "value"
    PROVE  /\ r.mode = "end" => DotenvStep(r, NewLine)
                                  = Between(Append(r.found, <<r.name, r.text>>))
           /\ r.mode = "value" => ShellStep(r, NewLine)
                                    = Between(Append(r.found, <<r.name, r.text>>))
<1>1. r.mode = "end" => DotenvStep(r, NewLine) = Assigned(r)
  BY DEF DotenvStep
<1>2. r.mode = "value" => ShellStep(r, NewLine) = Assigned(r)
  BY DEF ShellStep, NewLine, Apostrophe, Backslash
<1> QED
  BY <1>1, <1>2, AssignedStep, Zenon

LEMMA LineTaken ==
    ASSUME NEW S, Alphabet(S), NEW format \in Dotenvs, NEW f,
           NEW name \in Seq(S), IsShellIdentifier(name), NEW value \in Seq(S)
    PROVE  Takes(S, format, Between(f), DotenvLine(name, value, format),
                 Between(Append(f, <<name, value>>)))
<1> DEFINE prefix == IF format = "dotenv-export" THEN ExportWord \o <<Space>> ELSE <<>>
           quoted == IF format = "dotenv-eval" THEN ShellQuoted(value) ELSE DotenvQuoted(value)
           mode == IF format = "dotenv-eval" THEN "value" ELSE "end"
           end == State(mode, name, value, f)
           next == Between(Append(f, <<name, value>>))
<1>1. Takes(S, format, Between(f), prefix, Between(f))
  BY ExportTaken, TakesNothing
<1>2. Takes(S, format, Between(f), name, State("name", name, <<>>, f))
  BY NameTaken DEF IsShellIdentifier, Identifier
<1>3. Takes(S, format, State("name", name, <<>>, f), <<Equals>>,
            State("value", name, <<>>, f))
  <2>1. Equals \in S
    BY DEF Alphabet, Equals
  <2> QED
    BY <2>1, NameSteps, TakesOne
<1>4. Takes(S, format, State("value", name, <<>>, f), quoted, end)
  <2>1. CASE format = "dotenv-eval"
    BY <2>1, ShellQuotedRead DEF Takes
  <2>2. CASE format \in {"dotenv", "dotenv-export"}
    BY <2>2, DotenvQuotedRead DEF Takes
  <2> QED
    BY <2>1, <2>2 DEF Dotenvs
<1>5. Takes(S, format, end, <<NewLine>>, next)
  <2>1. NewLine \in S
    BY DEF Alphabet, NewLine
  <2>2. end.mode = mode /\ end.name = name /\ end.text = value /\ end.found = f
    BY StateFields
  <2>3. mode \in {"end", "value"} /\ (mode = "value" <=> format = "dotenv-eval")
    OBVIOUS
  <2>4. format \in {"dotenv", "dotenv-export"} \/ format = "dotenv-eval"
    BY DEF Dotenvs
  <2> HIDE DEF end, mode
  <2>5. /\ end.mode = "end" => DotenvStep(end, NewLine) = next
        /\ end.mode = "value" => ShellStep(end, NewLine) = next
    BY <2>2, <2>3, LineEnds
  <2> HIDE DEF next
  <2>6. ReadStep(format, end, NewLine) = next
    BY <2>2, <2>3, <2>4, <2>5, Readers
  <2> QED
    BY <2>1, <2>6, TakesOne
<1> DEFINE line == prefix \o name \o <<Equals>> \o quoted \o <<NewLine>>
<1>6. DotenvLine(name, value, format) = line
  BY DEF DotenvLine
<1> HIDE DEF prefix, quoted, mode, end, next
<1>7. Takes(S, format, Between(f), prefix \o name, State("name", name, <<>>, f))
  BY <1>1, <1>2, TakesOn
<1>8. Takes(S, format, Between(f), (prefix \o name) \o <<Equals>>,
            State("value", name, <<>>, f))
  BY <1>3, <1>7, TakesOn
<1>9. Takes(S, format, Between(f), ((prefix \o name) \o <<Equals>>) \o quoted, end)
  BY <1>4, <1>8, TakesOn
<1>10. Takes(S, format, Between(f), line, next)
  BY <1>5, <1>9, TakesOn
<1> HIDE DEF line
<1>11. Takes(S, format, Between(f), DotenvLine(name, value, format), next)
  BY <1>6, <1>10, Zenon
<1> QED
  BY <1>11 DEF next

-----------------------------------------------------------------------------
(* Members of a JSON object, and of a YAML mapping.                        *)

LEMMA EndMode ==
    ASSUME NEW r, NEW c, r.mode = "end"
    PROVE  JsonStep(r, c) = JsonEnd(r, c)
BY DEF JsonStep

LEMMA BlankStep ==
    ASSUME NEW format \in {"json", "yaml"}, NEW n, NEW t, NEW f,
           NEW c \in {123, 125, NewLine, Space}
    PROVE  ReadStep(format, State("name", n, t, f), c) = State("name", n, t, f)
<1>1. ASSUME NEW r, r.mode = "name" PROVE JsonStep(r, c) = r
  <2>1. c # Quote /\ c \in {123, 125, 44, NewLine, Space}
    BY DEF NewLine, Space, Quote
  <2>2. JsonName(r, c) = r
    BY <2>1 DEF JsonName
  <2> QED
    BY <1>1, <2>2 DEF JsonStep
<1>2. JsonStep(State("name", n, t, f), c) = State("name", n, t, f)
  BY <1>1, StateFields
<1> QED
  BY <1>2, Readers

LEMMA ColonStep ==
    ASSUME NEW format \in {"json", "yaml"}, NEW n, NEW t, NEW f
    PROVE  ReadStep(format, State("end", n, t, f), 58) = State("name", <<t>>, <<>>, f)
<1> DEFINE r == State("end", n, t, f)
           s == State("name", n, t, f)
           k == <<t>>
           z == <<>>
<1>1. Goto(r, "name") = s /\ r.mode = "end" /\ r.text = t
  BY GotoStep, StateFields
<1> HIDE DEF k, z
<1>2. [s EXCEPT !.name = k, !.text = z] = State("name", k, z, f)
  <2> DEFINE p == State("name", k, t, f)
  <2>1. [s EXCEPT !.name = k] = p
    BY DEF State
  <2>2. [p EXCEPT !.text = z] = State("name", k, z, f)
    BY DEF State
  <2> HIDE DEF s, p
  <2>3. [s EXCEPT !.name = k, !.text = z] = [[s EXCEPT !.name = k] EXCEPT !.text = z]
    OBVIOUS
  <2> QED
    BY <2>1, <2>2, <2>3
<1> HIDE DEF r, s
<1>3. JsonStep(r, 58) = JsonEnd(r, 58)
  BY <1>1, EndMode
<1>4. JsonEnd(r, 58) = [Goto(r, "name") EXCEPT !.name = <<r.text>>, !.text = <<>>]
  BY DEF JsonEnd, NewLine
<1>5. JsonEnd(r, 58) = [s EXCEPT !.name = k, !.text = z]
  BY <1>1, <1>4, Zenon DEF k, z
<1>6. ReadStep(format, r, 58) = JsonStep(r, 58)
  BY Readers
<1> QED
  BY <1>2, <1>3, <1>5, <1>6, Zenon DEF r, k, z

LEMMA MemberEnds ==
    ASSUME NEW format \in {"json", "yaml"}, NEW n, NEW t, NEW f, NEW c \in {44, NewLine}
    PROVE  ReadStep(format, State("end", <<n>>, t, f), c) = Between(Append(f, <<n, t>>))
<1> DEFINE k == <<n>>
           r == State("end", k, t, f)
           s == State("end", n, t, f)
           z == <<>>
<1>1. k # z /\ k[1] = n
  OBVIOUS
<1>2. r.mode = "end" /\ r.name = k
  BY StateFields
<1> HIDE DEF k, z
<1>3. [r EXCEPT !.name = k[1]] = s
  BY <1>1 DEF State
<1> HIDE DEF r, s
<1>4. JsonEnd(r, c) = Assigned(s)
  BY <1>1, <1>2, <1>3 DEF JsonEnd, NewLine, z
<1>5. JsonStep(r, c) = JsonEnd(r, c)
  BY <1>2, EndMode
<1>6. Assigned(s) = Between(Append(s.found, <<s.name, s.text>>))
  BY AssignedStep
<1>7. s.found = f /\ s.name = n /\ s.text = t
  BY StateFields DEF s
<1>8. Assigned(s) = Between(Append(f, <<n, t>>))
  BY <1>6, <1>7, Zenon
<1>9. ReadStep(format, r, c) = JsonStep(r, c)
  BY Readers
<1> QED
  BY <1>4, <1>5, <1>8, <1>9, Zenon DEF r, k

(* Key, colon and value.                                                   *)
LEMMA MemberTaken ==
    ASSUME NEW S, Alphabet(S), NEW format \in {"json", "yaml"}, NEW f,
           NEW name \in Seq(S), NEW value \in Seq(S)
    PROVE  /\ Takes(S, format, Between(f), JsonQuoted(name), State("end", <<>>, name, f))
           /\ Takes(S, format, State("end", <<>>, name, f), <<58, Space>>,
                    State("name", <<name>>, <<>>, f))
           /\ Takes(S, format, State("name", <<name>>, <<>>, f), JsonQuoted(value),
                    State("end", <<name>>, value, f))
           /\ \A c \in {44, NewLine} :
                 Takes(S, format, State("end", <<name>>, value, f), <<c>>,
                       Between(Append(f, <<name, value>>)))
<1>1. 58 \in S /\ Space \in S /\ \A c \in {44, NewLine} : c \in S
  BY DEF Alphabet, Space, NewLine
<1>2. Takes(S, format, Between(f), JsonQuoted(name), State("end", <<>>, name, f))
  BY JsonQuotedRead DEF Takes, Between
<1>3. Takes(S, format, State("end", <<>>, name, f), <<58, Space>>,
            State("name", <<name>>, <<>>, f))
  <2> DEFINE s == State("name", <<name>>, <<>>, f)
  <2>1. ReadStep(format, State("end", <<>>, name, f), 58) = s
    BY ColonStep
  <2>2. ReadStep(format, s, Space) = s
    BY BlankStep
  <2> HIDE DEF s
  <2>3. Takes(S, format, State("end", <<>>, name, f), <<58, Space>>, s)
    BY <1>1, <2>1, <2>2, TakesTwo
  <2> QED
    BY <2>3 DEF s
<1>4. Takes(S, format, State("name", <<name>>, <<>>, f), JsonQuoted(value),
            State("end", <<name>>, value, f))
  BY JsonQuotedRead DEF Takes
<1>5. ASSUME NEW c \in {44, NewLine}
      PROVE  Takes(S, format, State("end", <<name>>, value, f), <<c>>,
                   Between(Append(f, <<name, value>>)))
  <2> DEFINE r == State("end", <<name>>, value, f)
             s == Between(Append(f, <<name, value>>))
  <2>1. ReadStep(format, r, c) = s
    BY MemberEnds
  <2> HIDE DEF r, s
  <2>2. Takes(S, format, r, <<c>>, s)
    BY <1>1, <2>1, TakesOne
  <2> QED
    BY <2>2, Zenon DEF r, s
<1> QED
  BY <1>2, <1>3, <1>4, <1>5, Zenon

LEMMA YamlLineTaken ==
    ASSUME NEW S, Alphabet(S), NEW f, NEW name \in Seq(S), NEW value \in Seq(S)
    PROVE  Takes(S, "yaml", Between(f), YamlLine(name, value),
                 Between(Append(f, <<name, value>>)))
<1> DEFINE k == JsonQuoted(name)
           colon == <<58, Space>>
           v == JsonQuoted(value)
           nl == <<NewLine>>
           a == State("end", <<>>, name, f)
           b == State("name", <<name>>, <<>>, f)
           d == State("end", <<name>>, value, f)
           e == Between(Append(f, <<name, value>>))
<1>1. /\ Takes(S, "yaml", Between(f), k, a) /\ Takes(S, "yaml", a, colon, b)
      /\ Takes(S, "yaml", b, v, d) /\ Takes(S, "yaml", d, nl, e)
  BY MemberTaken
<1> DEFINE line == k \o colon \o v \o nl
<1>2. YamlLine(name, value) = line
  BY DEF YamlLine
<1> HIDE DEF k, colon, v, nl, a, b, d, e
<1>3. Takes(S, "yaml", Between(f), k \o colon, b)
  BY <1>1, TakesOn
<1>4. Takes(S, "yaml", Between(f), (k \o colon) \o v, d)
  BY <1>1, <1>3, TakesOn
<1>5. Takes(S, "yaml", Between(f), line, e)
  BY <1>1, <1>4, TakesOn
<1> HIDE DEF line
<1>6. Takes(S, "yaml", Between(f), YamlLine(name, value), e)
  BY <1>2, <1>5, Zenon
<1> QED
  BY <1>6 DEF e

LEMMA JsonMemberTaken ==
    ASSUME NEW S, Alphabet(S), NEW f, NEW name \in Seq(S), NEW value \in Seq(S)
    PROVE  /\ Takes(S, "json", Between(f), JsonMember(name, value),
                    State("end", <<name>>, value, f))
           /\ Takes(S, "json", Between(f), JsonMember(name, value) \o <<44>>,
                    Between(Append(f, <<name, value>>)))
<1> DEFINE indent == <<NewLine, Space, Space>>
           k == JsonQuoted(name)
           colon == <<58, Space>>
           v == JsonQuoted(value)
           comma == <<44>>
           a == State("end", <<>>, name, f)
           b == State("name", <<name>>, <<>>, f)
           d == State("end", <<name>>, value, f)
           e == Between(Append(f, <<name, value>>))
<1>1. /\ Takes(S, "json", Between(f), k, a) /\ Takes(S, "json", a, colon, b)
      /\ Takes(S, "json", b, v, d) /\ Takes(S, "json", d, comma, e)
  BY MemberTaken
<1>2. Takes(S, "json", Between(f), indent, Between(f))
  <2>1. NewLine \in S /\ Space \in S
    BY DEF Alphabet, NewLine, Space
  <2>2. \A c \in {NewLine, Space} : ReadStep("json", Between(f), c) = Between(f)
    BY BlankStep DEF Between
  <2> QED
    BY <2>1, <2>2, TakesThree
<1> DEFINE member == indent \o k \o colon \o v
<1>3. JsonMember(name, value) = member
  BY DEF JsonMember
<1> HIDE DEF indent, k, colon, v, comma, a, b, d, e
<1>4. Takes(S, "json", Between(f), indent \o k, a)
  BY <1>1, <1>2, TakesOn
<1>5. Takes(S, "json", Between(f), (indent \o k) \o colon, b)
  BY <1>1, <1>4, TakesOn
<1>6. Takes(S, "json", Between(f), member, d)
  BY <1>1, <1>5, TakesOn
<1> HIDE DEF member
<1>7. Takes(S, "json", Between(f), JsonMember(name, value), d)
  BY <1>3, <1>6, Zenon
<1>8. Takes(S, "json", Between(f), JsonMember(name, value) \o comma, e)
  BY <1>1, <1>7, TakesOn
<1> QED
  BY <1>7, <1>8 DEF d, e, comma

-----------------------------------------------------------------------------
(* A whole text: the lines or members of a sequence of variables.          *)

(* The reader has found the first i of the pairs P after i lines.          *)
LEMMA LinesTaken ==
    ASSUME NEW S, NEW format, NEW X, NEW P \in Seq(X), NEW lines, DOMAIN lines = 1..Len(P),
           lines = [i \in 1..Len(P) |-> lines[i]],
           \A i \in 1..Len(P) : \A f :
              Takes(S, format, Between(f), lines[i], Between(Append(f, P[i])))
    PROVE  Takes(S, format, Between(<<>>), FlattenSeq(lines), Between(P))
<1> DEFINE q == [i \in 0..Len(P) |-> Between(SubSeq(P, 1, i))]
           z == <<>>
<1>1. Len(P) \in Nat
  OBVIOUS
<1>2. \A i \in 1..Len(P) : lines[i] \in Seq(S)
  BY DEF Takes
<1>3. lines \in Seq(Seq(S)) /\ Len(lines) = Len(P)
  BY <1>1, <1>2
<1>4. q[0] = Between(SubSeq(P, 1, 0)) /\ q[Len(P)] = Between(SubSeq(P, 1, Len(P)))
  BY <1>1
<1>5. SubSeq(P, 1, 0) = z /\ SubSeq(P, 1, Len(P)) = P
  BY Beginnings
<1>6. ASSUME NEW i \in 1..Len(P)
      PROVE  Reads(format, q[i - 1], lines[i], q[i])
  <2> DEFINE b == SubSeq(P, 1, i - 1)
             e == SubSeq(P, 1, i)
             p == P[i]
             t == lines[i]
  <2>1. q[i - 1] = Between(b) /\ q[i] = Between(e)
    BY <1>1
  <2>2. Append(b, p) = e
    BY Beginnings
  <2>3. Takes(S, format, Between(b), t, Between(Append(b, p)))
    OBVIOUS
  <2>4. Reads(format, Between(b), t, Between(Append(b, p)))
    BY <2>3, Zenon DEF Takes
  <2> HIDE DEF b, e, p, t, q
  <2> QED
    BY <2>1, <2>2, <2>4, Zenon DEF t
<1> HIDE DEF q, z
<1>7. Reads(format, q[0], FlattenSeq(lines), q[Len(P)])
  BY <1>3, <1>6, ReadsPieces
<1>8. FlattenSeq(lines) \in Seq(S)
  BY <1>3, FlattenType
<1>9. q[0] = Between(z) /\ q[Len(P)] = Between(P)
  BY <1>4, <1>5, Zenon
<1> QED
  BY <1>7, <1>8, <1>9, Zenon DEF Takes, z

(* The names of an environment, each of them once.                         *)
Ordered(names, secrets) ==
    /\ names \in Seq(DOMAIN secrets)
    /\ \A i, j \in 1..Len(names) : i # j => names[i] # names[j]

Pair(name, secrets)   == <<name, secrets[name]>>
Pairs(names, secrets) == [i \in DOMAIN names |-> Pair(names[i], secrets)]

LEMMA PairsType ==
    ASSUME NEW secrets, NEW names, Ordered(names, secrets)
    PROVE  /\ Len(names) \in Nat /\ DOMAIN names = 1..Len(names)
           /\ \A i \in 1..Len(names) : names[i] \in DOMAIN secrets
           /\ Len(Pairs(names, secrets)) = Len(names)
           /\ Pairs(names, secrets) \in Seq({Pair(n, secrets) : n \in DOMAIN secrets})
           /\ \A i \in 1..Len(names) : Pairs(names, secrets)[i] = Pair(names[i], secrets)
<1>1. /\ Len(names) \in Nat /\ DOMAIN names = 1..Len(names)
      /\ \A i \in 1..Len(names) : names[i] \in DOMAIN secrets
  BY ElementOfSeq DEF Ordered
<1> QED
  BY <1>1 DEF Pairs

LEMMA DotenvTaken ==
    ASSUME NEW S, Alphabet(S), NEW secrets, SecretsOver(S, secrets),
           NEW format \in Dotenvs, Renders(secrets, format), Ordered(Names(secrets), secrets)
    PROVE  Takes(S, format, Between(<<>>), Text(secrets, format),
                 Between(Pairs(Names(secrets), secrets)))
<1> DEFINE names == Names(secrets)
           P == Pairs(names, secrets)
           X == {Pair(n, secrets) : n \in DOMAIN secrets}
           lines == [i \in DOMAIN names |-> DotenvLine(names[i], secrets[names[i]], format)]
<1>1. Text(secrets, format) = FlattenSeq(lines)
  BY DEF Text, Mapped, Dotenvs
<1> HIDE DEF names
<1>2. /\ Len(names) \in Nat /\ DOMAIN names = 1..Len(names)
      /\ \A i \in 1..Len(names) : names[i] \in DOMAIN secrets
      /\ P \in Seq(X) /\ Len(P) = Len(names)
      /\ \A i \in 1..Len(names) : P[i] = Pair(names[i], secrets)
  BY PairsType DEF names
<1> HIDE DEF P, X
<1>3. ASSUME NEW i \in 1..Len(P), NEW f
      PROVE  Takes(S, format, Between(f), lines[i], Between(Append(f, P[i])))
  <2> DEFINE n == names[i]
             v == secrets[n]
  <2>1. n \in Seq(S) /\ v \in Seq(S) /\ IsShellIdentifier(n)
    BY <1>2 DEF SecretsOver, Renders
  <2>2. lines[i] = DotenvLine(n, v, format)
    BY <1>2
  <2>3. P[i] = <<n, v>>
    BY <1>2 DEF Pair
  <2> HIDE DEF n, v, lines
  <2>4. Takes(S, format, Between(f), DotenvLine(n, v, format), Between(Append(f, <<n, v>>)))
    BY <2>1, LineTaken
  <2> QED
    BY <2>2, <2>3, <2>4, Zenon
<1>4. DOMAIN lines = 1..Len(P) /\ lines = [i \in 1..Len(P) |-> lines[i]]
  BY <1>2
<1> HIDE DEF lines
<1>5. Takes(S, format, Between(<<>>), FlattenSeq(lines), Between(P))
  BY <1>2, <1>3, <1>4, LinesTaken
<1> QED
  BY <1>1, <1>5, Zenon DEF P, names

(* An object without members, as JSON and as YAML.                         *)
LEMMA EmptyTaken ==
    ASSUME NEW S, Alphabet(S), NEW secrets, NEW format \in {"json", "yaml"},
           Names(secrets) = <<>>
    PROVE  Takes(S, format, Between(<<>>), Text(secrets, format),
                 Between(Pairs(Names(secrets), secrets)))
<1> DEFINE r == Between(<<>>)
<1>1. Text(secrets, format) = <<123, 125, NewLine>>
  BY DEF Text, Dotenvs
<1>2. Pairs(Names(secrets), secrets) = <<>>
  BY DEF Pairs
<1>3. \A c \in {123, 125, NewLine} : c \in S /\ ReadStep(format, r, c) = r
  <2>1. \A c \in {123, 125, NewLine} : ReadStep(format, r, c) = r
    BY BlankStep DEF Between
  <2>2. 123 \in S /\ 125 \in S /\ NewLine \in S
    BY DEF Alphabet, NewLine
  <2> QED
    BY <2>1, <2>2
<1> HIDE DEF r
<1>4. Takes(S, format, r, <<123, 125, NewLine>>, r)
  BY <1>3, TakesThree
<1> QED
  BY <1>1, <1>2, <1>4, Zenon DEF r

LEMMA YamlTaken ==
    ASSUME NEW S, Alphabet(S), NEW secrets, SecretsOver(S, secrets),
           Ordered(Names(secrets), secrets)
    PROVE  Takes(S, "yaml", Between(<<>>), Text(secrets, "yaml"),
                 Between(Pairs(Names(secrets), secrets)))
<1>0. CASE Names(secrets) = <<>>
  BY <1>0, EmptyTaken
<1> SUFFICES ASSUME Names(secrets) # <<>> PROVE Takes(S, "yaml", Between(<<>>),
                Text(secrets, "yaml"), Between(Pairs(Names(secrets), secrets)))
  BY <1>0, Zenon
<1> DEFINE names == Names(secrets)
           P == Pairs(names, secrets)
           X == {Pair(n, secrets) : n \in DOMAIN secrets}
           lines == [i \in DOMAIN names |-> YamlLine(names[i], secrets[names[i]])]
<1>1. Text(secrets, "yaml") = FlattenSeq(lines)
  BY DEF Text, Mapped, Dotenvs
<1> HIDE DEF names
<1>2. /\ Len(names) \in Nat /\ DOMAIN names = 1..Len(names)
      /\ \A i \in 1..Len(names) : names[i] \in DOMAIN secrets
      /\ P \in Seq(X) /\ Len(P) = Len(names)
      /\ \A i \in 1..Len(names) : P[i] = Pair(names[i], secrets)
  BY PairsType DEF names
<1> HIDE DEF P, X
<1>3. ASSUME NEW i \in 1..Len(P), NEW f
      PROVE  Takes(S, "yaml", Between(f), lines[i], Between(Append(f, P[i])))
  <2> DEFINE n == names[i]
             v == secrets[n]
  <2>1. n \in Seq(S) /\ v \in Seq(S)
    BY <1>2 DEF SecretsOver
  <2>2. lines[i] = YamlLine(n, v)
    BY <1>2
  <2>3. P[i] = <<n, v>>
    BY <1>2 DEF Pair
  <2> HIDE DEF n, v, lines
  <2>4. Takes(S, "yaml", Between(f), YamlLine(n, v), Between(Append(f, <<n, v>>)))
    BY <2>1, YamlLineTaken
  <2> QED
    BY <2>2, <2>3, <2>4, Zenon
<1>4. DOMAIN lines = 1..Len(P) /\ lines = [i \in 1..Len(P) |-> lines[i]]
  BY <1>2
<1> HIDE DEF lines
<1>5. Takes(S, "yaml", Between(<<>>), FlattenSeq(lines), Between(P))
  BY <1>2, <1>3, <1>4, LinesTaken
<1> QED
  BY <1>1, <1>5, Zenon DEF P, names

(* The members of an object: a comma ends all but the last.                *)
LEMMA MembersTaken ==
    ASSUME NEW S, Alphabet(S), NEW secrets, SecretsOver(S, secrets),
           NEW names, Ordered(names, secrets), names # <<>>
    PROVE  LET P == Pairs(names, secrets)
               N == Len(names) IN
           Takes(S, "json", Between(<<>>),
                 FlattenSeq([i \in DOMAIN names |->
                     JsonMember(names[i], secrets[names[i]])
                     \o IF names[i] = Last(names) THEN <<>> ELSE <<44>>]),
                 State("end", <<names[N]>>, secrets[names[N]], SubSeq(P, 1, N - 1)))
<1> DEFINE N == Len(names)
           P == Pairs(names, secrets)
           X == {Pair(n, secrets) : n \in DOMAIN secrets}
           k == <<names[N]>>
           last == State("end", k, secrets[names[N]], SubSeq(P, 1, N - 1))
           lines == [i \in DOMAIN names |-> JsonMember(names[i], secrets[names[i]])
                                            \o IF names[i] = Last(names) THEN <<>> ELSE <<44>>]
           q == [i \in 0..N |-> IF i = N THEN last ELSE Between(SubSeq(P, 1, i))]
           z == <<>>
<1>1. /\ N \in Nat /\ DOMAIN names = 1..N
      /\ \A i \in 1..N : names[i] \in DOMAIN secrets
      /\ P \in Seq(X) /\ Len(P) = N
      /\ \A i \in 1..N : P[i] = Pair(names[i], secrets)
  BY PairsType
<1>2. N # 0 /\ Last(names) = names[N]
  BY <1>1 DEF Last
<1>3. \A i, j \in 1..N : i # j => names[i] # names[j]
  BY DEF Ordered
<1> HIDE DEF X, P, N
<1>4. /\ q[N] = last
      /\ \A i \in 1..N : q[i - 1] = Between(SubSeq(P, 1, i - 1))
      /\ \A i \in 1..N : i # N => q[i] = Between(SubSeq(P, 1, i))
      /\ q[0] = Between(SubSeq(P, 1, 0))
  BY <1>1, <1>2
<1> HIDE DEF q
<1>5. ASSUME NEW i \in 1..N
      PROVE  Takes(S, "json", q[i - 1], lines[i], q[i])
  <2> DEFINE n == names[i]
             v == secrets[n]
             b == SubSeq(P, 1, i - 1)
             e == SubSeq(P, 1, i)
             p == P[i]
             m == JsonMember(n, v)
  <2>1. n \in Seq(S) /\ v \in Seq(S)
    BY <1>1 DEF SecretsOver
  <2>2. p = <<n, v>>
    BY <1>1 DEF Pair
  <2>3. Append(b, p) = e
    BY <1>1, Beginnings
  <2>4. q[i - 1] = Between(b) /\ (i # N => q[i] = Between(e))
    BY <1>4
  <2>5. lines[i] = m \o IF n = names[N] THEN <<>> ELSE <<44>>
    BY <1>1, <1>2
  <2>6. CASE i = N
    <3>1. Takes(S, "json", Between(b), m, State("end", <<n>>, v, b))
      BY <2>1, JsonMemberTaken
    <3>2. State("end", <<n>>, v, b) = last
      BY <2>6
    <3>3. m \o <<>> = m
      BY <3>1, ConcatEmptySeq DEF Takes
    <3>4. n = names[N]
      BY <2>6
    <3> HIDE DEF last, m, lines, n, b, v
    <3>5. lines[i] = m
      BY <2>5, <3>3, <3>4
    <3>6. q[i] = last
      BY <1>4, <2>6
    <3> QED
      BY <2>4, <3>1, <3>2, <3>5, <3>6, Zenon
  <2>7. CASE i # N
    <3>1. n # names[N]
      BY <1>2, <1>1, <1>3, <2>7
    <3>2. lines[i] = m \o <<44>>
      BY <2>5, <3>1
    <3> HIDE DEF lines, n, v, b, p, e
    <3>3. Takes(S, "json", Between(b), m \o <<44>>, Between(Append(b, <<n, v>>)))
      BY <2>1, JsonMemberTaken
    <3>4. Takes(S, "json", Between(b), m \o <<44>>, Between(e))
      BY <2>2, <2>3, <3>3, Zenon
    <3> QED
      BY <2>4, <2>7, <3>2, <3>4, Zenon
  <2> QED
    BY <2>6, <2>7
<1>6. DOMAIN lines = 1..N
  BY <1>1
<1>7. \A i \in 1..N : lines[i] \in Seq(S)
  BY <1>5 DEF Takes
<1>8. lines = [i \in 1..N |-> lines[i]]
  BY <1>1
<1> HIDE DEF lines, last
<1>9. lines \in Seq(Seq(S)) /\ Len(lines) = N
  BY <1>1, <1>6, <1>7, <1>8
<1>10. \A i \in 1..Len(lines) : Reads("json", q[i - 1], lines[i], q[i])
  BY <1>5, <1>9 DEF Takes
<1>11. Reads("json", q[0], FlattenSeq(lines), q[Len(lines)])
  BY <1>9, <1>10, ReadsPieces
<1>12. FlattenSeq(lines) \in Seq(S)
  BY <1>9, FlattenType
<1> HIDE DEF z
<1>13. SubSeq(P, 1, 0) = z
  BY <1>1, Beginnings DEF z
<1>14. q[0] = Between(z)
  BY <1>4, <1>13, Zenon
<1>15. Takes(S, "json", Between(z), FlattenSeq(lines), last)
  BY <1>4, <1>9, <1>11, <1>12, <1>14, Zenon DEF Takes
<1> QED
  BY <1>15, Zenon DEF z, lines, last, k, N, P

LEMMA JsonTaken ==
    ASSUME NEW S, Alphabet(S), NEW secrets, SecretsOver(S, secrets),
           Ordered(Names(secrets), secrets)
    PROVE  Takes(S, "json", Between(<<>>), Text(secrets, "json"),
                 Between(Pairs(Names(secrets), secrets)))
<1>0. CASE Names(secrets) = <<>>
  BY <1>0, EmptyTaken
<1> SUFFICES ASSUME Names(secrets) # <<>> PROVE Takes(S, "json", Between(<<>>),
                Text(secrets, "json"), Between(Pairs(Names(secrets), secrets)))
  BY <1>0, Zenon
<1> DEFINE names == Names(secrets)
           P == Pairs(names, secrets)
           X == {Pair(n, secrets) : n \in DOMAIN secrets}
           N == Len(names)
           open == <<123>>
           members == FlattenSeq([i \in DOMAIN names |->
                          JsonMember(names[i], secrets[names[i]])
                          \o IF names[i] = Last(names) THEN <<>> ELSE <<44>>])
           close == <<NewLine, 125, NewLine>>
           n == names[N]
           v == secrets[n]
           b == SubSeq(P, 1, N - 1)
           none == Between(<<>>)
           last == State("end", <<n>>, v, b)
           all == Between(P)
<1>1. Text(secrets, "json") = open \o members \o close
  BY DEF Text, Mapped, Dotenvs
<1>2. names # <<>> /\ Ordered(names, secrets)
  OBVIOUS
<1> HIDE DEF names
<1>3. /\ N \in Nat /\ \A i \in 1..N : P[i] = Pair(names[i], secrets)
      /\ P \in Seq(X) /\ Len(P) = N
  BY <1>2, PairsType
<1>4. N \in 1..N
  BY <1>2, <1>3 DEF Ordered
<1>5. Takes(S, "json", none, members, last)
  BY <1>2, MembersTaken, Zenon
<1>6. 123 \in S /\ 125 \in S /\ NewLine \in S
  BY DEF Alphabet, NewLine
<1>7. Takes(S, "json", none, open, none)
  <2>1. ReadStep("json", none, 123) = none
    BY BlankStep DEF Between
  <2> HIDE DEF none
  <2> QED
    BY <1>6, <2>1, TakesOne
<1>8. Takes(S, "json", last, close, all)
  <2>1. Append(b, P[N]) = P
    <3>1. Append(SubSeq(P, 1, N - 1), P[N]) = SubSeq(P, 1, N) /\ SubSeq(P, 1, N) = P
      BY <1>3, <1>4, Beginnings
    <3> QED
      BY <3>1, Zenon
  <2>2. P[N] = <<n, v>>
    BY <1>3, <1>4 DEF Pair
  <2> HIDE DEF n, v, b, P
  <2>3. ReadStep("json", last, NewLine) = Between(Append(b, <<n, v>>))
    BY MemberEnds
  <2>4. ReadStep("json", last, NewLine) = all
    BY <2>1, <2>2, <2>3, Zenon
  <2>5. ReadStep("json", all, 125) = all /\ ReadStep("json", all, NewLine) = all
    BY BlankStep DEF Between
  <2> HIDE DEF last, all
  <2> QED
    BY <1>6, <2>4, <2>5, TakesThree
<1> HIDE DEF P, members, n, v, b, none, last, all, open, close
<1>9. Takes(S, "json", none, open \o members, last)
  BY <1>5, <1>7, TakesOn
<1>10. Takes(S, "json", none, (open \o members) \o close, all)
  BY <1>8, <1>9, TakesOn
<1>11. Takes(S, "json", none, Text(secrets, "json"), all)
  BY <1>1, <1>10, Zenon
<1> QED
  BY <1>11 DEF none, all, P, names

-----------------------------------------------------------------------------
(* The order in which the variables are written.                           *)

LEMMA TextOrder ==
    ASSUME NEW s \in Seq(Nat), NEW t \in Seq(Nat), NEW w \in Seq(Nat)
    PROVE  /\ ~TextLess(s, s)
           /\ TextLess(s, t) /\ TextLess(t, w) => TextLess(s, w)
           /\ s # t => TextLess(s, t) \/ TextLess(t, s)
<1>1. /\ Len(s) \in Nat /\ Len(t) \in Nat /\ Len(w) \in Nat
      /\ \A i \in 1..Len(s) : s[i] \in Nat
      /\ \A i \in 1..Len(t) : t[i] \in Nat
      /\ \A i \in 1..Len(w) : w[i] \in Nat
  BY ElementOfSeq
<1>2. ~TextLess(s, s)
  BY <1>1 DEF TextLess
<1>3. ASSUME TextLess(s, t), TextLess(t, w) PROVE TextLess(s, w)
  <2>1. PICK i \in 1..Len(t) : /\ \A j \in 1..(i - 1) : j <= Len(s) /\ s[j] = t[j]
                               /\ Len(s) >= i => s[i] < t[i]
    BY <1>3 DEF TextLess
  <2>2. PICK k \in 1..Len(w) : /\ \A j \in 1..(k - 1) : j <= Len(t) /\ t[j] = w[j]
                               /\ Len(t) >= k => t[k] < w[k]
    BY <1>3 DEF TextLess
  <2>3. CASE i < k
    <3>1. i \in 1..Len(w) /\ t[i] = w[i]
      BY <1>1, <2>2, <2>3
    <3>2. \A j \in 1..(i - 1) : j <= Len(s) /\ s[j] = w[j]
      BY <1>1, <2>1, <2>2, <2>3
    <3> QED
      BY <2>1, <3>1, <3>2 DEF TextLess
  <2>4. CASE k <= i
    <3>1. k \in 1..Len(t) /\ t[k] < w[k]
      BY <1>1, <2>2, <2>4
    <3>2. \A j \in 1..(k - 1) : j <= Len(s) /\ s[j] = w[j]
      BY <1>1, <2>1, <2>2, <2>4
    <3>3. Len(s) >= k => s[k] < w[k]
      <4>1. CASE k = i
        BY <1>1, <2>1, <2>2, <3>1, <4>1
      <4>2. CASE k < i
        BY <1>1, <2>1, <2>2, <3>1, <4>2
      <4> QED
        BY <2>4, <4>1, <4>2
    <3> QED
      BY <3>2, <3>3 DEF TextLess
  <2> QED
    BY <2>3, <2>4
<1>4. ASSUME s # t PROVE TextLess(s, t) \/ TextLess(t, s)
  <2> DEFINE T == {i \in Nat \ {0} : ~(i <= Len(s) /\ i <= Len(t) /\ s[i] = t[i])}
  <2>1. Len(s) + 1 \in T
    BY <1>1
  <2>2. PICK i \in T : \A j \in T : i <= j
    BY <2>1, LeastNumber
  <2>0. i \in Nat /\ i > 0
    OBVIOUS
  <2>3. ASSUME NEW j \in 1..(i - 1) PROVE j <= Len(s) /\ j <= Len(t) /\ s[j] = t[j]
    <3>1. j \in Nat \ {0} /\ ~(i <= j)
      BY <2>0
    <3>2. j \notin T
      BY <2>2, <3>1
    <3> QED
      BY <3>1, <3>2
  <2>4. CASE i > Len(s) /\ i > Len(t)
    <3>1. Len(s) = Len(t)
      <4>1. i = 1 \/ i - 1 \in 1..(i - 1)
        BY <2>0
      <4> QED
        BY <1>1, <2>0, <2>3, <2>4, <4>1
    <3>2. \A j \in 1..Len(s) : s[j] = t[j]
      BY <1>1, <2>0, <2>3, <2>4
    <3> QED
      BY <1>4, <3>1, <3>2, SeqEqual
  <2>5. CASE i <= Len(t) /\ (Len(s) >= i => s[i] < t[i])
    <3>1. i \in 1..Len(t)
      BY <1>1, <2>0, <2>5
    <3> QED
      BY <2>3, <2>5, <3>1 DEF TextLess
  <2>6. CASE i <= Len(s) /\ (Len(t) >= i => t[i] < s[i])
    <3>1. \A j \in 1..(i - 1) : j <= Len(t) /\ t[j] = s[j]
      BY <2>3
    <3>2. i \in 1..Len(s)
      BY <1>1, <2>0, <2>6
    <3> QED
      BY <2>6, <3>1, <3>2 DEF TextLess
  <2>7. i <= Len(s) /\ i <= Len(t) => s[i] < t[i] \/ t[i] < s[i]
    BY <1>1, <2>2
  <2> QED
    BY <1>1, <2>4, <2>5, <2>6, <2>7
<1> QED
  BY <1>2, <1>3, <1>4

Increasing(f, n) == \A i, j \in 1..n : i < j => TextLess(f[i], f[j])

(* Every finite set of texts can be written in order: one text more has its
   place before the first that is not less.                                *)
LEMMA OneMore ==
    ASSUME NEW n \in Nat, NEW D, NEW f \in [1..n -> D], Increasing(f, n), D \subseteq Seq(Nat),
           NEW x \in Seq(Nat), x \notin D
    PROVE  \E g \in [1..(n + 1) -> D \cup {x}] : Increasing(g, n + 1)
<1> DEFINE T == {i \in Nat \ {0} : i <= n => TextLess(x, f[i])}
<1>1. n + 1 \in T
  OBVIOUS
<1>2. PICK p \in T : \A j \in T : p <= j
  BY <1>1, LeastNumber
<1>3. p \in 1..(n + 1)
  <2>1. p \in Nat \ {0} /\ p <= n + 1
    BY <1>1, <1>2
  <2> QED
    BY <2>1
<1>4. \A i \in 1..n : f[i] \in Seq(Nat) /\ f[i] # x
  OBVIOUS
<1>5. \A i \in 1..n : i < p => TextLess(f[i], x)
  <2> SUFFICES ASSUME NEW i \in 1..n, i < p PROVE TextLess(f[i], x)
    OBVIOUS
  <2>1. i \notin T
    BY <1>2, <1>3
  <2>2. ~TextLess(x, f[i])
    BY <2>1
  <2> QED
    BY <1>4, <2>2, TextOrder
<1>6. \A i \in 1..n : i >= p => TextLess(x, f[i])
  <2> SUFFICES ASSUME NEW i \in 1..n, i >= p PROVE TextLess(x, f[i])
    OBVIOUS
  <2>1. p \in 1..n /\ TextLess(x, f[p])
    BY <1>2, <1>3
  <2>2. i = p \/ TextLess(f[p], f[i])
    BY <1>3, <2>1 DEF Increasing
  <2> QED
    BY <1>4, <2>1, <2>2, TextOrder
<1> DEFINE g == [i \in 1..(n + 1) |-> IF i < p THEN f[i] ELSE IF i = p THEN x ELSE f[i - 1]]
<1> HIDE DEF T
<1>7. g \in [1..(n + 1) -> D \cup {x}]
  BY <1>3
<1>8. ASSUME NEW i \in 1..(n + 1), NEW j \in 1..(n + 1), i < j
      PROVE  TextLess(g[i], g[j])
  <2>1. CASE j < p
    BY <1>3, <1>8, <2>1 DEF Increasing
  <2>2. CASE j = p
    BY <1>3, <1>5, <1>8, <2>2
  <2>3. CASE j > p /\ i < p
    <3>1. g[i] = f[i] /\ g[j] = f[j - 1] /\ i \in 1..n /\ j - 1 \in 1..n /\ i < j - 1
      BY <1>3, <2>3
    <3> QED
      BY <3>1 DEF Increasing
  <2>4. CASE j > p /\ i = p
    <3>1. g[i] = x /\ g[j] = f[j - 1] /\ j - 1 \in 1..n /\ j - 1 >= p
      BY <1>3, <2>4
    <3> QED
      BY <1>6, <3>1
  <2>5. CASE j > p /\ i > p
    <3>1. /\ g[i] = f[i - 1] /\ g[j] = f[j - 1] /\ i - 1 \in 1..n /\ j - 1 \in 1..n
          /\ i - 1 < j - 1
      BY <1>3, <1>8, <2>5
    <3> QED
      BY <3>1 DEF Increasing
  <2> QED
    BY <1>3, <2>1, <2>2, <2>3, <2>4, <2>5
<1> HIDE DEF g
<1> QED
  BY <1>7, <1>8 DEF Increasing

LEMMA InOrder ==
    ASSUME NEW D, IsFiniteSet(D), D \subseteq Seq(Nat)
    PROVE  \E f \in [1..Cardinality(D) -> D] : Increasing(f, Cardinality(D))
<1> DEFINE Sorts(n) == \A E : /\ IsFiniteSet(E) /\ E \subseteq Seq(Nat) /\ Cardinality(E) = n
                               => \E f \in [1..n -> E] : Increasing(f, n)
           T == {n \in Nat : Sorts(n)}
<1>1. 0 \in T
  <2> SUFFICES ASSUME NEW E PROVE \E f \in [1..0 -> E] : Increasing(f, 0)
    OBVIOUS
  <2> DEFINE f == [i \in 1..0 |-> 0]
  <2>1. f \in [1..0 -> E]
    OBVIOUS
  <2>2. Increasing(f, 0)
    BY DEF Increasing
  <2> QED
    BY <2>1, <2>2, Zenon
<1>2. ASSUME NEW n \in Nat, n \in T PROVE n + 1 \in T
  <2> SUFFICES ASSUME NEW E, IsFiniteSet(E), E \subseteq Seq(Nat), Cardinality(E) = n + 1
               PROVE  \E f \in [1..(n + 1) -> E] : Increasing(f, n + 1)
    OBVIOUS
  <2>1. E # {}
    BY FS_EmptySet
  <2>2. PICK x \in E : TRUE
    BY <2>1
  <2>3. IsFiniteSet(E \ {x}) /\ Cardinality(E \ {x}) = n
    <3>1. x \in E /\ (n + 1) - 1 = n
      OBVIOUS
    <3> HIDE DEF T
    <3> QED
      BY <3>1, FS_RemoveElement
  <2>4. PICK f \in [1..n -> E \ {x}] : Increasing(f, n)
    BY <1>2, <2>3
  <2>5. (E \ {x}) \cup {x} = E /\ x \notin E \ {x} /\ E \ {x} \subseteq Seq(Nat) /\ x \in Seq(Nat)
    OBVIOUS
  <2>6. \E g \in [1..(n + 1) -> (E \ {x}) \cup {x}] : Increasing(g, n + 1)
    BY <2>4, <2>5, OneMore
  <2> QED
    BY <2>5, <2>6, Zenon
<1>3. Cardinality(D) \in Nat
  BY FS_CardinalityType
<1>4. Cardinality(D) \in T
  <2> HIDE DEF T
  <2> QED
    BY <1>1, <1>2, <1>3, SetInduction
<1> QED
  BY <1>4

(* The names in the order of the code are all the names, each of them once. *)
LEMMA NamesInOrder ==
    ASSUME NEW secrets, IsFiniteSet(DOMAIN secrets), DOMAIN secrets \subseteq Seq(Nat)
    PROVE  /\ Ordered(Names(secrets), secrets)
           /\ Names(secrets) \in [1..Cardinality(DOMAIN secrets) -> DOMAIN secrets]
           /\ Increasing(Names(secrets), Cardinality(DOMAIN secrets))
<1> DEFINE D == DOMAIN secrets
           n == Cardinality(D)
           names == Names(secrets)
<1>1. n \in Nat
  BY FS_CardinalityType
<1>2. \E f \in [1..n -> D] : Increasing(f, n)
  BY InOrder
<1>3. \E f \in [1..n -> D] : \A i, j \in DOMAIN f : i < j => TextLess(f[i], f[j])
  BY <1>2 DEF Increasing
<1>4. names \in [1..n -> D] /\ \A i, j \in DOMAIN names : i < j => TextLess(names[i], names[j])
  BY <1>3 DEF Names
<1> HIDE DEF names, D, n
<1>5. DOMAIN names = 1..n /\ names \in Seq(D) /\ Len(names) = n
  BY <1>1, <1>4
<1>6. \A i \in 1..n : names[i] \in Seq(Nat)
  BY <1>4 DEF D
<1>7. ASSUME NEW i \in 1..n, NEW j \in 1..n, i # j PROVE names[i] # names[j]
  <2>1. i < j \/ j < i
    BY <1>1, <1>7
  <2>2. ~TextLess(names[i], names[i]) /\ ~TextLess(names[j], names[j])
    BY <1>6, TextOrder
  <2>3. TextLess(names[i], names[j]) \/ TextLess(names[j], names[i])
    BY <1>4, <1>5, <2>1
  <2> QED
    BY <2>2, <2>3
<1> QED
  BY <1>4, <1>5, <1>7 DEF Ordered, Increasing, names, D, n

(* The names that Text writes are all the names, each of them once.        *)
LEMMA AllNames ==
    ASSUME NEW secrets, IsFiniteSet(DOMAIN secrets), DOMAIN secrets \subseteq Seq(Nat)
    PROVE  \A name \in DOMAIN secrets : \E i \in DOMAIN Names(secrets) : Names(secrets)[i] = name
<1> DEFINE D == DOMAIN secrets
           n == Cardinality(D)
           names == Names(secrets)
<1>1. n \in Nat
  BY FS_CardinalityType
<1>2. names \in [1..n -> D] /\ Ordered(names, secrets)
  BY NamesInOrder
<1> HIDE DEF names, n, D
<1>3. Len(names) = n
  BY <1>1, <1>2
<1>4. names \in Injection(1..n, D)
  BY <1>2, <1>3 DEF Ordered, Injection, IsInjective
<1>5. IsFiniteSet(1..n) /\ Cardinality(1..n) = n
  BY <1>1, FS_Interval
<1>6. names \in Surjection(1..n, D)
  <2>1. IsFiniteSet(D) /\ Cardinality(D) = n
    BY DEF D, n
  <2> QED
    BY <1>4, <1>5, <2>1, FS_Injection
<1> QED
  BY <1>2, <1>6 DEF Surjection, names, n, D

-----------------------------------------------------------------------------
(* The result.                                                             *)

(* Also of names that the dotenv formats refuse, a line would be a text.   *)
LEMMA LineType ==
    ASSUME NEW S, Alphabet(S), NEW format \in Dotenvs, NEW name \in Seq(S), NEW value \in Seq(S)
    PROVE  DotenvLine(name, value, format) \in Seq(S)
<1> DEFINE prefix == IF format = "dotenv-export" THEN ExportWord \o <<Space>> ELSE <<>>
           quoted == IF format = "dotenv-eval" THEN ShellQuoted(value) ELSE DotenvQuoted(value)
           eq == <<Equals>>
           nl == <<NewLine>>
<1>1. prefix \in Seq(S)
  BY ExportTaken, TakesNothing DEF Takes
<1>2. quoted \in Seq(S)
  <2>1. ShellQuoted(value) \in Seq(S)
    BY ShellQuotedRead
  <2>2. DotenvQuoted(value) \in Seq(S)
    BY DotenvQuotedRead
  <2> QED
    BY <2>1, <2>2
<1>3. eq \in Seq(S) /\ nl \in Seq(S)
  BY DEF Alphabet, Equals, NewLine
<1>4. DotenvLine(name, value, format) = prefix \o name \o eq \o quoted \o nl
  BY DEF DotenvLine
<1> HIDE DEF prefix, quoted, eq, nl
<1>5. prefix \o name \in Seq(S)
  BY <1>1, ConcatProperties
<1>6. (prefix \o name) \o eq \in Seq(S)
  BY <1>3, <1>5, ConcatProperties
<1>7. ((prefix \o name) \o eq) \o quoted \in Seq(S)
  BY <1>2, <1>6, ConcatProperties
<1>8. (((prefix \o name) \o eq) \o quoted) \o nl \in Seq(S)
  BY <1>3, <1>7, ConcatProperties
<1> QED
  BY <1>4, <1>8

LEMMA NamesOrdered ==
    ASSUME NEW S, Alphabet(S), NEW secrets, SecretsOver(S, secrets)
    PROVE  /\ IsFiniteSet(DOMAIN secrets) /\ DOMAIN secrets \subseteq Seq(Nat)
           /\ Ordered(Names(secrets), secrets)
<1>1. \A name \in DOMAIN secrets : name \in Seq(Nat)
  BY SeqMonotonic DEF SecretsOver, Alphabet
<1> QED
  BY <1>1, NamesInOrder DEF SecretsOver

LEMMA TextType ==
    ASSUME NEW S, Alphabet(S), NEW secrets, SecretsOver(S, secrets), NEW format \in Formats
    PROVE  Text(secrets, format) \in Seq(S)
<1>1. CASE format = "json"
  BY <1>1, NamesOrdered, JsonTaken DEF Takes
<1>2. CASE format = "yaml"
  BY <1>2, NamesOrdered, YamlTaken DEF Takes
<1>3. CASE format \in Dotenvs
  <2> DEFINE names == Names(secrets)
             lines == [i \in DOMAIN names |-> DotenvLine(names[i], secrets[names[i]], format)]
  <2>1. Text(secrets, format) = FlattenSeq(lines)
    BY <1>3 DEF Text, Mapped, Dotenvs
  <2>2. /\ Len(names) \in Nat /\ DOMAIN names = 1..Len(names)
        /\ \A i \in 1..Len(names) : names[i] \in DOMAIN secrets
    BY NamesOrdered, PairsType
  <2> HIDE DEF names
  <2>3. \A i \in 1..Len(names) : DotenvLine(names[i], secrets[names[i]], format) \in Seq(S)
    BY <1>3, <2>2, LineType DEF SecretsOver
  <2>4. lines \in Seq(Seq(S))
    BY <2>2, <2>3
  <2> HIDE DEF lines
  <2> QED
    BY <2>1, <2>4, FlattenType
<1> QED
  BY <1>1, <1>2, <1>3 DEF Formats, Dotenvs

(* Whatever the secrets are, over an alphabet that has at least the bytes,
   the text in which export writes them is read by the reader of its format
   to its end as just these variables with just these values: a name that
   the dotenv formats could not carry makes the rendering fail, and no value
   in any format ends its line or its quotes, or changes on the way.       *)
THEOREM TextReadsBack ==
    ASSUME NEW S, Alphabet(S), NEW secrets, SecretsOver(S, secrets),
           NEW format \in Formats, Renders(secrets, format)
    PROVE  /\ Text(secrets, format) \in Seq(S)
           /\ ReadsBackAs(Text(secrets, format), format, secrets)
           /\ \A name \in DOMAIN secrets :
                 \E i \in DOMAIN Names(secrets) : Names(secrets)[i] = name
<1> DEFINE text == Text(secrets, format)
           P == Pairs(Names(secrets), secrets)
           end == AfterReading(text, format)
<1>1. IsFiniteSet(DOMAIN secrets) /\ DOMAIN secrets \subseteq Seq(Nat)
  BY NamesOrdered
<1>2. Ordered(Names(secrets), secrets)
  BY NamesOrdered
<1>3. Takes(S, format, Between(<<>>), text, Between(P))
  <2>1. CASE format \in Dotenvs
    BY <1>2, <2>1, DotenvTaken
  <2>2. CASE format = "json"
    BY <1>2, <2>2, JsonTaken
  <2>3. CASE format = "yaml"
    BY <1>2, <2>3, YamlTaken
  <2> QED
    BY <2>1, <2>2, <2>3 DEF Formats, Dotenvs
<1>4. Between(<<>>) = Reader
  BY DEF Between, State, Reader
<1> HIDE DEF text, P
<1>5. text \in Seq(S) /\ Reads(format, Reader, text, Between(P))
  BY <1>3, <1>4 DEF Takes
<1>6. end = Between(P)
  BY <1>5, ReadingIsDetermined
<1>7. end.mode = "name" /\ end.found = P
  BY <1>6, StateFields DEF Between
<1>8. P = [i \in DOMAIN Names(secrets) |-> <<Names(secrets)[i], secrets[Names(secrets)[i]]>>]
  BY DEF P, Pairs, Pair
<1> HIDE DEF end
<1>9. ReadsBackAs(text, format, secrets)
  <2> DEFINE Q == [i \in DOMAIN Names(secrets) |->
                      <<Names(secrets)[i], secrets[Names(secrets)[i]]>>]
  <2>1. ReadsBackAs(text, format, secrets) <=> end.mode = "name" /\ end.found = Q
    BY Zenon DEF ReadsBackAs, end
  <2> HIDE DEF Q
  <2>2. P = Q
    BY <1>8 DEF Q
  <2> QED
    BY <1>7, <2>1, <2>2
<1> QED
  BY <1>1, <1>5, <1>9, AllNames DEF text
=============================================================================
