---------------------------- MODULE RenderProofs ----------------------------
(***************************************************************************)
(* What a reader makes of the rendering of one character, for every        *)
(* character and whatever it has read before: the step of the induction    *)
(* over values in ReadBackProofs.                                          *)
(***************************************************************************)
EXTENDS Render, TLAPS

(* A reader after the one, two, four or six characters that a piece has.   *)
DotenvAfter(r, p) == IF Len(p) = 1 THEN DotenvStep(r, p[1])
                     ELSE DotenvStep(DotenvStep(r, p[1]), p[2])
ShellAfter(r, p) == IF Len(p) = 1 THEN ShellStep(r, p[1])
                    ELSE ShellStep(ShellStep(ShellStep(ShellStep(r, p[1]), p[2]), p[3]), p[4])
JsonAfter4(r, p) == JsonStep(JsonStep(JsonStep(JsonStep(r, p[1]), p[2]), p[3]), p[4])
JsonAfter(r, p)  == CASE Len(p) = 1 -> JsonStep(r, p[1])
                      [] Len(p) = 2 -> JsonStep(JsonStep(r, p[1]), p[2])
                      [] Len(p) = 6 -> JsonStep(JsonStep(JsonAfter4(r, p), p[5]), p[6])

(* A reader that is in the given mode.                                     *)
In(mode, N, F) == [mode : {mode}, name : N, text : Seq(Nat), found : F]

-----------------------------------------------------------------------------
(* Dotenv.                                                                 *)

LEMMA DotenvEscape ==
    ASSUME NEW N, NEW F, NEW r \in In("quoted", N, F)
    PROVE  DotenvStep(r, Backslash) = Goto(r, "escape")
BY DEF In, DotenvStep, Backslash, Quote, NewLine, Return

LEMMA DotenvEscaped ==
    ASSUME NEW N, NEW F, NEW r \in In("quoted", N, F), NEW c \in Nat
    PROVE  /\ c = 110 => DotenvStep(Goto(r, "escape"), c) = Take(r, NewLine)
           /\ c = 114 => DotenvStep(Goto(r, "escape"), c) = Take(r, Return)
           /\ c \notin {110, 114} => DotenvStep(Goto(r, "escape"), c) = Take(r, c)
<1>1. Goto(r, "escape").mode = "escape"
  BY DEF In, Goto
<1>2. \A x \in Nat : TakeIn(Goto(r, "escape"), x, "quoted") = Take(r, x)
  BY DEF In, Goto, Take, TakeIn
<1>3. DotenvStep(Goto(r, "escape"), c) =
         TakeIn(Goto(r, "escape"), CASE c = 110 -> NewLine [] c = 114 -> Return
                                     [] OTHER -> c, "quoted")
  BY <1>1 DEF DotenvStep
<1> QED
  BY <1>2, <1>3 DEF NewLine, Return

(* A dotenv reader between double quotes takes from the piece of any
   character exactly that character, and is between the quotes still: no
   value ends its quotes, and none loses or gains a backslash.             *)
THEOREM DotenvCharacterReadsBack ==
    ASSUME NEW N, NEW F, NEW r \in In("quoted", N, F), NEW c \in Nat
    PROVE  DotenvAfter(r, DotenvPiece(c)) = Take(r, c)
<1> DEFINE p == DotenvPiece(c)
<1>1. CASE c \notin {Backslash, Quote, NewLine, Return}
  <2>1. p = <<c>>
    BY <1>1 DEF DotenvPiece
  <2>2. DotenvStep(r, c) = Take(r, c)
    BY <1>1 DEF In, DotenvStep
  <2> QED
    BY <2>1, <2>2 DEF DotenvAfter
<1>2. ASSUME NEW d \in Nat, p = <<Backslash, d>>,
             DotenvStep(Goto(r, "escape"), d) = Take(r, c)
      PROVE  DotenvAfter(r, p) = Take(r, c)
  BY <1>2, DotenvEscape DEF DotenvAfter
<1>3. CASE c \in {Backslash, Quote}
  BY <1>2, <1>3, DotenvEscaped DEF DotenvPiece, Backslash, Quote
<1>4. CASE c = NewLine
  BY <1>2, <1>4, DotenvEscaped DEF DotenvPiece, Backslash, Quote, NewLine
<1>5. CASE c = Return
  BY <1>2, <1>5, DotenvEscaped DEF DotenvPiece, Backslash, Quote, NewLine, Return
<1> QED
  BY <1>1, <1>3, <1>4, <1>5

-----------------------------------------------------------------------------
(* A POSIX shell.                                                          *)

(* A shell between single quotes, likewise: it leaves them for an apostrophe
   alone, and comes back.                                                  *)
THEOREM ShellCharacterReadsBack ==
    ASSUME NEW N, NEW F, NEW r \in In("quoted", N, F), NEW c \in Nat
    PROVE  ShellAfter(r, ShellPiece(c)) = Take(r, c)
<1>1. CASE c # Apostrophe
  <2>1. ShellPiece(c) = <<c>>
    BY <1>1 DEF ShellPiece
  <2>2. ShellStep(r, c) = Take(r, c)
    BY <1>1 DEF In, ShellStep
  <2> QED
    BY <2>1, <2>2 DEF ShellAfter
<1>2. CASE c = Apostrophe
  <2> DEFINE p == ShellPiece(c)
  <2>1. p = <<Apostrophe, Backslash, Apostrophe, Apostrophe>>
    BY <1>2 DEF ShellPiece
  <2> DEFINE v == Goto(r, "value")
             e == Goto(r, "escape")
             t == TakeIn(r, Apostrophe, "value")
  <2>0. v.mode = "value" /\ e.mode = "escape" /\ t.mode = "value"
    BY DEF In, Goto, Take, TakeIn
  <2>7. /\ Goto(v, "escape") = e
        /\ TakeIn(e, Apostrophe, "value") = t
        /\ Goto(t, "quoted") = Take(r, Apostrophe)
    BY DEF In, Goto, Take, TakeIn
  <2> HIDE DEF v, e, t
  <2>2. ShellStep(r, Apostrophe) = v
    BY DEF In, ShellStep, v
  <2>3. ShellStep(v, Backslash) = e
    BY <2>0, <2>7 DEF ShellStep, Backslash, Apostrophe, NewLine
  <2>4. ShellStep(e, Apostrophe) = t
    BY <2>0, <2>7 DEF ShellStep
  <2>5. ShellStep(t, Apostrophe) = Take(r, Apostrophe)
    BY <2>0, <2>7 DEF ShellStep, Apostrophe, Backslash, NewLine
  <2>8. Len(p) = 4 /\ p[1] = Apostrophe /\ p[2] = Backslash /\ p[3] = Apostrophe
        /\ p[4] = Apostrophe
    BY <2>1
  <2> HIDE DEF p
  <2>9. ShellAfter(r, p) = Take(r, Apostrophe)
    BY <2>2, <2>3, <2>4, <2>5, <2>8 DEF ShellAfter
  <2> QED
    BY <1>2, <2>9 DEF p
<1> QED
  BY <1>1, <1>2

-----------------------------------------------------------------------------
(* JSON and YAML.                                                          *)

LEMMA HexDigits ==
    ASSUME NEW n \in 0..15
    PROVE  /\ Hex(n) \in Digit \cup 97..102
           /\ UnHex(Hex(n)) = n
BY DEF Hex, UnHex, Digit

LEMMA JsonModes ==
    ASSUME NEW r, NEW c
    PROVE  /\ r.mode = "string" => JsonStep(r, c) = JsonString(r, c)
           /\ r.mode = "escape" => JsonStep(r, c) = JsonEscape(r, c)
           /\ r.mode = "u3" => JsonStep(r, c) = JsonDigit(r, c, "u2")
           /\ r.mode = "u2" => JsonStep(r, c) = JsonDigit(r, c, "u1")
           /\ r.mode = "u1" => JsonStep(r, c) = JsonDigit(r, c, "u0")
           /\ r.mode = "u0" => JsonStep(r, c) = JsonDigit(r, c, "string")
BY DEF JsonStep

LEMMA TakenMode ==
    ASSUME NEW N, NEW F, NEW r \in In("string", N, F), NEW c \in Nat, NEW mode
    PROVE  /\ TakeIn(r, c, mode).mode = mode
           /\ TakeIn(r, c, "string") = Take(r, c)
           /\ Goto(r, mode).mode = mode
           /\ TakeIn(Goto(r, "escape"), c, mode) = TakeIn(r, c, mode)
BY DEF In, Take, TakeIn, Goto

LEMMA JsonTakes ==
    ASSUME NEW N, NEW F, NEW r \in In("string", N, F), NEW c \in Nat
    PROVE  /\ JsonStep(r, Backslash) = Goto(r, "escape")
           /\ c \notin (0..31) \cup {Backslash, Quote} => JsonStep(r, c) = Take(r, c)
<1>1. \A d : JsonStep(r, d) = JsonString(r, d)
  BY JsonModes DEF In
<1> QED
  BY <1>1 DEF JsonString, Backslash, Quote

LEMMA JsonEscaped ==
    ASSUME NEW N, NEW F, NEW r \in In("string", N, F)
    PROVE  LET e == Goto(r, "escape") IN
           /\ \A c \in {Quote, Backslash} : JsonStep(e, c) = Take(r, c)
           /\ JsonStep(e, 98)  = Take(r, Backspace)
           /\ JsonStep(e, 102) = Take(r, FormFeed)
           /\ JsonStep(e, 110) = Take(r, NewLine)
           /\ JsonStep(e, 114) = Take(r, Return)
           /\ JsonStep(e, 116) = Take(r, Tab)
           /\ JsonStep(e, 117) = TakeIn(r, 0, "u3")
<1> DEFINE e == Goto(r, "escape")
<1>1. \A c : JsonStep(e, c) = JsonEscape(e, c)
  BY JsonModes, TakenMode
<1>2. \A c \in Nat : TakeIn(e, c, "string") = Take(r, c)
  BY TakenMode
<1>3. TakeIn(e, 0, "u3") = TakeIn(r, 0, "u3")
  BY TakenMode
<1> HIDE DEF e
<1>4. ASSUME NEW c \in {Quote, Backslash} PROVE JsonStep(e, c) = Take(r, c)
  <2>1. JsonEscape(e, c) = TakeIn(e, c, "string")
    BY DEF JsonEscape, Quote, Backslash
  <2> QED
    BY <1>1, <1>2, <2>1 DEF Quote, Backslash
<1>5. /\ JsonEscape(e, 98)  = TakeIn(e, Backspace, "string")
      /\ JsonEscape(e, 102) = TakeIn(e, FormFeed, "string")
      /\ JsonEscape(e, 110) = TakeIn(e, NewLine, "string")
      /\ JsonEscape(e, 114) = TakeIn(e, Return, "string")
      /\ JsonEscape(e, 116) = TakeIn(e, Tab, "string")
      /\ JsonEscape(e, 117) = TakeIn(e, 0, "u3")
  BY DEF JsonEscape, Quote, Backslash
<1>6. \A c \in {Backspace, FormFeed, NewLine, Return, Tab} : c \in Nat
  BY DEF Backspace, FormFeed, NewLine, Return, Tab
<1> QED
  BY <1>1, <1>2, <1>3, <1>4, <1>5, <1>6 DEF e

(* One hexadecimal digit is read into the last character of the text.      *)
LEMMA JsonHex ==
    ASSUME NEW N, NEW F, NEW r \in In("string", N, F), NEW a \in Nat, NEW n \in 0..15,
           NEW mode, NEW next
    PROVE  JsonDigit(TakeIn(r, a, mode), Hex(n), next) = TakeIn(r, 16 * a + n, next)
<1> DEFINE s == TakeIn(r, a, mode)
<1>1. JsonDigit(s, Hex(n), next) =
         Goto([s EXCEPT !.text = Append(Front(@), 16 * Last(@) + n)], next)
  BY HexDigits DEF JsonDigit
<1>2. s.text = Append(r.text, a) /\ r.text \in Seq(Nat)
  BY DEF In, Take, TakeIn, Goto
<1>3. /\ Front(Append(r.text, a)) = r.text
      /\ Last(Append(r.text, a)) = a
  <2>1. Len(Append(r.text, a)) = Len(r.text) + 1 /\ Len(r.text) \in Nat
    BY <1>2
  <2>2. Append(r.text, a)[Len(r.text) + 1] = a
    BY <1>2
  <2>3. SubSeq(Append(r.text, a), 1, Len(r.text)) = r.text
    BY <1>2
  <2> QED
    BY <2>1, <2>2, <2>3 DEF Front, Last
<1>4. Append(Front(s.text), 16 * Last(s.text) + n) = Append(r.text, 16 * a + n)
  BY <1>2, <1>3
<1>5. [s EXCEPT !.text = Append(r.text, 16 * a + n)] = TakeIn(r, 16 * a + n, mode)
  BY DEF In, Take, TakeIn, Goto
<1>6. Goto(TakeIn(r, 16 * a + n, mode), next) = TakeIn(r, 16 * a + n, next)
  BY DEF In, Take, TakeIn, Goto
<1> HIDE DEF s
<1> QED
  BY <1>1, <1>4, <1>5, <1>6 DEF s

(* A JSON string, likewise: every character is read as itself, control
   characters through their escapes and hexadecimal digits.                *)
THEOREM JsonCharacterReadsBack ==
    ASSUME NEW N, NEW F, NEW r \in In("string", N, F), NEW c \in Nat
    PROVE  JsonAfter(r, JsonPiece(c)) = Take(r, c)
<1> DEFINE p == JsonPiece(c)
           Named == {Backspace, Tab, NewLine, FormFeed, Return}
<1>1. CASE c \notin (0..31) \cup {Backslash, Quote}
  <2>1. p = <<c>>
    BY <1>1 DEF JsonPiece, Backspace, Tab, NewLine, FormFeed, Return
  <2> QED
    BY <1>1, <2>1, JsonTakes DEF JsonAfter
<1>2. ASSUME NEW d \in Nat, p = <<Backslash, d>>,
             JsonStep(Goto(r, "escape"), d) = Take(r, c)
      PROVE  JsonAfter(r, p) = Take(r, c)
  BY <1>2, JsonTakes DEF JsonAfter
<1>3. CASE c \in {Backslash, Quote}
  <2>1. p = <<Backslash, c>>
    BY <1>3 DEF JsonPiece, Backslash, Quote, Backspace, Tab, NewLine, FormFeed, Return
  <2> QED
    BY <1>2, <1>3, <2>1, JsonEscaped
<1>4. CASE c \in Named
  <2>1. \/ c = Backspace /\ p = <<Backslash, 98>>
        \/ c = FormFeed /\ p = <<Backslash, 102>>
        \/ c = NewLine /\ p = <<Backslash, 110>>
        \/ c = Return /\ p = <<Backslash, 114>>
        \/ c = Tab /\ p = <<Backslash, 116>>
    BY <1>4 DEF JsonPiece, Backspace, Tab, NewLine, FormFeed, Return, Backslash, Quote
  <2> HIDE DEF p
  <2> QED
    BY <1>2, <2>1, JsonEscaped DEF p
<1>5. CASE c \in (0..31) \ Named
  <2>1. /\ c \div 16 \in 0..15 /\ c % 16 \in 0..15
        /\ 16 * (c \div 16) + (c % 16) = c
    BY <1>5
  <2>2. p = <<Backslash, 117, Hex(0), Hex(0), Hex(c \div 16), Hex(c % 16)>>
    BY <1>5 DEF JsonPiece, Backslash, Quote, Backspace, Tab, NewLine, FormFeed, Return, Hex
  <2>3. /\ Len(p) = 6 /\ p[1] = Backslash /\ p[2] = 117 /\ p[3] = Hex(0) /\ p[4] = Hex(0)
        /\ p[5] = Hex(c \div 16) /\ p[6] = Hex(c % 16)
    BY <2>2
  <2>4. /\ JsonStep(r, Backslash) = Goto(r, "escape")
        /\ JsonStep(Goto(r, "escape"), 117) = TakeIn(r, 0, "u3")
    BY JsonTakes, JsonEscaped
  <2>5. /\ JsonStep(TakeIn(r, 0, "u3"), Hex(0)) = TakeIn(r, 0, "u2")
        /\ JsonStep(TakeIn(r, 0, "u2"), Hex(0)) = TakeIn(r, 0, "u1")
    <3>1. 16 * 0 + 0 = 0 /\ 0 \in 0..15 /\ 0 \in Nat
      OBVIOUS
    <3>2. \A mode, next : JsonDigit(TakeIn(r, 0, mode), Hex(0), next) = TakeIn(r, 0, next)
      BY <3>1, JsonHex
    <3> QED
      BY <3>1, <3>2, JsonModes, TakenMode
  <2>6. JsonStep(TakeIn(r, 0, "u1"), Hex(c \div 16)) = TakeIn(r, c \div 16, "u0")
    <3>1. 16 * 0 + (c \div 16) = c \div 16 /\ 0 \in Nat
      BY <2>1
    <3>2. JsonDigit(TakeIn(r, 0, "u1"), Hex(c \div 16), "u0") = TakeIn(r, c \div 16, "u0")
      BY <2>1, <3>1, JsonHex
    <3> QED
      BY <3>1, <3>2, JsonModes, TakenMode
  <2>7. JsonStep(TakeIn(r, c \div 16, "u0"), Hex(c % 16)) = TakeIn(r, c, "string")
    <3>1. c \div 16 \in Nat
      BY <2>1
    <3>2. JsonDigit(TakeIn(r, c \div 16, "u0"), Hex(c % 16), "string") =
             TakeIn(r, 16 * (c \div 16) + (c % 16), "string")
      BY <2>1, <3>1, JsonHex
    <3> QED
      BY <2>1, <3>1, <3>2, JsonModes, TakenMode
  <2> HIDE DEF p
  <2>8. JsonAfter4(r, p) = TakeIn(r, 0, "u1")
    BY <2>3, <2>4, <2>5 DEF JsonAfter4
  <2> QED
    BY <2>3, <2>6, <2>7, <2>8, TakenMode DEF JsonAfter, p
<1> QED
  BY <1>1, <1>3, <1>4, <1>5
=============================================================================
