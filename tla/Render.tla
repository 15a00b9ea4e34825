------------------------------- MODULE Render -------------------------------
(***************************************************************************)
(* keyben export's rendering of an environment, over texts as sequences of *)
(* code points, and reference readers of what it renders.                  *)
(* Source: render and its helpers in src/client/export.rs.                 *)
(*                                                                         *)
(* The secrets are a function from names to values, both texts.            *)
(***************************************************************************)
EXTENDS Integers, SequencesExt

Backspace  == 8
Tab        == 9
NewLine    == 10
FormFeed   == 12
Return     == 13
Space      == 32
Quote      == 34
Apostrophe == 39
Equals     == 61
Backslash  == 92

Upper == 65..90
Lower == 97..122
Digit == 48..57

ExportWord == <<101, 120, 112, 111, 114, 116>>    \* the word export
Hex(n)   == IF n < 10 THEN 48 + n ELSE 87 + n
UnHex(d) == IF d \in Digit THEN d - 48 ELSE d - 87

Formats == {"dotenv", "dotenv-export", "dotenv-eval", "json", "yaml"}
Dotenvs == {"dotenv", "dotenv-export", "dotenv-eval"}

Mapped(text, Piece(_)) == FlattenSeq([i \in DOMAIN text |-> Piece(text[i])])

(* BTreeMap's order of texts, by which they are written.                   *)
TextLess(s, t) ==
    \E i \in 1..Len(t) :
        /\ \A j \in 1..(i - 1) : j <= Len(s) /\ s[j] = t[j]
        /\ Len(s) >= i => s[i] < t[i]

(* The characters of names and values are of S.                            *)
SecretsOver(S, secrets) ==
    /\ IsFiniteSet(DOMAIN secrets)
    /\ \A name \in DOMAIN secrets : name \in Seq(S) /\ secrets[name] \in Seq(S)

Names(secrets) ==
    CHOOSE names \in [1..Cardinality(DOMAIN secrets) -> DOMAIN secrets] :
        \A i, j \in DOMAIN names : i < j => TextLess(names[i], names[j])

-----------------------------------------------------------------------------
(* Quoting.                                                                *)

IsShellIdentifier(name) ==
    /\ name # <<>>
    /\ name[1] \notin Digit
    /\ \A i \in DOMAIN name : name[i] \in Upper \cup Lower \cup Digit \cup {95}

(* What stands for a character between the quotes.                         *)
FaultyDotenvPiece(c) == CASE c = Quote   -> <<Backslash, Quote>>
                          [] c = NewLine -> <<Backslash, 110>>
                          [] c = Return  -> <<Backslash, 114>>
                          [] OTHER       -> <<c>>
DotenvPiece(c) == CASE c \in {Backslash, Quote} -> <<Backslash, c>>
                    [] c = NewLine -> <<Backslash, 110>>
                    [] c = Return  -> <<Backslash, 114>>
                    [] OTHER       -> <<c>>

(* A quote in the text closes the string, is escaped, and opens it again.  *)
ShellPiece(c) == IF c = Apostrophe THEN <<Apostrophe, Backslash, Apostrophe, Apostrophe>>
                 ELSE <<c>>

JsonPiece(c) == CASE c \in {Backslash, Quote} -> <<Backslash, c>>
                  [] c = Backspace -> <<Backslash, 98>>
                  [] c = FormFeed  -> <<Backslash, 102>>
                  [] c = NewLine   -> <<Backslash, 110>>
                  [] c = Return    -> <<Backslash, 114>>
                  [] c = Tab       -> <<Backslash, 116>>
                  [] c \in (0..31) \ {Backspace, Tab, NewLine, FormFeed, Return} ->
                         <<Backslash, 117, 48, 48, Hex(c \div 16), Hex(c % 16)>>
                  [] OTHER -> <<c>>

DotenvQuoted(value) == <<Quote>> \o Mapped(value, DotenvPiece) \o <<Quote>>
ShellQuoted(value)  == <<Apostrophe>> \o Mapped(value, ShellPiece) \o <<Apostrophe>>
JsonQuoted(text)    == <<Quote>> \o Mapped(text, JsonPiece) \o <<Quote>>

-----------------------------------------------------------------------------
(* The formats.  Rendering fails for a name that a shell cannot assign.    *)

Renders(secrets, format) ==
    format \in Dotenvs => \A name \in DOMAIN secrets : IsShellIdentifier(name)

DotenvLine(name, value, format) ==
    (IF format = "dotenv-export" THEN ExportWord \o <<Space>> ELSE <<>>)
    \o name \o <<Equals>>
    \o (IF format = "dotenv-eval" THEN ShellQuoted(value) ELSE DotenvQuoted(value))
    \o <<NewLine>>

YamlLine(name, value) == JsonQuoted(name) \o <<58, Space>> \o JsonQuoted(value) \o <<NewLine>>

(* serde_json's pretty object: one member per line, indented.              *)
JsonMember(name, value) ==
    <<NewLine, Space, Space>> \o JsonQuoted(name) \o <<58, Space>> \o JsonQuoted(value)

Text(secrets, format) ==
    LET names == Names(secrets)
        Lines(Line(_)) == Mapped(names, Line) IN
    CASE format \in Dotenvs ->
             Lines(LAMBDA n : DotenvLine(n, secrets[n], format))
      [] format = "yaml" ->
             IF names = <<>> THEN <<123, 125, NewLine>>
             ELSE Lines(LAMBDA n : YamlLine(n, secrets[n]))
      [] format = "json" ->
             IF names = <<>> THEN <<123, 125, NewLine>>
             ELSE <<123>>
                  \o Lines(LAMBDA n : JsonMember(n, secrets[n])
                                      \o IF n = Last(names) THEN <<>> ELSE <<44>>)
                  \o <<NewLine, 125, NewLine>>

-----------------------------------------------------------------------------
(* Reference readers: automata that take one character at a time and collect
   what is assigned.  No definition above is used.                         *)

Reader == [mode |-> "name", name |-> <<>>, text |-> <<>>, found |-> <<>>]

Goto(r, mode)   == [r EXCEPT !.mode = mode]
Take(r, c)      == [r EXCEPT !.text = Append(@, c)]
TakeIn(r, c, m) == Goto(Take(r, c), m)
Assigned(r)     == [Reader EXCEPT !.found = Append(r.found, <<r.name, r.text>>)]

(* name=... up to the value, where "export" and a space may precede a name. *)
ReadName(r, c) ==
    CASE c = Equals                     -> Goto(r, "value")
      [] c = Space /\ r.name = ExportWord   -> [r EXCEPT !.name = <<>>]
      [] c \in Upper \cup Lower \cup Digit \cup {95} -> [r EXCEPT !.name = Append(@, c)]
      [] OTHER                          -> Goto(r, "error")

(* A dotenv file: one line for each variable, the value in double quotes.  *)
DotenvStep(r, c) ==
    CASE r.mode = "name"   -> ReadName(r, c)
      [] r.mode = "value"  -> Goto(r, IF c = Quote THEN "quoted" ELSE "error")
      [] r.mode = "quoted" -> CASE c = Quote     -> Goto(r, "end")
                                [] c = Backslash -> Goto(r, "escape")
                                [] c \in {NewLine, Return} -> Goto(r, "error")
                                [] OTHER         -> Take(r, c)
      [] r.mode = "escape" -> TakeIn(r, CASE c = 110 -> NewLine [] c = 114 -> Return
                                          [] OTHER -> c, "quoted")
      [] r.mode = "end"    -> IF c = NewLine THEN Assigned(r) ELSE Goto(r, "error")
      [] OTHER             -> r

(* A POSIX shell that evaluates assignments, as far as the text uses it.   *)
ShellStep(r, c) ==
    CASE r.mode = "name"   -> ReadName(r, c)
      [] r.mode = "value"  -> CASE c = Apostrophe -> Goto(r, "quoted")
                                [] c = Backslash  -> Goto(r, "escape")
                                [] c = NewLine    -> Assigned(r)
                                [] OTHER          -> Goto(r, "error")
      [] r.mode = "quoted" -> IF c = Apostrophe THEN Goto(r, "value") ELSE Take(r, c)
      [] r.mode = "escape" -> TakeIn(r, c, "value")
      [] OTHER             -> r

(* The members of a JSON object, or of a YAML mapping with such scalars: key
   and value are strings without raw control characters.                   *)
JsonName(r, c) == CASE c = Quote -> Goto(r, "string")
                    [] c \in {123, 125, 44, NewLine, Space} -> r
                    [] OTHER -> Goto(r, "error")

JsonString(r, c) == CASE c = Quote     -> Goto(r, "end")
                      [] c = Backslash -> Goto(r, "escape")
                      [] c < 32        -> Goto(r, "error")
                      [] OTHER         -> Take(r, c)

JsonEscape(r, c) == CASE c \in {Quote, Backslash, 47} -> TakeIn(r, c, "string")
                      [] c = 98  -> TakeIn(r, Backspace, "string")
                      [] c = 102 -> TakeIn(r, FormFeed, "string")
                      [] c = 110 -> TakeIn(r, NewLine, "string")
                      [] c = 114 -> TakeIn(r, Return, "string")
                      [] c = 116 -> TakeIn(r, Tab, "string")
                      [] c = 117 -> TakeIn(r, 0, "u3")
                      [] OTHER   -> Goto(r, "error")

(* Four digits for one character.                                          *)
JsonDigit(r, c, next) ==
    IF c \notin Digit \cup 97..102 THEN Goto(r, "error")
    ELSE Goto([r EXCEPT !.text = Append(Front(@), 16 * Last(@) + UnHex(c))], next)

JsonEnd(r, c) == CASE c = 58 -> [Goto(r, "name") EXCEPT !.name = <<r.text>>, !.text = <<>>]
                   [] c \in {44, NewLine} /\ r.name # <<>> ->
                          Assigned([r EXCEPT !.name = @[1]])
                   [] OTHER -> Goto(r, "error")

JsonStep(r, c) ==
    CASE r.mode = "name"   -> JsonName(r, c)
      [] r.mode = "string" -> JsonString(r, c)
      [] r.mode = "escape" -> JsonEscape(r, c)
      [] r.mode = "u3"     -> JsonDigit(r, c, "u2")
      [] r.mode = "u2"     -> JsonDigit(r, c, "u1")
      [] r.mode = "u1"     -> JsonDigit(r, c, "u0")
      [] r.mode = "u0"     -> JsonDigit(r, c, "string")
      [] r.mode = "end"    -> JsonEnd(r, c)
      [] OTHER             -> r

ReadStep(format, r, c) == CASE format \in {"dotenv", "dotenv-export"} -> DotenvStep(r, c)
                            [] format = "dotenv-eval"                 -> ShellStep(r, c)
                            [] format \in {"json", "yaml"}            -> JsonStep(r, c)

(* The reader of a format, at the end of a text.                           *)
AfterReading(text, format) ==
    LET after[n \in 0..Len(text)] ==
            IF n = 0 THEN Reader ELSE ReadStep(format, after[n - 1], text[n])
    IN after[Len(text)]

(* It accepts the text and has found exactly the secrets, in order.        *)
ReadsBackAs(text, format, secrets) ==
    LET end   == AfterReading(text, format)
        names == Names(secrets) IN
    /\ end.mode = "name"
    /\ end.found = [i \in DOMAIN names |-> <<names[i], secrets[names[i]]>>]
=============================================================================
