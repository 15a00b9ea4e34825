----------------------------- MODULE MC_Deliver -----------------------------
(* Small instances of Deliver: one process that exports every short value of
   an alphabet of special characters in every format; two that export to one
   file; and one that runs a program.                                      *)
EXTENDS Deliver, TLC

CONSTANTS c1, c2

(* n and r are what line breaks are escaped to; 1 and 31 need hex digits.  *)
Special == {Quote, Apostrophe, Backslash, NewLine, 110}
Wide    == Special \cup {Return, Tab, Backspace, FormFeed, 1, 31, Equals, Space, 36, 127, 233}

Values == BoundedSeq(Special, 3) \cup BoundedSeq(Wide, 2)

A == <<65>>
B == <<66, 95, 49>>
Dash  == <<97, 45, 98>>
Forge == <<65, Quote, NewLine, Equals>>
KeybenToken == KEYBEN \o <<95, 84>>
KeybenOther == KEYBEN \o <<88>>
KeybenBytes == KEYBEN \o <<NotUtf8>>

X == <<120>>
Y == <<121, 121, 121>>

ToFile(secrets, format) == [kind |-> "export", secrets |-> secrets, format |-> format]
ToRun(secrets) == [kind |-> "run", secrets |-> secrets, format |-> None]

Alone(t) == [c \in Client |-> IF c = c1 THEN t ELSE None]
Both(t, u) == [c \in Client |-> IF c = c1 THEN t ELSE u]

OneValue == {ToFile(A :> v, f) : v \in Values, f \in Formats}
Several  == {ToFile(s, f) : s \in {<<>>, (B :> Y) @@ (A :> <<NewLine>>),
                                   (A :> X) @@ (Dash :> Y), (Forge :> X) @@ (A :> Y)},
                            f \in Formats}
Runs == {ToRun(s) : s \in {<<>>, (KeybenToken :> X) @@ (A :> Y), A :> <<0>>,
                           (B :> Y), (<<75, Equals>> :> X)}}

DeliverCases ==
    {Alone(t) : t \in OneValue \cup Several \cup Runs}
    \cup {Both(ToFile(A :> X, "dotenv"), ToFile(A :> Y, "dotenv")),
          Both(ToFile(A :> X, "yaml"), ToFile(Dash :> X, "dotenv")),
          Both(ToFile(B :> X, "dotenv-eval"), ToRun(A :> X))}

DeliverCharacter == 0..255

DeliverOld == {None, [mode |-> "0644", bytes |-> [i \in 1..12 |-> 88]]}

DeliverAmbient == (A :> X) @@ (KeybenToken :> X) @@ (KeybenOther :> Y) @@ (KeybenBytes :> X)
=============================================================================
