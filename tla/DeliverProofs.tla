--------------------------- MODULE DeliverProofs ---------------------------
(***************************************************************************)
(* Proofs about export and run: DeliverInv and RunInv are invariants, and  *)
(* with them the properties of Deliver, for any secrets, any number of     *)
(* exports to one file, and a failure of any of them at any point.         *)
(***************************************************************************)
EXTENDS Deliver, ReadBackProofs

-----------------------------------------------------------------------------
(* Lemmas about the file.                                                  *)

LEMMA Elements ==
    ASSUME NEW S, NEW s \in Seq(S)
    PROVE  Len(s) \in Nat /\ \A k \in 1..Len(s) : s[k] \in S
OBVIOUS

LEMMA EmptyText ==
    ASSUME NEW S
    PROVE  <<>> \in Seq(S)
OBVIOUS

LEMMA PartOfText ==
    ASSUME NEW S, NEW s \in Seq(S), NEW m \in Nat \ {0}, NEW n \in Nat, n <= Len(s)
    PROVE  SubSeq(s, m, n) \in Seq(S)
OBVIOUS

(* Every byte has its value after a write: of what is written, of what was
   there, or zero.                                                         *)
LEMMA WrittenType ==
    ASSUME NEW content \in Seq(Character), NEW bytes \in Seq(Character), NEW at \in Nat
    PROVE  WrittenAt(content, at, bytes) \in Seq(Character)
<1> DEFINE end == at + Len(bytes)
           size == IF Len(content) > end THEN Len(content) ELSE end
<1>1. /\ size \in Nat /\ end \in Nat
      /\ \A k \in 1..Len(bytes) : bytes[k] \in Character
      /\ \A k \in 1..Len(content) : content[k] \in Character
      /\ Len(bytes) \in Nat /\ Len(content) \in Nat
  <2>1. Len(bytes) \in Nat /\ Len(content) \in Nat
    OBVIOUS
  <2>2. \A k \in 1..Len(bytes) : bytes[k] \in Character
    BY Elements
  <2>3. \A k \in 1..Len(content) : content[k] \in Character
    BY Elements
  <2> QED
    BY <2>1, <2>2, <2>3
<1> HIDE DEF size
<1>2. ASSUME NEW i \in 1..size
      PROVE  (CASE i \in (at + 1)..end -> bytes[i - at]
                [] i \notin (at + 1)..end /\ i <= Len(content) -> content[i]
                [] OTHER -> 0) \in Character
  <2>1. CASE i \in (at + 1)..end
    <3>1. i - at \in 1..Len(bytes)
      BY <1>1, <2>1
    <3>2. bytes[i - at] \in Character
      BY <1>1, <3>1
    <3> QED
      BY <2>1, <3>2
  <2>2. CASE i \notin (at + 1)..end /\ i <= Len(content)
    <3>1. content[i] \in Character
      BY <1>1, <2>2
    <3> QED
      BY <2>2, <3>1
  <2>3. CASE i \notin (at + 1)..end /\ ~(i <= Len(content))
    BY <2>3, DeliverAssumption
  <2> QED
    BY <2>1, <2>2, <2>3
<1>3. WrittenAt(content, at, bytes) \in [1..size -> Character]
  BY <1>2 DEF WrittenAt, size
<1> QED
  BY <1>1, <1>3

(* A write that goes on where the file ends extends a beginning of the text
   to a longer one.                                                        *)
LEMMA WrittenExtends ==
    ASSUME NEW text \in Seq(Character), NEW from \in Nat, NEW to \in Nat,
           from <= to, to <= Len(text)
    PROVE  WrittenAt(SubSeq(text, 1, from), from, SubSeq(text, from + 1, to))
               = SubSeq(text, 1, to)
<1> DEFINE content == SubSeq(text, 1, from)
           bytes == SubSeq(text, from + 1, to)
<1>1. /\ Len(content) = from /\ \A i \in 1..from : content[i] = text[i]
      /\ Len(bytes) = to - from /\ \A i \in 1..(to - from) : bytes[i] = text[from + i]
  OBVIOUS
<1>2. /\ SubSeq(text, 1, to) = [i \in 1..to |-> text[i]]
  OBVIOUS
<1> HIDE DEF content, bytes
<1>3. from + Len(bytes) = to /\ (IF Len(content) > to THEN Len(content) ELSE to) = to
  BY <1>1
<1>4. WrittenAt(content, from, bytes) =
          [i \in 1..to |->
              CASE i \in (from + 1)..to -> bytes[i - from]
                [] i \notin (from + 1)..to /\ i <= Len(content) -> content[i]
                [] OTHER -> 0]
  BY <1>3 DEF WrittenAt
<1>5. ASSUME NEW i \in 1..to
      PROVE  (CASE i \in (from + 1)..to -> bytes[i - from]
                [] i \notin (from + 1)..to /\ i <= Len(content) -> content[i]
                [] OTHER -> 0) = text[i]
  <2>1. CASE i \in (from + 1)..to
    <3>1. i - from \in 1..(to - from) /\ from + (i - from) = i
      BY <2>1
    <3> QED
      BY <1>1, <2>1, <3>1
  <2>2. CASE i \notin (from + 1)..to
    <3>1. i \in 1..from
      BY <2>2
    <3> QED
      BY <1>1, <2>2, <3>1
  <2> QED
    BY <2>1, <2>2
<1> QED
  BY <1>2, <1>4, <1>5 DEF content, bytes

-----------------------------------------------------------------------------
(* What a step of one process leaves alone.                                *)

OnlyOwn(c) ==
    /\ task' = task /\ old' = old
    /\ \A d \in Client \ {c} :
          stage'[d] = stage[d] /\ offset'[d] = offset[d] /\ outcome'[d] = outcome[d]

(* Another process keeps what it knows if the file stays, or stays private. *)
LEMMA OthersKeep ==
    ASSUME NEW c \in Client, OnlyOwn(c), NEW d \in Client \ {c}, ProcessInv(d),
           file # None => file' # None,
           file # None /\ file.mode = "0600" => file'.mode = "0600"
    PROVE  ProcessInv(d)'
BY DEF OnlyOwn, ProcessInv, Exporting, TextOf

(* A process that has touched the file has done so forever.                *)
LEMMA TouchesForever ==
    ASSUME NEW c \in Client, OnlyOwn(c), NEW d \in Client, Touches(d),
           d = c => Touches(c)'
    PROVE  Touches(d)'
BY DEF OnlyOwn, Touches, Exporting

LEMMA Assemble ==
    ASSUME DeliverInv, NEW c \in Client, OnlyOwn(c),
           DeliverTypeOK', ProcessInv(c)', OwnerInv',
           file # None => file' # None,
           file # None /\ file.mode = "0600" => file'.mode = "0600",
           Touches(c) \/ file' # file => Touches(c)'
    PROVE  DeliverInv'
<1>1. \A d \in Client : ProcessInv(d)'
  BY OthersKeep DEF DeliverInv
<1>2. file' # old' => \E d \in Client : Touches(d)'
  <2>1. SUFFICES ASSUME file' # old' PROVE \E d \in Client : Touches(d)'
    OBVIOUS
  <2>2. CASE file' # file
    BY <2>2
  <2>3. CASE file' = file
    <3>1. PICK d \in Client : Touches(d)
      BY <2>1, <2>3 DEF DeliverInv, OnlyOwn
    <3>2. Touches(d)'
      BY <3>1, TouchesForever
    <3> QED
      BY <3>2
  <2> QED
    BY <2>2, <2>3
<1> QED
  BY <1>1, <1>2 DEF DeliverInv

(* A process that goes on, or ends, without touching file or offset.       *)
LEMMA FileStays ==
    ASSUME DeliverInv, NEW c \in Client, OnlyOwn(c), stage'[c] # "writing",
           UNCHANGED <<file, offset, owner>>,
           stage' \in [Client -> {"start", "rendered", "opened", "secured", "writing",
                                  "running", "done"}],
           outcome' \in [Client -> {None, "ok", "bad_name", "io_error", "not_executed",
                                    "exited", "crashed"}],
           ProcessInv(c)', Touches(c) => Touches(c)'
    PROVE  DeliverInv'
<1>1. DeliverTypeOK'
  BY DEF DeliverInv, DeliverTypeOK, OnlyOwn, Exporting, TextOf
<1>2. OwnerInv'
  BY DEF DeliverInv, OwnerInv, OnlyOwn, Exporting, TextOf, Bytes
<1> QED
  BY <1>1, <1>2, Assemble

-----------------------------------------------------------------------------
(* The steps.                                                              *)

LEMMA EndTyped ==
    ASSUME DeliverTypeOK, NEW c \in Client, NEW result, End(c, result),
           result \in {"ok", "bad_name", "io_error", "not_executed", "exited", "crashed"}
    PROVE  /\ stage' \in [Client -> {"start", "rendered", "opened", "secured", "writing",
                                     "running", "done"}]
           /\ outcome' \in [Client -> {None, "ok", "bad_name", "io_error", "not_executed",
                                       "exited", "crashed"}]
           /\ stage'[c] = "done" /\ outcome'[c] = result
           /\ \A d \in Client \ {c} : stage'[d] = stage[d] /\ outcome'[d] = outcome[d]
BY DEF DeliverTypeOK, End

(* A process that ends, wherever it is.                                    *)
LEMMA Ends ==
    ASSUME DeliverInv, NEW c \in Client, NEW result, End(c, result),
           result \in {"ok", "bad_name", "io_error", "not_executed", "exited", "crashed"},
           result = "bad_name" => stage[c] = "start",
           result = "ok" => /\ offset[c] = Len(TextOf(c)) /\ Exporting(c)
                            /\ Renders(task[c].secrets, task[c].format),
           UNCHANGED <<task, file, offset, old, owner>>, stage[c] # "done"
    PROVE  DeliverInv'
<1>1. /\ stage' \in [Client -> {"start", "rendered", "opened", "secured", "writing",
                                 "running", "done"}]
      /\ outcome' \in [Client -> {None, "ok", "bad_name", "io_error", "not_executed",
                                   "exited", "crashed"}]
      /\ stage'[c] = "done" /\ outcome'[c] = result /\ OnlyOwn(c)
  BY EndTyped DEF DeliverInv, OnlyOwn
<1>2. ProcessInv(c)'
  BY <1>1, DeliverAssumption DEF DeliverInv, ProcessInv, Exporting, TextOf
<1>3. Touches(c) => Touches(c)'
  BY <1>1 DEF Touches, Exporting
<1> QED
  BY <1>1, <1>2, <1>3, FileStays

LEMMA RenderStep ==
    ASSUME DeliverInv, NEW c \in Client, RenderText(c)
    PROVE  DeliverInv'
<1>1. /\ stage[c] = "start" /\ Exporting(c) /\ outcome[c] = None
      /\ UNCHANGED <<task, file, offset, child, status, old, owner>>
  BY DEF DeliverInv, ProcessInv, RenderText
<1>2. CASE Renders(task[c].secrets, task[c].format)
  <2>0. stage' = [stage EXCEPT ![c] = "rendered"] /\ UNCHANGED outcome
    BY <1>2 DEF RenderText
  <2>1. /\ stage' \in [Client -> {"start", "rendered", "opened", "secured", "writing",
                                   "running", "done"}]
        /\ outcome' \in [Client -> {None, "ok", "bad_name", "io_error", "not_executed",
                                     "exited", "crashed"}]
        /\ stage'[c] = "rendered" /\ outcome'[c] = None /\ OnlyOwn(c)
    BY <1>1, <2>0 DEF DeliverInv, DeliverTypeOK, OnlyOwn
  <2>2. ProcessInv(c)'
    BY <1>1, <1>2, <2>1, DeliverAssumption DEF DeliverInv, ProcessInv, Exporting, TextOf
  <2> QED
    BY <1>1, <2>1, <2>2, FileStays DEF Touches
<1>3. CASE ~Renders(task[c].secrets, task[c].format)
  <2>1. End(c, "bad_name")
    BY <1>3 DEF RenderText
  <2> QED
    BY <1>1, <2>1, Ends
<1> QED
  BY <1>2, <1>3

(* Before it is cut, the file changes in its mode alone.                   *)
LEMMA BeforeCut ==
    ASSUME DeliverInv, NEW c \in Client,
           UNCHANGED <<task, offset, outcome, child, status, old, owner>>,
           stage[c] \in {"rendered", "opened"},
           NEW next \in {"opened", "secured"},
           stage' = [stage EXCEPT ![c] = next],
           file' \in ExportFile, Bytes(file') = Bytes(file),
           file # None => file'.bytes = file.bytes,
           file # None /\ file.mode = "0600" => file'.mode = "0600",
           next = "secured" => file'.mode = "0600"
    PROVE  DeliverInv'
<1>1. OnlyOwn(c) /\ stage'[c] = next /\ DeliverTypeOK'
  BY DEF DeliverInv, DeliverTypeOK, OnlyOwn, Exporting, TextOf
<1>2. file' # None
  BY DeliverAssumption
<1>3. /\ Exporting(c) /\ outcome[c] = None /\ outcome[c] # "ok" /\ outcome[c] # "bad_name"
      /\ offset[c] = 0
  BY DeliverAssumption DEF DeliverInv, ProcessInv
<1>4. ProcessInv(c)'
  BY <1>1, <1>2, <1>3 DEF DeliverInv, DeliverTypeOK, ProcessInv, Exporting, TextOf
<1>5. OwnerInv'
  BY <1>1, <1>2 DEF DeliverInv, OwnerInv, OnlyOwn, Exporting, TextOf
<1>6. Touches(c)'
  BY <1>1, <1>3 DEF Touches, Exporting
<1> QED
  BY <1>1, <1>2, <1>4, <1>5, <1>6, Assemble

LEMMA OpenStep ==
    ASSUME DeliverInv, NEW c \in Client, OpenFile(c)
    PROVE  DeliverInv'
<1>1. file' = Opened /\ file \in ExportFile \cup {None}
  BY DEF DeliverInv, DeliverTypeOK, OpenFile
<1>2. CASE file = None
  <2>1. file' = [mode |-> "0600", bytes |-> <<>>]
    BY <1>1, <1>2 DEF Opened
  <2>2. file' \in ExportFile /\ file'.bytes = <<>>
    BY <2>1, EmptyText DEF ExportFile
  <2>3. Bytes(file') = Bytes(file)
    BY <1>2, <2>2, DeliverAssumption DEF Bytes
  <2> QED
    BY <1>2, <2>2, <2>3, BeforeCut DEF OpenFile
<1>3. CASE file # None
  <2>1. file' = file /\ file' \in ExportFile
    BY <1>1, <1>3 DEF Opened
  <2> QED
    BY <2>1, BeforeCut DEF OpenFile
<1> QED
  BY <1>2, <1>3

LEMMA SetPermissionsStep ==
    ASSUME DeliverInv, NEW c \in Client, SetPermissions(c)
    PROVE  DeliverInv'
<1>1. file \in ExportFile /\ file # None
  BY DEF DeliverInv, DeliverTypeOK, ProcessInv, SetPermissions
<1>2. /\ file' \in ExportFile /\ file'.bytes = file.bytes /\ file'.mode = "0600"
  BY <1>1 DEF SetPermissions, Secured, ExportFile
<1>3. file' # None /\ Bytes(file') = Bytes(file)
  BY <1>1, <1>2, DeliverAssumption DEF Bytes
<1> QED
  BY <1>2, <1>3, BeforeCut DEF SetPermissions

LEMMA SetLenStep ==
    ASSUME DeliverInv, NEW c \in Client, SetLen(c)
    PROVE  DeliverInv'
<1>1. /\ stage[c] = "secured" /\ Exporting(c) /\ offset[c] = 0 /\ outcome[c] = None
      /\ file \in ExportFile /\ file # None /\ file.mode = "0600"
      /\ UNCHANGED <<task, offset, outcome, child, status, old>>
  BY DEF DeliverInv, DeliverTypeOK, ProcessInv, SetLen
<1>2. /\ file' \in ExportFile /\ file'.bytes = <<>> /\ file'.mode = "0600"
  BY <1>1, EmptyText DEF SetLen, Cut, ExportFile
<1>3. file' # None
  BY <1>2, DeliverAssumption
<1>4. /\ stage' = [stage EXCEPT ![c] = "writing"]
      /\ owner' = IF \E d \in Client : stage[d] = "writing" THEN "shared" ELSE c
  BY DEF SetLen
<1>5. OnlyOwn(c) /\ stage'[c] = "writing" /\ DeliverTypeOK'
  BY <1>1, <1>2, <1>4 DEF DeliverInv, DeliverTypeOK, OnlyOwn, Exporting, TextOf, Owners
<1>6. ProcessInv(c)'
  BY <1>1, <1>2, <1>3, <1>5, DeliverAssumption DEF DeliverInv, ProcessInv, Exporting, TextOf
<1>7. OwnerInv'
  <2>1. owner' # "nobody"
    BY <1>4, DeliverAssumption
  <2>2. CASE \E d \in Client : stage[d] = "writing"
    BY <1>4, <2>1, <2>2, DeliverAssumption DEF OwnerInv
  <2>3. CASE ~\E d \in Client : stage[d] = "writing"
    <3>1. owner' = c /\ \A d \in Client \ {c} : stage'[d] # "writing"
      BY <1>4, <1>5, <2>3 DEF OnlyOwn
    <3>2. SubSeq(TextOf(c), 1, 0) = <<>>
      BY <1>1 DEF DeliverInv, DeliverTypeOK
    <3>3. TextOf(c)' = TextOf(c) /\ Exporting(c)' /\ offset'[c] = 0
      BY <1>1 DEF TextOf, Exporting
    <3>4. file'.bytes = SubSeq(TextOf(owner)', 1, offset'[owner'])
      BY <1>2, <3>1, <3>2, <3>3
    <3> QED
      BY <1>3, <2>1, <3>1, <3>3, <3>4 DEF OwnerInv, TextOf, Exporting
  <2> QED
    BY <2>2, <2>3
<1>8. Touches(c)'
  BY <1>1, <1>5, DeliverAssumption DEF Touches, Exporting
<1> QED
  BY <1>2, <1>3, <1>5, <1>6, <1>7, <1>8, Assemble

LEMMA WriteStep ==
    ASSUME DeliverInv, NEW c \in Client, WriteSome(c)
    PROVE  DeliverInv'
<1>1. /\ stage[c] = "writing" /\ Exporting(c) /\ outcome[c] = None
      /\ file \in ExportFile /\ file # None /\ file.mode = "0600"
      /\ UNCHANGED <<task, stage, outcome, child, status, old, owner>>
      /\ TextOf(c) \in Seq(Character) /\ offset[c] \in Nat
  BY DEF DeliverInv, DeliverTypeOK, ProcessInv, WriteSome
<1>2. PICK end \in (offset[c] + 1)..Len(TextOf(c)) :
         /\ offset' = [offset EXCEPT ![c] = end]
         /\ file' = [file EXCEPT !.bytes =
                         WrittenAt(@, offset[c], SubSeq(TextOf(c), offset[c] + 1, end))]
  BY DEF WriteSome
<1>3. end \in Nat /\ offset[c] <= end /\ end <= Len(TextOf(c))
  BY <1>1, <1>2
<1>4. SubSeq(TextOf(c), offset[c] + 1, end) \in Seq(Character)
  <2>1. offset[c] + 1 \in Nat \ {0}
    BY <1>1
  <2> QED
    BY <1>1, <1>3, <2>1, PartOfText
<1>5. /\ file'.bytes = WrittenAt(file.bytes, offset[c], SubSeq(TextOf(c), offset[c] + 1, end))
      /\ file' \in ExportFile /\ file'.mode = "0600"
  BY <1>1, <1>2, <1>4, WrittenType DEF ExportFile
<1>6. file' # None
  BY <1>5, DeliverAssumption
<1>7. OnlyOwn(c) /\ offset'[c] = end /\ DeliverTypeOK'
  BY <1>1, <1>2, <1>3, <1>5 DEF DeliverInv, DeliverTypeOK, OnlyOwn, Exporting, TextOf
<1>8. /\ TextOf(c)' = TextOf(c) /\ Exporting(c)' /\ outcome[c] # "ok" /\ outcome[c] # "bad_name"
      /\ Renders(task[c].secrets, task[c].format)'
  BY <1>1, DeliverAssumption DEF TextOf, Exporting, DeliverInv, ProcessInv
<1>9. ProcessInv(c)'
  BY <1>1, <1>3, <1>5, <1>6, <1>7, <1>8 DEF ProcessInv
<1>10. OwnerInv'
  <2>1. owner \in {c, "shared"}
    BY <1>1 DEF DeliverInv, OwnerInv
  <2>2. CASE owner = c
    <3>1. file.bytes = SubSeq(TextOf(c), 1, offset[c])
      BY <2>2 DEF DeliverInv, OwnerInv
    <3>2. file'.bytes = SubSeq(TextOf(c), 1, end)
      BY <1>1, <1>3, <1>5, <3>1, WrittenExtends
    <3>3. file'.bytes = SubSeq(TextOf(c)', 1, offset'[c])
      BY <1>7, <1>8, <3>2
    <3> QED
      BY <1>1, <1>6, <1>8, <2>2, <3>3, DeliverAssumption
      DEF DeliverInv, OwnerInv, TextOf, Exporting
  <2>3. CASE owner = "shared"
    BY <1>1, <2>3, DeliverAssumption DEF DeliverInv, OwnerInv
  <2> QED
    BY <2>1, <2>2, <2>3
<1>11. Touches(c)'
  BY <1>1, <1>8 DEF Touches
<1> QED
  BY <1>5, <1>6, <1>7, <1>9, <1>10, <1>11, Assemble

LEMMA SpawnStep ==
    ASSUME DeliverInv, NEW c \in Client, Spawn(c)
    PROVE  DeliverInv'
<1>1. /\ stage[c] = "start" /\ outcome[c] = None
      /\ UNCHANGED <<task, file, offset, status, old, owner>>
  BY DEF DeliverInv, ProcessInv, Spawn
<1>2. CASE stage' = [stage EXCEPT ![c] = "running"] /\ UNCHANGED outcome
  <2>1. /\ stage' \in [Client -> {"start", "rendered", "opened", "secured", "writing",
                                   "running", "done"}]
        /\ outcome' \in [Client -> {None, "ok", "bad_name", "io_error", "not_executed",
                                     "exited", "crashed"}]
        /\ stage'[c] = "running" /\ outcome'[c] = None /\ OnlyOwn(c)
    BY <1>1, <1>2 DEF DeliverInv, DeliverTypeOK, OnlyOwn
  <2>2. ProcessInv(c)'
    BY <1>1, <2>1, DeliverAssumption DEF DeliverInv, ProcessInv, Exporting, TextOf
  <2> QED
    BY <1>1, <2>1, <2>2, FileStays DEF Touches
<1>3. CASE End(c, "not_executed")
  BY <1>1, <1>3, Ends
<1> QED
  BY <1>2, <1>3 DEF Spawn

-----------------------------------------------------------------------------
(* The theorems.                                                           *)

(* What is exported are texts, in formats that there are.                  *)
LEMMA Bytewise == Alphabet(Character)
BY DeliverAssumption DEF Alphabet

LEMMA ExportedTexts ==
    ASSUME task \in Cases, NEW c \in Client, Exporting(c)
    PROVE  /\ SecretsOver(Character, task[c].secrets) /\ task[c].format \in Formats
           /\ TextOf(c) \in Seq(Character)
<1>1. SecretsOver(Character, task[c].secrets) /\ task[c].format \in Formats
  BY DeliverAssumption DEF Exporting
<1>2. Text(task[c].secrets, task[c].format) \in Seq(Character)
  BY <1>1, Bytewise, TextType
<1> QED
  BY <1>1, <1>2 DEF TextOf

LEMMA InitInv == Init => DeliverInv
<1> SUFFICES ASSUME Init PROVE DeliverInv
  OBVIOUS
<1>1. DeliverTypeOK
  <2>1. \A c \in Client : Exporting(c) =>
           /\ task[c].format \in Formats /\ SecretsOver(Character, task[c].secrets)
           /\ TextOf(c) \in Seq(Character)
    BY ExportedTexts DEF Init
  <2> QED
    BY <2>1, DeliverAssumption DEF Init, DeliverTypeOK, Owners
<1>2. ASSUME NEW c \in Client PROVE ProcessInv(c)
  <2>1. Exporting(c) => Len(TextOf(c)) \in Nat
    BY <1>1 DEF DeliverTypeOK
  <2> QED
    BY <1>2, <2>1, DeliverAssumption DEF Init, ProcessInv
<1>3. OwnerInv
  BY DeliverAssumption DEF Init, OwnerInv
<1> QED
  BY <1>1, <1>2, <1>3 DEF Init, DeliverInv

LEMMA NextInv == DeliverInv /\ [Next]_vars => DeliverInv'
<1> SUFFICES ASSUME DeliverInv, [Next]_vars PROVE DeliverInv'
  OBVIOUS
<1>1. ASSUME NEW c \in Client, AllWritten(c) PROVE DeliverInv'
  BY <1>1, Ends DEF AllWritten, DeliverInv, ProcessInv
<1>2. ASSUME NEW c \in Client, ExportFails(c) \/ Reap(c) \/ Crash(c) PROVE DeliverInv'
  BY <1>2, Ends DEF ExportFails, Reap, Crash
<1>3. ASSUME NEW c \in Client, Step(c) PROVE DeliverInv'
  BY <1>1, <1>2, <1>3, RenderStep, OpenStep, SetPermissionsStep, SetLenStep, WriteStep,
     SpawnStep DEF Step
<1>4. CASE UNCHANGED vars
  BY <1>4 DEF vars, DeliverInv, DeliverTypeOK, ProcessInv, OwnerInv, Touches, Exporting,
     TextOf, Bytes
<1> QED
  BY <1>3, <1>4 DEF Next, AllDone

(* Types, and how far each process and the file are: the invariant from which
   the others follow.                                                      *)
THEOREM DeliverInvariant == Spec => []DeliverInv
<1>1. Init => DeliverInv
  BY InitInv
<1>2. DeliverInv /\ [Next]_vars => DeliverInv'
  BY NextInv
<1> QED
  BY <1>1, <1>2, PTL DEF Spec

(* No byte of an export is ever in a file that others may read, however many
   exports write to that file and wherever they break off.                 *)
THEOREM ExportsArePrivate == Spec => []PlaintextIsPrivate
<1>1. DeliverInv => PlaintextIsPrivate
  BY DEF DeliverInv, ProcessInv, PlaintextIsPrivate
<1> QED
  BY <1>1, DeliverInvariant, PTL

(* The old file keeps its bytes until an export truncates it, and changes not
   at all before one has rendered its text and opened it.                  *)
THEOREM OldExportsSurvive == Spec => []OldExportSurvives
<1>1. DeliverInv => OldExportSurvives
  BY DEF DeliverInv, OwnerInv, OldExportSurvives
<1> QED
  BY <1>1, DeliverInvariant, PTL

(* An export that completes without meeting another leaves exactly its text. *)
THEOREM ExportsAreComplete ==
    Spec => [](\A c \in Client :
                  owner = c /\ outcome[c] = "ok" => file.bytes = TextOf(c))
<1> DEFINE P == \A c \in Client :
                  owner = c /\ outcome[c] = "ok" => file.bytes = TextOf(c)
<1>1. DeliverInv => P
  <2> SUFFICES ASSUME DeliverInv, NEW c \in Client, owner = c, outcome[c] = "ok"
               PROVE  file.bytes = TextOf(c)
    OBVIOUS
  <2>1. /\ Exporting(c) /\ offset[c] = Len(TextOf(c)) /\ TextOf(c) \in Seq(Character)
        /\ file.bytes = SubSeq(TextOf(c), 1, offset[c])
    BY DEF DeliverInv, DeliverTypeOK, ProcessInv, OwnerInv
  <2> QED
    BY <2>1
<1> QED
  BY <1>1, DeliverInvariant, PTL

(* And that text is one that the reader of its format reads back as exactly
   the secrets that were exported, for any secrets, file before, number of
   exports and failures (ExportReadsBack).                                 *)
THEOREM ExportsReadBack == Spec => []ExportReadsBack
<1> DEFINE P == \A c \in Client :
                  owner = c /\ outcome[c] = "ok" => file.bytes = TextOf(c)
<1>1. DeliverInv /\ P => ExportReadsBack
  <2> SUFFICES ASSUME DeliverInv, P, NEW c \in Client, owner = c, outcome[c] = "ok"
               PROVE  ReadsBackAs(file.bytes, task[c].format, task[c].secrets)
    BY DEF ExportReadsBack
  <2>1. file.bytes = Text(task[c].secrets, task[c].format)
    BY DEF TextOf
  <2>2. Exporting(c) /\ Renders(task[c].secrets, task[c].format)
    BY DEF DeliverInv, ProcessInv
  <2>3. SecretsOver(Character, task[c].secrets) /\ task[c].format \in Formats
    BY <2>2 DEF DeliverInv, DeliverTypeOK
  <2>4. ReadsBackAs(Text(task[c].secrets, task[c].format), task[c].format, task[c].secrets)
    BY <2>2, <2>3, Bytewise, TextReadsBack
  <2> QED
    BY <2>1, <2>4
<1> QED
  BY <1>1, DeliverInvariant, ExportsAreComplete, PTL

-----------------------------------------------------------------------------
(* keyben run.                                                             *)

(* A variable that starts with KEYBEN has a name that does: no name contains
   the equals sign, and KEYBEN does not either.                            *)
LEMMA KeybenName ==
    ASSUME NEW n \in Seq((Character \cup {NotUtf8}) \ {Equals}),
           NEW value \in Seq(Character \cup {NotUtf8}),
           IsPrefix(KEYBEN, Variable(n, value))
    PROVE  IsPrefix(KEYBEN, n)
<1> DEFINE v == Variable(n, value)
<1>1. /\ Len(KEYBEN) = 6 /\ KEYBEN \in Seq(Int)
      /\ \A i \in 1..6 : KEYBEN[i] # Equals
  BY DEF KEYBEN, Equals
<1>2. Len(n) \in Nat /\ Len(v) = Len(n) + 1 + Len(value)
  BY DEF Variable, Equals, NotUtf8
<1>3. \A i \in 1..6 : v[i] = KEYBEN[i]
  BY <1>1, <1>2 DEF IsPrefix
<1>4. v[Len(n) + 1] = Equals /\ \A i \in 1..Len(n) : v[i] = n[i]
  BY DEF Variable, Equals, NotUtf8
<1> HIDE DEF v
<1>5. Len(n) >= 6
  <2> SUFFICES ASSUME Len(n) < 6 PROVE FALSE
    BY <1>2
  <2>1. Len(n) + 1 \in 1..6
    BY <1>2
  <2> QED
    BY <1>1, <1>3, <1>4, <2>1
<1>6. ASSUME NEW i \in 1..6 PROVE n[i] = KEYBEN[i]
  <2>1. i \in 1..Len(n)
    BY <1>2, <1>5
  <2> QED
    BY <1>3, <1>4, <2>1, Zenon
<1>7. SubSeq(n, 1, 6) = SubSeq(KEYBEN, 1, 6)
  <2>1. /\ SubSeq(n, 1, 6) = [i \in 1..6 |-> n[i]]
        /\ SubSeq(KEYBEN, 1, 6) = [i \in 1..6 |-> KEYBEN[i]]
    BY <1>1, <1>2, <1>5
  <2> QED
    BY <1>6, <2>1
<1> QED
  BY <1>1, <1>2, <1>5, <1>7 DEF IsPrefix

(* A variable is UTF-8 only if its name is.                                *)
LEMMA Utf8Name ==
    ASSUME NEW n \in Seq((Character \cup {NotUtf8}) \ {Equals}),
           NEW value \in Seq(Character \cup {NotUtf8}),
           IsUtf8(Variable(n, value))
    PROVE  IsUtf8(n)
<1> DEFINE v == Variable(n, value)
<1>1. /\ \A i \in DOMAIN n : i \in DOMAIN v /\ v[i] = n[i]
  BY DEF Variable, Equals, NotUtf8
<1> QED
  BY <1>1 DEF IsUtf8

(* What a child process finds in its environment, for any secrets.         *)
LEMMA BlockContents ==
    ASSUME NEW secrets
    PROVE  LET block == ChildBlock(secrets) IN
           /\ \A n \in DOMAIN secrets : Variable(n, secrets[n]) \in block
           /\ \A n \in DOMAIN Ambient \ DOMAIN secrets :
                 ~IsPrefix(KEYBEN, n) => Variable(n, Ambient[n]) \in block
           /\ \A v \in block : IsPrefix(KEYBEN, v) /\ IsUtf8(v) =>
                 \E n \in DOMAIN secrets : v = Variable(n, secrets[n])
<1> DEFINE block == ChildBlock(secrets)
<1>1. \A n \in DOMAIN secrets : Variable(n, secrets[n]) \in block
  BY DEF ChildBlock, RemovedNames
<1>2. \A n \in DOMAIN Ambient \ DOMAIN secrets :
         ~IsPrefix(KEYBEN, n) => Variable(n, Ambient[n]) \in block
  BY DEF ChildBlock, RemovedNames
<1>3. ASSUME NEW n \in (DOMAIN Ambient \ DOMAIN secrets) \ RemovedNames(secrets)
      PROVE  ~(IsPrefix(KEYBEN, Variable(n, Ambient[n])) /\ IsUtf8(Variable(n, Ambient[n])))
  BY KeybenName, Utf8Name, DeliverAssumption DEF RemovedNames
<1>4. \A v \in block : IsPrefix(KEYBEN, v) /\ IsUtf8(v) =>
         \E n \in DOMAIN secrets : v = Variable(n, secrets[n])
  BY <1>3 DEF ChildBlock
<1> QED
  BY <1>1, <1>2, <1>4

(* A step that starts and ends no child leaves what is known of children.  *)
LEMMA ChildStays ==
    ASSUME RunInv, NEW c \in Client, DeliverInv',
           UNCHANGED <<task, child, status>>,
           \A d \in Client \ {c} : stage'[d] = stage[d] /\ outcome'[d] = outcome[d],
           stage'[c] # "running", outcome'[c] # "exited"
    PROVE  RunInv'
<1>1. ASSUME NEW d \in Client PROVE ChildInv(d)'
  <2>1. ChildInv(d)
    BY DEF RunInv
  <2> QED
    BY <2>1 DEF ChildInv, Running
<1> QED
  BY <1>1 DEF RunInv

LEMMA SpawnChild ==
    ASSUME RunInv, NEW c \in Client, Spawn(c)
    PROVE  RunInv'
<1>1. /\ stage[c] = "start" /\ Running(c) /\ outcome[c] = None
      /\ UNCHANGED <<task, file, offset, status, old, owner>>
      /\ DeliverInv' /\ DeliverTypeOK
  BY SpawnStep DEF RunInv, DeliverInv, ProcessInv, Spawn
<1>2. CASE /\ child' = [child EXCEPT ![c] = ChildBlock(task[c].secrets)]
           /\ stage' = [stage EXCEPT ![c] = "running"]
           /\ UNCHANGED outcome
  <2>1. ChildBlock(task[c].secrets) # None
    BY <1>1 DEF RunInv, ChildInv
  <2>2. /\ DOMAIN child' = Client /\ child'[c] = ChildBlock(task[c].secrets)
        /\ stage'[c] = "running" /\ outcome'[c] # "exited"
        /\ \A d \in Client \ {c} : child'[d] = child[d] /\ stage'[d] = stage[d]
    BY <1>1, <1>2, DeliverAssumption DEF RunInv, DeliverTypeOK
  <2>3. ChildInv(c)'
    BY <1>1, <1>2, <2>1, <2>2 DEF ChildInv, Running
  <2>4. ASSUME NEW d \in Client \ {c} PROVE ChildInv(d)'
    <3>1. ChildInv(d)
      BY DEF RunInv
    <3> QED
      BY <1>1, <1>2, <2>2, <3>1 DEF ChildInv, Running
  <2> QED
    BY <1>1, <2>2, <2>3, <2>4 DEF RunInv
<1>3. CASE End(c, "not_executed") /\ UNCHANGED child
  BY <1>1, <1>3, EndTyped, ChildStays
<1> QED
  BY <1>2, <1>3 DEF Spawn

LEMMA ReapChild ==
    ASSUME RunInv, NEW c \in Client, Reap(c), DeliverInv'
    PROVE  RunInv'
<1>1. PICK s \in Statuses : status' = [status EXCEPT ![c] = s] /\ End(c, "exited")
  BY DEF Reap
<1>2. /\ stage[c] = "running" /\ DeliverTypeOK
      /\ UNCHANGED <<task, file, offset, child, old, owner>>
  BY DEF Reap, RunInv, DeliverInv
<1>3. /\ stage'[c] = "done" /\ outcome'[c] = "exited"
      /\ \A d \in Client \ {c} : stage'[d] = stage[d] /\ outcome'[d] = outcome[d]
  BY <1>1, <1>2, EndTyped
<1>4. /\ DOMAIN status' = Client /\ status'[c] \in Statuses
      /\ \A d \in Client \ {c} : status'[d] = status[d]
  BY <1>1 DEF RunInv
<1>5. ASSUME NEW d \in Client PROVE ChildInv(d)'
  <2>1. ChildInv(d)
    BY DEF RunInv
  <2> QED
    BY <1>2, <1>3, <1>4, <2>1 DEF ChildInv, Running
<1> QED
  BY <1>2, <1>4, <1>5 DEF RunInv

(* The steps of an export, and a crash, have nothing to do with children.  *)
LEMMA ExportChild ==
    ASSUME RunInv, NEW c \in Client, DeliverInv',
           \/ RenderText(c) \/ OpenFile(c) \/ SetPermissions(c) \/ SetLen(c)
           \/ WriteSome(c) \/ AllWritten(c) \/ ExportFails(c) \/ Crash(c)
    PROVE  RunInv'
<1>1. /\ DeliverTypeOK /\ ProcessInv(c)
      /\ UNCHANGED <<task, child, status>>
      /\ stage[c] # "done"
  BY DEF RunInv, DeliverInv, RenderText, OpenFile, SetPermissions, SetLen, WriteSome,
         AllWritten, ExportFails, Crash
<1>2. outcome[c] = None
  BY <1>1 DEF ProcessInv
<1>3. CASE \E result \in {"ok", "bad_name", "io_error", "crashed"} : End(c, result)
  BY <1>1, <1>3, EndTyped, ChildStays
<1>4. CASE /\ \E next \in {"rendered", "opened", "secured", "writing"} :
                 stage' = [stage EXCEPT ![c] = next]
           /\ UNCHANGED outcome
  <2>1. /\ \A d \in Client \ {c} : stage'[d] = stage[d] /\ outcome'[d] = outcome[d]
        /\ stage'[c] # "running" /\ outcome'[c] # "exited"
    BY <1>1, <1>2, <1>4, DeliverAssumption DEF DeliverTypeOK
  <2> QED
    BY <1>1, <2>1, ChildStays
<1>5. CASE stage[c] = "writing" /\ UNCHANGED <<stage, outcome>>
  BY <1>1, <1>2, <1>5, DeliverAssumption, ChildStays
<1> QED
  BY <1>3, <1>4, <1>5 DEF RenderText, OpenFile, SetPermissions, SetLen, WriteSome,
         AllWritten, ExportFails, Crash

LEMMA InitRunInv == Init => RunInv
<1> SUFFICES ASSUME Init PROVE RunInv
  OBVIOUS
<1>1. \A c \in Client : ChildInv(c)
  BY DeliverAssumption, NoBlockAssumption DEF Init, ChildInv, Running
<1> QED
  BY <1>1, InitInv DEF Init, RunInv

LEMMA NextRunInv == RunInv /\ [Next]_vars => RunInv'
<1> SUFFICES ASSUME RunInv, [Next]_vars PROVE RunInv'
  OBVIOUS
<1>1. DeliverInv'
  BY NextInv DEF RunInv
<1>2. ASSUME NEW c \in Client, Step(c) PROVE RunInv'
  BY <1>1, <1>2, SpawnChild, ReapChild, ExportChild DEF Step
<1>3. CASE UNCHANGED vars
  BY <1>1, <1>3 DEF vars, RunInv, ChildInv, Running
<1> QED
  BY <1>2, <1>3 DEF Next, AllDone

(* Files and children: the inductive invariant of export and run.          *)
THEOREM RunInvariant == Spec => []RunInv
<1> QED
  BY InitRunInv, NextRunInv, PTL DEF Spec

(* A child gets every secret and what its caller has in the environment, but
   no credential of keyben (ChildEnvironment).                             *)
THEOREM ChildrenGetTheSecrets == Spec => []ChildEnvironment
<1>1. RunInv => ChildEnvironment
  <2> SUFFICES ASSUME RunInv, NEW c \in Client, child[c] # None
               PROVE  LET secrets == task[c].secrets IN
                      /\ \A n \in DOMAIN secrets : Variable(n, secrets[n]) \in child[c]
                      /\ \A n \in DOMAIN Ambient \ DOMAIN secrets :
                            ~IsPrefix(KEYBEN, n) => Variable(n, Ambient[n]) \in child[c]
                      /\ \A v \in child[c] : IsPrefix(KEYBEN, v) /\ IsUtf8(v) =>
                            \E n \in DOMAIN secrets : v = Variable(n, secrets[n])
    BY DEF ChildEnvironment
  <2>1. child[c] = ChildBlock(task[c].secrets)
    BY DEF RunInv, ChildInv
  <2> QED
    BY <2>1, BlockContents
<1> QED
  BY <1>1, RunInvariant, PTL

(* Exit code 0 of keyben run means that the child ran and returned 0
   (SuccessIsTheChilds).                                                   *)
THEOREM ZeroIsFromTheChild == Spec => []SuccessIsTheChilds
<1>1. RunInv => SuccessIsTheChilds
  <2> SUFFICES ASSUME RunInv, NEW c \in Client, Running(c), ProcessExit(c) = 0
               PROVE  child[c] # None /\ status[c].code = 0
    BY DEF SuccessIsTheChilds
  <2>1. outcome[c] = "ok" => Exporting(c)
    BY DEF RunInv, DeliverInv, ProcessInv
  <2>2. outcome[c] = "exited"
    BY <2>1 DEF ProcessExit, Running, Exporting
  <2>3. child[c] # None /\ status[c] \in Statuses /\ ExitCode(status[c]) = 0
    BY <2>2 DEF RunInv, ChildInv, ProcessExit
  <2>4. None \notin Nat
    BY DeliverAssumption
  <2> QED
    BY <2>3, <2>4 DEF Statuses, ExitCode
<1> QED
  BY <1>1, RunInvariant, PTL
=============================================================================
