------------------------------ MODULE Deliver ------------------------------
(***************************************************************************)
(* What a command does with the environment that it has fetched: export it *)
(* to a file, or run a program with it.  Source: write_file in             *)
(* src/client/export.rs; build_child_command and exec in mod.rs.           *)
(*                                                                         *)
(*   export: start -> rendered -> opened -> secured -> writing -> done     *)
(*   run:    start -> running -> done                                      *)
(***************************************************************************)
EXTENDS Render

CONSTANTS
    Client,     \* processes
    Character,  \* code points: those of Unicode, or some of them
    Cases,      \* who does what: the tasks of the processes
    OldFiles,   \* what may be at the path of the export file before
    Ambient,    \* the environment of the processes: names to values
    None,
    Faults      \* which of AllFaults may happen (a bound of the model)

AllFaults == {"crash", "io_error"}

KEYBEN  == <<75, 69, 89, 66, 69, 78>>   \* CREDENTIAL_ENV_PREFIX
NotUtf8 == -1                           \* a byte that is not part of UTF-8

(* The export file: its mode, as far as it matters, and what is in it, where
   a character stands for the bytes that encode it.                        *)
ExportFile == [mode : {"0600", "0644"}, bytes : Seq(Character)]

ASSUME DeliverAssumption ==
    /\ Faults \subseteq AllFaults
    /\ 0..255 \subseteq Character /\ Character \subseteq Nat
    /\ None \notin Nat
    /\ \A n \in DOMAIN Ambient :
          /\ n \in Seq((Character \cup {NotUtf8}) \ {Equals})
          /\ Ambient[n] \in Seq(Character \cup {NotUtf8})
    /\ OldFiles \subseteq ExportFile \cup {None}
    /\ None \notin ExportFile
    /\ None \notin {"ok", "bad_name", "io_error", "not_executed", "exited", "crashed"}
    /\ "nobody" \notin Client /\ "shared" \notin Client
    /\ \A k \in Cases : \A c \in Client :
          k[c] # None /\ k[c].kind = "export" =>
              k[c].format \in Formats /\ SecretsOver(Character, k[c].secrets)

VARIABLES
    task,       \* what each process does: kind, secrets, format
    stage,
    file,       \* mode and bytes of the export file
    offset,     \* how much of its text each process has written
    outcome,
    child,      \* the environment block of each child process
    status,     \* how the child has ended
    old,        \* history: the file before
    owner       \* history: who truncated it last, if no one else was writing

vars == <<task, stage, file, offset, outcome, child, status, old, owner>>

(* owner before any truncation, and after two exports overlapped.          *)
Owners == Client \cup {"nobody", "shared"}

End(c, result) ==
    /\ stage' = [stage EXCEPT ![c] = "done"]
    /\ outcome' = [outcome EXCEPT ![c] = result]

Exporting(c) == task[c] # None /\ task[c].kind = "export"
Running(c)   == task[c] # None /\ task[c].kind = "run"

TextOf(c) == Text(task[c].secrets, task[c].format)

-----------------------------------------------------------------------------
(* keyben export --output-file.                                            *)

(* The whole text exists before the file is touched.                       *)
RenderText(c) ==
    /\ stage[c] = "start" /\ Exporting(c)
    /\ IF Renders(task[c].secrets, task[c].format)
       THEN stage' = [stage EXCEPT ![c] = "rendered"] /\ UNCHANGED outcome
       ELSE End(c, "bad_name")
    /\ UNCHANGED <<task, file, offset, child, status, old, owner>>

FaultyOpened == [mode  |-> IF file = None THEN "0600" ELSE file.mode,
                 bytes |-> <<>>]
(* OpenOptions: create with mode 0600, or open what is there as it is.     *)
Opened == IF file = None THEN [mode |-> "0600", bytes |-> <<>>] ELSE file

OpenFile(c) ==
    /\ stage[c] = "rendered"
    /\ file' = Opened
    /\ stage' = [stage EXCEPT ![c] = "opened"]
    /\ UNCHANGED <<task, offset, outcome, child, status, old, owner>>

FaultySecured == file
Secured == [file EXCEPT !.mode = "0600"]

SetPermissions(c) ==
    /\ stage[c] = "opened"
    /\ file' = Secured
    /\ stage' = [stage EXCEPT ![c] = "secured"]
    /\ UNCHANGED <<task, offset, outcome, child, status, old, owner>>

FaultyCut == file
Cut == [file EXCEPT !.bytes = <<>>]

SetLen(c) ==
    /\ stage[c] = "secured"
    /\ file' = Cut
    /\ stage' = [stage EXCEPT ![c] = "writing"]
    /\ owner' = IF \E d \in Client : stage[d] = "writing" THEN "shared" ELSE c
    /\ UNCHANGED <<task, offset, outcome, child, status, old>>

(* What is in a file after bytes are written at an offset of it; a hole that
   a truncation by someone else has left reads as zeros.                   *)
WrittenAt(content, at, bytes) ==
    LET end == at + Len(bytes) IN
    [i \in 1..(IF Len(content) > end THEN Len(content) ELSE end) |->
        CASE i \in (at + 1)..end -> bytes[i - at]
          [] i \notin (at + 1)..end /\ i <= Len(content) -> content[i]
          [] OTHER -> 0]

(* One call of write in write_all, which may take less than it is given.   *)
WriteSome(c) ==
    /\ stage[c] = "writing" /\ offset[c] < Len(TextOf(c))
    /\ \E end \in (offset[c] + 1)..Len(TextOf(c)) :
          /\ offset' = [offset EXCEPT ![c] = end]
          /\ file' = [file EXCEPT !.bytes =
                         WrittenAt(@, offset[c], SubSeq(TextOf(c), offset[c] + 1, end))]
    /\ UNCHANGED <<task, stage, outcome, child, status, old, owner>>

AllWritten(c) ==
    /\ stage[c] = "writing" /\ offset[c] = Len(TextOf(c))
    /\ End(c, "ok")
    /\ UNCHANGED <<task, file, offset, child, status, old, owner>>

(* Any of the system calls fails: the process ends where it is.            *)
ExportFails(c) ==
    /\ "io_error" \in Faults
    /\ stage[c] \in {"rendered", "opened", "secured", "writing"}
    /\ End(c, "io_error")
    /\ UNCHANGED <<task, file, offset, child, status, old, owner>>

-----------------------------------------------------------------------------
(* keyben run.                                                             *)

Variable(name, value) == name \o <<Equals>> \o value

IsUtf8(name) == \A i \in DOMAIN name : name[i] # NotUtf8

FaultyRemovedNames(secrets) ==
    {n \in DOMAIN Ambient : IsUtf8(n) /\ IsPrefix(KEYBEN, n)}
(* env_remove, called after envs: it would undo the setting of a secret.   *)
RemovedNames(secrets) ==
    {n \in DOMAIN Ambient : IsUtf8(n) /\ IsPrefix(KEYBEN, n) /\ n \notin DOMAIN secrets}

(* The environment block: what is inherited, and what is set.              *)
ChildBlock(secrets) ==
    {Variable(n, Ambient[n]) : n \in (DOMAIN Ambient \ DOMAIN secrets) \ RemovedNames(secrets)}
    \cup {Variable(n, secrets[n]) : n \in DOMAIN secrets \ RemovedNames(secrets)}

(* None stands for no environment block.                                   *)
ASSUME NoBlockAssumption ==
    \A k \in Cases : \A c \in Client : k[c] # None => ChildBlock(k[c].secrets) # None

HasNul(block) == \E v \in block : \E i \in DOMAIN v : v[i] = 0

(* The program may not exist, and a NUL cannot be passed.                  *)
Spawn(c) ==
    /\ stage[c] = "start" /\ Running(c)
    /\ \/ /\ ~HasNul(ChildBlock(task[c].secrets))
          /\ child' = [child EXCEPT ![c] = ChildBlock(task[c].secrets)]
          /\ stage' = [stage EXCEPT ![c] = "running"]
          /\ UNCHANGED outcome
       \/ /\ HasNul(ChildBlock(task[c].secrets)) \/ "io_error" \in Faults
          /\ End(c, "not_executed")
          /\ UNCHANGED child
    /\ UNCHANGED <<task, file, offset, status, old, owner>>

Statuses == [code : {0, 3}, signal : {None}] \cup [code : {None}, signal : {9}]

FaultyExitCode(s) == IF s.code = None THEN 0 ELSE s.code
ExitCode(s) == IF s.code = None THEN 128 + s.signal ELSE s.code

(* The exit code of a process that has ended: main prints an error and exits
   with 1, while exec passes on what the child reports.  (One that is killed
   has no exit code of its own, but not 0 either.)                         *)
ProcessExit(c) == CASE outcome[c] = "exited" -> ExitCode(status[c])
                    [] outcome[c] = "ok"     -> 0
                    [] OTHER                 -> 1

(* The child ends, and the process with it.                                *)
Reap(c) ==
    /\ stage[c] = "running"
    /\ \E s \in Statuses :
          /\ status' = [status EXCEPT ![c] = s]
          /\ End(c, "exited")
    /\ UNCHANGED <<task, file, offset, child, old, owner>>

-----------------------------------------------------------------------------
Crash(c) ==
    /\ "crash" \in Faults
    /\ stage[c] \notin {"start", "done"}
    /\ End(c, "crashed")
    /\ UNCHANGED <<task, file, offset, child, status, old, owner>>

Init ==
    /\ task \in Cases
    /\ old \in OldFiles
    /\ file = old
    /\ stage = [c \in Client |-> IF task[c] = None THEN "done" ELSE "start"]
    /\ offset = [c \in Client |-> 0]
    /\ outcome = [c \in Client |-> None]
    /\ child = [c \in Client |-> None]
    /\ status = [c \in Client |-> None]
    /\ owner = "nobody"

Step(c) ==
    \/ RenderText(c) \/ OpenFile(c) \/ SetPermissions(c) \/ SetLen(c)
    \/ WriteSome(c) \/ AllWritten(c) \/ ExportFails(c)
    \/ Spawn(c) \/ Reap(c)
    \/ Crash(c)

AllDone == (\A c \in Client : stage[c] = "done") /\ UNCHANGED vars

Next == (\E c \in Client : Step(c)) \/ AllDone

Spec == Init /\ [][Next]_vars

-----------------------------------------------------------------------------
(* Properties.                                                             *)

Bytes(f) == IF f = None THEN <<>> ELSE f.bytes

DeliverTypeOK ==
    /\ \A c \in Client : Exporting(c) =>
          /\ task[c].format \in Formats /\ SecretsOver(Character, task[c].secrets)
          /\ TextOf(c) \in Seq(Character)
    /\ stage \in [Client -> {"start", "rendered", "opened", "secured", "writing",
                             "running", "done"}]
    /\ file \in ExportFile \cup {None} /\ old \in OldFiles
    /\ offset \in [Client -> Nat]
    /\ outcome \in [Client -> {None, "ok", "bad_name", "io_error", "not_executed",
                               "exited", "crashed"}]
    /\ owner \in Owners

(* Where a process is, and what it has of the file.                        *)
ProcessInv(c) ==
    /\ stage[c] # "done" => outcome[c] = None
    /\ stage[c] \in {"rendered", "opened", "secured", "writing"} \/ outcome[c] = "ok" =>
          Exporting(c) /\ Renders(task[c].secrets, task[c].format)
    /\ stage[c] \in {"opened", "secured", "writing"} => file # None
    /\ stage[c] \in {"secured", "writing"} \/ offset[c] > 0 =>
          file # None /\ file.mode = "0600"
    /\ stage[c] \notin {"writing", "done"} => offset[c] = 0
    /\ Exporting(c) => offset[c] <= Len(TextOf(c))
    /\ outcome[c] = "ok" => offset[c] = Len(TextOf(c))

(* An export that no other overlaps has exactly the beginning of its text in
   the file.                                                               *)
OwnerInv ==
    /\ owner = "nobody" => Bytes(file) = Bytes(old)
    /\ owner \in Client =>
          /\ Exporting(owner) /\ file # None
          /\ file.bytes = SubSeq(TextOf(owner), 1, offset[owner])
    /\ \A c \in Client : stage[c] = "writing" => owner \in {c, "shared"}

Touches(c) == Exporting(c) /\ stage[c] \notin {"start", "rendered"} /\ outcome[c] # "bad_name"

(* Types, and the inductive invariant behind the two properties below: the
   file is private before it is cut, and cut before it is written.         *)
DeliverInv ==
    /\ DeliverTypeOK
    /\ \A c \in Client : ProcessInv(c)
    /\ OwnerInv
    /\ file # old => \E c \in Client : Touches(c)

(* What a child process has been given, and that its status is its own.    *)
ChildInv(c) ==
    /\ Running(c) => ChildBlock(task[c].secrets) # None
    /\ child[c] # None => Running(c) /\ child[c] = ChildBlock(task[c].secrets)
    /\ stage[c] = "running" \/ outcome[c] = "exited" => child[c] # None
    /\ outcome[c] = "exited" => status[c] \in Statuses

(* The inductive invariant behind the properties of export and run.        *)
RunInv ==
    /\ DeliverInv
    /\ DOMAIN child = Client
    /\ DOMAIN status = Client
    /\ \A c \in Client : ChildInv(c)

(* A completed export that did not overlap with another reads back, with the
   reader its format is meant for, as exactly the secrets it was given: no
   value escapes its quotes, and nothing of an older, longer file follows
   (export.rs, quoting helpers and write_file).                            *)
ExportReadsBack ==
    \A c \in Client :
        owner = c /\ outcome[c] = "ok" =>
            ReadsBackAs(file.bytes, task[c].format, task[c].secrets)

(* Until some export has a file of mode 0600 open and truncates it, the old
   file is as it was: an environment that cannot be rendered, a path that
   cannot be opened or secured, costs nothing (render before write_file).  *)
OldExportSurvives ==
    /\ owner = "nobody" => Bytes(file) = Bytes(old)
    /\ file # old => \E c \in Client : Touches(c)

(* No byte of a new export is ever in a file that others may read: "Tighten
   an existing file before putting any new plaintext into it" (write_file). *)
PlaintextIsPrivate ==
    (\E c \in Client : offset[c] > 0) => file.mode = "0600"

(* The child gets every secret, and the whole environment of the caller but
   for the names of the secrets and the credentials of keyben; a UTF-8
   variable that starts with KEYBEN is a secret of the project.            *)
ChildEnvironment ==
    \A c \in Client : child[c] # None =>
        LET secrets == task[c].secrets IN
        /\ \A n \in DOMAIN secrets : Variable(n, secrets[n]) \in child[c]
        /\ \A n \in DOMAIN Ambient \ DOMAIN secrets :
              ~IsPrefix(KEYBEN, n) => Variable(n, Ambient[n]) \in child[c]
        /\ \A v \in child[c] : IsPrefix(KEYBEN, v) /\ IsUtf8(v) =>
              \E n \in DOMAIN secrets : v = Variable(n, secrets[n])

(* keyben run reports success only for a child that ran and reported success:
   neither a child that was killed nor one that never started counts.      *)
SuccessIsTheChilds ==
    \A c \in Client :
        Running(c) /\ stage[c] = "done" /\ ProcessExit(c) = 0 =>
            child[c] # None /\ status[c].code = 0
=============================================================================
