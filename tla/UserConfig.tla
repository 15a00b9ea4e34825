----------------------------- MODULE UserConfig -----------------------------
(***************************************************************************)
(* Processes of one user that share ~/.keyben.toml, without any lock.      *)
(* Source: run_config_command and reset in src/client/mod.rs,              *)
(* src/client/runtime.rs, prompt.rs and config.rs.                         *)
(*                                                                         *)
(*   config init:    start -> verify -> save -> loaded -> truncated -> done*)
(*   other commands: start [-> entry] -> unlock [-> note] -> done          *)
(*   (init does not unlock, but takes its values in the same way)          *)
(*                                                                         *)
(* Between two stages lies a wait for a user or for a server, or another   *)
(* access to the file.  Keyben models the requests; here the server        *)
(* accepts or refuses.                                                     *)
(***************************************************************************)
EXTENDS ConfigFile

CONSTANTS
    Client,         \* processes; each draws the salt that bears its name
    Jobs,           \* what they may be started to do
    Home,           \* where the server of the projects answers
    ThisDevice,     \* the machine they run on
    FirstPassword,  \* the project passwords at first
    EarlierFiles,   \* what earlier processes may have left in the file
    Faults          \* which of AllFaults may happen (a bound of the model)

AllFaults == {"crash", "write_failed"}

Job == [kind     : {"config", "use", "reset"},
        project  : Project,
        server   : Url \cup {None, Blank},      \* --server or KEYBEN_SERVER
        token    : Token \cup {None, Blank},
        password : Password \cup {None},
        new      : Password \cup {None},
        terminal : BOOLEAN]                     \* is there someone to ask?

VARIABLES
    file,       \* what is in ~/.keyben.toml
    pieces,     \* tables of which something may be in it, also where none parses
    current,    \* the password of each project on the server
    ever,       \* history: the passwords it has had
    job,        \* what each process was started to do
    stage,
    creds,      \* the values it has resolved
    asked,      \* history: what it has asked its user for
    base,       \* the tables it has read, to insert its own
    outcome,
    met,        \* history: what others did to the file after each process looked at it
    map,        \* history: the tables if saving one were atomic
    intact      \* history: no save met another, or broke off

vars == <<file, pieces, current, ever, job, stage, creds, asked, base, outcome,
          met, map, intact>>
disk == <<file, pieces, met>>

Outcomes == {"ok", "ok_renew", "cancelled", "no_input", "unreadable", "not_configured",
             "invalid_salt", "incorrect", "refused", "same_password", "write_failed", "crashed"}

(* While the table is still to be read, only the password is known.        *)
Credentials == [server : Url \cup {None}, token : Token \cup {None}, password : Password]

ASSUME JobsAssumption ==
    /\ Jobs \subseteq Job
    /\ \A j \in Jobs : Trim[j.project] \in Project
    /\ \A j \in Jobs : j.kind = "reset" => j.new \in Password
    /\ Client \subseteq Random
    /\ None \notin Credentials \cup Outcomes
    /\ Home \in Url
    /\ ThisDevice \in Device
    /\ FirstPassword \in [Project -> Password]
    /\ Faults \subseteq AllFaults

Prj(c) == Trim[job[c].project]

-----------------------------------------------------------------------------
(* Resolution of values.                                                   *)

Usable(value) == value \notin {None, Blank}

(* Option::or: a blank flag is a flag.                                     *)
OrElse(flag, saved) == IF flag # None THEN flag ELSE saved

(* What a prompt helper may return: the value it is given, or what the user
   answers.  Without a terminal the prompt fails.                          *)
Supplied(c, value, answers) ==
    IF Usable(value) THEN {value} ELSE IF job[c].terminal THEN answers ELSE {}

NeedsFile(c) == job[c].server = None \/ job[c].token = None

Contains(project) == Stored(file)[project] # None

AskedFor(values) == {v \in DOMAIN values : ~Usable(values[v])}

(* The values of a command, of which saved comes from the file.            *)
Values(c, saved) == [server   |-> OrElse(job[c].server, saved.server),
                     token    |-> OrElse(job[c].token, saved.token),
                     password |-> saved.password]

NoneSaved(c) == [server |-> None, token |-> None, password |-> job[c].password]

Suppliable(c, value) == Usable(value) \/ job[c].terminal

Resolutions(c, values) == [server   : Supplied(c, values.server, Url),
                           token    : Supplied(c, values.token, Token),
                           password : Supplied(c, values.password, Password)]

End(c, result) ==
    /\ stage' = [stage EXCEPT ![c] = "done"]
    /\ outcome' = [outcome EXCEPT ![c] = result]

(* Go on with resolved values, or fail because nobody is there to be asked. *)
Resolved(c, values, questions, next) ==
    /\ asked' = [asked EXCEPT ![c] = @ \cup questions \cup AskedFor(values)]
    /\ \/ /\ creds' \in {[creds EXCEPT ![c] = k] : k \in Resolutions(c, values)}
          /\ stage' = [stage EXCEPT ![c] = next]
          /\ UNCHANGED outcome
       \/ Resolutions(c, values) = {} /\ End(c, "no_input") /\ UNCHANGED creds

-----------------------------------------------------------------------------
(* The server.  An unlock succeeds or fails as of one instant: see Keyben. *)

Accepts(project, k) ==
    /\ k.server = Home
    /\ k.token = AuthToken
    /\ k.password = current[project]

FaultyVerified(c) == creds[c].server = Home /\ creds[c].password = current[Prj(c)]
FaultyVerifiedBySalt(c) == creds[c].server = Home /\ creds[c].token = AuthToken
(* What config init has verified before it saves.                          *)
Verified(c) == Accepts(Prj(c), creds[c])

-----------------------------------------------------------------------------
(* keyben config init.                                                     *)

FaultyMustConfirm(c) == FALSE
MustConfirm(c) == Contains(Prj(c))

(* Server and token, the question, the password: all is settled before the
   network is used.  The user may decline to replace a table; without a
   terminal, confirm takes that for the answer.                            *)
CheckConfig(c) ==
    /\ stage[c] = "start" /\ job[c].kind = "config"
    /\ LET flags == [server |-> job[c].server, token |-> job[c].token,
                     password |-> job[c].password]
           given == Suppliable(c, flags.server) /\ Suppliable(c, flags.token) IN
       \/ ~given /\ End(c, "no_input") /\ UNCHANGED <<creds, asked>>
       \/ given /\ ~Readable(file) /\ End(c, "unreadable") /\ UNCHANGED <<creds, asked>>
       \/ /\ given /\ Readable(file) /\ MustConfirm(c)
          /\ End(c, "cancelled")
          /\ UNCHANGED <<creds, asked>>
       \/ /\ given /\ Readable(file)
          /\ MustConfirm(c) => job[c].terminal
          /\ Resolved(c, flags, IF MustConfirm(c) THEN {"replace"} ELSE {}, "verify")
    /\ UNCHANGED <<disk, current, ever, job, base, map, intact>>

VerifyConfig(c) ==
    /\ stage[c] = "verify"
    /\ \/ /\ Verified(c)
          /\ stage' = [stage EXCEPT ![c] = "save"]
          /\ UNCHANGED outcome
       \/ ~Verified(c) /\ End(c, "refused")
    /\ UNCHANGED <<disk, current, ever, job, creds, asked, base, map, intact>>

Saving == {c \in Client : stage[c] \in {"loaded", "truncated"}}

(* write_to reads the tables, and std::fs::write truncates, then writes.   *)
Load(c) ==
    /\ stage[c] = "save"
    /\ \/ /\ Readable(file)
          /\ base' = [base EXCEPT ![c] = Stored(file)]
          /\ stage' = [stage EXCEPT ![c] = "loaded"]
          /\ intact' = (intact /\ Saving = {})
          /\ UNCHANGED outcome
       \/ ~Readable(file) /\ End(c, "unreadable") /\ UNCHANGED <<base, intact>>
    /\ UNCHANGED <<disk, current, ever, job, creds, asked, map>>

(* A change of the file is noted for those between two looks at it.        *)
Changes(c, what) ==
    met' = [d \in Client |->
               IF d # c /\ stage[d] \in {"verify", "save", "entry"} /\ file' # file
               THEN met[d] \cup {what} ELSE met[d]]

PiecesAfter(text) ==
    pieces \cup Entries(text) \cup
    IF file' = Garbled THEN UNION {Entries(begin) : begin \in Blends(text, pieces)}
                       ELSE Entries(file')

Truncate(c) ==
    /\ stage[c] = "loaded"
    /\ file' = NoTables
    /\ pieces' = {}
    /\ Changes(c, "truncated")
    /\ stage' = [stage EXCEPT ![c] = "truncated"]
    /\ UNCHANGED <<current, ever, job, creds, asked, base, outcome, map, intact>>

OwnTable(c) == NewTable(ConfigKey(creds[c].password, ThisDevice, c),
                        Prj(c), creds[c].server, creds[c].token)

NewText(c) == Inserted(base[c], Prj(c), OwnTable(c))

(* The text of a few hundred bytes is one call of write, and this one step:
   neither another writer nor a reader comes in between.                   *)
WriteText(c) ==
    /\ stage[c] = "truncated"
    /\ file' \in WrittenOver(NewText(c), pieces)
    /\ pieces' = PiecesAfter(NewText(c))
    /\ Changes(c, "written")
    /\ map' = [map EXCEPT ![Prj(c)] = OwnTable(c)]
    /\ End(c, "ok")
    /\ UNCHANGED <<current, ever, job, creds, asked, base, intact>>

(* Opening the file fails, or writing it does.                             *)
SaveFails(c) ==
    /\ "write_failed" \in Faults
    /\ \/ stage[c] = "loaded" /\ UNCHANGED <<disk, intact>>
       \/ /\ stage[c] = "truncated"
          /\ file' \in TornWrites(NewText(c), pieces)
          /\ pieces' = PiecesAfter(NewText(c))
          /\ Changes(c, "written")
          /\ intact' = FALSE
    /\ End(c, "write_failed")
    /\ UNCHANGED <<current, ever, job, creds, asked, base, map>>

-----------------------------------------------------------------------------
(* Every other command: resolve, then unlock.                              *)

(* runtime::resolve up to contains; a table needs a password.              *)
Resolve(c) ==
    /\ stage[c] = "start" /\ job[c].kind \in {"use", "reset"}
    /\ \/ /\ NeedsFile(c) /\ ~Readable(file)
          /\ End(c, "unreadable")
          /\ UNCHANGED <<creds, asked>>
       \/ /\ NeedsFile(c) /\ Readable(file) /\ Contains(Prj(c))
          /\ asked' = [asked EXCEPT ![c] = IF job[c].password = None THEN {"password"} ELSE {}]
          /\ \/ /\ \E pw \in Supplied(c, job[c].password, Password) :
                      creds' = [creds EXCEPT ![c] = [NoneSaved(c) EXCEPT !.password = pw]]
                /\ stage' = [stage EXCEPT ![c] = "entry"]
                /\ UNCHANGED outcome
             \/ ~Suppliable(c, job[c].password) /\ End(c, "no_input") /\ UNCHANGED creds
       \/ /\ NeedsFile(c) => Readable(file) /\ ~Contains(Prj(c))
          /\ Resolved(c, Values(c, NoneSaved(c)), {}, "unlock")
    /\ UNCHANGED <<disk, current, ever, job, base, map, intact>>

(* config::read reads the file again, which contains has read before.      *)
ReadEntry(c) ==
    /\ stage[c] = "entry"
    /\ LET table == Stored(file)[Prj(c)] IN
       \/ ~Readable(file) /\ End(c, "unreadable") /\ UNCHANGED <<creds, asked>>
       \/ /\ Readable(file) /\ table = None
          /\ End(c, "not_configured")
          /\ UNCHANGED <<creds, asked>>
       \/ /\ Readable(file) /\ table # None
          /\ \/ /\ ~TableOpens(table, Prj(c), creds[c].password, ThisDevice)
                /\ \/ End(c, "incorrect")
                   \/ table.salt = Spliced /\ End(c, "invalid_salt")
                /\ UNCHANGED <<creds, asked>>
             \/ /\ TableOpens(table, Prj(c), creds[c].password, ThisDevice)
                /\ Resolved(c, Values(c, [server   |-> table.encrypted_server.msg,
                                          token    |-> table.encrypted_token.msg,
                                          password |-> creds[c].password]), {}, "unlock")
    /\ UNCHANGED <<disk, current, ever, job, base, map, intact>>

Unlock(c) ==
    /\ stage[c] = "unlock" /\ job[c].kind = "use"
    /\ End(c, IF Accepts(Prj(c), creds[c]) THEN "ok" ELSE "refused")
    /\ UNCHANGED <<disk, current, ever, job, creds, asked, base, map, intact>>

(* reset_password, which takes effect before the file is looked at.        *)
ResetPassword(c) ==
    /\ stage[c] = "unlock" /\ job[c].kind = "reset"
    /\ IF creds[c].password # job[c].new /\ Accepts(Prj(c), creds[c])
       THEN /\ current' = [current EXCEPT ![Prj(c)] = job[c].new]
            /\ ever' = [ever EXCEPT ![Prj(c)] = @ \cup {job[c].new}]
            /\ stage' = [stage EXCEPT ![c] = "note"]
            /\ UNCHANGED outcome
       ELSE /\ End(c, IF creds[c].password = job[c].new THEN "same_password" ELSE "refused")
            /\ UNCHANGED <<current, ever>>
    /\ UNCHANGED <<disk, job, creds, asked, base, map, intact>>

(* It tells the user to renew the table, if there is one.                  *)
NoteEntry(c) ==
    /\ stage[c] = "note"
    /\ End(c, IF ~Readable(file) THEN "unreadable"
              ELSE IF Contains(Prj(c)) THEN "ok_renew" ELSE "ok")
    /\ UNCHANGED <<disk, current, ever, job, creds, asked, base, map, intact>>

-----------------------------------------------------------------------------
(* The process is interrupted or killed, or cannot reach the server.       *)
Crash(c) ==
    /\ "crash" \in Faults
    /\ stage[c] \notin {"start", "done"}
    /\ End(c, "crashed")
    /\ intact' = (intact /\ stage[c] # "truncated")
    /\ UNCHANGED <<disk, current, ever, job, creds, asked, base, map>>

(* A table that was saved before, on this machine or on another.           *)
EarlierTables(project) ==
    {NewTable(ConfigKey(pw, uid, salt), project, Home, AuthToken) :
        pw \in Password, uid \in Device, salt \in Random \ Client}

ASSUME EarlierFilesAssumption ==
    \A f \in EarlierFiles \ {None} :
        f \in StoredConfig /\ \A p \in Project : f[p] \in EarlierTables(p) \cup {None}

Init ==
    /\ file \in EarlierFiles
    /\ pieces = Entries(Stored(file))
    /\ current = FirstPassword
    /\ ever = [p \in Project |-> {FirstPassword[p]} \cup
                  IF Stored(file)[p] = None THEN {}
                  ELSE {Stored(file)[p].encrypted_server.key.password}]
    /\ job \in [Client -> Jobs]
    /\ stage = [c \in Client |-> "start"]
    /\ creds = [c \in Client |-> None]
    /\ asked = [c \in Client |-> {}]
    /\ base = [c \in Client |-> NoTables]
    /\ outcome = [c \in Client |-> None]
    /\ met = [c \in Client |-> {}]
    /\ map = Stored(file)
    /\ intact = TRUE

Step(c) ==
    \/ CheckConfig(c) \/ VerifyConfig(c) \/ Load(c) \/ Truncate(c)
    \/ WriteText(c) \/ SaveFails(c)
    \/ Resolve(c) \/ ReadEntry(c) \/ Unlock(c) \/ ResetPassword(c) \/ NoteEntry(c)
    \/ Crash(c)

AllDone == (\A c \in Client : stage[c] = "done") /\ UNCHANGED vars

Next == (\E c \in Client : Step(c)) \/ AllDone

Spec == Init /\ [][Next]_vars

-----------------------------------------------------------------------------
(* Properties.                                                             *)

TypeOK ==
    /\ file \in Content
    /\ pieces \in SUBSET (Project \X StoredProject)
    /\ current \in [Project -> Password]
    /\ ever \in [Project -> SUBSET Password]
    /\ job \in [Client -> Jobs]
    /\ stage \in [Client -> {"start", "verify", "save", "loaded", "truncated",
                             "entry", "unlock", "note", "done"}]
    /\ creds \in [Client -> Credentials \cup {None}]
    /\ asked \in [Client -> SUBSET {"server", "token", "password", "replace"}]
    /\ base \in [Client -> StoredConfig]
    /\ outcome \in [Client -> Outcomes \cup {None}]
    /\ met \in [Client -> SUBSET {"truncated", "written"}]
    /\ map \in StoredConfig
    /\ intact \in BOOLEAN

(* A table holds what some process has verified against the server, sealed
   under a password that the project had then.                             *)
IsVerified(project, table) ==
    \E pw \in ever[project], uid \in Device, salt \in Random :
        table = NewTable(ConfigKey(pw, uid, salt), project, Home, AuthToken)

(* However the writers of ~/.keyben.toml collide or break off, a table that any
   password opens on any machine was verified against the server as a whole:
   "Every value is verified against the server before anything is written"
   (run_config_command).  A table whose values come from two texts may be found,
   but does not open; without collisions there is none.                    *)
EntriesVerified ==
    Readable(file) => \A p \in Project :
        LET table == Stored(file)[p] IN
        /\ table # None
        /\ intact \/ \E pw \in Password, uid \in Device : TableOpens(table, p, pw, uid)
        => IsVerified(p, table)

(* As long as no two saves have overlapped and none has broken off, saving is
   atomic up to the moment between truncation and write: write_to replaces one
   table and preserves every other one.                                    *)
IntactFileIsTheMap ==
    intact /\ (\A c \in Client : stage[c] # "truncated") =>
        Readable(file) /\ Stored(file) = map

(* config init replaces a table without having asked only if another process
   has written to the file between the question and the reading of the tables. *)
UnaskedReplaceOnlyByRace ==
    \A c \in Saving :
        base[c][Prj(c)] # None /\ "replace" \notin asked[c] => "written" \in met[c]

(* Both values that the command uses come from the project's table.        *)
FromFile(c) == job[c].server = None /\ job[c].token = None
               /\ asked[c] \subseteq {"password"}

(* A saved table that opens with the user's password is as good as server and
   token themselves: when the server refuses such a command, the password is one
   that the project has had, and has no more.                              *)
SavedEntryWorks ==
    [][\A c \in Client :
          /\ outcome[c] = None /\ outcome'[c] = "refused"
          /\ job[c].kind # "config" /\ FromFile(c)
          => creds[c].password \in ever[Prj(c)] \ {current[Prj(c)]}]_vars

(* Collision-free saves, step by step: there is one at a time, it inserts into
   the tables that are in the file, and it finds the file empty.           *)
IntactInv ==
    intact =>
        /\ \A c, d \in Saving : c = d
        /\ \A c \in Saving : base[c] = map
        /\ \A p \in Project : map[p] # None => IsVerified(p, map[p])
        /\ IF \E c \in Client : stage[c] = "truncated"
           THEN file = NoTables /\ pieces = {}
           ELSE Readable(file) /\ Stored(file) = map

(* Each value was sealed for some table that was verified; which one, and
   whether it is this one, the key and the associated data tell.           *)
SealedFor(role, msg, field, known) ==
    field # Spliced =>
        \E p \in Project : \E pw \in known[p], uid \in Device, salt \in Random :
            field = Seal(ConfigKey(pw, uid, salt), FieldRole(role, p), salt, msg)

IsSound(table, known) ==
    /\ SealedFor(SERVER_ROLE, Home, table.encrypted_server, known)
    /\ SealedFor(TOKEN_ROLE, AuthToken, table.encrypted_token, known)

PiecesInv ==
    /\ \A table \in Tables(pieces) : IsSound(table, ever)
    /\ Readable(file) => Entries(Stored(file)) \subseteq pieces

BaseSound(c) == \A p \in Project : base[c][p] # None => IsSound(base[c][p], ever)

(* The inductive invariant behind EntriesVerified, IntactFileIsTheMap and
   SavedEntryWorks: nothing that a process still holds, to save it or to use
   it, is less verified than what is in the file.                          *)
ProcessInv(c) ==
    /\ BaseSound(c)
    /\ stage[c] \notin {"start", "done"} => creds[c] # None
    /\ stage[c] # "done" => outcome[c] = None
    /\ stage[c] \in {"verify", "save", "loaded", "truncated"} => job[c].kind = "config"
    /\ stage[c] \in {"unlock", "note", "entry"} => job[c].kind # "config"
    /\ stage[c] \in {"verify", "unlock"} => creds[c].server \in Url /\ creds[c].token \in Token
    /\ \/ stage[c] \in {"save", "loaded", "truncated"}
       \/ stage[c] = "unlock" /\ FromFile(c)
       => /\ creds[c].server = Home
          /\ creds[c].token = AuthToken
          /\ creds[c].password \in ever[Prj(c)]

ConfigInv ==
    /\ TypeOK
    /\ PiecesInv
    /\ IntactInv
    /\ \A p \in Project : current[p] \in ever[p]
    /\ \A c \in Client : ProcessInv(c)

(* The file stops parsing, and a command (a reset that has taken effect among
   them) fails for that, only after two saves overlapped or one broke off; and
   a table that contains has seen is gone for read only if another process has
   truncated the file, or written to it, between the two.                  *)
HiddenOnlyByWriters ==
    /\ ~Readable(file) => ~intact
    /\ \A c \in Client :
        /\ outcome[c] = "unreadable" => ~intact
        /\ outcome[c] = "not_configured" => met[c] # {}

(* What makes the two properties about collisions inductive: what a process
   has seen in the file is still so, or was changed since by another.      *)
SeenInv(c) ==
    /\ outcome[c] = "unreadable" => ~intact
    /\ stage[c] = "entry" => (Readable(file) /\ Contains(Prj(c))) \/ met[c] # {}
    /\ outcome[c] = "not_configured" => met[c] # {}
    /\ stage[c] \in {"verify", "save"} /\ "replace" \notin asked[c] =>
          (Readable(file) => ~Contains(Prj(c))) \/ "written" \in met[c]
    /\ stage[c] \in {"loaded", "truncated"} /\ "replace" \notin asked[c] =>
          base[c][Prj(c)] = None \/ "written" \in met[c]

CollisionInv == ConfigInv /\ \A c \in Client : SeenInv(c)


(* README: values supplied by the project's table are never asked about.   *)
SuppliedNotAsked ==
    [][\A c \in Client :
          job[c].kind # "config" /\ Readable(file) /\ Contains(Prj(c)) =>
              asked'[c] \subseteq asked[c] \cup {"password"}]_vars
=============================================================================
