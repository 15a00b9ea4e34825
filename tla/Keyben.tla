------------------------------- MODULE Keyben -------------------------------
(***************************************************************************)
(* CLI processes and the server together: src/client/mod.rs and            *)
(* src/client/api.rs over KeybenServer.                                    *)
(*                                                                         *)
(* A client is one run of the binary: it executes one command and exits.   *)
(* An action of a client is the code from one response to the next request *)
(* it sends:                                                               *)
(*                                                                         *)
(*   start -> create --------------> done      keyben init                 *)
(*   start -> kdf -> meta ---------> done      keyben config init          *)
(*   start -> kdf -> meta -> op ---> done      every other command         *)
(*                                                                         *)
(* A process draws at most one salt, one DEK and one nonce; all three are  *)
(* represented by the name of the process, so that draws never collide.    *)
(***************************************************************************)
EXTENDS KeybenServer

CONSTANTS
    Commands,   \* the commands that users run
    Faults      \* which of AllFaults may happen (a bound of the model)

Command == [kind     : {"init", "config", "set", "get", "list", "delete", "reset"},
            token    : Token,
            project  : Project,
            password : Password,
            new      : Password \cup {None},
            env      : Env \cup {None},
            name     : Name \cup {None},
            value    : Value \cup {None}]

AllFaults == {"db_error", "restart", "give_up", "restore"}

(* What clap and the prompts let through.  "list" is every command that
   fetches a whole environment: secrets get without a name, export, run.   *)
ASSUME CommandsAssumption ==
    /\ Commands \subseteq Command
    /\ \A k \in Commands :
          /\ Trim[k.project] # Blank
          /\ k.kind \in {"set", "get", "list", "delete"} => k.env \in Env
          /\ k.kind \in {"set", "get", "delete"} => k.name \in Name
          /\ k.kind \in {"set", "delete"} => Trim[k.name] # Blank
          /\ k.kind = "set" => k.value \in Value
          /\ k.kind = "reset" => k.new \in Password
    /\ Client \subseteq Random

ASSUME FaultsAssumption == Faults \subseteq AllFaults

(* A copy of the database file.                                            *)
Tables == [projects : [Project -> Row \cup {None}],
           secrets  : [Place -> SecretBlob \cup {None}]]

ASSUME NoCommandOrBackup == None \notin Command /\ None \notin Tables

VARIABLES
    cmd,        \* the command of each process
    pc,         \* the response it waits for
    salt,       \* the salt it has fetched
    dek,        \* the DEK it has unwrapped
    draft,      \* the envelope it has composed
    outcome,    \* how it ended
    applied,    \* history: the processes whose request changed a row
    backup      \* the copy of the database file

clientVars == <<cmd, pc, salt, dek, draft, outcome>>
vars == <<projects, secrets, stage, request, expected, reply,
          cmd, pc, salt, dek, draft, outcome, applied, backup>>

Waiting == {"create", "kdf", "meta", "op"}

Outcome == {"ok", "same_password", "unlock_failed", "decrypt_failed",
            "lost", "gave_up"} \cup Refusal

ASSUME NoOutcome == None \notin Outcome

TypeOK ==
    /\ ServerTypeOK
    /\ cmd \in [Client -> Commands \cup {None}]
    /\ pc \in [Client -> {"start", "done"} \cup Waiting]
    /\ salt \in [Client -> Random \cup {None}]
    /\ dek \in [Client -> Random \cup {None}]
    /\ draft \in [Client -> Row \cup {None}]
    /\ outcome \in [Client -> Outcome \cup {None}]
    /\ applied \in SUBSET Client
    /\ backup \in Tables \cup {None}

Init ==
    /\ ServerInit
    /\ cmd = [c \in Client |-> None]
    /\ pc = [c \in Client |-> "start"]
    /\ salt = [c \in Client |-> None]
    /\ dek = [c \in Client |-> None]
    /\ draft = [c \in Client |-> None]
    /\ outcome = [c \in Client |-> None]
    /\ applied = {}
    /\ backup = None

-----------------------------------------------------------------------------
(* What a command sends.                                                   *)

ProjectName(k) == Trim[k.project]

(* set and delete go through prompt::secret_name, which trims; get sends the
   name as it was typed.                                                   *)
SecretName(k) == IF k.kind = "get" THEN k.name ELSE Trim[k.name]

FaultySecretPlace(k) == <<ProjectName(k), k.env, k.name>>

(* What the client binds a ciphertext to: the place it names on the wire.  *)
SecretPlace(k) == <<ProjectName(k), k.env, SecretName(k)>>

Message(k, op, auth, body) ==
    [op      |-> op,
     token   |-> k.token,
     project |-> ProjectName(k),
     env     |-> IF op \in InEnv THEN k.env ELSE None,
     name    |-> IF op \in Named THEN SecretName(k) ELSE None,
     auth    |-> auth,
     body    |-> body]

(* The keys that the password of a command yields with a salt.             *)
KeysOf(k, s) == DeriveProjectKeys(k.password, s)

Finish(c, how) ==
    /\ pc' = [pc EXCEPT ![c] = "done"]
    /\ outcome' = [outcome EXCEPT ![c] = how]
    /\ dek' = [dek EXCEPT ![c] = None]

-----------------------------------------------------------------------------
(* Actions of a client.                                                    *)

Start(c, k) ==
    /\ pc[c] = "start"
    /\ k.kind # "init"
    /\ ~(k.kind = "reset" /\ k.new = k.password)
    /\ cmd' = [cmd EXCEPT ![c] = k]
    /\ pc' = [pc EXCEPT ![c] = "kdf"]
    /\ Receive(c, Message(k, "get_project_kdf", None, None))
    /\ UNCHANGED <<salt, dek, draft, outcome, applied, backup>>

StartInit(c, k) ==
    /\ pc[c] = "start"
    /\ k.kind = "init"
    /\ cmd' = [cmd EXCEPT ![c] = k]
    /\ pc' = [pc EXCEPT ![c] = "create"]
    /\ draft' = [draft EXCEPT ![c] = NewEnvelope(ProjectName(k), k.password, c, c)]
    /\ Receive(c, Message(k, "create_project", None, draft'[c]))
    /\ UNCHANGED <<salt, dek, outcome, applied, backup>>

StartResetToSamePassword(c, k) ==
    /\ pc[c] = "start"
    /\ k.kind = "reset" /\ k.new = k.password
    /\ cmd' = [cmd EXCEPT ![c] = k]
    /\ Finish(c, "same_password")
    /\ UNCHANGED <<serverVars, salt, draft, applied, backup>>

(* The response that c waits for has arrived, and it is a success.         *)
Succeeded(c, awaited) ==
    /\ pc[c] = awaited
    /\ stage[c] = "replied"
    /\ reply[c].status \in Success

(* unlock, first half: derive the keys, then ask for the wrapped DEK.      *)
GotKdf(c) ==
    /\ Succeeded(c, "kdf")
    /\ salt' = [salt EXCEPT ![c] = reply[c].body.salt]
    /\ pc' = [pc EXCEPT ![c] = "meta"]
    /\ Receive(c, Message(cmd[c], "get_project_meta",
                          KeysOf(cmd[c], salt'[c]).auth_secret, None))
    /\ UNCHANGED <<cmd, dek, draft, outcome, applied, backup>>

Unlocks(c) ==
    CanUnwrap(KeysOf(cmd[c], salt[c]), reply[c].body.wrapped_dek, ProjectName(cmd[c]))

UnlockFailed(c) ==
    /\ Succeeded(c, "meta")
    /\ ~Unlocks(c)
    /\ Finish(c, "unlock_failed")
    /\ Drop({c})
    /\ UNCHANGED <<tables, cmd, salt, draft, applied, backup>>

(* config init stops here: the credentials are verified.                   *)
ConfigVerified(c) ==
    /\ Succeeded(c, "meta")
    /\ Unlocks(c)
    /\ cmd[c].kind = "config"
    /\ Finish(c, "ok")
    /\ Drop({c})
    /\ UNCHANGED <<tables, cmd, salt, draft, applied, backup>>

FaultyRekey(k, c, fetchedSalt, theDek) ==
    NewEnvelope(ProjectName(k), k.new, fetchedSalt, theDek)

FaultyRekeyNewDek(k, c, fetchedSalt, theDek) ==
    NewEnvelope(ProjectName(k), k.new, c, c)

(* reset_password wraps the same DEK under the new password and a fresh
   salt, the one that process c draws.                                     *)
Rekey(k, c, fetchedSalt, theDek) ==
    NewEnvelope(ProjectName(k), k.new, c, theDek)

OpOf(k) == CASE k.kind = "set"    -> "set_secret"
             [] k.kind = "get"    -> "get_secret"
             [] k.kind = "list"   -> "list_secrets"
             [] k.kind = "delete" -> "delete_secret"
             [] k.kind = "reset"  -> "reset_project_password"

(* unlock, second half: unwrap the DEK, then send what the command is for. *)
GotMeta(c) ==
    /\ Succeeded(c, "meta")
    /\ Unlocks(c)
    /\ cmd[c].kind # "config"
    /\ dek' = [dek EXCEPT ![c] = reply[c].body.wrapped_dek.msg]
    /\ pc' = [pc EXCEPT ![c] = "op"]
    /\ draft' = IF cmd[c].kind = "reset"
                THEN [draft EXCEPT ![c] = Rekey(cmd[c], c, salt[c], dek'[c])]
                ELSE draft
    /\ LET k == cmd[c]
           body == CASE k.kind = "reset" -> draft'[c]
                     [] k.kind = "set"   -> EncryptSecret(dek'[c], SecretPlace(k), c, k.value)
                     [] OTHER            -> None
       IN  Receive(c, Message(k, OpOf(k), KeysOf(k, salt[c]).auth_secret, body))
    /\ UNCHANGED <<cmd, salt, outcome, applied, backup>>

(* What get and list do with what they fetched: they decrypt all of it.    *)
Decrypts(c) ==
    LET k == cmd[c] IN
    CASE k.kind = "get"  -> CanDecrypt(dek[c], SecretPlace(k), reply[c].body.value)
      [] k.kind = "list" -> \A n \in DOMAIN reply[c].body.entries :
                               CanDecrypt(dek[c], <<ProjectName(k), k.env, n>>,
                                          reply[c].body.entries[n])
      [] OTHER           -> TRUE

GotResponse(c) ==
    /\ Succeeded(c, "create") \/ Succeeded(c, "op")
    /\ Finish(c, IF Decrypts(c) THEN "ok" ELSE "decrypt_failed")
    /\ Drop({c})
    /\ UNCHANGED <<tables, cmd, salt, draft, applied, backup>>

(* send translates every other status into an error.                       *)
Refused(c) ==
    /\ pc[c] \in Waiting
    /\ stage[c] = "replied"
    /\ reply[c].status \notin Success
    /\ Finish(c, reply[c].status)
    /\ Drop({c})
    /\ UNCHANGED <<tables, cmd, salt, draft, applied, backup>>

(* The connection broke: no handler works for c and no response will come. *)
ConnectionLost(c) ==
    /\ pc[c] \in Waiting
    /\ stage[c] = "idle"
    /\ Finish(c, "lost")
    /\ UNCHANGED <<serverVars, cmd, salt, draft, applied, backup>>

(* HTTP_TIMEOUT expires or the user interrupts the process; the server does
   not know yet.                                                           *)
GiveUp(c) ==
    /\ "give_up" \in Faults
    /\ pc[c] \in Waiting
    /\ Finish(c, "gave_up")
    /\ UNCHANGED <<serverVars, cmd, salt, draft, applied, backup>>

ClientStep(c) ==
    \/ GotKdf(c)
    \/ UnlockFailed(c)
    \/ ConfigVerified(c)
    \/ GotMeta(c)
    \/ GotResponse(c)
    \/ Refused(c)
    \/ ConnectionLost(c)

-----------------------------------------------------------------------------
(* Actions of the server and of its operator.                              *)

ServerStep(c) ==
    /\ Serve(c)
    /\ applied' = IF tables' = tables THEN applied ELSE applied \cup {c}
    /\ UNCHANGED <<clientVars, backup>>

(* The server notices that a client is gone, while its handler is at work
   or when it writes the response.                                         *)
NoticeHangUp(c) ==
    /\ pc[c] = "done"
    /\ Disconnect(c)
    /\ UNCHANGED <<clientVars, applied, backup>>

DatabaseFails(c) ==
    /\ "db_error" \in Faults
    /\ DatabaseError(c)
    /\ UNCHANGED <<clientVars, applied, backup>>

ServerRestarts ==
    /\ "restart" \in Faults
    /\ Restart
    /\ UNCHANGED <<clientVars, applied, backup>>

(* The operator copies the database file, and later puts a copy back and
   starts the server on it.                                                *)
TakeBackup ==
    /\ "restore" \in Faults
    /\ backup' = [projects |-> projects, secrets |-> secrets]
    /\ UNCHANGED <<serverVars, clientVars, applied>>

RestoreBackup ==
    /\ "restore" \in Faults
    /\ backup # None
    /\ projects' = backup.projects
    /\ secrets' = backup.secrets
    /\ Stop
    /\ UNCHANGED <<clientVars, applied, backup>>

(* Every command has ended, and no handler is at work.                     *)
AllDone ==
    /\ \A c \in Client : pc[c] = "done" /\ stage[c] = "idle"
    /\ UNCHANGED vars

Next ==
    \/ \E c \in Client :
          \/ \E k \in Commands :
                \/ Start(c, k)
                \/ StartInit(c, k)
                \/ StartResetToSamePassword(c, k)
          \/ ClientStep(c)
          \/ GiveUp(c)
          \/ ServerStep(c)
          \/ NoticeHangUp(c)
          \/ DatabaseFails(c)
    \/ ServerRestarts
    \/ TakeBackup
    \/ RestoreBackup
    \/ AllDone

Spec == Init /\ [][Next]_vars

(* The runtime polls every handler that can make progress, and a process
   that has been started goes on; users need not start anything, and faults
   need not happen.                                                        *)
FairSpec ==
    /\ Spec
    /\ \A c \in Client : WF_vars(ServerStep(c)) /\ WF_vars(ClientStep(c))

-----------------------------------------------------------------------------
(* Safety.                                                                 *)

(* No ciphertext is stranded: whatever the resets, creations, restarts and
   restores, each stored secret opens, at the place where it is stored,
   with the DEK that is wrapped in the current row of its project.  The
   code checks the password in one statement (authorize_project), writes in
   another that is gated on the hash it read, and re-wraps the DEK in a
   third process; no test runs any two of them concurrently.               *)
SecretsDecryptable ==
    \A x \in Place :
        secrets[x] # None =>
            /\ HasProject(x[1])
            /\ CanDecrypt(ProjectMeta(x[1]).msg, x, secrets[x])

(* The password that a process sets with init or password reset.           *)
PasswordSet(k) == IF k.kind = "reset" THEN k.new ELSE k.password

(* No project is locked: its three columns always come from one derivation,
   so that the password given to some init or reset that took effect both
   authenticates and unwraps the DEK (create_project, UPDATE projects).    *)
PasswordOpens ==
    \A p \in Project :
        HasProject(p) =>
            \E c \in applied :
                LET keys == DeriveProjectKeys(PasswordSet(cmd[c]), ProjectKdf(p)) IN
                /\ ProjectName(cmd[c]) = p
                /\ ProjectAuthHash(p) = Sha256(keys.auth_secret)
                /\ CanUnwrap(keys, ProjectMeta(p), p)

(* A process that authenticated never fetches a value that it cannot
   decrypt: the DEK it unwrapped stays the DEK of what the server hands out
   to it, across the resets that run between its requests.                 *)
ReadsDecrypt == \A c \in Client : outcome[c] # "decrypt_failed"

Mutating == {"init", "set", "delete", "reset"}

(* The exit status tells the truth: a command that reports success has
   taken effect, and one that reports what the server refused has not.  Only
   a lost connection or a timeout leaves it open (Api::send).              *)
OutcomeTruthful ==
    \A c \in Client :
        /\ outcome[c] = "ok" /\ cmd[c].kind \in Mutating => c \in applied
        /\ outcome[c] \in Refusal => c \notin applied

(* Of the resets that started from one envelope at most one is acknowledged:
   a second one would have replaced a password its user never proved.      *)
ResetsSerialize ==
    \A c, d \in Client :
        /\ outcome[c] = "ok" /\ cmd[c].kind = "reset"
        /\ outcome[d] = "ok" /\ cmd[d].kind = "reset"
        /\ ProjectName(cmd[c]) = ProjectName(cmd[d])
        /\ salt[c] = salt[d]
        => c = d

-----------------------------------------------------------------------------
(* What no step may do.  A restore undoes steps, so these two are about
   servers whose database file is not replaced.                            *)

(* A project, once created, keeps its DEK: a second init that races the
   first, or a reset, never replaces the key under which secrets were and
   are being encrypted.                                                    *)
DekNeverChanges ==
    [][\A p \in Project :
          HasProject(p) => /\ projects'[p] # None
                           /\ projects'[p].wrapped_dek.msg = ProjectMeta(p).msg]_vars

(* An auth hash that was replaced never comes back, even when a user resets
   the password back to an earlier one: a handler that holds a replaced
   hash, or a client that holds a replaced salt, stays locked out.         *)
HashNeverComesBack ==
    [][\A p \in Project :
          projects'[p] # projects[p] =>
              \A c \in applied :
                  draft[c] # None /\ ProjectName(cmd[c]) = p =>
                      draft[c].auth_hash # projects'[p].auth_hash]_vars

(* Every command that was started ends, also when its handler is dropped by
   a restart, its response is lost, or its project is being reset.         *)
Terminates == \A c \in Client : pc[c] \in Waiting ~> pc[c] = "done"

-----------------------------------------------------------------------------
(* What the source says of itself and does not keep.                       *)

(* "The password was already verified above, so the only remaining cause is
   a missing row": a delete that is answered 404 found no secret to delete.
   The comment stands at the end of delete_secret (src/server/mod.rs:357). *)
NotFoundMeansMissingRow ==
    [][\A c \in Client :
          /\ stage[c] = "authorized" /\ request[c].op = "delete_secret"
          /\ stage'[c] = "replied" /\ reply'[c].status = "NOT_FOUND"
          => secrets[PlaceOf(request[c])] = None]_vars

(* A wrong password makes config init report that it failed to unlock the
   project, as the table of README.md:295 says, and not that the server
   refused the request: authorize_project comes before the unwrapping.     *)
WrongPasswordFailsToUnlock ==
    \A c \in Client :
        outcome[c] = "FORBIDDEN" => cmd[c].kind # "config"

-----------------------------------------------------------------------------
(* Why the safety properties hold.  A salt names the process that drew it,
   so a row, a session and an auth hash that share a salt come from the one
   envelope drafted with that salt, and therefore share its DEK.           *)

DekOf(w) == draft[w].wrapped_dek.msg

(* A process composes its envelope once, with the salt it drew.            *)
DraftCoherent(c) ==
    /\ pc[c] # "start" => cmd[c] # None
    /\ pc[c] \in {"start", "kdf", "meta"} => draft[c] = None
    /\ pc[c] \in {"kdf", "meta"} => cmd[c].kind # "init"
    /\ draft[c] # None =>
          /\ pc[c] # "start"
          /\ \E d \in Random :
                draft[c] = NewEnvelope(ProjectName(cmd[c]), PasswordSet(cmd[c]), c, d)

(* A request that writes was prepared from one envelope w: it proves w's
   password, and it carries w's DEK, be it as the key of a ciphertext or
   wrapped anew.  It outlives its client, which may have given up.         *)
RequestCoherent(c) ==
    request[c] # None =>
        LET r == request[c] IN
        /\ pc[c] # "start"
        /\ CanonicalProject(r) = ProjectName(cmd[c])
        /\ r.op \in Enveloped => draft[c] # None /\ r.body = draft[c]
        /\ r.op \in {"set_secret", "reset_project_password"} =>
              \E w \in Client :
                  /\ draft[w] # None
                  /\ r.auth \in AuthSecret
                  /\ r.auth.salt = w
                  /\ r.op = "set_secret" => CanDecrypt(DekOf(w), PlaceOf(r), r.body)
                  /\ r.op = "reset_project_password" => DekOf(c) = DekOf(w)

(* A client waits for the response to the request it sent last, and a
   wrapped DEK in a response is one that somebody drafted.                 *)
ResponseCoherent(c) ==
    /\ pc[c] = "kdf" /\ stage[c] # "idle" => request[c].op = "get_project_kdf"
    /\ pc[c] = "meta" => salt[c] # None
    /\ pc[c] = "meta" /\ stage[c] # "idle" => request[c].op = "get_project_meta"
    /\ /\ stage[c] = "replied" /\ reply[c].status \in Success
       /\ request[c].op = "get_project_meta"
       => \E w \in Client :
             draft[w] # None /\ reply[c].body.wrapped_dek = draft[w].wrapped_dek

ClientsCoherent ==
    \A c \in Client : DraftCoherent(c) /\ RequestCoherent(c) /\ ResponseCoherent(c)

(* Tables P and S, be they live or in a backup: rows are applied drafts,
   and secrets open with the DEK of their project's row.                   *)
TablesCoherent(P, S) ==
    /\ \A p \in Project :
          P[p] # None =>
              /\ P[p].salt \in applied
              /\ draft[P[p].salt] = P[p]
              /\ ProjectName(cmd[P[p].salt]) = p
    /\ \A x \in Place :
          S[x] # None =>
              /\ P[x[1]] # None
              /\ CanDecrypt(P[x[1]].wrapped_dek.msg, x, S[x])

(* The inductive invariant.                                                *)
IInv ==
    /\ TypeOK
    /\ HandlersCoherent
    /\ ClientsCoherent
    /\ TablesCoherent(projects, secrets)
    /\ backup # None => TablesCoherent(backup.projects, backup.secrets)

-----------------------------------------------------------------------------
(* Why reads decrypt, outcomes tell the truth and resets serialize.        *)

(* The envelope that process w drafted has been in the table.              *)
Published(w) == w \in applied /\ draft[w] # None

(* A request is what the command of its process sends, with the proof for
   the salt that the process has fetched from a published envelope.        *)
SessionCoherent(c) ==
    /\ salt[c] # None => Published(salt[c])
    /\ pc[c] = "op" =>
          /\ cmd[c].kind \notin {"init", "config"}
          /\ salt[c] # None
          /\ dek[c] = DekOf(salt[c])
    /\ pc[c] = "create" /\ stage[c] # "idle" => request[c].op = "create_project"
    /\ pc[c] = "op" /\ stage[c] # "idle" => request[c].op = OpOf(cmd[c])
    /\ request[c] # None =>
          LET r == request[c] IN
          /\ r.op = "create_project" => cmd[c].kind = "init"
          /\ r.op \notin Unauthenticated \cup {"get_project_meta"} =>
                cmd[c].kind \notin {"init", "config"} /\ r.op = OpOf(cmd[c])
          /\ r.op \notin Unauthenticated =>
                /\ salt[c] # None
                /\ r = Message(cmd[c], r.op, KeysOf(cmd[c], salt[c]).auth_secret, r.body)
          /\ r.op = "set_secret" => r.body.nonce = c

(* From authorize_project to the response, the project of a handler has the
   DEK of the envelope whose password the request proves, whoever re-wraps
   it meanwhile; so what is read is encrypted under that DEK.              *)
ReadCoherent(c) ==
    LET r == request[c] IN
    /\ stage[c] = "authorized" =>
          /\ Published(r.auth.salt)
          /\ HasProject(ProjectOf(c))
          /\ ProjectMeta(ProjectOf(c)).msg = DekOf(r.auth.salt)
    /\ stage[c] = "replied" /\ reply[c].status \in Success =>
          /\ r.op = "get_project_kdf" => Published(reply[c].body.salt)
          /\ r.op = "get_secret" =>
                CanDecrypt(DekOf(r.auth.salt), PlaceOf(r), reply[c].body.value)
          /\ r.op = "list_secrets" =>
                \A n \in DOMAIN reply[c].body.entries :
                    CanDecrypt(DekOf(r.auth.salt), <<ProjectOf(c), r.env, n>>,
                               reply[c].body.entries[n])

Writing == Enveloped \cup {"set_secret", "delete_secret"}

(* A request changes rows at most once, at the instant it is answered with
   a success, and its process knows nothing but that answer.               *)
HistoryCoherent(c) ==
    /\ c \in applied =>
          /\ pc[c] \in {"create", "op", "done"}
          /\ stage[c] # "idle" => stage[c] = "replied" /\ reply[c].status \in Success
    /\ stage[c] = "replied" /\ reply[c].status \in Success /\ request[c].op \in Writing
          => c \in applied
    /\ outcome[c] # None => pc[c] = "done"
    /\ outcome[c] \in Refusal => c \notin applied /\ stage[c] = "idle"
    /\ outcome[c] = "ok" /\ cmd[c].kind \in Mutating => c \in applied
    /\ outcome[c] # "decrypt_failed"

(* The nonce of a stored ciphertext names the process that set it.         *)
NoncesApplied(S) == \A x \in Place : S[x] # None => S[x].nonce \in applied

(* The salt that an effective reset started from is gone for good, and no
   other effective reset started from it.                                  *)
SaltsRetired ==
    \A c \in applied :
        cmd[c].kind = "reset" =>
            /\ \A p \in Project : HasProject(p) => ProjectKdf(p) # salt[c]
            /\ \A d \in applied : cmd[d].kind = "reset" /\ salt[d] = salt[c] => d = c

(* The inductive invariant with sessions and history.                      *)
SessionInv ==
    /\ IInv
    /\ \A c \in Client : SessionCoherent(c) /\ ReadCoherent(c) /\ HistoryCoherent(c)
    /\ NoncesApplied(secrets)
    /\ backup # None => NoncesApplied(backup.secrets)
    /\ "restore" \notin Faults => SaltsRetired
=============================================================================
