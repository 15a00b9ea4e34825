---------------------------- MODULE SecretStore ----------------------------
(***************************************************************************)
(* The SQLite storage layer, src/server/db.rs.  The table projects maps a  *)
(* name to its envelope, the table secrets a (project, env, name) to a     *)
(* ciphertext; None is a missing row.  Each method of Db executes one SQL  *)
(* statement, which SQLite makes atomic: one operator per statement.  A    *)
(* statement that reports what it changed takes its answer as its last     *)
(* parameter.                                                              *)
(*                                                                         *)
(* The pool has five connections to one file: between two statements of    *)
(* one request, statements of any other request may run.                   *)
(***************************************************************************)
EXTENDS Wire

VARIABLES
    projects,   \* the rows of table projects
    secrets     \* the rows of table secrets

tables == <<projects, secrets>>

TablesTypeOK ==
    /\ projects \in [Project -> Row \cup {None}]
    /\ secrets \in [Place -> SecretBlob \cup {None}]

EmptyTables ==
    /\ projects = [p \in Project |-> None]
    /\ secrets = [x \in Place |-> None]

-----------------------------------------------------------------------------
(* Queries.                                                                *)

HasProject(p)       == projects[p] # None
ProjectKdf(p)       == projects[p].salt
ProjectMeta(p)      == projects[p].wrapped_dek
ProjectAuthHash(p)  == projects[p].auth_hash

(* SELECT 1 FROM projects WHERE name = p AND auth_hash = hash              *)
PasswordMatches(p, hash) == HasProject(p) /\ ProjectAuthHash(p) = hash

SelectSecret(x) == secrets[x]

SelectSecrets(p, e) ==
    [n \in {m \in Name : secrets[<<p, e, m>>] # None} |-> secrets[<<p, e, n>>]]

-----------------------------------------------------------------------------
(* Statements that write.  A name that starts with Faulty is a plausible   *)
(* mistake in the definition that follows it; no specification uses it.    *)

FaultyInsertUpserts(p, row, inserted) ==
    /\ inserted = TRUE
    /\ projects' = [projects EXCEPT ![p] = row]
    /\ UNCHANGED secrets

(* INSERT ... ON CONFLICT (name) DO NOTHING                                *)
InsertProject(p, row, inserted) ==
    /\ inserted = ~HasProject(p)
    /\ projects' = IF inserted THEN [projects EXCEPT ![p] = row] ELSE projects
    /\ UNCHANGED secrets

FaultyResetNotGated(p, oldHash, row, updated) ==
    /\ updated = HasProject(p)
    /\ projects' = IF updated THEN [projects EXCEPT ![p] = row] ELSE projects
    /\ UNCHANGED secrets

FaultyResetKeepsWrappedDek(p, oldHash, row, updated) ==
    /\ updated = PasswordMatches(p, oldHash)
    /\ projects' = IF updated
                   THEN [projects EXCEPT ![p].salt = row.salt,
                                         ![p].auth_hash = row.auth_hash]
                   ELSE projects
    /\ UNCHANGED secrets

FaultyResetAlwaysUpdated(p, oldHash, row, updated) ==
    /\ updated = TRUE
    /\ projects' = IF PasswordMatches(p, oldHash)
                   THEN [projects EXCEPT ![p] = row] ELSE projects
    /\ UNCHANGED secrets

(* UPDATE projects SET salt, wrapped_dek, auth_hash WHERE name AND auth_hash *)
ResetPassword(p, oldHash, row, updated) ==
    /\ updated = PasswordMatches(p, oldHash)
    /\ projects' = IF updated THEN [projects EXCEPT ![p] = row] ELSE projects
    /\ UNCHANGED secrets

FaultySetNotGated(x, blob, hash, written) ==
    /\ written = TRUE
    /\ secrets' = [secrets EXCEPT ![x] = blob]
    /\ UNCHANGED projects

(* INSERT ... WHERE EXISTS (...) ON CONFLICT DO UPDATE SET value           *)
SetSecretIfPasswordMatches(x, blob, hash, written) ==
    /\ written = PasswordMatches(x[1], hash)
    /\ secrets' = IF written THEN [secrets EXCEPT ![x] = blob] ELSE secrets
    /\ UNCHANGED projects

FaultyDeleteReportsGate(x, hash, deleted) ==
    /\ deleted = PasswordMatches(x[1], hash)
    /\ secrets' = IF deleted THEN [secrets EXCEPT ![x] = None] ELSE secrets
    /\ UNCHANGED projects

(* DELETE FROM secrets WHERE (project, env, name) AND EXISTS (...)         *)
DeleteSecretIfPasswordMatches(x, hash, deleted) ==
    /\ deleted = (secrets[x] # None /\ PasswordMatches(x[1], hash))
    /\ secrets' = IF deleted THEN [secrets EXCEPT ![x] = None] ELSE secrets
    /\ UNCHANGED projects
=============================================================================
