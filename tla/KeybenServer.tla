---------------------------- MODULE KeybenServer ----------------------------
(***************************************************************************)
(* The HTTP server, src/server/mod.rs, over the SQLite tables.             *)
(*                                                                         *)
(* A CLI process has at most one request in flight, so the handler that    *)
(* serves it is named after the process.  A handler is an async function:  *)
(* it runs from one await of the database to the next, and between two of  *)
(* its actions the other handlers run.  The handlers that authenticate the *)
(* project take two database calls: authorize_project reads the auth hash, *)
(* and one statement does the work.                                        *)
(*                                                                         *)
(*   idle -> received -> authorized -> replied -> idle                     *)
(***************************************************************************)
EXTENDS SecretStore

CONSTANTS
    Client,     \* the CLI processes
    Requests    \* the requests an unconstrained environment sends

ASSUME RequestsAssumption == Requests \subseteq Request

VARIABLES
    stage,      \* how far the handler of each client's request has come
    request,    \* the request it serves
    expected,   \* the local of a handler that holds the auth hash it read
    reply       \* the response it has produced

handlers == <<stage, request, expected, reply>>
serverVars == <<projects, secrets, stage, request, expected, reply>>

Stage == {"idle", "received", "authorized", "replied"}

ServerTypeOK ==
    /\ TablesTypeOK
    /\ stage \in [Client -> Stage]
    /\ request \in [Client -> Request \cup {None}]
    /\ expected \in [Client -> AuthHash \cup {None}]
    /\ reply \in [Client -> Reply \cup {None}]

ServerInit ==
    /\ EmptyTables
    /\ stage = [c \in Client |-> "idle"]
    /\ request = [c \in Client |-> None]
    /\ expected = [c \in Client |-> None]
    /\ reply = [c \in Client |-> None]

-----------------------------------------------------------------------------
(* Receiving a request and answering it.                                   *)

Receive(c, r) ==
    /\ stage[c] \in {"idle", "replied"}
    /\ stage' = [stage EXCEPT ![c] = "received"]
    /\ request' = [request EXCEPT ![c] = r]
    /\ reply' = [reply EXCEPT ![c] = None]
    /\ UNCHANGED <<projects, secrets, expected>>

Answer(c, status, body) ==
    /\ stage' = [stage EXCEPT ![c] = "replied"]
    /\ expected' = [expected EXCEPT ![c] = None]
    /\ reply' = [reply EXCEPT ![c] = [status |-> status, body |-> body]]
    /\ UNCHANGED request

(* The handlers in S and their connections are gone.                       *)
Drop(S) ==
    /\ stage' = [c \in Client |-> IF c \in S THEN "idle" ELSE stage[c]]
    /\ request' = [c \in Client |-> IF c \in S THEN None ELSE request[c]]
    /\ expected' = [c \in Client |-> IF c \in S THEN None ELSE expected[c]]
    /\ reply' = [c \in Client |-> IF c \in S THEN None ELSE reply[c]]

-----------------------------------------------------------------------------
(* The middleware and the checks made before any database access.          *)

Unauthorized(c) ==
    /\ stage[c] = "received"
    /\ request[c].token # AuthToken
    /\ Answer(c, "UNAUTHORIZED", None)
    /\ UNCHANGED tables

RejectInvalid(c) ==
    /\ stage[c] = "received"
    /\ request[c].token = AuthToken
    /\ ~WellFormed(request[c])
    /\ Answer(c, "BAD_REQUEST", None)
    /\ UNCHANGED tables

(* The handler named op is about to make its first database call.          *)
Handling(c, ops) ==
    /\ stage[c] = "received"
    /\ request[c].op \in ops
    /\ request[c].token = AuthToken
    /\ WellFormed(request[c])

(* It has been through authorize_project.                                  *)
Authorized(c, op) == stage[c] = "authorized" /\ request[c].op = op

ProjectOf(c) == CanonicalProject(request[c])

FaultyAuthorizeAny(c) ==
    /\ Handling(c, Op \ Unauthenticated)
    /\ UNCHANGED <<projects, secrets, request, reply>>
    /\ HasProject(ProjectOf(c))
    /\ stage' = [stage EXCEPT ![c] = "authorized"]
    /\ expected' = [expected EXCEPT ![c] = ProjectAuthHash(ProjectOf(c))]

FaultyAuthorizeHangs(c) ==
    /\ Handling(c, Op \ Unauthenticated)
    /\ PasswordMatches(ProjectOf(c), Sha256(request[c].auth))
    /\ stage' = [stage EXCEPT ![c] = "authorized"]
    /\ expected' = [expected EXCEPT ![c] = ProjectAuthHash(ProjectOf(c))]
    /\ UNCHANGED <<projects, secrets, request, reply>>

(* authorize_project: it fails before the handler's own statement, or it
   returns the stored hash for that statement to be gated on.  A missing
   header is the digest of nothing, which is no project's auth hash.       *)
Authorize(c) ==
    /\ Handling(c, Op \ Unauthenticated)
    /\ UNCHANGED tables
    /\ \/ /\ ~HasProject(ProjectOf(c))
          /\ Answer(c, "NOT_FOUND", None)
       \/ /\ HasProject(ProjectOf(c))
          /\ ProjectAuthHash(ProjectOf(c)) # Sha256(request[c].auth)
          /\ Answer(c, "FORBIDDEN", None)
       \/ /\ PasswordMatches(ProjectOf(c), Sha256(request[c].auth))
          /\ stage' = [stage EXCEPT ![c] = "authorized"]
          /\ expected' = [expected EXCEPT ![c] = ProjectAuthHash(ProjectOf(c))]
          /\ UNCHANGED <<request, reply>>

-----------------------------------------------------------------------------
(* The handlers.                                                           *)

CreateProject(c) ==
    /\ Handling(c, {"create_project"})
    /\ \E inserted \in BOOLEAN :
          /\ InsertProject(ProjectOf(c), request[c].body, inserted)
          /\ Answer(c, IF inserted THEN "CREATED" ELSE "CONFLICT", None)

GetProjectKdf(c) ==
    /\ Handling(c, {"get_project_kdf"})
    /\ IF HasProject(ProjectOf(c))
       THEN Answer(c, "OK", [salt |-> ProjectKdf(ProjectOf(c))])
       ELSE Answer(c, "NOT_FOUND", None)
    /\ UNCHANGED tables

GetProjectMeta(c) ==
    /\ Authorized(c, "get_project_meta")
    /\ IF HasProject(ProjectOf(c))
       THEN Answer(c, "OK", [wrapped_dek |-> ProjectMeta(ProjectOf(c))])
       ELSE Answer(c, "NOT_FOUND", None)
    /\ UNCHANGED tables

ResetProjectPassword(c) ==
    /\ Authorized(c, "reset_project_password")
    /\ \E updated \in BOOLEAN :
          /\ ResetPassword(ProjectOf(c), expected[c], request[c].body, updated)
          /\ Answer(c, IF updated THEN "NO_CONTENT" ELSE "FORBIDDEN", None)

SetSecret(c) ==
    /\ Authorized(c, "set_secret")
    /\ \E written \in BOOLEAN :
          /\ SetSecretIfPasswordMatches(PlaceOf(request[c]), request[c].body,
                                        expected[c], written)
          /\ Answer(c, IF written THEN "NO_CONTENT" ELSE "CONFLICT", None)

GetSecret(c) ==
    /\ Authorized(c, "get_secret")
    /\ LET value == SelectSecret(PlaceOf(request[c])) IN
       IF value # None THEN Answer(c, "OK", [value |-> value])
                       ELSE Answer(c, "NOT_FOUND", None)
    /\ UNCHANGED tables

ListSecrets(c) ==
    /\ Authorized(c, "list_secrets")
    /\ Answer(c, "OK", [entries |-> SelectSecrets(ProjectOf(c), request[c].env)])
    /\ UNCHANGED tables

DeleteSecret(c) ==
    /\ Authorized(c, "delete_secret")
    /\ \E deleted \in BOOLEAN :
          /\ DeleteSecretIfPasswordMatches(PlaceOf(request[c]), expected[c], deleted)
          /\ Answer(c, IF deleted THEN "NO_CONTENT" ELSE "NOT_FOUND", None)

-----------------------------------------------------------------------------
(* What goes wrong around a handler.                                       *)

(* A database call fails (no free connection, SQLITE_BUSY, disk error):
   it changes nothing, and the handler answers 500.                        *)
DatabaseError(c) ==
    /\ Handling(c, Op) \/ stage[c] = "authorized"
    /\ Answer(c, "INTERNAL_SERVER_ERROR", None)
    /\ UNCHANGED tables

(* The connection closes: after the response, or before it because the
   client has hung up.  A handler still at work is dropped at its current
   await, with a database call that has not started yet.                   *)
Disconnect(c) ==
    /\ stage[c] # "idle"
    /\ Drop({c})
    /\ UNCHANGED tables

(* The process of the server ends: every handler at work is gone, while a
   response that was already sent may still reach its client.              *)
Stop ==
    \E lost \in SUBSET {c \in Client : stage[c] = "replied"} :
        Drop({c \in Client : stage[c] \in {"received", "authorized"}} \cup lost)

(* The server stops, by a crash or at the end of the five seconds that a
   graceful shutdown grants, and starts again on the same file.            *)
Restart ==
    /\ \E c \in Client : stage[c] # "idle"
    /\ Stop
    /\ UNCHANGED tables

-----------------------------------------------------------------------------

Serve(c) ==
    \/ Unauthorized(c)
    \/ RejectInvalid(c)
    \/ Authorize(c)
    \/ CreateProject(c)
    \/ GetProjectKdf(c)
    \/ GetProjectMeta(c)
    \/ ResetProjectPassword(c)
    \/ SetSecret(c)
    \/ GetSecret(c)
    \/ ListSecrets(c)
    \/ DeleteSecret(c)

(* The server in an environment that may send any of Requests at any time. *)
ServerNext ==
    \/ \E c \in Client :
          \/ \E r \in Requests : Receive(c, r)
          \/ Serve(c)
          \/ DatabaseError(c)
          \/ Disconnect(c)
    \/ Restart

ServerSpec == ServerInit /\ [][ServerNext]_serverVars

-----------------------------------------------------------------------------
(* What connects the parts of a handler: the hash that it holds across its
   second database call is the digest of its own request's header, and a
   success has the body that the client of that operation parses.          *)
HandlerCoherent(c) ==
    /\ stage[c] = "idle" <=> request[c] = None
    /\ stage[c] = "replied" <=> reply[c] # None
    /\ stage[c] = "authorized" =>
          /\ request[c].op \notin Unauthenticated
          /\ request[c].token = AuthToken
          /\ WellFormed(request[c])
          /\ expected[c] = Sha256(request[c].auth)
    /\ stage[c] = "replied" /\ reply[c].status \in Success =>
          reply[c].body \in BodyOf(request[c].op)

HandlersCoherent == \A c \in Client : HandlerCoherent(c)

(* The inductive invariant of the server.                                  *)
ServerInv == ServerTypeOK /\ HandlersCoherent

(* The two stages of a handler at work are one pending request to those
   who wait for it, and a handler past authorize_project has seen its
   client prove the password.                                              *)
PhaseOf ==
    [c \in Client |-> CASE stage[c] = "idle"    -> "idle"
                        [] stage[c] = "replied" -> "answered"
                        [] OTHER                -> "pending"]

Service == INSTANCE SecretService
           WITH phase  <- PhaseOf,
                proved <- {c \in Client : stage[c] = "authorized"}

(* The handlers implement SecretService: writes are atomic and gated on the
   password that is current when they happen, protected reads on one that
   was current while they were pending, and refusals tell the truth.  The
   code does each of them in two database calls that other requests may
   come between (authorize_project, then the statement of the handler).    *)
ServiceImplemented == Service!Spec
=============================================================================
