--------------------------- MODULE SecretService ---------------------------
(***************************************************************************)
(* What the server promises, without handlers, statements or stored        *)
(* intermediate results:                                                   *)
(*                                                                         *)
(*   - a change takes effect at one instant between request and response,  *)
(*     and at that instant the request carries the password that is        *)
(*     current (or the project does not exist yet);                        *)
(*   - a read of protected data is answered from one instant, and at that  *)
(*     instant or earlier, but after the request arrived, the request      *)
(*     carried the password that was current;                              *)
(*   - a refusal changes nothing and is true of one instant between        *)
(*     request and response.                                               *)
(*                                                                         *)
(* KeybenServer implements this module.                                    *)
(***************************************************************************)
EXTENDS Wire

CONSTANTS Client, Requests

VARIABLES
    projects, secrets,
    phase,      \* "idle", "pending" or "answered"
    request,
    reply,
    proved      \* the pending requests that have shown the password

serviceVars == <<projects, secrets, phase, request, reply, proved>>

Init ==
    /\ projects = [p \in Project |-> None]
    /\ secrets = [x \in Place |-> None]
    /\ phase = [c \in Client |-> "idle"]
    /\ request = [c \in Client |-> None]
    /\ reply = [c \in Client |-> None]
    /\ proved = {}

Invoke(c, r) ==
    /\ phase[c] # "pending"
    /\ phase' = [phase EXCEPT ![c] = "pending"]
    /\ request' = [request EXCEPT ![c] = r]
    /\ reply' = [reply EXCEPT ![c] = None]
    /\ UNCHANGED <<projects, secrets, proved>>

-----------------------------------------------------------------------------

Target(c) == CanonicalProject(request[c])

Admissible(c) ==
    /\ phase[c] = "pending"
    /\ request[c].token = AuthToken
    /\ WellFormed(request[c])

(* The request carries the current password of its project.                *)
Knows(c) ==
    /\ projects[Target(c)] # None
    /\ projects[Target(c)].auth_hash = Sha256(request[c].auth)

Prove(c) ==
    /\ Admissible(c)
    /\ Knows(c)
    /\ proved' = proved \cup {c}
    /\ UNCHANGED <<projects, secrets, phase, request, reply>>

Respond(c, status, body) ==
    /\ phase' = [phase EXCEPT ![c] = "answered"]
    /\ reply' = [reply EXCEPT ![c] = [status |-> status, body |-> body]]
    /\ proved' = proved \ {c}
    /\ UNCHANGED request

Commit(c) ==
    /\ Admissible(c)
    /\ \/ /\ request[c].op = "create_project"
          /\ projects[Target(c)] = None
          /\ projects' = [projects EXCEPT ![Target(c)] = request[c].body]
          /\ UNCHANGED secrets
          /\ Respond(c, "CREATED", None)
       \/ /\ request[c].op = "reset_project_password"
          /\ Knows(c)
          /\ projects' = [projects EXCEPT ![Target(c)] = request[c].body]
          /\ UNCHANGED secrets
          /\ Respond(c, "NO_CONTENT", None)
       \/ /\ request[c].op = "set_secret"
          /\ Knows(c)
          /\ secrets' = [secrets EXCEPT ![PlaceOf(request[c])] = request[c].body]
          /\ UNCHANGED projects
          /\ Respond(c, "NO_CONTENT", None)
       \/ /\ request[c].op = "delete_secret"
          /\ Knows(c)
          /\ secrets[PlaceOf(request[c])] # None
          /\ secrets' = [secrets EXCEPT ![PlaceOf(request[c])] = None]
          /\ UNCHANGED projects
          /\ Respond(c, "NO_CONTENT", None)

Stored(p, e) == {n \in Name : secrets[<<p, e, n>>] # None}

Read(c) ==
    /\ Admissible(c)
    /\ \/ /\ request[c].op = "get_project_kdf"
          /\ projects[Target(c)] # None
          /\ Respond(c, "OK", [salt |-> projects[Target(c)].salt])
       \/ /\ c \in proved
          /\ request[c].op = "get_project_meta"
          /\ projects[Target(c)] # None
          /\ Respond(c, "OK", [wrapped_dek |-> projects[Target(c)].wrapped_dek])
       \/ /\ c \in proved
          /\ request[c].op = "get_secret"
          /\ secrets[PlaceOf(request[c])] # None
          /\ Respond(c, "OK", [value |-> secrets[PlaceOf(request[c])]])
       \/ /\ c \in proved
          /\ request[c].op = "list_secrets"
          /\ Respond(c, "OK", [entries |->
                [n \in Stored(Target(c), request[c].env) |->
                    secrets[<<Target(c), request[c].env, n>>]]])
    /\ UNCHANGED <<projects, secrets>>

-----------------------------------------------------------------------------

(* When each refusal is true.  Two are wider than their messages: a reset
   between the two database calls of set_secret is reported as a conflict,
   and one between those of delete_secret as a missing secret.             *)
Justified(c, status) ==
    LET op == request[c].op IN
    \/ status = "UNAUTHORIZED" /\ request[c].token # AuthToken
    \/ /\ request[c].token = AuthToken
       /\ \/ status = "BAD_REQUEST" /\ ~WellFormed(request[c])
          \/ /\ WellFormed(request[c])
             /\ \/ status = "INTERNAL_SERVER_ERROR"
                \/ /\ status = "FORBIDDEN"
                   /\ op \notin Unauthenticated
                   /\ projects[Target(c)] # None \/ c \in proved
                   /\ ~Knows(c)
                \/ /\ status = "NOT_FOUND"
                   /\ op # "create_project"
                   /\ projects[Target(c)] = None
                \/ /\ status = "NOT_FOUND"
                   /\ \/ op = "get_secret" /\ c \in proved
                      \/ op = "delete_secret" /\ Knows(c)
                   /\ secrets[PlaceOf(request[c])] = None
                \/ /\ status = "NOT_FOUND"
                   /\ op = "delete_secret"
                   /\ c \in proved /\ ~Knows(c)
                \/ /\ status = "CONFLICT"
                   /\ op = "create_project"
                   /\ projects[Target(c)] # None
                \/ /\ status = "CONFLICT"
                   /\ op = "set_secret"
                   /\ c \in proved /\ ~Knows(c)

Refuse(c) ==
    /\ phase[c] = "pending"
    /\ \E status \in Refusal :
          /\ Justified(c, status)
          /\ Respond(c, status, None)
    /\ UNCHANGED <<projects, secrets>>

(* The connections of the clients in S close; what was pending is dropped. *)
Close(S) ==
    /\ phase' = [c \in Client |-> IF c \in S THEN "idle" ELSE phase[c]]
    /\ request' = [c \in Client |-> IF c \in S THEN None ELSE request[c]]
    /\ reply' = [c \in Client |-> IF c \in S THEN None ELSE reply[c]]
    /\ proved' = proved \ S
    /\ UNCHANGED <<projects, secrets>>

Next ==
    \/ \E c \in Client :
          \/ \E r \in Requests : Invoke(c, r)
          \/ Prove(c)
          \/ Commit(c)
          \/ Read(c)
          \/ Refuse(c)
    \/ \E S \in SUBSET Client : Close(S)

Spec == Init /\ [][Next]_serviceVars
=============================================================================
