-------------------------------- MODULE Wire --------------------------------
(***************************************************************************)
(* What client and server exchange: the requests of the HTTP API with the  *)
(* checks the handlers make on them before any database access, and the    *)
(* replies.  Source: src/common/wire.rs, src/server/mod.rs.                *)
(***************************************************************************)
EXTENDS Envelope

CONSTANTS
    Token,      \* bearer tokens clients present
    AuthToken,  \* the auth_token of the server's config.toml
    Blank,      \* the empty string
    Trim,       \* Trim[s] is s without surrounding whitespace
    None        \* no value: a missing row, header or body

ASSUME TrimAssumption ==
    /\ \A p \in Project : Trim[p] \in Project \cup {Blank}
    /\ \A p \in Project : Trim[p] \in Project => Trim[Trim[p]] = Trim[p]
    /\ \A n \in Name : Trim[n] \in Name \cup {Blank}
    /\ \A n \in Name : Trim[n] \in Name => Trim[Trim[n]] = Trim[n]
    /\ Blank \notin Project
    /\ Blank \notin Name

(* A blank spelling is one that trims to nothing.                          *)

Unauthenticated == {"create_project", "get_project_kdf"}
Enveloped       == {"create_project", "reset_project_password"}
Named           == {"set_secret", "get_secret", "delete_secret"}
InEnv           == Named \cup {"list_secrets"}
Op              == Unauthenticated \cup Enveloped \cup InEnv \cup {"get_project_meta"}

Request == [op      : Op,
            token   : Token,
            project : Project,
            env     : Env \cup {None},         \* None: not a known environment
            name    : Name \cup {None},
            auth    : AuthSecret \cup {None},  \* the x-keyben-project-auth header
            body    : Row \cup SecretBlob \cup {None}]

CanonicalProject(r) == Trim[r.project]
PlaceOf(r)          == <<CanonicalProject(r), r.env, r.name>>

(* validate_project_and_env: the path names a project and, where it has
   these segments, a known environment and a secret.                       *)
ValidPath(r) ==
    /\ CanonicalProject(r) # Blank
    /\ r.op \in InEnv => r.env \in Env
    /\ r.op \in Named => r.name \in Name /\ Trim[r.name] # Blank

(* validate_envelope_fields, and the extraction of the JSON body before it. *)
ValidBody(r) ==
    /\ r.op \in Enveloped => r.body \in Row
    /\ r.op = "set_secret" => r.body \in SecretBlob

WellFormed(r) == ValidPath(r) /\ ValidBody(r)

Success == {"OK", "CREATED", "NO_CONTENT"}
Refusal == {"BAD_REQUEST", "UNAUTHORIZED", "FORBIDDEN", "NOT_FOUND", "CONFLICT",
            "INTERNAL_SERVER_ERROR"}

(* The JSON bodies of wire.rs; None where there is none, or an error text. *)
ProjectKdfBody  == [salt : Random]
ProjectMetaBody == [wrapped_dek : WrappedDek]
SecretValueBody == [value : SecretBlob]
ListingBody     == [entries : UNION {[ns -> SecretBlob] : ns \in SUBSET Name}]

Body == ProjectKdfBody \cup ProjectMetaBody \cup SecretValueBody \cup ListingBody

(* The body that a successful response to each operation has.              *)
BodyOf(op) == CASE op = "get_project_kdf"  -> ProjectKdfBody
                [] op = "get_project_meta" -> ProjectMetaBody
                [] op = "get_secret"       -> SecretValueBody
                [] op = "list_secrets"     -> ListingBody
                [] OTHER                   -> {None}

Reply == [status : Success \cup Refusal, body : Body \cup {None}]

(* The missing value is none of the values it stands in for.               *)
ASSUME NoneAssumption ==
    /\ None \notin Env
    /\ None \notin Name
    /\ None \notin Random
    /\ None \notin AuthSecret
    /\ None \notin AuthHash
    /\ None \notin Row
    /\ None \notin SecretBlob
    /\ None \notin Request
    /\ None \notin Reply
=============================================================================
