------------------------- MODULE KeybenServerProofs -------------------------
(***************************************************************************)
(* Proofs about KeybenServer: type correctness and the coherence of the    *)
(* handlers, step by step, for every number of clients, projects and       *)
(* secrets, and for every environment.                                     *)
(***************************************************************************)
EXTENDS KeybenServer, TLAPS

(* A row has the three columns, each of its type.                          *)
LEMMA RowFields ==
    ASSUME NEW row \in Row
    PROVE  /\ row # None
           /\ row.salt \in Random
           /\ row.wrapped_dek \in WrappedDek
           /\ row.auth_hash \in AuthHash
  BY NoneAssumption DEF Row

(* A request is not the missing value, and its project is one.             *)
LEMMA RequestFields ==
    ASSUME NEW r \in Request
    PROVE  /\ r # None
           /\ r.op \in Op
           /\ r.project \in Project
           /\ r.body \in Row \cup SecretBlob \cup {None}
           /\ r.auth \in AuthSecret \cup {None}
  BY NoneAssumption DEF Request

(* What WellFormed lets through names a project and a place, and carries
   the body that its operation needs.                                      *)
LEMMA WellFormedFields ==
    ASSUME NEW r \in Request, WellFormed(r)
    PROVE  /\ CanonicalProject(r) \in Project
           /\ r.op \in Named => PlaceOf(r) \in Place /\ PlaceOf(r)[1] = CanonicalProject(r)
           /\ r.op = "list_secrets" => r.env \in Env
           /\ r.op \in Enveloped => r.body \in Row
           /\ r.op = "set_secret" => r.body \in SecretBlob
<1>1. CanonicalProject(r) \in Project
  BY RequestFields, TrimAssumption DEF WellFormed, ValidPath, CanonicalProject
<1> QED
  BY <1>1 DEF WellFormed, ValidPath, ValidBody, Place, PlaceOf, InEnv, Named

(* Answering keeps the handlers well typed.                                *)
LEMMA AnswerTyped ==
    ASSUME NEW c \in Client, NEW status \in Success \cup Refusal,
           NEW body \in Body \cup {None},
           stage \in [Client -> Stage],
           request \in [Client -> Request \cup {None}],
           expected \in [Client -> AuthHash \cup {None}],
           reply \in [Client -> Reply \cup {None}],
           Answer(c, status, body)
    PROVE  /\ stage' \in [Client -> Stage]
           /\ request' \in [Client -> Request \cup {None}]
           /\ expected' \in [Client -> AuthHash \cup {None}]
           /\ reply' \in [Client -> Reply \cup {None}]
<1>1. [status |-> status, body |-> body] \in Reply
  BY DEF Reply
<1> QED
  BY <1>1 DEF Answer, Stage

(* A handler that answers, and leaves well-typed tables, keeps the
   invariant when a success has the body of its operation.                 *)
LEMMA AnswerKeeps ==
    ASSUME ServerInv, NEW c \in Client, NEW status \in Success \cup Refusal,
           NEW body \in Body \cup {None},
           stage[c] # "idle",
           status \in Success => body \in BodyOf(request[c].op),
           Answer(c, status, body), TablesTypeOK'
    PROVE  ServerInv'
<1>1. ServerTypeOK'
  BY AnswerTyped DEF ServerInv, ServerTypeOK
<1>2. HandlersCoherent'
  <2> SUFFICES ASSUME NEW d \in Client PROVE HandlerCoherent(d)'
    BY DEF HandlersCoherent
  <2>0. [status |-> status, body |-> body] # None
    BY NoneAssumption DEF Reply
  <2>1. CASE d = c
    BY <2>0, <2>1 DEF ServerInv, ServerTypeOK, HandlersCoherent, HandlerCoherent, Answer
  <2>2. CASE d # c
    BY <2>2 DEF ServerInv, ServerTypeOK, HandlersCoherent, HandlerCoherent, Answer
  <2> QED
    BY <2>1, <2>2
<1> QED
  BY <1>1, <1>2 DEF ServerInv

(* A refusal needs no body, and leaves the tables alone.                   *)
LEMMA RefusalKeeps ==
    ASSUME ServerInv, NEW c \in Client, NEW status \in Refusal,
           stage[c] # "idle", Answer(c, status, None), UNCHANGED tables
    PROVE  ServerInv'
<1>1. TablesTypeOK'
  BY DEF ServerInv, ServerTypeOK, TablesTypeOK, tables
<1>2. status \notin Success
  BY DEF Success, Refusal
<1> QED
  BY <1>1, <1>2, AnswerKeeps

LEMMA ReceiveKeeps ==
    ASSUME ServerInv, NEW c \in Client, NEW r \in Request, Receive(c, r)
    PROVE  ServerInv'
<1>1. r # None
  BY RequestFields
<1>2. ServerTypeOK'
  BY DEF ServerInv, ServerTypeOK, TablesTypeOK, Receive, Stage
<1>3. HandlersCoherent'
  <2> SUFFICES ASSUME NEW d \in Client PROVE HandlerCoherent(d)'
    BY DEF HandlersCoherent
  <2>1. CASE d = c
    BY <1>1, <2>1 DEF ServerInv, ServerTypeOK, HandlersCoherent, HandlerCoherent, Receive
  <2>2. CASE d # c
    BY <2>2 DEF ServerInv, ServerTypeOK, HandlersCoherent, HandlerCoherent, Receive
  <2> QED
    BY <2>1, <2>2
<1> QED
  BY <1>2, <1>3 DEF ServerInv

LEMMA DropKeeps ==
    ASSUME ServerInv, NEW S \in SUBSET Client, Drop(S), TablesTypeOK'
    PROVE  ServerInv'
<1>1. ServerTypeOK'
  BY DEF ServerInv, ServerTypeOK, Drop, Stage
<1>2. HandlersCoherent'
  <2> SUFFICES ASSUME NEW d \in Client PROVE HandlerCoherent(d)'
    BY DEF HandlersCoherent
  <2>1. CASE d \in S
    BY <2>1 DEF HandlerCoherent, Drop
  <2>2. CASE d \notin S
    BY <2>2 DEF ServerInv, HandlersCoherent, HandlerCoherent, Drop
  <2> QED
    BY <2>1, <2>2
<1> QED
  BY <1>1, <1>2 DEF ServerInv

(* A server that stops drops some set of handlers and connections.         *)
LEMMA StopDrops ==
    ASSUME Stop
    PROVE  \E S \in SUBSET Client : Drop(S)
<1>1. PICK lost \in SUBSET {c \in Client : stage[c] = "replied"} :
         Drop({c \in Client : stage[c] \in {"received", "authorized"}} \cup lost)
  BY DEF Stop
<1>2. {c \in Client : stage[c] \in {"received", "authorized"}} \cup lost \in SUBSET Client
  OBVIOUS
<1> QED
  BY <1>1, <1>2

-----------------------------------------------------------------------------
(* Every step of a handler keeps the invariant.                            *)

(* Facts that the actions share about a handler about to use the database. *)
LEMMA HandlingFacts ==
    ASSUME ServerInv, NEW c \in Client, NEW ops \in SUBSET Op, Handling(c, ops)
    PROVE  /\ request[c] \in Request
           /\ WellFormed(request[c])
           /\ ProjectOf(c) \in Project
<1>1. request[c] \in Request
  BY DEF Handling, ServerInv, ServerTypeOK, HandlersCoherent, HandlerCoherent
<1> QED
  BY <1>1, WellFormedFields DEF Handling, ProjectOf

LEMMA AuthorizedFacts ==
    ASSUME ServerInv, NEW c \in Client, stage[c] = "authorized"
    PROVE  /\ request[c] \in Request
           /\ WellFormed(request[c])
           /\ request[c].token = AuthToken
           /\ request[c].op \notin Unauthenticated
           /\ expected[c] = Sha256(request[c].auth)
           /\ ProjectOf(c) \in Project
<1>1. /\ request[c] \in Request
      /\ WellFormed(request[c])
      /\ request[c].token = AuthToken
      /\ request[c].op \notin Unauthenticated
      /\ expected[c] = Sha256(request[c].auth)
  BY DEF ServerInv, ServerTypeOK, HandlersCoherent, HandlerCoherent
<1> QED
  BY <1>1, WellFormedFields DEF ProjectOf

(* A success without a body.                                               *)
LEMMA WriteKeeps ==
    ASSUME ServerInv, NEW c \in Client, NEW status \in {"CREATED", "NO_CONTENT"} \cup Refusal,
           stage[c] # "idle",
           request[c].op \in {"create_project", "reset_project_password",
                              "set_secret", "delete_secret"},
           Answer(c, status, None), TablesTypeOK'
    PROVE  ServerInv'
<1>1. status \in Success \cup Refusal
  BY DEF Success
<1>2. None \in BodyOf(request[c].op)
  BY DEF BodyOf
<1> QED
  BY <1>1, <1>2, AnswerKeeps

LEMMA AuthorizeKeeps ==
    ASSUME ServerInv, NEW c \in Client, Authorize(c)
    PROVE  ServerInv'
<1>1. /\ request[c] \in Request
      /\ WellFormed(request[c])
      /\ ProjectOf(c) \in Project
  BY HandlingFacts DEF Authorize
<1>2. CASE Answer(c, "NOT_FOUND", None)
  BY <1>2, RefusalKeeps DEF Authorize, Handling, Refusal
<1>3. CASE Answer(c, "FORBIDDEN", None)
  BY <1>3, RefusalKeeps DEF Authorize, Handling, Refusal
<1>4. CASE /\ PasswordMatches(ProjectOf(c), Sha256(request[c].auth))
           /\ stage' = [stage EXCEPT ![c] = "authorized"]
           /\ expected' = [expected EXCEPT ![c] = ProjectAuthHash(ProjectOf(c))]
           /\ UNCHANGED <<request, reply>>
  <2>1. projects[ProjectOf(c)] \in Row
    BY <1>1, <1>4 DEF PasswordMatches, HasProject, ServerInv, ServerTypeOK, TablesTypeOK
  <2>2. projects[ProjectOf(c)].auth_hash \in AuthHash
    BY <2>1, RowFields
  <2>3. UNCHANGED tables
    BY DEF Authorize
  <2>4. ServerTypeOK'
    BY <1>4, <2>2, <2>3 DEF ServerInv, ServerTypeOK, TablesTypeOK, Stage, tables, ProjectAuthHash
  <2>5. HandlersCoherent'
    <3> SUFFICES ASSUME NEW d \in Client PROVE HandlerCoherent(d)'
      BY DEF HandlersCoherent
    <3>1. CASE d = c
      BY <1>1, <1>4, <3>1, RequestFields
         DEF ServerInv, ServerTypeOK, HandlersCoherent, HandlerCoherent, Authorize,
             Handling, PasswordMatches
    <3>2. CASE d # c
      BY <1>4, <3>2 DEF ServerInv, ServerTypeOK, HandlersCoherent, HandlerCoherent
    <3> QED
      BY <3>1, <3>2
  <2> QED
    BY <2>4, <2>5 DEF ServerInv
<1> QED
  BY <1>2, <1>3, <1>4 DEF Authorize

(* Handlers that read answer with a row's column, a secret, or a listing.  *)
LEMMA ReadKeeps ==
    ASSUME ServerInv, NEW c \in Client,
           GetProjectKdf(c) \/ GetProjectMeta(c) \/ GetSecret(c) \/ ListSecrets(c)
    PROVE  ServerInv'
<1>1. /\ stage[c] # "idle"
      /\ request[c] \in Request
      /\ WellFormed(request[c])
      /\ ProjectOf(c) \in Project
  BY HandlingFacts, AuthorizedFacts
     DEF GetProjectKdf, GetProjectMeta, GetSecret, ListSecrets, Authorized, Handling, Op,
         Unauthenticated
<1>2. UNCHANGED tables
  BY DEF GetProjectKdf, GetProjectMeta, GetSecret, ListSecrets
<1>3. TablesTypeOK /\ TablesTypeOK'
  BY <1>2 DEF ServerInv, ServerTypeOK, TablesTypeOK, tables
<1>4. "OK" \in Success /\ "NOT_FOUND" \in Refusal
  BY DEF Success, Refusal
<1>5. CASE GetProjectKdf(c)
  <2>1. CASE HasProject(ProjectOf(c))
    <3>1. projects[ProjectOf(c)] \in Row
      BY <1>1, <1>3, <2>1 DEF HasProject, TablesTypeOK
    <3> DEFINE body == [salt |-> ProjectKdf(ProjectOf(c))]
    <3>2. body \in ProjectKdfBody
      BY <3>1, RowFields DEF ProjectKdf, ProjectKdfBody
    <3>3. body \in Body /\ body \in BodyOf(request[c].op)
      BY <1>5, <3>2 DEF Body, BodyOf, GetProjectKdf, Handling
    <3>4. Answer(c, "OK", body)
      BY <1>5, <2>1 DEF GetProjectKdf
    <3> HIDE DEF body
    <3> QED
      BY <1>1, <1>3, <1>4, <3>3, <3>4, AnswerKeeps
  <2>2. CASE ~HasProject(ProjectOf(c))
    BY <1>1, <1>2, <1>4, <1>5, <2>2, RefusalKeeps DEF GetProjectKdf
  <2> QED
    BY <2>1, <2>2
<1>6. CASE GetProjectMeta(c)
  <2>1. CASE HasProject(ProjectOf(c))
    <3>1. projects[ProjectOf(c)] \in Row
      BY <1>1, <1>3, <2>1 DEF HasProject, TablesTypeOK
    <3> DEFINE body == [wrapped_dek |-> ProjectMeta(ProjectOf(c))]
    <3>2. body \in ProjectMetaBody
      BY <3>1, RowFields DEF ProjectMeta, ProjectMetaBody
    <3>3. body \in Body /\ body \in BodyOf(request[c].op)
      BY <1>6, <3>2 DEF Body, BodyOf, GetProjectMeta, Authorized
    <3>4. Answer(c, "OK", body)
      BY <1>6, <2>1 DEF GetProjectMeta
    <3> HIDE DEF body
    <3> QED
      BY <1>1, <1>3, <1>4, <3>3, <3>4, AnswerKeeps
  <2>2. CASE ~HasProject(ProjectOf(c))
    BY <1>1, <1>2, <1>4, <1>6, <2>2, RefusalKeeps DEF GetProjectMeta
  <2> QED
    BY <2>1, <2>2
<1>7. CASE GetSecret(c)
  <2>1. CASE SelectSecret(PlaceOf(request[c])) # None
    <3>1. PlaceOf(request[c]) \in Place
      BY <1>1, <1>7, WellFormedFields DEF GetSecret, Authorized, Named
    <3>2. SelectSecret(PlaceOf(request[c])) \in SecretBlob
      BY <1>3, <2>1, <3>1 DEF SelectSecret, TablesTypeOK
    <3> DEFINE body == [value |-> SelectSecret(PlaceOf(request[c]))]
    <3>3. body \in Body /\ body \in BodyOf(request[c].op)
      BY <1>7, <3>2 DEF Body, BodyOf, SecretValueBody, GetSecret, Authorized
    <3>4. Answer(c, "OK", body)
      BY <1>7, <2>1 DEF GetSecret
    <3> HIDE DEF body
    <3> QED
      BY <1>1, <1>3, <1>4, <3>3, <3>4, AnswerKeeps
  <2>2. CASE SelectSecret(PlaceOf(request[c])) = None
    BY <1>1, <1>2, <1>4, <1>7, <2>2, RefusalKeeps DEF GetSecret
  <2> QED
    BY <2>1, <2>2
<1>8. CASE ListSecrets(c)
  <2> DEFINE p == ProjectOf(c)
             e == request[c].env
             names == {m \in Name : secrets[<<p, e, m>>] # None}
             body == [entries |-> SelectSecrets(p, e)]
  <2>1. e \in Env
    BY <1>1, <1>8, WellFormedFields DEF ListSecrets, Authorized
  <2>2. \A m \in names : secrets[<<p, e, m>>] \in SecretBlob
    BY <1>1, <1>3, <2>1 DEF TablesTypeOK, Place
  <2>3. SelectSecrets(p, e) \in [names -> SecretBlob]
    BY <2>2 DEF SelectSecrets
  <2>4. SelectSecrets(p, e) \in UNION {[ns -> SecretBlob] : ns \in SUBSET Name}
    <3>1. names \in SUBSET Name
      OBVIOUS
    <3> QED
      BY <2>3, <3>1
  <2>5. body \in ListingBody
    BY <2>4 DEF ListingBody
  <2>6. body \in Body /\ body \in BodyOf(request[c].op)
    BY <1>8, <2>5 DEF Body, BodyOf, ListSecrets, Authorized
  <2>7. Answer(c, "OK", body)
    BY <1>8 DEF ListSecrets
  <2> HIDE DEF body
  <2> QED
    BY <1>1, <1>3, <1>4, <2>6, <2>7, AnswerKeeps
<1> QED
  BY <1>5, <1>6, <1>7, <1>8

(* Handlers that write store a body of the right type, or nothing.         *)
LEMMA WritersKeep ==
    ASSUME ServerInv, NEW c \in Client,
           \/ CreateProject(c) \/ ResetProjectPassword(c)
           \/ SetSecret(c) \/ DeleteSecret(c)
    PROVE  ServerInv'
<1>1. /\ stage[c] # "idle"
      /\ request[c] \in Request
      /\ WellFormed(request[c])
      /\ ProjectOf(c) \in Project
  BY HandlingFacts, AuthorizedFacts
     DEF CreateProject, ResetProjectPassword, SetSecret, DeleteSecret, Authorized, Handling,
         Op, Unauthenticated
<1>2. TablesTypeOK
  BY DEF ServerInv, ServerTypeOK
<1>3. CASE CreateProject(c)
  <2>1. PICK inserted \in BOOLEAN :
           /\ InsertProject(ProjectOf(c), request[c].body, inserted)
           /\ Answer(c, IF inserted THEN "CREATED" ELSE "CONFLICT", None)
    BY <1>3 DEF CreateProject
  <2>2. request[c].op = "create_project" /\ request[c].body \in Row
    BY <1>1, <1>3, WellFormedFields DEF CreateProject, Handling, Enveloped
  <2>3. TablesTypeOK'
    BY <1>1, <1>2, <2>1, <2>2 DEF TablesTypeOK, InsertProject
  <2> QED
    BY <1>1, <2>1, <2>2, <2>3, WriteKeeps DEF Refusal
<1>4. CASE ResetProjectPassword(c)
  <2>1. PICK updated \in BOOLEAN :
           /\ ResetPassword(ProjectOf(c), expected[c], request[c].body, updated)
           /\ Answer(c, IF updated THEN "NO_CONTENT" ELSE "FORBIDDEN", None)
    BY <1>4 DEF ResetProjectPassword
  <2>2. request[c].op = "reset_project_password" /\ request[c].body \in Row
    BY <1>1, <1>4, WellFormedFields DEF ResetProjectPassword, Authorized, Enveloped
  <2>3. TablesTypeOK'
    BY <1>1, <1>2, <2>1, <2>2 DEF TablesTypeOK, ResetPassword
  <2> QED
    BY <1>1, <2>1, <2>2, <2>3, WriteKeeps DEF Refusal
<1>5. CASE SetSecret(c)
  <2>1. PICK written \in BOOLEAN :
           /\ SetSecretIfPasswordMatches(PlaceOf(request[c]), request[c].body,
                                         expected[c], written)
           /\ Answer(c, IF written THEN "NO_CONTENT" ELSE "CONFLICT", None)
    BY <1>5 DEF SetSecret
  <2>2. request[c].op = "set_secret" /\ request[c].body \in SecretBlob
    BY <1>1, <1>5, WellFormedFields DEF SetSecret, Authorized
  <2>3. TablesTypeOK'
    BY <1>1, <1>2, <2>1, <2>2 DEF TablesTypeOK, SetSecretIfPasswordMatches
  <2> QED
    BY <1>1, <2>1, <2>2, <2>3, WriteKeeps DEF Refusal
<1>6. CASE DeleteSecret(c)
  <2>1. PICK deleted \in BOOLEAN :
           /\ DeleteSecretIfPasswordMatches(PlaceOf(request[c]), expected[c], deleted)
           /\ Answer(c, IF deleted THEN "NO_CONTENT" ELSE "NOT_FOUND", None)
    BY <1>6 DEF DeleteSecret
  <2>2. request[c].op = "delete_secret"
    BY <1>6 DEF DeleteSecret, Authorized
  <2>3. TablesTypeOK'
    BY <1>1, <1>2, <2>1 DEF TablesTypeOK, DeleteSecretIfPasswordMatches
  <2> QED
    BY <1>1, <2>1, <2>2, <2>3, WriteKeeps DEF Refusal
<1> QED
  BY <1>3, <1>4, <1>5, <1>6

LEMMA ServeKeeps ==
    ASSUME ServerInv, NEW c \in Client, Serve(c)
    PROVE  ServerInv'
<1>1. CASE Unauthorized(c)
  BY <1>1, RefusalKeeps DEF Unauthorized, Refusal
<1>2. CASE RejectInvalid(c)
  BY <1>2, RefusalKeeps DEF RejectInvalid, Refusal
<1>3. CASE Authorize(c)
  BY <1>3, AuthorizeKeeps
<1> QED
  BY <1>1, <1>2, <1>3, ReadKeeps, WritersKeep DEF Serve

(* Faults keep it too.                                                     *)
LEMMA FaultKeeps ==
    ASSUME ServerInv, \/ Restart
                      \/ \E c \in Client : DatabaseError(c) \/ Disconnect(c)
    PROVE  ServerInv'
<1>1. TablesTypeOK'
  BY DEF ServerInv, ServerTypeOK, TablesTypeOK, Restart, DatabaseError, Disconnect, tables
<1>2. CASE Restart
  <2>1. PICK S \in SUBSET Client : Drop(S)
    BY <1>2, StopDrops DEF Restart
  <2> QED
    BY <1>1, <2>1, DropKeeps
<1>3. ASSUME NEW c \in Client, DatabaseError(c) PROVE ServerInv'
  BY <1>3, RefusalKeeps DEF DatabaseError, Handling, Refusal
<1>4. ASSUME NEW c \in Client, Disconnect(c) PROVE ServerInv'
  <2>1. {c} \in SUBSET Client /\ Drop({c})
    BY <1>4 DEF Disconnect
  <2> QED
    BY <1>1, <2>1, DropKeeps
<1> QED
  BY <1>2, <1>3, <1>4

-----------------------------------------------------------------------------

LEMMA ServerInvInit == ServerInit => ServerInv
<1> SUFFICES ASSUME ServerInit PROVE ServerInv
  OBVIOUS
<1>1. ServerTypeOK
  BY DEF ServerInit, EmptyTables, ServerTypeOK, TablesTypeOK, Stage
<1>2. HandlersCoherent
  BY DEF ServerInit, HandlersCoherent, HandlerCoherent
<1> QED
  BY <1>1, <1>2 DEF ServerInv

(* The handlers never leave their types, and stay coherent: the hash that a
   handler gates its write on is the digest of its own request's header,
   whatever the other handlers do between its two database calls.          *)
THEOREM ServerInvariant == ServerSpec => []ServerInv
<1>1. ServerInit => ServerInv
  BY ServerInvInit
<1>2. ServerInv /\ [ServerNext]_serverVars => ServerInv'
  <2> SUFFICES ASSUME ServerInv, [ServerNext]_serverVars PROVE ServerInv'
    OBVIOUS
  <2>1. ASSUME NEW c \in Client, NEW r \in Requests, Receive(c, r) PROVE ServerInv'
    BY <2>1, ReceiveKeeps, RequestsAssumption
  <2>2. ASSUME NEW c \in Client, Serve(c) PROVE ServerInv'
    BY <2>2, ServeKeeps
  <2>3. CASE \/ Restart
             \/ \E c \in Client : DatabaseError(c) \/ Disconnect(c)
    BY <2>3, FaultKeeps
  <2>4. CASE UNCHANGED serverVars
    BY <2>4 DEF serverVars, ServerInv, ServerTypeOK, TablesTypeOK, HandlersCoherent,
                HandlerCoherent
  <2> QED
    BY <2>1, <2>2, <2>3, <2>4 DEF ServerNext
<1> QED
  BY <1>1, <1>2, PTL DEF ServerSpec

-----------------------------------------------------------------------------
(* The server implements SecretService.                                    *)

AtWork == {"received", "authorized"}

(* The instance of SecretService speaks of the same requests, places and
   digests: the definitions of Wire and Envelope, over the same constants. *)
LEMMA SameVocabulary ==
    /\ \A r : /\ Service!WellFormed(r) = WellFormed(r)
              /\ Service!CanonicalProject(r) = CanonicalProject(r)
              /\ Service!PlaceOf(r) = PlaceOf(r)
    /\ \A a : Service!Sha256(a) = Sha256(a)
    /\ Service!Unauthenticated = Unauthenticated
    /\ Service!Refusal = Refusal
    /\ Service!Place = Place
<1>1. /\ Service!Row = Row
      /\ Service!SecretBlob = SecretBlob
  <2>1. /\ Service!Place = Place
        /\ Service!EncKey = EncKey
        /\ Service!AuthHash = AuthHash
        /\ \A p : Service!WrapAad(p) = WrapAad(p)
        /\ \A x : Service!SecretAad(x) = SecretAad(x)
    BY DEF Service!Place, Place, Service!EncKey, EncKey, Service!AuthHash, AuthHash,
           Service!AuthSecret, AuthSecret, Service!WrapAad, WrapAad,
           Service!SecretAad, SecretAad
  <2>2. Service!WrappedDek = WrappedDek
    BY <2>1 DEF Service!WrappedDek, WrappedDek
  <2> QED
    BY <2>1, <2>2 DEF Service!Row, Row, Service!SecretBlob, SecretBlob
<1>2. \A r : /\ Service!CanonicalProject(r) = CanonicalProject(r)
             /\ Service!PlaceOf(r) = PlaceOf(r)
  BY DEF Service!CanonicalProject, CanonicalProject, Service!PlaceOf, PlaceOf
<1>3. \A r : Service!WellFormed(r) = WellFormed(r)
  BY <1>1, <1>2 DEF Service!WellFormed, WellFormed, Service!ValidPath, ValidPath,
                    Service!ValidBody, ValidBody, Service!InEnv, InEnv, Service!Named,
     Named, Service!Enveloped, Enveloped
<1> QED
  BY <1>2, <1>3 DEF Service!Sha256, Sha256, Service!Unauthenticated, Unauthenticated,
     Service!Refusal, Refusal, Service!Place, Place

(* The state of the abstract service after a response.                     *)
LEMMA RepliedMaps ==
    ASSUME ServerInv, NEW c \in Client, stage' = [stage EXCEPT ![c] = "replied"]
    PROVE  /\ PhaseOf' = [PhaseOf EXCEPT ![c] = "answered"]
           /\ {d \in Client : stage'[d] = "authorized"}
                = {d \in Client : stage[d] = "authorized"} \ {c}
  BY DEF PhaseOf, ServerInv, ServerTypeOK

(* A handler at work is a pending request; past authorize_project it has
   proved the password, and it is admissible.                              *)
LEMMA AtWorkPending ==
    ASSUME NEW c \in Client, stage[c] \in AtWork
    PROVE  PhaseOf[c] = "pending"
  BY DEF PhaseOf, AtWork

LEMMA AuthorizedAdmissible ==
    ASSUME ServerInv, NEW c \in Client, stage[c] = "authorized"
    PROVE  /\ Service!Admissible(c)
           /\ c \in {d \in Client : stage[d] = "authorized"}
           /\ PhaseOf[c] = "pending"
  BY AuthorizedFacts, AtWorkPending, SameVocabulary DEF Service!Admissible, AtWork

LEMMA HandlingAdmissible ==
    ASSUME NEW c \in Client, NEW ops, Handling(c, ops)
    PROVE  Service!Admissible(c) /\ PhaseOf[c] = "pending" /\ request[c].op \in ops
  BY AtWorkPending, SameVocabulary DEF Handling, Service!Admissible, AtWork

(* The gate of a write passes exactly when the request carries the current
   password, because the hash it compares is the digest of the header.     *)
LEMMA GateIsKnows ==
    ASSUME ServerInv, NEW c \in Client, stage[c] = "authorized"
    PROVE  PasswordMatches(ProjectOf(c), expected[c]) <=> Service!Knows(c)
  BY AuthorizedFacts, SameVocabulary
     DEF PasswordMatches, HasProject, ProjectAuthHash, ProjectOf, Service!Knows, Service!Target

LEMMA RefusalRefines ==
    ASSUME ServerInv, NEW c \in Client, NEW status \in Refusal,
           PhaseOf[c] = "pending", Service!Justified(c, status),
           Answer(c, status, None), UNCHANGED tables
    PROVE  Service!Refuse(c)
  BY RepliedMaps, SameVocabulary DEF Answer, Service!Refuse, Service!Respond, tables

LEMMA AuthorizeRefines ==
    ASSUME ServerInv, NEW c \in Client, Authorize(c)
    PROVE  Service!Prove(c) \/ Service!Refuse(c)
<1>1. /\ Service!Admissible(c)
      /\ PhaseOf[c] = "pending"
      /\ request[c].op \notin Unauthenticated
  BY HandlingAdmissible DEF Authorize
<1>2. CASE ~HasProject(ProjectOf(c)) /\ Answer(c, "NOT_FOUND", None)
  <2>1. Service!Justified(c, "NOT_FOUND")
    BY <1>1, <1>2, SameVocabulary DEF Service!Justified, Service!Admissible, Service!Target, HasProject,
       ProjectOf, Unauthenticated
  <2> QED
    BY <1>1, <1>2, <2>1, RefusalRefines DEF Authorize, Refusal
<1>3. CASE /\ HasProject(ProjectOf(c))
           /\ ProjectAuthHash(ProjectOf(c)) # Sha256(request[c].auth)
           /\ Answer(c, "FORBIDDEN", None)
  <2>1. Service!Justified(c, "FORBIDDEN")
    BY <1>1, <1>3, SameVocabulary DEF Service!Justified, Service!Admissible, Service!Target, Service!Knows,
       HasProject, ProjectAuthHash, ProjectOf
  <2> QED
    BY <1>1, <1>3, <2>1, RefusalRefines DEF Authorize, Refusal
<1>4. CASE /\ PasswordMatches(ProjectOf(c), Sha256(request[c].auth))
           /\ stage' = [stage EXCEPT ![c] = "authorized"]
           /\ UNCHANGED <<request, reply>>
  <2>1. Service!Knows(c)
    BY <1>4, SameVocabulary DEF PasswordMatches, HasProject, ProjectAuthHash, ProjectOf, Service!Knows,
       Service!Target
  <2>2. stage[c] = "received"
    BY DEF Authorize, Handling
  <2>3. UNCHANGED PhaseOf
    BY <1>4, <2>2 DEF PhaseOf, ServerInv, ServerTypeOK
  <2>4. {d \in Client : stage'[d] = "authorized"}
          = {d \in Client : stage[d] = "authorized"} \cup {c}
    BY <1>4 DEF ServerInv, ServerTypeOK
  <2>5. UNCHANGED <<projects, secrets>>
    BY DEF Authorize, tables
  <2> QED
    BY <1>1, <1>4, <2>1, <2>3, <2>4, <2>5, SameVocabulary DEF Service!Prove
<1> QED
  BY <1>2, <1>3, <1>4 DEF Authorize

LEMMA ReadRefines ==
    ASSUME ServerInv, NEW c \in Client,
           GetProjectKdf(c) \/ GetProjectMeta(c) \/ GetSecret(c) \/ ListSecrets(c)
    PROVE  Service!Read(c) \/ Service!Refuse(c)
<1>1. UNCHANGED tables /\ UNCHANGED <<projects, secrets>>
  BY DEF GetProjectKdf, GetProjectMeta, GetSecret, ListSecrets, tables
<1>2. "NOT_FOUND" \in Refusal
  BY DEF Refusal
<1>3. CASE GetProjectKdf(c)
  <2>1. /\ Service!Admissible(c)
        /\ PhaseOf[c] = "pending"
        /\ request[c].op = "get_project_kdf"
    BY <1>3, HandlingAdmissible DEF GetProjectKdf
  <2>2. CASE HasProject(ProjectOf(c))
    <3>1. Service!Respond(c, "OK", [salt |-> projects[Service!Target(c)].salt])
      BY <1>3, <2>2, RepliedMaps, SameVocabulary DEF Answer, Service!Respond, GetProjectKdf, ProjectKdf, ProjectOf, Service!Target
    <3> QED
      BY <1>1, <2>1, <2>2, <3>1, SameVocabulary DEF Service!Read, HasProject, ProjectOf, Service!Target
  <2>3. CASE ~HasProject(ProjectOf(c))
    <3>1. Service!Justified(c, "NOT_FOUND")
      BY <2>1, <2>3, SameVocabulary DEF Service!Justified, Service!Admissible, Service!Target, HasProject,
         ProjectOf
    <3> QED
      BY <1>1, <1>2, <1>3, <2>1, <2>3, <3>1, RefusalRefines DEF GetProjectKdf
  <2> QED
    BY <2>2, <2>3
<1>4. CASE GetProjectMeta(c)
  <2>1. /\ Service!Admissible(c)
        /\ PhaseOf[c] = "pending"
        /\ c \in {d \in Client : stage[d] = "authorized"}
        /\ request[c].op = "get_project_meta"
    BY <1>4, AuthorizedAdmissible DEF GetProjectMeta, Authorized
  <2>2. CASE HasProject(ProjectOf(c))
    <3>1. Service!Respond(c, "OK", [wrapped_dek |-> projects[Service!Target(c)].wrapped_dek])
      BY <1>4, <2>2, RepliedMaps, SameVocabulary DEF Answer, Service!Respond, GetProjectMeta, ProjectMeta, ProjectOf, Service!Target
    <3> QED
      BY <1>1, <2>1, <2>2, <3>1, SameVocabulary DEF Service!Read, HasProject, ProjectOf, Service!Target
  <2>3. CASE ~HasProject(ProjectOf(c))
    <3>1. Service!Justified(c, "NOT_FOUND")
      BY <2>1, <2>3, SameVocabulary DEF Service!Justified, Service!Admissible, Service!Target, HasProject,
         ProjectOf
    <3> QED
      BY <1>1, <1>2, <1>4, <2>1, <2>3, <3>1, RefusalRefines DEF GetProjectMeta
  <2> QED
    BY <2>2, <2>3
<1>5. CASE GetSecret(c)
  <2>1. /\ Service!Admissible(c)
        /\ PhaseOf[c] = "pending"
        /\ c \in {d \in Client : stage[d] = "authorized"}
        /\ request[c].op = "get_secret"
    BY <1>5, AuthorizedAdmissible DEF GetSecret, Authorized
  <2>2. CASE SelectSecret(PlaceOf(request[c])) # None
    <3>1. Service!Respond(c, "OK", [value |-> secrets[Service!PlaceOf(request[c])]])
      BY <1>5, <2>2, RepliedMaps, SameVocabulary DEF Answer, Service!Respond, GetSecret, SelectSecret
    <3> QED
      BY <1>1, <2>1, <2>2, <3>1, SameVocabulary DEF Service!Read, SelectSecret
  <2>3. CASE SelectSecret(PlaceOf(request[c])) = None
    <3>1. Service!Justified(c, "NOT_FOUND")
      BY <2>1, <2>3, SameVocabulary DEF Service!Justified, Service!Admissible, SelectSecret
    <3> QED
      BY <1>1, <1>2, <1>5, <2>1, <2>3, <3>1, RefusalRefines DEF GetSecret
  <2> QED
    BY <2>2, <2>3
<1>6. CASE ListSecrets(c)
  <2>1. /\ Service!Admissible(c)
        /\ c \in {d \in Client : stage[d] = "authorized"}
        /\ request[c].op = "list_secrets"
    BY <1>6, AuthorizedAdmissible DEF ListSecrets, Authorized
  <2>2. Service!Respond(c, "OK",
            [entries |-> [n \in Service!Stored(Service!Target(c), request[c].env) |->
                             secrets[<<Service!Target(c), request[c].env, n>>]]])
    BY <1>6, RepliedMaps, SameVocabulary
       DEF Answer, Service!Respond, ListSecrets, SelectSecrets, Service!Stored,
           Service!Target, ProjectOf
  <2> QED
    BY <1>1, <2>1, <2>2, SameVocabulary DEF Service!Read
<1> QED
  BY <1>3, <1>4, <1>5, <1>6

LEMMA WriteRefines ==
    ASSUME ServerInv, NEW c \in Client,
           \/ CreateProject(c) \/ ResetProjectPassword(c)
           \/ SetSecret(c) \/ DeleteSecret(c)
    PROVE  Service!Commit(c) \/ Service!Refuse(c)
<1>1. {"CONFLICT", "FORBIDDEN", "NOT_FOUND"} \subseteq Refusal
  BY DEF Refusal
<1>2. ProjectOf(c) = Service!Target(c)
  BY SameVocabulary DEF ProjectOf, Service!Target
<1>3. CASE CreateProject(c)
  <2>1. PICK inserted \in BOOLEAN :
           /\ InsertProject(ProjectOf(c), request[c].body, inserted)
           /\ Answer(c, IF inserted THEN "CREATED" ELSE "CONFLICT", None)
    BY <1>3 DEF CreateProject
  <2>2. /\ Service!Admissible(c)
        /\ PhaseOf[c] = "pending"
        /\ request[c].op = "create_project"
    BY <1>3, HandlingAdmissible DEF CreateProject
  <2>3. CASE inserted
    BY <1>2, <2>1, <2>2, <2>3, RepliedMaps
       DEF Service!Commit, Service!Respond, Answer, InsertProject, HasProject
  <2>4. CASE ~inserted
    <3>1. Service!Justified(c, "CONFLICT")
      BY <1>2, <2>1, <2>2, <2>4
         DEF Service!Justified, Service!Admissible, InsertProject, HasProject
    <3> QED
      BY <1>1, <2>1, <2>2, <2>4, <3>1, RefusalRefines DEF InsertProject, tables
  <2> QED
    BY <2>3, <2>4
<1>4. CASE ResetProjectPassword(c)
  <2>1. PICK updated \in BOOLEAN :
           /\ ResetPassword(ProjectOf(c), expected[c], request[c].body, updated)
           /\ Answer(c, IF updated THEN "NO_CONTENT" ELSE "FORBIDDEN", None)
    BY <1>4 DEF ResetProjectPassword
  <2>2. /\ Service!Admissible(c)
        /\ PhaseOf[c] = "pending"
        /\ c \in {d \in Client : stage[d] = "authorized"}
        /\ request[c].op = "reset_project_password"
        /\ updated <=> Service!Knows(c)
    BY <1>4, <2>1, AuthorizedAdmissible, GateIsKnows
       DEF ResetProjectPassword, Authorized, ResetPassword
  <2>3. CASE updated
    BY <1>2, <2>1, <2>2, <2>3, RepliedMaps
       DEF Service!Commit, Service!Respond, Answer, ResetPassword
  <2>4. CASE ~updated
    <3>1. UNCHANGED tables /\ Answer(c, "FORBIDDEN", None)
      BY <2>1, <2>4 DEF ResetPassword, tables
    <3>2. Service!Justified(c, "FORBIDDEN")
      BY <2>2, <2>4, SameVocabulary
         DEF Service!Justified, Service!Admissible, Unauthenticated
    <3> QED
      BY <1>1, <2>2, <3>1, <3>2, RefusalRefines
  <2> QED
    BY <2>3, <2>4
<1>5. CASE SetSecret(c)
  <2>1. PICK written \in BOOLEAN :
           /\ SetSecretIfPasswordMatches(PlaceOf(request[c]), request[c].body,
                                         expected[c], written)
           /\ Answer(c, IF written THEN "NO_CONTENT" ELSE "CONFLICT", None)
    BY <1>5 DEF SetSecret
  <2>2. /\ Service!Admissible(c)
        /\ PhaseOf[c] = "pending"
        /\ c \in {d \in Client : stage[d] = "authorized"}
        /\ request[c].op = "set_secret"
        /\ PlaceOf(request[c])[1] = ProjectOf(c)
        /\ written <=> Service!Knows(c)
    BY <1>5, <2>1, AuthorizedAdmissible, GateIsKnows
       DEF SetSecret, Authorized, SetSecretIfPasswordMatches, PlaceOf, ProjectOf
  <2>3. CASE written
    BY <2>1, <2>2, <2>3, RepliedMaps, SameVocabulary
       DEF Service!Commit, Service!Respond, Answer, SetSecretIfPasswordMatches
  <2>4. CASE ~written
    <3>1. Service!Justified(c, "CONFLICT")
      BY <2>2, <2>4 DEF Service!Justified, Service!Admissible
    <3> QED
      BY <1>1, <2>1, <2>2, <2>4, <3>1, RefusalRefines DEF SetSecretIfPasswordMatches, tables
  <2> QED
    BY <2>3, <2>4
<1>6. CASE DeleteSecret(c)
  <2>1. PICK deleted \in BOOLEAN :
           /\ DeleteSecretIfPasswordMatches(PlaceOf(request[c]), expected[c], deleted)
           /\ Answer(c, IF deleted THEN "NO_CONTENT" ELSE "NOT_FOUND", None)
    BY <1>6 DEF DeleteSecret
  <2>2. /\ Service!Admissible(c)
        /\ PhaseOf[c] = "pending"
        /\ c \in {d \in Client : stage[d] = "authorized"}
        /\ request[c].op = "delete_secret"
        /\ deleted <=> secrets[PlaceOf(request[c])] # None /\ Service!Knows(c)
    BY <1>6, <2>1, AuthorizedAdmissible, GateIsKnows
       DEF DeleteSecret, Authorized, DeleteSecretIfPasswordMatches, PlaceOf, ProjectOf
  <2>3. CASE deleted
    BY <2>1, <2>2, <2>3, RepliedMaps, SameVocabulary
       DEF Service!Commit, Service!Respond, Answer, DeleteSecretIfPasswordMatches
  <2>4. CASE ~deleted
    <3>1. Service!Justified(c, "NOT_FOUND")
      BY <2>2, <2>4, SameVocabulary DEF Service!Justified, Service!Admissible
    <3> QED
      BY <1>1, <2>1, <2>2, <2>4, <3>1, RefusalRefines
         DEF DeleteSecretIfPasswordMatches, tables
  <2> QED
    BY <2>3, <2>4
<1> QED
  BY <1>3, <1>4, <1>5, <1>6

LEMMA ServeRefines ==
    ASSUME ServerInv, NEW c \in Client, Serve(c)
    PROVE  Service!Next
<1>1. CASE Unauthorized(c)
  <2>1. PhaseOf[c] = "pending" /\ Service!Justified(c, "UNAUTHORIZED")
    BY <1>1, AtWorkPending DEF Unauthorized, AtWork, Service!Justified
  <2>2. Service!Refuse(c)
    BY <1>1, <2>1, RefusalRefines DEF Unauthorized, Refusal
  <2> QED
    BY <2>2 DEF Service!Next
<1>2. CASE RejectInvalid(c)
  <2>1. PhaseOf[c] = "pending" /\ Service!Justified(c, "BAD_REQUEST")
    BY <1>2, AtWorkPending, SameVocabulary DEF RejectInvalid, AtWork, Service!Justified
  <2>2. Service!Refuse(c)
    BY <1>2, <2>1, RefusalRefines DEF RejectInvalid, Refusal
  <2> QED
    BY <2>2 DEF Service!Next
<1>3. CASE Authorize(c)
  BY <1>3, AuthorizeRefines DEF Service!Next
<1>4. CASE \/ GetProjectKdf(c) \/ GetProjectMeta(c) \/ GetSecret(c) \/ ListSecrets(c)
  BY <1>4, ReadRefines DEF Service!Next
<1>5. CASE \/ CreateProject(c) \/ ResetProjectPassword(c) \/ SetSecret(c) \/ DeleteSecret(c)
  BY <1>5, WriteRefines DEF Service!Next
<1> QED
  BY <1>1, <1>2, <1>3, <1>4, <1>5 DEF Serve

LEMMA DropRefines ==
    ASSUME ServerInv, NEW S \in SUBSET Client, Drop(S), UNCHANGED tables
    PROVE  Service!Close(S)
<1>1. PhaseOf' = [c \in Client |-> IF c \in S THEN "idle" ELSE PhaseOf[c]]
  BY DEF Drop, PhaseOf
<1>2. {d \in Client : stage'[d] = "authorized"}
        = {d \in Client : stage[d] = "authorized"} \ S
  BY DEF Drop
<1> QED
  BY <1>1, <1>2 DEF Drop, Service!Close, tables

LEMMA ReceiveRefines ==
    ASSUME ServerInv, NEW c \in Client, NEW r, Receive(c, r)
    PROVE  Service!Invoke(c, r)
<1>1. PhaseOf[c] # "pending"
  BY DEF Receive, PhaseOf
<1>2. PhaseOf' = [PhaseOf EXCEPT ![c] = "pending"]
  BY DEF Receive, PhaseOf, ServerInv, ServerTypeOK
<1>3. {d \in Client : stage'[d] = "authorized"} = {d \in Client : stage[d] = "authorized"}
  BY DEF Receive, ServerInv, ServerTypeOK
<1> QED
  BY <1>1, <1>2, <1>3 DEF Service!Invoke, Receive

LEMMA FaultRefines ==
    ASSUME ServerInv, \/ Restart
                      \/ \E c \in Client : DatabaseError(c) \/ Disconnect(c)
    PROVE  Service!Next
<1>1. CASE Restart
  <2>1. PICK S \in SUBSET Client : Drop(S)
    BY <1>1, StopDrops DEF Restart
  <2>2. Service!Close(S)
    BY <1>1, <2>1, DropRefines DEF Restart
  <2> QED
    BY <2>1, <2>2 DEF Service!Next
<1>2. ASSUME NEW c \in Client, DatabaseError(c) PROVE Service!Next
  <2>1. Service!Admissible(c) /\ PhaseOf[c] = "pending"
    BY <1>2, HandlingAdmissible, AuthorizedAdmissible DEF DatabaseError
  <2>2. Service!Justified(c, "INTERNAL_SERVER_ERROR")
    BY <2>1 DEF Service!Justified, Service!Admissible
  <2>3. Service!Refuse(c)
    BY <1>2, <2>1, <2>2, RefusalRefines DEF DatabaseError, Refusal
  <2> QED
    BY <2>3 DEF Service!Next
<1>3. ASSUME NEW c \in Client, Disconnect(c) PROVE Service!Next
  <2>1. {c} \in SUBSET Client
    OBVIOUS
  <2>2. Service!Close({c})
    BY <1>3, <2>1, DropRefines DEF Disconnect
  <2> QED
    BY <2>1, <2>2 DEF Service!Next
<1> QED
  BY <1>1, <1>2, <1>3

(* The handlers, each of which authenticates in one database call and does
   its work in another, implement a service that does both at one instant
   and tells the truth about what it refuses: for every number of clients,
   and in every environment that sends well-typed requests.               *)
THEOREM ServerImplementsService == ServerSpec => ServiceImplemented
<1>1. ServerInit => Service!Init
  <2> SUFFICES ASSUME ServerInit PROVE Service!Init
    OBVIOUS
  <2>1. PhaseOf = [c \in Client |-> "idle"]
    BY DEF ServerInit, PhaseOf
  <2>2. {d \in Client : stage[d] = "authorized"} = {}
    BY DEF ServerInit
  <2> QED
    BY <2>1, <2>2, SameVocabulary DEF ServerInit, EmptyTables, Service!Init
<1>2. ServerInv /\ [ServerNext]_serverVars => [Service!Next]_(Service!serviceVars)
  <2> SUFFICES ASSUME ServerInv, [ServerNext]_serverVars
               PROVE  Service!Next \/ UNCHANGED Service!serviceVars
    OBVIOUS
  <2>1. ASSUME NEW c \in Client, NEW r \in Requests, Receive(c, r) PROVE Service!Next
    BY <2>1, ReceiveRefines DEF Service!Next
  <2>2. ASSUME NEW c \in Client, Serve(c) PROVE Service!Next
    BY <2>2, ServeRefines
  <2>3. CASE \/ Restart
             \/ \E c \in Client : DatabaseError(c) \/ Disconnect(c)
    BY <2>3, FaultRefines
  <2>4. CASE UNCHANGED serverVars
    BY <2>4 DEF serverVars, Service!serviceVars, PhaseOf
  <2> QED
    BY <2>1, <2>2, <2>3, <2>4 DEF ServerNext
<1>3. ServerSpec => []ServerInv
  BY ServerInvariant, PTL DEF ServerInv
<1> QED
  BY <1>1, <1>2, <1>3, PTL DEF ServerSpec, ServiceImplemented, Service!Spec
=============================================================================
