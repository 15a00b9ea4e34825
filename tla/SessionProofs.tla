---------------------------- MODULE SessionProofs ----------------------------
(***************************************************************************)
(* Proofs about Keyben that reach over several requests of one process and *)
(* over its end: what a session reads, what its outcome says, and which    *)
(* resets can both take effect.  They rest on SessionInv, which adds the   *)
(* session and the history of each process to IInv.                        *)
(***************************************************************************)
EXTENDS KeybenProofs

ClientCoherent(c) == SessionCoherent(c) /\ ReadCoherent(c) /\ HistoryCoherent(c)

(* An envelope that was published stays published, with its DEK.           *)
LEMMA PublishedStays ==
    ASSUME IInv, Stable, NEW w, Published(w)
    PROVE  /\ Published(w)'
           /\ DekOf(w)' = DekOf(w)
           /\ w \in Client
  BY DEF IInv, TypeOK, Stable, Published, DekOf

(* What a request proves and which project it is about.                    *)
LEMMA ProofOfSession ==
    ASSUME SessionInv, NEW c \in Client, request[c] # None,
           request[c].op \notin Unauthenticated
    PROVE  /\ request[c].auth.salt = salt[c]
           /\ Published(salt[c])
<1>1. /\ salt[c] # None
      /\ request[c] = Message(cmd[c], request[c].op,
                              KeysOf(cmd[c], salt[c]).auth_secret, request[c].body)
  BY DEF SessionInv, SessionCoherent
<1>2. request[c].auth = KeysOf(cmd[c], salt[c]).auth_secret
  BY <1>1 DEF Message
<1>3. KeysOf(cmd[c], salt[c]).auth_secret.salt = salt[c]
  BY DEF KeysOf, DeriveProjectKeys, HkdfSubkey
<1> QED
  BY <1>1, <1>2, <1>3 DEF SessionInv, SessionCoherent

-----------------------------------------------------------------------------
(* Whom a step does not concern.                                           *)

(* The handler of d is where it was, or its connection is gone.            *)
Rests(d) ==
    \/ stage'[d] = stage[d] /\ request'[d] = request[d] /\ reply'[d] = reply[d]
    \/ stage'[d] = "idle" /\ request'[d] = None

RowKept(d) ==
    stage[d] = "authorized" /\ stage'[d] = "authorized" =>
        /\ HasProject(ProjectOf(d))'
        /\ ProjectMeta(ProjectOf(d))'.msg = ProjectMeta(ProjectOf(d)).msg

LEMMA KeepSession ==
    ASSUME SessionInv, Stable, NEW d \in Client, Rests(d),
           cmd'[d] = cmd[d], salt'[d] = salt[d],
           pc'[d] = "done" \/ (pc'[d] = pc[d] /\ dek'[d] = dek[d])
    PROVE  SessionCoherent(d)'
<1>1. salt[d] # None => Published(salt[d])' /\ DekOf(salt[d])' = DekOf(salt[d])
  BY PublishedStays DEF SessionInv, SessionCoherent
<1>2. stage[d] = "idle" => request[d] = None
  BY DEF SessionInv, IInv, HandlersCoherent, HandlerCoherent
<1>3. SessionCoherent(d)
  BY DEF SessionInv
<1>4. CASE request'[d] = None
  BY <1>1, <1>3, <1>4 DEF SessionCoherent, Rests
<1>5. CASE request'[d] = request[d] /\ stage'[d] = stage[d]
  BY <1>1, <1>3, <1>5 DEF SessionCoherent
<1> QED
  BY <1>4, <1>5 DEF Rests

LEMMA KeepRead ==
    ASSUME SessionInv, Stable, NEW d \in Client, Rests(d), RowKept(d)
    PROVE  ReadCoherent(d)'
<1>1. CASE stage'[d] = "idle"
  BY <1>1 DEF ReadCoherent
<1>2. CASE stage'[d] = stage[d] /\ request'[d] = request[d] /\ reply'[d] = reply[d]
           /\ stage[d] \in {"authorized", "replied"}
  <2> DEFINE w == request[d].auth.salt
             s == reply[d].body.salt
  <2>1. request[d] # None
    BY <1>2 DEF SessionInv, IInv, HandlersCoherent, HandlerCoherent
  <2>2. ReadCoherent(d)
    BY DEF SessionInv
  <2>3. request[d].op \notin Unauthenticated => Published(w)
    BY <2>1, ProofOfSession
  <2>4. \A u : Published(u) => Published(u)' /\ DekOf(u)' = DekOf(u)
    BY PublishedStays DEF SessionInv
  <2>5. ProjectOf(d)' = ProjectOf(d)
    BY <1>2 DEF ProjectOf
  <2>6. {"get_secret", "list_secrets"} \cap Unauthenticated = {}
    BY DEF Unauthenticated
  <2>7. CASE stage[d] = "authorized"
    BY <1>2, <2>2, <2>4, <2>5, <2>7 DEF ReadCoherent, RowKept
  <2>8. CASE stage[d] = "replied"
    BY <1>2, <2>2, <2>3, <2>4, <2>5, <2>6, <2>8 DEF ReadCoherent
  <2> QED
    BY <1>2, <2>7, <2>8
<1>3. CASE stage'[d] = stage[d] /\ stage[d] \notin {"authorized", "replied"}
  BY <1>3 DEF ReadCoherent
<1> QED
  BY <1>1, <1>2, <1>3 DEF Rests

LEMMA KeepHistory ==
    ASSUME SessionInv, NEW d \in Client, Rests(d), pc'[d] = pc[d], cmd'[d] = cmd[d],
           outcome'[d] = outcome[d], d \in applied' <=> d \in applied
    PROVE  HistoryCoherent(d)'
<1>1. HistoryCoherent(d)
  BY DEF SessionInv
<1>2. CASE stage'[d] = "idle"
  BY <1>1, <1>2 DEF HistoryCoherent
<1>3. CASE stage'[d] = stage[d] /\ request'[d] = request[d] /\ reply'[d] = reply[d]
  BY <1>1, <1>3 DEF HistoryCoherent
<1> QED
  BY <1>2, <1>3 DEF Rests

LEMMA KeepClient ==
    ASSUME SessionInv, Stable, NEW d \in Client, Rests(d), RowKept(d),
           pc'[d] = pc[d], cmd'[d] = cmd[d], salt'[d] = salt[d], dek'[d] = dek[d],
           outcome'[d] = outcome[d], d \in applied' <=> d \in applied
    PROVE  ClientCoherent(d)'
  BY KeepSession, KeepRead, KeepHistory DEF ClientCoherent

LEMMA TablesKeepRows ==
    ASSUME SessionInv, UNCHANGED tables, NEW d \in Client, Rests(d)
    PROVE  RowKept(d)
<1>1. stage[d] = "authorized" => HasProject(ProjectOf(d))
  BY DEF SessionInv, ReadCoherent
<1> QED
  BY <1>1 DEF tables, Rests, RowKept, ProjectOf, HasProject, ProjectMeta

(* The history of the tables, when a step leaves them alone.               *)
TablesHistory ==
    /\ NoncesApplied(secrets)
    /\ backup # None => NoncesApplied(backup.secrets)
    /\ "restore" \notin Faults => SaltsRetired

LEMMA KeepTablesHistory ==
    ASSUME SessionInv, UNCHANGED tables, UNCHANGED backup, UNCHANGED applied,
           \A d \in applied : cmd'[d] = cmd[d] /\ salt'[d] = salt[d]
    PROVE  TablesHistory'
<1>1. NoncesApplied(secrets)'
  BY DEF SessionInv, NoncesApplied, tables
<1>2. (backup # None => NoncesApplied(backup.secrets))'
  BY DEF SessionInv, NoncesApplied
<1>3. ("restore" \notin Faults => SaltsRetired)'
  BY DEF SessionInv, SaltsRetired, HasProject, ProjectKdf, tables
<1> QED
  BY <1>1, <1>2, <1>3 DEF TablesHistory

LEMMA Assemble ==
    ASSUME IInv', \A d \in Client : ClientCoherent(d)', TablesHistory'
    PROVE  SessionInv'
  BY DEF SessionInv, ClientCoherent, TablesHistory

-----------------------------------------------------------------------------
(* A command starts, or goes on to its next request.                       *)

(* A client that sends leaves the others, and the tables, alone.           *)
LEMMA SendKeepsOthers ==
    ASSUME SessionInv, IInv', Stable, NEW c \in Client, \E r : Receive(c, r),
           c \notin applied,
           UNCHANGED <<applied, backup, outcome>>,
           \A d \in Client \ {c} : /\ pc'[d] = pc[d] /\ cmd'[d] = cmd[d]
                                   /\ salt'[d] = salt[d] /\ dek'[d] = dek[d],
           ClientCoherent(c)'
    PROVE  SessionInv'
<1>1. UNCHANGED tables
  BY DEF Receive, tables
<1>2. ASSUME NEW d \in Client \ {c} PROVE ClientCoherent(d)'
  <2>1. Rests(d)
    BY DEF Receive, Rests, SessionInv, IInv, TypeOK, ServerTypeOK
  <2> QED
    BY <1>1, <2>1, TablesKeepRows, KeepClient
<1>3. TablesHistory'
  BY <1>1, KeepTablesHistory DEF SessionInv, IInv, TypeOK
<1> QED
  BY <1>2, <1>3, Assemble

(* A process before its last request has written nothing, and knows
   nothing of its end.                                                     *)
LEMMA EarlyHistory ==
    ASSUME SessionInv, NEW c \in Client, pc[c] \in {"start", "kdf", "meta"}
    PROVE  c \notin applied /\ outcome[c] = None
  BY DEF SessionInv, HistoryCoherent

LEMMA SendHistory ==
    ASSUME NEW c \in Client, c \notin applied, outcome[c] = None,
           UNCHANGED <<applied, outcome>>, stage'[c] = "received"
    PROVE  HistoryCoherent(c)' /\ ReadCoherent(c)'
<1>1. None \notin Refusal /\ None # "ok" /\ None # "decrypt_failed"
  BY NoOutcome DEF Outcome
<1> QED
  BY <1>1 DEF HistoryCoherent, ReadCoherent

(* Only a process that has no envelope yet composes one.                   *)
LEMMA DraftsStable ==
    ASSUME IInv, NEW c \in Client, draft[c] = None, applied' = applied,
           \A d \in Client \ {c} : draft'[d] = draft[d] /\ cmd'[d] = cmd[d]
    PROVE  Stable
  BY DEF Stable

LEMMA StartSession ==
    ASSUME SessionInv, NEW c \in Client, NEW k \in Commands, Start(c, k)
    PROVE  SessionInv'
<1> DEFINE r == Message(k, "get_project_kdf", None, None)
<1>1. IInv /\ IInv'
  BY StartKeeps DEF SessionInv
<1>2. /\ pc[c] = "start"
      /\ Receive(c, r)
      /\ UNCHANGED <<salt, dek, draft, outcome, applied, backup>>
  BY DEF Start
<1>3. /\ cmd'[c] = k /\ pc'[c] = "kdf"
      /\ request'[c] = r /\ stage'[c] = "received"
      /\ \A d \in Client \ {c} : pc'[d] = pc[d] /\ cmd'[d] = cmd[d]
  BY <1>1 DEF Start, Receive, IInv, TypeOK, ServerTypeOK
<1>4. r.op = "get_project_kdf"
  BY DEF Message
<1> HIDE DEF r
<1>5. c \notin applied /\ outcome[c] = None
  BY <1>2, EarlyHistory
<1>6. Stable
  BY <1>1, <1>2, <1>3, DraftsStable DEF IInv, ClientsCoherent, DraftCoherent
<1>7. SessionCoherent(c)'
  <2>1. salt'[c] # None => Published(salt[c])'
    BY <1>1, <1>2, <1>6, PublishedStays DEF SessionInv, SessionCoherent
  <2> QED
    BY <1>2, <1>3, <1>4, <2>1 DEF SessionCoherent, Unauthenticated
<1>8. HistoryCoherent(c)' /\ ReadCoherent(c)'
  BY <1>2, <1>3, <1>5, SendHistory
<1> QED
  BY <1>1, <1>2, <1>3, <1>5, <1>6, <1>7, <1>8, SendKeepsOthers DEF ClientCoherent

LEMMA StartInitSession ==
    ASSUME SessionInv, NEW c \in Client, NEW k \in Commands, StartInit(c, k)
    PROVE  SessionInv'
<1> DEFINE r == Message(k, "create_project", None, draft'[c])
<1>1. IInv /\ IInv'
  BY StartInitKeeps DEF SessionInv
<1>2. /\ pc[c] = "start"
      /\ k.kind = "init"
      /\ Receive(c, r)
      /\ UNCHANGED <<salt, dek, outcome, applied, backup>>
  BY DEF StartInit
<1>3. /\ cmd'[c] = k /\ pc'[c] = "create"
      /\ request'[c] = r /\ stage'[c] = "received"
      /\ \A d \in Client \ {c} : /\ pc'[d] = pc[d] /\ cmd'[d] = cmd[d]
                                /\ draft'[d] = draft[d]
  BY <1>1 DEF StartInit, Receive, IInv, TypeOK, ServerTypeOK
<1>4. r.op = "create_project"
  BY DEF Message
<1> HIDE DEF r
<1>5. c \notin applied /\ outcome[c] = None
  BY <1>2, EarlyHistory
<1>6. Stable
  BY <1>1, <1>2, <1>3, DraftsStable DEF IInv, ClientsCoherent, DraftCoherent
<1>7. SessionCoherent(c)'
  <2>1. salt'[c] # None => Published(salt[c])'
    BY <1>1, <1>2, <1>6, PublishedStays DEF SessionInv, SessionCoherent
  <2> QED
    BY <1>2, <1>3, <1>4, <2>1 DEF SessionCoherent, Unauthenticated
<1>8. HistoryCoherent(c)' /\ ReadCoherent(c)'
  BY <1>2, <1>3, <1>5, SendHistory
<1> QED
  BY <1>1, <1>2, <1>3, <1>5, <1>6, <1>7, <1>8, SendKeepsOthers DEF ClientCoherent

LEMMA GotKdfSession ==
    ASSUME SessionInv, NEW c \in Client, GotKdf(c)
    PROVE  SessionInv'
<1> DEFINE r == Message(cmd[c], "get_project_meta", KeysOf(cmd[c], salt'[c]).auth_secret, None)
<1>1. IInv /\ IInv'
  BY GotKdfKeeps DEF SessionInv
<1>2. /\ pc[c] = "kdf"
      /\ stage[c] = "replied"
      /\ reply[c].status \in Success
      /\ salt' = [salt EXCEPT ![c] = reply[c].body.salt]
      /\ Receive(c, r)
      /\ UNCHANGED <<cmd, dek, draft, outcome, applied, backup>>
  BY DEF GotKdf, Succeeded
<1>3. /\ pc'[c] = "meta" /\ salt'[c] = reply[c].body.salt
      /\ request'[c] = r /\ stage'[c] = "received"
      /\ \A d \in Client \ {c} : pc'[d] = pc[d] /\ salt'[d] = salt[d]
  BY <1>1, <1>2 DEF GotKdf, Receive, IInv, TypeOK, ServerTypeOK
<1>4. /\ r.op = "get_project_meta"
      /\ r = Message(cmd[c], r.op, KeysOf(cmd[c], salt'[c]).auth_secret, r.body)
      /\ cmd'[c] = cmd[c]
  BY <1>2 DEF Message
<1> HIDE DEF r
<1>5. c \notin applied /\ outcome[c] = None
  BY <1>2, EarlyHistory
<1>6. Stable
  BY <1>2 DEF Stable
<1>7. Published(salt'[c]) /\ salt'[c] # None
  <2>1. request[c].op = "get_project_kdf"
    BY <1>1, <1>2 DEF IInv, ClientsCoherent, ResponseCoherent
  <2>2. Published(salt'[c])
    BY <1>2, <1>3, <2>1 DEF SessionInv, ReadCoherent
  <2>3. salt'[c] \in Client
    BY <1>1, <1>6, <2>2, PublishedStays
  <2> QED
    BY <2>2, <2>3, CommandsAssumption, NoneAssumption
<1>8. SessionCoherent(c)'
  <2>1. Published(salt[c])'
    BY <1>1, <1>6, <1>7, PublishedStays DEF Published
  <2>2. KeysOf(cmd[c], salt[c])' = KeysOf(cmd[c], salt'[c])
    BY <1>4 DEF KeysOf
  <2> QED
    BY <1>3, <1>4, <1>7, <2>1, <2>2 DEF SessionCoherent, Unauthenticated
<1>9. HistoryCoherent(c)' /\ ReadCoherent(c)'
  BY <1>2, <1>3, <1>5, SendHistory
<1> QED
  BY <1>1, <1>2, <1>3, <1>5, <1>6, <1>8, <1>9, SendKeepsOthers DEF ClientCoherent

LEMMA GotMetaSession ==
    ASSUME SessionInv, NEW c \in Client, GotMeta(c)
    PROVE  SessionInv'
<1> DEFINE k == cmd[c]
           body == CASE k.kind = "reset" -> draft'[c]
                     [] k.kind = "set"   -> EncryptSecret(dek'[c], SecretPlace(k), c, k.value)
                     [] OTHER            -> None
           r == Message(k, OpOf(k), KeysOf(k, salt[c]).auth_secret, body)
<1>1. IInv /\ IInv'
  BY GotMetaKeeps DEF SessionInv
<1>2. /\ pc[c] = "meta"
      /\ Succeeded(c, "meta")
      /\ Unlocks(c)
      /\ k \in Commands
      /\ k.kind \notin {"init", "config"}
      /\ draft[c] = None
      /\ Receive(c, r)
      /\ UNCHANGED <<cmd, salt, outcome, applied, backup>>
  BY <1>1, RunsCommand DEF GotMeta, Succeeded, IInv, ClientsCoherent, DraftCoherent
<1>3. /\ pc'[c] = "op" /\ dek'[c] = reply[c].body.wrapped_dek.msg
      /\ request'[c] = r /\ stage'[c] = "received"
      /\ \A d \in Client \ {c} : /\ pc'[d] = pc[d] /\ dek'[d] = dek[d]
                                /\ draft'[d] = draft[d]
  BY <1>1, <1>2 DEF GotMeta, Receive, IInv, TypeOK, ServerTypeOK
<1>4. /\ r.op = OpOf(k)
      /\ r = Message(k, r.op, KeysOf(k, salt[c]).auth_secret, r.body)
      /\ r.body = body
  BY DEF Message
<1>5. k.kind = "set" => body.nonce = c
  BY DEF EncryptSecret, Seal
<1>6. /\ OpOf(k) = "set_secret" <=> k.kind = "set"
      /\ OpOf(k) # "create_project"
  BY <1>2, OpOfFields
<1> HIDE DEF r, body
<1>7. c \notin applied /\ outcome[c] = None
  BY <1>2, EarlyHistory
<1>8. Stable
  BY <1>1, <1>2, <1>3, DraftsStable
<1>9. /\ salt[c] # None
      /\ Published(salt[c])'
      /\ dek'[c] = DekOf(salt[c])'
  <2>1. salt[c] # None /\ Published(salt[c])
    BY <1>1, <1>2 DEF IInv, ClientsCoherent, ResponseCoherent, SessionInv, SessionCoherent
  <2>2. dek'[c] = DekOf(salt[c])
    BY <1>1, <1>2, <1>3, UnwrapsDraft
  <2> QED
    BY <1>1, <1>2, <1>8, <2>1, <2>2, PublishedStays DEF DekOf, Published
<1>10. SessionCoherent(c)'
  <2>1. KeysOf(cmd[c], salt[c])' = KeysOf(k, salt[c])
    BY <1>2 DEF KeysOf
  <2> QED
    BY <1>2, <1>3, <1>4, <1>5, <1>6, <1>9, <2>1 DEF SessionCoherent
<1>11. HistoryCoherent(c)' /\ ReadCoherent(c)'
  BY <1>2, <1>3, <1>7, SendHistory
<1> QED
  BY <1>1, <1>2, <1>3, <1>7, <1>8, <1>10, <1>11, SendKeepsOthers DEF ClientCoherent

-----------------------------------------------------------------------------
(* A command ends.                                                         *)

LEMMA SamePasswordSession ==
    ASSUME SessionInv, NEW c \in Client, NEW k \in Commands, StartResetToSamePassword(c, k)
    PROVE  SessionInv'
<1>1. IInv /\ IInv'
  BY SamePasswordKeeps DEF SessionInv
<1>2. /\ pc[c] = "start"
      /\ UNCHANGED <<serverVars, salt, draft, applied, backup>>
      /\ Finish(c, "same_password")
  BY DEF StartResetToSamePassword
<1>3. /\ pc'[c] = "done" /\ outcome'[c] = "same_password"
      /\ \A d \in Client \ {c} : /\ pc'[d] = pc[d] /\ cmd'[d] = cmd[d] /\ dek'[d] = dek[d]
                                /\ outcome'[d] = outcome[d]
  BY <1>1, <1>2 DEF StartResetToSamePassword, Finish, IInv, TypeOK
<1>4. c \notin applied /\ request[c] = None /\ draft[c] = None
  BY <1>1, <1>2, EarlyHistory DEF IInv, ClientsCoherent, RequestCoherent, DraftCoherent
<1>5. Stable
  BY <1>1, <1>2, <1>3, <1>4, DraftsStable
<1>6. /\ UNCHANGED tables
      /\ \A d \in Client : Rests(d)
  BY <1>2 DEF serverVars, tables, Rests
<1>7. ClientCoherent(c)'
  <2>1. SessionCoherent(c)'
    <3>1. salt'[c] # None => Published(salt[c])'
      BY <1>1, <1>2, <1>5, PublishedStays DEF SessionInv, SessionCoherent
    <3>2. request'[c] = None
      BY <1>2, <1>4 DEF serverVars
    <3> QED
      BY <1>2, <1>3, <3>1, <3>2 DEF SessionCoherent
  <2>2. ReadCoherent(c)'
    BY <1>5, <1>6, TablesKeepRows, KeepRead
  <2>3. HistoryCoherent(c)'
    <3>1. stage'[c] = "idle"
      BY <1>1, <1>2, <1>4 DEF serverVars, IInv, HandlersCoherent, HandlerCoherent
    <3> QED
      BY <1>2, <1>3, <1>4, <3>1 DEF HistoryCoherent, Refusal
  <2> QED
    BY <2>1, <2>2, <2>3 DEF ClientCoherent
<1>8. ASSUME NEW d \in Client \ {c} PROVE ClientCoherent(d)'
  BY <1>2, <1>3, <1>5, <1>6, TablesKeepRows, KeepClient
<1>9. TablesHistory'
  BY <1>1, <1>2, <1>3, <1>4, <1>6, KeepTablesHistory DEF IInv, TypeOK
<1> QED
  BY <1>1, <1>7, <1>8, <1>9, Assemble

(* What a session fetched opens with the DEK it holds.                     *)
LEMMA FetchedDecrypts ==
    ASSUME SessionInv, NEW c \in Client, Succeeded(c, "create") \/ Succeeded(c, "op")
    PROVE  Decrypts(c)
<1> DEFINE k == cmd[c]
           r == request[c]
<1>1. CASE pc[c] = "create"
  <2>1. r # None /\ r.op = "create_project"
    BY <1>1 DEF Succeeded, SessionInv, SessionCoherent, IInv, HandlersCoherent, HandlerCoherent
  <2>2. k.kind = "init"
    BY <2>1 DEF SessionInv, SessionCoherent
  <2> QED
    BY <2>2 DEF Decrypts
<1>2. CASE pc[c] = "op"
  <2>1. /\ r # None
        /\ stage[c] = "replied"
        /\ reply[c].status \in Success
        /\ k \in Commands
        /\ k.kind \notin {"init", "config"}
        /\ r.op = OpOf(k)
        /\ dek[c] = DekOf(salt[c])
    BY <1>2, RunsCommand
       DEF Succeeded, SessionInv, SessionCoherent, IInv, HandlersCoherent, HandlerCoherent
  <2>2. CASE k.kind \in {"get", "list"}
    <3>1. /\ r.op \notin Unauthenticated
          /\ r.op = IF k.kind = "get" THEN "get_secret" ELSE "list_secrets"
      BY <2>1, <2>2 DEF OpOf, Unauthenticated
    <3>2. r.auth.salt = salt[c]
      BY <2>1, <3>1, ProofOfSession
    <3>3. r = Message(k, r.op, KeysOf(k, salt[c]).auth_secret, r.body)
      BY <2>1, <3>1 DEF SessionInv, SessionCoherent
    <3>4. /\ r.env = k.env
          /\ r.op = "get_secret" => r.name = SecretName(k)
      BY <3>1, <3>3 DEF Message, InEnv, Named
    <3>5. ProjectOf(c) = ProjectName(k)
      BY <2>1 DEF SessionInv, IInv, ClientsCoherent, RequestCoherent, ProjectOf
    <3>6. r.op = "get_secret" => PlaceOf(r) = SecretPlace(k)
      BY <3>4, <3>5 DEF PlaceOf, SecretPlace, ProjectOf
    <3>7. ReadCoherent(c)
      BY DEF SessionInv
    <3> QED
      BY <2>1, <2>2, <3>1, <3>2, <3>4, <3>5, <3>6, <3>7 DEF ReadCoherent, Decrypts
  <2>3. CASE k.kind \notin {"get", "list"}
    BY <2>3 DEF Decrypts
  <2> QED
    BY <2>2, <2>3
<1> QED
  BY <1>1, <1>2 DEF Succeeded

LEMMA FinishSession ==
    ASSUME SessionInv, IInv', NEW c \in Client, NEW how, Finish(c, how),
           (Drop({c}) /\ UNCHANGED tables) \/ UNCHANGED serverVars,
           UNCHANGED <<cmd, salt, draft, applied, backup>>,
           how # "decrypt_failed",
           how = "ok" /\ cmd[c].kind \in Mutating => c \in applied,
           how \in Refusal => c \notin applied /\ Drop({c})
    PROVE  SessionInv'
<1>1. /\ IInv
      /\ UNCHANGED tables
      /\ Stable
  BY DEF SessionInv, serverVars, tables, Stable
<1>2. /\ pc'[c] = "done" /\ outcome'[c] = how
      /\ \A d \in Client \ {c} : /\ pc'[d] = pc[d] /\ dek'[d] = dek[d]
                                /\ outcome'[d] = outcome[d]
  BY <1>1 DEF Finish, IInv, TypeOK
<1>3. \A d \in Client : Rests(d)
  BY DEF Drop, serverVars, Rests
<1>4. ClientCoherent(c)'
  <2>1. SessionCoherent(c)' /\ ReadCoherent(c)'
    BY <1>1, <1>2, <1>3, KeepSession, TablesKeepRows, KeepRead
  <2>2. HistoryCoherent(c)
    BY DEF SessionInv
  <2>3. HistoryCoherent(c)'
    <3>1. how \in Refusal => stage'[c] = "idle"
      BY DEF Drop
    <3> QED
      BY <1>2, <1>3, <2>2, <3>1 DEF HistoryCoherent, Rests
  <2> QED
    BY <2>1, <2>3 DEF ClientCoherent
<1>5. ASSUME NEW d \in Client \ {c} PROVE ClientCoherent(d)'
  BY <1>1, <1>2, <1>3, TablesKeepRows, KeepClient
<1>6. TablesHistory'
  BY <1>1, KeepTablesHistory DEF IInv, TypeOK
<1> QED
  BY <1>4, <1>5, <1>6, Assemble

(* A command that reports success was answered by the handler that writes. *)
LEMMA AnsweredIsApplied ==
    ASSUME SessionInv, NEW c \in Client, Succeeded(c, "create") \/ Succeeded(c, "op"),
           cmd[c].kind \in Mutating
    PROVE  c \in applied
<1>1. /\ stage[c] = "replied"
      /\ reply[c].status \in Success
      /\ request[c] # None
      /\ SessionCoherent(c)
      /\ HistoryCoherent(c)
  BY DEF Succeeded, SessionInv, IInv, HandlersCoherent, HandlerCoherent
<1>2. CASE pc[c] = "create"
  <2>1. request[c].op = "create_project"
    BY <1>1, <1>2 DEF SessionCoherent
  <2> QED
    BY <1>1, <2>1 DEF HistoryCoherent, Writing, Enveloped
<1>3. CASE pc[c] = "op"
  <2>1. request[c].op = OpOf(cmd[c]) /\ cmd[c].kind \in {"set", "delete", "reset"}
    BY <1>1, <1>3 DEF SessionCoherent, Mutating
  <2>2. request[c].op \in Writing
    BY <2>1 DEF OpOf, Writing, Enveloped
  <2> QED
    BY <1>1, <2>2 DEF HistoryCoherent
<1> QED
  BY <1>2, <1>3 DEF Succeeded

LEMMA EndsSession ==
    ASSUME SessionInv, NEW c \in Client,
           \/ UnlockFailed(c) \/ ConfigVerified(c) \/ GotResponse(c)
           \/ Refused(c) \/ ConnectionLost(c) \/ GiveUp(c)
    PROVE  SessionInv'
<1>1. IInv /\ IInv'
  BY EndsKeep DEF SessionInv
<1>2. {"ok", "unlock_failed", "decrypt_failed", "lost", "gave_up"} \cap Refusal = {}
  BY DEF Refusal
<1>3. CASE UnlockFailed(c)
  BY <1>1, <1>2, <1>3, FinishSession DEF UnlockFailed
<1>4. CASE ConfigVerified(c)
  <2>1. cmd[c].kind \notin Mutating
    BY <1>4 DEF ConfigVerified, Mutating
  <2> QED
    BY <1>1, <1>2, <1>4, <2>1, FinishSession DEF ConfigVerified
<1>5. CASE GotResponse(c)
  <2>1. Finish(c, "ok")
    BY <1>5, FetchedDecrypts DEF GotResponse
  <2>2. cmd[c].kind \in Mutating => c \in applied
    BY <1>5, AnsweredIsApplied DEF GotResponse
  <2> QED
    BY <1>1, <1>2, <1>5, <2>1, <2>2, FinishSession DEF GotResponse
<1>6. CASE Refused(c)
  <2>1. /\ reply[c] \in Reply
        /\ reply[c].status \notin Success
        /\ stage[c] = "replied"
    BY <1>1, <1>6 DEF Refused, IInv, TypeOK, ServerTypeOK, HandlersCoherent, HandlerCoherent
  <2>2. reply[c].status \in Refusal
    BY <2>1 DEF Reply
  <2>3. c \notin applied
    BY <2>1 DEF SessionInv, HistoryCoherent
  <2> QED
    BY <1>1, <1>2, <1>6, <2>2, <2>3, FinishSession DEF Refused
<1>7. CASE ConnectionLost(c)
  BY <1>1, <1>2, <1>7, FinishSession DEF ConnectionLost
<1>8. CASE GiveUp(c)
  BY <1>1, <1>2, <1>8, FinishSession DEF GiveUp
<1> QED
  BY <1>3, <1>4, <1>5, <1>6, <1>7, <1>8

-----------------------------------------------------------------------------
(* The server takes a step for c.                                          *)

(* A proof that passes for a project was derived from the salt of its row. *)
LEMMA GateSalt ==
    ASSUME IInv, NEW p \in Project, NEW a, PasswordMatches(p, Sha256(a))
    PROVE  /\ projects[p].salt = a.salt
           /\ a.salt \in applied
           /\ a.salt \in Client
           /\ draft[a.salt] = projects[p]
           /\ draft[a.salt] # None
           /\ ProjectName(cmd[a.salt]) = p
<1> DEFINE row == projects[p]
           s == row.salt
<1>1. row # None /\ row.auth_hash.sha256 = a
  BY DEF PasswordMatches, HasProject, ProjectAuthHash, Sha256
<1>2. s \in applied /\ draft[s] = row /\ ProjectName(cmd[s]) = p
  BY <1>1 DEF IInv, TablesCoherent
<1>3. s \in Client
  BY <1>2 DEF IInv, TypeOK
<1> HIDE DEF s
<1>4. draft[s].auth_hash.sha256.salt = s
  BY <1>1, <1>2, <1>3, DraftSalt
<1>5. s = a.salt
  BY <1>1, <1>2, <1>4
<1> QED
  BY <1>1, <1>2, <1>3, <1>5 DEF s

(* The four ways in which a request changes a row.                         *)
Inserted(c) ==
    /\ request[c].op = "create_project"
    /\ projects[ProjectOf(c)] = None
    /\ projects' = [projects EXCEPT ![ProjectOf(c)] = request[c].body]
    /\ UNCHANGED secrets

Rekeyed(c) ==
    /\ request[c].op = "reset_project_password"
    /\ PasswordMatches(ProjectOf(c), Sha256(request[c].auth))
    /\ projects' = [projects EXCEPT ![ProjectOf(c)] = request[c].body]
    /\ UNCHANGED secrets

SecretWritten(c) ==
    /\ request[c].op = "set_secret"
    /\ PlaceOf(request[c]) \in Place
    /\ request[c].body \in SecretBlob
    /\ secrets' = [secrets EXCEPT ![PlaceOf(request[c])] = request[c].body]
    /\ UNCHANGED projects

SecretDeleted(c) ==
    /\ request[c].op = "delete_secret"
    /\ PlaceOf(request[c]) \in Place
    /\ secrets[PlaceOf(request[c])] # None
    /\ secrets' = [secrets EXCEPT ![PlaceOf(request[c])] = None]
    /\ UNCHANGED projects

Wrote(c) ==
    /\ ProjectOf(c) \in Project
    /\ Inserted(c) \/ Rekeyed(c) \/ SecretWritten(c) \/ SecretDeleted(c)

LEMMA AnswerGives ==
    ASSUME IInv, NEW c \in Client, NEW status, NEW body, Answer(c, status, body)
    PROVE  /\ stage'[c] = "replied"
           /\ reply'[c].status = status
           /\ reply'[c].body = body
  BY DEF Answer, IInv, TypeOK, ServerTypeOK

(* A handler that writes is answered with a success if and only if it
   changed its row.                                                        *)
LEMMA WriterAnswers ==
    ASSUME IInv, NEW c \in Client,
           \/ CreateProject(c) \/ ResetProjectPassword(c)
           \/ SetSecret(c) \/ DeleteSecret(c)
    PROVE  /\ stage'[c] = "replied"
           /\ reply'[c].status \in Success => Wrote(c)
           /\ reply'[c].status \notin Success => UNCHANGED tables
           /\ request[c].op \in Writing
<1>1. ServerInv
  BY DEF IInv, TypeOK, ServerInv
<1>2. {"CREATED", "NO_CONTENT"} \subseteq Success
      /\ {"CONFLICT", "FORBIDDEN", "NOT_FOUND"} \cap Success = {}
  BY DEF Success
<1>3. CASE CreateProject(c)
  <2>1. PICK inserted \in BOOLEAN :
           /\ InsertProject(ProjectOf(c), request[c].body, inserted)
           /\ Answer(c, IF inserted THEN "CREATED" ELSE "CONFLICT", None)
    BY <1>3 DEF CreateProject
  <2>2. /\ ProjectOf(c) \in Project
        /\ request[c].op = "create_project"
    BY <1>1, <1>3, HandlingFacts DEF CreateProject, Handling, Op, Unauthenticated
  <2>3. inserted => Inserted(c)
    BY <2>1, <2>2 DEF InsertProject, Inserted, HasProject
  <2>4. ~inserted => UNCHANGED tables
    BY <2>1 DEF InsertProject, tables
  <2> QED
    BY <1>2, <2>1, <2>2, <2>3, <2>4, AnswerGives DEF Wrote, Writing, Enveloped
<1>4. CASE ResetProjectPassword(c)
  <2>1. PICK updated \in BOOLEAN :
           /\ ResetPassword(ProjectOf(c), expected[c], request[c].body, updated)
           /\ Answer(c, IF updated THEN "NO_CONTENT" ELSE "FORBIDDEN", None)
    BY <1>4 DEF ResetProjectPassword
  <2>2. /\ ProjectOf(c) \in Project
        /\ request[c].op = "reset_project_password"
        /\ expected[c] = Sha256(request[c].auth)
    BY <1>1, <1>4, AuthorizedFacts DEF ResetProjectPassword, Authorized
  <2>3. updated => Rekeyed(c)
    BY <2>1, <2>2 DEF ResetPassword, Rekeyed
  <2>4. ~updated => UNCHANGED tables
    BY <2>1 DEF ResetPassword, tables
  <2> QED
    BY <1>2, <2>1, <2>2, <2>3, <2>4, AnswerGives DEF Wrote, Writing, Enveloped
<1>5. CASE SetSecret(c)
  <2>1. PICK written \in BOOLEAN :
           /\ SetSecretIfPasswordMatches(PlaceOf(request[c]), request[c].body,
                                         expected[c], written)
           /\ Answer(c, IF written THEN "NO_CONTENT" ELSE "CONFLICT", None)
    BY <1>5 DEF SetSecret
  <2>2. /\ ProjectOf(c) \in Project
        /\ request[c].op = "set_secret"
        /\ PlaceOf(request[c]) \in Place
        /\ request[c].body \in SecretBlob
    BY <1>1, <1>5, AuthorizedFacts, WellFormedFields DEF SetSecret, Authorized, Named
  <2>3. written => SecretWritten(c)
    BY <2>1, <2>2 DEF SetSecretIfPasswordMatches, SecretWritten
  <2>4. ~written => UNCHANGED tables
    BY <2>1 DEF SetSecretIfPasswordMatches, tables
  <2> QED
    BY <1>2, <2>1, <2>2, <2>3, <2>4, AnswerGives DEF Wrote, Writing
<1>6. CASE DeleteSecret(c)
  <2>1. PICK deleted \in BOOLEAN :
           /\ DeleteSecretIfPasswordMatches(PlaceOf(request[c]), expected[c], deleted)
           /\ Answer(c, IF deleted THEN "NO_CONTENT" ELSE "NOT_FOUND", None)
    BY <1>6 DEF DeleteSecret
  <2>2. /\ ProjectOf(c) \in Project
        /\ request[c].op = "delete_secret"
        /\ PlaceOf(request[c]) \in Place
    BY <1>1, <1>6, AuthorizedFacts, WellFormedFields DEF DeleteSecret, Authorized, Named
  <2>3. deleted => SecretDeleted(c)
    BY <2>1, <2>2 DEF DeleteSecretIfPasswordMatches, SecretDeleted
  <2>4. ~deleted => UNCHANGED tables
    BY <2>1 DEF DeleteSecretIfPasswordMatches, tables
  <2> QED
    BY <1>2, <2>1, <2>2, <2>3, <2>4, AnswerGives DEF Wrote, Writing
<1> QED
  BY <1>3, <1>4, <1>5, <1>6

(* The other handlers write nothing, and no success of theirs answers a
   request to write.                                                       *)
LEMMA OthersAnswer ==
    ASSUME IInv, NEW c \in Client, Serve(c),
           ~CreateProject(c), ~ResetProjectPassword(c), ~SetSecret(c), ~DeleteSecret(c)
    PROVE  /\ UNCHANGED tables
           /\ stage'[c] \in {"authorized", "replied"}
           /\ stage'[c] = "replied" /\ reply'[c].status \in Success =>
                 request[c].op \notin Writing
<1>1. {"UNAUTHORIZED", "BAD_REQUEST", "NOT_FOUND", "FORBIDDEN"} \cap Success = {}
  BY DEF Success
<1>2. CASE Unauthorized(c)
  BY <1>1, <1>2, AnswerGives DEF Unauthorized
<1>3. CASE RejectInvalid(c)
  BY <1>1, <1>3, AnswerGives DEF RejectInvalid
<1>4. CASE Authorize(c)
  <2>1. stage'[c] = "authorized" \/ (stage'[c] = "replied" /\ reply'[c].status \notin Success)
    BY <1>1, <1>4, AnswerGives DEF Authorize, IInv, TypeOK, ServerTypeOK
  <2> QED
    BY <1>4, <2>1 DEF Authorize
<1>5. CASE GetProjectKdf(c)
  <2>1. request[c].op = "get_project_kdf" /\ stage'[c] = "replied" /\ UNCHANGED tables
    BY <1>5, AnswerGives DEF GetProjectKdf, Handling
  <2> QED
    BY <2>1 DEF Writing, Enveloped
<1>6. CASE GetProjectMeta(c)
  <2>1. request[c].op = "get_project_meta" /\ stage'[c] = "replied" /\ UNCHANGED tables
    BY <1>6, AnswerGives DEF GetProjectMeta, Authorized
  <2> QED
    BY <2>1 DEF Writing, Enveloped
<1>7. CASE GetSecret(c)
  <2>1. request[c].op = "get_secret" /\ stage'[c] = "replied" /\ UNCHANGED tables
    BY <1>7, AnswerGives DEF GetSecret, Authorized
  <2> QED
    BY <2>1 DEF Writing, Enveloped
<1>8. CASE ListSecrets(c)
  <2>1. request[c].op = "list_secrets" /\ stage'[c] = "replied" /\ UNCHANGED tables
    BY <1>8, AnswerGives DEF ListSecrets, Authorized
  <2> QED
    BY <2>1 DEF Writing, Enveloped
<1> QED
  BY <1>2, <1>3, <1>4, <1>5, <1>6, <1>7, <1>8 DEF Serve

(* A handler at work belongs to a process that has changed nothing.        *)
LEMMA AtWorkUnapplied ==
    ASSUME SessionInv, NEW c \in Client,
           Serve(c) \/ stage[c] \in {"received", "authorized"}
    PROVE  /\ stage[c] \in {"received", "authorized"}
           /\ request[c] # None
           /\ c \notin applied
<1>1. stage[c] \in {"received", "authorized"}
  BY DEF Serve, Unauthorized, RejectInvalid, Authorize, CreateProject, GetProjectKdf,
         GetProjectMeta, ResetProjectPassword, SetSecret, GetSecret, ListSecrets,
         DeleteSecret, Handling, Authorized
<1> QED
  BY <1>1 DEF SessionInv, HistoryCoherent, IInv, HandlersCoherent, HandlerCoherent

(* What it writes carries the name of its process, as a salt or a nonce, so
   it differs from what any effective request has written.                 *)
LEMMA WritesOwnDraft ==
    ASSUME SessionInv, NEW c \in Client, request[c] # None,
           Inserted(c) \/ Rekeyed(c)
    PROVE  /\ request[c].body = draft[c]
           /\ draft[c] # None
           /\ draft[c].salt = c
           /\ ProjectName(cmd[c]) = ProjectOf(c)
<1>1. IInv
  BY DEF SessionInv
<1>2. /\ request[c].body = draft[c]
      /\ draft[c] # None
      /\ ProjectName(cmd[c]) = ProjectOf(c)
  BY <1>1 DEF IInv, ClientsCoherent, RequestCoherent, Inserted, Rekeyed, Enveloped, ProjectOf
<1> QED
  BY <1>1, <1>2, DraftSalt

LEMMA WriteIsNews ==
    ASSUME SessionInv, NEW c \in Client, request[c] # None, c \notin applied, Wrote(c)
    PROVE  tables' # tables
<1> DEFINE p == ProjectOf(c)
           x == PlaceOf(request[c])
<1>1. /\ p \in Project
      /\ projects \in [Project -> Row \cup {None}]
      /\ secrets \in [Place -> SecretBlob \cup {None}]
  BY DEF Wrote, SessionInv, IInv, TypeOK, ServerTypeOK, TablesTypeOK
<1>2. CASE Inserted(c) \/ Rekeyed(c)
  <2>1. projects'[p] = draft[c] /\ draft[c] # None /\ draft[c].salt = c
    BY <1>1, <1>2, WritesOwnDraft DEF Inserted, Rekeyed
  <2>2. projects[p] # None => projects[p].salt \in applied
    BY <1>1 DEF SessionInv, IInv, TablesCoherent
  <2>3. projects'[p] # projects[p]
    BY <2>1, <2>2
  <2> QED
    BY <2>3 DEF tables
<1>3. CASE SecretWritten(c)
  <2>1. /\ x \in Place
        /\ secrets'[x] = request[c].body
        /\ request[c].body \in SecretBlob
    BY <1>1, <1>3 DEF SecretWritten
  <2>2. request[c].body.nonce = c
    BY <1>3 DEF SecretWritten, SessionInv, SessionCoherent
  <2>3. secrets[x] # None => secrets[x].nonce \in applied
    BY <2>1 DEF SessionInv, NoncesApplied
  <2>4. secrets'[x] # secrets[x]
    BY <2>1, <2>2, <2>3, NoneAssumption
  <2> QED
    BY <2>4 DEF tables
<1>4. CASE SecretDeleted(c)
  <2>1. x \in Place /\ secrets'[x] = None /\ secrets[x] # None
    BY <1>1, <1>4 DEF SecretDeleted
  <2> QED
    BY <2>1 DEF tables
<1> QED
  BY <1>2, <1>3, <1>4 DEF Wrote

(* A request that writes is answered with a success exactly when it changed
   a row, that is, exactly when its process enters the history.            *)
LEMMA AnsweredWhenApplied ==
    ASSUME SessionInv, NEW c \in Client, ServerStep(c)
    PROVE  \/ /\ Wrote(c)
              /\ applied' = applied \cup {c}
              /\ stage'[c] = "replied"
              /\ reply'[c].status \in Success
              /\ request[c].op \in Writing
           \/ /\ UNCHANGED tables
              /\ applied' = applied
              /\ stage'[c] \in {"authorized", "replied"}
              /\ stage'[c] = "replied" /\ reply'[c].status \in Success =>
                    request[c].op \notin Writing
<1>1. /\ Serve(c)
      /\ IInv
      /\ applied' = IF tables' = tables THEN applied ELSE applied \cup {c}
  BY DEF ServerStep, SessionInv
<1>2. request[c] # None /\ c \notin applied
  BY <1>1, AtWorkUnapplied
<1>3. Wrote(c) => applied' = applied \cup {c}
  BY <1>1, <1>2, WriteIsNews
<1>4. CASE CreateProject(c) \/ ResetProjectPassword(c) \/ SetSecret(c) \/ DeleteSecret(c)
  <2>1. /\ stage'[c] = "replied"
        /\ reply'[c].status \in Success => Wrote(c)
        /\ reply'[c].status \notin Success => UNCHANGED tables
        /\ request[c].op \in Writing
    BY <1>1, <1>4, WriterAnswers
  <2> QED
    BY <1>1, <1>3, <2>1
<1>5. CASE ~(CreateProject(c) \/ ResetProjectPassword(c) \/ SetSecret(c) \/ DeleteSecret(c))
  <2>1. /\ UNCHANGED tables
        /\ stage'[c] \in {"authorized", "replied"}
        /\ stage'[c] = "replied" /\ reply'[c].status \in Success =>
              request[c].op \notin Writing
    BY <1>1, <1>5, OthersAnswer
  <2> QED
    BY <1>1, <2>1
<1> QED
  BY <1>4, <1>5

(* The session of a process goes on while its handler works.               *)
LEMMA HandlerSession ==
    ASSUME SessionInv, Stable, NEW c \in Client,
           stage[c] # "idle", request'[c] = request[c],
           UNCHANGED clientVars
    PROVE  SessionCoherent(c)'
<1>1. cmd' = cmd /\ pc' = pc /\ salt' = salt /\ dek' = dek
  BY DEF clientVars
<1>2. salt[c] # None => Published(salt[c])' /\ DekOf(salt[c])' = DekOf(salt[c])
  BY <1>1, PublishedStays DEF SessionInv, SessionCoherent
<1>3. SessionCoherent(c)
  BY DEF SessionInv
<1> QED
  BY <1>1, <1>2, <1>3 DEF SessionCoherent

LEMMA ServerHistory ==
    ASSUME SessionInv, NEW c \in Client, ServerStep(c)
    PROVE  HistoryCoherent(c)'
<1>1. /\ c \notin applied
      /\ stage[c] # "idle"
      /\ request' = request
      /\ request[c] # None
      /\ IInv
  BY AtWorkUnapplied, ServeFrame DEF ServerStep, SessionInv
<1>2. pc' = pc /\ cmd' = cmd /\ outcome' = outcome
  BY DEF ServerStep, clientVars
<1>3. HistoryCoherent(c)
  BY DEF SessionInv
<1>4. request[c].op \in Writing => pc[c] \in {"create", "op", "done"}
  <2>1. pc[c] \in {"start", "done"} \cup Waiting
    BY <1>1 DEF IInv, TypeOK
  <2>2. pc[c] # "start"
    BY <1>1 DEF IInv, ClientsCoherent, RequestCoherent
  <2>3. /\ pc[c] = "kdf" => request[c].op = "get_project_kdf"
        /\ pc[c] = "meta" => request[c].op = "get_project_meta"
    BY <1>1 DEF IInv, ClientsCoherent, ResponseCoherent
  <2> QED
    BY <2>1, <2>2, <2>3 DEF Waiting, Writing, Enveloped
<1> QED
  BY <1>1, <1>2, <1>3, <1>4, AnsweredWhenApplied DEF HistoryCoherent

(* Past authorize_project, the row of the project is the envelope that the
   request proves, or a later one with its DEK.                            *)
LEMMA AuthorizeReads ==
    ASSUME SessionInv, NEW c \in Client, ServerStep(c), stage'[c] = "authorized"
    PROVE  ReadCoherent(c)'
<1> DEFINE p == ProjectOf(c)
           w == request[c].auth.salt
<1>1. /\ IInv
      /\ ServerInv
      /\ Serve(c)
      /\ request' = request
      /\ request[c] # None
      /\ UNCHANGED clientVars
      /\ applied \subseteq applied'
  BY ServeFrame, AtWorkUnapplied
     DEF ServerStep, SessionInv, IInv, TypeOK, ServerInv
<1>2. Stable
  BY <1>1 DEF Stable, clientVars
<1>3. Authorize(c)
  <2>1. ~CreateProject(c) /\ ~ResetProjectPassword(c) /\ ~SetSecret(c) /\ ~DeleteSecret(c)
    BY <1>1, WriterAnswers
  <2>2. \A status, body : ~Answer(c, status, body)
    BY <1>1, AnswerGives
  <2> QED
    BY <1>1, <2>1, <2>2
       DEF Serve, Unauthorized, RejectInvalid, GetProjectKdf, GetProjectMeta, GetSecret,
           ListSecrets
<1>4. /\ PasswordMatches(p, Sha256(request[c].auth))
      /\ Handling(c, Op \ Unauthenticated)
      /\ UNCHANGED tables
  BY <1>1, <1>3, AnswerGives DEF Authorize
<1>5. p \in Project
  BY <1>1, <1>4, HandlingFacts
<1>6. /\ draft[w] = projects[p]
      /\ draft[w] # None
      /\ w \in applied
  BY <1>1, <1>4, <1>5, GateSalt
<1>7. Published(w)' /\ DekOf(w)' = DekOf(w)
  BY <1>1, <1>2, <1>6, PublishedStays DEF Published
<1>8. /\ ProjectOf(c)' = p
      /\ projects' = projects
  BY <1>1, <1>4 DEF ProjectOf, tables
<1>9. HasProject(p)' /\ ProjectMeta(p)'.msg = DekOf(w)
  BY <1>6, <1>8 DEF HasProject, ProjectMeta, DekOf
<1> QED
  BY <1>1, <1>7, <1>8, <1>9 DEF ReadCoherent

(* What is not a refusal comes from the handler itself.                    *)
LEMMA SuccessFromHandler ==
    ASSUME IInv, NEW c \in Client,
           stage'[c] = "replied", reply'[c].status \in Success
    PROVE  ~Unauthorized(c) /\ ~RejectInvalid(c) /\ ~Authorize(c)
<1>1. {"UNAUTHORIZED", "BAD_REQUEST", "NOT_FOUND", "FORBIDDEN"} \cap Success = {}
  BY DEF Success
<1>2. ~Unauthorized(c) /\ ~RejectInvalid(c)
  BY <1>1, AnswerGives DEF Unauthorized, RejectInvalid
<1>3. ~Authorize(c)
  BY <1>1, AnswerGives DEF Authorize, IInv, TypeOK, ServerTypeOK
<1> QED
  BY <1>2, <1>3

(* What the server hands out opens with the DEK of the requester.          *)
LEMMA ReplyReads ==
    ASSUME SessionInv, NEW c \in Client, ServerStep(c), stage'[c] = "replied"
    PROVE  ReadCoherent(c)'
<1> DEFINE p == ProjectOf(c)
           r == request[c]
           w == r.auth.salt
<1>1. /\ IInv
      /\ ServerInv
      /\ Serve(c)
      /\ request' = request
      /\ r # None
      /\ UNCHANGED clientVars
      /\ applied \subseteq applied'
  BY ServeFrame, AtWorkUnapplied
     DEF ServerStep, SessionInv, IInv, TypeOK, ServerInv
<1>2. Stable
  BY <1>1 DEF Stable, clientVars
<1>3. ASSUME reply'[c].status \in Success, r.op = "get_project_kdf"
      PROVE  Published(reply[c].body.salt)'
  <2>1. GetProjectKdf(c)
    BY <1>1, <1>3, SuccessFromHandler
       DEF Serve, CreateProject, GetProjectMeta, ResetProjectPassword, SetSecret, GetSecret,
           ListSecrets, DeleteSecret, Handling, Authorized
  <2>2. /\ HasProject(p)
        /\ reply'[c].body = [salt |-> ProjectKdf(p)]
    BY <1>1, <1>3, <2>1, AnswerGives DEF GetProjectKdf, Success
  <2>3. p \in Project
    BY <1>1, <2>1, HandlingFacts DEF GetProjectKdf, Op, Unauthenticated
  <2>4. Published(ProjectKdf(p))
    BY <1>1, <2>2, <2>3 DEF IInv, TablesCoherent, Published, HasProject, ProjectKdf
  <2> QED
    BY <1>1, <1>2, <2>2, <2>4, PublishedStays DEF Published
<1>4. ASSUME reply'[c].status \in Success, r.op \in {"get_secret", "list_secrets"}
      PROVE  /\ GetSecret(c) \/ ListSecrets(c)
             /\ DekOf(w)' = DekOf(w)
             /\ p \in Project
             /\ \A x \in Place : x[1] = p /\ secrets[x] # None =>
                    CanDecrypt(DekOf(w), x, secrets[x])
  <2>1. GetSecret(c) \/ ListSecrets(c)
    BY <1>1, <1>4, SuccessFromHandler
       DEF Serve, CreateProject, GetProjectKdf, GetProjectMeta, ResetProjectPassword,
           SetSecret, DeleteSecret, Handling, Authorized
  <2>2. stage[c] = "authorized"
    BY <2>1 DEF GetSecret, ListSecrets, Authorized
  <2>3. /\ Published(w)
        /\ ProjectMeta(p).msg = DekOf(w)
    BY <2>2 DEF SessionInv, ReadCoherent
  <2>4. p \in Project
    BY <1>1, <2>2, AuthorizedFacts
  <2>5. DekOf(w)' = DekOf(w)
    BY <1>1, <1>2, <2>3, PublishedStays
  <2> QED
    BY <1>1, <2>1, <2>3, <2>4, <2>5 DEF IInv, TablesCoherent, ProjectMeta
<1>5. ASSUME reply'[c].status \in Success, r.op = "get_secret"
      PROVE  CanDecrypt(DekOf(w), PlaceOf(r), reply'[c].body.value)
  <2>1. GetSecret(c)
    BY <1>4, <1>5 DEF ListSecrets, Authorized
  <2>2. /\ secrets[PlaceOf(r)] # None
        /\ reply'[c].body = [value |-> secrets[PlaceOf(r)]]
    BY <1>1, <1>5, <2>1, AnswerGives DEF GetSecret, SelectSecret, Success
  <2>3. PlaceOf(r) \in Place /\ PlaceOf(r)[1] = p
    BY <1>1, <1>5, <2>1, AuthorizedFacts, WellFormedFields
       DEF GetSecret, Authorized, Named, ProjectOf
  <2> QED
    BY <1>4, <1>5, <2>2, <2>3
<1>6. ASSUME reply'[c].status \in Success, r.op = "list_secrets",
             NEW n \in DOMAIN reply'[c].body.entries
      PROVE  CanDecrypt(DekOf(w), <<p, r.env, n>>, reply'[c].body.entries[n])
  <2>1. ListSecrets(c)
    BY <1>4, <1>6 DEF GetSecret, Authorized
  <2>2. reply'[c].body = [entries |-> SelectSecrets(p, r.env)]
    BY <1>1, <2>1, AnswerGives DEF ListSecrets
  <2>3. /\ n \in Name
        /\ secrets[<<p, r.env, n>>] # None
        /\ reply'[c].body.entries[n] = secrets[<<p, r.env, n>>]
    BY <1>6, <2>2 DEF SelectSecrets
  <2>4. r.env \in Env
    BY <1>1, <1>6, <2>1, AuthorizedFacts, WellFormedFields DEF ListSecrets, Authorized
  <2>5. <<p, r.env, n>> \in Place
    BY <1>4, <1>6, <2>3, <2>4 DEF Place
  <2> QED
    BY <1>4, <1>6, <2>3, <2>5
<1>7. request'[c] = r /\ ProjectOf(c)' = p
  BY <1>1 DEF ProjectOf
<1>8. r.op \in {"get_secret", "list_secrets"} /\ reply'[c].status \in Success =>
         DekOf(w)' = DekOf(w)
  BY <1>4
<1> QED
  BY <1>3, <1>5, <1>6, <1>7, <1>8 DEF ReadCoherent

(* A reset that takes effect replaces the row whose salt it started from,
   the only row with that salt, by one with the salt of its process.       *)
LEMMA RekeyRetires ==
    ASSUME SessionInv, NEW c \in Client, request[c] # None, c \notin applied,
           ProjectOf(c) \in Project, Rekeyed(c)
    PROVE  /\ HasProject(ProjectOf(c))
           /\ ProjectKdf(ProjectOf(c)) = salt[c]
           /\ salt[c] \in applied
           /\ \A q \in Project : projects'[q] # None => projects'[q].salt # salt[c]
<1> DEFINE p == ProjectOf(c)
<1>1. /\ IInv
      /\ projects \in [Project -> Row \cup {None}]
      /\ PasswordMatches(p, Sha256(request[c].auth))
      /\ projects' = [projects EXCEPT ![p] = request[c].body]
  BY DEF Rekeyed, SessionInv, IInv, TypeOK, ServerTypeOK, TablesTypeOK
<1>2. request[c].auth.salt = salt[c]
  <2>1. request[c].op \notin Unauthenticated
    BY DEF Rekeyed, Unauthenticated
  <2> QED
    BY <2>1, ProofOfSession
<1>3. /\ projects[p].salt = salt[c]
      /\ salt[c] \in applied
      /\ ProjectName(cmd[salt[c]]) = p
  BY <1>1, <1>2, GateSalt
<1>4. request[c].body.salt = c
  BY WritesOwnDraft
<1>5. ASSUME NEW q \in Project, projects'[q] # None PROVE projects'[q].salt # salt[c]
  <2>1. CASE q = p
    BY <1>1, <1>3, <1>4, <2>1
  <2>2. CASE q # p
    <3>1. /\ projects'[q] = projects[q]
          /\ ProjectName(cmd[projects[q].salt]) = q
      BY <1>1, <1>5, <2>2 DEF IInv, TablesCoherent
    <3> QED
      BY <1>3, <2>2, <3>1
  <2> QED
    BY <2>1, <2>2
<1> QED
  BY <1>1, <1>3, <1>5 DEF HasProject, ProjectKdf, PasswordMatches

LEMMA ServerRetires ==
    ASSUME SessionInv, "restore" \notin Faults, NEW c \in Client, Wrote(c),
           request[c] # None, c \notin applied, applied' = applied \cup {c},
           UNCHANGED clientVars
    PROVE  SaltsRetired'
<1>1. /\ cmd' = cmd /\ salt' = salt
      /\ projects \in [Project -> Row \cup {None}]
      /\ applied \subseteq Client
      /\ SaltsRetired
  BY DEF clientVars, SessionInv, IInv, TypeOK, ServerTypeOK, TablesTypeOK
<1>2. \A e \in applied : salt[e] # c
  <2> SUFFICES ASSUME NEW e \in applied PROVE salt[e] # c
    OBVIOUS
  <2>1. salt[e] # None => salt[e] \in applied
    BY <1>1 DEF SessionInv, SessionCoherent, Published
  <2> QED
    BY <2>1, CommandsAssumption, NoneAssumption
<1>3. cmd[c].kind = "reset" => Rekeyed(c)
  <2>1. request[c].op \in Writing
    BY DEF Wrote, Inserted, Rekeyed, SecretWritten, SecretDeleted, Writing, Enveloped
  <2>2. /\ request[c].op = "create_project" => cmd[c].kind = "init"
        /\ request[c].op # "create_project" => request[c].op = OpOf(cmd[c])
    BY <2>1 DEF SessionInv, SessionCoherent, Writing, Enveloped, Unauthenticated
  <2>3. cmd[c].kind = "reset" => request[c].op = "reset_project_password"
    BY <2>2 DEF OpOf
  <2> QED
    BY <2>3 DEF Wrote, Inserted, SecretWritten, SecretDeleted
<1>4. \A q \in Project : projects'[q] # None =>
         projects'[q] = projects[q] \/ projects'[q].salt = c
  <2>1. CASE Inserted(c) \/ Rekeyed(c)
    BY <1>1, <2>1, WritesOwnDraft DEF Inserted, Rekeyed, Wrote
  <2>2. CASE SecretWritten(c) \/ SecretDeleted(c)
    BY <2>2 DEF SecretWritten, SecretDeleted
  <2> QED
    BY <2>1, <2>2 DEF Wrote
<1>5. ASSUME NEW e \in applied', cmd[e].kind = "reset",
             NEW q \in Project, projects'[q] # None
      PROVE  projects'[q].salt # salt[e]
  <2>1. CASE e = c
    BY <1>3, <1>5, <2>1, RekeyRetires DEF Wrote
  <2>2. CASE e \in applied
    BY <1>1, <1>2, <1>4, <1>5, <2>2 DEF SaltsRetired, HasProject, ProjectKdf
  <2> QED
    BY <2>1, <2>2
<1>6. ASSUME NEW e \in applied, cmd[e].kind = "reset", cmd[c].kind = "reset"
      PROVE  salt[e] # salt[c]
  <2>1. HasProject(ProjectOf(c)) /\ ProjectKdf(ProjectOf(c)) = salt[c]
    BY <1>3, <1>6, RekeyRetires DEF Wrote
  <2> QED
    BY <1>1, <1>6, <2>1 DEF SaltsRetired, Wrote
<1>7. ASSUME NEW e \in applied', cmd[e].kind = "reset",
             NEW d \in applied', cmd[d].kind = "reset", salt[d] = salt[e]
      PROVE  d = e
  <2>1. CASE e \in applied /\ d \in applied
    BY <1>1, <1>7, <2>1 DEF SaltsRetired
  <2>2. CASE e = c \/ d = c
    BY <1>6, <1>7, <2>2
  <2> QED
    BY <2>1, <2>2
<1> QED
  BY <1>1, <1>5, <1>7 DEF SaltsRetired, HasProject, ProjectKdf

LEMMA ServerTables ==
    ASSUME SessionInv, NEW c \in Client, ServerStep(c)
    PROVE  TablesHistory'
<1>1. /\ request[c] # None
      /\ c \notin applied
      /\ UNCHANGED clientVars
      /\ UNCHANGED backup
      /\ secrets \in [Place -> SecretBlob \cup {None}]
  BY AtWorkUnapplied DEF ServerStep, SessionInv, IInv, TypeOK, ServerTypeOK, TablesTypeOK
<1>2. CASE UNCHANGED tables /\ applied' = applied
  BY <1>1, <1>2, KeepTablesHistory DEF clientVars
<1>3. CASE Wrote(c) /\ applied' = applied \cup {c}
  <2>1. NoncesApplied(secrets)'
    <3> SUFFICES ASSUME NEW x \in Place, secrets'[x] # None
                 PROVE  secrets'[x].nonce \in applied'
      BY DEF NoncesApplied
    <3>1. CASE secrets'[x] = secrets[x]
      BY <1>3, <3>1 DEF SessionInv, NoncesApplied
    <3>2. CASE secrets'[x] # secrets[x]
      <4>1. SecretWritten(c) /\ secrets'[x] = request[c].body
        BY <1>1, <1>3, <3>2 DEF Wrote, Inserted, Rekeyed, SecretWritten, SecretDeleted
      <4>2. request[c].body.nonce = c
        BY <1>1, <4>1 DEF SecretWritten, SessionInv, SessionCoherent
      <4> QED
        BY <1>3, <4>1, <4>2
    <3> QED
      BY <3>1, <3>2
  <2>2. (backup # None => NoncesApplied(backup.secrets))'
    BY <1>1, <1>3 DEF SessionInv, NoncesApplied
  <2>3. ("restore" \notin Faults => SaltsRetired)'
    BY <1>1, <1>3, ServerRetires
  <2> QED
    BY <2>1, <2>2, <2>3 DEF TablesHistory
<1> QED
  BY <1>2, <1>3, AnsweredWhenApplied

LEMMA ServerSession ==
    ASSUME SessionInv, NEW c \in Client, ServerStep(c)
    PROVE  SessionInv'
<1>1. /\ IInv
      /\ IInv'
      /\ stage[c] # "idle"
      /\ request' = request
      /\ \A d \in Client \ {c} : stage'[d] = stage[d] /\ reply'[d] = reply[d]
      /\ UNCHANGED clientVars
  BY ServeFrame, ServerStepKeeps DEF ServerStep, SessionInv
<1>2. /\ applied \subseteq applied'
      /\ \A d \in Client \ {c} : d \in applied' <=> d \in applied
  BY DEF ServerStep
<1>3. Stable
  BY <1>1, <1>2 DEF Stable, clientVars
<1>4. ClientCoherent(c)'
  <2>1. stage'[c] \in {"authorized", "replied"}
    BY AnsweredWhenApplied
  <2>2. ReadCoherent(c)'
    BY <2>1, AuthorizeReads, ReplyReads
  <2> QED
    BY <1>1, <1>3, <2>2, HandlerSession, ServerHistory DEF ClientCoherent
<1>5. ASSUME NEW d \in Client \ {c} PROVE ClientCoherent(d)'
  <2>1. Rests(d)
    BY <1>1 DEF Rests
  <2>2. RowKept(d)
    <3> SUFFICES ASSUME stage[d] = "authorized"
                 PROVE  /\ HasProject(ProjectOf(d))'
                        /\ ProjectMeta(ProjectOf(d))'.msg = ProjectMeta(ProjectOf(d)).msg
      BY DEF RowKept
    <3>1. ProjectOf(d) \in Project /\ HasProject(ProjectOf(d))
      BY <1>1, AuthorizedFacts DEF SessionInv, IInv, TypeOK, ServerInv, ReadCoherent
    <3>2. ProjectOf(d)' = ProjectOf(d)
      BY <1>1 DEF ProjectOf
    <3> QED
      BY <1>1, <3>1, <3>2, ServerKeepsDek DEF HasProject, ProjectMeta
  <2> QED
    BY <1>1, <1>2, <1>3, <2>1, <2>2, KeepClient DEF clientVars
<1> QED
  BY <1>1, <1>4, <1>5, ServerTables, Assemble

-----------------------------------------------------------------------------
(* Faults and the operator.                                                *)

LEMMA DropSession ==
    ASSUME SessionInv, IInv', NEW S \in SUBSET Client, Drop(S),
           UNCHANGED <<clientVars, applied, backup>>,
           \A d \in Client : RowKept(d),
           TablesHistory'
    PROVE  SessionInv'
<1>1. /\ UNCHANGED cmd /\ UNCHANGED pc /\ UNCHANGED salt
      /\ UNCHANGED dek /\ UNCHANGED draft /\ UNCHANGED outcome
  BY DEF clientVars
<1>2. Stable
  BY <1>1 DEF Stable
<1>3. \A d \in Client : Rests(d)
  BY DEF Drop, Rests
<1>4. \A d \in Client : ClientCoherent(d)'
  BY <1>1, <1>2, <1>3, KeepClient
<1> QED
  BY <1>4, Assemble

LEMMA HangUpSession ==
    ASSUME SessionInv, NEW S \in SUBSET Client, Drop(S),
           UNCHANGED tables, UNCHANGED <<clientVars, applied, backup>>, IInv'
    PROVE  SessionInv'
<1>1. \A d \in Client : RowKept(d)
  BY TablesKeepRows DEF Drop, Rests
<1>2. TablesHistory'
  BY KeepTablesHistory DEF clientVars, SessionInv, IInv, TypeOK
<1> QED
  BY <1>1, <1>2, DropSession

LEMMA DatabaseFailsSession ==
    ASSUME SessionInv, NEW c \in Client, DatabaseFails(c)
    PROVE  SessionInv'
<1>1. /\ IInv /\ IInv'
      /\ UNCHANGED tables
      /\ UNCHANGED <<clientVars, applied, backup>>
      /\ request' = request
      /\ Answer(c, "INTERNAL_SERVER_ERROR", None)
      /\ stage[c] \in {"received", "authorized"}
  BY SurroundingsKeep DEF DatabaseFails, DatabaseError, Handling, Answer, SessionInv
<1>2. /\ UNCHANGED cmd /\ UNCHANGED pc /\ UNCHANGED salt
      /\ UNCHANGED dek /\ UNCHANGED draft /\ UNCHANGED outcome
  BY <1>1 DEF clientVars
<1>3. Stable
  BY <1>1, <1>2 DEF Stable
<1>4. stage'[c] = "replied" /\ reply'[c].status \notin Success
  BY <1>1, AnswerGives DEF Success
<1>5. ClientCoherent(c)'
  <2>1. c \notin applied
    BY <1>1, AtWorkUnapplied
  <2>2. HistoryCoherent(c)
    BY DEF SessionInv
  <2>3. HistoryCoherent(c)'
    BY <1>1, <1>2, <1>4, <2>1, <2>2 DEF HistoryCoherent
  <2>4. ReadCoherent(c)'
    BY <1>4 DEF ReadCoherent
  <2> QED
    BY <1>1, <1>3, <2>3, <2>4, HandlerSession DEF ClientCoherent
<1>6. ASSUME NEW d \in Client \ {c} PROVE ClientCoherent(d)'
  <2>1. Rests(d)
    BY <1>1 DEF Answer, Rests, IInv, TypeOK, ServerTypeOK
  <2> QED
    BY <1>1, <1>2, <1>3, <2>1, TablesKeepRows, KeepClient
<1>7. TablesHistory'
  BY <1>1, <1>2, KeepTablesHistory DEF IInv, TypeOK
<1> QED
  BY <1>1, <1>5, <1>6, <1>7, Assemble

LEMMA TakeBackupSession == ASSUME SessionInv, TakeBackup PROVE SessionInv'
<1>1. /\ IInv'
      /\ UNCHANGED <<serverVars, clientVars, applied>>
      /\ backup'.secrets = secrets
  BY SurroundingsKeep DEF TakeBackup, SessionInv
<1>2. /\ UNCHANGED cmd /\ UNCHANGED pc /\ UNCHANGED salt
      /\ UNCHANGED dek /\ UNCHANGED draft /\ UNCHANGED outcome
      /\ UNCHANGED tables /\ UNCHANGED secrets
  BY <1>1 DEF clientVars, serverVars, tables
<1>3. Stable
  BY <1>1, <1>2 DEF Stable
<1>4. \A d \in Client : Rests(d)
  BY <1>1 DEF serverVars, Rests
<1>5. \A d \in Client : ClientCoherent(d)'
  BY <1>1, <1>2, <1>3, <1>4, TablesKeepRows, KeepClient
<1>6. TablesHistory'
  <2>1. "restore" \in Faults
    BY DEF TakeBackup
  <2> QED
    BY <1>1, <1>2, <2>1 DEF SessionInv, NoncesApplied, TablesHistory
<1> QED
  BY <1>1, <1>5, <1>6, Assemble

(* A restore stops every handler at work, so that none goes on with a row
   that another file held.                                                 *)
LEMMA RestoreSession == ASSUME SessionInv, RestoreBackup PROVE SessionInv'
<1>1. /\ IInv'
      /\ "restore" \in Faults
      /\ backup # None
      /\ secrets' = backup.secrets
      /\ UNCHANGED <<clientVars, applied, backup>>
      /\ Stop
  BY SurroundingsKeep DEF RestoreBackup, SessionInv
<1>2. PICK S \in SUBSET Client : Drop(S)
  BY <1>1, StopDrops
<1>3. \A d \in Client : RowKept(d)
  BY <1>1 DEF Stop, Drop, RowKept
<1>4. TablesHistory'
  BY <1>1 DEF SessionInv, NoncesApplied, TablesHistory
<1> QED
  BY <1>1, <1>2, <1>3, <1>4, DropSession

LEMMA StutterSession == ASSUME SessionInv, UNCHANGED vars PROVE SessionInv'
<1>1. /\ UNCHANGED tables
      /\ UNCHANGED <<stage, request, expected, reply>>
      /\ UNCHANGED <<cmd, pc, salt, dek, draft, outcome, applied, backup>>
  BY DEF vars, tables
<1>2. Stable
  BY <1>1 DEF Stable
<1>3. \A d \in Client : Rests(d)
  BY <1>1 DEF Rests
<1>4. \A d \in Client : ClientCoherent(d)'
  BY <1>1, <1>2, <1>3, TablesKeepRows, KeepClient
<1> QED
  BY <1>1, <1>4, StutterKeeps, KeepTablesHistory, Assemble DEF SessionInv

-----------------------------------------------------------------------------
(* The theorems.                                                           *)

LEMMA InitSessionInv == Init => SessionInv
<1> SUFFICES ASSUME Init PROVE SessionInv
  OBVIOUS
<1>1. IInv
  BY InitIInv
<1>2. None \notin Refusal /\ None # "ok" /\ None # "decrypt_failed"
  BY NoOutcome DEF Outcome
<1>3. ASSUME NEW c \in Client
      PROVE  SessionCoherent(c) /\ ReadCoherent(c) /\ HistoryCoherent(c)
  BY <1>2 DEF Init, ServerInit, SessionCoherent, ReadCoherent, HistoryCoherent
<1>4. NoncesApplied(secrets) /\ backup = None /\ SaltsRetired
  BY DEF Init, ServerInit, EmptyTables, NoncesApplied, SaltsRetired
<1> QED
  BY <1>1, <1>3, <1>4 DEF SessionInv

LEMMA NextSessionInv == SessionInv /\ [Next]_vars => SessionInv'
<1> SUFFICES ASSUME SessionInv, [Next]_vars PROVE SessionInv'
  OBVIOUS
<1>1. IInv'
  BY NextIInv DEF SessionInv
<1>2. ASSUME NEW c \in Client, NEW k \in Commands,
             Start(c, k) \/ StartInit(c, k) \/ StartResetToSamePassword(c, k)
      PROVE  SessionInv'
  BY <1>2, StartSession, StartInitSession, SamePasswordSession
<1>3. ASSUME NEW c \in Client, ClientStep(c) \/ GiveUp(c) PROVE SessionInv'
  BY <1>3, GotKdfSession, GotMetaSession, EndsSession DEF ClientStep
<1>4. ASSUME NEW c \in Client, ServerStep(c) PROVE SessionInv'
  BY <1>4, ServerSession
<1>5. ASSUME NEW c \in Client, NoticeHangUp(c) PROVE SessionInv'
  BY <1>1, <1>5, HangUpSession DEF NoticeHangUp, Disconnect
<1>6. ASSUME NEW c \in Client, DatabaseFails(c) PROVE SessionInv'
  BY <1>6, DatabaseFailsSession
<1>7. CASE ServerRestarts
  <2>1. PICK S \in SUBSET Client : Drop(S)
    BY <1>7, StopDrops DEF ServerRestarts, Restart
  <2> QED
    BY <1>1, <1>7, <2>1, HangUpSession DEF ServerRestarts, Restart
<1>8. CASE AllDone \/ UNCHANGED vars
  BY <1>8, StutterSession DEF AllDone
<1> QED
  BY <1>2, <1>3, <1>4, <1>5, <1>6, <1>7, <1>8, TakeBackupSession, RestoreSession DEF Next

(* Sessions, responses and history fit together through every interleaving
   and every fault (SessionInv).                                           *)
THEOREM SessionInvariant == Spec => []SessionInv
<1> QED
  BY InitSessionInv, NextSessionInv, PTL DEF Spec

(* What a session fetches it can decrypt, also when others reset the
   password between its requests or the operator restores a backup
   (ReadsDecrypt).                                                         *)
THEOREM SessionsRead == Spec => []ReadsDecrypt
<1>1. SessionInv => ReadsDecrypt
  BY DEF SessionInv, HistoryCoherent, ReadsDecrypt
<1> QED
  BY <1>1, SessionInvariant, PTL

(* A command that reports success has changed its row, and one that reports
   a refusal has not, under every fault (OutcomeTruthful).                 *)
THEOREM ReportsAreTrue == Spec => []OutcomeTruthful
<1>1. SessionInv => OutcomeTruthful
  BY DEF SessionInv, HistoryCoherent, OutcomeTruthful
<1> QED
  BY <1>1, SessionInvariant, PTL

(* Of the resets that start from one envelope at most one is acknowledged,
   unless an operator puts an old database file back (ResetsSerialize).    *)
THEOREM ResetsAreSerial == ASSUME "restore" \notin Faults PROVE Spec => []ResetsSerialize
<1>1. SessionInv => ResetsSerialize
  BY DEF SessionInv, HistoryCoherent, SaltsRetired, ResetsSerialize, Mutating
<1> QED
  BY <1>1, SessionInvariant, PTL

LEMMA ServerHashIsNew ==
    ASSUME SessionInv, NEW c \in Client, ServerStep(c),
           NEW p \in Project, projects'[p] # projects[p],
           NEW d \in applied, draft[d] # None
    PROVE  draft[d].auth_hash # projects'[p].auth_hash
<1>1. /\ IInv
      /\ request[c] # None
      /\ c \notin applied
      /\ projects \in [Project -> Row \cup {None}]
      /\ applied \subseteq Client
  BY AtWorkUnapplied DEF ServerStep, SessionInv, IInv, TypeOK, ServerTypeOK, TablesTypeOK
<1>2. Inserted(c) \/ Rekeyed(c)
  BY AnsweredWhenApplied DEF Wrote, SecretWritten, SecretDeleted, tables
<1>3. projects'[p] = draft[c] /\ draft[c] # None
  BY <1>1, <1>2, WritesOwnDraft DEF Inserted, Rekeyed
<1>4. /\ draft[c].auth_hash.sha256.salt = c
      /\ draft[d].auth_hash.sha256.salt = d
  BY <1>1, <1>3, DraftSalt
<1> QED
  BY <1>1, <1>3, <1>4

(* No auth hash that was replaced ever comes back (HashNeverComesBack), not
   even for a password that comes back, unless an operator puts an old
   database file back.                                                     *)
THEOREM HashesAreFresh == ASSUME "restore" \notin Faults PROVE Spec => HashNeverComesBack
<1> DEFINE Fresh == \A p \in Project :
                       projects'[p] # projects[p] =>
                           \A c \in applied :
                               draft[c] # None /\ ProjectName(cmd[c]) = p =>
                                   draft[c].auth_hash # projects'[p].auth_hash
<1>1. SessionInv /\ [Next]_vars => [Fresh]_vars
  <2> SUFFICES ASSUME SessionInv, [Next]_vars PROVE Fresh
    OBVIOUS
  <2>1. CASE UNCHANGED tables
    BY <2>1 DEF tables
  <2>2. ASSUME NEW c \in Client, ServerStep(c) PROVE Fresh
    BY <2>2, ServerHashIsNew
  <2> QED
    BY <2>1, <2>2, OnlyServerWrites
<1> QED
  BY <1>1, SessionInvariant, PTL DEF Spec, HashNeverComesBack

-----------------------------------------------------------------------------
(* The server among its clients.                                           *)

(* What a client sends is a request: the clients are one of the
   environments that KeybenServer admits.                                  *)
LEMMA SendsRequests ==
    ASSUME IInv, IInv', NEW c \in Client, NEW r, Receive(c, r)
    PROVE  r \in Request
<1>1. stage'[c] = "received" /\ request'[c] = r
  BY DEF Receive, IInv, TypeOK, ServerTypeOK
<1>2. request'[c] # None
  BY <1>1 DEF IInv, HandlersCoherent, HandlerCoherent
<1>3. request'[c] \in Request \cup {None}
  BY DEF IInv, TypeOK, ServerTypeOK
<1> QED
  BY <1>1, <1>2, <1>3

LEMMA StepsOfServer ==
    ASSUME Request \subseteq Requests, "restore" \notin Faults, IInv, IInv', [Next]_vars
    PROVE  [ServerNext]_serverVars
<1>1. ASSUME NEW c \in Client, NEW r, Receive(c, r) PROVE ServerNext
  BY <1>1, SendsRequests DEF ServerNext
<1>2. ASSUME NEW c \in Client, stage[c] = "replied", Drop({c}), UNCHANGED tables
      PROVE  ServerNext
  BY <1>2 DEF ServerNext, Disconnect
<1>3. ASSUME NEW c \in Client, NEW k \in Commands,
             Start(c, k) \/ StartInit(c, k) \/ StartResetToSamePassword(c, k)
      PROVE  [ServerNext]_serverVars
  BY <1>1, <1>3 DEF Start, StartInit, StartResetToSamePassword
<1>4. ASSUME NEW c \in Client, ClientStep(c) PROVE [ServerNext]_serverVars
  BY <1>1, <1>2, <1>4
     DEF ClientStep, GotKdf, UnlockFailed, ConfigVerified, GotMeta, GotResponse, Refused,
         ConnectionLost, Succeeded
<1>5. ASSUME NEW c \in Client, GiveUp(c) PROVE UNCHANGED serverVars
  BY <1>5 DEF GiveUp
<1>6. ASSUME NEW c \in Client, ServerStep(c) \/ NoticeHangUp(c) \/ DatabaseFails(c)
      PROVE  ServerNext
  BY <1>6 DEF ServerStep, NoticeHangUp, DatabaseFails, ServerNext
<1>7. CASE ServerRestarts
  BY <1>7 DEF ServerRestarts, ServerNext
<1>8. CASE AllDone \/ UNCHANGED vars
  BY <1>8 DEF AllDone, vars, serverVars
<1> QED
  BY <1>3, <1>4, <1>5, <1>6, <1>7, <1>8 DEF Next, TakeBackup, RestoreBackup

(* What is proved of the server in an environment that may send anything
   holds of the server among its clients: it implements SecretService.     *)
THEOREM SystemImplementsService ==
    ASSUME Request \subseteq Requests, "restore" \notin Faults
    PROVE  Spec => ServiceImplemented
<1>1. Init => ServerInit
  BY DEF Init
<1>2. IInv /\ IInv' /\ [Next]_vars => [ServerNext]_serverVars
  BY StepsOfServer
<1>3. Spec => ServerSpec
  BY <1>1, <1>2, Invariant, PTL DEF Spec, ServerSpec
<1> QED
  BY <1>3, ServerImplementsService, PTL
=============================================================================
