---------------------------- MODULE KeybenProofs ----------------------------
(***************************************************************************)
(* Proofs about Keyben: the inductive invariant, and from it the safety of *)
(* the envelope encryption, for every number of processes, projects and    *)
(* secrets, every set of commands and every combination of faults.         *)
(***************************************************************************)
EXTENDS Keyben, KeybenServerProofs

-----------------------------------------------------------------------------
(* The vocabulary is well typed, and its constructors are injective.       *)

LEMMA CommandFields ==
    ASSUME NEW k \in Commands
    PROVE  /\ k # None
           /\ k.token \in Token
           /\ k.password \in Password
           /\ k.project \in Project
           /\ ProjectName(k) \in Project
           /\ Trim[ProjectName(k)] = ProjectName(k)
           /\ k.kind \in {"set", "get", "list", "delete"} => k.env \in Env
           /\ k.kind \in {"set", "get", "delete"} => SecretName(k) \in Name
           /\ k.kind = "set" => k.value \in Value
           /\ k.kind \in {"init", "reset"} => PasswordSet(k) \in Password
           /\ k.kind \in {"init", "config", "set", "get", "list", "delete", "reset"}
<1>1. k \in Command
  BY CommandsAssumption
<1>2. /\ k # None
      /\ k.token \in Token
      /\ k.password \in Password
      /\ k.project \in Project
      /\ k.kind \in {"init", "config", "set", "get", "list", "delete", "reset"}
  BY <1>1, NoCommandOrBackup DEF Command
<1>3. ProjectName(k) \in Project /\ Trim[ProjectName(k)] = ProjectName(k)
  BY <1>2, CommandsAssumption, TrimAssumption DEF ProjectName
<1>4. k.kind \in {"set", "get", "delete"} => SecretName(k) \in Name
  BY CommandsAssumption, TrimAssumption DEF SecretName
<1> QED
  BY <1>2, <1>3, <1>4, CommandsAssumption DEF PasswordSet

LEMMA KeysTyped ==
    ASSUME NEW password \in Password, NEW s \in Random
    PROVE  /\ DeriveProjectKeys(password, s).enc_key \in EncKey
           /\ DeriveProjectKeys(password, s).auth_secret \in AuthSecret
           /\ DeriveProjectKeys(password, s).enc_key.salt = s
           /\ DeriveProjectKeys(password, s).auth_secret.salt = s
           /\ DeriveProjectKeys(password, s).auth_secret # None
<1>1. /\ DeriveProjectKeys(password, s).enc_key \in EncKey
      /\ DeriveProjectKeys(password, s).enc_key.salt = s
  BY DEF DeriveProjectKeys, HkdfSubkey, EncKey
<1>2. /\ DeriveProjectKeys(password, s).auth_secret \in AuthSecret
      /\ DeriveProjectKeys(password, s).auth_secret.salt = s
  BY DEF DeriveProjectKeys, HkdfSubkey, AuthSecret
<1> QED
  BY <1>1, <1>2, NoneAssumption

LEMMA EnvelopeTyped ==
    ASSUME NEW p \in Project, NEW password \in Password, NEW s \in Random, NEW d \in Random
    PROVE  /\ NewEnvelope(p, password, s, d) \in Row
           /\ NewEnvelope(p, password, s, d) # None
<1>1. WrapDek(DeriveProjectKeys(password, s), d, s, p) \in WrappedDek
  BY KeysTyped DEF WrapDek, Seal, WrappedDek
<1>2. Sha256(DeriveProjectKeys(password, s).auth_secret) \in AuthHash
  BY KeysTyped DEF Sha256, AuthHash
<1> QED
  BY <1>1, <1>2, NoneAssumption DEF NewEnvelope, Row

(* The columns of an envelope all remember its salt and its password.      *)
LEMMA EnvelopeFields ==
    ASSUME NEW p, NEW password, NEW s, NEW d
    PROVE  LET e == NewEnvelope(p, password, s, d)
               keys == DeriveProjectKeys(password, s) IN
           /\ e.salt = s
           /\ e.wrapped_dek.msg = d
           /\ e.wrapped_dek.key = keys.enc_key
           /\ e.wrapped_dek.key.salt = s
           /\ e.wrapped_dek.aad = WrapAad(p)
           /\ e.auth_hash = Sha256(keys.auth_secret)
           /\ e.auth_hash.sha256.salt = s
  BY DEF NewEnvelope, WrapDek, Seal, DeriveProjectKeys, HkdfSubkey, Sha256

LEMMA MessageTyped ==
    ASSUME NEW k \in Commands, NEW op \in Op,
           NEW auth \in AuthSecret \cup {None},
           NEW body \in Row \cup SecretBlob \cup {None},
           op \in InEnv => k.env \in Env,
           op \in Named => SecretName(k) \in Name
    PROVE  /\ Message(k, op, auth, body) \in Request
           /\ Message(k, op, auth, body) # None
           /\ Message(k, op, auth, body).op = op
           /\ Message(k, op, auth, body).auth = auth
           /\ Message(k, op, auth, body).body = body
           /\ CanonicalProject(Message(k, op, auth, body)) = ProjectName(k)
<1>1. Message(k, op, auth, body) \in Request
  BY CommandFields DEF Message, Request
<1> QED
  BY <1>1, RequestFields, CommandFields DEF Message, CanonicalProject

LEMMA BlobTyped ==
    ASSUME NEW key \in Random, NEW x \in Place, NEW nonce \in Random, NEW v \in Value
    PROVE  /\ EncryptSecret(key, x, nonce, v) \in SecretBlob
           /\ CanDecrypt(key, x, EncryptSecret(key, x, nonce, v))
  BY DEF EncryptSecret, CanDecrypt, Opens, Seal, SecretBlob

-----------------------------------------------------------------------------
(* What every step preserves.                                              *)

(* Nobody's envelope, nor the command it was drafted for, is ever replaced,
   and the history only grows.                                             *)
Stable ==
    /\ \A w \in Client : draft[w] # None => draft'[w] = draft[w] /\ cmd'[w] = cmd[w]
    /\ applied \subseteq applied'

LEMMA DraftSalt ==
    ASSUME IInv, NEW w \in Client, draft[w] # None
    PROVE  /\ draft[w].salt = w
           /\ draft[w].auth_hash.sha256.salt = w
           /\ draft[w].wrapped_dek.key.salt = w
           /\ draft[w] \in Row
  BY EnvelopeFields DEF IInv, ClientsCoherent, DraftCoherent, TypeOK

LEMMA KeepTables ==
    ASSUME IInv, Stable, UNCHANGED tables
    PROVE  TablesCoherent(projects, secrets)'
<1>1. \A p \in Project : projects[p] # None =>
         projects[p].salt \in Client /\ draft[projects[p].salt] # None
  BY DEF IInv, TablesCoherent, TypeOK
<1> QED
  BY <1>1 DEF IInv, TablesCoherent, Stable, tables

LEMMA KeepBackup ==
    ASSUME IInv, Stable, UNCHANGED backup
    PROVE  (backup # None => TablesCoherent(backup.projects, backup.secrets))'
<1> SUFFICES ASSUME backup # None
             PROVE  TablesCoherent(backup.projects, backup.secrets)'
  OBVIOUS
<1>1. \A p \in Project : backup.projects[p] # None =>
         backup.projects[p].salt \in Client /\ draft[backup.projects[p].salt] # None
  BY DEF IInv, TablesCoherent, TypeOK
<1> QED
  BY <1>1 DEF IInv, TablesCoherent, Stable

(* A client that a step does not concern stays coherent.                   *)
LEMMA KeepDraft ==
    ASSUME IInv, NEW d \in Client,
           pc'[d] = pc[d], cmd'[d] = cmd[d], draft'[d] = draft[d]
    PROVE  DraftCoherent(d)'
  BY DEF IInv, ClientsCoherent, DraftCoherent

LEMMA KeepRequest ==
    ASSUME IInv, Stable, NEW d \in Client,
           request'[d] = request[d], pc'[d] = pc[d] \/ pc'[d] # "start",
           cmd'[d] = cmd[d], draft'[d] = draft[d]
    PROVE  RequestCoherent(d)'
  BY DEF IInv, ClientsCoherent, RequestCoherent, Stable, DekOf

LEMMA KeepResponse ==
    ASSUME IInv, Stable, NEW d \in Client,
           request'[d] = request[d], stage'[d] = stage[d], reply'[d] = reply[d],
           salt'[d] = salt[d], pc'[d] = pc[d] \/ pc'[d] = "done"
    PROVE  ResponseCoherent(d)'
  BY DEF IInv, ClientsCoherent, ResponseCoherent, Stable

LEMMA KeepServer ==
    ASSUME IInv, UNCHANGED serverVars
    PROVE  ServerTypeOK' /\ HandlersCoherent'
  BY DEF IInv, TypeOK, ServerTypeOK, TablesTypeOK, HandlersCoherent, HandlerCoherent, serverVars

-----------------------------------------------------------------------------
(* A command ends.                                                         *)

LEMMA DropKeepsClients ==
    ASSUME IInv, Stable, NEW S \in SUBSET Client, Drop(S), UNCHANGED <<cmd, draft, salt>>,
           NEW d \in Client, pc'[d] = pc[d] \/ pc'[d] = "done"
    PROVE  RequestCoherent(d)' /\ ResponseCoherent(d)'
<1>1. CASE d \in S
  <2>1. request'[d] = None /\ stage'[d] = "idle"
    BY <1>1 DEF Drop
  <2>2. pc'[d] = "meta" => salt'[d] # None
    BY DEF IInv, ClientsCoherent, ResponseCoherent
  <2> QED
    BY <2>1, <2>2 DEF RequestCoherent, ResponseCoherent
<1>2. CASE d \notin S
  <2>1. /\ request'[d] = request[d]
        /\ stage'[d] = stage[d]
        /\ reply'[d] = reply[d]
    BY <1>2 DEF Drop
  <2> QED
    BY <2>1, KeepRequest, KeepResponse
<1> QED
  BY <1>1, <1>2

LEMMA FinishKeeps ==
    ASSUME IInv, NEW c \in Client, NEW how \in Outcome, Finish(c, how),
           pc[c] # "start",
           (Drop({c}) /\ UNCHANGED tables) \/ UNCHANGED serverVars,
           UNCHANGED <<cmd, salt, draft, applied, backup>>
    PROVE  IInv'
<1>1. Stable
  BY DEF Stable
<1>2. UNCHANGED tables
  BY DEF serverVars, tables
<1>3. ServerTypeOK' /\ HandlersCoherent'
  <2>1. CASE Drop({c})
    <3>1. TablesTypeOK'
      BY <1>2 DEF IInv, TypeOK, ServerTypeOK, TablesTypeOK, tables
    <3> QED
      BY <2>1, <3>1, DropKeeps DEF IInv, TypeOK, ServerInv
  <2> QED
    BY <2>1, KeepServer
<1>4. TypeOK'
  BY <1>3 DEF IInv, TypeOK, Finish, Waiting
<1>5. \A d \in Client : pc'[d] = pc[d] \/ pc'[d] = "done"
  BY DEF IInv, TypeOK, Finish
<1>6. ClientsCoherent'
  <2> SUFFICES ASSUME NEW d \in Client
               PROVE  DraftCoherent(d)' /\ RequestCoherent(d)' /\ ResponseCoherent(d)'
    BY DEF ClientsCoherent
  <2>1. DraftCoherent(d)'
    <3>1. CASE d = c
      BY <3>1 DEF IInv, TypeOK, ClientsCoherent, DraftCoherent, Finish
    <3>2. CASE d # c
      BY <3>2, KeepDraft DEF IInv, TypeOK, Finish
    <3> QED
      BY <3>1, <3>2
  <2>2. RequestCoherent(d)' /\ ResponseCoherent(d)'
    <3>1. CASE Drop({c})
      BY <1>1, <1>5, <3>1, DropKeepsClients
    <3>2. CASE UNCHANGED serverVars
      BY <1>1, <1>5, <3>2, KeepRequest, KeepResponse DEF serverVars
    <3> QED
      BY <3>1, <3>2
  <2> QED
    BY <2>1, <2>2
<1> QED
  BY <1>1, <1>2, <1>3, <1>4, <1>6, KeepTables, KeepBackup DEF IInv

LEMMA EndsKeep ==
    ASSUME IInv, NEW c \in Client,
           \/ UnlockFailed(c) \/ ConfigVerified(c) \/ GotResponse(c)
           \/ Refused(c) \/ ConnectionLost(c) \/ GiveUp(c)
    PROVE  IInv'
<1>1. pc[c] # "start"
  BY DEF UnlockFailed, ConfigVerified, GotResponse, Refused, ConnectionLost, GiveUp,
         Succeeded, Waiting
<1>2. {"ok", "unlock_failed", "decrypt_failed", "lost", "gave_up"} \cup Refusal \subseteq Outcome
  BY DEF Outcome
<1>3. CASE UnlockFailed(c)
  BY <1>1, <1>2, <1>3, FinishKeeps DEF UnlockFailed
<1>4. CASE ConfigVerified(c)
  BY <1>1, <1>2, <1>4, FinishKeeps DEF ConfigVerified
<1>5. CASE GotResponse(c)
  BY <1>1, <1>2, <1>5, FinishKeeps DEF GotResponse
<1>6. CASE Refused(c)
  <2>1. reply[c] \in Reply
    BY <1>6 DEF Refused, IInv, TypeOK, ServerTypeOK, HandlersCoherent, HandlerCoherent
  <2>2. reply[c].status \in Refusal
    BY <1>6, <2>1 DEF Refused, Reply
  <2> QED
    BY <1>1, <1>2, <1>6, <2>2, FinishKeeps DEF Refused
<1>7. CASE ConnectionLost(c)
  BY <1>1, <1>2, <1>7, FinishKeeps DEF ConnectionLost
<1>8. CASE GiveUp(c)
  BY <1>1, <1>2, <1>8, FinishKeeps DEF GiveUp
<1> QED
  BY <1>3, <1>4, <1>5, <1>6, <1>7, <1>8

-----------------------------------------------------------------------------
(* A command goes on to its next request.                                  *)

LEMMA SendKeeps ==
    ASSUME IInv, NEW c \in Client, \E r \in Request : Receive(c, r),
           Stable, UNCHANGED <<applied, backup>>,
           \A d \in Client \ {c} : /\ pc'[d] = pc[d] /\ cmd'[d] = cmd[d]
                                   /\ salt'[d] = salt[d] /\ draft'[d] = draft[d],
           cmd' \in [Client -> Commands \cup {None}],
           pc' \in [Client -> {"start", "done"} \cup Waiting],
           salt' \in [Client -> Random \cup {None}],
           dek' \in [Client -> Random \cup {None}],
           draft' \in [Client -> Row \cup {None}],
           outcome' = outcome,
           DraftCoherent(c)', RequestCoherent(c)', ResponseCoherent(c)'
    PROVE  IInv'
<1>1. PICK r \in Request : Receive(c, r)
  OBVIOUS
<1>2. ServerTypeOK' /\ HandlersCoherent'
  BY <1>1, ReceiveKeeps DEF IInv, TypeOK, ServerInv
<1>3. TypeOK'
  BY <1>2 DEF IInv, TypeOK
<1>4. UNCHANGED tables
  BY <1>1 DEF Receive, tables
<1>5. ClientsCoherent'
  <2> SUFFICES ASSUME NEW d \in Client, d # c
               PROVE  DraftCoherent(d)' /\ RequestCoherent(d)' /\ ResponseCoherent(d)'
    BY DEF ClientsCoherent
  <2>1. /\ request'[d] = request[d]
        /\ stage'[d] = stage[d]
        /\ reply'[d] = reply[d]
    BY <1>1 DEF Receive, IInv, TypeOK, ServerTypeOK
  <2> QED
    BY <2>1, KeepDraft, KeepRequest, KeepResponse
<1> QED
  BY <1>2, <1>3, <1>4, <1>5, KeepTables, KeepBackup DEF IInv

LEMMA StartKeeps ==
    ASSUME IInv, NEW c \in Client, NEW k \in Commands, Start(c, k)
    PROVE  IInv'
<1> DEFINE r == Message(k, "get_project_kdf", None, None)
<1>1. /\ r \in Request
      /\ r # None
      /\ r.op = "get_project_kdf"
      /\ CanonicalProject(r) = ProjectName(k)
  BY MessageTyped DEF Op, Unauthenticated, InEnv, Named
<1>2. /\ request'[c] = r
      /\ Receive(c, r)
  BY DEF Start, Receive, IInv, TypeOK, ServerTypeOK
<1> HIDE DEF r
<1>3. cmd'[c] = k /\ pc'[c] = "kdf" /\ draft'[c] = draft[c]
  BY DEF Start, IInv, TypeOK
<1>4. draft[c] = None
  BY DEF Start, IInv, ClientsCoherent, DraftCoherent
<1>5. Stable
  BY <1>4 DEF Start, Stable, IInv, TypeOK
<1>6. DraftCoherent(c)'
  BY <1>3, <1>4, CommandFields DEF DraftCoherent, Start
<1>7. RequestCoherent(c)'
  BY <1>1, <1>2, <1>3 DEF RequestCoherent, Enveloped
<1>8. ResponseCoherent(c)'
  BY <1>1, <1>2, <1>3 DEF ResponseCoherent
<1>9. \A d \in Client \ {c} : /\ pc'[d] = pc[d] /\ cmd'[d] = cmd[d]
                             /\ salt'[d] = salt[d] /\ draft'[d] = draft[d]
  BY DEF Start, IInv, TypeOK
<1>10. /\ cmd' \in [Client -> Commands \cup {None}]
       /\ pc' \in [Client -> {"start", "done"} \cup Waiting]
       /\ salt' \in [Client -> Random \cup {None}]
       /\ dek' \in [Client -> Random \cup {None}]
       /\ draft' \in [Client -> Row \cup {None}]
  BY DEF Start, IInv, TypeOK, Waiting
<1> QED
  BY <1>1, <1>2, <1>5, <1>6, <1>7, <1>8, <1>9, <1>10, SendKeeps DEF Start

LEMMA StartInitKeeps ==
    ASSUME IInv, NEW c \in Client, NEW k \in Commands, StartInit(c, k)
    PROVE  IInv'
<1> DEFINE e == NewEnvelope(ProjectName(k), k.password, c, c)
           r == Message(k, "create_project", None, e)
<1>0. c \in Random
  BY CommandsAssumption
<1>1. e \in Row /\ e # None
  BY <1>0, EnvelopeTyped, CommandFields
<1>2. draft'[c] = e /\ draft' \in [Client -> Row \cup {None}]
  BY <1>1 DEF StartInit, IInv, TypeOK
<1>3. e = NewEnvelope(ProjectName(k), PasswordSet(k), c, c)
  BY DEF StartInit, PasswordSet
<1> HIDE DEF e
<1>4. /\ r \in Request
      /\ r # None
      /\ r.op = "create_project"
      /\ r.body = e
      /\ CanonicalProject(r) = ProjectName(k)
  <2>1. /\ "create_project" \in Op
        /\ "create_project" \notin InEnv
        /\ "create_project" \notin Named
    BY DEF Op, Unauthenticated, InEnv, Named
  <2>2. e \in Row \cup SecretBlob \cup {None}
    BY <1>1
  <2>3. None \in AuthSecret \cup {None}
    OBVIOUS
  <2> QED
    BY <2>1, <2>2, <2>3, MessageTyped
<1>5. /\ request'[c] = r
      /\ Receive(c, r)
  BY <1>2 DEF StartInit, Receive, IInv, TypeOK, ServerTypeOK
<1> HIDE DEF r
<1>6. cmd'[c] = k /\ pc'[c] = "create"
  BY DEF StartInit, IInv, TypeOK
<1>7. Stable
  BY DEF StartInit, Stable, IInv, TypeOK, ClientsCoherent, DraftCoherent
<1>8. DraftCoherent(c)'
  BY <1>0, <1>2, <1>3, <1>6, CommandFields DEF DraftCoherent
<1>9. RequestCoherent(c)'
  BY <1>1, <1>2, <1>4, <1>5, <1>6 DEF RequestCoherent
<1>10. ResponseCoherent(c)'
  BY <1>4, <1>5, <1>6 DEF ResponseCoherent
<1>11. \A d \in Client \ {c} : /\ pc'[d] = pc[d] /\ cmd'[d] = cmd[d]
                              /\ salt'[d] = salt[d] /\ draft'[d] = draft[d]
  BY DEF StartInit, IInv, TypeOK
<1>12. /\ cmd' \in [Client -> Commands \cup {None}]
       /\ pc' \in [Client -> {"start", "done"} \cup Waiting]
       /\ salt' \in [Client -> Random \cup {None}]
       /\ dek' \in [Client -> Random \cup {None}]
  BY DEF StartInit, IInv, TypeOK, Waiting
<1> QED
  BY <1>2, <1>4, <1>5, <1>7, <1>8, <1>9, <1>10, <1>11, <1>12, SendKeeps DEF StartInit

LEMMA SamePasswordKeeps ==
    ASSUME IInv, NEW c \in Client, NEW k \in Commands, StartResetToSamePassword(c, k)
    PROVE  IInv'
<1>1. /\ cmd'[c] = k /\ pc'[c] = "done" /\ draft'[c] = None
      /\ pc[c] = "start" /\ draft[c] = None
  BY DEF StartResetToSamePassword, Finish, IInv, TypeOK, ClientsCoherent, DraftCoherent
<1>2. ServerTypeOK' /\ HandlersCoherent'
  BY KeepServer DEF StartResetToSamePassword
<1>3. TypeOK'
  BY <1>2 DEF StartResetToSamePassword, Finish, IInv, TypeOK, Waiting, Outcome
<1>4. Stable
  BY <1>1 DEF StartResetToSamePassword, Stable, IInv, TypeOK
<1>5. UNCHANGED tables
  BY DEF StartResetToSamePassword, serverVars, tables
<1>6. ClientsCoherent'
  <2> SUFFICES ASSUME NEW d \in Client
               PROVE  DraftCoherent(d)' /\ RequestCoherent(d)' /\ ResponseCoherent(d)'
    BY DEF ClientsCoherent
  <2>1. CASE d = c
    <3>1. request[c] = None
      BY <1>1 DEF IInv, ClientsCoherent, RequestCoherent
    <3>2. request'[c] = None /\ stage'[c] = "idle"
      BY <1>2, <3>1 DEF StartResetToSamePassword, serverVars, HandlersCoherent, HandlerCoherent
    <3> QED
      BY <1>1, <2>1, <3>2, CommandFields DEF DraftCoherent, RequestCoherent, ResponseCoherent
  <2>2. CASE d # c
    <3>1. /\ pc'[d] = pc[d] /\ cmd'[d] = cmd[d] /\ draft'[d] = draft[d]
          /\ salt'[d] = salt[d] /\ request'[d] = request[d]
          /\ stage'[d] = stage[d] /\ reply'[d] = reply[d]
      BY <2>2 DEF StartResetToSamePassword, Finish, serverVars, IInv, TypeOK
    <3> QED
      BY <1>4, <3>1, KeepDraft, KeepRequest, KeepResponse
  <2> QED
    BY <2>1, <2>2
<1> QED
  BY <1>2, <1>3, <1>4, <1>5, <1>6, KeepTables, KeepBackup DEF IInv, StartResetToSamePassword

(* A process past its start runs a command.                                *)
LEMMA RunsCommand ==
    ASSUME IInv, NEW c \in Client, pc[c] # "start"
    PROVE  cmd[c] \in Commands
  BY DEF IInv, TypeOK, ClientsCoherent, DraftCoherent

LEMMA GotKdfKeeps ==
    ASSUME IInv, NEW c \in Client, GotKdf(c)
    PROVE  IInv'
<1> DEFINE k == cmd[c]
           s == reply[c].body.salt
           a == KeysOf(k, s).auth_secret
           r == Message(k, "get_project_meta", a, None)
<1>1. /\ pc[c] = "kdf"
      /\ stage[c] = "replied"
      /\ reply[c].status \in Success
      /\ request[c].op = "get_project_kdf"
      /\ draft[c] = None
      /\ k \in Commands
      /\ k.kind # "init"
  BY RunsCommand DEF GotKdf, Succeeded, IInv, ClientsCoherent, ResponseCoherent, DraftCoherent
<1>2. s \in Random
  <2>1. reply[c].body \in BodyOf("get_project_kdf")
    BY <1>1 DEF IInv, HandlersCoherent, HandlerCoherent
  <2> QED
    BY <2>1 DEF BodyOf, ProjectKdfBody
<1>3. a \in AuthSecret
  BY <1>1, <1>2, KeysTyped, CommandFields DEF KeysOf
<1>4. salt'[c] = s /\ salt' \in [Client -> Random \cup {None}]
  BY <1>2 DEF GotKdf, IInv, TypeOK
<1>5. /\ r \in Request
      /\ r # None
      /\ r.op = "get_project_meta"
      /\ CanonicalProject(r) = ProjectName(k)
  <2>1. /\ "get_project_meta" \in Op
        /\ "get_project_meta" \notin InEnv
        /\ "get_project_meta" \notin Named
    BY DEF Op, InEnv, Named
  <2> HIDE DEF a, k
  <2> QED
    BY <1>1, <1>3, <2>1, MessageTyped
<1>6. /\ request'[c] = r
      /\ \E m \in Request : Receive(c, m)
  BY <1>4, <1>5 DEF GotKdf, Receive, IInv, TypeOK, ServerTypeOK
<1> HIDE DEF r, a, s
<1>7. pc'[c] = "meta" /\ UNCHANGED <<cmd, draft, dek, outcome, applied, backup>>
  BY DEF GotKdf, IInv, TypeOK
<1>8. Stable
  BY <1>7 DEF Stable
<1>9. DraftCoherent(c)'
  BY <1>1, <1>7, CommandFields DEF DraftCoherent
<1>10. RequestCoherent(c)'
  BY <1>5, <1>6, <1>7 DEF RequestCoherent, Enveloped
<1>11. ResponseCoherent(c)'
  <2>1. stage'[c] = "received"
    BY DEF GotKdf, Receive, IInv, TypeOK, ServerTypeOK
  <2> QED
    BY <1>2, <1>4, <1>5, <1>6, <1>7, <2>1, NoneAssumption DEF ResponseCoherent
<1>12. \A d \in Client \ {c} : /\ pc'[d] = pc[d] /\ cmd'[d] = cmd[d]
                              /\ salt'[d] = salt[d] /\ draft'[d] = draft[d]
  BY DEF GotKdf, IInv, TypeOK
<1>13. /\ cmd' \in [Client -> Commands \cup {None}]
       /\ pc' \in [Client -> {"start", "done"} \cup Waiting]
       /\ dek' \in [Client -> Random \cup {None}]
       /\ draft' \in [Client -> Row \cup {None}]
  BY DEF GotKdf, IInv, TypeOK, Waiting
<1> QED
  BY <1>4, <1>6, <1>7, <1>8, <1>9, <1>10, <1>11, <1>12, <1>13, SendKeeps

(* Which operation a command is for.                                       *)
LEMMA OpOfFields ==
    ASSUME NEW k \in Commands, k.kind \notin {"init", "config"}
    PROVE  /\ OpOf(k) \in Op
           /\ OpOf(k) \in InEnv => k.env \in Env
           /\ OpOf(k) \in Named => SecretName(k) \in Name
           /\ OpOf(k) = "set_secret" <=> k.kind = "set"
           /\ OpOf(k) = "reset_project_password" <=> k.kind = "reset"
           /\ OpOf(k) # "create_project"
           /\ OpOf(k) # "get_project_meta"
           /\ OpOf(k) \in Enveloped <=> k.kind = "reset"
<1>1. k.kind \in {"set", "get", "list", "delete", "reset"}
  BY CommandFields
<1>2. CASE k.kind \in {"set", "get", "delete"}
  <2>1. k.env \in Env /\ SecretName(k) \in Name
    BY <1>2, CommandFields
  <2> QED
    BY <1>2, <2>1 DEF OpOf, Op, InEnv, Named, Enveloped, Unauthenticated
<1>3. CASE k.kind = "list"
  <2>1. k.env \in Env
    BY <1>3, CommandFields
  <2> QED
    BY <1>3, <2>1 DEF OpOf, Op, InEnv, Named, Enveloped, Unauthenticated
<1>4. CASE k.kind = "reset"
  BY <1>4 DEF OpOf, Op, InEnv, Named, Enveloped, Unauthenticated
<1> QED
  BY <1>1, <1>2, <1>3, <1>4

(* The DEK that a process unwraps is the one of the envelope whose salt it
   has fetched: no other envelope was wrapped under that key.              *)
LEMMA UnwrapsDraft ==
    ASSUME IInv, NEW c \in Client, Succeeded(c, "meta"), Unlocks(c)
    PROVE  \E w \in Client :
              /\ draft[w] # None
              /\ w = salt[c]
              /\ reply[c].body.wrapped_dek.msg = DekOf(w)
<1>1. request[c].op = "get_project_meta"
  BY DEF Succeeded, IInv, ClientsCoherent, ResponseCoherent
<1>2. PICK w \in Client :
         draft[w] # None /\ reply[c].body.wrapped_dek = draft[w].wrapped_dek
  BY <1>1 DEF Succeeded, IInv, ClientsCoherent, ResponseCoherent
<1>3. reply[c].body.wrapped_dek.key.salt = salt[c]
  <2>1. reply[c].body.wrapped_dek.key = KeysOf(cmd[c], salt[c]).enc_key
    BY DEF Unlocks, CanUnwrap, Opens
  <2>2. KeysOf(cmd[c], salt[c]).enc_key.salt = salt[c]
    BY DEF KeysOf, DeriveProjectKeys, HkdfSubkey
  <2> QED
    BY <2>1, <2>2
<1>4. draft[w].wrapped_dek.key.salt = w
  BY <1>2, DraftSalt
<1> QED
  BY <1>2, <1>3, <1>4 DEF DekOf

LEMMA GotMetaKeeps ==
    ASSUME IInv, NEW c \in Client, GotMeta(c)
    PROVE  IInv'
<1> DEFINE k == cmd[c]
           d == reply[c].body.wrapped_dek.msg
           a == KeysOf(k, salt[c]).auth_secret
           e == NewEnvelope(ProjectName(k), PasswordSet(k), c, d)
           x == SecretPlace(k)
           blob == EncryptSecret(d, x, c, k.value)
           body == CASE k.kind = "reset" -> e
                     [] k.kind = "set"   -> blob
                     [] OTHER            -> None
           r == Message(k, OpOf(k), a, body)
<1>1. /\ pc[c] = "meta"
      /\ stage[c] = "replied"
      /\ draft[c] = None
      /\ k \in Commands
      /\ k.kind \notin {"init", "config"}
      /\ c \in Random
      /\ Succeeded(c, "meta")
      /\ Unlocks(c)
  BY RunsCommand, CommandsAssumption
     DEF GotMeta, Succeeded, IInv, ClientsCoherent, DraftCoherent
<1>2. PICK w \in Client : draft[w] # None /\ w = salt[c] /\ d = DekOf(w)
  BY <1>1, UnwrapsDraft
<1>3. w # c /\ w \in Random
  BY <1>1, <1>2, CommandsAssumption
<1>4. d \in Random
  <2>1. draft[w] \in Row
    BY <1>2 DEF IInv, TypeOK
  <2> QED
    BY <1>2, <2>1 DEF DekOf, Row, WrappedDek
<1>5. a \in AuthSecret /\ a.salt = w
  BY <1>1, <1>2, <1>3, KeysTyped, CommandFields DEF KeysOf
<1>6. k.kind = "reset" => e \in Row /\ e # None /\ e.wrapped_dek.msg = d
  BY <1>1, <1>4, CommandFields, EnvelopeTyped, EnvelopeFields
<1>7. k.kind = "set" => blob \in SecretBlob /\ CanDecrypt(d, x, blob)
  <2> SUFFICES ASSUME k.kind = "set"
               PROVE  blob \in SecretBlob /\ CanDecrypt(d, x, blob)
    OBVIOUS
  <2>1. x \in Place /\ k.value \in Value
    BY <1>1, CommandFields DEF SecretPlace, Place
  <2> HIDE DEF k, d, x
  <2> QED
    BY <1>1, <1>4, <2>1, BlobTyped
<1>8. draft'[c] = IF k.kind = "reset" THEN e ELSE None
  BY <1>1 DEF GotMeta, Rekey, PasswordSet, IInv, TypeOK
<1>9. /\ body \in Row \cup SecretBlob \cup {None}
      /\ k.kind = "reset" => body = e
      /\ k.kind = "set" => body = blob
  BY <1>6, <1>7
<1>10. Receive(c, r)
  <2>1. dek'[c] = d
    BY DEF GotMeta, IInv, TypeOK
  <2>2. (CASE k.kind = "reset" -> draft'[c]
           [] k.kind = "set"   -> EncryptSecret(dek'[c], SecretPlace(k), c, k.value)
           [] OTHER            -> None) = body
    BY <1>8, <2>1
  <2> QED
    BY <2>2 DEF GotMeta
<1>11. /\ r \in Request
       /\ r # None
       /\ r.op = OpOf(k)
       /\ r.auth = a
       /\ r.body = body
       /\ CanonicalProject(r) = ProjectName(k)
  <2>1. /\ OpOf(k) \in Op
        /\ OpOf(k) \in InEnv => k.env \in Env
        /\ OpOf(k) \in Named => SecretName(k) \in Name
    BY <1>1, OpOfFields
  <2>2. a \in AuthSecret \cup {None}
    BY <1>5
  <2> HIDE DEF k, a, body
  <2> QED
    BY <1>1, <1>9, <2>1, <2>2, MessageTyped
<1>12. k.kind = "set" => PlaceOf(r) = x
  <2> SUFFICES ASSUME k.kind = "set" PROVE PlaceOf(r) = x
    OBVIOUS
  <2>1. r.env = k.env /\ r.name = SecretName(k)
    BY <1>1, OpOfFields DEF Message, InEnv, Named
  <2> QED
    BY <1>11, <2>1 DEF PlaceOf, SecretPlace
<1>13. /\ request'[c] = r
       /\ \E m \in Request : Receive(c, m)
  BY <1>10, <1>11 DEF Receive, IInv, TypeOK, ServerTypeOK
<1>14. /\ pc'[c] = "op"
       /\ UNCHANGED <<cmd, salt, outcome, applied, backup>>
  BY DEF GotMeta, IInv, TypeOK
<1>15. \A b \in Client \ {c} : draft'[b] = draft[b] /\ pc'[b] = pc[b]
  BY DEF GotMeta, IInv, TypeOK
<1>16. Stable
  BY <1>1, <1>14, <1>15 DEF Stable
<1>17. draft'[w] = draft[w] /\ draft'[w] # None /\ DekOf(w)' = d
  BY <1>2, <1>3, <1>15 DEF DekOf
<1>18. k.kind = "reset" => draft'[c] = e /\ e # None /\ DekOf(c)' = d
  BY <1>6, <1>8 DEF DekOf
<1>19. cmd'[c] = k
  BY <1>14
<1>20. cmd' \in [Client -> Commands \cup {None}]
  BY <1>14 DEF IInv, TypeOK
<1>21. pc' \in [Client -> {"start", "done"} \cup Waiting]
  BY DEF GotMeta, IInv, TypeOK, Waiting
<1>22. salt' \in [Client -> Random \cup {None}]
  BY <1>14 DEF IInv, TypeOK
<1>23. dek' \in [Client -> Random \cup {None}]
  BY <1>4 DEF GotMeta, IInv, TypeOK
<1>24. draft' \in [Client -> Row \cup {None}]
  BY <1>6, <1>8, <1>15 DEF GotMeta, IInv, TypeOK, Rekey
<1>25. /\ OpOf(k) = "set_secret" <=> k.kind = "set"
       /\ OpOf(k) = "reset_project_password" <=> k.kind = "reset"
       /\ OpOf(k) \in Enveloped <=> k.kind = "reset"
  BY <1>1, OpOfFields
<1>26. DraftCoherent(c)'
  <2>1. cmd'[c] # None
    BY <1>1, <1>19, CommandFields
  <2>2. CASE k.kind = "reset"
    <3>1. draft'[c] = NewEnvelope(ProjectName(cmd'[c]), PasswordSet(cmd'[c]), c, d)
      BY <1>8, <1>19, <2>2
    <3> QED
      BY <1>4, <1>14, <2>1, <3>1 DEF DraftCoherent
  <2>3. CASE k.kind # "reset"
    BY <1>8, <1>14, <2>1, <2>3 DEF DraftCoherent
  <2> QED
    BY <2>2, <2>3
<1> HIDE DEF r, body, e, blob, x, a, d, k
<1>27. RequestCoherent(c)'
  <2>1. r.op = "set_secret" => CanDecrypt(d, PlaceOf(r), r.body)
    BY <1>7, <1>9, <1>11, <1>12, <1>25
  <2>2. r.op \in Enveloped => draft'[c] # None /\ r.body = draft'[c]
    BY <1>9, <1>11, <1>18, <1>25
  <2>3. r.op = "reset_project_password" => DekOf(c)' = DekOf(w)'
    BY <1>11, <1>17, <1>18, <1>25
  <2>4. CanonicalProject(r) = ProjectName(cmd'[c])
    BY <1>11, <1>19
  <2> QED
    BY <1>5, <1>11, <1>13, <1>14, <1>17, <2>1, <2>2, <2>3, <2>4 DEF RequestCoherent
<1>28. ResponseCoherent(c)'
  <2>1. stage'[c] = "received"
    BY <1>10 DEF Receive, IInv, TypeOK, ServerTypeOK
  <2> QED
    BY <1>14, <2>1 DEF ResponseCoherent
<1> QED
  BY <1>13, <1>14, <1>15, <1>16, <1>20, <1>21, <1>22, <1>23, <1>24, <1>26, <1>27, <1>28,
     SendKeeps

-----------------------------------------------------------------------------
(* The server.                                                             *)

(* A handler changes its own stage and reply, and nothing of the clients.  *)
LEMMA HandlerKeeps ==
    ASSUME IInv, NEW c \in Client,
           stage[c] # "idle", request' = request,
           \A d \in Client \ {c} : stage'[d] = stage[d] /\ reply'[d] = reply[d],
           UNCHANGED <<clientVars, backup>>,
           applied \subseteq applied', applied' \subseteq Client,
           ServerTypeOK', HandlersCoherent',
           TablesCoherent(projects, secrets)',
           /\ stage'[c] = "replied" /\ reply'[c].status \in Success
           /\ request[c].op = "get_project_meta"
           => \E w \in Client :
                 draft[w] # None /\ reply'[c].body.wrapped_dek = draft[w].wrapped_dek
    PROVE  IInv'
<1>1. /\ UNCHANGED cmd /\ UNCHANGED pc /\ UNCHANGED salt
      /\ UNCHANGED dek /\ UNCHANGED draft /\ UNCHANGED outcome
  BY DEF clientVars
<1>2. Stable
  BY <1>1 DEF Stable
<1>3. TypeOK'
  BY <1>1 DEF IInv, TypeOK
<1>4. ClientsCoherent'
  <2> SUFFICES ASSUME NEW d \in Client
               PROVE  DraftCoherent(d)' /\ RequestCoherent(d)' /\ ResponseCoherent(d)'
    BY DEF ClientsCoherent
  <2>1. DraftCoherent(d)' /\ RequestCoherent(d)'
    BY <1>1, <1>2, KeepDraft, KeepRequest
  <2>2. ResponseCoherent(d)'
    <3>1. CASE d = c
      BY <1>1, <3>1 DEF IInv, ClientsCoherent, ResponseCoherent
    <3>2. CASE d # c
      BY <1>1, <1>2, <3>2, KeepResponse
    <3> QED
      BY <3>1, <3>2
  <2> QED
    BY <2>1, <2>2
<1> QED
  BY <1>2, <1>3, <1>4, KeepBackup DEF IInv

LEMMA ServeFrame ==
    ASSUME IInv, NEW c \in Client, Serve(c)
    PROVE  /\ stage[c] # "idle"
           /\ request' = request
           /\ \A d \in Client \ {c} : stage'[d] = stage[d] /\ reply'[d] = reply[d]
<1>1. /\ stage \in [Client -> Stage]
      /\ reply \in [Client -> Reply \cup {None}]
  BY DEF IInv, TypeOK, ServerTypeOK
<1>2. ASSUME NEW status, NEW body, Answer(c, status, body)
      PROVE  /\ request' = request
             /\ \A d \in Client \ {c} : stage'[d] = stage[d] /\ reply'[d] = reply[d]
  BY <1>1, <1>2 DEF Answer
<1>3. CASE Unauthorized(c)
  BY <1>2, <1>3 DEF Unauthorized
<1>4. CASE RejectInvalid(c)
  BY <1>2, <1>4 DEF RejectInvalid
<1>5. CASE Authorize(c)
  BY <1>1, <1>2, <1>5 DEF Authorize, Handling
<1>6. CASE CreateProject(c)
  BY <1>2, <1>6 DEF CreateProject, Handling
<1>7. CASE GetProjectKdf(c)
  BY <1>2, <1>7 DEF GetProjectKdf, Handling
<1>8. CASE GetProjectMeta(c)
  BY <1>2, <1>8 DEF GetProjectMeta, Authorized
<1>9. CASE ResetProjectPassword(c)
  BY <1>2, <1>9 DEF ResetProjectPassword, Authorized
<1>10. CASE SetSecret(c)
  BY <1>2, <1>10 DEF SetSecret, Authorized
<1>11. CASE GetSecret(c)
  BY <1>2, <1>11 DEF GetSecret, Authorized
<1>12. CASE ListSecrets(c)
  BY <1>2, <1>12 DEF ListSecrets, Authorized
<1>13. CASE DeleteSecret(c)
  BY <1>2, <1>13 DEF DeleteSecret, Authorized
<1> QED
  BY <1>3, <1>4, <1>5, <1>6, <1>7, <1>8, <1>9, <1>10, <1>11, <1>12, <1>13 DEF Serve

(* The salt of an auth hash tells which envelope it belongs to: a request
   that passes the gate was prepared from the row it is about to change, or
   whose secret it is about to write.                                      *)
LEMMA GatedByDraft ==
    ASSUME IInv, NEW c \in Client, stage[c] = "authorized",
           request[c].op \in {"set_secret", "reset_project_password"},
           PasswordMatches(ProjectOf(c), expected[c])
    PROVE  LET row == projects[ProjectOf(c)] IN
           /\ request[c].op = "set_secret" =>
                 CanDecrypt(row.wrapped_dek.msg, PlaceOf(request[c]), request[c].body)
           /\ request[c].op = "reset_project_password" =>
                 row.wrapped_dek.msg = DekOf(c)
<1> DEFINE row == projects[ProjectOf(c)]
<1>1. /\ request[c] # None
      /\ expected[c] = Sha256(request[c].auth)
      /\ ProjectOf(c) \in Project
  BY AuthorizedFacts, RequestFields DEF IInv, TypeOK, ServerInv
<1>2. PICK w \in Client :
         /\ draft[w] # None
         /\ request[c].auth.salt = w
         /\ request[c].op = "set_secret" =>
               CanDecrypt(DekOf(w), PlaceOf(request[c]), request[c].body)
         /\ request[c].op = "reset_project_password" => DekOf(c) = DekOf(w)
  BY <1>1 DEF IInv, ClientsCoherent, RequestCoherent
<1>3. row # None /\ row.auth_hash = expected[c]
  BY DEF PasswordMatches, HasProject, ProjectAuthHash
<1>4. row.auth_hash.sha256.salt = w
  BY <1>1, <1>2, <1>3 DEF Sha256
<1>5. /\ row.salt \in Client
      /\ draft[row.salt] = row
  BY <1>1, <1>3 DEF IInv, TablesCoherent, TypeOK
<1>6. row.auth_hash.sha256.salt = row.salt
  <2> DEFINE s == row.salt
  <2>1. s \in Client /\ draft[s] # None
    BY <1>3, <1>5
  <2>2. draft[s].auth_hash.sha256.salt = s
    BY <2>1, DraftSalt
  <2> QED
    BY <1>5, <2>2
<1>7. row.wrapped_dek.msg = DekOf(w)
  BY <1>4, <1>5, <1>6 DEF DekOf
<1> QED
  BY <1>2, <1>7

(* An envelope that takes effect keeps the tables coherent if the project
   had no row, or had one with the same DEK.                               *)
LEMMA NewRowKeepsTables ==
    ASSUME IInv, NEW c \in Client, NEW p \in Project,
           draft[c] # None, ProjectName(cmd[c]) = p,
           projects[p] # None => projects[p].wrapped_dek.msg = DekOf(c),
           projects' = [projects EXCEPT ![p] = draft[c]],
           UNCHANGED <<secrets, cmd, draft>>,
           c \in applied', applied \subseteq applied'
    PROVE  TablesCoherent(projects, secrets)'
<1>1. /\ projects \in [Project -> Row \cup {None}]
      /\ TablesCoherent(projects, secrets)
  BY DEF IInv, TypeOK, ServerTypeOK, TablesTypeOK
<1>2. draft[c].salt = c
  BY DraftSalt
<1>3. ASSUME NEW q \in Project, projects'[q] # None
      PROVE  /\ projects'[q].salt \in applied'
             /\ draft'[projects'[q].salt] = projects'[q]
             /\ ProjectName(cmd'[projects'[q].salt]) = q
  <2>1. CASE q = p
    BY <1>1, <1>2, <2>1
  <2>2. CASE q # p
    BY <1>1, <1>3, <2>2 DEF TablesCoherent
  <2> QED
    BY <2>1, <2>2
<1>4. ASSUME NEW x \in Place, secrets'[x] # None
      PROVE  /\ projects'[x[1]] # None
             /\ CanDecrypt(projects'[x[1]].wrapped_dek.msg, x, secrets'[x])
  <2>1. /\ x[1] \in Project
        /\ projects[x[1]] # None
        /\ CanDecrypt(projects[x[1]].wrapped_dek.msg, x, secrets[x])
    BY <1>1, <1>4 DEF TablesCoherent, Place
  <2>2. CASE x[1] = p
    BY <1>1, <2>1, <2>2 DEF DekOf
  <2>3. CASE x[1] # p
    BY <1>1, <2>1, <2>3
  <2> QED
    BY <2>2, <2>3
<1> QED
  BY <1>3, <1>4 DEF TablesCoherent

LEMMA NewSecretKeepsTables ==
    ASSUME IInv, NEW x \in Place, NEW blob,
           blob # None => /\ projects[x[1]] # None
                          /\ CanDecrypt(projects[x[1]].wrapped_dek.msg, x, blob),
           secrets' = [secrets EXCEPT ![x] = blob],
           UNCHANGED <<projects, cmd, draft>>, applied \subseteq applied'
    PROVE  TablesCoherent(projects, secrets)'
  BY DEF IInv, TypeOK, ServerTypeOK, TablesTypeOK, TablesCoherent

(* Each statement that writes keeps the tables coherent.                   *)
LEMMA WritesKeepTables ==
    ASSUME IInv, NEW c \in Client, ServerStep(c), tables' # tables
    PROVE  TablesCoherent(projects, secrets)'
<1>1. c \in applied' /\ applied \subseteq applied' /\ UNCHANGED <<cmd, draft>>
  BY DEF ServerStep, clientVars
<1>2. ServerInv
  BY DEF IInv, TypeOK, ServerInv
<1>3. CASE CreateProject(c)
  <2>1. PICK inserted \in BOOLEAN : InsertProject(ProjectOf(c), request[c].body, inserted)
    BY <1>3 DEF CreateProject
  <2>2. /\ projects[ProjectOf(c)] = None
        /\ projects' = [projects EXCEPT ![ProjectOf(c)] = request[c].body]
        /\ UNCHANGED secrets
    BY <2>1 DEF InsertProject, HasProject, tables
  <2>3. /\ ProjectOf(c) \in Project
        /\ request[c] # None
        /\ request[c].op = "create_project"
    BY <1>2, <1>3, HandlingFacts, RequestFields
       DEF CreateProject, Handling, Op, Unauthenticated
  <2>4. /\ draft[c] # None
        /\ request[c].body = draft[c]
        /\ ProjectName(cmd[c]) = ProjectOf(c)
    BY <2>3 DEF IInv, ClientsCoherent, RequestCoherent, Enveloped, ProjectOf
  <2> QED
    BY <1>1, <2>2, <2>3, <2>4, NewRowKeepsTables
<1>4. CASE ResetProjectPassword(c)
  <2>1. PICK updated \in BOOLEAN :
           ResetPassword(ProjectOf(c), expected[c], request[c].body, updated)
    BY <1>4 DEF ResetProjectPassword
  <2>2. /\ PasswordMatches(ProjectOf(c), expected[c])
        /\ projects' = [projects EXCEPT ![ProjectOf(c)] = request[c].body]
        /\ UNCHANGED secrets
    BY <2>1 DEF ResetPassword, tables
  <2>3. /\ stage[c] = "authorized"
        /\ ProjectOf(c) \in Project
        /\ request[c] # None
        /\ request[c].op = "reset_project_password"
    BY <1>2, <1>4, AuthorizedFacts, RequestFields DEF ResetProjectPassword, Authorized
  <2>4. /\ draft[c] # None
        /\ request[c].body = draft[c]
        /\ ProjectName(cmd[c]) = ProjectOf(c)
    BY <2>3 DEF IInv, ClientsCoherent, RequestCoherent, Enveloped, ProjectOf
  <2>5. projects[ProjectOf(c)].wrapped_dek.msg = DekOf(c)
    BY <2>2, <2>3, GatedByDraft
  <2> QED
    BY <1>1, <2>2, <2>3, <2>4, <2>5, NewRowKeepsTables
<1>5. CASE SetSecret(c)
  <2>1. PICK written \in BOOLEAN :
           SetSecretIfPasswordMatches(PlaceOf(request[c]), request[c].body, expected[c], written)
    BY <1>5 DEF SetSecret
  <2>2. /\ PasswordMatches(PlaceOf(request[c])[1], expected[c])
        /\ secrets' = [secrets EXCEPT ![PlaceOf(request[c])] = request[c].body]
        /\ UNCHANGED projects
    BY <2>1 DEF SetSecretIfPasswordMatches, tables
  <2>3. /\ stage[c] = "authorized"
        /\ request[c].op = "set_secret"
        /\ PlaceOf(request[c]) \in Place
        /\ PlaceOf(request[c])[1] = ProjectOf(c)
    BY <1>2, <1>5, AuthorizedFacts, WellFormedFields
       DEF SetSecret, Authorized, ProjectOf, Named
  <2>4. /\ projects[ProjectOf(c)] # None
        /\ CanDecrypt(projects[ProjectOf(c)].wrapped_dek.msg,
                      PlaceOf(request[c]), request[c].body)
    BY <2>2, <2>3, GatedByDraft DEF PasswordMatches, HasProject
  <2> QED
    BY <1>1, <2>2, <2>3, <2>4, NewSecretKeepsTables
<1>6. CASE DeleteSecret(c)
  <2>1. PICK deleted \in BOOLEAN :
           DeleteSecretIfPasswordMatches(PlaceOf(request[c]), expected[c], deleted)
    BY <1>6 DEF DeleteSecret
  <2>2. /\ secrets' = [secrets EXCEPT ![PlaceOf(request[c])] = None]
        /\ UNCHANGED projects
    BY <2>1 DEF DeleteSecretIfPasswordMatches, tables
  <2>3. PlaceOf(request[c]) \in Place
    BY <1>2, <1>6, AuthorizedFacts, WellFormedFields DEF DeleteSecret, Authorized, Named
  <2> QED
    BY <1>1, <2>2, <2>3, NewSecretKeepsTables
<1> QED
  BY <1>3, <1>4, <1>5, <1>6
     DEF ServerStep, Serve, Unauthorized, RejectInvalid, Authorize,
         GetProjectKdf, GetProjectMeta, GetSecret, ListSecrets

(* A wrapped DEK that the server hands out is one that somebody drafted.   *)
LEMMA MetaIsDrafted ==
    ASSUME IInv, NEW c \in Client, Serve(c),
           stage'[c] = "replied", reply'[c].status \in Success,
           request[c].op = "get_project_meta"
    PROVE  \E w \in Client :
              draft[w] # None /\ reply'[c].body.wrapped_dek = draft[w].wrapped_dek
<1>1. /\ stage \in [Client -> Stage]
      /\ reply \in [Client -> Reply \cup {None}]
      /\ ServerInv
  BY DEF IInv, TypeOK, ServerTypeOK, ServerInv
<1>2. GetProjectMeta(c)
  <2>1. ~Unauthorized(c) /\ ~RejectInvalid(c)
    BY <1>1 DEF Unauthorized, RejectInvalid, Answer, Success
  <2>2. ~Authorize(c)
    BY <1>1 DEF Authorize, Answer, Success
  <2> QED
    BY <2>1, <2>2
       DEF Serve, CreateProject, GetProjectKdf, ResetProjectPassword, SetSecret, GetSecret,
           ListSecrets, DeleteSecret, Handling, Authorized
<1> DEFINE row == projects[ProjectOf(c)]
<1>3. /\ row # None
      /\ reply'[c].body.wrapped_dek = row.wrapped_dek
  BY <1>1, <1>2 DEF GetProjectMeta, Answer, Success, HasProject, ProjectMeta
<1>4. ProjectOf(c) \in Project
  BY <1>1, <1>2, AuthorizedFacts DEF GetProjectMeta, Authorized
<1>5. row.salt \in Client /\ draft[row.salt] = row
  BY <1>3, <1>4 DEF IInv, TablesCoherent, TypeOK
<1> QED
  BY <1>3, <1>5

LEMMA ServerStepKeeps ==
    ASSUME IInv, NEW c \in Client, ServerStep(c)
    PROVE  IInv'
<1>1. Serve(c) /\ UNCHANGED <<clientVars, backup>>
  BY DEF ServerStep
<1>2. applied \subseteq applied' /\ applied' \subseteq Client
  BY DEF ServerStep, IInv, TypeOK
<1>3. ServerTypeOK' /\ HandlersCoherent'
  BY <1>1, ServeKeeps DEF IInv, TypeOK, ServerInv
<1>4. TablesCoherent(projects, secrets)'
  <2>1. CASE UNCHANGED tables
    BY <1>1, <1>2, <2>1, KeepTables DEF Stable, clientVars
  <2> QED
    BY <2>1, WritesKeepTables
<1> QED
  BY <1>1, <1>2, <1>3, <1>4, ServeFrame, MetaIsDrafted, HandlerKeeps

-----------------------------------------------------------------------------
(* Faults and the operator.                                                *)

LEMMA DropStepKeeps ==
    ASSUME IInv, NEW S \in SUBSET Client, Drop(S),
           UNCHANGED <<clientVars, applied, backup>>,
           TablesTypeOK', TablesCoherent(projects, secrets)'
    PROVE  IInv'
<1>1. /\ UNCHANGED cmd /\ UNCHANGED pc /\ UNCHANGED salt
      /\ UNCHANGED dek /\ UNCHANGED draft /\ UNCHANGED outcome
  BY DEF clientVars
<1>2. Stable
  BY <1>1 DEF Stable
<1>3. TypeOK' /\ HandlersCoherent'
  BY <1>1, DropKeeps DEF IInv, TypeOK, ServerInv
<1>4. ClientsCoherent'
  BY <1>1, <1>2, KeepDraft, DropKeepsClients DEF ClientsCoherent
<1> QED
  BY <1>2, <1>3, <1>4, KeepBackup DEF IInv

LEMMA SurroundingsKeep ==
    ASSUME IInv, \/ \E c \in Client : NoticeHangUp(c) \/ DatabaseFails(c)
                 \/ ServerRestarts \/ TakeBackup \/ RestoreBackup
    PROVE  IInv'
<1>1. ASSUME UNCHANGED tables, UNCHANGED <<clientVars, applied, backup>>
      PROVE  TablesTypeOK' /\ TablesCoherent(projects, secrets)'
  <2>1. TablesTypeOK'
    BY <1>1 DEF IInv, TypeOK, ServerTypeOK, TablesTypeOK, tables
  <2> QED
    BY <1>1, <2>1, KeepTables DEF Stable, clientVars
<1>2. ASSUME NEW c \in Client, NoticeHangUp(c) PROVE IInv'
  BY <1>1, <1>2, DropStepKeeps DEF NoticeHangUp, Disconnect
<1>3. CASE ServerRestarts
  <2>1. PICK S \in SUBSET Client : Drop(S)
    BY <1>3, StopDrops DEF ServerRestarts, Restart
  <2>2. UNCHANGED tables /\ UNCHANGED <<clientVars, applied, backup>>
    BY <1>3 DEF ServerRestarts, Restart
  <2> QED
    BY <1>1, <2>1, <2>2, DropStepKeeps
<1>4. ASSUME NEW c \in Client, DatabaseFails(c) PROVE IInv'
  <2>1. /\ stage[c] # "idle"
        /\ request' = request
        /\ \A d \in Client \ {c} : stage'[d] = stage[d] /\ reply'[d] = reply[d]
        /\ UNCHANGED <<clientVars, applied, backup>>
        /\ UNCHANGED tables
    BY <1>4 DEF DatabaseFails, DatabaseError, Handling, Answer, IInv, TypeOK, ServerTypeOK
  <2>2. ServerTypeOK' /\ HandlersCoherent'
    BY <1>4, FaultKeeps DEF DatabaseFails, IInv, TypeOK, ServerInv
  <2>3. reply'[c].status \notin Success
    BY <1>4 DEF DatabaseFails, DatabaseError, Answer, IInv, TypeOK, ServerTypeOK, Success
  <2>4. applied' \subseteq Client
    BY <2>1 DEF IInv, TypeOK
  <2> QED
    BY <1>1, <2>1, <2>2, <2>3, <2>4, HandlerKeeps
<1>5. CASE TakeBackup
  <2>1. UNCHANGED serverVars /\ UNCHANGED clientVars /\ UNCHANGED applied
    BY <1>5 DEF TakeBackup
  <2>2. /\ backup'.projects = projects
        /\ backup'.secrets = secrets
        /\ backup' \in Tables
    BY <1>5 DEF TakeBackup, Tables, IInv, TypeOK, ServerTypeOK, TablesTypeOK
  <2>3. UNCHANGED cmd /\ UNCHANGED draft /\ UNCHANGED tables
    BY <2>1 DEF clientVars, serverVars, tables
  <2>4. Stable
    BY <2>1, <2>3 DEF Stable
  <2>5. ServerTypeOK' /\ HandlersCoherent'
    BY <2>1, KeepServer
  <2>6. TypeOK'
    BY <2>1, <2>2, <2>5 DEF IInv, TypeOK, clientVars
  <2>7. ClientsCoherent'
    BY <2>1, <2>4, KeepDraft, KeepRequest, KeepResponse
       DEF ClientsCoherent, clientVars, serverVars
  <2>8. TablesCoherent(backup.projects, backup.secrets)'
    BY <2>1, <2>2, <2>3 DEF IInv, TablesCoherent
  <2> QED
    BY <2>3, <2>4, <2>5, <2>6, <2>7, <2>8, KeepTables DEF IInv
<1>6. CASE RestoreBackup
  <2>1. /\ backup # None
        /\ projects' = backup.projects
        /\ secrets' = backup.secrets
        /\ UNCHANGED <<clientVars, applied, backup>>
    BY <1>6 DEF RestoreBackup
  <2>2. TablesTypeOK'
    BY <2>1 DEF IInv, TypeOK, Tables, TablesTypeOK
  <2>3. TablesCoherent(projects, secrets)'
    BY <2>1 DEF IInv, TablesCoherent, clientVars
  <2>4. PICK S \in SUBSET Client : Drop(S)
    BY <1>6, StopDrops DEF RestoreBackup
  <2> QED
    BY <2>1, <2>2, <2>3, <2>4, DropStepKeeps
<1> QED
  BY <1>2, <1>3, <1>4, <1>5, <1>6

-----------------------------------------------------------------------------
(* The theorems.                                                           *)

LEMMA InitIInv == Init => IInv
<1> SUFFICES ASSUME Init PROVE IInv
  OBVIOUS
<1>1. ServerInit
  BY DEF Init
<1>2. ServerTypeOK /\ HandlersCoherent
  BY <1>1, ServerInvInit DEF ServerInv
<1>3. TypeOK
  BY <1>2 DEF Init, TypeOK
<1>4. ClientsCoherent
  BY DEF Init, ServerInit, ClientsCoherent, DraftCoherent, RequestCoherent, ResponseCoherent
<1>5. TablesCoherent(projects, secrets) /\ backup = None
  BY DEF Init, ServerInit, EmptyTables, TablesCoherent
<1> QED
  BY <1>2, <1>3, <1>4, <1>5 DEF IInv

LEMMA StutterKeeps == ASSUME IInv, UNCHANGED vars PROVE IInv'
<1>1. /\ UNCHANGED serverVars /\ UNCHANGED tables
      /\ UNCHANGED <<cmd, pc, salt, dek, draft, outcome, applied, backup>>
  BY DEF vars, serverVars, tables
<1>2. Stable
  BY <1>1 DEF Stable
<1>3. ServerTypeOK' /\ HandlersCoherent'
  BY <1>1, KeepServer
<1>4. TypeOK'
  BY <1>1, <1>3 DEF IInv, TypeOK
<1>5. ClientsCoherent'
  BY <1>1, <1>2, KeepDraft, KeepRequest, KeepResponse DEF ClientsCoherent, serverVars
<1> QED
  BY <1>1, <1>2, <1>3, <1>4, <1>5, KeepTables, KeepBackup DEF IInv

LEMMA NextIInv == IInv /\ [Next]_vars => IInv'
<1> SUFFICES ASSUME IInv, [Next]_vars PROVE IInv'
  OBVIOUS
<1>1. ASSUME NEW c \in Client, NEW k \in Commands,
             Start(c, k) \/ StartInit(c, k) \/ StartResetToSamePassword(c, k)
      PROVE  IInv'
  BY <1>1, StartKeeps, StartInitKeeps, SamePasswordKeeps
<1>2. ASSUME NEW c \in Client, ClientStep(c) \/ GiveUp(c) PROVE IInv'
  BY <1>2, GotKdfKeeps, GotMetaKeeps, EndsKeep DEF ClientStep
<1>3. ASSUME NEW c \in Client, ServerStep(c) PROVE IInv'
  BY <1>3, ServerStepKeeps
<1>4. CASE AllDone \/ UNCHANGED vars
  BY <1>4, StutterKeeps DEF AllDone
<1> QED
  BY <1>1, <1>2, <1>3, <1>4, SurroundingsKeep DEF Next

(* The inductive invariant: rows, sessions and requests that share a salt
   come from one envelope, through every interleaving and every fault.     *)
THEOREM Invariant == Spec => []IInv
<1> QED
  BY InitIInv, NextIInv, PTL DEF Spec

(* No stored secret is ever stranded: it opens, where it is stored, with
   the DEK that the current row of its project wraps (SecretsDecryptable). *)
THEOREM NoSecretStranded == Spec => []SecretsDecryptable
<1>1. IInv => SecretsDecryptable
  BY DEF IInv, TablesCoherent, SecretsDecryptable, HasProject, ProjectMeta
<1> QED
  BY <1>1, Invariant, PTL

(* No project is ever locked: the password of some init or reset that took
   effect authenticates to it and unwraps its DEK (PasswordOpens).         *)
THEOREM NoProjectLocked == Spec => []PasswordOpens
<1>1. IInv => PasswordOpens
  <2> SUFFICES ASSUME IInv, NEW p \in Project, HasProject(p)
               PROVE  \E c \in applied :
                         LET keys == DeriveProjectKeys(PasswordSet(cmd[c]), ProjectKdf(p)) IN
                         /\ ProjectName(cmd[c]) = p
                         /\ ProjectAuthHash(p) = Sha256(keys.auth_secret)
                         /\ CanUnwrap(keys, ProjectMeta(p), p)
    BY DEF PasswordOpens
  <2> DEFINE s == ProjectKdf(p)
  <2>1. /\ s \in applied
        /\ s \in Client
        /\ draft[s] = projects[p]
        /\ draft[s] # None
        /\ ProjectName(cmd[s]) = p
    BY DEF IInv, TablesCoherent, TypeOK, HasProject, ProjectKdf
  <2>2. PICK d \in Random : draft[s] = NewEnvelope(p, PasswordSet(cmd[s]), s, d)
    BY <2>1 DEF IInv, ClientsCoherent, DraftCoherent
  <2> DEFINE keys == DeriveProjectKeys(PasswordSet(cmd[s]), s)
  <2>3. /\ ProjectAuthHash(p) = Sha256(keys.auth_secret)
        /\ ProjectMeta(p).key = keys.enc_key
        /\ ProjectMeta(p).aad = WrapAad(p)
    BY <2>1, <2>2, EnvelopeFields DEF ProjectAuthHash, ProjectMeta
  <2>4. CanUnwrap(keys, ProjectMeta(p), p)
    BY <2>3 DEF CanUnwrap, Opens
  <2> QED
    BY <2>1, <2>3, <2>4
<1> QED
  BY <1>1, Invariant, PTL

-----------------------------------------------------------------------------
(* What no step may do.                                                    *)

(* Only the server writes, as long as nobody restores a backup.            *)
LEMMA OnlyServerWrites ==
    ASSUME "restore" \notin Faults, [Next]_vars
    PROVE  UNCHANGED tables \/ \E c \in Client : ServerStep(c)
<1>1. ASSUME NEW c \in Client, NEW k \in Commands,
             Start(c, k) \/ StartInit(c, k) \/ StartResetToSamePassword(c, k)
      PROVE  UNCHANGED tables
  BY <1>1 DEF Start, StartInit, StartResetToSamePassword, Receive, serverVars, tables
<1>2. ASSUME NEW c \in Client, GotKdf(c) \/ GotMeta(c) PROVE UNCHANGED tables
  BY <1>2 DEF GotKdf, GotMeta, Receive, tables
<1>3. ASSUME NEW c \in Client,
             \/ UnlockFailed(c) \/ ConfigVerified(c) \/ GotResponse(c)
             \/ Refused(c) \/ ConnectionLost(c) \/ GiveUp(c)
      PROVE  UNCHANGED tables
  BY <1>3 DEF UnlockFailed, ConfigVerified, GotResponse, Refused, ConnectionLost, GiveUp,
              serverVars, tables
<1>4. ASSUME NEW c \in Client, NoticeHangUp(c) \/ DatabaseFails(c) PROVE UNCHANGED tables
  BY <1>4 DEF NoticeHangUp, Disconnect, DatabaseFails, DatabaseError
<1>5. CASE ServerRestarts
  BY <1>5 DEF ServerRestarts, Restart
<1>6. CASE AllDone \/ UNCHANGED vars
  BY <1>6 DEF AllDone, vars, tables
<1> QED
  BY <1>1, <1>2, <1>3, <1>4, <1>5, <1>6 DEF Next, ClientStep, TakeBackup, RestoreBackup

LEMMA ServerKeepsDek ==
    ASSUME IInv, NEW c \in Client, ServerStep(c), NEW p \in Project, HasProject(p)
    PROVE  /\ projects'[p] # None
           /\ projects'[p].wrapped_dek.msg = ProjectMeta(p).msg
<1>1. projects \in [Project -> Row \cup {None}] /\ ServerInv
  BY DEF IInv, TypeOK, ServerTypeOK, TablesTypeOK, ServerInv
<1>2. projects' = projects => projects'[p] # None
                              /\ projects'[p].wrapped_dek.msg = ProjectMeta(p).msg
  BY DEF HasProject, ProjectMeta
<1>3. CASE CreateProject(c)
  <2>1. PICK inserted \in BOOLEAN : InsertProject(ProjectOf(c), request[c].body, inserted)
    BY <1>3 DEF CreateProject
  <2>2. projects' = projects \/ (p # ProjectOf(c) /\ projects'[p] = projects[p])
    BY <1>1, <2>1 DEF InsertProject, HasProject
  <2> QED
    BY <1>2, <2>2 DEF HasProject, ProjectMeta
<1>4. CASE ResetProjectPassword(c)
  <2>1. PICK updated \in BOOLEAN :
           ResetPassword(ProjectOf(c), expected[c], request[c].body, updated)
    BY <1>4 DEF ResetProjectPassword
  <2>2. /\ stage[c] = "authorized"
        /\ request[c] # None
        /\ request[c].op = "reset_project_password"
    BY <1>1, <1>4, AuthorizedFacts, RequestFields DEF ResetProjectPassword, Authorized
  <2>3. draft[c] # None /\ request[c].body = draft[c]
    BY <2>2 DEF IInv, ClientsCoherent, RequestCoherent, Enveloped
  <2>4. updated => projects[ProjectOf(c)].wrapped_dek.msg = DekOf(c)
    BY <2>1, <2>2, GatedByDraft DEF ResetPassword
  <2>5. CASE updated /\ p = ProjectOf(c)
    <3>1. projects'[p] = draft[c]
      BY <1>1, <2>1, <2>3, <2>5 DEF ResetPassword
    <3> QED
      BY <2>3, <2>4, <2>5, <3>1 DEF DekOf, ProjectMeta
  <2>6. CASE ~(updated /\ p = ProjectOf(c))
    BY <1>1, <2>1, <2>6 DEF ResetPassword, HasProject, ProjectMeta
  <2> QED
    BY <2>5, <2>6
<1> QED
  BY <1>2, <1>3, <1>4
     DEF ServerStep, Serve, Unauthorized, RejectInvalid, Authorize, GetProjectKdf,
         GetProjectMeta, GetSecret, ListSecrets, SetSecret, DeleteSecret,
         SetSecretIfPasswordMatches, DeleteSecretIfPasswordMatches, tables

(* A project keeps the DEK it was created with, whatever inits race with it
   and whatever resets re-wrap it (DekNeverChanges), unless an operator puts
   an old database file back.                                              *)
THEOREM DekIsForLife == ASSUME "restore" \notin Faults PROVE Spec => DekNeverChanges
<1> DEFINE Keeps == \A p \in Project :
                       HasProject(p) => /\ projects'[p] # None
                                        /\ projects'[p].wrapped_dek.msg = ProjectMeta(p).msg
<1>1. IInv /\ [Next]_vars => [Keeps]_vars
  <2> SUFFICES ASSUME IInv, [Next]_vars PROVE Keeps
    OBVIOUS
  <2>1. CASE UNCHANGED tables
    BY <2>1 DEF tables, HasProject, ProjectMeta
  <2>2. ASSUME NEW c \in Client, ServerStep(c) PROVE Keeps
    BY <2>2, ServerKeepsDek
  <2> QED
    BY <2>1, <2>2, OnlyServerWrites
<1> QED
  BY <1>1, Invariant, PTL DEF Spec, DekNeverChanges
=============================================================================
