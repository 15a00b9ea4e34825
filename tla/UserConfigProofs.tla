-------------------------- MODULE UserConfigProofs --------------------------
(***************************************************************************)
(* Proofs about ~/.keyben.toml: ConfigInv is an invariant, and with it     *)
(* EntriesVerified, IntactFileIsTheMap and SavedEntryWorks, for any number *)
(* of processes, projects and passwords.                                   *)
(***************************************************************************)
EXTENDS UserConfig, TLAPS

(* Every step that ends a process names its outcome; most leave the file and
   what has been met there alone.                                          *)
USE DEF Outcomes, disk

-----------------------------------------------------------------------------
(* Lemmas about the file.                                                  *)

(* A new table is well-typed.                                              *)
LEMMA NewTableType ==
    ASSUME NEW pw \in Password, NEW uid \in Device, NEW salt \in Random,
           NEW p \in Project, NEW server \in Url, NEW token \in Token
    PROVE  NewTable(ConfigKey(pw, uid, salt), p, server, token) \in StoredProject
<1> DEFINE key == ConfigKey(pw, uid, salt)
<1>1. key \in [password : Password, machine_uid : Device, salt : Random]
  BY DEF ConfigKey
<1>2. Seal(key, FieldRole(SERVER_ROLE, p), salt, server) \in Field
  BY <1>1 DEF Seal, FieldRole, Field
<1>3. Seal(key, FieldRole(TOKEN_ROLE, p), salt, token) \in Field
  BY <1>1 DEF Seal, FieldRole, Field
<1>4. key.salt = salt
  BY DEF ConfigKey
<1> QED
  BY <1>2, <1>3, <1>4 DEF NewTable, StoredProject

(* What a table that was built as such holds.                              *)
LEMMA NewTableFields ==
    ASSUME NEW pw, NEW uid, NEW salt, NEW p, NEW server, NEW token
    PROVE  LET t == NewTable(ConfigKey(pw, uid, salt), p, server, token) IN
           /\ t.encrypted_server.msg = server
           /\ t.encrypted_token.msg = token
           /\ t.encrypted_server.key.password = pw
BY DEF NewTable, ConfigKey, Seal

LEMMA NoTablesType == NoTables \in StoredConfig
BY DEF NoTables, StoredConfig

LEMMA NoTablesReadable == Readable(NoTables) /\ Stored(NoTables) = NoTables
BY NoTablesType, ConfigFileAssumption DEF Readable, Stored

LEMMA StoredType ==
    ASSUME NEW f \in Content, Readable(f)
    PROVE  Stored(f) \in StoredConfig
BY NoTablesType DEF Content, Readable, Stored

(* What more passwords have been current, no table is less verified or sound. *)
LEMMA VerifiedGrows ==
    ASSUME NEW p \in Project, NEW t, ever[p] \subseteq ever'[p], IsVerified(p, t)
    PROVE  \E pw \in ever'[p], uid \in Device, salt \in Random :
               t = NewTable(ConfigKey(pw, uid, salt), p, Home, AuthToken)
BY DEF IsVerified

LEMMA SoundGrows ==
    ASSUME NEW known, NEW more, \A p \in Project : known[p] \subseteq more[p],
           NEW t, IsSound(t, known)
    PROVE  IsSound(t, more)
<1>1. ASSUME NEW role, NEW msg, NEW field, SealedFor(role, msg, field, known)
      PROVE  SealedFor(role, msg, field, more)
  BY <1>1 DEF SealedFor
<1> QED
  BY <1>1 DEF IsSound

LEMMA VerifiedIsSound ==
    ASSUME NEW p \in Project, NEW t, IsVerified(p, t)
    PROVE  IsSound(t, ever)
<1>1. PICK pw \in ever[p], uid \in Device, salt \in Random :
         t = NewTable(ConfigKey(pw, uid, salt), p, Home, AuthToken)
  BY DEF IsVerified
<1>2. /\ t.encrypted_server = Seal(ConfigKey(pw, uid, salt), FieldRole(SERVER_ROLE, p), salt, Home)
      /\ t.encrypted_token = Seal(ConfigKey(pw, uid, salt), FieldRole(TOKEN_ROLE, p), salt, AuthToken)
  BY <1>1 DEF NewTable, ConfigKey
<1> QED
  BY <1>2 DEF IsSound, SealedFor

(* A table of sound values that opens is the table of one writer: the key has
   its salt, its password and its machine, the associated data its project. *)
LEMMA OpensVerified ==
    ASSUME NEW p \in Project, NEW t \in StoredProject, IsSound(t, ever),
           NEW pw, NEW uid, TableOpens(t, p, pw, uid)
    PROVE  IsVerified(p, t)
<1> DEFINE key == ConfigKey(pw, uid, t.salt)
<1>1. ASSUME NEW role \in {SERVER_ROLE, TOKEN_ROLE}, NEW msg, NEW field,
             SealedFor(role, msg, field, ever), field # Spliced,
             Opens(key, FieldRole(role, p), field)
      PROVE  /\ field = Seal(key, FieldRole(role, p), t.salt, msg)
             /\ pw \in ever[p] /\ uid \in Device /\ t.salt \in Random
  <2>1. PICK q \in Project : \E pw2 \in ever[q], uid2 \in Device, salt2 \in Random :
           field = Seal(ConfigKey(pw2, uid2, salt2), FieldRole(role, q), salt2, msg)
    BY <1>1 DEF SealedFor
  <2>2. PICK pw2 \in ever[q], uid2 \in Device, salt2 \in Random :
           field = Seal(ConfigKey(pw2, uid2, salt2), FieldRole(role, q), salt2, msg)
    BY <2>1
  <2>3. ConfigKey(pw2, uid2, salt2) = key /\ FieldRole(role, q) = FieldRole(role, p)
    BY <1>1, <2>2 DEF Seal, Opens
  <2>4. q = p
    BY <2>3 DEF FieldRole
  <2>5. pw2 = pw /\ uid2 = uid /\ salt2 = t.salt
    BY <2>3 DEF ConfigKey
  <2> QED
    BY <2>2, <2>4, <2>5
<1>2. /\ t.encrypted_server # Spliced /\ Opens(key, FieldRole(SERVER_ROLE, p), t.encrypted_server)
      /\ t.encrypted_token # Spliced /\ Opens(key, FieldRole(TOKEN_ROLE, p), t.encrypted_token)
  BY DEF TableOpens
<1>3. /\ SealedFor(SERVER_ROLE, Home, t.encrypted_server, ever)
      /\ SealedFor(TOKEN_ROLE, AuthToken, t.encrypted_token, ever)
  BY DEF IsSound
<1> HIDE DEF key
<1>4. /\ t.encrypted_server = Seal(key, FieldRole(SERVER_ROLE, p), t.salt, Home)
      /\ t.encrypted_token = Seal(key, FieldRole(TOKEN_ROLE, p), t.salt, AuthToken)
      /\ pw \in ever[p] /\ uid \in Device /\ t.salt \in Random
  BY <1>1, <1>2, <1>3
<1>5. t = [salt |-> t.salt, encrypted_server |-> t.encrypted_server,
           encrypted_token |-> t.encrypted_token]
  BY DEF StoredProject
<1>6. t = NewTable(key, p, Home, AuthToken)
  BY <1>4, <1>5 DEF NewTable, key, ConfigKey
<1> QED
  BY <1>4, <1>6 DEF IsVerified, key

-----------------------------------------------------------------------------
(* Texts that meet in the file.                                            *)

AreTables(pcs) == pcs \in SUBSET (Project \X StoredProject)

AllSound(config) == \A p \in Project : config[p] # None => IsSound(config[p], ever)

SoundPieces(pcs) == AreTables(pcs) /\ \A t \in Tables(pcs) : IsSound(t, ever)

LEMMA TablesType ==
    ASSUME NEW pcs, AreTables(pcs)
    PROVE  Tables(pcs) \subseteq StoredProject
BY DEF AreTables, Tables

LEMMA EntriesType ==
    ASSUME NEW config \in StoredConfig
    PROVE  /\ AreTables(Entries(config))
           /\ \A t \in Tables(Entries(config)) :
                 \E p \in Project : config[p] # None /\ t = config[p]
<1>1. AreTables(Entries(config))
  BY DEF Entries, AreTables, StoredConfig
<1>2. \A e \in Entries(config) : \E p \in Project : config[p] # None /\ e = <<p, config[p]>>
  BY DEF Entries
<1> QED
  BY <1>1, <1>2 DEF Tables

(* Whole tables that follow a sound beginning.                             *)
LEMMA ExtensionsSound ==
    ASSUME NEW begin \in StoredConfig, AllSound(begin), NEW pcs, SoundPieces(pcs),
           NEW w \in Extensions(begin, pcs)
    PROVE  w \in StoredConfig /\ AllSound(w)
<1>1. PICK rest \in Rests(pcs) :
         w = [p \in Project |-> IF begin[p] # None THEN begin[p] ELSE rest[p]]
  BY DEF Extensions
<1>2. \A p \in Project : rest[p] \in Tables(pcs) \cup {None}
  BY DEF Rests
<1>3. \A p \in Project : rest[p] = None \/ (rest[p] \in StoredProject /\ IsSound(rest[p], ever))
  BY <1>2, TablesType DEF SoundPieces
<1>4. \A p \in Project : w[p] \in StoredProject \cup {None}
  BY <1>1, <1>3 DEF StoredConfig
<1>5. w \in StoredConfig
  BY <1>1, <1>4 DEF StoredConfig
<1>6. AllSound(w)
  BY <1>1, <1>3 DEF AllSound
<1> QED
  BY <1>5, <1>6

LEMMA MixtureSound ==
    ASSUME NEW s \in StoredProject, NEW t \in StoredProject,
           IsSound(s, ever), IsSound(t, ever), NEW m \in Mixtures(s, t)
    PROVE  m \in StoredProject /\ IsSound(m, ever)
<1>1. /\ m = [salt |-> m.salt, encrypted_server |-> m.encrypted_server,
              encrypted_token |-> m.encrypted_token]
      /\ m.salt \in {s.salt, t.salt, Spliced}
      /\ m.encrypted_server \in {s.encrypted_server, t.encrypted_server, Spliced}
      /\ m.encrypted_token \in {s.encrypted_token, t.encrypted_token, Spliced}
  BY DEF Mixtures
<1>2. m \in StoredProject
  BY <1>1 DEF StoredProject
<1>3. IsSound(m, ever)
  BY <1>1 DEF IsSound, SealedFor
<1> QED
  BY <1>2, <1>3

LEMMA BeforeSound ==
    ASSUME NEW text \in StoredConfig, AllSound(text), NEW cut \in Project
    PROVE  Before(text, cut) \in StoredConfig /\ AllSound(Before(text, cut))
BY DEF Before, StoredConfig, AllSound

LEMMA ReplacedSound ==
    ASSUME NEW begin \in StoredConfig, AllSound(begin), NEW p \in Project,
           NEW t \in StoredProject, IsSound(t, ever)
    PROVE  [begin EXCEPT ![p] = t] \in StoredConfig /\ AllSound([begin EXCEPT ![p] = t])
BY DEF StoredConfig, AllSound

LEMMA BlendsSound ==
    ASSUME NEW text \in StoredConfig, AllSound(text), NEW pcs, SoundPieces(pcs),
           NEW begin \in Blends(text, pcs)
    PROVE  begin \in StoredConfig /\ AllSound(begin)
<1>1. PICK cut \in {p \in Project : text[p] # None} :
         \/ \E last \in Tables(pcs) : \E table \in Mixtures(text[cut], last) :
                begin = [Before(text, cut) EXCEPT ![cut] = table]
         \/ \E p \in Project, last \in Tables(pcs) :
                begin = [Before(text, cut) EXCEPT ![p] = last]
  BY DEF Blends
<1>2. Before(text, cut) \in StoredConfig /\ AllSound(Before(text, cut))
  BY BeforeSound
<1>3. text[cut] \in StoredProject /\ IsSound(text[cut], ever)
  BY DEF StoredConfig, AllSound
<1>4. \A last \in Tables(pcs) : last \in StoredProject /\ IsSound(last, ever)
  BY TablesType DEF SoundPieces
<1>5. CASE \E last \in Tables(pcs) : \E table \in Mixtures(text[cut], last) :
              begin = [Before(text, cut) EXCEPT ![cut] = table]
  <2>1. PICK last \in Tables(pcs) : \E table \in Mixtures(text[cut], last) :
           begin = [Before(text, cut) EXCEPT ![cut] = table]
    BY <1>5
  <2>2. PICK table \in Mixtures(text[cut], last) :
           begin = [Before(text, cut) EXCEPT ![cut] = table]
    BY <2>1
  <2>3. table \in StoredProject /\ IsSound(table, ever)
    BY <1>3, <1>4, MixtureSound
  <2> QED
    BY <1>2, <2>2, <2>3, ReplacedSound
<1>6. CASE \E p \in Project, last \in Tables(pcs) :
              begin = [Before(text, cut) EXCEPT ![p] = last]
  BY <1>2, <1>4, <1>6, ReplacedSound
<1> QED
  BY <1>1, <1>5, <1>6

(* Whatever a write makes of a file, a text that parses has sound tables.  *)
LEMMA WrittenSound ==
    ASSUME NEW text \in StoredConfig, AllSound(text), NEW pcs, SoundPieces(pcs),
           NEW w, w \in WrittenOver(text, pcs) \/ w \in TornWrites(text, pcs)
    PROVE  /\ w \in StoredConfig \cup {Garbled}
           /\ w # Garbled => AllSound(w)
<1>1. \A begin \in {text} \cup {Before(text, cut) : cut \in Project} \cup Blends(text, pcs) :
         begin \in StoredConfig /\ AllSound(begin)
  BY BeforeSound, BlendsSound
<1>2. \/ w \in {text, Garbled}
      \/ \E begin \in {text} \cup {Before(text, cut) : cut \in Project} \cup Blends(text, pcs) :
            w \in Extensions(begin, pcs)
  BY DEF WrittenOver, TornWrites
<1> QED
  BY <1>1, <1>2, ExtensionsSound

-----------------------------------------------------------------------------
(* What a step of one process leaves alone.                                *)

OnlyOwn(c) ==
    /\ job' = job
    /\ \A p \in Project : ever[p] \subseteq ever'[p]
    /\ \A d \in Client \ {c} :
          /\ stage'[d] = stage[d]
          /\ creds'[d] = creds[d]
          /\ asked'[d] = asked[d]
          /\ base'[d] = base[d]
          /\ outcome'[d] = outcome[d]

LEMMA PrjInProject ==
    ASSUME TypeOK, NEW c \in Client
    PROVE  Prj(c) \in Project /\ job[c] \in Job
BY JobsAssumption DEF TypeOK, Prj

(* Another process keeps what it holds.                                    *)
LEMMA OthersKeep ==
    ASSUME TypeOK, NEW c \in Client, OnlyOwn(c), NEW d \in Client \ {c}, ProcessInv(d)
    PROVE  ProcessInv(d)'
<1>1. Prj(d) \in Project /\ Prj(d)' = Prj(d) /\ FromFile(d)' = FromFile(d)
  BY PrjInProject DEF OnlyOwn, Prj, FromFile
<1>2. BaseSound(d)'
  BY SoundGrows DEF OnlyOwn, ProcessInv, BaseSound
<1> QED
  BY <1>1, <1>2 DEF OnlyOwn, ProcessInv

LEMMA Assemble ==
    ASSUME ConfigInv, NEW c \in Client, OnlyOwn(c),
           TypeOK', PiecesInv', IntactInv',
           \A p \in Project : current'[p] \in ever'[p], ProcessInv(c)'
    PROVE  ConfigInv'
<1>1. \A d \in Client \ {c} : ProcessInv(d)'
  BY OthersKeep DEF ConfigInv
<1> QED
  BY <1>1 DEF ConfigInv

(* The file stays: so do its tables, and those of the map.                 *)
LEMMA SameFile ==
    ASSUME ConfigInv, NEW c \in Client, OnlyOwn(c), file' = file, pieces' = pieces
    PROVE  PiecesInv'
BY SoundGrows DEF ConfigInv, PiecesInv, OnlyOwn

LEMMA SameMap ==
    ASSUME ConfigInv, intact, NEW c \in Client, OnlyOwn(c), map' = map
    PROVE  \A p \in Project : map'[p] # None => IsVerified(p, map[p])'
<1>1. ASSUME NEW p \in Project, map[p] # None
      PROVE  IsVerified(p, map[p])'
  <2>1. IsVerified(p, map[p]) /\ ever[p] \subseteq ever'[p]
    BY <1>1 DEF ConfigInv, IntactInv, OnlyOwn
  <2> QED
    BY <2>1, VerifiedGrows DEF IsVerified
<1> QED
  BY <1>1

(* A process that moves, but neither into a save nor out of one.           *)
LEMMA SameSaving ==
    ASSUME ConfigInv, NEW c \in Client, OnlyOwn(c),
           file' = file, pieces' = pieces, map' = map, base' = base, intact' = intact,
           stage[c] \notin {"loaded", "truncated"}, stage'[c] \notin {"loaded", "truncated"}
    PROVE  IntactInv'
<1>1. Saving' = Saving
  BY DEF Saving, OnlyOwn
<1>2. \A d \in Client : stage'[d] = "truncated" <=> stage[d] = "truncated"
  BY DEF OnlyOwn
<1> QED
  BY <1>1, <1>2, SameMap DEF ConfigInv, IntactInv

(* A process that ends.                                                    *)
LEMMA EndsTyped ==
    ASSUME TypeOK, NEW c \in Client, NEW result, End(c, result),
           result \in Outcomes
    PROVE  /\ stage' \in [Client -> {"start", "verify", "save", "loaded", "truncated",
                                     "entry", "unlock", "note", "done"}]
           /\ outcome' \in [Client -> Outcomes \cup {None}]
           /\ stage'[c] = "done" /\ outcome'[c] = result
           /\ \A d \in Client \ {c} : stage'[d] = stage[d] /\ outcome'[d] = outcome[d]
BY DEF TypeOK, End

LEMMA EndedProcess ==
    ASSUME ConfigInv, NEW c \in Client, OnlyOwn(c), base'[c] = base[c],
           stage'[c] = "done"
    PROVE  ProcessInv(c)'
<1>1. BaseSound(c)'
  BY SoundGrows DEF OnlyOwn, ConfigInv, ProcessInv, BaseSound
<1> QED
  BY <1>1 DEF ProcessInv

-----------------------------------------------------------------------------
(* Resolution of values.                                                   *)

(* The values that a process can go on with are well-typed, and each usable
   one is the one that was given.                                          *)
LEMMA ResolutionTypes ==
    ASSUME NEW c \in Client, NEW values,
           values.server \in Url \cup {None, Blank},
           values.token \in Token \cup {None, Blank},
           values.password \in Password \cup {None},
           NEW k \in Resolutions(c, values)
    PROVE  /\ k \in Credentials /\ k # None
           /\ k.server \in Url /\ k.token \in Token /\ k.password \in Password
           /\ Usable(values.server) => k.server = values.server
           /\ Usable(values.token) => k.token = values.token
           /\ Usable(values.password) => k.password = values.password
<1>1. Supplied(c, values.server, Url) \subseteq Url
  BY DEF Supplied, Usable
<1>2. Supplied(c, values.token, Token) \subseteq Token
  BY DEF Supplied, Usable
<1>3. Supplied(c, values.password, Password) \subseteq Password
  BY DEF Supplied, Usable
<1>4. /\ k.server \in Supplied(c, values.server, Url)
      /\ k.token \in Supplied(c, values.token, Token)
      /\ k.password \in Supplied(c, values.password, Password)
      /\ k = [server |-> k.server, token |-> k.token, password |-> k.password]
  BY DEF Resolutions
<1>5. k \in Credentials
  BY <1>1, <1>2, <1>3, <1>4 DEF Credentials
<1>6. k # None
  BY <1>5, JobsAssumption
<1> QED
  BY <1>1, <1>2, <1>3, <1>4, <1>5, <1>6 DEF Supplied

(* Going on with resolved values, as a typed change of one process.        *)
LEMMA ResolvedStep ==
    ASSUME TypeOK, NEW c \in Client, NEW values, NEW questions, NEW next,
           DOMAIN values = {"server", "token", "password"},
           values.server \in Url \cup {None, Blank},
           values.token \in Token \cup {None, Blank},
           values.password \in Password \cup {None},
           questions \subseteq {"server", "token", "password", "replace"},
           next \in {"verify", "unlock"},
           Resolved(c, values, questions, next)
    PROVE  /\ asked' \in [Client -> SUBSET {"server", "token", "password", "replace"}]
           /\ creds' \in [Client -> Credentials \cup {None}]
           /\ stage' \in [Client -> {"start", "verify", "save", "loaded", "truncated",
                                     "entry", "unlock", "note", "done"}]
           /\ outcome' \in [Client -> Outcomes \cup {None}]
           /\ asked'[c] = asked[c] \cup questions \cup AskedFor(values)
           /\ \A d \in Client \ {c} :
                 /\ stage'[d] = stage[d] /\ outcome'[d] = outcome[d]
                 /\ creds'[d] = creds[d] /\ asked'[d] = asked[d]
           /\ \/ stage'[c] = "done" /\ outcome'[c] = "no_input"
              \/ /\ stage'[c] = next /\ outcome'[c] = outcome[c]
                 /\ creds'[c] \in Resolutions(c, values)
<1>1. AskedFor(values) \subseteq {"server", "token", "password"}
  BY DEF AskedFor
<1>2. /\ asked' \in [Client -> SUBSET {"server", "token", "password", "replace"}]
      /\ asked'[c] = asked[c] \cup questions \cup AskedFor(values)
      /\ \A d \in Client \ {c} : asked'[d] = asked[d]
  BY <1>1 DEF Resolved, TypeOK
<1>3. CASE Resolutions(c, values) = {} /\ End(c, "no_input") /\ UNCHANGED creds
  <2>1. /\ stage' \in [Client -> {"start", "verify", "save", "loaded", "truncated",
                                     "entry", "unlock", "note", "done"}]
        /\ outcome' \in [Client -> Outcomes \cup {None}]
        /\ stage'[c] = "done" /\ outcome'[c] = "no_input"
        /\ \A d \in Client \ {c} : stage'[d] = stage[d] /\ outcome'[d] = outcome[d]
    BY <1>3, EndsTyped
  <2> QED
    BY <1>2, <1>3, <2>1 DEF TypeOK
<1>4. CASE /\ creds' \in {[creds EXCEPT ![c] = k] : k \in Resolutions(c, values)}
           /\ stage' = [stage EXCEPT ![c] = next]
           /\ UNCHANGED outcome
  <2>1. PICK k \in Resolutions(c, values) : creds' = [creds EXCEPT ![c] = k]
    BY <1>4
  <2>2. k \in Credentials
    BY ResolutionTypes
  <2>3. /\ creds' \in [Client -> Credentials \cup {None}]
        /\ creds'[c] = k
        /\ \A d \in Client \ {c} : creds'[d] = creds[d]
    BY <2>1, <2>2 DEF TypeOK
  <2>4. /\ stage' \in [Client -> {"start", "verify", "save", "loaded", "truncated",
                                     "entry", "unlock", "note", "done"}]
        /\ stage'[c] = next
        /\ \A d \in Client \ {c} : stage'[d] = stage[d]
    BY <1>4 DEF TypeOK
  <2> QED
    BY <1>2, <1>4, <2>3, <2>4 DEF TypeOK
<1> QED
  BY <1>3, <1>4 DEF Resolved

-----------------------------------------------------------------------------
(* config init.                                                            *)

LEMMA CheckConfigStep ==
    ASSUME ConfigInv, NEW c \in Client, CheckConfig(c)
    PROVE  ConfigInv'
<1> DEFINE flags == [server |-> job[c].server, token |-> job[c].token,
                     password |-> job[c].password]
<1>1. /\ TypeOK /\ job[c] \in Job /\ job[c].kind = "config"
      /\ stage[c] = "start" /\ outcome[c] = None
  BY PrjInProject DEF ConfigInv, ProcessInv, CheckConfig
<1>2. /\ flags.server \in Url \cup {None, Blank}
      /\ flags.token \in Token \cup {None, Blank}
      /\ flags.password \in Password \cup {None}
      /\ DOMAIN flags = {"server", "token", "password"}
  BY <1>1 DEF Job
<1>3. UNCHANGED <<disk, current, ever, job, base, map, intact>>
  BY DEF CheckConfig
<1>4. ASSUME NEW result \in {"no_input", "unreadable", "cancelled"},
             End(c, result), UNCHANGED <<creds, asked>>
      PROVE  ConfigInv'
  <2>1. TypeOK' /\ OnlyOwn(c) /\ stage'[c] = "done" /\ outcome'[c] = result
    BY <1>1, <1>3, <1>4, EndsTyped DEF TypeOK, OnlyOwn
  <2>2. ProcessInv(c)'
    BY <1>3, <2>1, EndedProcess
  <2>3. PiecesInv' /\ IntactInv'
    BY <1>1, <1>3, <2>1, SameFile, SameSaving
  <2> QED
    BY <1>3, <2>1, <2>2, <2>3, Assemble DEF ConfigInv
<1>5. ASSUME NEW questions \in {{"replace"}, {}}, Resolved(c, flags, questions, "verify")
      PROVE  ConfigInv'
  <2>1. /\ TypeOK' /\ OnlyOwn(c)
        /\ \/ stage'[c] = "done" /\ outcome'[c] = "no_input"
           \/ /\ stage'[c] = "verify" /\ outcome'[c] = outcome[c]
              /\ creds'[c] \in Resolutions(c, flags)
    <3> HIDE DEF flags
    <3>1. questions \subseteq {"server", "token", "password", "replace"}
      OBVIOUS
    <3>2. /\ asked' \in [Client -> SUBSET {"server", "token", "password", "replace"}]
          /\ creds' \in [Client -> Credentials \cup {None}]
          /\ stage' \in [Client -> {"start", "verify", "save", "loaded", "truncated",
                                     "entry", "unlock", "note", "done"}]
          /\ outcome' \in [Client -> Outcomes \cup {None}]
          /\ \A d \in Client \ {c} :
                /\ stage'[d] = stage[d] /\ outcome'[d] = outcome[d]
                /\ creds'[d] = creds[d] /\ asked'[d] = asked[d]
          /\ \/ stage'[c] = "done" /\ outcome'[c] = "no_input"
             \/ /\ stage'[c] = "verify" /\ outcome'[c] = outcome[c]
                /\ creds'[c] \in Resolutions(c, flags)
      BY <1>1, <1>2, <1>5, <3>1, ResolvedStep
    <3> QED
      BY <1>1, <1>3, <3>2 DEF TypeOK, OnlyOwn
  <2>2. PiecesInv' /\ IntactInv'
    BY <1>1, <1>3, <2>1, SameFile, SameSaving
  <2>3. CASE stage'[c] = "done" /\ outcome'[c] = "no_input"
    BY <1>3, <2>1, <2>2, <2>3, EndedProcess, Assemble DEF ConfigInv
  <2>4. CASE /\ stage'[c] = "verify" /\ outcome'[c] = outcome[c]
             /\ creds'[c] \in Resolutions(c, flags)
    <3>1. creds'[c] # None /\ creds'[c].server \in Url /\ creds'[c].token \in Token
      <4> HIDE DEF flags
      <4> QED
        BY <1>2, <2>4, ResolutionTypes
    <3>2. BaseSound(c)'
      BY <1>3 DEF ConfigInv, ProcessInv, BaseSound
    <3>3. ProcessInv(c)'
      BY <1>1, <1>3, <2>4, <3>1, <3>2 DEF ProcessInv
    <3> QED
      BY <1>3, <2>1, <2>2, <3>3, Assemble DEF ConfigInv
  <2> QED
    BY <2>1, <2>3, <2>4
<1> QED
  BY <1>4, <1>5 DEF CheckConfig

LEMMA VerifyConfigStep ==
    ASSUME ConfigInv, NEW c \in Client, VerifyConfig(c)
    PROVE  ConfigInv'
<1>1. /\ TypeOK /\ stage[c] = "verify" /\ job[c].kind = "config"
      /\ creds[c] # None /\ outcome[c] = None
  BY DEF ConfigInv, ProcessInv, VerifyConfig
<1>2. UNCHANGED <<disk, current, ever, job, creds, asked, base, map, intact>>
  BY DEF VerifyConfig
<1>3. Prj(c) \in Project /\ Prj(c)' = Prj(c)
  BY <1>1, <1>2, PrjInProject DEF Prj
<1>4. BaseSound(c)'
  BY <1>2 DEF ConfigInv, ProcessInv, BaseSound
<1>5. CASE Verified(c) /\ stage' = [stage EXCEPT ![c] = "save"] /\ UNCHANGED outcome
  <2>1. TypeOK' /\ OnlyOwn(c) /\ stage'[c] = "save" /\ outcome'[c] = None
    BY <1>1, <1>2, <1>5 DEF TypeOK, OnlyOwn
  <2>2. PiecesInv' /\ IntactInv'
    BY <1>1, <1>2, <2>1, SameFile, SameSaving
  <2>3. /\ creds[c].server = Home /\ creds[c].token = AuthToken
        /\ creds[c].password \in ever[Prj(c)]
    BY <1>3, <1>5 DEF Verified, Accepts, ConfigInv
  <2>4. ProcessInv(c)'
    BY <1>1, <1>2, <1>3, <1>4, <2>1, <2>3 DEF ProcessInv
  <2> QED
    BY <1>2, <2>1, <2>2, <2>4, Assemble DEF ConfigInv
<1>6. CASE End(c, "refused")
  <2>1. TypeOK' /\ OnlyOwn(c) /\ stage'[c] = "done"
    BY <1>1, <1>2, <1>6, EndsTyped DEF TypeOK, OnlyOwn
  <2>2. PiecesInv' /\ IntactInv'
    BY <1>1, <1>2, <2>1, SameFile, SameSaving
  <2>3. ProcessInv(c)'
    BY <1>1, <1>2, <1>4, <2>1 DEF ProcessInv
  <2> QED
    BY <1>2, <2>1, <2>2, <2>3, Assemble DEF ConfigInv
<1> QED
  BY <1>5, <1>6 DEF VerifyConfig

(* What can be read in the file is sound.                                  *)
LEMMA FileSound ==
    ASSUME ConfigInv, Readable(file), NEW p \in Project, Stored(file)[p] # None
    PROVE  Stored(file)[p] \in StoredProject /\ IsSound(Stored(file)[p], ever)
<1>1. <<p, Stored(file)[p]>> \in pieces
  BY DEF ConfigInv, PiecesInv, Entries
<1>2. Stored(file)[p] \in Tables(pieces)
  BY <1>1 DEF Tables
<1> QED
  BY <1>1, <1>2 DEF ConfigInv, PiecesInv, TypeOK

LEMMA LoadStep ==
    ASSUME ConfigInv, NEW c \in Client, Load(c)
    PROVE  ConfigInv'
<1>1. TypeOK /\ stage[c] = "save"
  BY DEF ConfigInv, Load
<1>2. UNCHANGED <<disk, current, ever, job, creds, asked, map>>
  BY DEF Load
<1>3. CASE /\ Readable(file)
           /\ base' = [base EXCEPT ![c] = Stored(file)]
           /\ stage' = [stage EXCEPT ![c] = "loaded"]
           /\ intact' = (intact /\ Saving = {})
           /\ UNCHANGED outcome
  <2>1. Stored(file) \in StoredConfig
    BY <1>1, <1>3, StoredType DEF TypeOK
  <2>2. /\ TypeOK' /\ OnlyOwn(c)
        /\ stage'[c] = "loaded" /\ base'[c] = Stored(file)
    BY <1>1, <1>2, <1>3, <2>1 DEF TypeOK, OnlyOwn
  <2>3. PiecesInv'
    BY <1>2, <2>2, SameFile
  <2>4. ASSUME intact' PROVE IntactInv'
    <3>1. intact /\ \A d \in Client : stage[d] \notin {"loaded", "truncated"}
      BY <1>3, <2>4 DEF Saving
    <3>2. Readable(file) /\ Stored(file) = map
      BY <3>1 DEF ConfigInv, IntactInv
    <3>3. Saving' = {c} /\ \A d \in Client : stage'[d] # "truncated"
      BY <2>2, <3>1 DEF Saving, OnlyOwn
    <3>4. \A p \in Project : map'[p] # None => IsVerified(p, map[p])'
      BY <1>2, <2>2, <3>1, SameMap
    <3> QED
      BY <1>2, <2>2, <3>2, <3>3, <3>4 DEF IntactInv
  <2>5. IntactInv'
    BY <2>4 DEF IntactInv
  <2>6. BaseSound(c)'
    BY <1>2, <1>3, <2>2, FileSound DEF BaseSound
  <2>7. ProcessInv(c)'
    BY <1>1, <1>2, <1>3, <2>2, <2>6 DEF ConfigInv, ProcessInv, Prj, FromFile
  <2> QED
    BY <1>2, <2>2, <2>3, <2>5, <2>7, Assemble DEF ConfigInv
<1>4. CASE End(c, "unreadable") /\ UNCHANGED <<base, intact>>
  <2>1. TypeOK' /\ OnlyOwn(c) /\ stage'[c] = "done" /\ outcome'[c] = "unreadable"
    BY <1>1, <1>2, <1>4, EndsTyped DEF TypeOK, OnlyOwn
  <2>2. PiecesInv' /\ IntactInv' /\ ProcessInv(c)'
    BY <1>1, <1>2, <1>4, <2>1, SameFile, SameSaving, EndedProcess
  <2> QED
    BY <1>2, <2>1, <2>2, Assemble DEF ConfigInv
<1> QED
  BY <1>3, <1>4 DEF Load

(* What others will have met is one of two changes.                        *)
LEMMA ChangesTyped ==
    ASSUME TypeOK, NEW c \in Client, NEW what \in {"truncated", "written"}, Changes(c, what)
    PROVE  met' \in [Client -> SUBSET {"truncated", "written"}]
BY DEF TypeOK, Changes

(* A process of an intact history that is saving is the only one.          *)
LEMMA SavesAlone ==
    ASSUME ConfigInv, intact, NEW c \in Saving
    PROVE  /\ \A d \in Client \ {c} : stage[d] \notin {"loaded", "truncated"}
           /\ base[c] = map
           /\ stage[c] = "truncated" => file = NoTables /\ pieces = {}
           /\ stage[c] = "loaded" => Readable(file) /\ Stored(file) = map
BY DEF ConfigInv, IntactInv, Saving

LEMMA TruncateStep ==
    ASSUME ConfigInv, NEW c \in Client, Truncate(c)
    PROVE  ConfigInv'
<1>1. TypeOK /\ stage[c] = "loaded"
  BY DEF ConfigInv, Truncate
<1>2. /\ file' = NoTables /\ pieces' = {} /\ Changes(c, "truncated")
      /\ UNCHANGED <<current, ever, job, creds, asked, base, outcome, map, intact>>
      /\ stage' = [stage EXCEPT ![c] = "truncated"]
  BY DEF Truncate
<1>3. TypeOK' /\ OnlyOwn(c) /\ stage'[c] = "truncated"
  <2>1. met' \in [Client -> SUBSET {"truncated", "written"}]
    BY <1>1, <1>2, ChangesTyped
  <2> QED
    BY <1>1, <1>2, <2>1, NoTablesType DEF TypeOK, OnlyOwn, Content
<1>4. PiecesInv'
  BY <1>2, NoTablesReadable DEF PiecesInv, Entries, Tables, NoTables
<1>5. IntactInv'
  <2>1. SUFFICES ASSUME intact PROVE IntactInv'
    BY <1>2 DEF IntactInv
  <2>2. /\ \A d \in Client \ {c} : stage[d] \notin {"loaded", "truncated"}
        /\ base[c] = map
    BY <1>1, <2>1, SavesAlone DEF Saving
  <2>3. Saving' = {c}
    BY <1>3, <2>2 DEF Saving, OnlyOwn
  <2>4. \A p \in Project : map'[p] # None => IsVerified(p, map[p])'
    BY <1>2, <1>3, <2>1, SameMap
  <2> QED
    BY <1>2, <1>3, <2>2, <2>3, <2>4 DEF IntactInv
<1>6. BaseSound(c)'
  BY <1>2 DEF ConfigInv, ProcessInv, BaseSound
<1>7. ProcessInv(c)'
  BY <1>1, <1>2, <1>3, <1>6 DEF ConfigInv, ProcessInv, Prj, FromFile
<1> QED
  BY <1>2, <1>3, <1>4, <1>5, <1>7, Assemble DEF ConfigInv

(* The table that a process is about to save is verified, and the text that it
   writes is sound.                                                        *)
LEMMA OwnText ==
    ASSUME ConfigInv, NEW c \in Saving
    PROVE  /\ Prj(c) \in Project
           /\ OwnTable(c) \in StoredProject
           /\ IsVerified(Prj(c), OwnTable(c))
           /\ NewText(c) \in StoredConfig
           /\ AllSound(NewText(c))
<1>1. c \in Client /\ TypeOK /\ stage[c] \in {"loaded", "truncated"} /\ ProcessInv(c)
  BY DEF Saving, ConfigInv
<1>2. Prj(c) \in Project
  BY <1>1, PrjInProject
<1>3. /\ creds[c].server = Home /\ creds[c].token = AuthToken
      /\ creds[c].password \in ever[Prj(c)] /\ creds[c].password \in Password
  BY <1>1, <1>2 DEF ProcessInv, TypeOK
<1>4. ThisDevice \in Device /\ c \in Random /\ Home \in Url /\ AuthToken \in Token
  BY <1>1, JobsAssumption, ConfigFileAssumption
<1>5. OwnTable(c) \in StoredProject
  BY <1>2, <1>3, <1>4, NewTableType DEF OwnTable
<1>6. IsVerified(Prj(c), OwnTable(c))
  BY <1>3, <1>4 DEF OwnTable, IsVerified
<1>7. base[c] \in StoredConfig
  BY <1>1 DEF TypeOK
<1>8. /\ NewText(c) \in StoredConfig
      /\ \A p \in Project : NewText(c)[p] = IF p = Prj(c) THEN OwnTable(c) ELSE base[c][p]
  BY <1>2, <1>5, <1>7 DEF NewText, Inserted, StoredConfig
<1>9. IsSound(OwnTable(c), ever)
  BY <1>2, <1>6, VerifiedIsSound
<1> QED
  BY <1>1, <1>2, <1>5, <1>6, <1>8, <1>9 DEF ProcessInv, BaseSound, AllSound

(* What a write makes of the file is sound, whatever was there.            *)
LEMMA WriteSound ==
    ASSUME ConfigInv, NEW c \in Saving, ever' = ever,
           \/ file' \in WrittenOver(NewText(c), pieces)
           \/ file' \in TornWrites(NewText(c), pieces),
           pieces' = PiecesAfter(NewText(c))
    PROVE  /\ PiecesInv'
           /\ file' \in Content
           /\ pieces' \in SUBSET (Project \X StoredProject)
<1>1. SoundPieces(pieces) /\ NewText(c) \in StoredConfig /\ AllSound(NewText(c))
  BY OwnText DEF ConfigInv, TypeOK, PiecesInv, SoundPieces, AreTables
<1>2. /\ file' \in StoredConfig \cup {Garbled}
      /\ file' # Garbled => file' \in StoredConfig /\ AllSound(file')
  BY <1>1, WrittenSound
<1>3. ASSUME NEW config \in StoredConfig, AllSound(config)
      PROVE  SoundPieces(Entries(config))
  BY <1>3, EntriesType DEF SoundPieces, AllSound
<1>4. SoundPieces(pieces')
  <2>1. CASE file' = Garbled
    <3>1. \A begin \in Blends(NewText(c), pieces) : SoundPieces(Entries(begin))
      BY <1>1, <1>3, BlendsSound
    <3>2. SoundPieces(UNION {Entries(begin) : begin \in Blends(NewText(c), pieces)})
      BY <3>1 DEF SoundPieces, AreTables, Tables
    <3> QED
      BY <1>1, <1>3, <2>1, <3>2 DEF PiecesAfter, SoundPieces, AreTables, Tables
  <2>2. CASE file' # Garbled
    BY <1>1, <1>2, <1>3, <2>2 DEF PiecesAfter, SoundPieces, AreTables, Tables
  <2> QED
    BY <2>1, <2>2
<1>5. file' # Garbled => Stored(file') = file' /\ Entries(file') \subseteq pieces'
  BY <1>2, ConfigFileAssumption DEF Stored, PiecesAfter
<1> QED
  BY <1>2, <1>4, <1>5 DEF PiecesInv, Readable, Content, SoundPieces, AreTables

LEMMA WriteTextStep ==
    ASSUME ConfigInv, NEW c \in Client, WriteText(c)
    PROVE  ConfigInv'
<1>1. TypeOK /\ stage[c] = "truncated" /\ c \in Saving
  BY DEF ConfigInv, WriteText, Saving
<1>2. /\ file' \in WrittenOver(NewText(c), pieces)
      /\ pieces' = PiecesAfter(NewText(c))
      /\ Changes(c, "written")
      /\ map' = [map EXCEPT ![Prj(c)] = OwnTable(c)]
      /\ End(c, "ok")
      /\ UNCHANGED <<current, ever, job, creds, asked, base, intact>>
  BY DEF WriteText
<1>3. /\ PiecesInv' /\ file' \in Content
      /\ pieces' \in SUBSET (Project \X StoredProject)
      /\ met' \in [Client -> SUBSET {"truncated", "written"}]
  BY <1>1, <1>2, WriteSound, ChangesTyped
<1>4. map' \in StoredConfig
  BY <1>1, <1>2, OwnText DEF TypeOK, StoredConfig
<1>5. TypeOK' /\ OnlyOwn(c) /\ stage'[c] = "done" /\ outcome'[c] = "ok"
  BY <1>1, <1>2, <1>3, <1>4, EndsTyped DEF TypeOK, OnlyOwn
<1>6. IntactInv'
  <2>1. SUFFICES ASSUME intact PROVE IntactInv'
    BY <1>2 DEF IntactInv
  <2>2. /\ \A d \in Client \ {c} : stage[d] \notin {"loaded", "truncated"}
        /\ base[c] = map /\ pieces = {}
    BY <1>1, <2>1, SavesAlone
  <2>3. Saving' = {} /\ \A d \in Client : stage'[d] # "truncated"
    BY <1>5, <2>2 DEF Saving, OnlyOwn
  <2>4. file' = NewText(c)
    BY <1>2, <2>2 DEF WrittenOver
  <2>5. file' = map' /\ file' \in StoredConfig
    BY <1>1, <1>2, <2>2, <2>4, OwnText DEF NewText, Inserted
  <2>6. Readable(file') /\ Stored(file') = map'
    BY <2>5, ConfigFileAssumption DEF Readable, Stored
  <2>7. ASSUME NEW p \in Project, map'[p] # None
        PROVE  IsVerified(p, map'[p])
    <3>1. map'[p] = IF p = Prj(c) THEN OwnTable(c) ELSE map[p]
      BY <1>1, <1>2 DEF TypeOK, StoredConfig
    <3>2. map[p] # None => IsVerified(p, map[p])
      BY <2>1 DEF ConfigInv, IntactInv
    <3>3. IsVerified(Prj(c), OwnTable(c))
      BY <1>1, OwnText
    <3> QED
      BY <2>7, <3>1, <3>2, <3>3
  <2>8. \A p \in Project : map'[p] # None => IsVerified(p, map[p])'
    BY <1>2, <2>7 DEF IsVerified
  <2> QED
    BY <2>3, <2>6, <2>8 DEF IntactInv
<1>7. ProcessInv(c)'
  BY <1>2, <1>5, EndedProcess
<1> QED
  BY <1>2, <1>3, <1>5, <1>6, <1>7, Assemble DEF ConfigInv

(* A save that is given up leaves an intact history only if it is given up
   before the truncation.                                                  *)
LEMMA LeavesSave ==
    ASSUME ConfigInv, NEW c \in Client, OnlyOwn(c),
           stage'[c] = "done", UNCHANGED <<disk, base, map>>,
           intact' => intact /\ stage[c] # "truncated"
    PROVE  IntactInv'
<1>1. SUFFICES ASSUME intact' PROVE IntactInv'
  BY DEF IntactInv
<1>2. \A d \in Client : stage'[d] = "truncated" <=> stage[d] = "truncated"
  BY <1>1 DEF OnlyOwn
<1>3. Saving' \subseteq Saving
  BY DEF Saving, OnlyOwn
<1> QED
  BY <1>1, <1>2, <1>3, SameMap DEF ConfigInv, IntactInv

LEMMA SaveFailsStep ==
    ASSUME ConfigInv, NEW c \in Client, SaveFails(c)
    PROVE  ConfigInv'
<1>1. TypeOK /\ End(c, "write_failed") /\ stage[c] \in {"loaded", "truncated"} /\ c \in Saving
  BY DEF ConfigInv, SaveFails, Saving
<1>2. UNCHANGED <<current, ever, job, creds, asked, base, map>>
  BY DEF SaveFails
<1>3. /\ stage'[c] = "done" /\ outcome'[c] = "write_failed" /\ OnlyOwn(c)
  BY <1>1, <1>2, EndsTyped DEF OnlyOwn
<1>4. ProcessInv(c)'
  BY <1>2, <1>3, EndedProcess
<1>5. CASE stage[c] = "loaded" /\ UNCHANGED <<disk, intact>>
  <2>1. TypeOK'
    BY <1>1, <1>2, <1>5, EndsTyped DEF TypeOK
  <2>2. PiecesInv' /\ IntactInv'
    BY <1>2, <1>3, <1>5, SameFile, LeavesSave
  <2> QED
    BY <1>2, <1>3, <1>4, <2>1, <2>2, Assemble DEF ConfigInv
<1>6. CASE /\ file' \in TornWrites(NewText(c), pieces)
           /\ pieces' = PiecesAfter(NewText(c))
           /\ Changes(c, "written") /\ intact' = FALSE
  <2>1. /\ PiecesInv' /\ file' \in Content
        /\ pieces' \in SUBSET (Project \X StoredProject)
        /\ met' \in [Client -> SUBSET {"truncated", "written"}]
    BY <1>1, <1>2, <1>6, WriteSound, ChangesTyped
  <2>2. TypeOK'
    BY <1>1, <1>2, <1>6, <2>1, EndsTyped DEF TypeOK
  <2>3. IntactInv'
    BY <1>6 DEF IntactInv
  <2> QED
    BY <1>2, <1>3, <1>4, <2>1, <2>2, <2>3, Assemble DEF ConfigInv
<1> QED
  BY <1>5, <1>6 DEF SaveFails

LEMMA CrashStep ==
    ASSUME ConfigInv, NEW c \in Client, Crash(c)
    PROVE  ConfigInv'
<1>1. /\ TypeOK /\ End(c, "crashed")
      /\ intact' = (intact /\ stage[c] # "truncated")
      /\ UNCHANGED <<disk, current, ever, job, creds, asked, base, map>>
  BY DEF ConfigInv, Crash
<1>2. TypeOK' /\ OnlyOwn(c) /\ stage'[c] = "done" /\ outcome'[c] = "crashed"
  BY <1>1, EndsTyped DEF TypeOK, OnlyOwn
<1>3. PiecesInv' /\ IntactInv' /\ ProcessInv(c)'
  BY <1>1, <1>2, SameFile, LeavesSave, EndedProcess
<1> QED
  BY <1>1, <1>2, <1>3, Assemble DEF ConfigInv

-----------------------------------------------------------------------------
(* Every other command.                                                    *)

(* A command that gives up outside of a save.                              *)
LEMMA GivesUp ==
    ASSUME ConfigInv, NEW c \in Client, stage[c] \notin {"loaded", "truncated"},
           NEW result \in {"ok", "ok_renew", "no_input", "unreadable", "not_configured",
                           "invalid_salt", "incorrect", "refused", "same_password"},
           End(c, result),
           UNCHANGED <<disk, current, ever, job, creds, base, map, intact>>,
           asked' \in [Client -> SUBSET {"server", "token", "password", "replace"}],
           \A d \in Client \ {c} : asked'[d] = asked[d]
    PROVE  ConfigInv'
<1>1. TypeOK' /\ OnlyOwn(c) /\ stage'[c] = "done" /\ outcome'[c] = result
  BY EndsTyped DEF ConfigInv, TypeOK, OnlyOwn
<1>2. PiecesInv' /\ IntactInv' /\ ProcessInv(c)'
  BY <1>1, SameFile, SameSaving, EndedProcess
<1> QED
  BY <1>1, <1>2, Assemble DEF ConfigInv

(* A command that has its server and its token goes on to unlock.  If both are
   from the table, they are what the server takes, and the password is one
   that the project has had.                                               *)
LEMMA GoesOnToUnlock ==
    ASSUME ConfigInv, NEW c \in Client, job[c].kind # "config",
           stage[c] \in {"start", "entry"},
           UNCHANGED <<disk, current, ever, job, base, map, intact>>,
           NEW values,
           DOMAIN values = {"server", "token", "password"},
           values.server \in Url \cup {None, Blank},
           values.token \in Token \cup {None, Blank},
           values.password \in Password \cup {None},
           Resolved(c, values, {}, "unlock"),
           job[c].server = None /\ job[c].token = None =>
               \/ ~Usable(values.server)
               \/ /\ values.server = Home /\ values.token = AuthToken
                  /\ values.password \in ever[Prj(c)]
    PROVE  ConfigInv'
<1>1. TypeOK /\ Prj(c) \in Project /\ Prj(c)' = Prj(c)
  BY PrjInProject DEF ConfigInv, Prj
<1>2. /\ TypeOK' /\ OnlyOwn(c)
      /\ asked'[c] = asked[c] \cup AskedFor(values)
      /\ \/ stage'[c] = "done" /\ outcome'[c] = "no_input"
         \/ /\ stage'[c] = "unlock" /\ outcome'[c] = outcome[c]
            /\ creds'[c] \in Resolutions(c, values)
  BY <1>1, ResolvedStep DEF TypeOK, OnlyOwn
<1>3. PiecesInv' /\ IntactInv'
  BY <1>2, SameFile, SameSaving
<1>4. CASE stage'[c] = "done" /\ outcome'[c] = "no_input"
  BY <1>2, <1>3, <1>4, EndedProcess, Assemble DEF ConfigInv
<1>5. CASE /\ stage'[c] = "unlock" /\ outcome'[c] = outcome[c]
           /\ creds'[c] \in Resolutions(c, values)
  <2>1. /\ creds'[c] # None /\ creds'[c].server \in Url /\ creds'[c].token \in Token
        /\ Usable(values.server) => creds'[c].server = values.server
        /\ Usable(values.token) => creds'[c].token = values.token
        /\ Usable(values.password) => creds'[c].password = values.password
    BY <1>5, ResolutionTypes
  <2>2. ASSUME FromFile(c)'
        PROVE  /\ creds'[c].server = Home /\ creds'[c].token = AuthToken
               /\ creds'[c].password \in ever[Prj(c)]
    <3>1. job[c].server = None /\ job[c].token = None /\ "server" \notin asked'[c]
      BY <2>2 DEF FromFile
    <3>2. Usable(values.server)
      BY <1>2, <3>1 DEF AskedFor
    <3>3. /\ values.server = Home /\ values.token = AuthToken
          /\ values.password \in ever[Prj(c)] /\ values.password \in Password
      BY <1>1, <3>1, <3>2 DEF TypeOK
    <3>4. Usable(values.token) /\ Usable(values.password)
      BY <3>3, ConfigFileAssumption DEF Usable
    <3> QED
      BY <2>1, <3>2, <3>3, <3>4
  <2>3. BaseSound(c)'
    BY DEF ConfigInv, ProcessInv, BaseSound
  <2>4. outcome'[c] = None
    BY <1>5 DEF ConfigInv, ProcessInv
  <2>5. ProcessInv(c)'
    BY <1>1, <1>5, <2>1, <2>2, <2>3, <2>4, JobsAssumption DEF ProcessInv
  <2> QED
    BY <1>2, <1>3, <2>5, Assemble DEF ConfigInv
<1> QED
  BY <1>2, <1>4, <1>5

LEMMA ResolveStep ==
    ASSUME ConfigInv, NEW c \in Client, Resolve(c)
    PROVE  ConfigInv'
<1>1. /\ TypeOK /\ job[c] \in Job /\ job[c].kind # "config"
      /\ stage[c] = "start" /\ outcome[c] = None
  BY PrjInProject DEF ConfigInv, ProcessInv, Resolve
<1>2. UNCHANGED <<disk, current, ever, job, base, map, intact>>
  BY DEF Resolve
<1>3. CASE End(c, "unreadable") /\ UNCHANGED <<creds, asked>>
  BY <1>1, <1>2, <1>3, GivesUp DEF TypeOK
<1>4. CASE /\ asked' = [asked EXCEPT ![c] = IF job[c].password = None THEN {"password"} ELSE {}]
           /\ \/ /\ \E pw \in Supplied(c, job[c].password, Password) :
                        creds' = [creds EXCEPT ![c] = [NoneSaved(c) EXCEPT !.password = pw]]
                 /\ stage' = [stage EXCEPT ![c] = "entry"]
                 /\ UNCHANGED outcome
              \/ End(c, "no_input") /\ UNCHANGED creds
  <2>1. /\ asked' \in [Client -> SUBSET {"server", "token", "password", "replace"}]
        /\ \A d \in Client \ {c} : asked'[d] = asked[d]
    BY <1>1, <1>4 DEF TypeOK
  <2>2. CASE End(c, "no_input") /\ UNCHANGED creds
    BY <1>1, <1>2, <2>1, <2>2, GivesUp
  <2>3. CASE /\ \E pw \in Supplied(c, job[c].password, Password) :
                   creds' = [creds EXCEPT ![c] = [NoneSaved(c) EXCEPT !.password = pw]]
             /\ stage' = [stage EXCEPT ![c] = "entry"]
             /\ UNCHANGED outcome
    <3>1. PICK pw \in Supplied(c, job[c].password, Password) :
             creds' = [creds EXCEPT ![c] = [NoneSaved(c) EXCEPT !.password = pw]]
      BY <2>3
    <3>2. pw \in Password
      BY <1>1 DEF Supplied, Usable, Job
    <3> DEFINE k == [NoneSaved(c) EXCEPT !.password = pw]
    <3>3. k \in Credentials /\ k # None
      BY <3>2, JobsAssumption DEF NoneSaved, Credentials
    <3> HIDE DEF k
    <3>4. TypeOK' /\ OnlyOwn(c) /\ stage'[c] = "entry" /\ creds'[c] # None /\ outcome'[c] = None
      BY <1>1, <1>2, <2>1, <2>3, <3>1, <3>3 DEF TypeOK, OnlyOwn, k
    <3>5. PiecesInv' /\ IntactInv'
      BY <1>1, <1>2, <3>4, SameFile, SameSaving
    <3>6. BaseSound(c)'
      BY <1>2 DEF ConfigInv, ProcessInv, BaseSound
    <3>7. ProcessInv(c)'
      BY <1>1, <1>2, <3>4, <3>6, JobsAssumption DEF ProcessInv
    <3> QED
      BY <1>2, <3>4, <3>5, <3>7, Assemble DEF ConfigInv
  <2> QED
    BY <1>4, <2>2, <2>3
<1>5. CASE Resolved(c, Values(c, NoneSaved(c)), {}, "unlock")
  <2> DEFINE values == Values(c, NoneSaved(c))
  <2>1. /\ DOMAIN values = {"server", "token", "password"}
        /\ values.server \in Url \cup {None, Blank}
        /\ values.token \in Token \cup {None, Blank}
        /\ values.password \in Password \cup {None}
        /\ job[c].server = None => ~Usable(values.server)
    BY <1>1 DEF Values, NoneSaved, OrElse, Usable, Job
  <2>2. Resolved(c, values, {}, "unlock")
    BY <1>5
  <2> HIDE DEF values
  <2> QED
    BY <1>1, <1>2, <2>1, <2>2, GoesOnToUnlock
<1> QED
  BY <1>3, <1>4, <1>5 DEF Resolve

LEMMA ReadEntryStep ==
    ASSUME ConfigInv, NEW c \in Client, ReadEntry(c)
    PROVE  ConfigInv'
<1>1. /\ TypeOK /\ job[c] \in Job /\ job[c].kind # "config" /\ Prj(c) \in Project
      /\ stage[c] = "entry" /\ creds[c] # None /\ creds[c].password \in Password
  <2>1. TypeOK /\ stage[c] = "entry" /\ creds[c] # None /\ job[c].kind # "config"
    BY DEF ConfigInv, ProcessInv, ReadEntry
  <2> QED
    BY <2>1, PrjInProject DEF TypeOK, Credentials
<1>2. UNCHANGED <<disk, current, ever, job, base, map, intact>>
  BY DEF ReadEntry
<1>3. ASSUME NEW result \in {"unreadable", "not_configured", "invalid_salt", "incorrect"},
             End(c, result), UNCHANGED <<creds, asked>>
      PROVE  ConfigInv'
  BY <1>1, <1>2, <1>3, GivesUp DEF TypeOK
<1> DEFINE table == Stored(file)[Prj(c)]
           values == Values(c, [server   |-> table.encrypted_server.msg,
                                token    |-> table.encrypted_token.msg,
                                password |-> creds[c].password])
<1>4. CASE /\ Readable(file) /\ table # None
           /\ TableOpens(table, Prj(c), creds[c].password, ThisDevice)
           /\ Resolved(c, values, {}, "unlock")
  <2>1. IsVerified(Prj(c), table)
    BY <1>1, <1>4, FileSound, OpensVerified
  <2>2. PICK pw \in ever[Prj(c)], uid \in Device, salt \in Random :
           table = NewTable(ConfigKey(pw, uid, salt), Prj(c), Home, AuthToken)
    BY <2>1 DEF IsVerified
  <2> HIDE DEF table
  <2>3. /\ table.encrypted_server.msg = Home /\ table.encrypted_token.msg = AuthToken
        /\ table.encrypted_server.key.password = pw
    BY <2>2, NewTableFields
  <2>4. creds[c].password = pw
    BY <1>4, <2>3 DEF TableOpens, Opens, ConfigKey
  <2>5. /\ DOMAIN values = {"server", "token", "password"}
        /\ values.server \in Url \cup {None, Blank}
        /\ values.token \in Token \cup {None, Blank}
        /\ values.password \in Password \cup {None}
        /\ job[c].server = None /\ job[c].token = None =>
              /\ values.server = Home /\ values.token = AuthToken
              /\ values.password \in ever[Prj(c)]
    BY <1>1, <2>3, <2>4, JobsAssumption, ConfigFileAssumption DEF Values, OrElse, Job
  <2> HIDE DEF values
  <2> QED
    BY <1>1, <1>2, <1>4, <2>5, GoesOnToUnlock
<1> QED
  BY <1>3, <1>4 DEF ReadEntry

LEMMA UnlockStep ==
    ASSUME ConfigInv, NEW c \in Client, Unlock(c)
    PROVE  ConfigInv'
<1>1. /\ TypeOK /\ stage[c] = "unlock" /\ job[c].kind # "config"
      /\ UNCHANGED <<disk, current, ever, job, creds, asked, base, map, intact>>
  BY DEF ConfigInv, Unlock
<1>2. CASE Accepts(Prj(c), creds[c]) /\ End(c, "ok")
  BY <1>1, <1>2, GivesUp DEF TypeOK
<1>3. CASE ~Accepts(Prj(c), creds[c]) /\ End(c, "refused")
  BY <1>1, <1>3, GivesUp DEF TypeOK
<1> QED
  BY <1>2, <1>3 DEF Unlock

LEMMA ResetPasswordStep ==
    ASSUME ConfigInv, NEW c \in Client, ResetPassword(c)
    PROVE  ConfigInv'
<1>1. /\ TypeOK /\ stage[c] = "unlock" /\ job[c].kind = "reset" /\ Prj(c) \in Project
      /\ UNCHANGED <<disk, job, creds, asked, base, map, intact>>
  BY PrjInProject DEF ConfigInv, ResetPassword
<1>2. job[c].new \in Password /\ creds[c] # None /\ outcome[c] = None
  BY <1>1, JobsAssumption DEF TypeOK, ConfigInv, ProcessInv
<1>3. CASE /\ current' = [current EXCEPT ![Prj(c)] = job[c].new]
           /\ ever' = [ever EXCEPT ![Prj(c)] = @ \cup {job[c].new}]
           /\ stage' = [stage EXCEPT ![c] = "note"]
           /\ UNCHANGED outcome
  <2>1. TypeOK' /\ OnlyOwn(c) /\ stage'[c] = "note" /\ outcome'[c] = None
    BY <1>1, <1>2, <1>3 DEF TypeOK, OnlyOwn
  <2>2. PiecesInv' /\ IntactInv'
    BY <1>1, <2>1, SameFile, SameSaving
  <2>3. \A p \in Project : current'[p] \in ever'[p]
    BY <1>1, <1>3 DEF TypeOK, ConfigInv
  <2>4. BaseSound(c)'
    BY <1>1, <2>1, SoundGrows DEF OnlyOwn, ConfigInv, ProcessInv, BaseSound
  <2>5. ProcessInv(c)'
    BY <1>1, <1>2, <2>1, <2>4, JobsAssumption DEF ProcessInv
  <2> QED
    BY <2>1, <2>2, <2>3, <2>5, Assemble
<1>4. CASE End(c, "same_password") /\ UNCHANGED <<current, ever>>
  BY <1>1, <1>4, GivesUp DEF TypeOK
<1>5. CASE /\ ~Accepts(Prj(c), creds[c])
           /\ End(c, "refused") /\ UNCHANGED <<current, ever>>
  BY <1>1, <1>5, GivesUp DEF TypeOK
<1> QED
  BY <1>3, <1>4, <1>5 DEF ResetPassword

LEMMA NoteEntryStep ==
    ASSUME ConfigInv, NEW c \in Client, NoteEntry(c)
    PROVE  ConfigInv'
<1>1. /\ TypeOK /\ stage[c] = "note"
      /\ UNCHANGED <<disk, current, ever, job, creds, asked, base, map, intact>>
  BY DEF ConfigInv, NoteEntry
<1>2. PICK result \in {"unreadable", "ok_renew", "ok"} : End(c, result)
  BY DEF NoteEntry
<1> QED
  BY <1>1, <1>2, GivesUp DEF TypeOK

-----------------------------------------------------------------------------
(* The theorems.                                                           *)

LEMMA InitInv == Init => ConfigInv
<1> SUFFICES ASSUME Init PROVE ConfigInv
  OBVIOUS
<1>1. Readable(file) /\ file \in Content /\ Stored(file) \in StoredConfig
  <2>1. CASE file = None
    BY <2>1, NoTablesType, ConfigFileAssumption DEF Readable, Stored, Content
  <2>2. CASE file # None
    BY <2>2, EarlierFilesAssumption, ConfigFileAssumption DEF Init, Readable, Stored, Content
  <2> QED
    BY <2>1, <2>2
<1>2. ASSUME NEW p \in Project, Stored(file)[p] # None
      PROVE  /\ Stored(file)[p].encrypted_server.key.password \in Password
             /\ ever[p] = {FirstPassword[p], Stored(file)[p].encrypted_server.key.password}
             /\ IsVerified(p, Stored(file)[p])
  <2>1. file # None /\ Stored(file) = file
    BY <1>2 DEF Stored, NoTables
  <2>2. file[p] \in EarlierTables(p)
    BY <1>2, <2>1, EarlierFilesAssumption DEF Init
  <2>3. PICK pw \in Password, uid \in Device, salt \in Random \ Client :
           file[p] = NewTable(ConfigKey(pw, uid, salt), p, Home, AuthToken)
    BY <2>2 DEF EarlierTables
  <2>4. file[p].encrypted_server.key.password = pw
    BY <2>3, NewTableFields
  <2>5. ever[p] = {FirstPassword[p], Stored(file)[p].encrypted_server.key.password}
    BY <1>2 DEF Init
  <2>6. IsVerified(p, file[p])
    BY <2>1, <2>3, <2>4, <2>5 DEF IsVerified
  <2> QED
    BY <2>1, <2>4, <2>5, <2>6
<1>3. current \in [Project -> Password] /\ \A p \in Project : current[p] \in ever[p]
  BY JobsAssumption DEF Init
<1>4. ever \in [Project -> SUBSET Password]
  <2>1. \A p \in Project : ever[p] \subseteq Password
    BY <1>2, JobsAssumption DEF Init
  <2>2. ever = [p \in Project |-> ever[p]]
    BY DEF Init
  <2> QED
    BY <2>1, <2>2
<1>5. TypeOK
  <2>1. pieces \in SUBSET (Project \X StoredProject)
    BY <1>1, EntriesType DEF Init, AreTables
  <2> QED
    BY <1>1, <1>3, <1>4, <2>1, NoTablesType DEF Init, TypeOK
<1>6. PiecesInv
  BY <1>1, <1>2, EntriesType, VerifiedIsSound DEF Init, PiecesInv
<1>7. IntactInv
  BY <1>1, <1>2 DEF Init, IntactInv, Saving
<1>8. \A c \in Client : ProcessInv(c)
  BY JobsAssumption DEF Init, ProcessInv, BaseSound, NoTables
<1> QED
  BY <1>3, <1>5, <1>6, <1>7, <1>8 DEF ConfigInv

LEMMA StutterStep ==
    ASSUME ConfigInv, UNCHANGED vars
    PROVE  ConfigInv'
<1> USE DEF vars
<1>1. TypeOK' /\ PiecesInv' /\ IntactInv' /\ \A p \in Project : current'[p] \in ever'[p]
  BY DEF ConfigInv, TypeOK, PiecesInv, IsVerified, IntactInv, Saving
<1>2. \A c \in Client : ProcessInv(c)'
  BY DEF ConfigInv, ProcessInv, BaseSound, FromFile, Prj
<1> QED
  BY <1>1, <1>2 DEF ConfigInv

LEMMA NextInv == ConfigInv /\ [Next]_vars => ConfigInv'
<1> SUFFICES ASSUME ConfigInv, [Next]_vars PROVE ConfigInv'
  OBVIOUS
<1>1. ASSUME NEW c \in Client, Step(c) PROVE ConfigInv'
  BY <1>1, CheckConfigStep, VerifyConfigStep, LoadStep, TruncateStep, WriteTextStep,
     SaveFailsStep, ResolveStep, ReadEntryStep, UnlockStep, ResetPasswordStep,
     NoteEntryStep, CrashStep DEF Step
<1>2. CASE AllDone \/ UNCHANGED vars
  BY <1>2, StutterStep DEF AllDone
<1> QED
  BY <1>1, <1>2 DEF Next

(* Types, the values that are in the file, the order of saves that do not
   collide, and what every process holds: the invariant from which the others
   follow.                                                                 *)
THEOREM ConfigInvariant == Spec => []ConfigInv
<1>1. Init => ConfigInv
  BY InitInv
<1>2. ConfigInv /\ [Next]_vars => ConfigInv'
  BY NextInv
<1> QED
  BY <1>1, <1>2, PTL DEF Spec

(* However many processes save, reset, fail and are killed, and whatever their
   texts make of each other in ~/.keyben.toml, a table there that opens under any
   password on any machine was verified against the server as a whole, by one
   process.                                                                *)
THEOREM TablesVerified == Spec => []EntriesVerified
<1>1. ConfigInv => EntriesVerified
  <2> SUFFICES ASSUME ConfigInv, Readable(file), NEW p \in Project, Stored(file)[p] # None,
                      \/ intact
                      \/ \E pw \in Password, uid \in Device :
                            TableOpens(Stored(file)[p], p, pw, uid)
               PROVE  IsVerified(p, Stored(file)[p])
    BY DEF EntriesVerified
  <2>1. CASE intact
    BY <2>1, NoTablesReadable DEF ConfigInv, IntactInv, NoTables
  <2>2. CASE \E pw \in Password, uid \in Device : TableOpens(Stored(file)[p], p, pw, uid)
    BY <2>2, FileSound, OpensVerified
  <2> QED
    BY <2>1, <2>2
<1> QED
  BY <1>1, ConfigInvariant, PTL

(* Saves that neither overlap nor break off replace one table each and
   preserve all others.                                                    *)
THEOREM SavesAtomic == Spec => []IntactFileIsTheMap
<1>1. ConfigInv => IntactFileIsTheMap
  BY DEF ConfigInv, IntactInv, IntactFileIsTheMap
<1> QED
  BY <1>1, ConfigInvariant, PTL

(* The server has refused a command whose values came from the table.      *)
LEMMA RefusedByServer ==
    ASSUME ConfigInv, [Next]_vars, NEW c \in Client,
           outcome[c] = None, outcome'[c] = "refused", job[c].kind # "config"
    PROVE  stage[c] = "unlock" /\ ~Accepts(Prj(c), creds[c])
<1>1. outcome \in [Client -> Outcomes \cup {None}] /\ outcome' # outcome
  BY JobsAssumption DEF ConfigInv, TypeOK
<1>2. PICK d \in Client : Step(d)
  BY <1>1 DEF Next, AllDone, vars
<1>3. ASSUME NEW result, End(d, result)
      PROVE  d = c /\ result = "refused"
  BY <1>1, <1>3, JobsAssumption DEF End
<1>4. CASE VerifyConfig(d)
  BY <1>1, <1>3, <1>4 DEF VerifyConfig, ConfigInv, ProcessInv
<1>5. CASE Unlock(d)
  BY <1>3, <1>5 DEF Unlock
<1>6. CASE ResetPassword(d)
  BY <1>1, <1>3, <1>6 DEF ResetPassword
<1>7. CASE CheckConfig(d) \/ Resolve(d) \/ ReadEntry(d)
  BY <1>1, <1>3, <1>7 DEF CheckConfig, Resolve, ReadEntry, Resolved
<1>8. CASE \/ Load(d) \/ Truncate(d) \/ WriteText(d) \/ SaveFails(d)
           \/ NoteEntry(d) \/ Crash(d)
  BY <1>1, <1>3, <1>8 DEF Load, Truncate, WriteText, SaveFails, NoteEntry, Crash
<1> QED
  BY <1>2, <1>4, <1>5, <1>6, <1>7, <1>8 DEF Step

(* A command whose server and token come from its project's table is refused
   only if its password is one that the project has had, and has no more.  *)
THEOREM SavedEntriesWork == Spec => SavedEntryWorks
<1>1. ASSUME ConfigInv, [Next]_vars, NEW c \in Client, outcome[c] = None,
             outcome'[c] = "refused", job[c].kind # "config", FromFile(c)
      PROVE  creds[c].password \in ever[Prj(c)] \ {current[Prj(c)]}
  <2>1. stage[c] = "unlock" /\ ~Accepts(Prj(c), creds[c])
    BY <1>1, RefusedByServer
  <2>2. /\ creds[c].server = Home /\ creds[c].token = AuthToken
        /\ creds[c].password \in ever[Prj(c)]
    BY <1>1, <2>1 DEF ConfigInv, ProcessInv
  <2> QED
    BY <2>1, <2>2 DEF Accepts
<1>2. ConfigInv /\ [Next]_vars =>
        [\A c \in Client :
            /\ outcome[c] = None /\ outcome'[c] = "refused"
            /\ job[c].kind # "config" /\ FromFile(c)
            => creds[c].password \in ever[Prj(c)] \ {current[Prj(c)]}]_vars
  BY <1>1
<1> QED
  BY <1>2, ConfigInvariant, PTL DEF Spec, SavedEntryWorks
=============================================================================
