----------------------------- MODULE ConfigFile -----------------------------
(***************************************************************************)
(* ~/.keyben.toml: one table per project, whose two fields are encrypted   *)
(* under the project password, the machine and a salt of the table's own.  *)
(* Source: src/client/config.rs over the envelope of Envelope.             *)
(*                                                                         *)
(* A text that parses is the map of its tables.  One that does not is      *)
(* Garbled, and a file that does not exist is None.                        *)
(***************************************************************************)
EXTENDS Wire, Naturals

CONSTANTS
    Url,        \* addresses of servers
    Device,     \* machine UIDs
    Rank,       \* the order of names: BTreeMap writes its tables in this order
    Spliced,    \* a value that begins like one text and ends like another
    Garbled     \* a text that is not a sequence of tables

SERVER_ROLE == "cfg-server-v4"
TOKEN_ROLE  == "cfg-token-v4"

(* Password and machine UID are concatenated, which tells passwords apart on
   one machine and machines apart for one password.                        *)
ConfigKey(password, machine_uid, salt) ==
    [password |-> password, machine_uid |-> machine_uid, salt |-> salt]

FaultyFieldRole(role, project) == <<role, CHOOSE p \in Project : TRUE>>
FieldRole(role, project) == <<role, project>>

Field == [key   : [password : Password, machine_uid : Device, salt : Random],
          aad   : {SERVER_ROLE, TOKEN_ROLE} \X Project,
          nonce : Random,
          msg   : Url \cup Token]

(* Any table that parses, also one that no process has written as a whole.  *)
StoredProject == [salt             : Random \cup {Spliced},
                  encrypted_server : Field \cup {Spliced},
                  encrypted_token  : Field \cup {Spliced}]
StoredConfig  == [Project -> StoredProject \cup {None}]

NewTable(key, project, server, token) ==
    [salt             |-> key.salt,
     encrypted_server |-> Seal(key, FieldRole(SERVER_ROLE, project), key.salt, server),
     encrypted_token  |-> Seal(key, FieldRole(TOKEN_ROLE, project), key.salt, token)]

(* read_from: both fields open under the password that the user has given. *)
TableOpens(table, project, password, machine_uid) ==
    LET key == ConfigKey(password, machine_uid, table.salt)
        Decrypts(role, field) == field # Spliced /\ Opens(key, FieldRole(role, project), field) IN
    /\ Decrypts(SERVER_ROLE, table.encrypted_server)
    /\ Decrypts(TOKEN_ROLE, table.encrypted_token)

NoTables == [p \in Project |-> None]

FaultyReadable(content) == content \notin {None, Garbled}
(* read_stored_if_present, with unwrap_or_default.  An empty text parses.  *)
Readable(content) == content # Garbled
Stored(content)   == IF content = None THEN NoTables ELSE content

FaultyInserted(stored, project, table) == [NoTables EXCEPT ![project] = table]
(* The text that write_to writes.                                          *)
Inserted(stored, project, table) == [stored EXCEPT ![project] = table]

-----------------------------------------------------------------------------
(* Texts that meet in the file.  A writer writes from the start of the file,
   whatever has been written there since it truncated it.  The pieces are the
   tables of which something may be left: lengths are not modelled, so any of
   them may lie at the place up to which the new text reaches, or behind it. *)

Entries(config) == {<<p, config[p]>> : p \in {q \in Project : config[q] # None}}

Tables(pieces) == {e[2] : e \in pieces}

(* The whole tables that may follow.  A name that occurs twice does not parse. *)
Rests(pieces) ==
    {rest \in [Project -> Tables(pieces) \cup {None}] :
        \A p \in Project : rest[p] # None => <<p, rest[p]>> \in pieces}

Extensions(begin, pieces) ==
    {[p \in Project |-> IF begin[p] # None THEN begin[p] ELSE rest[p]] : rest \in Rests(pieces)}

(* A whole text, over the pieces of others.  What sticks out may also be cut in
   the middle of a table: that does not parse, or is a key that nobody reads. *)
WrittenOver(text, pieces) ==
    IF pieces = {} THEN {text} ELSE {Garbled} \cup Extensions(text, pieces)

(* The tables of a text before the place where it is cut.                  *)
Before(text, cut) == [p \in Project |-> IF Rank[p] < Rank[cut] THEN text[p] ELSE None]

(* The tables that begin like one and end like another: the cut is at one of the
   three values, and a value that is cut in two is that of neither.  Two texts
   with tables of equal lengths meet in this way.                          *)
Mixtures(first, last) ==
    LET At(i, cut, a, b) == IF i < cut THEN {a} ELSE IF i = cut THEN {b, Spliced} ELSE {b} IN
    UNION {[salt             : At(1, cut, first.salt, last.salt),
            encrypted_server : At(2, cut, first.encrypted_server, last.encrypted_server),
            encrypted_token  : At(3, cut, first.encrypted_token, last.encrypted_token)] :
           cut \in 1..3}

(* The beginnings of a text that is cut within one of its tables, with the end
   of another table behind it.  A cut in the header may also make a new name. *)
Blends(text, pieces) ==
    UNION {LET begin == Before(text, cut) IN
           {[begin EXCEPT ![cut] = table] :
               table \in UNION {Mixtures(text[cut], last) : last \in Tables(pieces)}}
           \cup {[begin EXCEPT ![p] = last] :
               p \in {q \in Project : begin[q] = None}, last \in Tables(pieces)} :
           cut \in {p \in Project : text[p] # None}}

(* What a write leaves that fails in the middle (or before the last newline). *)
TornWrites(text, pieces) ==
    {Garbled} \cup UNION {Extensions(begin, pieces) :
        begin \in {text} \cup {Before(text, cut) : cut \in Project} \cup Blends(text, pieces)}

Content == StoredConfig \cup {None, Garbled}

ASSUME ConfigFileAssumption ==
    /\ Rank \in [Project -> Nat]
    /\ AuthToken \in Token
    /\ Blank \notin Url \cup Token \cup Password
    /\ None \notin Url \cup Token
    /\ None \notin Password
    /\ None \notin StoredProject
    /\ None \notin StoredConfig
    /\ Garbled \notin StoredConfig
    /\ Garbled # None
=============================================================================
