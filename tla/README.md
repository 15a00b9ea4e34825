# A TLA+ verification of keyben

keyben keeps the environment variables of projects, encrypted end to end. A CLI
encrypts every value under a random data-encryption key (DEK) of its project and
wraps the DEK under a key that it derives from the project password; a server
keeps the wrapped DEK, the salt, the digest of an authentication secret, and the
ciphertexts, in SQLite. Nobody can repair what a race destroys: a project whose
row mixes two envelopes is locked, and a value encrypted under a DEK that is no
longer wrapped anywhere is lost. This project models the protocol with its
interleavings and failures, checks it with TLC on small instances, and proves
the main results with TLAPS for all instances.

## The system

| Part | Source | State | Operations |
| --- | --- | --- | --- |
| Envelope encryption | `src/common/crypto.rs` | none (draws salts, DEKs and nonces) | derive keys, wrap and unwrap a DEK, encrypt and decrypt a secret |
| Wire protocol | `src/common/wire.rs`, `env.rs`, `consts.rs` | none | requests, bodies, header, timeout |
| SQLite storage | `src/server/db.rs` | tables `projects` and `secrets` | one SQL statement per method, two of them gated on the auth hash |
| HTTP server | `src/server/mod.rs` | the locals of each handler in flight | bearer check, validation, `authorize_project`, eight handlers, shutdown |
| API client | `src/client/api.rs` | the session: keys and DEK | `create_project`, `unlock`, `reset_password`, set, get, delete, `fetch_all` |
| Command dispatch | `src/client/mod.rs` | none between requests | one command per process |
| User configuration | `src/client/config.rs` | `~/.keyben.toml` | read-modify-write of one table, read with decryption |
| Runtime resolution, prompts | `src/client/runtime.rs`, `prompt.rs` | none | flags, then file, then prompts; trimming |
| Export, child process | `src/client/export.rs`, `mod.rs` | the export file; the child's environment | render and write; strip `KEYBEN*`, inject, exec |
| Command line, start | `src/common/cli.rs`, `main.rs`, `server/config.rs` | `config.toml`, read once | parsing |

How they interact: a process runs one command and exits. `init` makes one
request; `config init` two; every other command three: the salt (bearer token
only), the wrapped DEK (after proving the password with a header derived from
the salt), and the operation itself (with the same proof). A handler that
requires the proof makes two database calls, `authorize_project` and then a
statement of its own. Handlers share nothing but the database.

What is hard, and what each part must guarantee:

- *Interleaving of handlers.* Anything may run between the two database calls of
  a handler. The code answers with optimistic gating: writes repeat the auth hash
  they have read in their `WHERE`. Reads are not gated. Properties:
  `ServiceImplemented`, `ServerInv`, `ResetsSerialize`.
- *Interleaving of commands.* Between the three requests of a command, the
  password may be reset or the database file replaced. Gating on a hash is only
  sound if hashes never recur and the DEK never changes. Properties:
  `SecretsDecryptable`, `PasswordOpens`, `ReadsDecrypt`, `DekNeverChanges`,
  `HashNeverComesBack`.
- *Failure.* Database calls fail, the server restarts, clients time out while
  their handler goes on, the operator restores a backup. Properties: all of the
  above under these faults, `OutcomeTruthful`, `Terminates`.
- *Files.* `~/.keyben.toml` is read, truncated and rewritten by processes that
  share no lock, over minutes (a command asks, then talks to the server, then
  writes); an export file is created, tightened, cut and written by as many
  system calls. Processes meet in both, and are killed in both. Properties:
  `EntriesVerified`, `IntactFileIsTheMap`, `UnaskedReplaceOnlyByRace`,
  `SavedEntryWorks`, `HiddenOnlyByWriters`; `OldExportSurvives`,
  `PlaintextIsPrivate`.
- *Text and processes.* Values with quotes and control characters pass through
  five formats, and through the environment of a child, which must get all
  secrets and none of keyben's own credentials. Properties: `ExportReadsBack`,
  `ChildEnvironment`, `SuccessIsTheChilds`.

`PROJECT.json` lists each hazard at its line, with the properties that cover it
or the reason why none does.

## Modules

```
Envelope <- Wire <- SecretStore <- KeybenServer <- Keyben
               |\<- SecretService (instance in KeybenServer)
               \<- ConfigFile <- UserConfig
Render <- Deliver
MC_KeybenServer, MC_Keyben, MC_UserConfig, MC_Deliver: small instances
KeybenServerProofs <- KeybenProofs <- SessionProofs
UserConfigProofs <- CollisionProofs
RenderProofs <- ReadBackProofs <- DeliverProofs
```

- **Envelope** is `crypto.rs` as ideal cryptography. A key is the record of what
  it was derived from, so different passwords, salts or labels give different
  keys; a blob is the record of key, associated data, nonce and message, and opens
  only under the same key and associated data. Random draws never collide: a
  process draws at most one salt, one DEK and one nonce, each represented by the
  name of the process.
- **Wire** has the requests, the validation that handlers make before any
  database access (`ValidPath`, `ValidBody`), and the replies. Spellings of names
  that differ by surrounding whitespace are different values related by `Trim`,
  because `canonical_project` trims, while the server leaves secret names as they
  are.
- **SecretStore** has one operator per SQL statement, atomic as in SQLite.
- **KeybenServer** splits each handler at its awaits: `idle -> received ->
  authorized -> replied`. `Authorize` is `authorize_project`, with the hash it
  returns in `expected`; the action named after the handler is the rest.
  `DatabaseError` fails a call, `Disconnect` drops a handler whose client is gone
  (or ends a finished exchange). `Restart` and the restoring of a backup `Stop` the
  server: every handler at work is dropped, while a response that was sent before
  may still reach its client, which then goes on with its session. Dropping
  happens before a database call starts: a statement that has started but whose result
  nobody waits for is the statement followed by `Disconnect`.
- **SecretService** says what the server promises, with a pending request as the
  only intermediate state: changes take effect at one instant, at which the
  request carries the current password; protected reads are answered from one
  instant, after a moment of the pending request at which it carried the current
  password; refusals change nothing and are true of some instant. Two refusals
  are deliberately wider than their messages, see *Findings*.
  `KeybenServer!ServiceImplemented` is the refinement: the two stages of a
  handler at work map to "pending", the authorized handlers to `proved`.
- **Keyben** adds the processes. Its client actions are the stretches of code from
  one response to the next request (`GotKdf`, `GotMeta`) or to the end of the
  command (`GotResponse`, `Refused`, `UnlockFailed`, `ConfigVerified`,
  `ConnectionLost`, `GiveUp`). `secrets get` without a name, `export` and `run`
  fetch a whole environment and are the command kind `list`. `draft` remembers the
  envelope a process composed; `applied` is a history variable, the processes
  whose request changed a row. `Faults` selects which of the failures may happen.
- **ConfigFile** is `~/.keyben.toml` as data: a file that does not exist (`None`),
  a map from projects to encrypted tables, or a text that does not parse
  (`Garbled`). `NewTable` and `TableOpens` are the encryption of a table under
  password, machine and a salt of its own. The second half says what becomes of
  texts that meet in the file, each of them written from its start. What others
  have left there is known as `pieces`, the tables of which something may remain;
  lengths are not modelled, so any of them may lie where a text ends. Behind a
  whole text whole tables may follow (`Extensions`), or something that does not
  parse (`WrittenOver`). A write that breaks off (`TornWrites`) may also leave a
  table that begins like its own and ends like another's (`Mixtures`, `Blends`):
  two saves of one project with the same server and token are texts of equal
  length, and one that stops behind its salt leaves its salt with the fields of
  the other. A value that is itself cut in two is `Spliced`, and opens under no key.
- **UserConfig** has the processes that share the file: `config init` (check and
  ask, verify against the server, load, truncate, write), and the other commands
  as `use` (contains, read, unlock) and `reset` (the same, then the change of the
  password, then a look at the file to tell the user to renew the table). The
  server is reduced to what it accepts at one instant; Keyben has the requests.
  Flags, table and prompts supply values as `runtime.rs` and `prompt.rs` combine
  them; a process has a terminal, or is a script. `asked`, `ever`, `met`, `map` and
  `intact` are history variables: what a process asked its user, the passwords a
  project has had, what others did to the file after a process has looked at it
  and before it looks again, the tables if saving were atomic, and whether saves
  have met or broken off.
- **Render** has the five formats of `export.rs` over texts as sequences of code
  points, character by character (`DotenvPiece`, `ShellPiece`, `JsonPiece`), and
  three reference readers, which share no definition with what they read: a dotenv
  parser, a POSIX shell as far as assignments need one, and JSON strings.
- **Deliver** has what happens to a fetched environment: an export file through
  `open`, `fchmod`, `ftruncate` and any number of partial `write`s, with an error or
  a crash at each, and a second export to the same path; and the child of
  `keyben run`, its environment block, its failure to start and its exit status.
  `old` and `owner` are history variables: the file before, and the only export
  whose text may be in it.
  Texts are sequences of `Character`s (code points, 0..255 in the run); a
  character stands for the bytes of its UTF-8 encoding, and a write may stop after any.
- An operator whose name starts with **Faulty** is a plausible mistake in the
  definition that follows it. No specification uses one; substituting it for that
  definition must violate the property that `PROJECT.json` pairs with it.

## Runs

| Run | Instance | Shows |
| --- | --- | --- |
| `server` | 2 connections, 18 requests, open environment | the server implements `SecretService` whatever its clients send |
| `core` | 4 processes, 9 commands, no faults | safety under all interleavings of commands |
| `faults` | 3 processes, 9 commands, all of `db_error`, `restart`, `give_up` | the same under failures |
| `restore` | 4 processes, 3 commands (init, reset, set), backups | sessions that outlive a restore strand no secret and lock no project |
| `restored_reads` | 4 processes, 3 commands (init, set, get), backups | nor do they fetch what they cannot decrypt |
| `liveness` | 3 processes, 3 commands, restarts | every command ends |
| `user_config` | 3 processes, 10 jobs, 2 projects, failing writes and crashes | saves and uses of one `~/.keyben.toml` in any order: what opens is verified, what is lost or hidden has a reason |
| `deliver` | 2 processes, about 2000 exports and runs, errors and crashes | exports read back, old files survive, files are private, children get what they should |
| `delete_reason` | 4 processes | violation, see *Findings* |
| `wrong_password` | 2 processes | violation, see *Findings* |
| `config_lost` | 2 processes, 2 projects | violation, see *Findings* |
| `blank_flag` | 2 processes | violation, see *Findings* |

Bounds. One project in two spellings, one environment, one secret in two
spellings, two passwords, one value. Projects do not interact: every statement
names one project, and associated data binds every blob to it. Two spellings are
enough for trimmed and untrimmed. Four processes are the smallest number that
exhibits the interesting histories: a creator, a reset, and two commands caught
between their requests (a hash that comes back needs a creator and two resets,
plus the handler that would be fooled; the late delete that is reported as
missing needs a creator, a set, a reset and the delete). In `faults` three are
used, since a fault replaces one actor. Processes are interchangeable, so the
safety runs use symmetry; the liveness run does not. Everything that is bounded
here is unbounded in the theorems.

`user_config` has two projects, since what a save can lose is the table of another
project, and three processes: two that collide and one that reads what they
leave. Earlier processes may have left nothing, or a table of this machine and one
of another machine, which does not open here. `deliver` exports every value of up to
three characters of an alphabet of five (both quotes, backslash, newline, and the
letter that a newline is escaped to) and of up to two characters of an alphabet of
sixteen, with every class of control character, in every format; escapes are local
to a character, so that longer values add nothing but repetition (this is what
**RenderProofs** and **ReadBackProofs** make precise). A pair of exports with short
texts shows all partial writes of two processes in one file.

Deadlock is checked in every passing run: when no process can go on, all have
ended and no handler is at work (`AllDone`).

Fairness. `FairSpec` assumes weak fairness of `ServerStep(c)` and `ClientStep(c)`
for each process: the tokio runtime polls every future that is ready, SQLite's
calls return, and a process that has its response goes on. A client whose
connection broke learns of it from the transport or, at the latest, from
`HTTP_TIMEOUT` (30 seconds, applied to every request), which is what the fairness
of `ConnectionLost` means. Starting a command, giving up and faults are not fair.
`Terminates` is not weakened by any fault: a restart drops the handler, and the
client is told.

## What the properties say

- `ServiceImplemented`: see *SecretService* above.
- `ServerInv`, `SessionInv` (which contains `IInv`), `CollisionInv` (which contains
  `ConfigInv`), `RunInv` (which contains `DeliverInv`): the inductive invariants of
  the proofs, checked on the instances first. Each contains the type invariant of
  its module.
- `SecretsDecryptable`: each stored secret opens, at the place where it is
  stored, with the DEK wrapped in the current row of its project.
- `PasswordOpens`: each row can be opened by a password that some init or reset
  set; it never mixes columns of two envelopes.
- `ReadsDecrypt`: no command fetches a value that it cannot decrypt.
- `OutcomeTruthful`: a reported success has taken effect, and a reported refusal
  has not.
- `ResetsSerialize`: of the resets that started from one envelope at most one
  succeeds.
- `DekNeverChanges`, `HashNeverComesBack`: what no step does, as long as nobody
  restores a backup.
- `Terminates`: every command that was started ends.
- `EntriesVerified`: a table in `~/.keyben.toml` that opens, under any password on any
  machine, is one that some process verified against the server, as a whole, under a
  password that the project then had; however saves collided and broke off. A table
  that does not open may be a mixture of two (its project is found, and the user is
  told that the password is incorrect), but not as long as no saves have met or
  broken off: then every table was verified.
- `IntactFileIsTheMap`: while no two saves have overlapped and none broke off, the
  file is what atomic saves would have made it.
- `UnaskedReplaceOnlyByRace`: `config init` replaces a table unasked only if another
  process has written to the file between its question and its reading of the
  tables that it preserves.
- `SavedEntryWorks`: a command that lives from its table alone is refused only if
  its password is one that the project has had, and has no more at that moment.
- `HiddenOnlyByWriters`: no command fails for an unreadable file unless saves met or
  broke off, nor for a table that vanished between `contains` and `read` unless
  another process truncated the file, or wrote to it, between the two.
- `ExportReadsBack`: the file of a completed export that met no other is read, by the
  reader of its format, as exactly the secrets.
- `OldExportSurvives`, `PlaintextIsPrivate`: the old file is kept until an export
  truncates it, and no byte of a new one is in a file that others may read.
- `ChildEnvironment`, `SuccessIsTheChilds`: a child has all secrets, the environment
  of its caller, and no `KEYBEN` variable but the secrets; success is its own. The
  claim is about names in UTF-8: `run` skips any other name, so that a child
  inherits a variable that starts with `KEYBEN` and is not UTF-8, where the
  program's README speaks of every variable. keyben reads none of them.

## Proofs

All theorems hold for every set of processes, projects, names, values and
passwords, every set of commands and every set of faults, under the assumptions
that the modules state: `TrimAssumption` (trimming a name gives a name or
nothing, and trimming twice is trimming once), `NoneAssumption`, `NoOutcome` and
`NoCommandOrBackup` (the missing value is not a value), `CommandsAssumption`
(what clap and the prompts let through; a process can draw the random numbers
that bear its name), `FaultsAssumption`, `RequestsAssumption`;
`ConfigFileAssumption`, `JobsAssumption` and `EarlierFilesAssumption` (the file at first
holds tables that were saved with other salts); `DeliverAssumption` (there are at
least the characters 0 to 255; names of an environment have no equals sign; what is
exported is finitely many names and values that are sequences of characters, in one
of the five formats) and `NoBlockAssumption`. TLC evaluates all of them on the runs.

**The server** (*KeybenServerProofs*: `ServerInvariant`, `ServerImplementsService`).
The invariant `ServerInv` is needed because the gate of a write compares the row
with `expected`, while the abstract service speaks of the password the request
carries: a handler that is past `authorize_project` holds exactly the digest of its
own header. With it each action of a handler is one action of the service:
`Authorize` is `Prove` or a refusal, the writers are `Commit`, and a gate that fails
is a justified refusal.

**Envelopes** (*KeybenProofs*: `Invariant`, `NoSecretStranded`, `NoProjectLocked`,
`DekIsForLife`). The safety properties are far from inductive: that a `set_secret`
in flight may write depends on which DEK its process unwrapped two requests
earlier. `IInv` ties everything to drafts: each process composes at most one
envelope, with a salt of its own, so a salt names an envelope. Rows are applied
drafts (`TablesCoherent`, also of a backup); a wrapped DEK in a response is a
drafted one (`ResponseCoherent`); a request that writes proves the password of one
draft `w` and carries the DEK of `w`, as a key or wrapped anew (`RequestCoherent`).
When its gate passes, the row has the hash of `w`, therefore its salt, therefore is
the draft `w` and wraps the same DEK (`GatedByDraft`). This is where fresh salts are
indispensable. `SecretsDecryptable` and `PasswordOpens` are corollaries;
`DekNeverChanges` holds when restores are not among the faults.

**Sessions** (*SessionProofs*). `SessionInv` adds what commands know and what they
have done:

- `SessionCoherent`: a request is what the command of its process sends, under the
  salt of an envelope that has been in the table.
- `ReadCoherent`: from `authorize_project` to the response, the project has the DEK
  of the envelope that the request proves. It holds across resets, because they
  re-wrap that DEK, and across restores, because a restore drops every handler at
  work. Reads are not gated in the code, and this is why they need no gate.
  `SessionsRead` is `ReadsDecrypt`, with any faults, restores among them.
- `HistoryCoherent`: a request changes rows at most once, at the instant it is
  answered with a success, and its process learns nothing but that answer.
  `ReportsAreTrue` is `OutcomeTruthful`, with any faults (what has taken effect is
  history: a restore may undo it afterwards, as it should).
- `NoncesApplied`: the nonce of a stored ciphertext names the process that set it,
  so that a `set` that takes effect never finds its own ciphertext in place: it
  changes the row.
- `SaltsRetired`: the salt that an effective reset started from is in no row, and no
  other effective reset started from it. This needs that no restore brings a row
  back, and gives `ResetsAreSerial` (`ResetsSerialize`). `HashesAreFresh`
  (`HashNeverComesBack`) follows from the same hypothesis: a row that is written
  carries a salt that is not applied yet, while a hash that a row once had has an
  applied salt, so that going back to an old password is not going back to
  its hash.

`SystemImplementsService` puts server and clients together: with the invariant,
each step of `Keyben` without restores is a step of the server in the open
environment that `ServerImplementsService` is about (its hypothesis says that this
environment may send every well-typed request), therefore the service is implemented.

**The configuration file** (*UserConfigProofs*, *CollisionProofs*). Since broken-off
writes mix tables, no invariant about whole tables is inductive. `ConfigInv` is about
values: each server and each token that may be in the file, or that a process has read
to preserve it, is cut in two, or was sealed for a verified table of some project
(`IsSound`, `PiecesInv`). Every combination of such values is such again
(`WrittenSound`). A table that opens proves the rest (`OpensVerified`): its key names
the salt, the password and the machine, and the associated data name the project and
the role, so that both fields were sealed for one and the same table, this one. From
this follow `TablesVerified`, `SavesAtomic` and `SavedEntriesWork`. For collisions,
`SeenInv` says of each process that what it has seen in the file (a table that it is
about to read, no table where it is about to save) is still so, or that another
process has truncated the file or written to it since. It is preserved because every
step of a process leaves the file alone, or is met by all who have looked at it
(`Moves`). `CollisionInvariant`, `UnaskedReplaceIsARace` and `HidingIsByWriters` are the
results.

**Export and run** (*DeliverProofs*). `DeliverInv` follows each export through mode,
offset and text; `ExportsArePrivate`, `OldExportsSurvive` and `ExportsAreComplete`
follow (the last one: an export that completes alone leaves exactly its text). With
`TextReadsBack`, below, that is `ExportsReadBack`; the invariant says for it that a
process which gets as far as the file has names that its format can carry.
`RunInv` adds the children. `ChildrenGetTheSecrets` rests on a small argument about
texts that the code relies on tacitly: a variable `NAME=value` starts with `KEYBEN`
exactly if its name does, for no name contains an equals sign (`KeybenName`), so
that testing names is enough. `ZeroIsFromTheChild` is `SuccessIsTheChilds`.

**Quoting** (*RenderProofs*). For every character, and a reader that has read
anything before: reading the piece that stands for the character between quotes
appends exactly this character and stays between the quotes
(`DotenvCharacterReadsBack`, `ShellCharacterReadsBack`, `JsonCharacterReadsBack`; the
last covers YAML and the hexadecimal escapes).

**Reading back** (*ReadBackProofs*). `TextReadsBack`: for any finite number of
secrets, of any length and over any alphabet that has the bytes, the text in each of
the five formats is read to its end as exactly these names with these values, each
of them once. It needs induction over characters and lines. The library's rules take
an operator, which the provers cannot instantiate; but a set of numbers has a least
one, by the library's theorem about well-founded relations (`LeastNumber`), and from
this follows induction with a set of numbers in place of the predicate
(`SetInduction`). The argument:

- `Reads(format, r, text, s)` says that there is a sequence of states that leads the
  reader from r to s through the text; `ReadingIsDetermined` shows that the recursive
  function of `AfterReading` is such a sequence, and the only one.
- `ReadsOn` puts two texts together and `ReadsPieces` any number of them, by way of
  what the library's recursive `FlattenSeq` computes (`Flattened`).
- `ReadsValue` gets from the pieces of characters, which *RenderProofs* is about, to
  values; `DotenvQuotedRead`, `ShellQuotedRead` and `JsonQuotedRead` add the quotes.
- `LineTaken`, `YamlLineTaken` and `JsonMemberTaken` add names, separators and ends of
  lines: each line takes the reader from between two variables to between two
  variables, one pair richer. `NameTaken` is where names have to be identifiers.
- `DotenvTaken`, `YamlTaken` and `JsonTaken` put the lines together (`MembersTaken` for
  the comma after every member but the last, which needs that names differ).
- That there is an order of names to begin with is `InOrder`: `TextLess` is a strict
  total order (`TextOrder`), and one text more has its place in a sorted sequence
  (`OneMore`). `AllNames` says that no name is left out.

Only model-checked: `Terminates`, since liveness under fairness is out of the
prover's reach. Every other property of a run that is expected to pass is a theorem.
What the readers themselves are is no theorem: they are written from the formats'
rules, independently of the rendering, and are as trustworthy as their definitions.

## Findings

- `delete_reason`: the comment at the end of `delete_secret` says that a missing
  row is the only remaining cause of an ineffective delete. A reset between the
  two database calls is another, and the client is told that a secret that exists
  does not exist. `set_secret` reports the same situation as a conflict.
- `wrong_password`: README.md says that `config init` with a wrong password
  answers `Failed to unlock the project; incorrect password`. The server refuses
  such a request first, with a message of its own. The documented message is
  reserved to a race: a reset between `authorize_project` and the read of the
  wrapped DEK.
- `config_lost`: the comment at `config::write` and README.md promise that other
  projects are preserved. Of two `config init` that overlap, the later write puts
  the tables back as they were before the earlier one. Processes that run one after
  the other keep the promise (`IntactFileIsTheMap`).
- `blank_flag`: README.md says that values supplied by the table are never asked
  about again. A blank `--server` or `KEYBEN_SERVER` counts as a value where flags
  and table are combined, and as none where the user is asked, so that the value of
  the table is not used.

## Not modelled

Base64, lengths and JSON (a field has its type or the request is malformed);
Argon2 parameters; constant-time comparison; TLS; `/healthz`; logging; what
commands print; percent-encoding of paths (taken to be injective). The five pooled
connections and SQLite's locking appear only as calls that fail: how long a call
waits is up to sqlx. A request that is lost before it reaches the server is not
told apart from one whose handler is dropped at once. `config.toml` is read once
before any request. Of `~/.keyben.toml`, TOML's syntax is abstracted to tables of
three values. The lengths of its texts are not modelled, so that every way in which
two of them could be aligned is considered, also those that need tables of other
lengths. The text of a save, a few
hundred bytes, is written by one call of `write` and thus in one step, with no reader
or other writer in between; an export can be long, and its `write_all` is several
steps (`WriteSome`). Of prompts, those for an environment and for a secret, and answers that
are blank, are left out. Exports to stdout, and systems without Unix modes, are left
out; so are the arguments and standard streams of a child, and a write that stops
within the UTF-8 encoding of one character.

## Plan

1. **Done**: envelope, wire, storage, server, service, clients; the configuration
   file and its processes; rendering, export and child processes. Each safety
   property of a passing run is a theorem.
2. **Possible extensions**: `UserConfig` without overlapping saves as an implementation
   of an atomic map of tables (an abstract specification instead of the history variable
   `map`); the 409 and 404 answers of the writers as a theorem of their own.
