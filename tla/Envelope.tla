------------------------------ MODULE Envelope ------------------------------
(***************************************************************************)
(* The envelope encryption of src/common/crypto.rs, as ideal cryptography: *)
(* derivations and digests are free constructors (different inputs give    *)
(* different outputs), and a sealed blob opens only under the key and the  *)
(* associated data it was sealed with.                                     *)
(*                                                                         *)
(* Random numbers never collide.  Every one a CLI process draws (a salt, a *)
(* DEK, a nonce) is represented by an element of Random, and a process     *)
(* draws at most one of each kind.                                         *)
(***************************************************************************)

CONSTANTS
    Password,   \* project passwords
    Random,     \* salts, data-encryption keys and nonces
    Value,      \* plaintexts of secrets
    Project,    \* spellings of project names, trimmed or not
    Env,        \* Env::Dev and Env::Prod
    Name        \* spellings of secret names, trimmed or not

-----------------------------------------------------------------------------
(* Key schedule: Argon2id, then one HKDF label per subkey.                 *)

HkdfSubkey(password, salt, info) ==
    [info |-> info, password |-> password, salt |-> salt]

DeriveProjectKeys(password, salt) ==
    [enc_key     |-> HkdfSubkey(password, salt, "keyben v1 kek"),
     auth_secret |-> HkdfSubkey(password, salt, "keyben v1 auth")]

Sha256(secret) == [sha256 |-> secret]

EncKey     == [info : {"keyben v1 kek"},  password : Password, salt : Random]
AuthSecret == [info : {"keyben v1 auth"}, password : Password, salt : Random]
AuthHash   == [sha256 : AuthSecret]

-----------------------------------------------------------------------------
(* AEAD: seal and open.                                                    *)

Seal(key, aad, nonce, msg) ==
    [key |-> key, aad |-> aad, nonce |-> nonce, msg |-> msg]

Opens(key, aad, blob) == blob.key = key /\ blob.aad = aad

WrapAad(project) == <<project, "wrap-v1">>
SecretAad(place) == <<place, "secret-v1">>

-----------------------------------------------------------------------------
(* The envelope API.  A place is the (project, env, name) of a secret.     *)

Place == Project \X Env \X Name

WrapDek(keys, dek, nonce, project) ==
    Seal(keys.enc_key, WrapAad(project), nonce, dek)

CanUnwrap(keys, wrapped, project) ==
    Opens(keys.enc_key, WrapAad(project), wrapped)

EncryptSecret(dek, place, nonce, plaintext) ==
    Seal(dek, SecretAad(place), nonce, plaintext)

CanDecrypt(dek, place, blob) == Opens(dek, SecretAad(place), blob)

(* The public metadata a client sends when it creates or re-keys a project. *)
NewEnvelope(project, password, salt, dek) ==
    LET keys == DeriveProjectKeys(password, salt) IN
    [salt        |-> salt,
     wrapped_dek |-> WrapDek(keys, dek, salt, project),
     auth_hash   |-> Sha256(keys.auth_secret)]

WrappedDek == [key   : EncKey,
               aad   : {WrapAad(p) : p \in Project},
               nonce : Random,
               msg   : Random]

SecretBlob == [key   : Random,
               aad   : {SecretAad(x) : x \in Place},
               nonce : Random,
               msg   : Value]

Row == [salt : Random, wrapped_dek : WrappedDek, auth_hash : AuthHash]
=============================================================================
