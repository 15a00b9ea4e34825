-------------------------- MODULE MC_KeybenServer --------------------------
(* KeybenServer in an open environment: the clients send, in any order and
   without following any protocol, one of the requests below.              *)
EXTENDS KeybenServer, TLC

CONSTANTS c1, c2, s1, s2, old, new, v, dev, n, blank, p, padded

MCTrim == (p :> p) @@ (padded :> p) @@ (n :> n) @@ (blank :> Blank)

Plain(op, project) ==
    [op |-> op, token |-> AuthToken, project |-> project, env |-> None,
     name |-> None, auth |-> None, body |-> None]

(* The first envelope, one after a reset, and proofs of both passwords.    *)
Row1 == NewEnvelope(p, old, s1, s1)
Row2 == NewEnvelope(p, new, s2, s1)
Proof(password, salt) == DeriveProjectKeys(password, salt).auth_secret
Good == Proof(old, s1)

Secret(op, project, auth, name, body) ==
    [Plain(op, project) EXCEPT !.auth = auth, !.env = dev, !.name = name, !.body = body]

Blob == EncryptSecret(s1, <<p, dev, n>>, s1, v)

MCRequests ==
    {[Plain("create_project", q) EXCEPT !.body = r] :
        q \in {p, padded}, r \in {Row1, Row2}}
  \cup {Plain("create_project", p),                         \* no body
        Plain("get_project_kdf", p),
        [Plain("get_project_kdf", p) EXCEPT !.token = "wrong"],
        [Plain("reset_project_password", p) EXCEPT !.auth = Good, !.body = Row2],
        [Plain("reset_project_password", p) EXCEPT !.auth = Proof(new, s2), !.body = Row1],
        Secret("set_secret", p, Good, n, Blob),
        Secret("set_secret", p, None, n, Blob),             \* no header
        Secret("get_secret", padded, Good, n, None),
        Secret("get_secret", p, Good, blank, None),         \* 400
        [Secret("list_secrets", p, Good, None, None) EXCEPT !.env = None],
        Secret("list_secrets", p, Good, None, None),
        Secret("delete_secret", p, Good, n, None)}
  \cup {[Plain("get_project_meta", p) EXCEPT !.auth = a] :
        a \in {Good, Proof(new, s1)}}
=============================================================================
