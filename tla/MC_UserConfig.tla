--------------------------- MODULE MC_UserConfig ---------------------------
(* Small instances of UserConfig: two projects, a wrong token, a password
   change, and files that earlier processes have left.                     *)
EXTENDS UserConfig, TLC

CONSTANTS c1, c2, c3, earlier, p, q, old, new, here, elsewhere

MCTrim == (p :> p) @@ (q :> q)
MCRank == (p :> 1) @@ (q :> 2)
MCFirst == (p :> old) @@ (q :> old)

(* Without flags, and with a terminal.                                     *)
Bare(kind, project) ==
    [kind |-> kind, project |-> project, server |-> None, token |-> None,
     password |-> None, new |-> None, terminal |-> TRUE]

(* As a script would do it.                                                *)
Batch(kind, project, password) ==
    [Bare(kind, project) EXCEPT !.password = password, !.terminal = FALSE]

Flags(job_) == [job_ EXCEPT !.server = Home, !.token = AuthToken]

ConfigP == [Bare("config", p) EXCEPT !.server = Home]
ConfigQ == Flags(Batch("config", q, old))
UseP    == Batch("use", p, old)
ResetP  == [Batch("reset", p, old) EXCEPT !.new = new]
BlankP  == [UseP EXCEPT !.server = Blank]
(* Misuses, and a command that does without the file.                      *)
Others == {Batch("config", q, old), Batch("use", p, None), BlankP,
           [Batch("reset", q, old) EXCEPT !.new = old],
           Flags(Batch("use", q, old)), Flags(Batch("config", q, None))}

Saved(project, uid) ==
    NewTable(ConfigKey(old, uid, earlier), project, Home, AuthToken)
Earlier == {None, [NoTables EXCEPT ![p] = Saved(p, here), ![q] = Saved(q, elsewhere)]}

ConfigJobs == {ConfigP, ConfigQ, UseP, ResetP} \cup Others
LostJobs   == {Flags(Batch("config", p, old)), ConfigQ}
BlankJobs  == {ConfigQ, UseP, BlankP}

Clients == Permutations(Client)
=============================================================================
