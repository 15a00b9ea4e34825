----------------------------- MODULE MC_Keyben -----------------------------
(* Small instances of Keyben: one project that the users spell in two ways,
   one secret, and a choice of commands per run.                           *)
EXTENDS Keyben, TLC

CONSTANTS old, new, v, dev, n, padded_n, p, padded_p

MCTrim == (p :> p) @@ (padded_p :> p) @@ (n :> n) @@ (padded_n :> n)

Run(kind, password) ==
    [kind |-> kind, token |-> AuthToken, project |-> p, password |-> password,
     new |-> None, env |-> None, name |-> None, value |-> None]

Secret(kind, password) == [Run(kind, password) EXCEPT !.env = dev, !.name = n]

Init1  == Run("init", old)
Init2  == [Run("init", new) EXCEPT !.project = padded_p]
Config == Run("config", old)
Reset1 == [Run("reset", old) EXCEPT !.new = new]
Reset2 == [Run("reset", new) EXCEPT !.new = old]
Set1   == [Secret("set", old) EXCEPT !.value = v, !.name = padded_n]
Get1   == Secret("get", old)
List1  == [Secret("list", old) EXCEPT !.name = None]
Del1   == Secret("delete", old)

Set2   == [Set1 EXCEPT !.password = new, !.name = n]
Get2   == [Get1 EXCEPT !.password = new]

(* Four processes: two inits may race, resets go back and forth between two
   passwords, and handlers of the other commands are in between.           *)
CoreCommands == {Init1, Init2, Reset1, Reset2, Set1, Set2, Get1, Get2, Del1}

(* Three processes, every kind of command, and two that cannot succeed.    *)
FaultsCommands == {Init1, Reset1, Set1, Get1, List1, Del1, Config,
                   [Get1 EXCEPT !.token = "wrong"],
                   [Reset1 EXCEPT !.new = old]}

(* Four processes around a backup; a project can be created twice, and the
   others may have a session on the one that is gone.                      *)
RestoreCommands == {Init1, Reset1, Set1}
RestoredReadsCommands == {Init1, Set1, Get1}

LivenessCommands == {Init1, Reset1, Set1}

(* The two disagreements with the documentation.                           *)
DeleteCommands == {Init1, Reset1, Set1, Del1}
WrongConfigCommands == {Init1, [Config EXCEPT !.password = new]}

Clients == Permutations(Client)
=============================================================================
