--------------------------- MODULE CollisionProofs ---------------------------
(***************************************************************************)
(* Proofs about processes that meet in ~/.keyben.toml: what a process has  *)
(* seen in the file is still so when it acts on it, or another process has *)
(* changed the file between the two (CollisionInv), and from that          *)
(* UnaskedReplaceOnlyByRace and HiddenOnlyByWriters.                       *)
(***************************************************************************)
EXTENDS UserConfigProofs

LEMMA NoneIsNoOutcome == \A result \in Outcomes : result # None
BY JobsAssumption

USE DEF Outcomes, disk

-----------------------------------------------------------------------------
(* What every step does to the others.                                     *)

(* Whoever waits between two looks at the file has met a change by e.      *)
Meets(e, what) ==
    \A d \in Client \ {e} : stage[d] \in {"verify", "save", "entry"} => what \in met'[d]

(* The process e has not ended, and a change that it makes of the file is met
   by those who have looked at it.                                         *)
Moves(e) ==
    /\ stage[e] # "done"
    /\ intact' => intact
    /\ \A d \in Client : met[d] \subseteq met'[d]
    /\ \/ file' = file
       \/ file' = NoTables /\ Meets(e, "truncated")
       \/ Meets(e, "written")

LEMMA ChangesMeet ==
    ASSUME TypeOK, NEW e \in Client, NEW what, Changes(e, what)
    PROVE  /\ \A d \in Client : met[d] \subseteq met'[d]
           /\ file' = file \/ Meets(e, what)
BY DEF TypeOK, Changes, Meets

LEMMA EndMoves ==
    ASSUME TypeOK, NEW e \in Client, NEW result, End(e, result)
    PROVE  /\ stage'[e] = "done" /\ outcome'[e] = result
           /\ \A d \in Client \ {e} : stage'[d] = stage[d] /\ outcome'[d] = outcome[d]
BY DEF TypeOK, End

LEMMA ResolvedMoves ==
    ASSUME TypeOK, NEW e \in Client, NEW values, NEW questions, NEW next,
           Resolved(e, values, questions, next)
    PROVE  /\ \A d \in Client \ {e} :
                 /\ stage'[d] = stage[d] /\ outcome'[d] = outcome[d]
                 /\ creds'[d] = creds[d] /\ asked'[d] = asked[d]
           /\ asked'[e] = asked[e] \cup questions \cup AskedFor(values)
           /\ \/ stage'[e] = "done" /\ outcome'[e] = "no_input"
              \/ stage'[e] = next /\ outcome'[e] = outcome[e]
<1>1. CASE End(e, "no_input") /\ UNCHANGED creds
  BY <1>1, EndMoves DEF Resolved, TypeOK
<1>2. CASE /\ creds' \in {[creds EXCEPT ![e] = k] : k \in Resolutions(e, values)}
           /\ stage' = [stage EXCEPT ![e] = next]
           /\ UNCHANGED outcome
  BY <1>2 DEF Resolved, TypeOK
<1> QED
  BY <1>1, <1>2 DEF Resolved

LEMMA ConfigMoves ==
    ASSUME TypeOK, NEW e \in Client,
           \/ CheckConfig(e) \/ VerifyConfig(e) \/ Load(e)
           \/ Truncate(e) \/ WriteText(e) \/ SaveFails(e)
    PROVE  OnlyOwn(e) /\ Moves(e)
<1>1. CASE CheckConfig(e)
  <2>1. /\ stage[e] = "start"
        /\ UNCHANGED <<disk, current, ever, job, base, map, intact>>
    BY <1>1 DEF CheckConfig
  <2>2. \A d \in Client \ {e} : /\ stage'[d] = stage[d] /\ outcome'[d] = outcome[d]
                                /\ creds'[d] = creds[d] /\ asked'[d] = asked[d]
    BY <1>1, EndMoves, ResolvedMoves DEF CheckConfig
  <2> QED
    BY <2>1, <2>2 DEF OnlyOwn, Moves
<1>2. CASE VerifyConfig(e)
  BY <1>2, EndMoves DEF VerifyConfig, TypeOK, OnlyOwn, Moves
<1>3. CASE Load(e)
  BY <1>3, EndMoves DEF Load, TypeOK, OnlyOwn, Moves
<1>4. CASE Truncate(e)
  BY <1>4, ChangesMeet DEF Truncate, TypeOK, OnlyOwn, Moves
<1>5. CASE WriteText(e)
  BY <1>5, EndMoves, ChangesMeet DEF WriteText, TypeOK, OnlyOwn, Moves
<1>6. CASE SaveFails(e)
  BY <1>6, EndMoves, ChangesMeet DEF SaveFails, TypeOK, OnlyOwn, Moves
<1> QED
  BY <1>1, <1>2, <1>3, <1>4, <1>5, <1>6

LEMMA CommandMoves ==
    ASSUME TypeOK, NEW e \in Client,
           \/ Resolve(e) \/ ReadEntry(e) \/ Unlock(e)
           \/ ResetPassword(e) \/ NoteEntry(e) \/ Crash(e)
    PROVE  OnlyOwn(e) /\ Moves(e)
<1>1. CASE Resolve(e)
  <2>1. /\ stage[e] = "start"
        /\ UNCHANGED <<disk, current, ever, job, base, map, intact>>
    BY <1>1 DEF Resolve
  <2>2. \A d \in Client \ {e} : /\ stage'[d] = stage[d] /\ outcome'[d] = outcome[d]
                                /\ creds'[d] = creds[d] /\ asked'[d] = asked[d]
    BY <1>1, EndMoves, ResolvedMoves DEF Resolve, TypeOK
  <2> QED
    BY <2>1, <2>2 DEF OnlyOwn, Moves
<1>2. CASE ReadEntry(e)
  <2>1. /\ stage[e] = "entry"
        /\ UNCHANGED <<disk, current, ever, job, base, map, intact>>
    BY <1>2 DEF ReadEntry
  <2>2. \A d \in Client \ {e} : /\ stage'[d] = stage[d] /\ outcome'[d] = outcome[d]
                                /\ creds'[d] = creds[d] /\ asked'[d] = asked[d]
    BY <1>2, EndMoves, ResolvedMoves DEF ReadEntry
  <2> QED
    BY <2>1, <2>2 DEF OnlyOwn, Moves
<1>3. CASE Unlock(e)
  BY <1>3, EndMoves DEF Unlock, OnlyOwn, Moves
<1>4. CASE ResetPassword(e)
  <2>1. \A p \in Project : ever[p] \subseteq ever'[p]
    BY <1>4 DEF ResetPassword, TypeOK
  <2> QED
    BY <1>4, <2>1, EndMoves DEF ResetPassword, TypeOK, OnlyOwn, Moves
<1>5. CASE NoteEntry(e)
  BY <1>5, EndMoves DEF NoteEntry, OnlyOwn, Moves
<1>6. CASE Crash(e)
  BY <1>6, EndMoves DEF Crash, OnlyOwn, Moves
<1> QED
  BY <1>1, <1>2, <1>3, <1>4, <1>5, <1>6

LEMMA StepMoves ==
    ASSUME TypeOK, NEW e \in Client, Step(e)
    PROVE  OnlyOwn(e) /\ Moves(e)
BY ConfigMoves, CommandMoves DEF Step

(* What a process has seen still holds, or is changed for a reason.        *)
LEMMA OthersSee ==
    ASSUME ConfigInv, NEW e \in Client, OnlyOwn(e), Moves(e),
           NEW c \in Client \ {e}, SeenInv(c)
    PROVE  SeenInv(c)'
<1>1. met[c] \subseteq met'[c]
  BY DEF Moves
<1>2. /\ Prj(c)' = Prj(c)
      /\ Prj(c) \in Project
  BY PrjInProject DEF OnlyOwn, Prj, ConfigInv
<1>3. CASE file' = file
  BY <1>1, <1>2, <1>3 DEF SeenInv, OnlyOwn, Moves, Contains
<1>4. CASE file' = NoTables /\ Meets(e, "truncated")
  <2>1. stage[c] = "entry" => "truncated" \in met'[c]
    BY <1>4 DEF Meets
  <2>2. ~Contains(Prj(c))'
    BY <1>2, <1>4, NoTablesReadable DEF Contains, NoTables
  <2> QED
    BY <1>1, <1>2, <2>1, <2>2 DEF SeenInv, OnlyOwn, Moves
<1>5. CASE Meets(e, "written")
  <2>1. stage[c] \in {"verify", "save", "entry"} => "written" \in met'[c]
    BY <1>5 DEF Meets
  <2> QED
    BY <1>1, <1>2, <2>1 DEF SeenInv, OnlyOwn, Moves
<1> QED
  BY <1>3, <1>4, <1>5 DEF Moves

-----------------------------------------------------------------------------
(* What a step of a process sees.                                          *)

(* A file that does not parse was left by saves that met or broke off.     *)
LEMMA UnreadableFile == ASSUME ConfigInv, ~Readable(file) PROVE ~intact
BY NoTablesReadable DEF ConfigInv, IntactInv

(* A process that ends, or goes on, without relying on the file.           *)
LEMMA SeesNothing ==
    ASSUME NEW c \in Client,
           stage'[c] \notin {"entry", "verify", "save", "loaded", "truncated"},
           outcome'[c] \notin {"unreadable", "not_configured"}
    PROVE  SeenInv(c)'
BY DEF SeenInv

LEMMA SeesUnreadable ==
    ASSUME ConfigInv, NEW c \in Client, Moves(c), ~Readable(file),
           End(c, "unreadable")
    PROVE  SeenInv(c)'
<1>1. ~intact'
  BY UnreadableFile DEF Moves
<1> QED
  BY <1>1, EndMoves DEF SeenInv, ConfigInv

LEMMA ResolvedSees ==
    ASSUME ConfigInv, NEW c \in Client, NEW values, NEW questions,
           outcome[c] = None, Resolved(c, values, questions, "unlock")
    PROVE  SeenInv(c)'
<1>1. stage'[c] \in {"done", "unlock"} /\ outcome'[c] \in {None, "no_input"}
  BY ResolvedMoves DEF ConfigInv
<1> QED
  BY <1>1, SeesNothing, NoneIsNoOutcome

LEMMA CheckConfigSees ==
    ASSUME ConfigInv, NEW c \in Client, CheckConfig(c), OnlyOwn(c), Moves(c)
    PROVE  SeenInv(c)'
<1> DEFINE flags == [server |-> job[c].server, token |-> job[c].token,
                     password |-> job[c].password]
<1>1. /\ TypeOK
      /\ outcome[c] = None
      /\ UNCHANGED <<disk, current, ever, job, base, map, intact>>
  BY DEF ConfigInv, ProcessInv, CheckConfig
<1>2. CASE End(c, "no_input") \/ End(c, "cancelled")
  BY <1>1, <1>2, EndMoves, SeesNothing
<1>3. CASE ~Readable(file) /\ End(c, "unreadable")
  BY <1>3, SeesUnreadable
<1>4. CASE Resolved(c, flags, IF MustConfirm(c) THEN {"replace"} ELSE {}, "verify")
  <2>1. /\ MustConfirm(c) => "replace" \in asked'[c]
        /\ \/ stage'[c] = "done" /\ outcome'[c] = "no_input"
           \/ stage'[c] = "verify" /\ outcome'[c] = None
    BY <1>1, <1>4, ResolvedMoves
  <2>2. "replace" \notin asked'[c] => ~Contains(Prj(c))'
    BY <1>1, <2>1 DEF MustConfirm, Contains, Prj
  <2> QED
    BY <2>1, <2>2, NoneIsNoOutcome DEF SeenInv
<1> QED
  BY <1>2, <1>3, <1>4 DEF CheckConfig

LEMMA SaveSees ==
    ASSUME ConfigInv, NEW c \in Client, SeenInv(c), OnlyOwn(c), Moves(c),
           \/ VerifyConfig(c) \/ Load(c) \/ Truncate(c) \/ WriteText(c)
           \/ SaveFails(c) \/ Crash(c)
    PROVE  SeenInv(c)'
<1>1. /\ TypeOK
      /\ Prj(c) \in Project
      /\ Prj(c)' = Prj(c)
      /\ stage[c] # "done" => outcome[c] = None
  BY PrjInProject DEF ConfigInv, ProcessInv, OnlyOwn, Prj
<1>2. met[c] \subseteq met'[c]
  BY DEF Moves
<1>3. CASE VerifyConfig(c)
  <2>1. UNCHANGED <<file, asked>> /\ stage[c] = "verify"
    BY <1>3 DEF VerifyConfig
  <2>2. CASE stage' = [stage EXCEPT ![c] = "save"] /\ UNCHANGED outcome
    <3>1. stage'[c] = "save" /\ outcome'[c] = None
      BY <1>1, <2>1, <2>2 DEF TypeOK
    <3> QED
      BY <1>1, <1>2, <2>1, <3>1, NoneIsNoOutcome DEF SeenInv, Contains
  <2>3. CASE End(c, "refused")
    BY <1>1, <2>3, EndMoves, SeesNothing
  <2> QED
    BY <1>3, <2>2, <2>3 DEF VerifyConfig
<1>4. CASE Load(c)
  <2>1. CASE ~Readable(file) /\ End(c, "unreadable")
    BY <2>1, SeesUnreadable
  <2>2. CASE /\ Readable(file)
             /\ base' = [base EXCEPT ![c] = Stored(file)]
             /\ stage' = [stage EXCEPT ![c] = "loaded"]
             /\ UNCHANGED outcome
    <3>1. /\ stage[c] = "save" /\ stage'[c] = "loaded" /\ outcome'[c] = None
          /\ base'[c] = Stored(file)
          /\ asked' = asked
      BY <1>1, <1>4, <2>2 DEF Load, TypeOK
    <3>2. "replace" \notin asked[c] => base'[c][Prj(c)] = None \/ "written" \in met[c]
      BY <2>2, <3>1 DEF SeenInv, Contains
    <3> QED
      BY <1>1, <1>2, <3>1, <3>2, NoneIsNoOutcome DEF SeenInv
  <2> QED
    BY <1>4, <2>1, <2>2 DEF Load
<1>5. CASE Truncate(c)
  <2>1. /\ stage[c] = "loaded" /\ stage'[c] = "truncated" /\ outcome'[c] = None
        /\ asked' = asked /\ base' = base
    BY <1>1, <1>5 DEF Truncate, TypeOK
  <2> QED
    BY <1>1, <1>2, <2>1, NoneIsNoOutcome DEF SeenInv
<1>6. CASE WriteText(c) \/ SaveFails(c) \/ Crash(c)
  <2>1. PICK result \in {"ok", "write_failed", "crashed"} : End(c, result)
    BY <1>6 DEF WriteText, SaveFails, Crash
  <2> QED
    BY <1>1, <2>1, EndMoves, SeesNothing
<1> QED
  BY <1>3, <1>4, <1>5, <1>6

LEMMA CommandSees ==
    ASSUME ConfigInv, NEW c \in Client, SeenInv(c), OnlyOwn(c), Moves(c),
           \/ Resolve(c) \/ ReadEntry(c) \/ Unlock(c) \/ ResetPassword(c) \/ NoteEntry(c)
    PROVE  SeenInv(c)'
<1>1. /\ TypeOK
      /\ Prj(c)' = Prj(c)
      /\ outcome[c] = None
  <2>1. stage[c] # "done" => outcome[c] = None
    BY DEF ConfigInv, ProcessInv
  <2> QED
    BY <2>1 DEF ConfigInv, OnlyOwn, Moves, Prj
<1>2. met[c] \subseteq met'[c]
  BY DEF Moves
<1>3. CASE Resolve(c)
  <2>1. CASE ~Readable(file) /\ End(c, "unreadable")
    BY <2>1, SeesUnreadable
  <2>2. CASE /\ Readable(file) /\ Contains(Prj(c))
             /\ stage' = [stage EXCEPT ![c] = "entry"]
             /\ UNCHANGED outcome
    <3>1. file' = file /\ stage'[c] = "entry" /\ outcome'[c] = None
      BY <1>1, <1>3, <2>2 DEF Resolve, TypeOK
    <3> QED
      BY <1>1, <2>2, <3>1, NoneIsNoOutcome DEF SeenInv, Contains
  <2>3. CASE End(c, "no_input")
    BY <1>1, <2>3, EndMoves, SeesNothing
  <2>4. CASE Resolved(c, Values(c, NoneSaved(c)), {}, "unlock")
    BY <1>1, <2>4, ResolvedSees
  <2> QED
    BY <1>3, <2>1, <2>2, <2>3, <2>4 DEF Resolve
<1>4. CASE ReadEntry(c)
  <2> DEFINE table == Stored(file)[Prj(c)]
  <2>1. CASE ~Readable(file) /\ End(c, "unreadable")
    BY <2>1, SeesUnreadable
  <2>2. CASE Readable(file) /\ table = None /\ End(c, "not_configured")
    <3>1. met[c] # {}
      BY <1>4, <2>2 DEF ReadEntry, SeenInv, Contains
    <3> QED
      BY <1>1, <1>2, <2>2, <3>1, EndMoves DEF SeenInv
  <2>3. CASE End(c, "incorrect") \/ End(c, "invalid_salt")
    BY <1>1, <2>3, EndMoves, SeesNothing
  <2>4. ASSUME NEW values, Resolved(c, values, {}, "unlock") PROVE SeenInv(c)'
    BY <1>1, <2>4, ResolvedSees
  <2> QED
    BY <1>4, <2>1, <2>2, <2>3, <2>4 DEF ReadEntry
<1>5. CASE Unlock(c)
  <2>1. PICK result \in {"ok", "refused"} : End(c, result)
    BY <1>5 DEF Unlock
  <2> QED
    BY <1>1, <2>1, EndMoves, SeesNothing
<1>6. CASE ResetPassword(c)
  <2>1. /\ stage'[c] \in {"note", "done"}
        /\ outcome'[c] \in {None, "same_password", "refused"}
    BY <1>1, <1>6, EndMoves DEF ResetPassword, TypeOK
  <2> QED
    BY <2>1, SeesNothing, NoneIsNoOutcome
<1>7. CASE NoteEntry(c)
  <2>1. CASE ~Readable(file)
    BY <1>7, <2>1, SeesUnreadable DEF NoteEntry
  <2>2. CASE Readable(file)
    <3>1. PICK result \in {"ok_renew", "ok"} : End(c, result)
      BY <1>7, <2>2 DEF NoteEntry
    <3> QED
      BY <1>1, <3>1, EndMoves, SeesNothing
  <2> QED
    BY <2>1, <2>2
<1> QED
  BY <1>3, <1>4, <1>5, <1>6, <1>7

-----------------------------------------------------------------------------
(* The theorems.                                                           *)

LEMMA InitCollisionInv == Init => CollisionInv
<1> SUFFICES ASSUME Init PROVE CollisionInv
  OBVIOUS
<1>1. \A c \in Client : SeenInv(c)
  BY NoneIsNoOutcome DEF Init, SeenInv
<1> QED
  BY <1>1, InitInv DEF CollisionInv

LEMMA NextCollisionInv == CollisionInv /\ [Next]_vars => CollisionInv'
<1> SUFFICES ASSUME CollisionInv, [Next]_vars PROVE CollisionInv'
  OBVIOUS
<1>1. ConfigInv /\ ConfigInv'
  BY NextInv DEF CollisionInv
<1>2. ASSUME NEW e \in Client, Step(e), NEW c \in Client PROVE SeenInv(c)'
  <2>1. OnlyOwn(e) /\ Moves(e) /\ SeenInv(c)
    BY <1>1, <1>2, StepMoves DEF ConfigInv, CollisionInv
  <2>2. CASE c # e
    BY <1>1, <2>1, <2>2, OthersSee
  <2>3. CASE c = e
    BY <1>1, <1>2, <2>1, <2>3, CheckConfigSees, SaveSees, CommandSees DEF Step
  <2> QED
    BY <2>2, <2>3
<1>3. ASSUME UNCHANGED vars, NEW c \in Client PROVE SeenInv(c)'
  <2>1. SeenInv(c)
    BY DEF CollisionInv
  <2>2. /\ Prj(c)' = Prj(c)
        /\ Contains(Prj(c))' = Contains(Prj(c))
        /\ UNCHANGED <<file, met, stage, asked, base, outcome, intact>>
    BY <1>3 DEF vars, Contains, Prj
  <2> QED
    BY <2>1, <2>2 DEF SeenInv
<1> QED
  BY <1>1, <1>2, <1>3 DEF Next, AllDone, CollisionInv

(* What a process relies on has been seen in the file, and still holds or was
   changed by another process after it was seen (CollisionInv).            *)
THEOREM CollisionInvariant == Spec => []CollisionInv
<1> QED
  BY InitCollisionInv, NextCollisionInv, PTL DEF Spec

(* config init never replaces a table unasked by itself: some other config init
   has written to the file between its check and its reading of the tables that
   it preserves (UnaskedReplaceOnlyByRace).                                *)
THEOREM UnaskedReplaceIsARace == Spec => []UnaskedReplaceOnlyByRace
<1>1. CollisionInv => UnaskedReplaceOnlyByRace
  BY DEF CollisionInv, SeenInv, UnaskedReplaceOnlyByRace, Saving
<1> QED
  BY <1>1, CollisionInvariant, PTL

(* No command loses the file to anything but saves that met or broke off, nor its
   project's table to anything but another process that has truncated the file or
   written to it between contains and read (HiddenOnlyByWriters).          *)
THEOREM HidingIsByWriters == Spec => []HiddenOnlyByWriters
<1>1. CollisionInv => HiddenOnlyByWriters
  BY UnreadableFile DEF CollisionInv, SeenInv, HiddenOnlyByWriters
<1> QED
  BY <1>1, CollisionInvariant, PTL
=============================================================================
