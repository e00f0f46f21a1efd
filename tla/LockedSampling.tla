---------------------------- MODULE LockedSampling ----------------------------
(***************************************************************************)
(* The life of a trajectory collector, main of                              *)
(* apps/collector/src/trajectory-collect.ts: the lock it takes first        *)
(* (CollectorLock) composed with the session it runs then (Reservation).    *)
(*                                                                          *)
(* Reservation lets sessions overlap. Here a session exists only in a       *)
(* process that has been given the lock. Nothing else keeps sessions apart: *)
(* no cycle looks at the lock again, and the row may be deleted by kill.ts  *)
(* while its owner collects.                                                *)
(***************************************************************************)
EXTENDS Reservation

CONSTANTS Collectors, Pids, NoPid, NoFile, FastReuse, Unreadable  \* of CollectorLock

ASSUME LockedSamplingAssumption ==
  FastReuse \in BOOLEAN /\ Unreadable \in BOOLEAN /\ NoPid \notin Pids

VARIABLES
  pc, pid, strangers, row, fresh, file, doomed,  \* of CollectorLock
  run  \* the session each running collector has opened, or None

Lock == INSTANCE CollectorLock

lockVars == <<pc, pid, strangers, row, fresh, file, doomed>>
lvars == <<vars, lockVars, run>>

LInit == Init /\ Lock!Init /\ run = [c \in Collectors |-> None]

Runs(c, s) == run' = [run EXCEPT ![c] = s]

\* Is the collector between the opening and the closing of its session?
InSession(c) == run[c] # None /\ session[run[c]] = "up"

\* A bound: there is a session left for everyone on the way to one.
SessionLeft ==
  Cardinality({c \in Collectors : pc[c] \notin Lock!Down \cup {"release"} /\ run[c] = None})
    < Cardinality({s \in Sessions : session[s] = "new"})

-----------------------------------------------------------------------------
\* The file and then the row, until both are had or one refuses; later the
\* heartbeat of the row, from a timer.
LockStep(c) ==
  /\ \/ Lock!Launch(c) /\ SessionLeft
     \/ Lock!Advance(c) \/ Lock!Heartbeat(c)
  /\ UNCHANGED <<vars, run>>

\* Mutant: the session is opened once the lock file is had, before the row.
OpenSessionEarly(c) ==
  /\ pc[c] \in {"acquire", "holding"} /\ run[c] = None
  /\ \E s \in Sessions, w \in Scopes : Launch(s, w) /\ Runs(c, s)
  /\ UNCHANGED lockVars

\* openCollectorSession, once lock.acquire has returned.
OpenSession(c) ==
  /\ pc[c] = "holding" /\ run[c] = None
  /\ \E s \in Sessions, w \in Scopes : Launch(s, w) /\ Runs(c, s)
  /\ UNCHANGED lockVars

\* The cycles and the heartbeat of the session, and then its closing.
Collect(c) ==
  /\ InSession(c)
  /\ \/ \E m \in Mints : Reserve(run[c], m)
     \/ ChooseSize(run[c]) \/ Abandon(run[c])
     \/ OpenTrajectory(run[c]) \/ CycleThrows(run[c])
     \/ \E i \in Rows : Settle(run[c], i)
     \/ Heartbeat(run[c]) \/ EndSession(run[c])
  /\ UNCHANGED <<lockVars, run>>

\* Before its first cycle a process finds that its contract is another's. It
\* turns to releasing the lock; the session is never closed, and is dead.
RefuseContract(c) ==
  /\ InSession(c) /\ \A i \in Rows : owner[i] # run[c]
  /\ Crash(run[c])
  /\ UNCHANGED <<lockVars, run>>

\* Mutant: the lock is released before the session is closed.
LetGoFirst(c) ==
  /\ run[c] # None
  /\ Lock!Release(c) /\ Runs(c, None)
  /\ UNCHANGED vars

\* lock.release, after the session.
LetGo(c) ==
  /\ run[c] # None /\ ~InSession(c)
  /\ Lock!Release(c) /\ Runs(c, None)
  /\ UNCHANGED vars

\* A process and its session die in one.
Die(c) ==
  /\ Lock!Crash(c) /\ Runs(c, None)
  /\ IF InSession(c) THEN Crash(run[c]) ELSE UNCHANGED vars

\* Other programs, kill.ts and the clock. The pid of a dead session may come
\* and go more freely than the pids of the lock do.
Around ==
  \/ Lock!Host /\ UNCHANGED <<vars, run>>
  \/ /\ \/ \E s \in Sessions : PidReused(s) \/ FallSilent(s)
        \/ \E i \in Rows : GrowOld(i)
     /\ UNCHANGED <<lockVars, run>>

LNext ==
  \/ Around
  \/ \E c \in Collectors :
       \/ LockStep(c) \/ OpenSession(c) \/ Collect(c) \/ RefuseContract(c)
       \/ LetGo(c) \/ Die(c)

LSpec == LInit /\ [][LNext]_lvars

-----------------------------------------------------------------------------
(* Properties. They need ~FastReuse, as the lock does.                       *)

\* "15 mints over a hard cap of 3" is what collectors beside each other did.
\* Under the lock the cap over the study holds whatever contexts the sessions
\* are of: the hypothesis of StudyCap is discharged.
HardCap == \A m \in Mints : SampleCount[m] <= Cap

\* Under the lock nobody reclaims a reservation that is being worked on, also
\* of a session that was silent for as long as the stale rule asks: the opening
\* is never rolled back because its reservation has gone. reserveCandidate rests
\* on it: "this process holds it EXCLUSIVELY, so ... a RESERVED row owned by a
\* different session is not being worked on by anyone" (reservation-repo.ts:236).
NobodyIsRobbed ==
  \A s \in Sessions : stage[s] # "idle" => status[work[s]] = "RESERVED"

\* Who collects is who the row names, from the opening of the session to its
\* closing, although the lock is not looked at in between.
SessionsHoldTheLock ==
  \A s \in Sessions : session[s] = "up" =>
    \E c \in Collectors : run[c] = s /\ pc[c] = "holding" /\ row = pid[c]

-----------------------------------------------------------------------------
(* Inductive strengthening, proved in LockedSamplingProofs.                  *)

RunTypeOK == run \in [Collectors -> Sessions \cup {None}]

\* A session is up in the hands of a collector that holds the lock.
RunInv ==
  /\ \A c \in Collectors : run[c] # None => pc[c] = "holding"
  /\ \A s \in Sessions : session[s] = "up" => \E c \in Collectors : run[c] = s

\* Hence one at a time, and never beside another.
OneSession ==
  /\ \A s, t \in Sessions : session[s] = "up" /\ session[t] = "up" => s = t
  /\ ~overlap

LockedInv == RunTypeOK /\ RunInv /\ OneSession /\ NobodyIsRobbed
=============================================================================
