------------------------- MODULE LockedSamplingProofs -------------------------
(***************************************************************************)
(* A collector implements both the lock and the sampling, and so what is    *)
(* proved of either holds of it; and the lock gives the sampling what it    *)
(* does not have by itself, sessions that do not overlap. For any number of *)
(* collectors, pids, sessions, contexts and mints, and any cap.             *)
(***************************************************************************)
EXTENDS LockedSampling, ReservationProofs

Proved == INSTANCE CollectorLockProofs

-----------------------------------------------------------------------------
(* The composition does what its components do.                              *)

\* A run is a session or none.
LEMMA RunTypeStep ==
  ASSUME RunTypeOK, [LNext]_lvars
  PROVE  RunTypeOK'
BY DEF RunTypeOK, LNext, LockStep, OpenSession, Collect, RefuseContract, LetGo, Die,
       Around, Runs, lvars

\* A step of the collector is one of the lock, or leaves the lock alone.
LEMMA StepOfLock ==
  ASSUME [LNext]_lvars
  PROVE  [Lock!Next]_(Lock!vars)
<1> USE DEF Lock!Next, Lock!Collector, Lock!vars, lockVars
<1>1. ASSUME NEW c \in Collectors, LockStep(c) PROVE Lock!Next
  BY <1>1 DEF LockStep
<1>2. ASSUME NEW c \in Collectors, OpenSession(c) PROVE UNCHANGED Lock!vars
  BY <1>2 DEF OpenSession
<1>3. ASSUME NEW c \in Collectors, Collect(c) PROVE UNCHANGED Lock!vars
  BY <1>3 DEF Collect
<1>4. ASSUME NEW c \in Collectors, RefuseContract(c) PROVE UNCHANGED Lock!vars
  BY <1>4 DEF RefuseContract
<1>5. ASSUME NEW c \in Collectors, LetGo(c) PROVE Lock!Next
  BY <1>5 DEF LetGo
<1>6. ASSUME NEW c \in Collectors, Die(c) PROVE Lock!Next
  BY <1>6 DEF Die
<1>7. ASSUME Around PROVE [Lock!Next]_(Lock!vars)
  BY <1>7 DEF Around
<1>8. ASSUME UNCHANGED lvars PROVE UNCHANGED Lock!vars
  BY <1>8 DEF lvars
<1> QED BY <1>1, <1>2, <1>3, <1>4, <1>5, <1>6, <1>7, <1>8 DEF LNext

\* A step of the collector is one of its session, or leaves the sessions alone.
LEMMA StepOfSampling ==
  ASSUME RunTypeOK, [LNext]_lvars
  PROVE  [Next]_vars
<1>1. ASSUME NEW c \in Collectors, LockStep(c) PROVE UNCHANGED vars
  BY <1>1 DEF LockStep
<1>2. ASSUME NEW c \in Collectors, OpenSession(c) PROVE Next
  BY <1>2 DEF OpenSession, Next, Session
<1>3. ASSUME NEW c \in Collectors, Collect(c) PROVE Next
  <2>1. run[c] \in Sessions BY <1>3 DEF Collect, InSession, RunTypeOK
  <2>2. Session(run[c]) BY <1>3 DEF Collect, Session
  <2>3. QED BY <2>1, <2>2 DEF Next
<1>4. ASSUME NEW c \in Collectors, RefuseContract(c) PROVE Next
  BY <1>4 DEF RefuseContract, InSession, RunTypeOK, Next, Session
<1>5. ASSUME NEW c \in Collectors, LetGo(c) PROVE UNCHANGED vars
  BY <1>5 DEF LetGo
<1>6. ASSUME NEW c \in Collectors, Die(c) PROVE [Next]_vars
  BY <1>6 DEF Die, InSession, RunTypeOK, Next, Session
<1>7. ASSUME Around PROVE [Next]_vars
  BY <1>7 DEF Around, Next, Session
<1>8. ASSUME UNCHANGED lvars PROVE UNCHANGED vars
  BY <1>8 DEF lvars
<1> QED BY <1>1, <1>2, <1>3, <1>4, <1>5, <1>6, <1>7, <1>8 DEF LNext

LEMMA RunTypeCorrect == LSpec => []RunTypeOK
<1>1. LInit => RunTypeOK BY DEF LInit, RunTypeOK
<1>2. RunTypeOK /\ [LNext]_lvars => RunTypeOK' BY RunTypeStep
<1>3. QED BY <1>1, <1>2, PTL DEF LSpec

\* A collector implements the lock: with its sessions hidden, it acquires,
\* holds and releases as CollectorLock says.
THEOREM CollectorIsLock == LSpec => Lock!Spec
<1>1. LInit => Lock!Init BY DEF LInit
<1>2. [LNext]_lvars => [Lock!Next]_(Lock!vars) BY StepOfLock
<1>3. QED BY <1>1, <1>2, PTL DEF LSpec, Lock!Spec

\* A collector implements the sampling: with the lock hidden, its sessions do
\* what Reservation says.
THEOREM CollectorIsSampling == LSpec => Spec
<1>1. LInit => Init BY DEF LInit
<1>2. RunTypeOK /\ [LNext]_lvars => [Next]_vars BY StepOfSampling
<1>3. QED BY <1>1, <1>2, RunTypeCorrect, PTL DEF LSpec, Spec

-----------------------------------------------------------------------------
(* What is proved of the lock, for the instance of it in a collector. The    *)
(* definitions that CollectorLockProofs brings along are those of Lock.      *)

\* The two instances of the lock agree on every step and on its invariant.
LEMMA SameLock ==
  /\ Lock!Init => Proved!Init
  /\ [Lock!Next]_(Lock!vars) => [Proved!Next]_(Proved!vars)
  /\ Proved!LockInv => Lock!LockInv
<1> USE DEF Lock!Files, Proved!Files, Lock!Pcs, Proved!Pcs, Lock!Down, Proved!Down,
            Lock!CollectorPids, Proved!CollectorPids, Lock!Free, Proved!Free,
            Lock!PidIsAlive, Proved!PidIsAlive, Lock!StillOwns, Proved!StillOwns,
            Lock!Goto, Proved!Goto, Lock!End, Proved!End, Lock!Exit, Proved!Exit
<1>1. Lock!Init => Proved!Init BY DEF Lock!Init, Proved!Init
<1>2. Proved!LockInv => Lock!LockInv
  BY DEF Lock!LockInv, Proved!LockInv, Lock!TypeOK, Proved!TypeOK, Lock!PidInv,
         Proved!PidInv, Lock!HolderKeepsRow, Proved!HolderKeepsRow, Lock!KillInv, Proved!KillInv
<1>3. ASSUME NEW c \in Collectors PROVE Lock!Collector(c) => Proved!Collector(c)
  <2>1. Lock!Launch(c) => Proved!Launch(c) BY DEF Lock!Launch, Proved!Launch
  <2>2. Lock!OpenFile(c) => Proved!OpenFile(c) BY DEF Lock!OpenFile, Proved!OpenFile
  <2>3. Lock!WriteFile(c) => Proved!WriteFile(c) BY DEF Lock!WriteFile, Proved!WriteFile
  <2>4. Lock!ReadFile(c) => Proved!ReadFile(c)
    BY DEF Lock!ReadFile, Proved!ReadFile, Lock!HolderInFile, Proved!HolderInFile
  <2>5. Lock!UnlinkFile(c) => Proved!UnlinkFile(c) BY DEF Lock!UnlinkFile, Proved!UnlinkFile
  <2>6. Lock!ReopenFile(c) => Proved!ReopenFile(c) BY DEF Lock!ReopenFile, Proved!ReopenFile
  <2>7. Lock!Acquire(c) => Proved!Acquire(c)
    BY DEF Lock!Acquire, Proved!Acquire, Lock!MayTake, Proved!MayTake
  <2>8. Lock!AcquireRefused(c) => Proved!AcquireRefused(c)
    BY DEF Lock!AcquireRefused, Proved!AcquireRefused
  <2>9. Lock!ReleaseFile(c) => Proved!ReleaseFile(c) BY DEF Lock!ReleaseFile, Proved!ReleaseFile
  <2>10. Lock!Heartbeat(c) => Proved!Heartbeat(c) BY DEF Lock!Heartbeat, Proved!Heartbeat
  <2>11. Lock!Release(c) => Proved!Release(c) BY DEF Lock!Release, Proved!Release
  <2>12. Lock!Crash(c) => Proved!Crash(c) BY DEF Lock!Crash, Proved!Crash
  <2>13. QED
    BY <2>1, <2>2, <2>3, <2>4, <2>5, <2>6, <2>7, <2>8, <2>9, <2>10, <2>11, <2>12
    DEF Lock!Collector, Proved!Collector, Lock!Advance, Proved!Advance
<1>4. Lock!Host => Proved!Host
  BY DEF Lock!Host, Proved!Host, Lock!GoStale, Proved!GoStale, Lock!KillLooks, Proved!KillLooks,
         Lock!KillClears, Proved!KillClears, Lock!StrangerStarts, Proved!StrangerStarts,
         Lock!StrangerExits, Proved!StrangerExits
<1>5. UNCHANGED Lock!vars => UNCHANGED Proved!vars BY DEF Lock!vars, Proved!vars
<1>6. QED BY <1>1, <1>2, <1>3, <1>4, <1>5 DEF Lock!Next, Proved!Next

\* The invariant of the lock holds of a collector.
LEMMA LockOfCollector == ASSUME ~FastReuse PROVE LSpec => []Lock!LockInv
<1>1. Lock!Spec => Proved!Spec BY SameLock, PTL DEF Lock!Spec, Proved!Spec
<1>2. Proved!Spec => []Proved!LockInv
  BY Proved!LockHolds, LockedSamplingAssumption
<1>3. QED BY <1>1, <1>2, SameLock, CollectorIsLock, PTL

\* Two collectors never hold the lock together.
LEMMA OneHolder ==
  ASSUME Lock!LockInv
  PROVE  Lock!OneOwner
BY DEF Lock!LockInv, Lock!OneOwner, Lock!HolderKeepsRow, Lock!PidInv, Lock!Down

-----------------------------------------------------------------------------
(* One session at a time.                                                    *)

\* A collector that has a session holds the lock until the session is over.
LEMMA RunStep ==
  ASSUME RunTypeOK, RunInv, TypeOK, Lock!TypeOK, [LNext]_lvars
  PROVE  RunInv'
<1> USE DEF RunTypeOK, RunInv, Runs
<1>1. ASSUME NEW c \in Collectors, LockStep(c) PROVE RunInv'
  <2>1. run' = run /\ session' = session BY <1>1 DEF LockStep, vars, sessionVars
  <2>2. ASSUME NEW d \in Collectors, run[d] # None PROVE pc'[d] = "holding"
    <3>1. pc[d] = "holding" BY <2>2
    <3>2. CASE d # c
      BY <1>1, <3>1, <3>2 DEF LockStep, Lock!TypeOK, Lock!Launch, Lock!Advance, Lock!Heartbeat,
        Lock!OpenFile, Lock!WriteFile, Lock!ReadFile, Lock!UnlinkFile, Lock!ReopenFile,
        Lock!Acquire, Lock!AcquireRefused, Lock!ReleaseFile, Lock!Goto, Lock!Exit, Lock!End
    <3>3. CASE d = c
      BY <1>1, <3>1, <3>3 DEF LockStep, Lock!TypeOK, Lock!Down, Lock!Launch, Lock!Advance,
        Lock!Heartbeat, Lock!OpenFile, Lock!WriteFile, Lock!ReadFile, Lock!UnlinkFile,
        Lock!ReopenFile, Lock!Acquire, Lock!AcquireRefused, Lock!ReleaseFile
    <3>4. QED BY <3>2, <3>3
  <2>3. QED BY <2>1, <2>2
<1>2. ASSUME NEW c \in Collectors, OpenSession(c) PROVE RunInv'
  <2>1. PICK s \in Sessions, w \in Scopes : Launch(s, w) /\ Runs(c, s)
    BY <1>2 DEF OpenSession
  <2>2. pc[c] = "holding" /\ run[c] = None /\ pc' = pc BY <1>2 DEF OpenSession, lockVars
  <2>3. session' = [session EXCEPT ![s] = "up"] /\ run' = [run EXCEPT ![c] = s]
    BY <2>1 DEF Launch
  <2>4. None \notin Sessions BY ReservationAssumption
  <2>5. \A t \in Sessions : t # s => session'[t] = session[t] BY <2>3 DEF TypeOK
  <2>6. \A d \in Collectors : d # c => run'[d] = run[d] BY <2>3
  <2>7. run'[c] = s BY <2>3
  <2>8. ASSUME NEW t \in Sessions, session'[t] = "up" PROVE \E d \in Collectors : run'[d] = t
    <3>1. CASE t = s BY <3>1, <2>7
    <3>2. CASE t # s
      <4>1. PICK d \in Collectors : run[d] = t BY <3>2, <2>5, <2>8
      <4>2. d # c BY <4>1, <2>2, <2>4
      <4>3. QED BY <4>1, <4>2, <2>6
    <3>3. QED BY <3>1, <3>2
  <2>9. \A d \in Collectors : run'[d] # None => pc'[d] = "holding" BY <2>2, <2>6
  <2>10. QED BY <2>8, <2>9
<1>3. ASSUME NEW c \in Collectors, Collect(c) PROVE RunInv'
  <2>1. run' = run /\ pc' = pc BY <1>3 DEF Collect, lockVars
  <2>2. \A t \in Sessions : session'[t] = "up" => session[t] = "up"
    BY <1>3 DEF Collect, Reserve, ChooseSize, Abandon, OpenTrajectory, CycleThrows, Settle,
      Heartbeat, EndSession, sessionVars, TypeOK
  <2>3. QED BY <2>1, <2>2
<1>4. ASSUME NEW c \in Collectors, RefuseContract(c) PROVE RunInv'
  <2>1. run' = run /\ pc' = pc BY <1>4 DEF RefuseContract, lockVars
  <2>2. \A t \in Sessions : session'[t] = "up" => session[t] = "up"
    BY <1>4 DEF RefuseContract, Crash, TypeOK
  <2>3. QED BY <2>1, <2>2
<1>5. ASSUME NEW c \in Collectors, LetGo(c) PROVE RunInv'
  <2>1. /\ run' = [run EXCEPT ![c] = None] /\ pc' = [pc EXCEPT ![c] = "release"]
        /\ session' = session /\ (run[c] # None => session[run[c]] # "up")
    BY <1>5 DEF LetGo, Lock!Release, Lock!Goto, InSession, vars, sessionVars
  <2>2. \A d \in Collectors : d # c => run'[d] = run[d] /\ pc'[d] = pc[d]
    BY <2>1 DEF Lock!TypeOK
  <2>3. run'[c] = None BY <2>1
  <2>4. None \notin Sessions BY ReservationAssumption
  <2>5. ASSUME NEW t \in Sessions, session'[t] = "up" PROVE \E d \in Collectors : run'[d] = t
    <3>1. PICK d \in Collectors : run[d] = t BY <2>5, <2>1
    <3>2. d # c BY <3>1, <2>1, <2>4, <2>5
    <3>3. QED BY <3>1, <3>2, <2>2
  <2>6. QED BY <2>2, <2>3, <2>5
<1>6. ASSUME NEW c \in Collectors, Die(c) PROVE RunInv'
  <2>1. run' = [run EXCEPT ![c] = None] /\ pc' = [pc EXCEPT ![c] = "crashed"]
    BY <1>6 DEF Die, Lock!Crash, Lock!End, Lock!Goto
  <2>2. \A d \in Collectors : d # c => run'[d] = run[d] /\ pc'[d] = pc[d]
    BY <2>1 DEF Lock!TypeOK
  <2>3. run'[c] = None BY <2>1
  <2>4. None \notin Sessions BY ReservationAssumption
  <2>5. \A t \in Sessions : session'[t] = "up" => session[t] = "up" /\ t # run[c]
    BY <1>6, <2>4 DEF Die, InSession, Crash, TypeOK, vars, sessionVars
  <2>6. ASSUME NEW t \in Sessions, session'[t] = "up" PROVE \E d \in Collectors : run'[d] = t
    <3>1. PICK d \in Collectors : run[d] = t BY <2>6, <2>5
    <3>2. d # c BY <3>1, <2>5, <2>6
    <3>3. QED BY <3>1, <3>2, <2>2
  <2>7. QED BY <2>2, <2>3, <2>6
<1>7. ASSUME Around PROVE RunInv'
  <2>1. run' = run BY <1>7 DEF Around
  <2>2. pc' = pc
    BY <1>7 DEF Around, lockVars, Lock!Host, Lock!GoStale, Lock!KillLooks, Lock!KillClears,
      Lock!StrangerStarts, Lock!StrangerExits
  <2>3. session' = session
    BY <1>7 DEF Around, PidReused, FallSilent, GrowOld, vars, sessionVars
  <2>4. QED BY <2>1, <2>2, <2>3
<1>8. ASSUME UNCHANGED lvars PROVE RunInv'
  BY <1>8 DEF lvars, lockVars, vars, sessionVars
<1> QED BY <1>1, <1>2, <1>3, <1>4, <1>5, <1>6, <1>7, <1>8 DEF LNext

\* A session is opened beside none, so contexts never overlap.
LEMMA NoOverlapStep ==
  ASSUME RunTypeOK, RunInv, Lock!OneOwner, ~overlap, [LNext]_lvars
  PROVE  ~overlap'
<1>1. ASSUME NEW c \in Collectors, OpenSession(c) PROVE ~overlap'
  <2>1. PICK s \in Sessions, w \in Scopes : Launch(s, w) BY <1>1 DEF OpenSession
  <2>2. pc[c] = "holding" /\ run[c] = None BY <1>1 DEF OpenSession
  <2>3. None \notin Sessions BY ReservationAssumption
  <2>4. ASSUME NEW t \in Sessions, session[t] = "up" PROVE FALSE
    BY <2>2, <2>3, <2>4 DEF RunInv, Lock!OneOwner
  <2>5. QED BY <2>1, <2>4 DEF Launch
<1>2. ASSUME NEW c \in Collectors, Collect(c) PROVE overlap' = overlap
  BY <1>2 DEF Collect, Reserve, ChooseSize, Abandon, OpenTrajectory, CycleThrows, Settle,
    Heartbeat, EndSession, sessionVars
<1>3. ASSUME NEW c \in Collectors, LockStep(c) \/ LetGo(c) PROVE overlap' = overlap
  BY <1>3 DEF LockStep, LetGo, vars, sessionVars
<1>4. ASSUME NEW c \in Collectors, RefuseContract(c) \/ Die(c) PROVE overlap' = overlap
  BY <1>4 DEF RefuseContract, Die, Crash, vars, sessionVars
<1>5. ASSUME Around PROVE overlap' = overlap
  BY <1>5 DEF Around, PidReused, FallSilent, GrowOld, vars, sessionVars
<1>6. ASSUME UNCHANGED lvars PROVE overlap' = overlap
  BY <1>6 DEF lvars, vars, sessionVars
<1> QED BY <1>1, <1>2, <1>3, <1>4, <1>5, <1>6 DEF LNext

\* Nobody but the one session that is up can abandon a reservation, and that
\* one turns to the next candidate.
LEMMA NotRobbedStep ==
  ASSUME TypeOK, WorkInv, NobodyIsRobbed, [Next]_vars,
         \A s, t \in Sessions : session[s] = "up" /\ session[t] = "up" => s = t
  PROVE  NobodyIsRobbed'
<1> USE DEF NobodyIsRobbed, TypeOK, Loop, rowVars, sessionVars, loopVars
<1>0. \A s, t \in Sessions : session[s] = "up" /\ stage[t] # "idle" => s = t
  BY DEF WorkInv
<1>1. ASSUME NEW s \in Sessions, NEW w \in Scopes, Launch(s, w) PROVE NobodyIsRobbed'
  BY <1>1 DEF Launch
<1>2. ASSUME NEW s \in Sessions, NEW m \in Mints, Reserve(s, m) PROVE NobodyIsRobbed'
  <2>1. session[s] = "up" /\ stage[s] = "idle" BY <1>2 DEF Reserve
  <2>2. \A t \in Sessions : stage[t] = "idle" BY <1>0, <2>1
  <2>3. PICK i \in Rows :
          /\ status' = [j \in Rows |-> IF j = i THEN "RESERVED"
                                       ELSE IF j \in Held(context[s], m) THEN "ABANDONED"
                                       ELSE status[j]]
          /\ Loop(s, "reserved", i)
    BY <1>2 DEF Reserve
  <2>4. status'[i] = "RESERVED" BY <2>3
  <2>5. \A t \in Sessions : t # s => stage'[t] = "idle" BY <2>2, <2>3
  <2>6. work'[s] = i BY <2>3
  <2>7. QED BY <2>4, <2>5, <2>6
<1>3. ASSUME NEW s \in Sessions, ChooseSize(s) PROVE NobodyIsRobbed'
  BY <1>3 DEF ChooseSize
<1>4. ASSUME NEW s \in Sessions, Abandon(s) \/ OpenTrajectory(s) \/ CycleThrows(s)
      PROVE  NobodyIsRobbed'
  <2>1. session[s] = "up" BY <1>4 DEF Abandon, OpenTrajectory, CycleThrows
  <2>2. stage' = [stage EXCEPT ![s] = "idle"]
    BY <1>4 DEF Abandon, OpenTrajectory, CycleThrows
  <2>3. \A t \in Sessions : stage'[t] = "idle" BY <1>0, <2>1, <2>2
  <2>4. QED BY <2>3
<1>5. ASSUME NEW s \in Sessions, NEW i \in Rows, Settle(s, i) PROVE NobodyIsRobbed'
  BY <1>5 DEF Settle
<1>6. ASSUME NEW s \in Sessions, Heartbeat(s) \/ EndSession(s) \/ PidReused(s) \/ FallSilent(s)
      PROVE  NobodyIsRobbed'
  BY <1>6 DEF Heartbeat, EndSession, PidReused, FallSilent
<1>7. ASSUME NEW s \in Sessions, Crash(s) PROVE NobodyIsRobbed'
  BY <1>7 DEF Crash
<1>8. ASSUME NEW i \in Rows, GrowOld(i) PROVE NobodyIsRobbed'
  BY <1>8 DEF GrowOld
<1>9. ASSUME UNCHANGED vars PROVE NobodyIsRobbed'
  BY <1>9 DEF vars
<1> QED BY <1>1, <1>2, <1>3, <1>4, <1>5, <1>6, <1>7, <1>8, <1>9 DEF Next, Session

\* The strengthening holds, as long as kill.ts meets no reused pid.
THEOREM LockedHolds == ASSUME ~FastReuse PROVE LSpec => []LockedInv
<1>1. LInit => LockedInv
  BY DEF LInit, Init, LockedInv, RunTypeOK, RunInv, OneSession, NobodyIsRobbed
<1>2. ASSUME LockedInv, ReservationInv, Lock!LockInv, Lock!LockInv', [LNext]_lvars
      PROVE  LockedInv'
  <2>1. RunTypeOK' /\ RunInv'
    BY <1>2, RunTypeStep, RunStep DEF LockedInv, ReservationInv, Lock!LockInv
  <2>2. Lock!OneOwner /\ Lock!OneOwner' BY <1>2, OneHolder, PTL
  <2>3. \A s, t \in Sessions : session'[s] = "up" /\ session'[t] = "up" => s = t
    BY <2>1, <2>2, ReservationAssumption DEF RunInv, Lock!OneOwner
  <2>4. ~overlap' BY <1>2, <2>2, NoOverlapStep DEF LockedInv, OneSession
  <2>5. NobodyIsRobbed'
    BY <1>2, StepOfSampling, NotRobbedStep DEF LockedInv, OneSession, ReservationInv
  <2>6. QED BY <2>1, <2>3, <2>4, <2>5 DEF LockedInv, OneSession
<1>3. LSpec => []ReservationInv BY CollectorIsSampling, ReservationsHold, PTL
<1>4. QED BY <1>1, <1>2, <1>3, LockOfCollector, PTL DEF LSpec

\* The cap over the study, with no hypothesis on contexts or sessions.
THEOREM CapIsHard == ASSUME ~FastReuse PROVE LSpec => []HardCap
<1>1. LockedInv /\ ReservationInv => HardCap
  BY DEF LockedInv, OneSession, ReservationInv, StudyCap, HardCap
<1>2. LSpec => []ReservationInv BY CollectorIsSampling, ReservationsHold, PTL
<1>3. QED BY <1>1, <1>2, LockedHolds, PTL

\* No session loses the reservation it works on.
THEOREM WorkIsKept == ASSUME ~FastReuse PROVE LSpec => []NobodyIsRobbed
<1>1. LockedInv => NobodyIsRobbed BY DEF LockedInv
<1>2. QED BY <1>1, LockedHolds, PTL

\* The session that is up is that of the process in the row.
THEOREM CollectsUnderLock == ASSUME ~FastReuse PROVE LSpec => []SessionsHoldTheLock
<1>1. LockedInv /\ Lock!LockInv => SessionsHoldTheLock
  <2> SUFFICES ASSUME LockedInv, Lock!LockInv, NEW s \in Sessions, session[s] = "up"
               PROVE  \E c \in Collectors : run[c] = s /\ pc[c] = "holding" /\ row = pid[c]
    BY DEF SessionsHoldTheLock
  <2>1. PICK c \in Collectors : run[c] = s BY DEF LockedInv, RunInv
  <2>2. pc[c] = "holding" BY <2>1, ReservationAssumption DEF LockedInv, RunInv
  <2>3. row = pid[c] BY <2>2 DEF Lock!LockInv, Lock!HolderKeepsRow
  <2>4. QED BY <2>1, <2>2, <2>3
<1>2. QED BY <1>1, LockedHolds, LockOfCollector, PTL
===============================================================================
