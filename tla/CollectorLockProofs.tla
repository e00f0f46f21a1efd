------------------------- MODULE CollectorLockProofs -------------------------
(***************************************************************************)
(* At most one live collector believes it owns the candidate queue, for any *)
(* number of collectors and pids, provided no pid is reused in the moment   *)
(* between kill.ts finding a process gone and deleting its row.             *)
(***************************************************************************)
EXTENDS CollectorLock, TLAPS

\* Types, and the pids of running processes.
LEMMA TypeStep ==
  TypeOK /\ [Next]_vars => TypeOK'
<1> SUFFICES ASSUME TypeOK, [Next]_vars PROVE TypeOK'
  OBVIOUS
<1> USE LockAssumption DEF TypeOK, Pcs, Down, Files
<1>1. ASSUME NEW c \in Collectors, Launch(c) PROVE TypeOK'
  BY <1>1 DEF Launch, Goto
<1>2. ASSUME NEW c \in Collectors, OpenFile(c) PROVE TypeOK'
  BY <1>2 DEF OpenFile, Goto
<1>3. ASSUME NEW c \in Collectors, WriteFile(c) PROVE TypeOK'
  BY <1>3 DEF WriteFile, Goto
<1>4. ASSUME NEW c \in Collectors, ReadFile(c) PROVE TypeOK'
  BY <1>4 DEF ReadFile, Exit, End, Goto, HolderInFile
<1>5. ASSUME NEW c \in Collectors, UnlinkFile(c) PROVE TypeOK'
  BY <1>5 DEF UnlinkFile, Exit, End, Goto
<1>6. ASSUME NEW c \in Collectors, ReopenFile(c) PROVE TypeOK'
  BY <1>6 DEF ReopenFile, Exit, End, Goto
<1>7. ASSUME NEW c \in Collectors, Acquire(c) PROVE TypeOK'
  BY <1>7 DEF Acquire, MayTake, PidIsAlive, StillOwns, Goto
<1>8. ASSUME NEW c \in Collectors, AcquireRefused(c) PROVE TypeOK'
  BY <1>8 DEF AcquireRefused, Goto
<1>9. ASSUME NEW c \in Collectors, Heartbeat(c) PROVE TypeOK'
  BY <1>9 DEF Heartbeat, Goto
<1>10. ASSUME NEW c \in Collectors, Release(c) PROVE TypeOK'
  BY <1>10 DEF Release, Goto
<1>11. ASSUME NEW c \in Collectors, ReleaseFile(c) PROVE TypeOK'
  BY <1>11 DEF ReleaseFile, Exit, End, Goto
<1>12. ASSUME NEW c \in Collectors, Crash(c) PROVE TypeOK'
  BY <1>12 DEF Crash, End, Goto
<1>13. CASE GoStale
  BY <1>13 DEF GoStale
<1>14. CASE KillLooks
  BY <1>14 DEF KillLooks
<1>15. CASE KillClears
  BY <1>15 DEF KillClears
<1>16. ASSUME NEW q \in Pids, StrangerStarts(q) PROVE TypeOK'
  BY <1>16 DEF StrangerStarts
<1>17. ASSUME NEW q \in Pids, StrangerExits(q) PROVE TypeOK'
  BY <1>17 DEF StrangerExits
<1>18. CASE UNCHANGED vars
  BY <1>18 DEF vars
<1> QED
  BY <1>1, <1>2, <1>3, <1>4, <1>5, <1>6, <1>7, <1>8, <1>9, <1>10, <1>11, <1>12, <1>13, <1>14, <1>15, <1>16, <1>17, <1>18
  DEF Next, Host, Collector, Advance

LEMMA PidStep ==
  TypeOK /\ PidInv /\ [Next]_vars => PidInv'
<1> SUFFICES ASSUME TypeOK, PidInv, [Next]_vars PROVE PidInv'
  OBVIOUS
<1> USE LockAssumption DEF TypeOK, PidInv, Down, Free, CollectorPids
<1>1. ASSUME NEW c \in Collectors, Launch(c) PROVE PidInv'
  BY <1>1 DEF Launch, Goto
<1>2. ASSUME NEW c \in Collectors, OpenFile(c) PROVE PidInv'
  BY <1>2 DEF OpenFile, Goto
<1>3. ASSUME NEW c \in Collectors, WriteFile(c) PROVE PidInv'
  BY <1>3 DEF WriteFile, Goto
<1>4. ASSUME NEW c \in Collectors, ReadFile(c) PROVE PidInv'
  BY <1>4 DEF ReadFile, Exit, End, Goto, HolderInFile
<1>5. ASSUME NEW c \in Collectors, UnlinkFile(c) PROVE PidInv'
  BY <1>5 DEF UnlinkFile, Exit, End, Goto
<1>6. ASSUME NEW c \in Collectors, ReopenFile(c) PROVE PidInv'
  BY <1>6 DEF ReopenFile, Exit, End, Goto
<1>7. ASSUME NEW c \in Collectors, Acquire(c) PROVE PidInv'
  BY <1>7 DEF Acquire, MayTake, PidIsAlive, StillOwns, Goto
<1>8. ASSUME NEW c \in Collectors, AcquireRefused(c) PROVE PidInv'
  BY <1>8 DEF AcquireRefused, Goto
<1>9. ASSUME NEW c \in Collectors, Heartbeat(c) PROVE PidInv'
  BY <1>9 DEF Heartbeat, Goto
<1>10. ASSUME NEW c \in Collectors, Release(c) PROVE PidInv'
  BY <1>10 DEF Release, Goto
<1>11. ASSUME NEW c \in Collectors, ReleaseFile(c) PROVE PidInv'
  BY <1>11 DEF ReleaseFile, Exit, End, Goto
<1>12. ASSUME NEW c \in Collectors, Crash(c) PROVE PidInv'
  BY <1>12 DEF Crash, End, Goto
<1>13. CASE GoStale
  BY <1>13 DEF GoStale
<1>14. CASE KillLooks
  BY <1>14 DEF KillLooks
<1>15. CASE KillClears
  BY <1>15 DEF KillClears
<1>16. ASSUME NEW q \in Pids, StrangerStarts(q) PROVE PidInv'
  BY <1>16 DEF StrangerStarts
<1>17. ASSUME NEW q \in Pids, StrangerExits(q) PROVE PidInv'
  BY <1>17 DEF StrangerExits
<1>18. CASE UNCHANGED vars
  BY <1>18 DEF vars
<1> QED
  BY <1>1, <1>2, <1>3, <1>4, <1>5, <1>6, <1>7, <1>8, <1>9, <1>10, <1>11, <1>12, <1>13, <1>14, <1>15, <1>16, <1>17, <1>18
  DEF Next, Host, Collector, Advance

\* The row of a holder changes only by its own hand, and kill.ts has its eye
\* on no live process.
LEMMA KillStep ==
  ~FastReuse /\ TypeOK /\ PidInv /\ KillInv /\ [Next]_vars => KillInv'
<1> SUFFICES ASSUME ~FastReuse, TypeOK, PidInv, KillInv, [Next]_vars PROVE KillInv'
  OBVIOUS
<1> USE LockAssumption DEF TypeOK, PidInv, KillInv, Down, Free, CollectorPids, PidIsAlive
<1>1. ASSUME NEW c \in Collectors, Launch(c) PROVE KillInv'
  BY <1>1 DEF Launch, Goto
<1>2. ASSUME NEW c \in Collectors, OpenFile(c) PROVE KillInv'
  BY <1>2 DEF OpenFile, Goto
<1>3. ASSUME NEW c \in Collectors, WriteFile(c) PROVE KillInv'
  BY <1>3 DEF WriteFile, Goto
<1>4. ASSUME NEW c \in Collectors, ReadFile(c) PROVE KillInv'
  BY <1>4 DEF ReadFile, Exit, End, Goto, HolderInFile
<1>5. ASSUME NEW c \in Collectors, UnlinkFile(c) PROVE KillInv'
  BY <1>5 DEF UnlinkFile, Exit, End, Goto
<1>6. ASSUME NEW c \in Collectors, ReopenFile(c) PROVE KillInv'
  BY <1>6 DEF ReopenFile, Exit, End, Goto
<1>7. ASSUME NEW c \in Collectors, Acquire(c) PROVE KillInv'
  BY <1>7 DEF Acquire, MayTake, PidIsAlive, StillOwns, Goto
<1>8. ASSUME NEW c \in Collectors, AcquireRefused(c) PROVE KillInv'
  BY <1>8 DEF AcquireRefused, Goto
<1>9. ASSUME NEW c \in Collectors, Heartbeat(c) PROVE KillInv'
  BY <1>9 DEF Heartbeat, Goto
<1>10. ASSUME NEW c \in Collectors, Release(c) PROVE KillInv'
  BY <1>10 DEF Release, Goto
<1>11. ASSUME NEW c \in Collectors, ReleaseFile(c) PROVE KillInv'
  BY <1>11 DEF ReleaseFile, Exit, End, Goto
<1>12. ASSUME NEW c \in Collectors, Crash(c) PROVE KillInv'
  BY <1>12 DEF Crash, End, Goto
<1>13. CASE GoStale
  BY <1>13 DEF GoStale
<1>14. CASE KillLooks
  BY <1>14 DEF KillLooks
<1>15. CASE KillClears
  BY <1>15 DEF KillClears
<1>16. ASSUME NEW q \in Pids, StrangerStarts(q) PROVE KillInv'
  BY <1>16 DEF StrangerStarts
<1>17. ASSUME NEW q \in Pids, StrangerExits(q) PROVE KillInv'
  BY <1>17 DEF StrangerExits
<1>18. CASE UNCHANGED vars
  BY <1>18 DEF vars
<1> QED
  BY <1>1, <1>2, <1>3, <1>4, <1>5, <1>6, <1>7, <1>8, <1>9, <1>10, <1>11, <1>12, <1>13, <1>14, <1>15, <1>16, <1>17, <1>18
  DEF Next, Host, Collector, Advance

LEMMA RowStep ==
  ~FastReuse /\ LockInv /\ [Next]_vars => HolderKeepsRow'
<1> SUFFICES ASSUME ~FastReuse, LockInv, [Next]_vars PROVE HolderKeepsRow'
  OBVIOUS
<1> USE LockAssumption DEF LockInv, TypeOK, PidInv, KillInv, HolderKeepsRow, Down, CollectorPids
<1>1. ASSUME NEW c \in Collectors, Launch(c) PROVE HolderKeepsRow'
  BY <1>1 DEF Launch, Goto
<1>2. ASSUME NEW c \in Collectors, OpenFile(c) PROVE HolderKeepsRow'
  BY <1>2 DEF OpenFile, Goto
<1>3. ASSUME NEW c \in Collectors, WriteFile(c) PROVE HolderKeepsRow'
  BY <1>3 DEF WriteFile, Goto
<1>4. ASSUME NEW c \in Collectors, ReadFile(c) PROVE HolderKeepsRow'
  BY <1>4 DEF ReadFile, Exit, End, Goto, HolderInFile
<1>5. ASSUME NEW c \in Collectors, UnlinkFile(c) PROVE HolderKeepsRow'
  BY <1>5 DEF UnlinkFile, Exit, End, Goto
<1>6. ASSUME NEW c \in Collectors, ReopenFile(c) PROVE HolderKeepsRow'
  BY <1>6 DEF ReopenFile, Exit, End, Goto
<1>7. ASSUME NEW c \in Collectors, Acquire(c) PROVE HolderKeepsRow'
  BY <1>7 DEF Acquire, MayTake, PidIsAlive, StillOwns, Goto
<1>8. ASSUME NEW c \in Collectors, AcquireRefused(c) PROVE HolderKeepsRow'
  BY <1>8 DEF AcquireRefused, Goto
<1>9. ASSUME NEW c \in Collectors, Heartbeat(c) PROVE HolderKeepsRow'
  BY <1>9 DEF Heartbeat, Goto
<1>10. ASSUME NEW c \in Collectors, Release(c) PROVE HolderKeepsRow'
  BY <1>10 DEF Release, Goto
<1>11. ASSUME NEW c \in Collectors, ReleaseFile(c) PROVE HolderKeepsRow'
  BY <1>11 DEF ReleaseFile, Exit, End, Goto
<1>12. ASSUME NEW c \in Collectors, Crash(c) PROVE HolderKeepsRow'
  BY <1>12 DEF Crash, End, Goto
<1>13. CASE GoStale
  BY <1>13 DEF GoStale
<1>14. CASE KillLooks
  BY <1>14 DEF KillLooks
<1>15. CASE KillClears
  BY <1>15 DEF KillClears
<1>16. ASSUME NEW q \in Pids, StrangerStarts(q) PROVE HolderKeepsRow'
  BY <1>16 DEF StrangerStarts
<1>17. ASSUME NEW q \in Pids, StrangerExits(q) PROVE HolderKeepsRow'
  BY <1>17 DEF StrangerExits
<1>18. CASE UNCHANGED vars
  BY <1>18 DEF vars
<1> QED
  BY <1>1, <1>2, <1>3, <1>4, <1>5, <1>6, <1>7, <1>8, <1>9, <1>10, <1>11, <1>12, <1>13, <1>14, <1>15, <1>16, <1>17, <1>18
  DEF Next, Host, Collector, Advance

\* The strengthening that the run of this module checks.
THEOREM LockHolds == ASSUME ~FastReuse PROVE Spec => []LockInv
<1>1. Init => LockInv
  BY LockAssumption DEF Init, LockInv, TypeOK, PidInv, HolderKeepsRow, KillInv, Pcs, Down
<1>2. LockInv /\ [Next]_vars => LockInv'
  BY TypeStep, PidStep, KillStep, RowStep DEF LockInv
<1> QED
  BY <1>1, <1>2, PTL DEF Spec

\* "ONE semantic owner of the candidate queue", by the row alone: whatever
\* happens to the lock file, to heartbeats and to pids.
THEOREM SingleOwner == ASSUME ~FastReuse PROVE Spec => []OneOwner
<1>1. LockInv => OneOwner
  BY DEF LockInv, OneOwner, HolderKeepsRow, PidInv, Down
<1> QED
  BY <1>1, LockHolds, PTL
==============================================================================
