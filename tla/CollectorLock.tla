---------------------------- MODULE CollectorLock ----------------------------
(***************************************************************************)
(* Single ownership of the trajectory candidate queue:                      *)
(* packages/storage/src/collector-lock.ts as trajectory-collect.ts uses it, *)
(* with scripts/kill.ts clearing rows beside it.                            *)
(*                                                                          *)
(* A collector takes an OS lock file first and the row of process_locks     *)
(* second. The file is taken in several system calls, the row inside one    *)
(* BEGIN IMMEDIATE transaction. Both name their owner by pid, and the       *)
(* system hands the pid of a dead process to whoever starts next.           *)
(***************************************************************************)
EXTENDS Naturals

CONSTANTS
  Collectors,  \* launches of trajectory-collect that may overlap
  Pids,        \* process ids of the host
  NoPid,       \* no process, no row, or an empty file
  NoFile,      \* the lock file does not exist
  FastReuse,   \* may a pid be reused while kill.ts is about to clear its row?
  Unreadable   \* may the command line of a live pid be unreadable?

ASSUME LockAssumption ==
  FastReuse \in BOOLEAN /\ Unreadable \in BOOLEAN /\ NoPid \notin Pids

VARIABLES
  pc,        \* where each collector is
  pid,       \* its process id, NoPid while it does not run
  strangers, \* pids in use by other programs
  row,       \* process_locks.pid of the row, NoPid while there is none
  fresh,     \* is its heartbeat younger than STALE_AFTER_MS?
  file,      \* the lock file: who created it, and the pid written into it
  doomed     \* the pid whose row kill.ts has decided to delete

vars == <<pc, pid, strangers, row, fresh, file, doomed>>

\* "off" after an exit of its own, "crashed" after any other.
Down == {"off", "crashed"}
Pcs == Down \cup {"open", "write", "read", "unlink", "reopen", "acquire", "holding",
                "release"}

Files == [by: Collectors, pid: Pids \cup {NoPid}]

TypeOK ==
  /\ pc \in [Collectors -> Pcs]
  /\ pid \in [Collectors -> Pids \cup {NoPid}]
  /\ strangers \subseteq Pids
  /\ row \in Pids \cup {NoPid}
  /\ fresh \in BOOLEAN
  /\ file \in Files \cup {NoFile}
  /\ doomed \in Pids \cup {NoPid}

Init ==
  /\ pc = [c \in Collectors |-> "off"]
  /\ pid = [c \in Collectors |-> NoPid]
  /\ strangers = {}
  /\ row = NoPid /\ fresh = FALSE
  /\ file = NoFile
  /\ doomed = NoPid

CollectorPids == {pid[c] : c \in Collectors} \ {NoPid}
Free(q) == q \notin CollectorPids \cup strangers

\* process.kill(pid, 0) finds a process, whosever it is.
PidIsAlive(q) == q \in CollectorPids \cup strangers

\* The command line of a live pid tells a collector from a stranger, unless it
\* cannot be read; unreadable counts as a collector.
StillOwns(q) ==
  IF q \in CollectorPids THEN {TRUE}
  ELSE IF Unreadable THEN {TRUE, FALSE} ELSE {FALSE}

Goto(c, p) == pc' = [pc EXCEPT ![c] = p]

End(c, p) == Goto(c, p) /\ pid' = [pid EXCEPT ![c] = NoPid]
Exit(c) == End(c, "off")

-----------------------------------------------------------------------------
(* The lock file, acquireFileLock.                                           *)

Launch(c) ==
  /\ pc[c] \in Down
  /\ \E q \in Pids :
       /\ Free(q) /\ (q = doomed => FastReuse)
       /\ pid' = [pid EXCEPT ![c] = q]
  /\ Goto(c, "open")
  /\ UNCHANGED <<strangers, row, fresh, file, doomed>>

\* openSync(p, 'wx'): creates the file, or fails because it is there.
OpenFile(c) ==
  /\ pc[c] = "open"
  /\ \/ file = NoFile /\ file' = [by |-> c, pid |-> NoPid] /\ Goto(c, "write")
     \/ file # NoFile /\ Goto(c, "read") /\ UNCHANGED file
  /\ UNCHANGED <<pid, strangers, row, fresh, doomed>>

\* The write goes to the descriptor, so into a file that may be unlinked.
WriteFile(c) ==
  /\ pc[c] = "write"
  /\ file' = IF file # NoFile /\ file.by = c THEN [file EXCEPT !.pid = pid[c]] ELSE file
  /\ Goto(c, "acquire")
  /\ UNCHANGED <<pid, strangers, row, fresh, doomed>>

\* An absent or empty file reads as holder 0.
HolderInFile == IF file = NoFile THEN NoPid ELSE file.pid

\* Any live pid refuses: here no command line is looked at.
ReadFile(c) ==
  /\ pc[c] = "read"
  /\ IF HolderInFile \notin {NoPid, pid[c]} /\ PidIsAlive(HolderInFile)
       THEN Exit(c)
       ELSE Goto(c, "unlink") /\ UNCHANGED pid
  /\ UNCHANGED <<strangers, row, fresh, file, doomed>>

UnlinkFile(c) ==
  /\ pc[c] = "unlink"
  /\ IF file = NoFile THEN Exit(c) ELSE Goto(c, "reopen") /\ UNCHANGED pid
  /\ file' = NoFile
  /\ UNCHANGED <<strangers, row, fresh, doomed>>

ReopenFile(c) ==
  /\ pc[c] = "reopen"
  /\ \/ /\ file = NoFile /\ file' = [by |-> c, pid |-> NoPid]
        /\ Goto(c, "write") /\ UNCHANGED pid
     \/ file # NoFile /\ Exit(c) /\ UNCHANGED file
  /\ UNCHANGED <<strangers, row, fresh, doomed>>

-----------------------------------------------------------------------------
(* The row, in one write transaction.                                        *)

\* Mutant: a dead pid or a stale heartbeat is enough to take the lock.
MayTakeOnHalfSignal(c) ==
  \/ row \in {NoPid, pid[c]}
  \/ ~fresh \/ ~PidIsAlive(row)

\* Taken from nobody, from oneself, or from an owner with a stale heartbeat
\* whose pid is dead or demonstrably no longer this program.
MayTake(c) ==
  \/ row \in {NoPid, pid[c]}
  \/ ~fresh /\ ~PidIsAlive(row)
  \/ ~fresh /\ PidIsAlive(row) /\ FALSE \in StillOwns(row)

Acquire(c) ==
  /\ pc[c] = "acquire" /\ MayTake(c)
  /\ row' = pid[c] /\ fresh' = TRUE
  /\ Goto(c, "holding")
  /\ UNCHANGED <<pid, strangers, file, doomed>>

\* CollectorLockRefused: the file is given back and the process exits.
AcquireRefused(c) ==
  /\ pc[c] = "acquire" /\ row \notin {NoPid, pid[c]}
  /\ fresh \/ (PidIsAlive(row) /\ TRUE \in StillOwns(row))
  /\ Goto(c, "release")
  /\ UNCHANGED <<pid, strangers, row, fresh, file, doomed>>

Heartbeat(c) ==
  /\ pc[c] = "holding" /\ row = pid[c] /\ ~fresh
  /\ fresh' = TRUE
  /\ UNCHANGED <<pc, pid, strangers, row, file, doomed>>

\* DELETE ... WHERE pid = me. A failure of it is swallowed and leaves the row.
Release(c) ==
  /\ pc[c] = "holding"
  /\ \/ row = pid[c] /\ row' = NoPid /\ fresh' = FALSE
     \/ UNCHANGED <<row, fresh>>
  /\ Goto(c, "release")
  /\ UNCHANGED <<pid, strangers, file, doomed>>

\* releaseFileLock unlinks the path, whatever file is there now, if it can.
ReleaseFile(c) ==
  /\ pc[c] = "release"
  /\ file' \in {NoFile, file}
  /\ Exit(c)
  /\ UNCHANGED <<strangers, row, fresh, doomed>>

Crash(c) ==
  /\ pc[c] \notin Down
  /\ End(c, "crashed")
  /\ UNCHANGED <<strangers, row, fresh, file, doomed>>

-----------------------------------------------------------------------------
(* The clock, other programs, and scripts/kill.ts.                           *)

GoStale ==
  /\ row # NoPid /\ fresh
  /\ fresh' = FALSE
  /\ UNCHANGED <<pc, pid, strangers, row, file, doomed>>

\* Other programs never use up the last free pid.
StrangerStarts(q) ==
  /\ Free(q) /\ \E r \in Pids : r # q /\ Free(r)
  /\ strangers' = strangers \cup {q}
  /\ UNCHANGED <<pc, pid, row, fresh, file, doomed>>

StrangerExits(q) ==
  /\ q \in strangers
  /\ strangers' = strangers \ {q}
  /\ UNCHANGED <<pc, pid, row, fresh, file, doomed>>

\* Mutant: the row of a process that was only signalled is deleted too.
KillLooksAtAny ==
  /\ doomed = NoPid /\ row # NoPid
  /\ doomed' = row
  /\ UNCHANGED <<pc, pid, strangers, row, fresh, file>>

\* It finds the row's process gone, at once or after having signalled it.
KillLooks ==
  /\ doomed = NoPid /\ row # NoPid /\ ~PidIsAlive(row)
  /\ doomed' = row
  /\ UNCHANGED <<pc, pid, strangers, row, fresh, file>>

KillClears ==
  /\ doomed # NoPid
  /\ IF row = doomed THEN row' = NoPid /\ fresh' = FALSE ELSE UNCHANGED <<row, fresh>>
  /\ doomed' = NoPid
  /\ UNCHANGED <<pc, pid, strangers, file>>

\* What a launched collector does on its own, short of stopping.
Advance(c) ==
  \/ OpenFile(c) \/ WriteFile(c) \/ ReadFile(c) \/ UnlinkFile(c) \/ ReopenFile(c)
  \/ Acquire(c) \/ AcquireRefused(c) \/ ReleaseFile(c)

Collector(c) == Launch(c) \/ Advance(c) \/ Heartbeat(c) \/ Release(c) \/ Crash(c)

Host == GoStale \/ KillLooks \/ KillClears
          \/ \E q \in Pids : StrangerStarts(q) \/ StrangerExits(q)

Next == Host \/ \E c \in Collectors : Collector(c)

Spec == Init /\ [][Next]_vars

\* A supervisor relaunches collectors, they proceed while they live, time
\* passes, kill.ts finishes, and from some moment on no process but the
\* collectors comes or goes and no collector crashes.
FairSpec ==
  /\ Spec /\ WF_vars(GoStale) /\ WF_vars(KillClears)
  /\ \A c \in Collectors : WF_vars(Launch(c)) /\ WF_vars(Advance(c))
  /\ <>[][(\A c \in Collectors : ~Crash(c)) /\ UNCHANGED strangers]_vars

-----------------------------------------------------------------------------
\* "ONE semantic owner of the candidate queue": whatever dies, hangs or
\* inherits a pid, at most one live process believes it holds the lock.
OneOwner ==
  \A c, d \in Collectors : pc[c] = "holding" /\ pc[d] = "holding" => c = d

\* A live holder is never taken over: the row it wrote stays its own until it
\* lets go or dies, also while it hangs and its heartbeat is long stale.
HolderKeepsRow ==
  \A c \in Collectors : pc[c] = "holding" => row = pid[c]

\* "A recycled pid ... is treated as what it is, a dead owner": once collectors
\* stop crashing, one of them owns the queue again and again. The row is taken
\* back from a stranger; the file, which is asked first, is not.
CollectionResumes == []<>(\E c \in Collectors : pc[c] = "holding")

-----------------------------------------------------------------------------
(* Inductive strengthening.                                                  *)

\* Running collectors have pids of their own, which no stranger shares.
PidInv ==
  \A c \in Collectors :
    /\ pc[c] \in Down <=> pid[c] = NoPid
    /\ pid[c] \notin strangers
    /\ \A d \in Collectors : pid[c] = pid[d] /\ pid[c] # NoPid => c = d

\* With pids not reused under kill.ts, it never deletes the row of the living.
KillInv == doomed # NoPid => doomed \notin CollectorPids

LockInv == TypeOK /\ PidInv /\ HolderKeepsRow /\ (~FastReuse => KillInv)
=============================================================================
