----------------------------- MODULE Reservation -----------------------------
(***************************************************************************)
(* Sampling slots: packages/storage/src/reservation-repo.ts as the open     *)
(* loop of apps/collector/src/trajectory-collect.ts uses it. A session      *)
(* reserves a mint in one write transaction, works on the candidate for     *)
(* seconds, and then either binds the reservation to a trajectory in a      *)
(* second transaction, abandons it, or fails and leaves it as it is.        *)
(*                                                                          *)
(* The collector lock keeps sessions from overlapping (LockedSampling);     *)
(* here they may overlap, to see what the reservation protects without it.  *)
(***************************************************************************)
EXTENDS Naturals, FiniteSets

CONSTANTS
  Sessions,  \* collector sessions, each a launch of its own
  Scopes,    \* evidence contexts
  Mints,
  Rows,      \* reservations that may ever be made; a bound of the model
  None,      \* no scope, mint, session or row
  Cap        \* maxPerMint

ASSUME ReservationAssumption ==
  /\ Cap \in Nat /\ IsFiniteSet(Rows)
  /\ None \notin Sessions \cup Scopes \cup Mints \cup Rows

VARIABLES
  \* columns of trajectory_reservations
  status, scope, mint, owner, ordinal, attempt,
  old,         \* rows reserved STALE_RESERVATION_MS ago or more
  trajectory,  \* state of the development_trajectories row a reservation bound
  \* collector_sessions and their processes
  session,     \* "new" before the launch, then "up", "ended" or "dead"
  context,     \* the evidence context the session collects for
  silent,      \* sessions whose heartbeat is STALE_RESERVATION_MS old or more
  seen,        \* sessions whose pid belongs to a live process, theirs or another
  stage,       \* where the open loop of the session is
  work,        \* the reservation it is working on
  overlap      \* history: have sessions of different contexts been up together?

rowVars     == <<status, scope, mint, owner, ordinal, attempt, trajectory>>
sessionVars == <<session, context, seen, overlap>>
loopVars    == <<stage, work>>
vars == <<rowVars, old, sessionVars, silent, loopVars>>

Stages == {"idle", "reserved", "opening"}

\* Ordinals are within the cap: the CHECK of the table.
TypeOK ==
  /\ status \in [Rows -> {"none", "RESERVED", "OPENED", "ABANDONED"}]
  /\ scope \in [Rows -> Scopes \cup {None}]
  /\ mint \in [Rows -> Mints \cup {None}]
  /\ owner \in [Rows -> Sessions \cup {None}]
  /\ ordinal \in [Rows -> 0..Cap]
  /\ attempt \in [Rows -> Nat]
  /\ trajectory \in [Rows -> {"none", "open", "SETTLED"}]
  /\ old \subseteq Rows
  /\ session \in [Sessions -> {"new", "up", "ended", "dead"}]
  /\ context \in [Sessions -> Scopes \cup {None}]
  /\ silent \subseteq Sessions /\ seen \subseteq Sessions
  /\ stage \in [Sessions -> Stages]
  /\ work \in [Sessions -> Rows \cup {None}]
  /\ overlap \in BOOLEAN

Init ==
  /\ status = [i \in Rows |-> "none"]
  /\ scope = [i \in Rows |-> None] /\ mint = [i \in Rows |-> None]
  /\ owner = [i \in Rows |-> None]
  /\ ordinal = [i \in Rows |-> 0] /\ attempt = [i \in Rows |-> 0]
  /\ trajectory = [i \in Rows |-> "none"]
  /\ old = {}
  /\ session = [s \in Sessions |-> "new"] /\ context = [s \in Sessions |-> None]
  /\ silent = {} /\ seen = {}
  /\ stage = [s \in Sessions |-> "idle"] /\ work = [s \in Sessions |-> None]
  /\ overlap = FALSE

At(w, m) == {i \in Rows : scope[i] = w /\ mint[i] = m}
Held(w, m) == {i \in At(w, m) : status[i] = "RESERVED"}
OpenOn(w, m) == {i \in At(w, m) : trajectory[i] = "open"}

\* includeHistoric: every trajectory of the mint counts, whatever its context.
Samples(m) == {i \in Rows : mint[i] = m /\ trajectory[i] # "none"}
SampleCount == [m \in Mints |-> Cardinality(Samples(m))]

Loop(s, st, i) ==
  stage' = [stage EXCEPT ![s] = st] /\ work' = [work EXCEPT ![s] = i]

-----------------------------------------------------------------------------
(* reserveCandidate.                                                         *)

\* The owner is another session that has ended, whose pid is dead, or that has
\* been silent for as long as the reservation is old.
MayReclaim(s, i) ==
  /\ owner[i] # s
  /\ \/ session[owner[i]] = "ended"
     \/ owner[i] \notin seen
     \/ owner[i] \in silent /\ i \in old

\* Mutant: only the trajectories of this context are counted.
NextOrdinalInScope(w, m) ==
  Cardinality({i \in At(w, m) : trajectory[i] # "none"}) + 1

\* The code adds the RESERVED rows of the slot. There are none at this point:
\* each has refused the call or has just been abandoned.
NextOrdinal(w, m) == SampleCount[m] + 1

\* Mutant: abandoned attempts are forgotten, though their keys are taken.
PriorAttemptsLive(w, m, n) ==
  Cardinality({i \in At(w, m) : ordinal[i] = n /\ status[i] # "ABANDONED"})

PriorAttempts(w, m, n) == Cardinality({i \in At(w, m) : ordinal[i] = n})

\* The insert meets the unique ordinal of a row not abandoned, or the primary
\* key, which is made of scope, mint, ordinal and attempt: RACE_LOST.
Collides(w, m) ==
  LET n == NextOrdinal(w, m) IN
    \E i \in At(w, m) :
      /\ ordinal[i] = n
      /\ status[i] = "OPENED" \/ attempt[i] = PriorAttempts(w, m, n) + 1

\* Mutant: no look at the open trajectories of the slot.
AdmitsOverOpen(s, w, m) ==
  /\ \A i \in Held(w, m) : MayReclaim(s, i)
  /\ NextOrdinal(w, m) <= Cap
  /\ ~Collides(w, m)

\* No trajectory open, no reservation but reclaimable ones, below the cap.
Admits(s, w, m) ==
  /\ OpenOn(w, m) = {}
  /\ \A i \in Held(w, m) : MayReclaim(s, i)
  /\ NextOrdinal(w, m) <= Cap
  /\ ~Collides(w, m)

\* Reclaiming and inserting commit together. A refusal rolls both back, so it
\* is no step.
Reserve(s, m) ==
  LET w == context[s]
      n == NextOrdinal(w, m)
  IN
    /\ session[s] = "up" /\ stage[s] = "idle" /\ Admits(s, w, m)
    /\ \E i \in Rows :
         /\ status[i] = "none"
         /\ status' = [j \in Rows |-> IF j = i THEN "RESERVED"
                                      ELSE IF j \in Held(w, m) THEN "ABANDONED"
                                      ELSE status[j]]
         /\ scope' = [scope EXCEPT ![i] = w] /\ mint' = [mint EXCEPT ![i] = m]
         /\ owner' = [owner EXCEPT ![i] = s]
         /\ ordinal' = [ordinal EXCEPT ![i] = n]
         /\ attempt' = [attempt EXCEPT ![i] = PriorAttempts(w, m, n) + 1]
         /\ Loop(s, "reserved", i)
    /\ UNCHANGED <<trajectory, old, sessionVars, silent>>

-----------------------------------------------------------------------------
(* What becomes of the candidate.                                            *)

\* A size is chosen, or none could be: pricing threw and the ceiling is used.
\* The throw may be that of giving back a reservation reclaimed meanwhile.
ChooseSize(s) ==
  /\ session[s] = "up" /\ stage[s] = "reserved"
  /\ Loop(s, "opening", work[s])
  /\ UNCHANGED <<rowVars, old, sessionVars, silent>>

\* abandonReservation, wherever the candidate is refused: no size, no route,
\* or the transaction of the opening rolled back.
Abandon(s) ==
  /\ session[s] = "up" /\ stage[s] # "idle" /\ status[work[s]] = "RESERVED"
  /\ status' = [status EXCEPT ![work[s]] = "ABANDONED"]
  /\ Loop(s, "idle", None)
  /\ UNCHANGED <<scope, mint, owner, ordinal, attempt, trajectory, old, sessionVars, silent>>

\* Mutant: a reservation that changed nothing is bound all the same.
OpenTrajectoryUnchecked(s) ==
  /\ session[s] = "up" /\ stage[s] = "opening"
  /\ status' = [status EXCEPT ![work[s]] = IF @ = "RESERVED" THEN "OPENED" ELSE @]
  /\ trajectory' = [trajectory EXCEPT ![work[s]] = "open"]
  /\ Loop(s, "idle", None)
  /\ UNCHANGED <<scope, mint, owner, ordinal, attempt, old, sessionVars, silent>>

\* The trajectory, its context and resolveReservation in one transaction; a
\* reservation that is no longer RESERVED rolls the trajectory back.
OpenTrajectory(s) ==
  /\ session[s] = "up" /\ stage[s] = "opening" /\ status[work[s]] = "RESERVED"
  /\ status' = [status EXCEPT ![work[s]] = "OPENED"]
  /\ trajectory' = [trajectory EXCEPT ![work[s]] = "open"]
  /\ Loop(s, "idle", None)
  /\ UNCHANGED <<scope, mint, owner, ordinal, attempt, old, sessionVars, silent>>

\* Anything between the two transactions throws, the abandonment included. The
\* daemon lives on and the reservation stays as it is.
CycleThrows(s) ==
  /\ session[s] = "up" /\ stage[s] # "idle"
  /\ Loop(s, "idle", None)
  /\ UNCHANGED <<rowVars, old, sessionVars, silent>>

\* A mark pass, between candidates or in the yield after reserving, closes a
\* trajectory of the session's own context.
Settle(s, i) ==
  /\ session[s] = "up" /\ stage[s] \in {"idle", "reserved"}
  /\ trajectory[i] = "open" /\ scope[i] = context[s]
  /\ trajectory' = [trajectory EXCEPT ![i] = "SETTLED"]
  /\ UNCHANGED <<status, scope, mint, owner, ordinal, attempt, old, sessionVars, silent, loopVars>>

-----------------------------------------------------------------------------
(* Sessions, their processes, and time.                                      *)

Launch(s, w) ==
  /\ session[s] = "new"
  /\ session' = [session EXCEPT ![s] = "up"]
  /\ context' = [context EXCEPT ![s] = w]
  /\ seen' = seen \cup {s}
  /\ overlap' = (overlap \/ \E t \in Sessions : session[t] = "up" /\ context[t] # w)
  /\ UNCHANGED <<rowVars, old, silent, loopVars>>

\* The heartbeat is written once a cycle, however long the cycle takes.
Heartbeat(s) ==
  /\ session[s] = "up" /\ stage[s] = "idle" /\ s \in silent
  /\ silent' = silent \ {s}
  /\ UNCHANGED <<rowVars, old, sessionVars, loopVars>>

EndSession(s) ==
  /\ session[s] = "up" /\ stage[s] = "idle"
  /\ session' = [session EXCEPT ![s] = "ended"]
  /\ seen' = seen \ {s}
  /\ UNCHANGED <<rowVars, old, context, overlap, silent, loopVars>>

Crash(s) ==
  /\ session[s] = "up"
  /\ session' = [session EXCEPT ![s] = "dead"]
  /\ seen' = seen \ {s}
  /\ Loop(s, "idle", None)
  /\ UNCHANGED <<rowVars, old, context, overlap, silent>>

\* The host gives the pid of a dead session to another program, or takes it back.
PidReused(s) ==
  /\ session[s] = "dead"
  /\ seen' = IF s \in seen THEN seen \ {s} ELSE seen \cup {s}
  /\ UNCHANGED <<rowVars, old, session, context, overlap, silent, loopVars>>

FallSilent(s) ==
  /\ session[s] \in {"up", "dead"} /\ s \notin silent
  /\ silent' = silent \cup {s}
  /\ UNCHANGED <<rowVars, old, sessionVars, loopVars>>

GrowOld(i) ==
  /\ status[i] = "RESERVED" /\ i \notin old
  /\ old' = old \cup {i}
  /\ UNCHANGED <<rowVars, sessionVars, silent, loopVars>>

Session(s) ==
  \/ \E w \in Scopes : Launch(s, w)
  \/ \E m \in Mints : Reserve(s, m)
  \/ ChooseSize(s) \/ Abandon(s) \/ OpenTrajectory(s) \/ CycleThrows(s)
  \/ \E i \in Rows : Settle(s, i)
  \/ Heartbeat(s) \/ EndSession(s) \/ Crash(s) \/ PidReused(s) \/ FallSilent(s)

Next == (\E s \in Sessions : Session(s)) \/ \E i \in Rows : GrowOld(i)

Spec == Init /\ [][Next]_vars

-----------------------------------------------------------------------------
(* Properties.                                                               *)

\* A trajectory exists exactly when one reservation was bound to it: a session
\* whose reservation was reclaimed under its feet never leaves one behind.
EverySampleIsBound ==
  \A i \in Rows : trajectory[i] # "none" <=> status[i] = "OPENED"

\* "The cap is over the STUDY, not over this window." It holds as long as no
\* two sessions of different contexts overlap, which is what the collector
\* lock is for (HardCap of LockedSampling); sessions of one context may overlap.
StudyCap ==
  ~overlap => \A m \in Mints : SampleCount[m] <= Cap

\* What the counting admits the unique indexes accept: a mint is never refused
\* as RACE_LOST because of rows that earlier attempts left behind.
NeverRaceLost ==
  \A w \in Scopes, m \in Mints : NextOrdinal(w, m) <= Cap => ~Collides(w, m)

\* "The reservation is reclaimable by the stale rule regardless": a row that
\* nobody works on any more, once it and its owner have been still for as long
\* as the rule asks, does not refuse a session of its context.
LeftoversReclaimable ==
  \A i \in Rows, s \in Sessions :
    /\ status[i] = "RESERVED" /\ i \in old /\ owner[i] \in silent
    /\ \A t \in Sessions : work[t] # i
    /\ session[s] = "up" /\ context[s] = scope[i]
    => MayReclaim(s, i)

Phase(w, m) ==
  IF OpenOn(w, m) # {} THEN "open" ELSE IF Held(w, m) # {} THEN "reserved" ELSE "free"

SlotPhase == [x \in Scopes \X Mints |-> Phase(x[1], x[2])]

Slot == INSTANCE SamplingSlot WITH
  phase <- SlotPhase,
  samples <- SampleCount

\* However sessions overlap, die, hang or rob each other, each slot goes
\* through the phases of SamplingSlot: one reservation or one open trajectory
\* at a time, and each sample counted once, against the cap.
SlotSpec == Slot!Spec

-----------------------------------------------------------------------------
(* Inductive strengthening, proved in ReservationProofs.                     *)

\* Each slot is held by at most one reservation or one open trajectory.
SlotInv ==
  \A i, j \in Rows :
    /\ scope[i] = scope[j] /\ mint[i] = mint[j]
    /\ status[i] = "RESERVED" \/ trajectory[i] = "open"
    /\ status[j] = "RESERVED" \/ trajectory[j] = "open"
    => i = j

RowInv ==
  \A i \in Rows : status[i] # "none" => scope[i] \in Scopes /\ mint[i] \in Mints

\* A session at work holds a row of its own context, which it owned first.
WorkInv ==
  \A s \in Sessions :
    /\ session[s] = "up" => context[s] \in Scopes
    /\ stage[s] # "idle" =>
         /\ session[s] = "up" /\ work[s] \in Rows
         /\ status[work[s]] # "none" /\ scope[work[s]] = context[s]

\* While contexts do not overlap, whoever still holds its reservation has room
\* for one more sample of the mint.
CapInv ==
  ~overlap =>
    /\ \A s, t \in Sessions : session[s] = "up" /\ session[t] = "up" => context[s] = context[t]
    /\ \A s \in Sessions : stage[s] # "idle" /\ status[work[s]] = "RESERVED"
         => SampleCount[mint[work[s]]] < Cap

ReservationInv ==
  TypeOK /\ RowInv /\ EverySampleIsBound /\ SlotInv /\ WorkInv /\ CapInv /\ StudyCap

\* Attempts at an ordinal are numbered within their count, and a sampled row
\* has an ordinal that has been counted.
NumberInv ==
  /\ \A i \in Rows : status[i] = "none" => scope[i] = None
  /\ \A w \in Scopes, m \in Mints : \A i \in At(w, m) :
       /\ ordinal[i] <= SampleCount[m] + 1
       /\ status[i] = "OPENED" => ordinal[i] <= SampleCount[m]
       /\ \A n \in 0..Cap : ordinal[i] = n => attempt[i] <= PriorAttempts(w, m, n)
=============================================================================
