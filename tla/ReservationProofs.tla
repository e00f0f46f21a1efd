-------------------------- MODULE ReservationProofs --------------------------
(***************************************************************************)
(* Proofs about Reservation, for any number of sessions, contexts, mints    *)
(* and reservations and any cap.                                            *)
(***************************************************************************)
EXTENDS Reservation, FiniteSetTheorems, TLAPS

\* The samples of a mint can be counted.
LEMMA SamplesCounted ==
  /\ \A m \in Mints : IsFiniteSet(Samples(m))
  /\ SampleCount \in [Mints -> Nat]
<1>1. ASSUME NEW m \in Mints PROVE IsFiniteSet(Samples(m))
  <2>1. Samples(m) \subseteq Rows BY DEF Samples
  <2>2. QED BY <2>1, FS_Subset, ReservationAssumption
<1>2. QED BY <1>1, FS_CardinalityType DEF SampleCount

\* A step that neither opens a trajectory nor renames a sampled row counts alike.
LEMMA SamplesKept ==
  ASSUME mint' = mint, \A i \in Rows : trajectory'[i] = "none" <=> trajectory[i] = "none"
  PROVE  SampleCount' = SampleCount
<1>1. \A m \in Mints : Samples(m)' = Samples(m) BY DEF Samples
<1>2. QED BY <1>1 DEF SampleCount

\* The earlier attempts at a slot can be counted.
LEMMA AttemptsCounted ==
  ASSUME NEW w, NEW m, NEW n
  PROVE  PriorAttempts(w, m, n) \in Nat
<1> DEFINE S == {i \in At(w, m) : ordinal[i] = n}
<1>1. S \subseteq Rows BY DEF At
<1>2. IsFiniteSet(S) BY <1>1, FS_Subset, ReservationAssumption
<1>3. QED BY <1>2, FS_CardinalityType DEF PriorAttempts

\* An admitted ordinal is between 1 and the cap.
LEMMA OrdinalInCap ==
  ASSUME NEW s, NEW w, NEW m \in Mints, Admits(s, w, m)
  PROVE  NextOrdinal(w, m) \in 0..Cap /\ SampleCount[m] < Cap
BY SamplesCounted, ReservationAssumption DEF Admits, NextOrdinal

-----------------------------------------------------------------------------
(* Types.                                                                    *)

\* The initial state has the types.
LEMMA TypeStart == ASSUME Init PROVE TypeOK
<1>1. 0 \in 0..Cap /\ 0 \in Nat BY ReservationAssumption
<1>2. ordinal \in [Rows -> 0..Cap] /\ attempt \in [Rows -> Nat]
  BY <1>1 DEF Init
<1>3. QED BY <1>2 DEF Init, TypeOK, Stages

\* A step of a session keeps the types; ordinals stay within the cap.
LEMMA TypeStep ==
  ASSUME TypeOK, [Next]_vars
  PROVE  TypeOK'
<1> USE DEF TypeOK, rowVars, sessionVars, loopVars, Loop, Stages
<1>1. ASSUME NEW s \in Sessions, NEW w \in Scopes, Launch(s, w) PROVE TypeOK'
  BY <1>1 DEF Launch
<1>2. ASSUME NEW s \in Sessions, NEW m \in Mints, Reserve(s, m) PROVE TypeOK'
  <2> DEFINE w == context[s]
             n == NextOrdinal(w, m)
             a == PriorAttempts(w, m, n) + 1
  <2>1. session[s] = "up" /\ Admits(s, w, m) BY <1>2 DEF Reserve
  <2>2. n \in 0..Cap BY <2>1, OrdinalInCap
  <2>3. a \in Nat BY AttemptsCounted
  <2>4. PICK i \in Rows :
          /\ status' = [j \in Rows |-> IF j = i THEN "RESERVED"
                                       ELSE IF j \in Held(w, m) THEN "ABANDONED"
                                       ELSE status[j]]
          /\ scope' = [scope EXCEPT ![i] = w] /\ mint' = [mint EXCEPT ![i] = m]
          /\ owner' = [owner EXCEPT ![i] = s]
          /\ ordinal' = [ordinal EXCEPT ![i] = n]
          /\ attempt' = [attempt EXCEPT ![i] = a]
          /\ Loop(s, "reserved", i)
    BY <1>2 DEF Reserve
  <2>5. UNCHANGED <<trajectory, old, sessionVars, silent>> BY <1>2 DEF Reserve
  <2> HIDE DEF n, a
  <2>6. QED BY <2>2, <2>3, <2>4, <2>5
<1>3. ASSUME NEW s \in Sessions, ChooseSize(s) PROVE TypeOK'
  BY <1>3 DEF ChooseSize
<1>4. ASSUME NEW s \in Sessions, Abandon(s) PROVE TypeOK'
  BY <1>4 DEF Abandon
<1>5. ASSUME NEW s \in Sessions, OpenTrajectory(s) PROVE TypeOK'
  BY <1>5 DEF OpenTrajectory
<1>6. ASSUME NEW s \in Sessions, CycleThrows(s) PROVE TypeOK'
  BY <1>6 DEF CycleThrows
<1>7. ASSUME NEW s \in Sessions, NEW i \in Rows, Settle(s, i) PROVE TypeOK'
  BY <1>7 DEF Settle
<1>8. ASSUME NEW s \in Sessions, Heartbeat(s) \/ EndSession(s) \/ PidReused(s) \/ FallSilent(s)
      PROVE  TypeOK'
  BY <1>8 DEF Heartbeat, EndSession, PidReused, FallSilent
<1>9. ASSUME NEW s \in Sessions, Crash(s) PROVE TypeOK'
  BY <1>9 DEF Crash
<1>10. ASSUME NEW i \in Rows, GrowOld(i) PROVE TypeOK'
  BY <1>10 DEF GrowOld
<1>11. CASE UNCHANGED vars
  BY <1>11 DEF vars
<1>12. QED
  BY <1>1, <1>2, <1>3, <1>4, <1>5, <1>6, <1>7, <1>8, <1>9, <1>10, <1>11 DEF Next, Session

\* Every column, session and program counter keeps its type, and no row is
\* numbered above the cap, whatever sessions do.
THEOREM TypeCorrect == Spec => []TypeOK
<1>1. Init => TypeOK
  BY TypeStart
<1>2. TypeOK /\ [Next]_vars => TypeOK'
  BY TypeStep
<1>3. QED BY <1>1, <1>2, PTL DEF Spec

-----------------------------------------------------------------------------
(* The invariant.                                                            *)

\* What a reservation does, stated without its existential: row i is new,
\* the slot was free of anything but reclaimed rows, and nothing was sampled.
LEMMA ReserveFacts ==
  ASSUME ReservationInv, NEW s \in Sessions, NEW m \in Mints, Reserve(s, m)
  PROVE  \E i \in Rows :
           /\ status[i] = "none" /\ trajectory[i] = "none"
           /\ status' = [j \in Rows |-> IF j = i THEN "RESERVED"
                                        ELSE IF j \in Held(context[s], m) THEN "ABANDONED"
                                        ELSE status[j]]
           /\ scope' = [scope EXCEPT ![i] = context[s]] /\ mint' = [mint EXCEPT ![i] = m]
           /\ Loop(s, "reserved", i)
           /\ OpenOn(context[s], m) = {}
           /\ session[s] = "up" /\ context[s] \in Scopes /\ stage[s] = "idle"
           /\ SampleCount[m] < Cap
           /\ UNCHANGED <<trajectory, session, context, overlap, SampleCount>>
<1>1. PICK i \in Rows :
        /\ status[i] = "none"
        /\ status' = [j \in Rows |-> IF j = i THEN "RESERVED"
                                     ELSE IF j \in Held(context[s], m) THEN "ABANDONED"
                                     ELSE status[j]]
        /\ scope' = [scope EXCEPT ![i] = context[s]] /\ mint' = [mint EXCEPT ![i] = m]
        /\ Loop(s, "reserved", i)
  BY DEF Reserve
<1>2. session[s] = "up" /\ Admits(s, context[s], m) /\ stage[s] = "idle"
  BY DEF Reserve
<1>3. UNCHANGED <<trajectory, session, context, overlap>>
  BY DEF Reserve, sessionVars
<1>4. trajectory[i] = "none"
  BY <1>1 DEF ReservationInv, EverySampleIsBound
<1>5. SampleCount' = SampleCount
  <2>1. \A x \in Mints : Samples(x)' = Samples(x)
    BY <1>1, <1>3, <1>4 DEF Samples, ReservationInv, TypeOK
  <2>2. QED BY <2>1 DEF SampleCount
<1>6. SampleCount[m] < Cap
  BY <1>2, OrdinalInCap
<1>7. OpenOn(context[s], m) = {} /\ context[s] \in Scopes
  BY <1>2 DEF Admits, ReservationInv, WorkInv
<1>8. QED BY <1>1, <1>2, <1>3, <1>4, <1>5, <1>6, <1>7

\* What opening a trajectory does: one more sample of one mint.
LEMMA OpenFacts ==
  ASSUME ReservationInv, NEW s \in Sessions, OpenTrajectory(s)
  PROVE  \E i \in Rows, m \in Mints :
           /\ i = work[s] /\ m = mint[i] /\ status[i] = "RESERVED" /\ trajectory[i] = "none"
           /\ scope[i] = context[s] /\ context[s] \in Scopes
           /\ SampleCount' = [SampleCount EXCEPT ![m] = @ + 1]
<1>1. /\ status[work[s]] = "RESERVED" /\ stage[s] # "idle" /\ session[s] = "up"
      /\ trajectory' = [trajectory EXCEPT ![work[s]] = "open"] /\ mint' = mint
  BY DEF OpenTrajectory
<1>2. PICK i \in Rows : i = work[s] /\ scope[i] = context[s] /\ context[s] \in Scopes
  BY <1>1 DEF ReservationInv, WorkInv
<1>3. trajectory[i] = "none"
  BY <1>1, <1>2 DEF ReservationInv, EverySampleIsBound
<1>4. PICK m \in Mints : m = mint[i]
  BY <1>1, <1>2 DEF ReservationInv, RowInv
<1>5. Samples(m)' = Samples(m) \cup {i} /\ i \notin Samples(m)
  BY <1>1, <1>2, <1>3, <1>4 DEF Samples, ReservationInv, TypeOK
<1>6. \A x \in Mints \ {m} : Samples(x)' = Samples(x)
  BY <1>1, <1>2, <1>3, <1>4 DEF Samples, ReservationInv, TypeOK
<1>7. Cardinality(Samples(m) \cup {i}) = Cardinality(Samples(m)) + 1
  BY <1>5, SamplesCounted, FS_AddElement
<1>8. SampleCount' = [SampleCount EXCEPT ![m] = @ + 1]
  BY <1>5, <1>6, <1>7 DEF SampleCount
<1>9. QED BY <1>1, <1>2, <1>3, <1>4, <1>8

\* A session at work is left with its row by everything that is not its own.
LEMMA InvStep ==
  ASSUME ReservationInv, [Next]_vars
  PROVE  RowInv' /\ EverySampleIsBound' /\ SlotInv' /\ WorkInv'
<1> DEFINE P == RowInv /\ EverySampleIsBound /\ SlotInv /\ WorkInv
<1> USE DEF rowVars, sessionVars, loopVars, Loop
<1> TypeOK /\ RowInv /\ EverySampleIsBound /\ SlotInv /\ WorkInv
  BY DEF ReservationInv
<1>1. ASSUME NEW s \in Sessions, NEW w \in Scopes, Launch(s, w) PROVE P'
  BY <1>1 DEF Launch, TypeOK, RowInv, EverySampleIsBound, SlotInv, WorkInv
<1>2. ASSUME NEW s \in Sessions, NEW m \in Mints, Reserve(s, m) PROVE P'
  <2>1. PICK i \in Rows :
          /\ status[i] = "none" /\ trajectory[i] = "none"
          /\ status' = [j \in Rows |-> IF j = i THEN "RESERVED"
                                       ELSE IF j \in Held(context[s], m) THEN "ABANDONED"
                                       ELSE status[j]]
          /\ scope' = [scope EXCEPT ![i] = context[s]] /\ mint' = [mint EXCEPT ![i] = m]
          /\ Loop(s, "reserved", i)
          /\ OpenOn(context[s], m) = {}
          /\ session[s] = "up" /\ context[s] \in Scopes /\ stage[s] = "idle"
          /\ UNCHANGED <<trajectory, session, context>>
    BY <1>2, ReserveFacts
  <2>2. RowInv' BY <2>1 DEF TypeOK, RowInv, Held, At
  <2>3. EverySampleIsBound'
    BY <2>1 DEF TypeOK, EverySampleIsBound, Held
  <2>4. SlotInv'
    BY <2>1 DEF TypeOK, SlotInv, Held, OpenOn, At
  <2>5. WorkInv'
    BY <2>1, ReservationAssumption DEF TypeOK, WorkInv
  <2>6. QED BY <2>2, <2>3, <2>4, <2>5
<1>3. ASSUME NEW s \in Sessions, ChooseSize(s) PROVE P'
  BY <1>3 DEF ChooseSize, TypeOK, RowInv, EverySampleIsBound, SlotInv, WorkInv
<1>4. ASSUME NEW s \in Sessions, Abandon(s) PROVE P'
  BY <1>4 DEF Abandon, TypeOK, RowInv, EverySampleIsBound, SlotInv, WorkInv
<1>5. ASSUME NEW s \in Sessions, OpenTrajectory(s) PROVE P'
  BY <1>5 DEF OpenTrajectory, TypeOK, RowInv, EverySampleIsBound, SlotInv, WorkInv
<1>6. ASSUME NEW s \in Sessions, CycleThrows(s) PROVE P'
  BY <1>6 DEF CycleThrows, TypeOK, RowInv, EverySampleIsBound, SlotInv, WorkInv
<1>7. ASSUME NEW s \in Sessions, NEW i \in Rows, Settle(s, i) PROVE P'
  BY <1>7 DEF Settle, TypeOK, RowInv, EverySampleIsBound, SlotInv, WorkInv
<1>8. ASSUME NEW s \in Sessions, Heartbeat(s) \/ EndSession(s) \/ PidReused(s) \/ FallSilent(s)
      PROVE  P'
  BY <1>8 DEF Heartbeat, EndSession, PidReused, FallSilent,
              TypeOK, RowInv, EverySampleIsBound, SlotInv, WorkInv
<1>9. ASSUME NEW s \in Sessions, Crash(s) PROVE P'
  BY <1>9 DEF Crash, TypeOK, RowInv, EverySampleIsBound, SlotInv, WorkInv
<1>10. ASSUME NEW i \in Rows, GrowOld(i) PROVE P'
  BY <1>10 DEF GrowOld, RowInv, EverySampleIsBound, SlotInv, WorkInv
<1>11. CASE UNCHANGED vars
  BY <1>11 DEF vars, RowInv, EverySampleIsBound, SlotInv, WorkInv
<1>12. QED
  BY <1>1, <1>2, <1>3, <1>4, <1>5, <1>6, <1>7, <1>8, <1>9, <1>10, <1>11 DEF Next, Session

\* While contexts do not overlap no step makes the samples of a mint exceed
\* the cap, nor takes the room of a reservation that is still held.
LEMMA CapStep ==
  ASSUME ReservationInv, [Next]_vars
  PROVE  CapInv' /\ StudyCap'
<1> USE DEF rowVars, sessionVars, loopVars, Loop
<1> /\ TypeOK /\ RowInv /\ EverySampleIsBound /\ SlotInv /\ WorkInv /\ CapInv /\ StudyCap
    /\ SampleCount \in [Mints -> Nat] /\ Cap \in Nat
  BY SamplesCounted, ReservationAssumption DEF ReservationInv
<1>1. ASSUME NEW s \in Sessions, NEW w \in Scopes, Launch(s, w)
      PROVE  CapInv' /\ StudyCap'
  <2>1. SampleCount' = SampleCount BY <1>1, SamplesKept DEF Launch
  <2>2. StudyCap' BY <1>1, <2>1 DEF Launch, StudyCap
  <2>3. /\ session' = [session EXCEPT ![s] = "up"] /\ context' = [context EXCEPT ![s] = w]
        /\ overlap' = (overlap \/ \E t \in Sessions : session[t] = "up" /\ context[t] # w)
        /\ UNCHANGED <<status, mint, stage, work>>
    BY <1>1 DEF Launch
  <2>4. CapInv'
    BY ONLY <2>1, <2>3, TypeOK, CapInv DEF CapInv, TypeOK
  <2>5. QED BY <2>2, <2>4
<1>2. ASSUME NEW s \in Sessions, NEW m \in Mints, Reserve(s, m)
      PROVE  CapInv' /\ StudyCap'
  <2>1. PICK i \in Rows :
          /\ status[i] = "none"
          /\ status' = [j \in Rows |-> IF j = i THEN "RESERVED"
                                       ELSE IF j \in Held(context[s], m) THEN "ABANDONED"
                                       ELSE status[j]]
          /\ mint' = [mint EXCEPT ![i] = m]
          /\ Loop(s, "reserved", i)
          /\ SampleCount[m] < Cap
          /\ UNCHANGED <<session, context, overlap, SampleCount>>
    BY <1>2, ReserveFacts
  <2>2. QED BY <2>1 DEF TypeOK, WorkInv, CapInv, StudyCap, Held
<1>3. ASSUME NEW s \in Sessions, ChooseSize(s) \/ Abandon(s) \/ CycleThrows(s) \/ Crash(s)
      PROVE  CapInv' /\ StudyCap'
  <2>1. SampleCount' = SampleCount
    BY <1>3, SamplesKept DEF ChooseSize, Abandon, CycleThrows, Crash
  <2>2. QED
    BY <1>3, <2>1 DEF ChooseSize, Abandon, CycleThrows, Crash, TypeOK, WorkInv, CapInv, StudyCap
<1>4. ASSUME NEW s \in Sessions, OpenTrajectory(s)
      PROVE  CapInv' /\ StudyCap'
  <2>1. PICK i \in Rows, m \in Mints :
          /\ i = work[s] /\ m = mint[i] /\ status[i] = "RESERVED" /\ trajectory[i] = "none"
          /\ scope[i] = context[s]
          /\ SampleCount' = [SampleCount EXCEPT ![m] = @ + 1]
    BY <1>4, OpenFacts
  <2>2. /\ stage[s] # "idle" /\ session[s] = "up"
        /\ status' = [status EXCEPT ![i] = "OPENED"]
        /\ Loop(s, "idle", None)
        /\ UNCHANGED <<session, context, overlap, scope, mint>>
    BY <1>4, <2>1 DEF OpenTrajectory
  <2>3. ~overlap => SampleCount[m] < Cap
    BY <2>1, <2>2 DEF CapInv
  <2>4. StudyCap'
    BY <2>1, <2>2, <2>3 DEF StudyCap
  <2>5. ASSUME ~overlap', NEW t \in Sessions, stage'[t] # "idle", status'[work'[t]] = "RESERVED"
        PROVE  SampleCount'[mint'[work'[t]]] < Cap
    <3>1. t # s /\ stage[t] # "idle" /\ work'[t] = work[t]
      BY <2>2, <2>5 DEF TypeOK
    <3>2. session[t] = "up" /\ work[t] \in Rows /\ scope[work[t]] = context[t]
      BY <3>1 DEF WorkInv
    <3>3. work[t] # i /\ status[work[t]] = "RESERVED"
      BY <2>2, <2>5, <3>1, <3>2 DEF TypeOK
    <3>4. scope[work[t]] = scope[i]
      BY <2>1, <2>2, <2>5, <3>2 DEF CapInv
    <3>5. mint[work[t]] # m
      BY <2>1, <3>2, <3>3, <3>4 DEF SlotInv
    <3>6. SampleCount[mint[work[t]]] < Cap /\ mint[work[t]] \in Mints
      BY <2>2, <2>5, <3>1, <3>2, <3>3 DEF CapInv, RowInv
    <3>7. QED BY <2>1, <2>2, <3>1, <3>5, <3>6
  <2>6. CapInv'
    BY <2>2, <2>5 DEF CapInv
  <2>7. QED BY <2>4, <2>6
<1>5. ASSUME NEW s \in Sessions, NEW i \in Rows, Settle(s, i)
      PROVE  CapInv' /\ StudyCap'
  <2>1. SampleCount' = SampleCount BY <1>5, SamplesKept DEF Settle, TypeOK
  <2>2. QED BY <1>5, <2>1 DEF Settle, CapInv, StudyCap
<1>6. ASSUME NEW s \in Sessions, Heartbeat(s) \/ EndSession(s) \/ PidReused(s) \/ FallSilent(s)
      PROVE  CapInv' /\ StudyCap'
  <2>1. SampleCount' = SampleCount
    BY <1>6, SamplesKept DEF Heartbeat, EndSession, PidReused, FallSilent
  <2>2. QED
    BY <1>6, <2>1 DEF Heartbeat, EndSession, PidReused, FallSilent, TypeOK, CapInv, StudyCap
<1>7. ASSUME NEW i \in Rows, GrowOld(i) PROVE CapInv' /\ StudyCap'
  <2>1. SampleCount' = SampleCount BY <1>7, SamplesKept DEF GrowOld
  <2>2. QED BY <1>7, <2>1 DEF GrowOld, CapInv, StudyCap
<1>8. CASE UNCHANGED vars
  <2>1. SampleCount' = SampleCount BY <1>8, SamplesKept DEF vars
  <2>2. QED BY <1>8, <2>1 DEF vars, CapInv, StudyCap
<1>9. QED
  BY <1>1, <1>2, <1>3, <1>4, <1>5, <1>6, <1>7, <1>8 DEF Next, Session

\* The invariant of the reservations: types, one holder per slot, every
\* trajectory bound, room under the cap for whoever still holds its row.
THEOREM ReservationsHold == Spec => []ReservationInv
<1>1. ASSUME Init PROVE ReservationInv
  <2>1. TypeOK /\ RowInv /\ EverySampleIsBound /\ SlotInv /\ WorkInv
    BY <1>1, TypeStart DEF Init, RowInv, EverySampleIsBound, SlotInv, WorkInv
  <2>2. \A m \in Mints : Samples(m) = {}
    BY <1>1 DEF Init, Samples
  <2>3. \A m \in Mints : SampleCount[m] = 0
    BY <2>2, FS_EmptySet DEF SampleCount
  <2>4. CapInv /\ StudyCap
    BY <1>1, <2>3, ReservationAssumption DEF Init, CapInv, StudyCap
  <2>5. QED BY <2>1, <2>4 DEF ReservationInv
<1>2. ReservationInv /\ [Next]_vars => ReservationInv'
  BY TypeStep, InvStep, CapStep DEF ReservationInv
<1>3. QED BY <1>1, <1>2, PTL DEF Spec

\* Every trajectory of the study is bound to exactly the reservation that
\* opened it, also when another session reclaimed that reservation meanwhile.
THEOREM SamplesAreBound == Spec => []EverySampleIsBound
BY ReservationsHold, PTL DEF ReservationInv

\* No mint is sampled beyond the cap of the study while no two sessions of
\* different contexts are up together.
THEOREM CapHolds == Spec => []StudyCap
BY ReservationsHold, PTL DEF ReservationInv

-----------------------------------------------------------------------------
(* Numbering: what is counted is what the unique indexes accept.             *)

\* A step that renames and renumbers no row counts the same attempts.
LEMMA AttemptsKept ==
  ASSUME UNCHANGED <<scope, mint, ordinal>>, NEW w, NEW m, NEW n
  PROVE  PriorAttempts(w, m, n)' = PriorAttempts(w, m, n)
BY DEF PriorAttempts, At

\* Only a reservation numbers a row, and only an opening counts a sample.
LEMMA NumberFrame ==
  ASSUME TypeOK, [Next]_vars
  PROVE  \/ \E s \in Sessions, m \in Mints : Reserve(s, m)
         \/ \E s \in Sessions : OpenTrajectory(s)
         \/ /\ UNCHANGED <<scope, mint, ordinal, attempt, SampleCount>>
            /\ \A i \in Rows : \/ status'[i] = status[i]
                               \/ status[i] = "RESERVED" /\ status'[i] = "ABANDONED"
<1> USE DEF rowVars, TypeOK
<1>1. ASSUME NEW s \in Sessions, Abandon(s)
      PROVE  /\ UNCHANGED <<scope, mint, ordinal, attempt, trajectory>>
             /\ \A i \in Rows : \/ status'[i] = status[i]
                                \/ status[i] = "RESERVED" /\ status'[i] = "ABANDONED"
  BY <1>1 DEF Abandon
<1>2. ASSUME NEW s \in Sessions, NEW i \in Rows, Settle(s, i)
      PROVE  /\ UNCHANGED <<scope, mint, ordinal, attempt, status>>
             /\ \A j \in Rows : trajectory'[j] = "none" <=> trajectory[j] = "none"
  BY <1>2 DEF Settle
<1>3. ASSUME NEW s \in Sessions,
             \/ \E w \in Scopes : Launch(s, w)
             \/ ChooseSize(s) \/ CycleThrows(s) \/ Heartbeat(s) \/ EndSession(s) \/ Crash(s)
             \/ PidReused(s) \/ FallSilent(s)
      PROVE  UNCHANGED rowVars
  BY <1>3 DEF Launch, ChooseSize, CycleThrows, Heartbeat, EndSession, Crash, PidReused, FallSilent
<1>4. CASE (\E i \in Rows : GrowOld(i)) \/ UNCHANGED vars
  BY <1>4, SamplesKept DEF GrowOld, vars
<1>5. QED BY <1>1, <1>2, <1>3, <1>4, SamplesKept DEF Next, Session

\* A reservation takes the next number, and every count but its own stays.
LEMMA ReserveNumbers ==
  ASSUME ReservationInv, NumberInv, NEW s \in Sessions, NEW m \in Mints, Reserve(s, m)
  PROVE  NumberInv'
<1>1. /\ TypeOK /\ RowInv /\ EverySampleIsBound /\ context[s] \in Scopes
      /\ SampleCount \in [Mints -> Nat] /\ SampleCount' = SampleCount
  BY ReserveFacts, SamplesCounted DEF ReservationInv
<1>2. PICK w \in Scopes, n \in 0..Cap : w = context[s] /\ n = SampleCount[m] + 1
  BY <1>1, OrdinalInCap, ReservationAssumption DEF Reserve, NextOrdinal
<1>3. PICK i \in Rows :
        /\ status[i] = "none"
        /\ status' = [j \in Rows |-> IF j = i THEN "RESERVED"
                                     ELSE IF j \in Held(w, m) THEN "ABANDONED"
                                     ELSE status[j]]
        /\ scope' = [scope EXCEPT ![i] = w] /\ mint' = [mint EXCEPT ![i] = m]
        /\ ordinal' = [ordinal EXCEPT ![i] = n]
        /\ attempt' = [attempt EXCEPT ![i] = PriorAttempts(w, m, n) + 1]
  <2>1. context[s] = w /\ NextOrdinal(context[s], m) = n
    BY <1>2 DEF NextOrdinal
  <2>2. PICK i \in Rows :
          /\ status[i] = "none"
          /\ status' = [j \in Rows |-> IF j = i THEN "RESERVED"
                                       ELSE IF j \in Held(context[s], m) THEN "ABANDONED"
                                       ELSE status[j]]
          /\ scope' = [scope EXCEPT ![i] = context[s]] /\ mint' = [mint EXCEPT ![i] = m]
          /\ ordinal' = [ordinal EXCEPT ![i] = NextOrdinal(context[s], m)]
          /\ attempt' = [attempt EXCEPT ![i] =
                           PriorAttempts(context[s], m, NextOrdinal(context[s], m)) + 1]
    BY DEF Reserve
  <2>3. QED BY <2>1, <2>2
<1>4. scope[i] = None /\ \A v \in Scopes : v # None
  BY <1>3, ReservationAssumption DEF NumberInv
<1> DEFINE S(v, x, k) == {j \in At(v, x) : ordinal[j] = k}
<1>5. S(w, m, n)' = S(w, m, n) \cup {i}
  BY <1>1, <1>3, <1>4 DEF At, TypeOK
<1>6. PriorAttempts(w, m, n)' = PriorAttempts(w, m, n) + 1
  <2>1. S(w, m, n) \subseteq Rows /\ i \notin S(w, m, n)
    BY <1>4 DEF At
  <2>2. IsFiniteSet(S(w, m, n))
    BY <2>1, FS_Subset, ReservationAssumption
  <2>3. Cardinality(S(w, m, n) \cup {i}) = Cardinality(S(w, m, n)) + 1
    BY <2>1, <2>2, FS_AddElement
  <2>4. QED BY <1>5, <2>3 DEF PriorAttempts
<1>7. ASSUME NEW v \in Scopes, NEW x \in Mints, NEW k \in 0..Cap, v # w \/ x # m \/ k # n
      PROVE  PriorAttempts(v, x, k)' = PriorAttempts(v, x, k)
  <2>1. S(v, x, k)' = S(v, x, k) BY <1>1, <1>3, <1>4, <1>7 DEF At, TypeOK
  <2>2. QED BY <2>1 DEF PriorAttempts
<1>8. ASSUME NEW v \in Scopes, NEW x \in Mints, NEW j \in At(v, x)'
      PROVE  /\ ordinal'[j] <= SampleCount'[x] + 1
             /\ status'[j] = "OPENED" => ordinal'[j] <= SampleCount'[x]
             /\ \A k \in 0..Cap : ordinal'[j] = k => attempt'[j] <= PriorAttempts(v, x, k)'
  <2>1. CASE j = i
    <3>1. /\ status'[j] = "RESERVED" /\ v = w /\ x = m /\ ordinal'[j] = n
          /\ attempt'[j] = PriorAttempts(w, m, n) + 1
      BY <1>1, <1>3, <1>8, <2>1 DEF TypeOK, At
    <3>2. n <= SampleCount'[m] + 1 /\ PriorAttempts(w, m, n) + 1 \in Nat
      BY <1>1, <1>2, AttemptsCounted
    <3>3. QED BY <1>6, <3>1, <3>2
  <2>2. CASE j # i
    <3>1. /\ j \in Rows /\ j \in At(v, x)
          /\ status'[j] = "OPENED" => status[j] = "OPENED"
          /\ ordinal'[j] = ordinal[j] /\ attempt'[j] = attempt[j] /\ attempt[j] \in Nat
      BY <1>1, <1>3, <1>8, <2>2 DEF TypeOK, Held, At
    <3>2. ASSUME NEW k \in 0..Cap, ordinal[j] = k PROVE attempt[j] <= PriorAttempts(v, x, k)'
      <4>1. attempt[j] <= PriorAttempts(v, x, k)
        BY <3>1, <3>2 DEF NumberInv
      <4>2. PriorAttempts(v, x, k) \in Nat
        BY AttemptsCounted
      <4>3. QED BY <1>6, <1>7, <3>1, <4>1, <4>2
    <3>3. QED BY <1>1, <3>1, <3>2 DEF NumberInv
  <2>3. QED BY <2>1, <2>2
<1>9. \A j \in Rows : status'[j] = "none" => scope'[j] = None
  BY <1>1, <1>3 DEF NumberInv, TypeOK
<1>10. QED BY <1>8, <1>9 DEF NumberInv

\* Opening makes the ordinal of the reservation one that has been counted.
LEMMA OpenNumbers ==
  ASSUME ReservationInv, NumberInv, NEW s \in Sessions, OpenTrajectory(s)
  PROVE  NumberInv'
<1>1. TypeOK /\ RowInv /\ SampleCount \in [Mints -> Nat]
  BY SamplesCounted DEF ReservationInv
<1>2. PICK i \in Rows, m \in Mints :
        /\ i = work[s] /\ m = mint[i]
        /\ SampleCount' = [SampleCount EXCEPT ![m] = @ + 1]
  BY OpenFacts
<1>3. /\ UNCHANGED <<scope, mint, ordinal, attempt>>
      /\ status' = [status EXCEPT ![i] = "OPENED"]
  BY <1>2 DEF OpenTrajectory
<1>4. \A v \in Scopes, x \in Mints, k \in 0..Cap : PriorAttempts(v, x, k)' = PriorAttempts(v, x, k)
  BY <1>3, AttemptsKept
<1>5. \A x \in Mints : SampleCount'[x] >= SampleCount[x] /\ SampleCount'[m] = SampleCount[m] + 1
  BY <1>1, <1>2
<1>6. ASSUME NEW v \in Scopes, NEW x \in Mints, NEW j \in At(v, x)
      PROVE  /\ ordinal[j] <= SampleCount'[x] + 1
             /\ status'[j] = "OPENED" => ordinal[j] <= SampleCount'[x]
  <2>1. j \in Rows /\ mint[j] = x /\ ordinal[j] \in Nat
    BY <1>1, <1>6, ReservationAssumption DEF At, TypeOK
  <2>2. /\ ordinal[j] <= SampleCount[x] + 1
        /\ status[j] = "OPENED" => ordinal[j] <= SampleCount[x]
        /\ SampleCount[x] \in Nat /\ SampleCount'[x] \in Nat
    BY <1>1, <1>2, <1>6 DEF NumberInv
  <2>3. CASE j = i
    BY <1>2, <1>5, <2>1, <2>2, <2>3
  <2>4. CASE j # i
    <3>1. status'[j] = status[j] BY <1>1, <1>3, <2>1, <2>4 DEF TypeOK
    <3>2. QED BY <1>5, <2>1, <2>2, <3>1
  <2>5. QED BY <2>3, <2>4
<1>7. \A v \in Scopes, x \in Mints : At(v, x)' = At(v, x)
  BY <1>3 DEF At
<1>8. \A j \in Rows : status'[j] = "none" => scope'[j] = None
  BY <1>1, <1>3 DEF NumberInv, TypeOK
<1>9. QED BY <1>3, <1>4, <1>6, <1>7, <1>8 DEF NumberInv

LEMMA NumberStep ==
  ASSUME ReservationInv, NumberInv, [Next]_vars
  PROVE  NumberInv'
<1>1. CASE /\ UNCHANGED <<scope, mint, ordinal, attempt, SampleCount>>
           /\ \A i \in Rows : \/ status'[i] = status[i]
                              \/ status[i] = "RESERVED" /\ status'[i] = "ABANDONED"
  <2>1. \A v, x, k : PriorAttempts(v, x, k)' = PriorAttempts(v, x, k) /\ At(v, x)' = At(v, x)
    BY <1>1, AttemptsKept DEF At
  <2>2. QED BY <1>1, <2>1 DEF NumberInv, At
<1>2. QED BY <1>1, NumberFrame, ReserveNumbers, OpenNumbers DEF ReservationInv

\* What the counting admits, the unique ordinal and the primary key accept: a
\* mint is never refused as RACE_LOST for what earlier attempts left behind.
THEOREM CountsMatchIndexes == Spec => []NeverRaceLost
<1>1. Init => NumberInv
  BY ReservationAssumption DEF Init, NumberInv, At
<1>2. ReservationInv /\ NumberInv /\ [Next]_vars => NumberInv'
  BY NumberStep
<1>3. ASSUME ReservationInv, NumberInv PROVE NeverRaceLost
  <2>1. SUFFICES ASSUME NEW w \in Scopes, NEW m \in Mints, NEW i \in At(w, m),
                        NextOrdinal(w, m) <= Cap, ordinal[i] = NextOrdinal(w, m)
                 PROVE  /\ status[i] # "OPENED"
                        /\ attempt[i] # PriorAttempts(w, m, NextOrdinal(w, m)) + 1
    BY DEF NeverRaceLost, Collides
  <2>2. PICK n \in 0..Cap : n = NextOrdinal(w, m) /\ n = SampleCount[m] + 1
    BY <2>1, SamplesCounted, ReservationAssumption DEF NextOrdinal
  <2>3. /\ status[i] = "OPENED" => ordinal[i] <= SampleCount[m]
        /\ attempt[i] <= PriorAttempts(w, m, n) /\ attempt[i] \in Nat
    BY <1>3, <2>1, <2>2 DEF NumberInv, ReservationInv, TypeOK, At
  <2>4. PriorAttempts(w, m, n) \in Nat /\ SampleCount[m] \in Nat
    BY AttemptsCounted, SamplesCounted
  <2>5. QED BY <2>1, <2>2, <2>3, <2>4
<1>4. QED BY <1>1, <1>2, <1>3, ReservationsHold, PTL DEF Spec

-----------------------------------------------------------------------------
(* Refinement of SamplingSlot.                                               *)

\* A step that changes no status, trajectory, scope or mint changes no slot.
LEMMA SlotsKept ==
  ASSUME UNCHANGED <<status, trajectory, scope, mint>>
  PROVE  UNCHANGED <<SlotPhase, SampleCount>>
<1>1. SampleCount' = SampleCount BY SamplesKept
<1>2. \A w \in Scopes, m \in Mints : Phase(w, m)' = Phase(w, m)
  BY DEF Phase, OpenOn, Held, At
<1>3. \A x \in Scopes \X Mints : x[1] \in Scopes /\ x[2] \in Mints
  OBVIOUS
<1>4. SlotPhase' = SlotPhase BY <1>2, <1>3 DEF SlotPhase
<1>5. QED BY <1>1, <1>4

\* A step that changes the phase of one slot changes SlotPhase there only.
LEMMA SlotChanged ==
  ASSUME NEW w \in Scopes, NEW m \in Mints, NEW p, Phase(w, m)' = p,
         \A v \in Scopes, n \in Mints : v # w \/ n # m => Phase(v, n)' = Phase(v, n)
  PROVE  SlotPhase' = [SlotPhase EXCEPT ![<<w, m>>] = p]
<1>1. \A x \in Scopes \X Mints :
        /\ x[1] \in Scopes /\ x[2] \in Mints
        /\ x # <<w, m>> => x[1] # w \/ x[2] # m
  OBVIOUS
<1>2. \A x \in Scopes \X Mints :
        Phase(x[1], x[2])' = IF x = <<w, m>> THEN p ELSE Phase(x[1], x[2])
  BY <1>1
<1>3. QED BY <1>2 DEF SlotPhase

\* Every step of the sessions is a step of the slots, or none.
LEMMA SlotStep ==
  ASSUME ReservationInv, [Next]_vars
  PROVE  Slot!Next \/ UNCHANGED <<SlotPhase, SampleCount>>
<1> USE DEF rowVars, sessionVars, loopVars, Loop
<1> /\ TypeOK /\ RowInv /\ EverySampleIsBound /\ SlotInv /\ WorkInv
  BY DEF ReservationInv
<1>1. ASSUME NEW s \in Sessions, NEW m \in Mints, Reserve(s, m)
      PROVE  Slot!Next \/ UNCHANGED <<SlotPhase, SampleCount>>
  <2>1. PICK i \in Rows :
          /\ status[i] = "none" /\ trajectory[i] = "none"
          /\ status' = [j \in Rows |-> IF j = i THEN "RESERVED"
                                       ELSE IF j \in Held(context[s], m) THEN "ABANDONED"
                                       ELSE status[j]]
          /\ scope' = [scope EXCEPT ![i] = context[s]] /\ mint' = [mint EXCEPT ![i] = m]
          /\ OpenOn(context[s], m) = {}
          /\ context[s] \in Scopes
          /\ SampleCount[m] < Cap
          /\ UNCHANGED <<trajectory, SampleCount>>
    BY <1>1, ReserveFacts
  <2>2. PICK w \in Scopes : w = context[s] BY <2>1
  <2>3. Phase(w, m)' = "reserved"
    <3>1. OpenOn(w, m)' = {} BY <2>1, <2>2 DEF OpenOn, At, TypeOK
    <3>2. i \in Held(w, m)' BY <2>1, <2>2 DEF Held, At, TypeOK
    <3>3. QED BY <3>1, <3>2 DEF Phase
  <2>4. ASSUME NEW v \in Scopes, NEW n \in Mints, v # w \/ n # m
        PROVE  Phase(v, n)' = Phase(v, n)
    <3>1. OpenOn(v, n)' = OpenOn(v, n)
      BY <2>1, <2>2, <2>4 DEF OpenOn, At, TypeOK
    <3>2. Held(v, n)' = Held(v, n)
      BY <2>1, <2>2, <2>4 DEF Held, At, TypeOK
    <3>3. QED BY <3>1, <3>2 DEF Phase
  <2>5. SlotPhase' = [SlotPhase EXCEPT ![<<w, m>>] = "reserved"]
    BY <2>3, <2>4, SlotChanged
  <2>6. SlotPhase[<<w, m>>] \in {"free", "reserved"}
    BY <2>1, <2>2 DEF SlotPhase, Phase
  <2>7. CASE SlotPhase[<<w, m>>] = "free"
    <3>1. Slot!Take(w, m) BY <2>1, <2>5, <2>7 DEF Slot!Take
    <3>2. QED BY <3>1 DEF Slot!Next
  <2>8. CASE SlotPhase[<<w, m>>] = "reserved"
    <3>1. SlotPhase' = SlotPhase BY <2>5, <2>8 DEF SlotPhase
    <3>2. QED BY <2>1, <3>1
  <2>9. QED BY <2>6, <2>7, <2>8
<1>2. ASSUME NEW s \in Sessions, Abandon(s)
      PROVE  Slot!Next \/ UNCHANGED <<SlotPhase, SampleCount>>
  <2>1. /\ status[work[s]] = "RESERVED" /\ stage[s] # "idle" /\ session[s] = "up"
        /\ status' = [status EXCEPT ![work[s]] = "ABANDONED"]
        /\ UNCHANGED <<scope, mint, trajectory>>
    BY <1>2 DEF Abandon
  <2>2. PICK i \in Rows, w \in Scopes, m \in Mints :
          i = work[s] /\ w = scope[i] /\ m = mint[i]
    BY <2>1 DEF WorkInv, RowInv
  <2>3. OpenOn(w, m) = {} /\ Held(w, m) = {i}
    BY <2>1, <2>2 DEF OpenOn, Held, At, SlotInv, EverySampleIsBound
  <2>4. OpenOn(w, m)' = {} /\ Held(w, m)' = {}
    BY <2>1, <2>2, <2>3 DEF OpenOn, Held, At, TypeOK
  <2>5. ASSUME NEW v \in Scopes, NEW n \in Mints, v # w \/ n # m
        PROVE  Phase(v, n)' = Phase(v, n)
    <3>1. OpenOn(v, n)' = OpenOn(v, n) BY <2>1 DEF OpenOn, At
    <3>2. Held(v, n)' = Held(v, n)
      BY <2>1, <2>2, <2>5 DEF Held, At, TypeOK
    <3>3. QED BY <3>1, <3>2 DEF Phase
  <2>6. SlotPhase' = [SlotPhase EXCEPT ![<<w, m>>] = "free"]
    BY <2>4, <2>5, SlotChanged DEF Phase
  <2>7. SlotPhase[<<w, m>>] = "reserved" BY <2>3 DEF SlotPhase, Phase
  <2>8. Slot!GiveBack(w, m) BY <2>1, <2>6, <2>7, SamplesKept DEF Slot!GiveBack
  <2>9. QED BY <2>8 DEF Slot!Next
<1>3. ASSUME NEW s \in Sessions, OpenTrajectory(s)
      PROVE  Slot!Next \/ UNCHANGED <<SlotPhase, SampleCount>>
  <2>1. PICK i \in Rows, m \in Mints :
          /\ i = work[s] /\ m = mint[i] /\ status[i] = "RESERVED" /\ trajectory[i] = "none"
          /\ scope[i] = context[s] /\ context[s] \in Scopes
          /\ SampleCount' = [SampleCount EXCEPT ![m] = @ + 1]
    BY <1>3, OpenFacts
  <2>2. PICK w \in Scopes : w = scope[i] BY <2>1
  <2>3. /\ status' = [status EXCEPT ![i] = "OPENED"]
        /\ trajectory' = [trajectory EXCEPT ![i] = "open"]
        /\ UNCHANGED <<scope, mint>>
    BY <1>3, <2>1 DEF OpenTrajectory
  <2>4. OpenOn(w, m) = {} /\ i \in Held(w, m)
    BY <2>1, <2>2 DEF OpenOn, Held, At, SlotInv
  <2>5. i \in OpenOn(w, m)'
    BY <2>1, <2>2, <2>3 DEF OpenOn, At, TypeOK
  <2>6. ASSUME NEW v \in Scopes, NEW n \in Mints, v # w \/ n # m
        PROVE  Phase(v, n)' = Phase(v, n)
    <3>1. OpenOn(v, n)' = OpenOn(v, n)
      BY <2>1, <2>2, <2>3, <2>6 DEF OpenOn, At, TypeOK
    <3>2. Held(v, n)' = Held(v, n)
      BY <2>1, <2>2, <2>3, <2>6 DEF Held, At, TypeOK
    <3>3. QED BY <3>1, <3>2 DEF Phase
  <2>7. SlotPhase' = [SlotPhase EXCEPT ![<<w, m>>] = "open"]
    BY <2>5, <2>6, SlotChanged DEF Phase
  <2>8. SlotPhase[<<w, m>>] = "reserved" BY <2>4 DEF SlotPhase, Phase
  <2>9. Slot!Open(w, m) BY <2>1, <2>7, <2>8 DEF Slot!Open
  <2>10. QED BY <2>9 DEF Slot!Next
<1>4. ASSUME NEW s \in Sessions, NEW i \in Rows, Settle(s, i)
      PROVE  Slot!Next \/ UNCHANGED <<SlotPhase, SampleCount>>
  <2>1. /\ trajectory[i] = "open"
        /\ trajectory' = [trajectory EXCEPT ![i] = "SETTLED"]
        /\ UNCHANGED <<status, scope, mint>>
    BY <1>4 DEF Settle
  <2>2. PICK w \in Scopes, m \in Mints : w = scope[i] /\ m = mint[i]
    BY <2>1 DEF EverySampleIsBound, RowInv
  <2>3. OpenOn(w, m) = {i} /\ Held(w, m) = {}
    <3>1. status[i] = "OPENED" BY <2>1 DEF EverySampleIsBound
    <3>2. QED BY <2>1, <2>2, <3>1 DEF OpenOn, Held, At, SlotInv
  <2>4. OpenOn(w, m)' = {} /\ Held(w, m)' = {}
    BY <2>1, <2>2, <2>3 DEF OpenOn, Held, At, TypeOK
  <2>5. ASSUME NEW v \in Scopes, NEW n \in Mints, v # w \/ n # m
        PROVE  Phase(v, n)' = Phase(v, n)
    <3>1. OpenOn(v, n)' = OpenOn(v, n)
      BY <2>1, <2>2, <2>5 DEF OpenOn, At, TypeOK
    <3>2. Held(v, n)' = Held(v, n) BY <2>1 DEF Held, At
    <3>3. QED BY <3>1, <3>2 DEF Phase
  <2>6. SlotPhase' = [SlotPhase EXCEPT ![<<w, m>>] = "free"]
    BY <2>4, <2>5, SlotChanged DEF Phase
  <2>7. SlotPhase[<<w, m>>] = "open" BY <2>3 DEF SlotPhase, Phase
  <2>8. SampleCount' = SampleCount BY <2>1, SamplesKept DEF TypeOK
  <2>9. Slot!Settle(w, m) BY <2>6, <2>7, <2>8 DEF Slot!Settle
  <2>10. QED BY <2>9 DEF Slot!Next
<1>5. ASSUME NEW s \in Sessions, NEW w \in Scopes, Launch(s, w)
      PROVE  UNCHANGED <<SlotPhase, SampleCount>>
  BY <1>5, SlotsKept DEF Launch
<1>6. ASSUME NEW s \in Sessions, ChooseSize(s) \/ CycleThrows(s) \/ Crash(s)
      PROVE  UNCHANGED <<SlotPhase, SampleCount>>
  BY <1>6, SlotsKept DEF ChooseSize, CycleThrows, Crash
<1>7. ASSUME NEW s \in Sessions, Heartbeat(s) \/ EndSession(s) \/ PidReused(s) \/ FallSilent(s)
      PROVE  UNCHANGED <<SlotPhase, SampleCount>>
  BY <1>7, SlotsKept DEF Heartbeat, EndSession, PidReused, FallSilent
<1>8. ASSUME NEW i \in Rows, GrowOld(i) PROVE UNCHANGED <<SlotPhase, SampleCount>>
  BY <1>8, SlotsKept DEF GrowOld
<1>9. CASE UNCHANGED vars
  BY <1>9, SlotsKept DEF vars
<1>10. QED
  BY <1>1, <1>2, <1>3, <1>4, <1>5, <1>6, <1>7, <1>8, <1>9 DEF Next, Session

\* Whatever overlaps, dies or is reclaimed, each slot is taken, given back,
\* opened and settled as SamplingSlot says.
THEOREM SlotsRefined == Spec => SlotSpec
<1>1. ASSUME Init PROVE Slot!Init
  <2>1. \A w, m : OpenOn(w, m) = {} /\ Held(w, m) = {}
    BY <1>1 DEF Init, OpenOn, Held, At
  <2>2. SlotPhase = [x \in Scopes \X Mints |-> "free"]
    BY <2>1 DEF SlotPhase, Phase
  <2>3. \A m \in Mints : Samples(m) = {}
    BY <1>1 DEF Init, Samples
  <2>4. SampleCount = [m \in Mints |-> 0]
    BY <2>3, FS_EmptySet DEF SampleCount
  <2>5. QED BY <2>2, <2>4 DEF Slot!Init, Slot!Slots
<1>2. ReservationInv /\ [Next]_vars => [Slot!Next]_<<SlotPhase, SampleCount>>
  BY SlotStep
<1>3. QED
  BY <1>1, <1>2, ReservationsHold, PTL DEF Spec, SlotSpec, Slot!Spec
=============================================================================
