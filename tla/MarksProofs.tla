------------------------------ MODULE MarksProofs ------------------------------
(***************************************************************************)
(* Proofs about the mark pass, for every set of trajectories, horizons and  *)
(* paths, every limit and every bound on aborts and replays.                *)
(***************************************************************************)
EXTENDS Marks, FoldLemmas

MarksFacts == TypeOK /\ MarksInv

(***************************************************************************)
(* What the operators return.                                               *)
(***************************************************************************)

\* The first horizon of a set is its least, and None when there is none.
LEMMA FirstIsLeast ==
  ASSUME NEW S, S \subseteq Offsets
  PROVE  /\ S = {} => First(S) = None
         /\ S # {} => First(S) \in S /\ \A q \in S : First(S) <= q
<1>1. ASSUME S # {}
      PROVE  First(S) \in S /\ \A q \in S : First(S) <= q
  <2>1. S \subseteq Nat
    BY ExitPolicyAssumption
  <2>2. \E o \in S : \A q \in S : o <= q
    BY <1>1, <2>1, LeastExists
  <2> QED
    BY <1>1, <2>2 DEF First
<1> QED
  BY <1>1 DEF First

\* A policy leaves at a horizon of the path or not at all.
LEMMA DecideType ==
  ASSUME NEW policy, NEW path
  PROVE  /\ Decide(policy, path).trigger \in Offsets \cup {None}
         /\ Decide(policy, path).fill \in Offsets \cup {None}
<1>1. \A S : S \subseteq Offsets => First(S) \in Offsets \cup {None}
  BY FirstIsLeast
<1>2. \A o : AtClock(o).trigger = o /\ AtClock(o).fill = o
  BY DEF AtClock
<1>3. \A o : FirstFillAfter(path, o) \in Offsets \cup {None}
  BY <1>1 DEF FirstFillAfter
<1>4. First(Collapses(path)) \in Offsets \cup {None}
  BY <1>1 DEF Collapses
<1>5. /\ First({o \in Offsets : o >= Horizon}) \in Offsets \cup {None}
      /\ First({o \in Offsets : o >= Horizon + Extension}) \in Offsets \cup {None}
  BY <1>1
<1>6. /\ Control(path).trigger \in Offsets \cup {None}
      /\ Control(path).fill \in Offsets \cup {None}
  BY <1>2, <1>5 DEF Control
<1>7. /\ Challenger(path).trigger \in Offsets \cup {None}
      /\ Challenger(path).fill \in Offsets \cup {None}
  BY <1>2, <1>3, <1>4, <1>5, <1>6 DEF Challenger
<1> QED
  BY <1>6, <1>7 DEF Decide

\* The contract that prices a horizon is a row that says so, or there is none.
LEMMA ContractIsRow ==
  ASSUME NEW t, NEW o \in Offsets \cup {None}
  PROVE  /\ ContractAt(t, o) \in {"REPLAY", "BOUNDED", None}
         /\ ContractAt(t, o) = "REPLAY" => o = Horizon /\ replay[t] = "exit"
         /\ ContractAt(t, o) = "BOUNDED" => o \in Offsets /\ bounded[t][o] = "exit"
         /\ ContractAt(t, o) # None => o \in Offsets
  BY MarksAssumption, ExitPolicyAssumption DEF ContractAt

\* An evaluation is an outcome row.
LEMMA EvaluateType ==
  ASSUME NEW t \in Trajectories, NEW p
  PROVE  Evaluate(t, p) \in OutcomeRow
<1> DEFINE d == Decide(p, Path(t))
           contract == ContractAt(t, d.fill)
<1>1. d.trigger \in Offsets \cup {None} /\ d.fill \in Offsets \cup {None}
  BY DecideType
<1>2. /\ contract \in {"REPLAY", "BOUNDED", None}
      /\ contract # None => d.fill \in Offsets
  BY <1>1, ContractIsRow
<1>3. Evaluate(t, p) =
        [trigger |-> d.trigger,
         exit |-> IF contract = None THEN None ELSE <<contract, d.fill>>]
  BY DEF Evaluate
<1> HIDE DEF d, contract
<1>4. (IF contract = None THEN None ELSE <<contract, d.fill>>) \in Exits \cup {None}
  BY <1>2 DEF Exits
<1> QED
  BY <1>1, <1>3, <1>4 DEF OutcomeRow

\* Two evaluations of one trajectory that fill at the same horizon give the same
\* number: both read the same rows.
LEMMA EvaluatePairs ==
  ASSUME NEW t \in Trajectories, NEW p, NEW q
  PROVE  SameNumber(Evaluate(t, p), Evaluate(t, q))
  BY MarksAssumption DEF SameNumber, Evaluate

\* An evaluation rests on rows that are there.
LEMMA EvaluateBacked ==
  ASSUME TypeOK, RowsInv, NEW t \in Trajectories, NEW p
  PROVE  Backed(t, Evaluate(t, p))
<1> DEFINE d == Decide(p, Path(t))
           contract == ContractAt(t, d.fill)
<1>1. d.fill \in Offsets \cup {None}
  BY DecideType
<1>2. /\ contract \in {"REPLAY", "BOUNDED", None}
      /\ contract = "REPLAY" => d.fill = Horizon /\ replay[t] = "exit"
      /\ contract = "BOUNDED" => d.fill \in Offsets /\ bounded[t][d.fill] = "exit"
  BY <1>1, ContractIsRow
<1>3. Evaluate(t, p).exit = IF contract = None THEN None ELSE <<contract, d.fill>>
  BY DEF Evaluate
<1> HIDE DEF d, contract
<1>4. CASE contract = None
  BY <1>3, <1>4 DEF Backed
<1>5. CASE contract = "REPLAY"
  <2>1. Priced(t, Horizon)
    BY <1>2, <1>5 DEF RowsInv
  <2>2. Evaluate(t, p).exit = <<"REPLAY", Horizon>>
    BY <1>2, <1>3, <1>5, MarksAssumption
  <2> QED
    BY <1>2, <1>5, <2>1, <2>2 DEF Backed
<1>6. CASE contract = "BOUNDED"
  <2>1. Priced(t, d.fill) /\ entry[t] = "small"
    BY <1>2, <1>6 DEF RowsInv
  <2>2. Evaluate(t, p).exit = <<"BOUNDED", d.fill>>
    BY <1>3, <1>6, MarksAssumption
  <2> QED
    BY <1>2, <1>6, <2>1, <2>2 DEF Backed
<1> QED
  BY <1>2, <1>4, <1>5, <1>6

(***************************************************************************)
(* Types.                                                                   *)
(***************************************************************************)

\* The horizon a visit serves next is the least of those due.
LEMMA HorizonDue ==
  ASSUME TypeOK, due # {}
  PROVE  First(due) \in due /\ First(due) \in Offsets /\ \A o \in due : First(due) <= o
  BY FirstIsLeast DEF TypeOK

\* The openings are numbered: there are finitely many trajectories.
LEMMA RankType ==
  /\ Cardinality({u \in Trajectories : state[u] # "none"}) \in Nat
  /\ \A S \in SUBSET Trajectories : IsFiniteSet(S)
<1>1. \A S \in SUBSET Trajectories : IsFiniteSet(S)
  BY FS_Subset, MarksAssumption
<1> QED
  BY <1>1, FS_CardinalityType

\* The start of a pass keeps the types.
LEMMA BeginPassType ==
  ASSUME TypeOK, NEW ret \in {"loop", "cycle"}, BeginPass(ret)
  PROVE  TypeOK'
<1>1. Listed \subseteq Trajectories
  BY DEF Listed, Open
<1>2. passAge' \in [Trajectories -> 0..AgeCap]
  BY MarksAssumption DEF TypeOK, BeginPass
<1>3. urgent' \subseteq Trajectories
  BY <1>1 DEF BeginPass
<1> QED
  BY <1>1, <1>2, <1>3 DEF TypeOK, BeginPass, rows, PassPcs

\* So does its end, by a throw or a death.
LEMMA DropPassType ==
  ASSUME TypeOK, NEW next \in {"loop", "cycle"}, DropPass(next),
         aborts' \in 0..MaxAborts
  PROVE  TypeOK'
<1>1. passAge' \in [Trajectories -> 0..AgeCap]
  BY MarksAssumption DEF DropPass
<1> QED
  BY <1>1, MarksAssumption DEF TypeOK, DropPass, rows, PassPcs

\* So does the insert of a mark.
LEMMA InsertMarkType ==
  ASSUME TypeOK, MarksInv, NEW price \in Prices \cup {Unpriced}, InsertMark(price)
  PROVE  TypeOK'
<1> DEFINE o == First(due)
<1>1. due # {} /\ cur \in Trajectories
  BY DEF InsertMark, MarksInv, PassInv, Open
<1>2. o \in Offsets
  BY <1>1, HorizonDue
<1>3. MarkOf(o, price) \in MarkRow
  BY DEF MarkOf, Status, MarkRow
<1>4. mark' = [mark EXCEPT ![cur][o] = MarkOf(o, price)]
  BY DEF InsertMark
<1>5. mark' \in [Trajectories -> [Offsets -> MarkRow \cup {None}]]
  BY <1>1, <1>2, <1>3, <1>4 DEF TypeOK
<1>6. /\ due' \subseteq Offsets /\ at' = 0 /\ pc' \in {"counterfactual", "mark"}
      /\ UNCHANGED <<state, rank, entry, bounded, replay, outcome, age, back,
                     passAge, todo, urgent, cur, outs, aborts>>
  BY DEF InsertMark, TypeOK
<1> QED
  BY <1>5, <1>6, MarksAssumption DEF TypeOK, PassPcs

\* So does the insert of a counterfactual row.
LEMMA InsertCounterfactualType ==
  ASSUME TypeOK, MarksInv, InsertCounterfactual
  PROVE  TypeOK'
<1> DEFINE o == First(due)
<1>1. due # {} /\ cur \in Trajectories
  BY DEF InsertCounterfactual, MarksInv, PassInv, Open
<1>2. o \in Offsets
  BY <1>1, HorizonDue
<1>3. /\ bounded' = [bounded EXCEPT ![cur][o] = IF @ = "none" THEN BoundedRow ELSE @]
      /\ BoundedRow \in {"exit", "refused"}
  BY DEF InsertCounterfactual, BoundedRow
<1>4. bounded' \in [Trajectories -> [Offsets -> {"none", "exit", "refused"}]]
  BY <1>1, <1>2, <1>3 DEF TypeOK
<1>5. /\ due' \subseteq Offsets /\ pc' = "mark"
      /\ UNCHANGED <<state, rank, entry, mark, replay, outcome, age, back, passAge,
                     todo, urgent, cur, at, outs, aborts>>
  BY DEF InsertCounterfactual, TypeOK
<1> QED
  BY <1>4, <1>5 DEF TypeOK, PassPcs

\* So does the insert of an outcome.
LEMMA InsertOutcomeType ==
  ASSUME TypeOK, MarksInv, InsertOutcome
  PROVE  TypeOK'
<1> DEFINE p == PolicyAt[pc]
<1>1. /\ pc \in {"control", "challenger"} /\ p \in Policies
      /\ After[pc] \in {"challenger", "close"}
  BY DEF InsertOutcome, PolicyAt, Policies, After
<1>2. cur \in Trajectories /\ outs \in [Policies -> OutcomeRow]
  BY <1>1 DEF MarksInv, PassInv, SettleInv, SettlePcs, Open
<1>3. /\ outcome' = [outcome EXCEPT ![cur][p] = outs[p]] /\ pc' = After[pc]
      /\ UNCHANGED <<state, rank, entry, mark, bounded, replay, age, locals, aborts>>
  BY DEF InsertOutcome
<1>4. outcome' \in [Trajectories -> [Policies -> OutcomeRow \cup {None}]]
  BY <1>1, <1>2, <1>3 DEF TypeOK
<1> HIDE DEF p
<1> QED
  BY <1>1, <1>3, <1>4 DEF TypeOK, PassPcs, locals

\* No step leaves the types.
LEMMA TypeStep ==
  ASSUME TypeOK, MarksInv, [Next]_vars
  PROVE  TypeOK'
<1>1. CASE MarksOnly
  BY <1>1, BeginPassType DEF MarksOnly
<1>2. CASE Discover
  BY <1>2 DEF Discover, TypeOK, rows, locals
<1>3. CASE YieldToMarks
  BY <1>3, BeginPassType DEF YieldToMarks
<1>4. CASE EndCycle
  BY <1>4, BeginPassType DEF EndCycle
<1>5. ASSUME NEW t \in Trajectories, Visit(t)
      PROVE  TypeOK'
  <2>1. /\ due' \subseteq Offsets /\ urgent' \subseteq Trajectories
        /\ todo' \subseteq Trajectories /\ cur' \in Trajectories
        /\ passAge' \in [Trajectories -> 0..AgeCap]
    BY <1>5, MarksAssumption DEF Visit, TypeOK, DueAt, Unrecorded
  <2> QED
    BY <1>5, <2>1 DEF Visit, TypeOK, rows, PassPcs
<1>6. ASSUME NEW o \in Offsets, BeginMark(o)
      PROVE  TypeOK'
  <2>1. at' \in 0..AgeCap
    BY <1>6 DEF BeginMark, TypeOK, MarksInv, PassInv, Open
  <2> QED
    BY <1>6, <2>1 DEF BeginMark, TypeOK, rows, PassPcs
<1>7. ASSUME NEW price \in Prices \cup {Unpriced}, InsertMark(price)
      PROVE  TypeOK'
  BY <1>7, InsertMarkType
<1>8. CASE InsertCounterfactual
  BY <1>8, InsertCounterfactualType
<1>9. CASE EndVisit
  <2>1. outs' \in [Policies -> OutcomeRow] \cup {None}
    BY <1>9, EvaluateType DEF EndVisit, TypeOK, MarksInv, PassInv, Open
  <2> QED
    BY <1>9, <2>1 DEF EndVisit, TypeOK, rows, PassPcs
<1>10. CASE InsertOutcome
  BY <1>10, InsertOutcomeType
<1>11. CASE OutcomeConflict
  <2>1. back \in {"loop", "cycle"} /\ aborts' \in 0..MaxAborts
    BY <1>11 DEF OutcomeConflict, TypeOK
  <2> QED
    BY <1>11, <2>1, DropPassType DEF OutcomeConflict
<1>12. CASE Close
  <2>1. /\ state' \in [Trajectories -> {"none", "AWAITING_FILL_OBSERVATION", "SETTLED"}]
        /\ age' \in [Trajectories -> 0..AgeCap]
    <3>1. /\ state' = [state EXCEPT ![cur] = "SETTLED"]
          /\ age' = [age EXCEPT ![cur] = 0]
      BY <1>12 DEF Close
    <3>2. /\ state \in [Trajectories -> {"none", "AWAITING_FILL_OBSERVATION", "SETTLED"}]
          /\ age \in [Trajectories -> 0..AgeCap] /\ 0 \in 0..AgeCap
      BY MarksAssumption DEF TypeOK
    <3> QED
      BY <3>1, <3>2
  <2> QED
    BY <1>12, <2>1 DEF Close, TypeOK, PassPcs
<1>13. CASE PassReturns
  BY <1>13 DEF PassReturns, TypeOK, rows
<1>14. ASSUME NEW t \in Trajectories, OpenTrajectory(t)
       PROVE  TypeOK'
  <2>1. /\ state' \in [Trajectories -> {"none", "AWAITING_FILL_OBSERVATION", "SETTLED"}]
        /\ rank' \in [Trajectories -> Nat]
        /\ entry' \in [Trajectories -> EntryKinds \cup {None}]
    <3>1. PICK e \in Entries[t] : entry' = [entry EXCEPT ![t] = e]
      BY <1>14 DEF OpenTrajectory
    <3>2. /\ state' = [state EXCEPT ![t] = "AWAITING_FILL_OBSERVATION"]
          /\ rank' = [rank EXCEPT ![t] = Cardinality({u \in Trajectories : state[u] # "none"})]
      BY <1>14 DEF OpenTrajectory
    <3>3. e \in EntryKinds
      BY MarksAssumption
    <3>4. /\ state \in [Trajectories -> {"none", "AWAITING_FILL_OBSERVATION", "SETTLED"}]
          /\ rank \in [Trajectories -> Nat]
          /\ entry \in [Trajectories -> EntryKinds \cup {None}]
      BY DEF TypeOK
    <3> QED
      BY <3>1, <3>2, <3>3, <3>4, RankType
  <2> QED
    BY <1>14, <2>1 DEF OpenTrajectory, TypeOK, locals
<1>15. ASSUME NEW t \in Trajectories, Replay(t)
       PROVE  TypeOK'
  <2>1. replay' \in [Trajectories -> {"none", "exit", "refused"}]
    BY <1>15 DEF Replay, TypeOK
  <2> QED
    BY <1>15, <2>1 DEF Replay, TypeOK, locals
<1>16. CASE Abort
  <2>1. aborts' \in 0..MaxAborts
    BY <1>16, MarksAssumption DEF Abort, TypeOK
  <2>2. PICK next \in {"loop", "cycle"} : DropPass(next)
    BY <1>16 DEF Abort, TypeOK
  <2> QED
    BY <2>1, <2>2, DropPassType
<1>17. CASE Tick
  <2>1. age' \in [Trajectories -> 0..AgeCap]
    BY <1>17, MarksAssumption DEF Tick, TypeOK
  <2> QED
    BY <1>17, <2>1 DEF Tick, TypeOK, rows, locals
<1>18. CASE UNCHANGED vars
  BY <1>18 DEF vars, rows, locals, TypeOK
<1> QED
  BY <1>1, <1>2, <1>3, <1>4, <1>5, <1>6, <1>7, <1>8, <1>9, <1>10, <1>11, <1>12,
     <1>13, <1>14, <1>15, <1>16, <1>17, <1>18 DEF Next, Collector

(***************************************************************************)
(* The inductive invariant, one part at a time.                             *)
(***************************************************************************)

\* A pass begins with nothing of a visit in memory, and visits open trajectories
\* at ages they have.
LEMMA BeginPassKeeps ==
  ASSUME TypeOK, MarksInv, NEW ret \in {"loop", "cycle"}, BeginPass(ret),
         pc \in {"loop", "cycle"}
  PROVE  PassInv'
<1>1. /\ pc' = "visit" /\ todo' = Listed /\ cur' = cur /\ age' = age /\ state' = state
      /\ passAge' = [t \in Trajectories |-> IF t \in Listed THEN age[t] ELSE 0]
  BY DEF BeginPass, rows
<1>2. cur = None
  BY DEF MarksInv, PassInv
<1>3. Listed \subseteq Open /\ Open \subseteq Trajectories /\ Open' = Open
  BY <1>1 DEF Listed, Open
<1>4. todo' \subseteq Open'
  BY <1>1, <1>3
<1>5. \A t \in todo' : passAge'[t] <= age'[t]
  BY <1>1, <1>3 DEF TypeOK
<1> QED
  BY <1>1, <1>2, <1>4, <1>5 DEF PassInv

\* Nothing is in memory when a pass is dropped.
LEMMA DropPassKeeps ==
  ASSUME NEW next \in {"loop", "cycle"}, DropPass(next)
  PROVE  PassInv'
  BY DEF DropPass, PassInv

\* A visit takes an open trajectory and the horizons it has reached.
LEMMA VisitKeeps ==
  ASSUME TypeOK, MarksInv, NEW t \in Trajectories, Visit(t)
  PROVE  PassInv'
<1>1. /\ pc' = "mark" /\ cur' = t /\ todo' = todo \ {t} /\ due' = DueAt(t, passAge[t])
      /\ passAge' = [passAge EXCEPT ![t] = 0]
      /\ t \in todo /\ state' = state /\ mark' = mark /\ age' = age
  BY DEF Visit, rows
<1>2. Open' = Open /\ Unrecorded(t)' = Unrecorded(t)
  BY <1>1 DEF Open, Unrecorded
<1>3. todo \subseteq Open /\ \A u \in todo : passAge[u] <= age[u]
  BY DEF MarksInv, PassInv
<1>4. todo' \subseteq Open' /\ cur' \in Open' \ todo'
  BY <1>1, <1>2, <1>3
<1>5. \A u \in todo' : passAge'[u] <= age'[u]
  BY <1>1, <1>3 DEF TypeOK
<1>6. \A o \in due' : o \in Unrecorded(t) /\ o <= age[t]
  <2> TAKE o \in due'
  <2>1. o \in Unrecorded(t) /\ passAge[t] >= o
    BY <1>1 DEF DueAt
  <2>2. o \in Nat /\ passAge[t] \in Nat /\ age[t] \in Nat /\ passAge[t] <= age[t]
    BY <1>1, <1>3, <2>1, ExitPolicyAssumption, MarksAssumption DEF TypeOK, Unrecorded
  <2> QED
    BY <2>1, <2>2
<1>7. Unrecorded(cur)' = Unrecorded(t)
  BY <1>1 DEF Unrecorded
<1> QED
  BY <1>1, <1>4, <1>5, <1>6, <1>7 DEF PassInv

\* A mark inserted leaves the other due horizons unrecorded.
LEMMA InsertMarkKeeps ==
  ASSUME TypeOK, MarksInv, NEW price \in Prices \cup {Unpriced}, InsertMark(price)
  PROVE  PassInv'
<1> DEFINE o == First(due)
<1>1. /\ pc = "read" /\ due # {} /\ cur \in Open \ todo /\ cur \in Trajectories
      /\ \A q \in due : q \in Unrecorded(cur) /\ q <= age[cur]
  BY DEF InsertMark, MarksInv, PassInv, Open
<1>2. o \in due /\ o \in Offsets
  BY <1>1, HorizonDue
<1>3. /\ mark' = [mark EXCEPT ![cur][o] = MarkOf(o, price)]
      /\ state' = state /\ todo' = todo /\ passAge' = passAge /\ age' = age
      /\ cur' = cur /\ entry' = entry
  BY DEF InsertMark
<1>4. Open' = Open
  BY <1>3 DEF Open
<1>5. \A q \in Offsets : q # o => mark'[cur][q] = mark[cur][q]
  BY <1>1, <1>3 DEF TypeOK
<1>6. mark'[cur][o] = MarkOf(o, price) /\ MarkOf(o, price).price = price
  <2>1. mark'[cur][o] = MarkOf(o, price)
    BY <1>1, <1>2, <1>3 DEF TypeOK
  <2> QED
    BY <2>1 DEF MarkOf
<1>7. Unrecorded(cur) \ {o} \subseteq Unrecorded(cur)'
  BY <1>3, <1>5 DEF Unrecorded
<1>8. MarkOf(o, price) # None
  BY <1>6, MarksAssumption DEF MarkOf, MarkRow, Status
<1>9. /\ todo' \subseteq Open' /\ \A t \in todo' : passAge'[t] <= age'[t]
      /\ cur' \in Open' \ todo'
  BY <1>1, <1>3, <1>4 DEF MarksInv, PassInv
<1>10. CASE WantsCounterfactual(cur, price)
  <2>1. pc' = "counterfactual" /\ due' = due
    BY <1>10 DEF InsertMark
  <2>2. First(due)' = o
    BY <2>1 DEF First
  <2>3. /\ mark'[cur][o] # None /\ mark'[cur][o].price # Unpriced
        /\ entry'[cur] # "unknown"
    BY <1>3, <1>6, <1>8, <1>10 DEF WantsCounterfactual
  <2>4. \A q \in due \ {o} : q \in Unrecorded(cur)' /\ q <= age[cur]
    BY <1>1, <1>7
  <2>5. Priced(cur, First(due))'
    BY <1>3, <2>2, <2>3 DEF Priced
  <2> HIDE DEF o
  <2> QED
    BY <1>1, <1>3, <1>9, <2>1, <2>2, <2>3, <2>4, <2>5 DEF PassInv
<1>11. CASE ~WantsCounterfactual(cur, price)
  <2>1. pc' = "mark" /\ due' = due \ {o}
    BY <1>11 DEF InsertMark
  <2>2. \A q \in due' : q \in Unrecorded(cur)' /\ q <= age'[cur']
    BY <1>1, <1>3, <1>7, <2>1
  <2> HIDE DEF o
  <2> QED
    BY <1>9, <2>1, <2>2 DEF PassInv
<1> QED
  BY <1>10, <1>11

\* No step leaves PassInv.
LEMMA PassStep ==
  ASSUME TypeOK, MarksInv, [Next]_vars
  PROVE  PassInv'
<1> USE DEF MarksInv
<1>1. CASE MarksOnly
  BY <1>1, BeginPassKeeps DEF MarksOnly
<1>2. CASE Discover
  BY <1>2 DEF Discover, PassInv, rows, locals, Open
<1>3. CASE YieldToMarks
  BY <1>3, BeginPassKeeps DEF YieldToMarks
<1>4. CASE EndCycle
  BY <1>4, BeginPassKeeps DEF EndCycle
<1>5. ASSUME NEW t \in Trajectories, Visit(t)
      PROVE  PassInv'
  BY <1>5, VisitKeeps
<1>6. ASSUME NEW o \in Offsets, BeginMark(o)
      PROVE  PassInv'
  <2>1. /\ pc = "mark" /\ pc' = "read" /\ due # {} /\ o = First(due) /\ at' = age[cur]
        /\ UNCHANGED <<rows, age, passAge, todo, cur, due>>
    BY <1>6 DEF BeginMark
  <2>2. First(due) \in due
    BY <2>1, HorizonDue
  <2>3. o <= age[cur] /\ o \in Nat /\ age[cur] \in Nat
    BY <2>1, <2>2, ExitPolicyAssumption, MarksAssumption DEF PassInv, Open, TypeOK
  <2>4. First(due)' = o
    BY <2>1 DEF First
  <2> QED
    BY <2>1, <2>3, <2>4 DEF PassInv, Open, rows, Unrecorded
<1>7. ASSUME NEW price \in Prices \cup {Unpriced}, InsertMark(price)
      PROVE  PassInv'
  BY <1>7, InsertMarkKeeps
<1>8. CASE InsertCounterfactual
  <2>1. /\ pc = "counterfactual" /\ pc' = "mark" /\ due' = due \ {First(due)}
        /\ UNCHANGED <<state, entry, mark, age, passAge, todo, cur>>
    BY <1>8 DEF InsertCounterfactual
  <2> QED
    BY <2>1 DEF PassInv, Open, Unrecorded
<1>9. CASE EndVisit
  BY <1>9 DEF EndVisit, PassInv, Open, rows
<1>10. CASE InsertOutcome
  BY <1>10 DEF InsertOutcome, PassInv, Open, PolicyAt, After, locals
<1>11. CASE OutcomeConflict
  BY <1>11, DropPassKeeps DEF OutcomeConflict, TypeOK
<1>12. CASE Close
  <2>1. /\ pc = "close" /\ pc' = "visit" /\ cur' = None /\ cur \in Open \ todo
        /\ state' = [state EXCEPT ![cur] = "SETTLED"]
        /\ age' = [age EXCEPT ![cur] = 0]
        /\ UNCHANGED <<passAge, todo>>
    BY <1>12 DEF Close, PassInv
  <2>2. todo' \subseteq Open'
    BY <2>1 DEF PassInv, Open, TypeOK
  <2>3. \A t \in todo' : passAge'[t] <= age'[t]
    BY <2>1 DEF PassInv, Open, TypeOK
  <2> QED
    BY <2>1, <2>2, <2>3 DEF PassInv
<1>13. CASE PassReturns
  BY <1>13 DEF PassReturns, PassInv, rows, Open, TypeOK
<1>14. ASSUME NEW t \in Trajectories, OpenTrajectory(t)
       PROVE  PassInv'
  BY <1>14 DEF OpenTrajectory, PassInv, Open, TypeOK, locals
<1>15. ASSUME NEW t \in Trajectories, Replay(t)
       PROVE  PassInv'
  BY <1>15 DEF Replay, PassInv, Open, locals, Unrecorded, Priced
<1>16. CASE Abort
  <2>1. PICK next \in {"loop", "cycle"} : DropPass(next)
    BY <1>16 DEF Abort, TypeOK
  <2> QED
    BY <2>1, DropPassKeeps
<1>17. CASE Tick
  <2>1. /\ UNCHANGED <<rows, pc, locals>>
        /\ \A t \in Trajectories : age'[t] >= age[t] /\ age[t] \in Nat /\ age'[t] \in Nat
    BY <1>17, MarksAssumption DEF Tick, TypeOK
  <2>2. Open' = Open /\ Open \subseteq Trajectories
    BY <2>1 DEF Open, rows
  <2>3. \A t \in todo' : passAge'[t] <= age'[t]
    BY <2>1, <2>2, MarksAssumption DEF PassInv, TypeOK, locals
  <2>4. cur \in Open => \A o \in Offsets : o <= age[cur] => o <= age'[cur]
    <3> SUFFICES ASSUME cur \in Open, NEW o \in Offsets, o <= age[cur]
                 PROVE  o <= age'[cur]
      OBVIOUS
    <3>1. o \in Nat /\ cur \in Trajectories
      BY <2>2, ExitPolicyAssumption
    <3>2. age'[cur] >= age[cur] /\ age[cur] \in Nat /\ age'[cur] \in Nat
      BY <2>1, <3>1
    <3> QED
      BY <3>1, <3>2
  <2>5. UNCHANGED <<todo, cur, due, at>>
    BY <2>1 DEF locals
  <2>6. pc' \in {"mark", "read"} => \A o \in due' : o \in Unrecorded(cur)' /\ o <= age'[cur']
    BY <2>1, <2>2, <2>4, <2>5 DEF PassInv, Unrecorded, rows
  <2>7. First(due)' = First(due)
    BY <2>5 DEF First
  <2>8. pc' = "counterfactual" =>
          /\ Priced(cur, First(due))' /\ entry'[cur'] # "unknown"
          /\ \A o \in due' \ {First(due)'} : o \in Unrecorded(cur)' /\ o <= age'[cur']
    BY <2>1, <2>2, <2>4, <2>5, <2>7 DEF PassInv, Unrecorded, Priced, rows
  <2> QED
    BY <2>1, <2>2, <2>3, <2>5, <2>6, <2>7, <2>8 DEF PassInv
<1>18. CASE UNCHANGED vars
  BY <1>18 DEF vars, rows, locals, PassInv, Open, Unrecorded, Priced
<1> QED
  BY <1>1, <1>2, <1>3, <1>4, <1>5, <1>6, <1>7, <1>8, <1>9, <1>10, <1>11, <1>12,
     <1>13, <1>14, <1>15, <1>16, <1>17, <1>18 DEF Next, Collector

\* The body of RowsAreFinal.
RowsFinal ==
  \A t \in Trajectories :
    /\ \A o \in Offsets :
         /\ mark[t][o] # None => mark'[t][o] = mark[t][o]
         /\ bounded[t][o] # "none" => bounded'[t][o] = bounded[t][o]
    /\ replay[t] # "none" => replay'[t] = replay[t]
    /\ \A p \in Policies : outcome[t][p] # None => outcome'[t][p] = outcome[t][p]
    /\ state[t] = "SETTLED" => state'[t] = "SETTLED"

\* The entry is recorded with the opening.
EntryFinal ==
  \A t \in Trajectories :
    state[t] # "none" => state'[t] # "none" /\ entry'[t] = entry[t]

\* No step takes back a row.
LEMMA FinalStep ==
  ASSUME TypeOK, MarksInv, [Next]_vars
  PROVE  RowsFinal /\ EntryFinal
<1>1. CASE UNCHANGED rows
  BY <1>1 DEF RowsFinal, EntryFinal, rows
<1>2. ASSUME NEW price \in Prices \cup {Unpriced}, InsertMark(price)
      PROVE  RowsFinal /\ EntryFinal
  <2>1. /\ mark[cur][First(due)] = None
        /\ mark' = [mark EXCEPT ![cur][First(due)] = MarkOf(First(due), price)]
        /\ UNCHANGED <<state, entry, bounded, replay, outcome>>
    BY <1>2 DEF InsertMark
  <2>2. \A t \in Trajectories : \A o \in Offsets :
          mark[t][o] # None => mark'[t][o] = mark[t][o]
    BY <2>1 DEF TypeOK
  <2> QED
    BY <2>1, <2>2 DEF RowsFinal, EntryFinal
<1>3. CASE InsertCounterfactual
  <2>1. /\ bounded' = [bounded EXCEPT ![cur][First(due)] = IF @ = "none" THEN BoundedRow ELSE @]
        /\ UNCHANGED <<state, entry, mark, replay, outcome>>
    BY <1>3 DEF InsertCounterfactual
  <2>2. \A t \in Trajectories : \A o \in Offsets :
          bounded[t][o] # "none" => bounded'[t][o] = bounded[t][o]
    BY <2>1 DEF TypeOK
  <2> QED
    BY <2>1, <2>2 DEF RowsFinal, EntryFinal
<1>4. CASE InsertOutcome
  <2>1. PICK p \in Policies :
          /\ outcome[cur][p] \in {None, outs[p]}
          /\ outcome' = [outcome EXCEPT ![cur][p] = outs[p]]
    <3>1. pc \in {"control", "challenger"} /\ PolicyAt[pc] \in Policies
      BY <1>4 DEF InsertOutcome, PolicyAt, Policies
    <3> QED
      BY <1>4, <3>1 DEF InsertOutcome
  <2>2. UNCHANGED <<state, entry, mark, bounded, replay>>
    BY <1>4 DEF InsertOutcome
  <2>3. \A t \in Trajectories : \A q \in Policies :
          outcome[t][q] # None => outcome'[t][q] = outcome[t][q]
    BY <2>1 DEF TypeOK
  <2> QED
    BY <2>2, <2>3 DEF RowsFinal, EntryFinal
<1>5. CASE Close
  BY <1>5 DEF Close, RowsFinal, EntryFinal, TypeOK, rows
<1>6. ASSUME NEW t \in Trajectories, OpenTrajectory(t)
      PROVE  RowsFinal /\ EntryFinal
  BY <1>6 DEF OpenTrajectory, RowsFinal, EntryFinal, TypeOK
<1>7. ASSUME NEW t \in Trajectories, Replay(t)
      PROVE  RowsFinal /\ EntryFinal
  BY <1>7 DEF Replay, RowsFinal, EntryFinal, TypeOK
<1>8. ASSUME NEW t \in Trajectories, Visit(t)
      PROVE  UNCHANGED rows
  BY <1>8 DEF Visit
<1>9. ASSUME NEW o \in Offsets, BeginMark(o)
      PROVE  UNCHANGED rows
  BY <1>9 DEF BeginMark
<1>10. CASE MarksOnly \/ Discover \/ YieldToMarks \/ EndCycle \/ EndVisit
            \/ OutcomeConflict \/ PassReturns \/ Abort \/ Tick \/ UNCHANGED vars
  <2>1. UNCHANGED rows
    BY <1>10 DEF MarksOnly, Discover, YieldToMarks, EndCycle, EndVisit, BeginPass,
       OutcomeConflict, PassReturns, Abort, DropPass, Tick, vars
  <2> QED
    BY <1>1, <2>1
<1> QED
  BY <1>1, <1>2, <1>3, <1>4, <1>5, <1>6, <1>7, <1>8, <1>9, <1>10 DEF Next, Collector

\* So what an outcome rests on stays, and a path that is complete stays so.
LEMMA BackedStays ==
  ASSUME TypeOK, RowsInv, RowsFinal, EntryFinal,
         NEW t \in Trajectories, NEW row \in OutcomeRow, Backed(t, row)
  PROVE  Backed(t, row)'
<1>1. CASE row.exit = None
  BY <1>1 DEF Backed
<1>2. CASE row.exit # None
  <2>1. row.exit \in Exits
    BY <1>2 DEF OutcomeRow
  <2>2. row.exit[2] \in Offsets
    BY <2>1 DEF Exits
  <2>3. /\ mark[t][row.exit[2]] # None /\ mark[t][row.exit[2]].price # Unpriced
        /\ row.exit[1] = "REPLAY" => replay[t] = "exit" /\ row.exit[2] = Horizon
        /\ row.exit[1] = "BOUNDED" => bounded[t][row.exit[2]] = "exit" /\ entry[t] = "small"
    BY <1>2 DEF Backed, Priced
  <2>4. mark'[t][row.exit[2]] = mark[t][row.exit[2]]
    BY <2>2, <2>3 DEF RowsFinal
  <2>5. row.exit[1] = "REPLAY" => replay'[t] = "exit"
    BY <2>3 DEF RowsFinal
  <2>6. row.exit[1] = "BOUNDED" => bounded'[t][row.exit[2]] = "exit"
    BY <2>2, <2>3 DEF RowsFinal
  <2>7. state[t] # "none"
    BY <2>2, <2>3 DEF RowsInv
  <2>8. entry'[t] = entry[t]
    BY <2>7 DEF EntryFinal
  <2> QED
    BY <2>3, <2>4, <2>5, <2>6, <2>8 DEF Backed, Priced
<1> QED
  BY <1>1, <1>2

\* No horizon of a complete path is taken back.
LEMMA CompleteStays ==
  ASSUME RowsFinal, NEW t \in Trajectories, PathIsComplete(t)
  PROVE  PathIsComplete(t)'
<1>1. \A o \in Offsets : mark[t][o] # None /\ mark'[t][o] = mark[t][o]
  BY DEF RowsFinal, PathIsComplete, Unrecorded
<1>2. \A o \in Offsets : Path(t)[o] = mark[t][o].price
  BY <1>1 DEF Path
<1>3. \A o \in Offsets : Path(t)'[o] = mark[t][o].price
  BY <1>1 DEF Path
<1>4. Unrecorded(t)' = {}
  BY <1>1 DEF Unrecorded
<1> QED
  BY <1>2, <1>3, <1>4 DEF PathIsComplete

\* No step leaves RowsInv.
LEMMA RowsStep ==
  ASSUME TypeOK, MarksInv, [Next]_vars
  PROVE  RowsInv'
<1> USE DEF MarksInv
<1>1. ASSUME NEW price \in Prices \cup {Unpriced}, InsertMark(price)
      PROVE  RowsInv'
  <2>1. /\ cur \in Open /\ cur \in Trajectories /\ mark[cur][First(due)] = None
        /\ mark' = [mark EXCEPT ![cur][First(due)] = MarkOf(First(due), price)]
        /\ UNCHANGED <<state, entry, bounded, replay>>
    <3>1. cur \in Open
      BY <1>1 DEF InsertMark, PassInv
    <3> QED
      BY <1>1, <3>1 DEF InsertMark, Open
  <2>2. \A t \in Trajectories : \A o \in Offsets :
          mark[t][o] # None => mark'[t][o] = mark[t][o]
    BY <2>1 DEF TypeOK
  <2>3. \A t \in Trajectories \ {cur} : mark'[t] = mark[t]
    BY <2>1 DEF TypeOK
  <2>4. \A t \in Trajectories : \A o \in Offsets : Priced(t, o) => Priced(t, o)'
    BY <2>2 DEF Priced
  <2>5. Horizon \in Offsets
    BY ExitPolicyAssumption
  <2> QED
    BY <2>1, <2>3, <2>4, <2>5 DEF RowsInv, Open
<1>2. CASE InsertCounterfactual
  <2>1. /\ cur \in Open /\ cur \in Trajectories /\ Priced(cur, First(due))
        /\ bounded' = [bounded EXCEPT ![cur][First(due)] = IF @ = "none" THEN BoundedRow ELSE @]
        /\ UNCHANGED <<state, entry, mark, replay>>
    <3>1. pc = "counterfactual"
      BY <1>2 DEF InsertCounterfactual
    <3>2. cur \in Open /\ Priced(cur, First(due))
      BY <3>1 DEF PassInv
    <3> QED
      BY <1>2, <3>2 DEF InsertCounterfactual, Open
  <2>2. \A t \in Trajectories : \A o \in Offsets :
          bounded'[t][o] = "exit" => Priced(t, o) /\ entry[t] = "small"
    BY <2>1 DEF RowsInv, TypeOK, BoundedRow
  <2> QED
    BY <2>1, <2>2 DEF RowsInv, Priced
<1>3. ASSUME NEW t \in Trajectories, OpenTrajectory(t)
      PROVE  RowsInv'
  <2>1. /\ state[t] = "none" /\ UNCHANGED <<mark, bounded, replay>>
        /\ state' = [state EXCEPT ![t] = "AWAITING_FILL_OBSERVATION"]
    BY <1>3 DEF OpenTrajectory
  <2>2. PICK e : entry' = [entry EXCEPT ![t] = e]
    BY <1>3 DEF OpenTrajectory
  <2>3. \A u \in Trajectories \ {t} : entry'[u] = entry[u] /\ state'[u] = state[u]
    BY <2>1, <2>2 DEF TypeOK
  <2>4. state'[t] # "none" /\ \A o \in Offsets : bounded[t][o] # "exit"
    BY <2>1 DEF RowsInv, Priced, TypeOK
  <2> QED
    BY <2>1, <2>3, <2>4 DEF RowsInv, Priced
<1>4. ASSUME NEW t \in Trajectories, Replay(t)
      PROVE  RowsInv'
  BY <1>4 DEF Replay, RowsInv, Priced, TypeOK
<1>5. CASE Close
  <2>1. /\ state' = [state EXCEPT ![cur] = "SETTLED"]
        /\ UNCHANGED <<entry, mark, bounded, replay>>
    BY <1>5 DEF Close
  <2>2. \A t \in Trajectories : state'[t] = "none" => state[t] = "none"
    BY <2>1 DEF TypeOK
  <2> QED
    BY <2>1, <2>2 DEF RowsInv, Priced
<1>6. CASE UNCHANGED <<state, entry, mark, bounded, replay>>
  BY <1>6 DEF RowsInv, Priced
<1>7. ASSUME NEW t \in Trajectories, Visit(t)
      PROVE  UNCHANGED rows
  BY <1>7 DEF Visit
<1>8. ASSUME NEW o \in Offsets, BeginMark(o)
      PROVE  UNCHANGED rows
  BY <1>8 DEF BeginMark
<1>9. CASE InsertOutcome
  BY <1>6, <1>9 DEF InsertOutcome
<1>10. CASE MarksOnly \/ Discover \/ YieldToMarks \/ EndCycle \/ EndVisit
            \/ OutcomeConflict \/ PassReturns \/ Abort \/ Tick \/ UNCHANGED vars
  <2>1. UNCHANGED rows
    BY <1>10 DEF MarksOnly, Discover, YieldToMarks, EndCycle, EndVisit, BeginPass,
       OutcomeConflict, PassReturns, Abort, DropPass, Tick, vars
  <2> QED
    BY <1>6, <2>1 DEF rows
<1> QED
  BY <1>1, <1>2, <1>3, <1>4, <1>5, <1>6, <1>7, <1>8, <1>9, <1>10 DEF Next, Collector, rows

\* Outcomes that no step touches stay in order.
LEMMA OutcomesStay ==
  ASSUME TypeOK, MarksInv, RowsFinal, EntryFinal, outcome' = outcome,
         \A t \in Trajectories : state'[t] = "SETTLED" => state[t] = "SETTLED"
  PROVE  OutcomesInv'
<1> SUFFICES ASSUME NEW t \in Trajectories
             PROVE  /\ outcome[t]["FLOW_LIQUIDITY_DETERIORATION_V1"] # None
                         => outcome[t]["FIXED_15M_CONTROL"] # None
                    /\ \A p \in Policies : outcome[t][p] # None => Backed(t, outcome[t][p])'
                    /\ \A p, q \in Policies :
                         outcome[t][p] # None /\ outcome[t][q] # None
                           => SameNumber(outcome[t][p], outcome[t][q])
                    /\ state'[t] = "SETTLED" =>
                         PathIsComplete(t)' /\ \A p \in Policies : outcome[t][p] # None
  BY DEF OutcomesInv, SameNumber
<1>1. \A p \in Policies : outcome[t][p] # None => outcome[t][p] \in OutcomeRow
  BY DEF TypeOK
<1>2. \A p \in Policies : outcome[t][p] # None => Backed(t, outcome[t][p])'
  <2> SUFFICES ASSUME NEW p \in Policies, outcome[t][p] # None
               PROVE  Backed(t, outcome[t][p])'
    OBVIOUS
  <2> DEFINE row == outcome[t][p]
  <2>1. row \in OutcomeRow /\ Backed(t, row)
    BY <1>1 DEF MarksInv, OutcomesInv
  <2> QED
    BY <2>1, BackedStays DEF MarksInv
<1>3. state'[t] = "SETTLED" => PathIsComplete(t)'
  BY CompleteStays DEF MarksInv, OutcomesInv
<1> QED
  BY <1>2, <1>3 DEF MarksInv, OutcomesInv

\* Nothing is about to be written, or it stays as it is.
LEMMA SettleStays ==
  ASSUME TypeOK, MarksInv, RowsFinal, EntryFinal,
         pc' \in SettlePcs => pc' = pc /\ outs' = outs /\ cur' = cur,
         outcome' = outcome
  PROVE  SettleInv'
<1>1. CASE pc' \notin SettlePcs
  BY <1>1 DEF SettleInv, SettlePcs
<1>2. CASE pc' \in SettlePcs
  <2>1. pc' = pc /\ outs' = outs /\ cur' = cur /\ cur \in Trajectories
    BY <1>2 DEF MarksInv, PassInv, Open, SettlePcs
  <2>2. /\ PathIsComplete(cur) /\ outs \in [Policies -> OutcomeRow]
        /\ \A p, q \in Policies : SameNumber(outs[p], outs[q])
        /\ \A p \in Policies : Backed(cur, outs[p])
    BY <1>2, <2>1 DEF MarksInv, SettleInv
  <2>3. \A t \in Trajectories : PathIsComplete(t) => PathIsComplete(t)'
    BY CompleteStays
  <2>4. \A t \in Trajectories : \A row \in OutcomeRow : Backed(t, row) => Backed(t, row)'
    BY BackedStays DEF MarksInv
  <2>5. PathIsComplete(cur)'
    BY <2>1, <2>2, <2>3 DEF PathIsComplete, Unrecorded, Path
  <2>6. \A p \in Policies : Backed(cur, outs[p])'
    BY <2>1, <2>2, <2>4 DEF Backed, Priced
  <2>7. \A p, q \in Policies : SameNumber(outs[p], outs[q])'
    BY <2>1, <2>2 DEF SameNumber
  <2>8. /\ pc \in {"challenger", "close"} =>
             outcome[cur]["FIXED_15M_CONTROL"] = outs["FIXED_15M_CONTROL"]
        /\ pc = "close" => \A p \in Policies : outcome[cur][p] = outs[p]
    BY DEF MarksInv, SettleInv
  <2> QED
    BY <2>1, <2>2, <2>5, <2>6, <2>7, <2>8 DEF SettleInv
<1> QED
  BY <1>1, <1>2

\* The outcomes computed at the end of a visit.
LEMMA EndVisitSettles ==
  ASSUME TypeOK, MarksInv, EndVisit
  PROVE  SettleInv'
<1>1. cur \in Trajectories /\ UNCHANGED rows /\ pc' \in {"control", "visit"}
  BY DEF EndVisit, MarksInv, PassInv, Open
<1>2. CASE pc' = "visit"
  BY <1>2 DEF SettleInv, SettlePcs
<1>3. CASE pc' = "control"
  <2>1. /\ PathIsComplete(cur) /\ cur' = cur
        /\ outs' = [p \in Policies |-> Evaluate(cur, p)]
    BY <1>3 DEF EndVisit
  <2>2. PathIsComplete(cur)'
    BY <1>1, <2>1 DEF PathIsComplete, Unrecorded, Path, rows
  <2>3. outs' \in [Policies -> OutcomeRow]
    BY <1>1, <2>1, EvaluateType
  <2>4. \A p, q \in Policies : SameNumber(outs[p], outs[q])'
    <3>1. \A p, q \in Policies : SameNumber(Evaluate(cur, p), Evaluate(cur, q))
      BY <1>1, EvaluatePairs
    <3> QED
      BY <2>1, <3>1 DEF SameNumber
  <2>5. \A p \in Policies : Backed(cur, outs[p])'
    <3>1. \A p \in Policies : Backed(cur, Evaluate(cur, p))
      BY <1>1, EvaluateBacked DEF MarksInv
    <3>2. \A p \in Policies : outs'[p] = Evaluate(cur, p)
      BY <2>1
    <3> QED
      BY <1>1, <2>1, <3>1, <3>2 DEF Backed, Priced, rows
  <2> QED
    BY <1>3, <2>2, <2>3, <2>4, <2>5 DEF SettleInv
<1> QED
  BY <1>1, <1>2, <1>3

\* The two outcomes are written in turn, each as computed.
LEMMA InsertOutcomeSettles ==
  ASSUME TypeOK, MarksInv, RowsFinal, EntryFinal, InsertOutcome
  PROVE  SettleInv' /\ OutcomesInv'
<1> DEFINE p == PolicyAt[pc]
<1>1. /\ pc \in {"control", "challenger"} /\ p \in Policies
      /\ pc = "control" => p = "FIXED_15M_CONTROL" /\ After[pc] = "challenger"
      /\ pc = "challenger" =>
           p = "FLOW_LIQUIDITY_DETERIORATION_V1" /\ After[pc] = "close"
  BY DEF InsertOutcome, PolicyAt, After, Policies
<1>2. /\ outcome' = [outcome EXCEPT ![cur][p] = outs[p]] /\ pc' = After[pc]
      /\ outcome[cur][p] \in {None, outs[p]}
      /\ UNCHANGED <<state, entry, mark, bounded, replay, cur, outs>>
  BY DEF InsertOutcome, locals
<1>3. /\ cur \in Open /\ cur \in Trajectories /\ PathIsComplete(cur)
      /\ outs \in [Policies -> OutcomeRow]
      /\ \A a, b \in Policies : SameNumber(outs[a], outs[b])
      /\ \A a \in Policies : Backed(cur, outs[a])
      /\ pc = "challenger" =>
           outcome[cur]["FIXED_15M_CONTROL"] = outs["FIXED_15M_CONTROL"]
  <2>1. pc \in SettlePcs /\ cur \in Open
    BY <1>1 DEF MarksInv, PassInv, SettlePcs
  <2> QED
    BY <1>1, <2>1 DEF MarksInv, SettleInv, Open
<1> HIDE DEF p
<1>4. /\ outcome'[cur][p] = outs[p]
      /\ \A a \in Policies \ {p} : outcome'[cur][a] = outcome[cur][a]
      /\ \A t \in Trajectories \ {cur} : outcome'[t] = outcome[t]
  BY <1>1, <1>2, <1>3 DEF TypeOK
<1>5. \A a \in Policies : outs[a] # None
  BY <1>3, MarksAssumption
<1>6. \A t \in Trajectories : \A row : Backed(t, row)' <=> Backed(t, row)
  BY <1>2 DEF Backed, Priced
<1>7. \A t \in Trajectories : PathIsComplete(t)' <=> PathIsComplete(t)
  BY <1>2 DEF PathIsComplete, Unrecorded, Path
<1>8. SettleInv'
  <2>1. pc' \in {"challenger", "close"}
    BY <1>1, <1>2
  <2>2. outcome'[cur]["FIXED_15M_CONTROL"] = outs["FIXED_15M_CONTROL"]
    BY <1>1, <1>3, <1>4 DEF Policies
  <2>3. pc' = "close" => \A a \in Policies : outcome'[cur][a] = outs[a]
    BY <1>1, <1>2, <1>3, <1>4 DEF Policies
  <2>4. PathIsComplete(cur)'
    BY <1>2, <1>3 DEF PathIsComplete, Unrecorded, Path
  <2>5. \A a \in Policies : Backed(cur, outs[a])'
    BY <1>2, <1>3 DEF Backed, Priced
  <2>6. \A a, b \in Policies : SameNumber(outs[a], outs[b])'
    BY <1>2, <1>3 DEF SameNumber
  <2> QED
    BY <1>2, <1>3, <2>1, <2>2, <2>3, <2>4, <2>5, <2>6 DEF SettleInv
<1>9. CASE outcome[cur][p] = outs[p]
  <2>1. outcome' = outcome
    BY <1>1, <1>2, <1>3, <1>9 DEF TypeOK
  <2> QED
    BY <1>2, <1>8, <2>1, OutcomesStay
<1>10. CASE outcome[cur][p] = None
  <2>1. \A t \in Trajectories \ {cur} :
          /\ outcome'[t]["FLOW_LIQUIDITY_DETERIORATION_V1"] # None
               => outcome'[t]["FIXED_15M_CONTROL"] # None
          /\ \A a \in Policies : outcome'[t][a] # None => Backed(t, outcome'[t][a])
          /\ \A a, b \in Policies : outcome'[t][a] # None /\ outcome'[t][b] # None
               => SameNumber(outcome'[t][a], outcome'[t][b])
          /\ state[t] = "SETTLED" =>
               PathIsComplete(t) /\ \A a \in Policies : outcome'[t][a] # None
    BY <1>4 DEF MarksInv, OutcomesInv
  <2>2. outcome'[cur]["FIXED_15M_CONTROL"] = outs["FIXED_15M_CONTROL"]
    BY <1>1, <1>3, <1>4 DEF Policies
  <2>3. outcome'[cur]["FLOW_LIQUIDITY_DETERIORATION_V1"] \in
          {None, outs["FLOW_LIQUIDITY_DETERIORATION_V1"]}
    <3>1. CASE pc = "challenger"
      BY <1>1, <1>4, <3>1
    <3>2. CASE pc = "control"
      <4>1. outcome'[cur]["FLOW_LIQUIDITY_DETERIORATION_V1"]
              = outcome[cur]["FLOW_LIQUIDITY_DETERIORATION_V1"]
        BY <1>1, <1>4, <3>2 DEF Policies
      <4>2. outcome[cur]["FIXED_15M_CONTROL"] = None
        BY <1>1, <1>10, <3>2
      <4> QED
        BY <1>3, <4>1, <4>2 DEF MarksInv, OutcomesInv
    <3> QED
      BY <1>1, <3>1, <3>2
  <2>4. \A a \in Policies : outcome'[cur][a] \in {None, outs[a]}
    BY <2>2, <2>3 DEF Policies
  <2>5. state[cur] # "SETTLED"
    BY <1>3 DEF Open
  <2>6. /\ \A a \in Policies : outcome'[cur][a] # None => Backed(cur, outcome'[cur][a])
        /\ \A a, b \in Policies : outcome'[cur][a] # None /\ outcome'[cur][b] # None
             => SameNumber(outcome'[cur][a], outcome'[cur][b])
    BY <1>3, <2>4
  <2>7. outcome'[cur]["FIXED_15M_CONTROL"] # None
    BY <1>5, <2>2 DEF Policies
  <2>8. \A t \in Trajectories :
          /\ outcome'[t]["FLOW_LIQUIDITY_DETERIORATION_V1"] # None
               => outcome'[t]["FIXED_15M_CONTROL"] # None
          /\ \A a \in Policies : outcome'[t][a] # None => Backed(t, outcome'[t][a])
          /\ \A a, b \in Policies : outcome'[t][a] # None /\ outcome'[t][b] # None
               => SameNumber(outcome'[t][a], outcome'[t][b])
          /\ state[t] = "SETTLED" =>
               PathIsComplete(t) /\ \A a \in Policies : outcome'[t][a] # None
    <3> TAKE t \in Trajectories
    <3>1. CASE t = cur
      BY <2>5, <2>6, <2>7, <3>1
    <3>2. CASE t # cur
      BY <2>1, <3>2
    <3> QED
      BY <3>1, <3>2
  <2>9. \A t \in Trajectories : \A a \in Policies :
          outcome'[t][a] # None => Backed(t, outcome[t][a])'
    <3>1. UNCHANGED <<entry, mark, bounded, replay>>
      BY <1>2
    <3> QED
      BY <2>8, <3>1 DEF Backed, Priced
  <2>10. \A t \in Trajectories : state'[t] = "SETTLED" => PathIsComplete(t)'
    BY <1>2, <1>7, <2>8
  <2>11. \A t \in Trajectories : \A a, b \in Policies :
          outcome'[t][a] # None /\ outcome'[t][b] # None
            => SameNumber(outcome[t][a], outcome[t][b])'
    BY <2>8 DEF SameNumber
  <2> QED
    BY <1>2, <1>8, <2>8, <2>9, <2>10, <2>11 DEF OutcomesInv
<1> QED
  BY <1>2, <1>8, <1>9, <1>10

\* A trajectory is settled when both of its outcomes are there.
LEMMA CloseSettles ==
  ASSUME TypeOK, MarksInv, RowsFinal, EntryFinal, Close
  PROVE  OutcomesInv'
<1>1. /\ cur \in Trajectories /\ PathIsComplete(cur)
      /\ outs \in [Policies -> OutcomeRow]
      /\ \A p \in Policies : outcome[cur][p] = outs[p]
  BY DEF Close, MarksInv, PassInv, SettleInv, SettlePcs, Open
<1>2. /\ state' = [state EXCEPT ![cur] = "SETTLED"]
      /\ UNCHANGED <<entry, mark, bounded, replay, outcome>>
  BY DEF Close
<1>3. \A p \in Policies : outcome[cur][p] # None
  BY <1>1, MarksAssumption
<1>4. \A t \in Trajectories \ {cur} : state'[t] = state[t]
  BY <1>2 DEF TypeOK
<1>5. \A t \in Trajectories : \A row : Backed(t, row)' <=> Backed(t, row)
  BY <1>2 DEF Backed, Priced
<1>6. \A t \in Trajectories : PathIsComplete(t)' <=> PathIsComplete(t)
  BY <1>2 DEF PathIsComplete, Unrecorded, Path
<1>7. \A t \in Trajectories :
        /\ outcome[t]["FLOW_LIQUIDITY_DETERIORATION_V1"] # None
             => outcome[t]["FIXED_15M_CONTROL"] # None
        /\ \A p \in Policies : outcome[t][p] # None => Backed(t, outcome[t][p])
        /\ \A p, q \in Policies :
             outcome[t][p] # None /\ outcome[t][q] # None
               => SameNumber(outcome[t][p], outcome[t][q])
        /\ state'[t] = "SETTLED" =>
             PathIsComplete(t) /\ \A p \in Policies : outcome[t][p] # None
  BY <1>1, <1>3, <1>4 DEF MarksInv, OutcomesInv
<1>8. \A t \in Trajectories : \A p \in Policies :
        outcome'[t][p] # None => Backed(t, outcome[t][p])'
  BY <1>2, <1>7 DEF Backed, Priced
<1>9. \A t \in Trajectories : \A p, q \in Policies :
        outcome'[t][p] # None /\ outcome'[t][q] # None
          => SameNumber(outcome[t][p], outcome[t][q])'
  BY <1>2, <1>7 DEF SameNumber
<1> QED
  BY <1>2, <1>6, <1>7, <1>8, <1>9 DEF OutcomesInv

\* No step leaves SettleInv or OutcomesInv.
LEMMA SettleStep ==
  ASSUME TypeOK, MarksInv, [Next]_vars
  PROVE  SettleInv' /\ OutcomesInv'
<1>1. RowsFinal /\ EntryFinal
  BY FinalStep
<1> DEFINE Aside == pc' \in SettlePcs => pc' = pc /\ outs' = outs /\ cur' = cur
           Unsettled ==
             \A t \in Trajectories : state'[t] = "SETTLED" => state[t] = "SETTLED"
<1>2. ASSUME Aside, Unsettled, outcome' = outcome
      PROVE  SettleInv' /\ OutcomesInv'
  BY <1>1, <1>2, SettleStays, OutcomesStay
<1>3. ASSUME NEW ret \in {"loop", "cycle"}, BeginPass(ret)
      PROVE  Aside /\ Unsettled /\ outcome' = outcome
  BY <1>3 DEF BeginPass, rows, SettlePcs
<1>4. ASSUME NEW next \in {"loop", "cycle"}, DropPass(next)
      PROVE  Aside /\ Unsettled /\ outcome' = outcome
  BY <1>4 DEF DropPass, rows, SettlePcs
<1>5. ASSUME NEW t \in Trajectories, Visit(t)
      PROVE  Aside /\ Unsettled /\ outcome' = outcome
  BY <1>5 DEF Visit, rows, SettlePcs
<1>6. ASSUME NEW o \in Offsets, BeginMark(o)
      PROVE  Aside /\ Unsettled /\ outcome' = outcome
  BY <1>6 DEF BeginMark, rows, SettlePcs
<1>7. ASSUME NEW price \in Prices \cup {Unpriced}, InsertMark(price)
      PROVE  Aside /\ Unsettled /\ outcome' = outcome
  BY <1>7 DEF InsertMark, SettlePcs
<1>8. CASE InsertCounterfactual
  <2>1. Aside /\ Unsettled /\ outcome' = outcome
    BY <1>8 DEF InsertCounterfactual, SettlePcs
  <2> QED
    BY <1>2, <2>1
<1>9. CASE EndVisit
  <2>1. Unsettled /\ outcome' = outcome
    BY <1>9 DEF EndVisit, rows
  <2> QED
    BY <1>1, <1>9, <2>1, EndVisitSettles, OutcomesStay
<1>10. CASE InsertOutcome
  BY <1>1, <1>10, InsertOutcomeSettles
<1>11. CASE OutcomeConflict \/ Abort
  <2>1. PICK next \in {"loop", "cycle"} : DropPass(next)
    BY <1>11 DEF OutcomeConflict, Abort, TypeOK
  <2> QED
    BY <1>2, <1>4, <2>1
<1>12. CASE Close
  <2>1. pc' \notin SettlePcs /\ outcome' = outcome
    BY <1>12 DEF Close, SettlePcs
  <2> QED
    BY <1>1, <1>12, <2>1, CloseSettles, SettleStays
<1>13. CASE Discover \/ PassReturns \/ Tick \/ UNCHANGED vars
  <2>1. UNCHANGED rows
    BY <1>13 DEF Discover, PassReturns, Tick, vars
  <2>2. Aside
    <3>1. CASE Discover \/ PassReturns
      BY <3>1 DEF Discover, PassReturns, SettlePcs, TypeOK
    <3>2. CASE Tick \/ UNCHANGED vars
      BY <3>2 DEF Tick, vars, locals
    <3> QED
      BY <1>13, <3>1, <3>2
  <2> QED
    BY <1>2, <2>1, <2>2 DEF rows
<1>14. ASSUME NEW t \in Trajectories, OpenTrajectory(t)
       PROVE  Aside /\ Unsettled /\ outcome' = outcome
  BY <1>14 DEF OpenTrajectory, TypeOK, SettlePcs
<1>15. ASSUME NEW t \in Trajectories, Replay(t)
       PROVE  Aside /\ Unsettled /\ outcome' = outcome
  BY <1>15 DEF Replay, locals
<1>16. CASE MarksOnly \/ YieldToMarks \/ EndCycle
  <2>1. PICK ret \in {"loop", "cycle"} : BeginPass(ret)
    BY <1>16 DEF MarksOnly, YieldToMarks, EndCycle
  <2> QED
    BY <1>2, <1>3, <2>1
<1> HIDE DEF Aside, Unsettled
<1> QED
  BY <1>2, <1>5, <1>6, <1>7, <1>8, <1>9, <1>10, <1>11, <1>12, <1>13, <1>14, <1>15,
     <1>16 DEF Next, Collector

(***************************************************************************)
(* The decisions.                                                           *)
(***************************************************************************)

\* Where every horizon is recorded the path does not change any more.
LEMMA PathStays ==
  ASSUME RowsFinal, NEW t \in Trajectories, Unrecorded(t) = {}
  PROVE  Unrecorded(t)' = {} /\ Path(t)' = Path(t)
<1>1. \A o \in Offsets : mark[t][o] # None /\ mark'[t][o] = mark[t][o]
  BY DEF RowsFinal, Unrecorded
<1> QED
  BY <1>1 DEF Path, Unrecorded

\* An evaluation says what the policy decides of the path as it is.
LEMMA EvaluateFollows ==
  ASSUME NEW t, NEW p
  PROVE  Follows(p, Path(t), Evaluate(t, p))
<1> DEFINE d == Decide(p, Path(t))
           contract == ContractAt(t, d.fill)
<1>1. /\ Evaluate(t, p).trigger = d.trigger
      /\ Evaluate(t, p).exit = IF contract = None THEN None ELSE <<contract, d.fill>>
  BY DEF Evaluate
<1> HIDE DEF d, contract
<1>2. Evaluate(t, p).exit # None => Evaluate(t, p).exit[2] = d.fill
  BY <1>1
<1> QED
  BY <1>1, <1>2 DEF Follows, d

\* Only the end of a visit computes outcomes, and only an insert writes one.
LEMMA AsideStep ==
  ASSUME TypeOK, [Next]_vars
  PROVE  \/ EndVisit \/ InsertOutcome
         \/ /\ outcome' = outcome
            /\ pc' \in SettlePcs => pc' = pc /\ outs' = outs /\ cur' = cur
<1> DEFINE Aside == /\ outcome' = outcome
                    /\ pc' \in SettlePcs => pc' = pc /\ outs' = outs /\ cur' = cur
<1> SUFFICES EndVisit \/ InsertOutcome \/ Aside
  OBVIOUS
<1>1. ASSUME NEW ret \in {"loop", "cycle"}, BeginPass(ret)
      PROVE  Aside
  BY <1>1 DEF BeginPass, rows, SettlePcs
<1>2. ASSUME NEW next \in {"loop", "cycle"}, DropPass(next)
      PROVE  Aside
  BY <1>2 DEF DropPass, rows, SettlePcs
<1>3. ASSUME NEW t \in Trajectories, Visit(t)
      PROVE  Aside
  BY <1>3 DEF Visit, rows, SettlePcs
<1>4. ASSUME NEW o \in Offsets, BeginMark(o)
      PROVE  Aside
  BY <1>4 DEF BeginMark, rows, SettlePcs
<1>5. ASSUME NEW price \in Prices \cup {Unpriced}, InsertMark(price)
      PROVE  Aside
  BY <1>5 DEF InsertMark, SettlePcs
<1>6. CASE InsertCounterfactual \/ Close
  BY <1>6 DEF InsertCounterfactual, Close, SettlePcs
<1>7. CASE OutcomeConflict \/ Abort
  <2>1. PICK next \in {"loop", "cycle"} : DropPass(next)
    BY <1>7 DEF OutcomeConflict, Abort, TypeOK
  <2> QED
    BY <1>2, <2>1
<1>8. CASE Discover \/ PassReturns
  BY <1>8 DEF Discover, PassReturns, SettlePcs, TypeOK, rows
<1>9. CASE Tick \/ UNCHANGED vars
  BY <1>9 DEF Tick, vars, locals, rows
<1>10. ASSUME NEW t \in Trajectories, OpenTrajectory(t) \/ Replay(t)
       PROVE  Aside
  BY <1>10 DEF OpenTrajectory, Replay, locals
<1>11. CASE MarksOnly \/ YieldToMarks \/ EndCycle
  <2>1. PICK ret \in {"loop", "cycle"} : BeginPass(ret)
    BY <1>11 DEF MarksOnly, YieldToMarks, EndCycle
  <2> QED
    BY <1>1, <2>1
<1> HIDE DEF Aside
<1> QED
  BY <1>3, <1>4, <1>5, <1>6, <1>7, <1>8, <1>9, <1>10, <1>11 DEF Next, Collector

\* What was decided stays decided while no outcome is written.
LEMMA DecidedStays ==
  ASSUME RowsFinal, DecidedInv, outcome' = outcome
  PROVE  \A t \in Trajectories : \A p \in Policies :
           outcome'[t][p] # None =>
             Unrecorded(t)' = {} /\ Follows(p, Path(t), outcome[t][p])'
<1> TAKE t \in Trajectories
<1> TAKE p \in Policies
<1> HAVE outcome'[t][p] # None
<1>1. Unrecorded(t) = {} /\ Follows(p, Path(t), outcome[t][p])
  BY DEF DecidedInv
<1>2. Unrecorded(t)' = {} /\ Path(t)' = Path(t)
  BY <1>1, PathStays
<1> QED
  BY <1>1, <1>2 DEF Follows

\* No step leaves DecidedInv.
LEMMA DecidedStep ==
  ASSUME TypeOK, MarksInv, DecidedInv, [Next]_vars
  PROVE  DecidedInv'
<1>1. RowsFinal
  BY FinalStep
<1>2. ASSUME outcome' = outcome,
             pc' \in SettlePcs => pc' = pc /\ outs' = outs /\ cur' = cur
      PROVE  DecidedInv'
  <2>1. ASSUME pc' \in SettlePcs, NEW p \in Policies
        PROVE  Follows(p, Path(cur), outs[p])'
    <3>1. /\ pc \in SettlePcs /\ outs' = outs /\ cur' = cur /\ cur \in Trajectories
      BY <1>2, <2>1 DEF MarksInv, PassInv, SettlePcs, Open
    <3>2. Unrecorded(cur) = {} /\ Follows(p, Path(cur), outs[p])
      BY <3>1 DEF DecidedInv, MarksInv, SettleInv, PathIsComplete
    <3>3. PICK t \in Trajectories : t = cur
      BY <3>1
    <3>4. Path(t)' = Path(t)
      BY <1>1, <3>2, <3>3, PathStays
    <3>5. Path(cur)' = Path(cur)
      BY <3>1, <3>3, <3>4 DEF Path
    <3> QED
      BY <3>1, <3>2, <3>5 DEF Follows
  <2> QED
    BY <1>1, <1>2, <2>1, DecidedStays DEF DecidedInv
<1>3. CASE EndVisit
  <2>1. /\ outcome' = outcome /\ mark' = mark
        /\ pc' \in SettlePcs =>
             cur' = cur /\ outs' = [p \in Policies |-> Evaluate(cur, p)]
    BY <1>3 DEF EndVisit, rows, SettlePcs
  <2>2. ASSUME pc' \in SettlePcs, NEW p \in Policies
        PROVE  Follows(p, Path(cur), outs[p])'
    <3>1. Follows(p, Path(cur), Evaluate(cur, p))
      BY EvaluateFollows
    <3>2. Path(cur)' = Path(cur) /\ outs'[p] = Evaluate(cur, p)
      BY <2>1, <2>2 DEF Path
    <3> QED
      BY <3>1, <3>2 DEF Follows
  <2> QED
    BY <1>1, <2>1, <2>2, DecidedStays DEF DecidedInv
<1>4. CASE InsertOutcome
  <2>1. /\ pc \in SettlePcs /\ cur \in Trajectories
        /\ mark' = mark /\ outs' = outs /\ cur' = cur
    BY <1>4 DEF InsertOutcome, PolicyAt, SettlePcs, MarksInv, PassInv, Open, locals
  <2>2. PICK p \in Policies : outcome' = [outcome EXCEPT ![cur][p] = outs[p]]
    <3>1. pc \in {"control", "challenger"} /\ PolicyAt[pc] \in Policies
      BY <1>4 DEF InsertOutcome, PolicyAt, Policies
    <3> QED
      BY <1>4, <3>1 DEF InsertOutcome
  <2>3. /\ \A q \in Policies : Follows(q, Path(cur), outs[q])
        /\ Unrecorded(cur) = {}
    BY <2>1 DEF DecidedInv, MarksInv, SettleInv, PathIsComplete
  <2>4. /\ \A t : Path(t)' = Path(t) /\ Unrecorded(t)' = Unrecorded(t)
        /\ Path(cur)' = Path(cur)
    BY <2>1 DEF Path, Unrecorded
  <2>5. \A q \in Policies : Follows(q, Path(cur), outs[q])'
    BY <2>1, <2>3, <2>4 DEF Follows
  <2>6. ASSUME NEW t \in Trajectories, NEW q \in Policies, outcome'[t][q] # None
        PROVE  Unrecorded(t)' = {} /\ Follows(q, Path(t), outcome[t][q])'
    <3>1. CASE t = cur /\ q = p
      <4>1. outcome'[t][q] = outs[q]
        BY <2>1, <2>2, <3>1 DEF TypeOK
      <4> QED
        BY <2>3, <2>4, <3>1, <4>1 DEF Follows
    <3>2. CASE ~(t = cur /\ q = p)
      <4>1. outcome'[t][q] = outcome[t][q]
        BY <2>2, <3>2 DEF TypeOK
      <4>2. Unrecorded(t) = {} /\ Follows(q, Path(t), outcome[t][q])
        BY <2>6, <4>1 DEF DecidedInv
      <4> QED
        BY <2>4, <4>1, <4>2 DEF Follows
    <3> QED
      BY <3>1, <3>2
  <2> QED
    BY <2>5, <2>6 DEF DecidedInv
<1> QED
  BY <1>2, <1>3, <1>4, AsideStep

\* What a policy decides, in the words of the property: the control leaves at its
\* clock; the challenger at the first collapse, or at a clock.
LEMMA DecisionsMeanWhatTheySay ==
  ASSUME NEW path
  PROVE
    LET control == Decide("FIXED_15M_CONTROL", path)
        challenger == Decide("FLOW_LIQUIDITY_DETERIORATION_V1", path)
        late == {o \in Offsets : o >= Horizon + Extension}
    IN
      /\ control.trigger = Horizon /\ control.fill = Horizon
      /\ Collapses(path) # {} =>
           /\ challenger.trigger = First(Collapses(path))
           /\ challenger.fill = FirstFillAfter(path, First(Collapses(path)))
      /\ Collapses(path) = {} =>
           /\ challenger.fill = challenger.trigger
           /\ challenger.trigger =
                IF Improves(path) /\ late # {} THEN First(late) ELSE Horizon
<1> DEFINE late == {o \in Offsets : o >= Horizon + Extension}
           soon == {o \in Offsets : o >= Horizon}
<1>1. First(soon) = Horizon
  <2>1. Horizon \in soon /\ soon \subseteq Offsets /\ Offsets \subseteq Nat
    BY ExitPolicyAssumption
  <2>2. First(soon) \in soon /\ First(soon) <= Horizon
    BY <2>1, FirstIsLeast
  <2>3. PICK x \in Nat : x = First(soon) /\ x >= Horizon /\ x <= Horizon
    BY <2>1, <2>2
  <2>4. Horizon \in Nat
    BY <2>1
  <2>5. x = Horizon
    BY ONLY <2>3, <2>4
  <2> QED
    BY <2>3, <2>5
<1>2. Collapses(path) # {} => First(Collapses(path)) # None
  BY FirstIsLeast, ExitPolicyAssumption DEF Collapses
<1>3. Collapses(path) = {} => First(Collapses(path)) = None
  BY DEF First
<1>4. late # {} <=> First(late) # None
  BY FirstIsLeast, ExitPolicyAssumption DEF First
<1>5. Control(path) = [trigger |-> Horizon, fill |-> Horizon]
  BY <1>1 DEF Control, AtClock
<1>6. /\ Decide("FIXED_15M_CONTROL", path) = Control(path)
      /\ Decide("FLOW_LIQUIDITY_DETERIORATION_V1", path) = Challenger(path)
  BY DEF Decide
<1>7. ASSUME Collapses(path) # {}
      PROVE  Challenger(path) =
               [trigger |-> First(Collapses(path)),
                fill |-> FirstFillAfter(path, First(Collapses(path)))]
  BY <1>2, <1>7 DEF Challenger
<1>8. ASSUME Collapses(path) = {}
      PROVE  Challenger(path) = IF Improves(path) /\ late # {}
                                  THEN [trigger |-> First(late), fill |-> First(late)]
                                  ELSE [trigger |-> Horizon, fill |-> Horizon]
  BY <1>3, <1>4, <1>5, <1>8 DEF Challenger, AtClock
<1> HIDE DEF late
<1>9. Collapses(path) = {} =>
        /\ Challenger(path).fill = Challenger(path).trigger
        /\ Challenger(path).trigger =
             IF Improves(path) /\ late # {} THEN First(late) ELSE Horizon
  BY <1>8
<1>10. Collapses(path) # {} =>
         /\ Challenger(path).trigger = First(Collapses(path))
         /\ Challenger(path).fill = FirstFillAfter(path, First(Collapses(path)))
  BY <1>7
<1>11. Control(path).trigger = Horizon /\ Control(path).fill = Horizon
  BY <1>5
<1> QED
  BY <1>6, <1>9, <1>10, <1>11 DEF late

\* The fill after a trigger is the first tradable mark after it.
LEMMA FillIsFirstTradable ==
  ASSUME NEW path, NEW o, FirstFillAfter(path, o) \in Offsets
  PROVE  /\ FirstFillAfter(path, o) > o /\ Tradable(path, FirstFillAfter(path, o))
         /\ \A q \in Offsets : o < q /\ q < FirstFillAfter(path, o) => ~Tradable(path, q)
<1> DEFINE S == {q \in Offsets : q > o /\ Tradable(path, q)}
<1>1. FirstFillAfter(path, o) = First(S)
  BY DEF FirstFillAfter
<1>2. S # {}
  BY <1>1, ExitPolicyAssumption DEF First
<1>3. First(S) \in S /\ \A q \in S : First(S) <= q
  BY <1>2, FirstIsLeast
<1>4. ASSUME NEW q \in Offsets, o < q, q < First(S), Tradable(path, q)
      PROVE  FALSE
  <2>1. q \in S
    BY <1>4
  <2>2. First(S) <= q /\ q \in Nat /\ First(S) \in Nat
    BY <1>3, <2>1, ExitPolicyAssumption
  <2> QED
    BY <1>4, <2>2
<1> QED
  BY <1>1, <1>3, <1>4

(***************************************************************************)
(* The holes.                                                               *)
(***************************************************************************)

\* There are finitely many holes, and a mark is one of them when it is priced,
\* wants a row and has none.
LEMMA HolesFacts ==
  /\ IsFiniteSet(Holes) /\ Cardinality(Holes) \in Nat
  /\ Holes \subseteq Trajectories \X Offsets
  /\ \A t \in Trajectories, o \in Offsets :
       <<t, o>> \in Holes <=>
         Priced(t, o) /\ entry[t] # "unknown" /\ bounded[t][o] = "none"
<1>1. Holes \subseteq Trajectories \X Offsets
  BY DEF Holes
<1>2. IsFiniteSet(Trajectories \X Offsets)
  BY FS_Product, MarksAssumption, ExitPolicyAssumption
<1>3. IsFiniteSet(Holes)
  BY <1>1, <1>2, FS_Subset
<1> QED
  BY <1>1, <1>3, FS_CardinalityType DEF Holes

\* The same holds after a step.
LEMMA HolesFactsNext ==
  /\ Holes' \subseteq Trajectories \X Offsets
  /\ \A t \in Trajectories, o \in Offsets :
       <<t, o>> \in Holes' <=>
         Priced(t, o)' /\ entry'[t] # "unknown" /\ bounded'[t][o] = "none"
  BY DEF Holes, Priced

\* Holes are told apart by their trajectory and their horizon.
LEMMA SamePairs ==
  ASSUME NEW A, A \subseteq Trajectories \X Offsets,
         NEW B, B \subseteq Trajectories \X Offsets,
         \A t \in Trajectories, o \in Offsets : <<t, o>> \in A <=> <<t, o>> \in B
  PROVE  A = B
  OBVIOUS

\* A step that writes neither marks nor contract rows leaves the holes.
LEMMA HolesSame ==
  ASSUME RowsInv, EntryFinal, UNCHANGED <<mark, bounded>>
  PROVE  Holes' = Holes
<1>1. \A t \in Trajectories, o \in Offsets : Priced(t, o)' <=> Priced(t, o)
  BY DEF Priced
<1>2. \A t \in Trajectories, o \in Offsets : Priced(t, o) => entry'[t] = entry[t]
  BY DEF RowsInv, EntryFinal, Priced
<1>3. ASSUME NEW t \in Trajectories, NEW o \in Offsets
      PROVE  <<t, o>> \in Holes' <=> <<t, o>> \in Holes
  <2>1. <<t, o>> \in Holes <=>
          Priced(t, o) /\ entry[t] # "unknown" /\ bounded[t][o] = "none"
    BY HolesFacts
  <2>2. <<t, o>> \in Holes' <=>
          Priced(t, o)' /\ entry'[t] # "unknown" /\ bounded'[t][o] = "none"
    BY HolesFactsNext
  <2> QED
    BY <1>1, <1>2, <2>1, <2>2
<1> QED
  BY <1>3, HolesFacts, HolesFactsNext, SamePairs

\* A mark inserted makes a hole when a row is due for it, and none otherwise.
LEMMA InsertMarkHoles ==
  ASSUME TypeOK, MarksInv, HolesInv,
         NEW price \in Prices \cup {Unpriced}, InsertMark(price)
  PROVE  HolesInv'
<1>1. PICK o \in Offsets : o = First(due)
  BY HorizonDue DEF InsertMark, MarksInv, PassInv
<1>2. PICK t \in Trajectories : t = cur
  BY DEF InsertMark, MarksInv, PassInv, Open
<1>3. /\ pc = "read" /\ mark[t][o] = None
      /\ mark' = [mark EXCEPT ![t][o] = MarkOf(o, price)]
      /\ UNCHANGED <<entry, bounded, cur, aborts>>
      /\ WantsCounterfactual(t, price) => pc' = "counterfactual" /\ due' = due
      /\ ~WantsCounterfactual(t, price) => pc' = "mark"
  BY <1>1, <1>2 DEF InsertMark
<1>4. bounded[t][o] = "none"
  BY <1>3 DEF HolesInv
<1>5. /\ mark'[t][o] = MarkOf(o, price)
      /\ \A u \in Trajectories, q \in Offsets :
           u # t \/ q # o => mark'[u][q] = mark[u][q]
  BY <1>3 DEF TypeOK
<1>6. MarkOf(o, price) # None /\ MarkOf(o, price).price = price
  <2>1. MarkOf(o, price) \in MarkRow
    BY DEF MarkOf, MarkRow, Status
  <2> QED
    BY <2>1, MarksAssumption DEF MarkOf
<1>7. Priced(t, o)' <=> price # Unpriced
  BY <1>5, <1>6 DEF Priced
<1>8. \A u \in Trajectories, q \in Offsets :
        u # t \/ q # o => (Priced(u, q)' <=> Priced(u, q))
  BY <1>5 DEF Priced
<1>9. \A u \in Trajectories, q \in Offsets :
        <<u, q>> # <<t, o>> => (<<u, q>> \in Holes' <=> <<u, q>> \in Holes)
  BY <1>3, <1>8, HolesFacts, HolesFactsNext
<1>10. <<t, o>> \notin Holes
  BY <1>3, HolesFacts DEF Priced
<1>11. <<t, o>> \in Holes' <=> WantsCounterfactual(t, price)
  BY <1>3, <1>4, <1>7, HolesFactsNext DEF WantsCounterfactual
<1>12. \A u \in Trajectories, q \in Offsets : bounded'[u][q] # "none" => mark'[u][q] # None
  BY <1>3, <1>5, <1>6 DEF HolesInv
<1>13. aborts \in Nat /\ Cardinality(Holes) <= aborts
  BY <1>3, MarksAssumption DEF HolesInv, HolesAreAborts, TypeOK
<1>14. CASE WantsCounterfactual(t, price)
  <2>1. Holes' = Holes \cup {<<t, o>>}
    BY <1>9, <1>11, <1>14, HolesFacts, HolesFactsNext
  <2>2. Cardinality(Holes') = Cardinality(Holes) + 1
    BY <1>10, <2>1, HolesFacts, FS_AddElement
  <2>3. pc' = "counterfactual" /\ aborts' = aborts /\ Cardinality(Holes) \in Nat
    BY <1>3, <1>14, HolesFacts
  <2>4. Cardinality(Holes') <= aborts' + 1
    BY <1>13, <2>2, <2>3
  <2>5. HolesAreAborts'
    BY <2>3, <2>4 DEF HolesAreAborts
  <2>6. bounded'[cur'][First(due')] = "none"
    BY <1>1, <1>2, <1>3, <1>4, <1>14
  <2> QED
    BY <1>12, <2>5, <2>6 DEF HolesInv, First
<1>15. CASE ~WantsCounterfactual(t, price)
  <2>1. \A u \in Trajectories, q \in Offsets :
          <<u, q>> \in Holes' <=> <<u, q>> \in Holes
    BY <1>9, <1>10, <1>11, <1>15
  <2>2. Holes' = Holes
    BY <2>1, HolesFacts, HolesFactsNext, SamePairs
  <2>3. pc' = "mark" /\ aborts' = aborts
    BY <1>3, <1>15
  <2>4. HolesAreAborts'
    BY <1>13, <2>2, <2>3, HolesFacts DEF HolesAreAborts
  <2> QED
    BY <1>12, <2>3, <2>4 DEF HolesInv
<1> QED
  BY <1>14, <1>15

\* The contract row fills the hole its mark has made.
LEMMA InsertCounterfactualHoles ==
  ASSUME TypeOK, MarksInv, HolesInv, InsertCounterfactual
  PROVE  HolesInv'
<1>1. PICK o \in Offsets : o = First(due)
  BY HorizonDue DEF InsertCounterfactual, MarksInv, PassInv
<1>2. PICK t \in Trajectories : t = cur
  BY DEF InsertCounterfactual, MarksInv, PassInv, Open
<1>3. /\ pc = "counterfactual" /\ pc' = "mark" /\ UNCHANGED <<mark, entry, aborts>>
      /\ bounded[t][o] = "none"
      /\ bounded' = [bounded EXCEPT ![t][o] = IF @ = "none" THEN BoundedRow ELSE @]
  BY <1>1, <1>2 DEF InsertCounterfactual, HolesInv
<1>4. Priced(t, o) /\ entry[t] # "unknown"
  BY <1>1, <1>2, <1>3 DEF MarksInv, PassInv
<1>5. /\ bounded'[t][o] # "none"
      /\ \A u \in Trajectories, q \in Offsets :
           u # t \/ q # o => bounded'[u][q] = bounded[u][q]
  BY <1>3 DEF TypeOK, BoundedRow
<1>6. \A u \in Trajectories, q \in Offsets : Priced(u, q)' <=> Priced(u, q)
  BY <1>3 DEF Priced
<1>7. \A u \in Trajectories, q \in Offsets :
        <<u, q>> # <<t, o>> => (<<u, q>> \in Holes' <=> <<u, q>> \in Holes)
  BY <1>3, <1>5, <1>6, HolesFacts, HolesFactsNext
<1>8. <<t, o>> \in Holes /\ <<t, o>> \notin Holes'
  BY <1>3, <1>4, <1>5, HolesFacts, HolesFactsNext
<1>9. Holes' = Holes \ {<<t, o>>}
  BY <1>7, <1>8, HolesFacts, HolesFactsNext
<1>10. Cardinality(Holes') = Cardinality(Holes) - 1
  BY <1>8, <1>9, HolesFacts, FS_RemoveElement
<1>11. /\ Cardinality(Holes) \in Nat /\ aborts \in Nat
       /\ Cardinality(Holes) <= aborts + 1
  BY <1>3, HolesFacts, MarksAssumption DEF HolesInv, HolesAreAborts, TypeOK
<1>12. Cardinality(Holes') <= aborts' + 0
  BY <1>3, <1>10, <1>11
<1>13. HolesAreAborts'
  BY <1>3, <1>12 DEF HolesAreAborts
<1>14. \A u \in Trajectories, q \in Offsets : bounded'[u][q] # "none" => mark'[u][q] # None
  BY <1>3, <1>4, <1>5 DEF HolesInv, Priced
<1> QED
  BY <1>3, <1>13, <1>14 DEF HolesInv

\* Every other step leaves the marks and the contract rows, and only a death or
\* a throw leaves the place between the two inserts.
LEMMA NoInsert ==
  ASSUME TypeOK, [Next]_vars
  PROVE  \/ \E price \in Prices \cup {Unpriced} : InsertMark(price)
         \/ InsertCounterfactual
         \/ /\ UNCHANGED <<mark, bounded>>
            /\ \/ pc # "counterfactual" /\ pc' # "counterfactual" /\ aborts' = aborts
               \/ pc' # "counterfactual" /\ aborts' = aborts + 1
               \/ pc' = pc /\ cur' = cur /\ due' = due /\ aborts' = aborts
<1> DEFINE Beside == /\ UNCHANGED <<mark, bounded>>
                     /\ pc # "counterfactual" /\ pc' # "counterfactual" /\ aborts' = aborts
           Dies == /\ UNCHANGED <<mark, bounded>>
                   /\ pc' # "counterfactual" /\ aborts' = aborts + 1
           Still == /\ UNCHANGED <<mark, bounded>>
                    /\ pc' = pc /\ cur' = cur /\ due' = due /\ aborts' = aborts
<1>1. ASSUME NEW t \in Trajectories, Visit(t)
      PROVE  Beside
  BY <1>1 DEF Visit, rows
<1>2. ASSUME NEW o \in Offsets, BeginMark(o)
      PROVE  Beside
  BY <1>2 DEF BeginMark, rows
<1>3. CASE EndVisit \/ Close \/ Discover
  BY <1>3 DEF EndVisit, Close, Discover, rows
<1>4. CASE PassReturns
  BY <1>4 DEF PassReturns, rows, TypeOK
<1>5. CASE InsertOutcome
  BY <1>5 DEF InsertOutcome, PolicyAt, After
<1>6. CASE OutcomeConflict
  BY <1>6 DEF OutcomeConflict, PolicyAt, DropPass, rows, TypeOK
<1>7. CASE Abort
  <2>1. PICK next \in {"loop", "cycle"} : DropPass(next)
    BY <1>7 DEF Abort, TypeOK
  <2>2. Dies
    BY <1>7, <2>1 DEF Abort, DropPass, rows
  <2> QED
    BY <2>2
<1>8. CASE Tick \/ UNCHANGED vars
  BY <1>8 DEF Tick, vars, locals, rows
<1>9. ASSUME NEW t \in Trajectories, OpenTrajectory(t) \/ Replay(t)
      PROVE  Still
  BY <1>9 DEF OpenTrajectory, Replay, locals
<1>10. CASE MarksOnly \/ YieldToMarks \/ EndCycle
  <2>1. PICK ret \in {"loop", "cycle"} : BeginPass(ret) /\ pc \in {"loop", "cycle"}
    BY <1>10 DEF MarksOnly, YieldToMarks, EndCycle
  <2> QED
    BY <2>1 DEF BeginPass, rows
<1> QED
  BY <1>1, <1>2, <1>3, <1>4, <1>5, <1>6, <1>7, <1>8, <1>9, <1>10 DEF Next, Collector

\* No step leaves HolesInv.
LEMMA HolesStep ==
  ASSUME TypeOK, MarksInv, HolesInv, [Next]_vars
  PROVE  HolesInv'
<1>1. CASE \E price \in Prices \cup {Unpriced} : InsertMark(price)
  BY <1>1, InsertMarkHoles
<1>2. CASE InsertCounterfactual
  BY <1>2, InsertCounterfactualHoles
<1>3. CASE /\ UNCHANGED <<mark, bounded>>
           /\ \/ pc # "counterfactual" /\ pc' # "counterfactual" /\ aborts' = aborts
              \/ pc' # "counterfactual" /\ aborts' = aborts + 1
              \/ pc' = pc /\ cur' = cur /\ due' = due /\ aborts' = aborts
  <2>1. Holes' = Holes
    BY <1>3, FinalStep, HolesSame DEF MarksInv
  <2>2. /\ aborts \in Nat /\ Cardinality(Holes) \in Nat
        /\ Cardinality(Holes) <= aborts + (IF pc = "counterfactual" THEN 1 ELSE 0)
    BY HolesFacts, MarksAssumption DEF HolesInv, HolesAreAborts, TypeOK
  <2>3. Cardinality(Holes') <= aborts' + (IF pc' = "counterfactual" THEN 1 ELSE 0)
    BY <1>3, <2>1, <2>2
  <2>4. HolesAreAborts'
    BY <2>3 DEF HolesAreAborts
  <2>5. pc' = "counterfactual" => bounded'[cur'][First(due')] = "none"
    BY <1>3 DEF HolesInv
  <2>6. \A t \in Trajectories, o \in Offsets : bounded'[t][o] # "none" => mark'[t][o] # None
    BY <1>3 DEF HolesInv
  <2> QED
    BY <2>4, <2>5, <2>6 DEF HolesInv, First
<1> QED
  BY <1>1, <1>2, <1>3, NoInsert

(***************************************************************************)
(* The theorems.                                                            *)
(***************************************************************************)

\* The invariant holds before anything is opened.
LEMMA MarksInit ==
  Init => TypeOK /\ MarksInv
<1> SUFFICES ASSUME Init
             PROVE  TypeOK /\ MarksInv
  OBVIOUS
<1>1. 0 \in 0..AgeCap /\ 0 \in 0..MaxAborts
  BY MarksAssumption
<1>2. TypeOK
  BY <1>1 DEF Init, NoLocals, TypeOK, PassPcs
<1>3. Horizon \in Offsets
  BY ExitPolicyAssumption
<1>4. PassInv
  BY DEF Init, NoLocals, PassInv
<1>5. RowsInv
  BY <1>3 DEF Init, RowsInv
<1>6. SettleInv
  BY DEF Init, SettleInv, SettlePcs
<1>7. OutcomesInv
  BY DEF Init, OutcomesInv, Policies
<1> QED
  BY <1>2, <1>4, <1>5, <1>6, <1>7 DEF MarksInv

\* The invariant is inductive.
LEMMA MarksStep ==
  TypeOK /\ MarksInv /\ [Next]_vars => TypeOK' /\ MarksInv'
  BY TypeStep, PassStep, RowsStep, SettleStep DEF MarksInv

\* Every variable keeps its type: the collector never visits a trajectory that
\* is not there, and the outcomes it holds are rows.
THEOREM MarksTypeCorrect == Spec => []TypeOK
<1>1. Init => TypeOK /\ MarksInv
  BY MarksInit
<1>2. TypeOK /\ MarksInv /\ [Next]_vars => TypeOK' /\ MarksInv'
  BY MarksStep
<1> QED
  BY <1>1, <1>2, PTL DEF Spec

\* What a pass holds in memory agrees with the rows and the clock at every
\* moment, whatever else commits and whenever it dies.
THEOREM MarksInvariant == Spec => []MarksInv
<1>1. Init => TypeOK /\ MarksInv
  BY MarksInit
<1>2. TypeOK /\ MarksInv /\ [Next]_vars => TypeOK' /\ MarksInv'
  BY MarksStep
<1> QED
  BY <1>1, <1>2, PTL DEF Spec

\* A mark is never begun before its horizon, nor for a horizon that has one.
THEOREM EveryHorizonMarkedOnce == Spec => []OneMarkPerHorizon
<1>1. TypeOK /\ MarksInv => OneMarkPerHorizon
  <2> SUFFICES ASSUME TypeOK, MarksInv, pc = "read"
               PROVE  at >= First(due) /\ mark[cur][First(due)] = None
    BY DEF OneMarkPerHorizon
  <2>1. due # {} /\ at >= First(due) /\ \A o \in due : o \in Unrecorded(cur)
    BY DEF MarksInv, PassInv
  <2>2. First(due) \in due
    BY <2>1, HorizonDue
  <2> QED
    BY <2>1, <2>2 DEF Unrecorded
<1> QED
  BY <1>1, MarksTypeCorrect, MarksInvariant, PTL

\* A settled trajectory has all its marks and all its outcomes.
THEOREM SettledTrajectoriesAreComplete == Spec => []SettledIsComplete
<1>1. MarksInv => SettledIsComplete
  <2> SUFFICES ASSUME MarksInv, NEW t \in Trajectories, state[t] = "SETTLED"
               PROVE  /\ Unrecorded(t) = {}
                      /\ \E o \in Offsets : Priced(t, o)
                      /\ \A p \in Policies : outcome[t][p] # None
    BY DEF SettledIsComplete
  <2>1. PathIsComplete(t) /\ \A p \in Policies : outcome[t][p] # None
    BY DEF MarksInv, OutcomesInv
  <2>2. PICK o \in Offsets : Path(t)[o] # Unpriced
    BY <2>1 DEF PathIsComplete
  <2>3. Priced(t, o)
    BY <2>2 DEF Path, Priced
  <2> QED
    BY <2>1, <2>3 DEF PathIsComplete
<1> QED
  BY <1>1, MarksInvariant, PTL

\* Two policies that leave at one horizon are booked at one number.
THEOREM PolicyOutcomesArePaired == Spec => []OutcomesArePaired
<1>1. MarksInv => OutcomesArePaired
  BY DEF MarksInv, OutcomesInv, OutcomesArePaired
<1> QED
  BY <1>1, MarksInvariant, PTL

\* No exit is booked without a priced mark and a contract that covers it.
THEOREM BookedExitsAreBacked == Spec => []ExitsAreBacked
<1>1. MarksInv => ExitsAreBacked
  BY DEF MarksInv, OutcomesInv, ExitsAreBacked
<1> QED
  BY <1>1, MarksInvariant, PTL

\* What is recorded is never replaced.
THEOREM RecordedRowsAreFinal == Spec => RowsAreFinal
<1>1. TypeOK /\ MarksInv /\ [Next]_vars => [RowsFinal]_vars
  BY FinalStep
<1> QED
  BY <1>1, MarksTypeCorrect, MarksInvariant, PTL DEF Spec, RowsAreFinal, RowsFinal

\* The control leaves at its clock, the challenger at the first collapse of the
\* recorded path, filled at the next tradable mark, or at a clock: an outcome
\* never disagrees with the path beside it, whenever it was computed.
THEOREM OutcomesFollowPath == Spec => []ExitsFollowPath
<1>1. Init => DecidedInv
  BY DEF Init, DecidedInv, SettlePcs
<1>2. TypeOK /\ MarksInv /\ DecidedInv /\ [Next]_vars => DecidedInv'
  BY DecidedStep
<1>3. TypeOK /\ DecidedInv => ExitsFollowPath
  <2> SUFFICES ASSUME TypeOK, DecidedInv, NEW t \in Trajectories
               PROVE
    LET path == Path(t)
        control == outcome[t]["FIXED_15M_CONTROL"]
        challenger == outcome[t]["FLOW_LIQUIDITY_DETERIORATION_V1"]
        late == {o \in Offsets : o >= Horizon + Extension}
        AtTrigger(x) == x.exit # None => x.exit[2] = x.trigger
    IN
      /\ control # None => control.trigger = Horizon /\ AtTrigger(control)
      /\ challenger # None /\ Collapses(path) # {} =>
           /\ challenger.trigger = First(Collapses(path))
           /\ challenger.exit # None =>
                LET fill == challenger.exit[2] IN
                  /\ fill > challenger.trigger /\ Tradable(path, fill)
                  /\ \A o \in Offsets :
                       challenger.trigger < o /\ o < fill => ~Tradable(path, o)
      /\ challenger # None /\ Collapses(path) = {} =>
           /\ AtTrigger(challenger)
           /\ challenger.trigger =
                IF Improves(path) /\ late # {} THEN First(late) ELSE Horizon
    BY DEF ExitsFollowPath
  <2> DEFINE path == Path(t)
             control == outcome[t]["FIXED_15M_CONTROL"]
             challenger == outcome[t]["FLOW_LIQUIDITY_DETERIORATION_V1"]
             late == {o \in Offsets : o >= Horizon + Extension}
             d == Decide("FIXED_15M_CONTROL", path)
             e == Decide("FLOW_LIQUIDITY_DETERIORATION_V1", path)
  <2>1. /\ control # None =>
             control.trigger = d.trigger /\ (control.exit # None => control.exit[2] = d.fill)
        /\ challenger # None =>
             /\ challenger.trigger = e.trigger
             /\ challenger.exit # None => challenger.exit[2] = e.fill
    BY DEF DecidedInv, Follows, Policies
  <2>2. challenger # None /\ challenger.exit # None => challenger.exit[2] \in Offsets
    <3>1. challenger \in OutcomeRow \cup {None}
      BY DEF TypeOK, Policies
    <3> QED
      BY <3>1 DEF OutcomeRow, Exits
  <2>3. /\ d.trigger = Horizon /\ d.fill = Horizon
        /\ Collapses(path) # {} =>
             /\ e.trigger = First(Collapses(path))
             /\ e.fill = FirstFillAfter(path, First(Collapses(path)))
        /\ Collapses(path) = {} =>
             /\ e.fill = e.trigger
             /\ e.trigger = IF Improves(path) /\ late # {} THEN First(late) ELSE Horizon
    BY DecisionsMeanWhatTheySay
  <2> HIDE DEF path, control, challenger, late, d, e
  <2>4. control # None =>
          control.trigger = Horizon /\ (control.exit # None => control.exit[2] = control.trigger)
    BY <2>1, <2>3
  <2>5. ASSUME challenger # None, Collapses(path) # {}
        PROVE  /\ challenger.trigger = First(Collapses(path))
               /\ challenger.exit # None =>
                    /\ challenger.exit[2] > challenger.trigger
                    /\ Tradable(path, challenger.exit[2])
                    /\ \A o \in Offsets :
                         challenger.trigger < o /\ o < challenger.exit[2]
                           => ~Tradable(path, o)
    BY <2>1, <2>2, <2>3, <2>5, FillIsFirstTradable
  <2>6. challenger # None /\ Collapses(path) = {} =>
          /\ challenger.exit # None => challenger.exit[2] = challenger.trigger
          /\ challenger.trigger =
               IF Improves(path) /\ late # {} THEN First(late) ELSE Horizon
    BY <2>1, <2>3
  <2> QED
    BY <2>4, <2>5, <2>6 DEF path, control, challenger, late
<1> QED
  BY <1>1, <1>2, <1>3, MarksTypeCorrect, MarksInvariant, PTL DEF Spec

\* A priced mark is left without its contract row only by a death or a throw
\* between the two inserts, one mark for each of them, however many there are.
THEOREM HolesAreCounted == Spec => []HolesAreAborts
<1>1. Init => HolesInv
  <2> SUFFICES ASSUME Init
               PROVE  HolesInv
    OBVIOUS
  <2>1. Holes = {}
    BY DEF Init, Holes, Priced
  <2>2. HolesAreAborts
    BY <2>1, FS_EmptySet DEF Init, HolesAreAborts
  <2> QED
    BY <2>2 DEF Init, HolesInv
<1>2. TypeOK /\ MarksInv /\ HolesInv /\ [Next]_vars => HolesInv'
  BY HolesStep
<1>3. HolesInv => HolesAreAborts
  BY DEF HolesInv
<1> QED
  BY <1>1, <1>2, <1>3, MarksTypeCorrect, MarksInvariant, PTL DEF Spec

(***************************************************************************)
(* The loop of the challenger. What it knows after the marks of a set S,     *)
(* taken in the order of their horizons, and what one more mark adds.        *)
(***************************************************************************)

Turn == [last: Nat, fired: Offsets \cup {None}, improved: BOOLEAN]

Known(path, S) == Measured(path) \cap S

\* The capacity collapses at b, as far as the marks of S tell.
FallsAt(path, S, b) ==
  \E a \in Known(path, S) :
    /\ b \in Known(path, S) /\ a < b
    /\ \A c \in Known(path, S) : ~(a < c /\ c < b)
    /\ path[a] > 0 /\ Dropped(path[a], path[b])

Falls(path, S) == {o \in S : FallsAt(path, S, o)}

Rises(path, S) ==
  \E a, b \in Known(path, S) : a < b /\ 0 < path[a] /\ path[a] < path[b]

LoopKnows(s, path, S) ==
  /\ s.fired = First(Falls(path, S))
  /\ Falls(path, S) = {} =>
       /\ s.improved = Rises(path, S)
       /\ Known(path, S) = {} => s.last = 0
       /\ \A a \in Known(path, S) : (\A c \in Known(path, S) : c <= a) => s.last = path[a]
       /\ s.last = 0 => \A a \in Known(path, S) : path[a] = 0

\* I is the loop over each set of horizons, the last one measured last.
IsScan(I, path) ==
  /\ I \in [SUBSET Offsets -> Turn]
  /\ I[{}] = [last |-> 0, fired |-> None, improved |-> FALSE]
  /\ \A S \in SUBSET Offsets : S # {} =>
       I[S] = Measure(I[S \ {Max(S)}], Max(S), path[Max(S)])

LEMMA MaxIsLast ==
  ASSUME NEW S \in SUBSET Offsets, S # {}
  PROVE  Max(S) \in S /\ \A y \in S : y <= Max(S)
<1>1. IsFiniteSet(S) /\ S \subseteq Nat
  BY ExitPolicyAssumption, FS_Subset
<1>2. PICK x \in S : \A y \in S : y <= x
  BY <1>1, GreatestExists
<1>3. \A y \in S : x >= y
  BY <1>1, <1>2
<1>4. \A y \in S : Max(S) >= y /\ Max(S) \in S
  BY <1>2, <1>3 DEF Max
<1> QED
  BY <1>1, <1>2, <1>4

\* One turn keeps the shape of what the loop holds.
LEMMA MeasureType ==
  ASSUME NEW s \in Turn, NEW o \in Offsets, NEW cap \in Prices \cup {Unpriced}
  PROVE  Measure(s, o, cap) \in Turn
<1>1. cap # Unpriced => cap \in Nat
  BY ExitPolicyAssumption
<1>2. [s EXCEPT !.fired = o] \in Turn
  BY DEF Turn
<1> QED
  BY <1>1, <1>2 DEF Measure, Turn

\* A drop is a fall by part of what there was, and to lose all of it is one.
LEMMA DropFacts ==
  ASSUME NEW m \in Nat, NEW n \in Nat
  PROVE  /\ Dropped(m, n) \in BOOLEAN
         /\ Dropped(m, n) => n < m
         /\ m > 0 => Dropped(m, 0)
<1>1. PICK d \in Nat : d = DropBps /\ d <= 10000
  BY DropAssumption
<1>2. (m - 0) * 10000 >= d * m
  <2>1. PICK e \in Nat : 10000 = d + e
    <3>1. 10000 - d \in Nat /\ 10000 = d + (10000 - d)
      BY <1>1
    <3> QED
      BY <3>1
  <2>2. (d + e) * m = d * m + e * m /\ e * m \in Nat /\ d * m \in Nat
    BY <1>1, <2>1
  <2>3. 10000 * m >= d * m
    BY <2>1, <2>2
  <2> QED
    BY <2>3
<1> QED
  BY <1>1, <1>2 DEF Dropped

\* What one more mark, later than the others, adds to what the loop knows.
LEMMA TurnIsRight ==
  ASSUME NEW path \in Paths, NEW S \in SUBSET Offsets, NEW o \in Offsets,
         \A y \in S : y < o, NEW s \in Turn, LoopKnows(s, path, S)
  PROVE  LoopKnows(Measure(s, o, path[o]), path, S \cup {o})
<1> DEFINE T == S \cup {o}
           K == Known(path, S)
           L == Known(path, T)
<1>1. /\ S \subseteq Nat /\ o \in Nat /\ o \notin S /\ T \subseteq Offsets
      /\ K \subseteq S /\ K \subseteq Nat /\ \A y \in K : y < o
  <2>1. S \subseteq Nat /\ o \in Nat /\ K \subseteq S /\ T \subseteq Offsets
    BY ExitPolicyAssumption DEF Known
  <2>2. o \notin S
    BY <2>1
  <2> QED
    BY <2>1, <2>2
<1>2. \A a \in L : path[a] \in Nat /\ path[a] # Unpriced
  BY <1>1, ExitPolicyAssumption DEF Known, Measured, Paths
<1>3. K \subseteq L /\ \A a \in K : path[a] \in Nat
  BY <1>2 DEF Known
<1>4. /\ s.fired = First(Falls(path, S))
      /\ Falls(path, S) = {} =>
           /\ s.improved = Rises(path, S)
           /\ K = {} => s.last = 0
           /\ \A a \in K : (\A c \in K : c <= a) => s.last = path[a]
           /\ s.last = 0 => \A a \in K : path[a] = 0
  BY DEF LoopKnows
<1>5. s.last \in Nat /\ s.improved \in BOOLEAN /\ s.fired \in Offsets \cup {None}
  BY DEF Turn
<1>6. \A b \in S : FallsAt(path, T, b) <=> FallsAt(path, S, b)
  <2>1. \A b \in S, c \in L : c \in K \/ ~(c < b)
    BY <1>1 DEF Known
  <2>2. \A b \in S : b \in L <=> b \in K
    BY <1>1 DEF Known
  <2> HIDE DEF K, L, T
  <2>3. \A b \in S : (\E a \in L : /\ b \in L /\ a < b
                                 /\ \A c \in L : ~(a < c /\ c < b)
                                 /\ path[a] > 0 /\ Dropped(path[a], path[b]))
                  <=> (\E a \in K : /\ b \in K /\ a < b
                                 /\ \A c \in K : ~(a < c /\ c < b)
                                 /\ path[a] > 0 /\ Dropped(path[a], path[b]))
    BY <1>3, <2>1, <2>2
  <2> QED
    BY <2>3 DEF FallsAt, K, L, T
<1>7. /\ Falls(path, S) \subseteq Falls(path, T)
      /\ Falls(path, T) \subseteq Falls(path, S) \cup {o}
      /\ o \in Falls(path, T) <=> FallsAt(path, T, o)
      /\ Falls(path, S) \subseteq S
  BY <1>6 DEF Falls
<1>8. CASE path[o] = Unpriced
  <2>1. L = K
    BY <1>8 DEF Known, Measured
  <2>2. Measure(s, o, path[o]) = s
    BY <1>8 DEF Measure
  <2>3. ~FallsAt(path, T, o)
    BY <1>1, <2>1 DEF FallsAt
  <2>4. Falls(path, T) = Falls(path, S)
    BY <1>7, <2>3
  <2>5. Rises(path, T) = Rises(path, S)
    BY <2>1 DEF Rises
  <2> QED
    BY <2>1, <2>2, <2>4, <2>5 DEF LoopKnows
<1>9. CASE path[o] # Unpriced /\ Falls(path, S) # {}
  <2>1. s.fired \in Falls(path, S) /\ \A q \in Falls(path, S) : s.fired <= q
    BY <1>4, <1>7, <1>9, FirstIsLeast
  <2>2. Measure(s, o, path[o]) = s
    BY <1>7, <2>1, ExitPolicyAssumption DEF Measure
  <2>3. Falls(path, T) # {} /\ Falls(path, T) \subseteq Offsets
    BY <1>1, <1>7, <1>9
  <2>4. /\ First(Falls(path, T)) \in Falls(path, T)
        /\ \A q \in Falls(path, T) : First(Falls(path, T)) <= q
    BY <2>3, FirstIsLeast
  <2>5. First(Falls(path, T)) <= s.fired /\ s.fired < o /\ s.fired \in Nat
    BY <1>1, <1>7, <2>1, <2>4
  <2>6. First(Falls(path, T)) \in Falls(path, S)
    BY <1>1, <1>7, <2>4, <2>5
  <2>7. First(Falls(path, T)) = s.fired
    <3>1. First(Falls(path, T)) \in Nat /\ s.fired <= First(Falls(path, T))
      BY <1>1, <1>7, <2>1, <2>6
    <3> QED
      BY <2>5, <3>1
  <2> QED
    BY <2>2, <2>3, <2>7 DEF LoopKnows
<1>10. CASE path[o] # Unpriced /\ Falls(path, S) = {}
  <2>1. PICK cap \in Nat : cap = path[o] /\ o \in L /\ L = K \cup {o}
    <3>1. L = K \cup {o}
      BY <1>10 DEF Known, Measured
    <3> QED
      BY <1>2, <3>1
  <2>2. s.fired = None /\ None # o
    BY <1>4, <1>10, ExitPolicyAssumption DEF First
  <2>3. Falls(path, T) = IF FallsAt(path, T, o) THEN {o} ELSE {}
    BY <1>7, <1>10
  <2>4. First({o}) = o
    BY <1>1, FirstIsLeast
  <2>5. Rises(path, T) <=> Rises(path, S) \/ \E a \in K : 0 < path[a] /\ path[a] < cap
    <3> HIDE DEF K, L, T
    <3>1. (\E a, b \in L : a < b /\ 0 < path[a] /\ path[a] < path[b])
            <=> \/ \E a, b \in K : a < b /\ 0 < path[a] /\ path[a] < path[b]
                \/ \E a \in K : 0 < path[a] /\ path[a] < cap
      BY <1>1, <2>1
    <3> QED
      BY <3>1 DEF Rises, K, L, T
  <2>6. \A a \in L : (\A c \in L : c <= a) => a = o
    BY <1>1, <2>1
  <2> DEFINE next == [last |-> cap, fired |-> None,
                      improved |-> s.improved \/ (s.last > 0 /\ cap > s.last)]
  <2>7. CASE K = {}
    <3>1. ~FallsAt(path, T, o)
      BY <1>1, <2>1, <2>7 DEF FallsAt
    <3>2. s.last = 0
      BY <1>4, <1>10, <2>7
    <3>3. Measure(s, o, path[o]) = next
      BY <1>10, <2>1, <2>2, <3>2 DEF Measure
    <3>4. Rises(path, T) = Rises(path, S) /\ s.improved = Rises(path, S)
      BY <1>4, <1>10, <2>5, <2>7 DEF Rises
    <3>5. Falls(path, T) = {} /\ First(Falls(path, T)) = None
      BY <2>3, <3>1 DEF First
    <3>6. L = {o}
      BY <2>1, <2>7
    <3>7. /\ next.last = cap /\ next.fired = None /\ next.improved = Rises(path, T)
          /\ \A a \in L : path[a] = cap
      BY <1>5, <2>1, <3>2, <3>4, <3>6
    <3> HIDE DEF next, K
    <3> QED
      BY <3>3, <3>5, <3>6, <3>7 DEF LoopKnows
  <2>8. CASE K # {}
    <3>1. PICK g \in K : \A c \in K : c <= g
      <4>1. IsFiniteSet(K)
        BY <1>1, ExitPolicyAssumption, FS_Subset
      <4> QED
        BY <1>1, <2>8, <4>1, GreatestExists
    <3>2. PICK p \in Nat : p = path[g] /\ s.last = p /\ g < o /\ g \in L
      BY <1>1, <1>3, <1>4, <1>10, <3>1
    <3>3. FallsAt(path, T, o) <=> p > 0 /\ Dropped(p, cap)
      <4>1. \A c \in L : ~(g < c /\ c < o)
        BY <1>1, <2>1, <3>1
      <4>2. \A a \in L : a < o => a \in K /\ (a = g \/ (a < g /\ g < o))
        BY <1>1, <2>1, <3>1, <3>2
      <4> HIDE DEF K, L, T
      <4>3. (\E a \in L : /\ o \in L /\ a < o
                          /\ \A c \in L : ~(a < c /\ c < o)
                          /\ path[a] > 0 /\ Dropped(path[a], path[o]))
              <=> p > 0 /\ Dropped(p, cap)
        BY <2>1, <3>2, <4>1, <4>2
      <4> QED
        BY <4>3 DEF FallsAt, L, T
    <3>4. CASE p > 0 /\ Dropped(p, cap)
      <4>1. Measure(s, o, path[o]) = [s EXCEPT !.fired = o]
        BY <1>10, <2>1, <2>2, <3>2, <3>4 DEF Measure
      <4>2. Measure(s, o, path[o]).fired = o
        BY <4>1 DEF Turn
      <4>3. Falls(path, T) = {o}
        BY <2>3, <3>3, <3>4
      <4> QED
        BY <2>4, <4>2, <4>3 DEF LoopKnows
    <3>5. CASE ~(p > 0 /\ Dropped(p, cap))
      <4>1. Measure(s, o, path[o]) = next
        BY <1>10, <2>1, <2>2, <3>2, <3>5 DEF Measure
      <4>2. Falls(path, T) = {} /\ First(Falls(path, T)) = None
        BY <2>3, <3>3, <3>5 DEF First
      <4>3. cap = 0 => \A a \in L : path[a] = 0
        <5>1. cap = 0 => p = 0
          BY <3>5, DropFacts
        <5> QED
          BY <1>4, <1>10, <2>1, <3>2, <5>1
      <4>4. Rises(path, T) <=> s.improved \/ (p > 0 /\ cap > p)
        <5>1. p > 0 /\ cap > p => \E a \in K : 0 < path[a] /\ path[a] < cap
          BY <3>2
        <5>2. ASSUME NEW a \in K, 0 < path[a], path[a] < cap, ~Rises(path, S)
              PROVE  p > 0 /\ cap > p
          <6>1. path[a] \in Nat /\ a \in Nat /\ g \in Nat /\ a <= g
            BY <1>1, <1>3, <3>1
          <6>2. p > 0
            BY <1>4, <1>10, <3>2, <5>2, <6>1
          <6>3. CASE a = g
            BY <3>2, <5>2, <6>2, <6>3
          <6>4. CASE a # g
            <7>1. ~(path[a] < path[g])
              BY <5>2, <6>1, <6>4 DEF Rises
            <7> QED
              BY <3>2, <5>2, <6>1, <6>2, <7>1
          <6> QED
            BY <6>3, <6>4
        <5>3. s.improved = Rises(path, S)
          BY <1>4, <1>10
        <5> QED
          BY <2>5, <5>1, <5>2, <5>3
      <4>5. Rises(path, T) \in BOOLEAN
        BY DEF Rises
      <4>6. \A a \in L : (\A c \in L : c <= a) => cap = path[a]
        BY <2>1, <2>6
      <4> QED
        BY <1>5, <2>1, <3>2, <4>1, <4>2, <4>3, <4>4, <4>5, <4>6 DEF LoopKnows
    <3> QED
      BY <3>4, <3>5
  <2> QED
    BY <2>7, <2>8
<1> QED
  BY <1>8, <1>9, <1>10

\* The loop of the model is such a scan.
LEMMA ScanUnfolds ==
  ASSUME NEW path \in Paths
  PROVE  \E I : IsScan(I, path) /\ Scan(path) = I[Offsets]
<1> DEFINE last == [S \in SUBSET Offsets |-> Max(S)]
           start == [last |-> 0, fired |-> None, improved |-> FALSE]
           G == [p \in Offsets \X Turn |-> Measure(p[2], p[1], path[p[1]])]
           Body(J) == [S \in SUBSET Offsets |->
             IF S = {} THEN start ELSE Measure(J[S \ {Max(S)}], Max(S), path[Max(S)])]
           Iter == CHOOSE J : J = Body(J)
<1>1. \A S \in SUBSET Offsets : S # {} => Max(S) \in S
  BY MaxIsLast
<1>2. \A o \in Offsets, s \in Turn : Measure(s, o, path[o]) \in Turn
  BY MeasureType DEF Paths
<1>3. /\ G \in [Offsets \X Turn -> Turn]
      /\ \A o \in Offsets, s \in Turn : G[<<o, s>>] = Measure(s, o, path[o])
  BY <1>2
<1>4. /\ IsFiniteSet(Offsets) /\ start \in Turn
      /\ \A S \in SUBSET Offsets : S # {} => last[S] \in S
      /\ \A S \in SUBSET Offsets : last[S] = Max(S)
  BY <1>1, ExitPolicyAssumption DEF Turn
<1> HIDE DEF last, G, start
<1>5. PICK I : IsFold(I, Offsets, Turn, start, G, last)
  BY <1>3, <1>4, FoldExists
<1>6. I \in [SUBSET Offsets -> Turn] /\ I[{}] = start
  BY <1>5 DEF IsFold
<1>7. ASSUME NEW S \in SUBSET Offsets, S # {}
      PROVE  I[S] = Measure(I[S \ {Max(S)}], Max(S), path[Max(S)])
  <2>1. I[S] = G[<<Max(S), I[S \ {Max(S)}]>>]
    BY <1>4, <1>5, <1>7 DEF IsFold
  <2>2. Max(S) \in Offsets /\ I[S \ {Max(S)}] \in Turn
    BY <1>1, <1>6, <1>7
  <2> QED
    BY <1>3, <2>1, <2>2
<1>8. I = Body(I)
  BY <1>6, <1>7
<1>9. Iter = Body(Iter)
  <2> HIDE DEF Body
  <2> QED
    BY <1>8
<1>10. Scan(path) = Iter[Offsets]
  BY DEF Scan, MapThenFoldSet, start
<1> HIDE DEF Iter
<1>11. /\ DOMAIN Iter = SUBSET Offsets /\ Iter = [S \in SUBSET Offsets |-> Iter[S]]
       /\ Iter[{}] = start
       /\ \A S \in SUBSET Offsets : S # {} =>
            Iter[S] = Measure(Iter[S \ {Max(S)}], Max(S), path[Max(S)])
  BY <1>9
<1>12. Iter \in [SUBSET Offsets -> Turn]
  <2> DEFINE Bad == {S \in SUBSET Offsets : Iter[S] \notin Turn}
  <2>1. ASSUME NEW S \in Bad, \A x \in S : S \ {x} \notin Bad
        PROVE  FALSE
    <3>1. S # {} /\ Max(S) \in S /\ Max(S) \in Offsets
      <4>1. S # {}
        BY <1>4, <1>11
      <4> QED
        BY <1>1, <4>1
    <3>2. Iter[S \ {Max(S)}] \in Turn
      BY <2>1, <3>1
    <3>3. Iter[S] = Measure(Iter[S \ {Max(S)}], Max(S), path[Max(S)])
      BY <1>11, <3>1
    <3>4. Iter[S] \in Turn
      BY <1>2, <3>1, <3>2, <3>3
    <3> QED
      BY <3>4
  <2>2. Bad = {}
    <3> HIDE DEF Bad
    <3>1. Bad \subseteq SUBSET Offsets
      BY DEF Bad
    <3> QED
      BY <2>1, <3>1, SmallestSubset, ExitPolicyAssumption
  <2> QED
    BY <1>11, <2>2
<1>13. IsScan(Iter, path)
  BY <1>11, <1>12 DEF IsScan, start
<1> QED
  BY <1>10, <1>13

\* The loop of decideExit over the capacities, for every path and every set of
\* horizons: it stops at the first mark whose capacity is down by the frozen share
\* from the last one that was measured, however many were not measured between
\* the two, and when it does not stop it knows whether the capacity ever rose.
THEOREM LoopIsRight == LoopFindsCollapse
<1> SUFFICES ASSUME NEW path \in Paths
             PROVE  /\ Scan(path).fired = First(Collapses(path))
                    /\ Collapses(path) = {} => Scan(path).improved = Improves(path)
  BY DEF LoopFindsCollapse
<1>1. PICK I : IsScan(I, path) /\ Scan(path) = I[Offsets]
  BY ScanUnfolds
<1> DEFINE Bad == {S \in SUBSET Offsets : ~LoopKnows(I[S], path, S)}
<1>2. ASSUME NEW S \in Bad, \A x \in S : S \ {x} \notin Bad
      PROVE  FALSE
  <2>1. S # {}
    <3>1. LoopKnows(I[{}], path, {})
      BY <1>1 DEF IsScan, LoopKnows, Falls, Rises, Known, First
    <3> QED
      BY <3>1
  <2>2. PICK o \in S : o = Max(S) /\ (\A y \in S : y <= o) /\ S \in SUBSET Offsets
    BY <2>1, MaxIsLast
  <2>3. PICK R \in SUBSET Offsets : R = S \ {o}
    BY <2>2
  <2>4. \A y \in R : y < o
    BY <2>2, <2>3, ExitPolicyAssumption
  <2>5. I[R] \in Turn /\ LoopKnows(I[R], path, R)
    BY <1>1, <1>2, <2>2, <2>3 DEF IsScan
  <2>6. LoopKnows(Measure(I[R], o, path[o]), path, R \cup {o})
    BY <2>2, <2>3, <2>4, <2>5, TurnIsRight
  <2>7. I[S] = Measure(I[R], o, path[o]) /\ R \cup {o} = S
    BY <1>1, <2>1, <2>2, <2>3 DEF IsScan
  <2>8. LoopKnows(I[S], path, S)
    BY <2>6, <2>7
  <2> QED
    BY <2>8
<1>3. Bad = {}
  <2> HIDE DEF Bad
  <2>1. Bad \subseteq SUBSET Offsets
    BY DEF Bad
  <2> QED
    BY <1>2, <2>1, SmallestSubset, ExitPolicyAssumption
<1>4. LoopKnows(Scan(path), path, Offsets)
  BY <1>1, <1>3
<1>5. Known(path, Offsets) = Measured(path)
  BY DEF Known, Measured
<1>6. Falls(path, Offsets) = Collapses(path) /\ Rises(path, Offsets) = Improves(path)
  BY <1>5 DEF Falls, FallsAt, Collapses, CollapsesAt, Rises, Improves
<1> QED
  BY <1>4, <1>6 DEF LoopKnows
=============================================================================
