-------------------------------- MODULE Marks --------------------------------
(***************************************************************************)
(* The life of an open trajectory: runMarkPass and the main loop of         *)
(* apps/collector/src/trajectory-collect.ts over mark-repo.ts,              *)
(* mark-path.ts and mark-scheduler.ts, beside scripts/counterfactual-replay *)
(* which prices horizons from another process.                              *)
(*                                                                          *)
(* One collector runs at a time (CollectorLock). Each statement it sends to *)
(* the database commits on its own, so it may die, or throw, between any    *)
(* two of them, and the replay may commit in between.                       *)
(***************************************************************************)
EXTENDS ExitPolicy

CONSTANTS
  Trajectories,
  Sla,        \* markSlaMs
  Limit,      \* how many open trajectories a pass lists
  AgeCap,     \* past this age every horizon is due and late
  Markets,    \* for each trajectory the paths its pool may take
  Entries,    \* and the kinds of entry it may have made
  MaxAborts,  \* deaths and throws; a bound of the model
  MaxReplays  \* trajectories replayed; a bound of the model

\* "small": impact under the cap; "large": over it; "unknown": the entry deltas
\* were not recorded.
EntryKinds == {"small", "large", "unknown"}

MarkRow == [price : Prices \cup {Unpriced}, status : {"ON_TIME", "MISSED_HORIZON"}]

\* Where an exit is priced: the class of a counterfactual row and its horizon.
Exits == {"BOUNDED", "REPLAY"} \X Offsets

OutcomeRow == [trigger : Offsets \cup {None}, exit : Exits \cup {None}]

ASSUME MarksAssumption ==
  /\ IsFiniteSet(Trajectories) /\ None \notin Trajectories
  /\ None \notin MarkRow \cup OutcomeRow \cup Exits \cup {"BOUNDED", "REPLAY"}
  /\ Sla \in Nat /\ Limit \in Nat /\ MaxAborts \in Nat /\ MaxReplays \in Nat
  /\ AgeCap \in Nat /\ \A o \in Offsets : o + Sla < AgeCap
  /\ Markets \in [Trajectories -> SUBSET Paths]
  /\ Entries \in [Trajectories -> SUBSET EntryKinds]

VARIABLES
  \* development_trajectories
  state,     \* "none" before the opening, "AWAITING_FILL_OBSERVATION", "SETTLED"
  rank,      \* the order of the openings
  entry,
  age,       \* now - opened_utc_ms, counted up to AgeCap
  mark,      \* trajectory_marks
  bounded,   \* counterfactual_marks, class BOUNDED_COUNTERFACTUAL_V1
  replay,    \* counterfactual_marks, class RESERVE_DELTA_REPLAY_V1
  outcome,   \* trajectory_policy_outcomes
  \* the collector
  pc,
  back,      \* where the pass returns to: "loop", or "cycle" for a yield
  passAge,   \* nowMs of the pass, as the age of each trajectory it has to visit
  todo,      \* listed trajectories it has not visited
  urgent,    \* those it took from the urgent queue
  cur,       \* the trajectory being visited
  due,       \* its due horizons
  at,        \* the age at which the mark being read was begun
  outs,      \* the outcomes computed for it
  aborts

rows == <<state, rank, entry, mark, bounded, replay, outcome>>
locals == <<back, passAge, todo, urgent, cur, due, at, outs>>
vars == <<rows, age, pc, locals, aborts>>

PassPcs == {"visit", "mark", "read", "counterfactual", "control", "challenger", "close"}

TypeOK ==
  /\ state \in [Trajectories -> {"none", "AWAITING_FILL_OBSERVATION", "SETTLED"}]
  /\ rank \in [Trajectories -> Nat]
  /\ entry \in [Trajectories -> EntryKinds \cup {None}]
  /\ age \in [Trajectories -> 0..AgeCap]
  /\ mark \in [Trajectories -> [Offsets -> MarkRow \cup {None}]]
  /\ bounded \in [Trajectories -> [Offsets -> {"none", "exit", "refused"}]]
  /\ replay \in [Trajectories -> {"none", "exit", "refused"}]
  /\ outcome \in [Trajectories -> [Policies -> OutcomeRow \cup {None}]]
  /\ pc \in {"loop", "cycle"} \cup PassPcs
  /\ back \in {"loop", "cycle"}
  /\ passAge \in [Trajectories -> 0..AgeCap]
  /\ todo \subseteq Trajectories /\ urgent \subseteq Trajectories
  /\ cur \in Trajectories \cup {None}
  /\ due \subseteq Offsets /\ at \in 0..AgeCap
  /\ outs \in [Policies -> OutcomeRow] \cup {None}
  /\ aborts \in 0..MaxAborts

NoLocals ==
  /\ passAge = [t \in Trajectories |-> 0] /\ todo = {} /\ urgent = {}
  /\ cur = None /\ due = {} /\ at = 0 /\ outs = None

Init ==
  /\ state = [t \in Trajectories |-> "none"] /\ rank = [t \in Trajectories |-> 0]
  /\ entry = [t \in Trajectories |-> None] /\ age = [t \in Trajectories |-> 0]
  /\ mark = [t \in Trajectories |-> [o \in Offsets |-> None]]
  /\ bounded = [t \in Trajectories |-> [o \in Offsets |-> "none"]]
  /\ replay = [t \in Trajectories |-> "none"]
  /\ outcome = [t \in Trajectories |-> [p \in Policies |-> None]]
  /\ pc = "loop" /\ back = "loop" /\ NoLocals
  /\ aborts = 0

Open == {t \in Trajectories : state[t] = "AWAITING_FILL_OBSERVATION"}

\* Read only where every horizon has its mark.
Path(t) == [o \in Offsets |-> IF mark[t][o] = None THEN Unpriced ELSE mark[t][o].price]

Unrecorded(t) == {o \in Offsets : mark[t][o] = None}

Priced(t, o) == mark[t][o] # None /\ mark[t][o].price # Unpriced

-----------------------------------------------------------------------------
(* The main loop and discovery.                                              *)

\* dueMarks: every horizon that has arrived and is not recorded, of every
\* trajectory not settled. No limit.
DueNow(t) == {o \in Unrecorded(t) : age[t] >= o}

Overdue(t) == {o \in Unrecorded(t) : age[t] > o + Sla}

\* discoveryAdmissible.
Admissible == \A t \in Open : Overdue(t) = {}

\* openTrajectories: the oldest first, up to the limit.
Listed == {t \in Open : Cardinality({u \in Open : rank[u] < rank[t]}) < Limit}

\* The start of runMarkPass. Which of the listed trajectories have an urgent
\* row is up to the vault watch: any of them may. All of them is as none: the
\* order is then that of the openings.
BeginPass(ret) ==
  /\ pc' = "visit" /\ back' = ret
  /\ passAge' = [t \in Trajectories |-> IF t \in Listed THEN age[t] ELSE 0]
  /\ todo' = Listed
  /\ \E first \in SUBSET Listed \ (IF Listed = {} THEN {} ELSE {Listed}) : urgent' = first
  /\ UNCHANGED <<rows, age, cur, due, at, outs, aborts>>

\* An iteration in which discovery is not due, or is put off.
MarksOnly == pc = "loop" /\ BeginPass("loop")

\* A cycle that has nothing (left) to open is one pass of the loop.
SomeToOpen == \E t \in Trajectories : state[t] = "none"

\* Discovery is due every intervalSeconds and asks the marks first.
Discover ==
  /\ pc = "loop" /\ Admissible /\ SomeToOpen
  /\ pc' = "cycle"
  /\ UNCHANGED <<rows, age, locals, aborts>>

\* The transaction that makes the trajectory durable.
OpenTrajectory(t) ==
  /\ pc = "cycle" /\ state[t] = "none"
  /\ state' = [state EXCEPT ![t] = "AWAITING_FILL_OBSERVATION"]
  /\ rank' = [rank EXCEPT ![t] = Cardinality({u \in Trajectories : state[u] # "none"})]
  /\ \E e \in Entries[t] : entry' = [entry EXCEPT ![t] = e]
  /\ UNCHANGED <<age, mark, bounded, replay, outcome, pc, locals, aborts>>

\* The hook called between candidates.
YieldToMarks ==
  /\ pc = "cycle" /\ SomeToOpen /\ \E t \in Open : DueNow(t) # {}
  /\ BeginPass("cycle")

\* A cycle ends with a mark pass of its own.
EndCycle == pc = "cycle" /\ BeginPass("loop")

-----------------------------------------------------------------------------
(* The mark pass.                                                            *)

\* Mutant: a horizon the next tick will reach is served now.
DueAtAhead(t, now) == {o \in Unrecorded(t) : now + 1 >= o}

DueAt(t, now) == {o \in Unrecorded(t) : now >= o}

\* Urgent trajectories first, each part in the order of the openings.
Before(t, u) ==
  IF (t \in urgent) = (u \in urgent) THEN rank[t] < rank[u] ELSE t \in urgent

Visit(t) ==
  /\ pc = "visit" /\ t \in todo
  /\ \A u \in todo \ {t} : Before(t, u)
  /\ cur' = t /\ todo' = todo \ {t}
  /\ urgent' = IF todo' \subseteq urgent THEN {} ELSE urgent \ {t}
  /\ due' = DueAt(t, passAge[t])
  /\ passAge' = [passAge EXCEPT ![t] = 0]
  /\ pc' = "mark"
  /\ UNCHANGED <<rows, age, back, at, outs, aborts>>

PassReturns ==
  /\ pc = "visit" /\ todo = {}
  /\ pc' = back /\ back' = "loop"
  /\ UNCHANGED <<rows, age, passAge, todo, urgent, cur, due, at, outs, aborts>>

\* takeMark takes the time, then waits for the pool to be read.
BeginMark(o) ==
  /\ pc = "mark" /\ due # {} /\ o = First(due)
  /\ at' = age[cur] /\ pc' = "read"
  /\ UNCHANGED <<rows, age, back, passAge, todo, urgent, cur, due, outs, aborts>>

\* classifyMark.
Status(o) == IF at > o + Sla THEN "MISSED_HORIZON" ELSE "ON_TIME"

\* Entry deltas and reserves are there, so a counterfactual row is due.
WantsCounterfactual(t, price) == price # Unpriced /\ entry[t] # "unknown"

\* Mutant: a refused mark is stored with the price 0.
MarkOfZero(o, price) ==
  [price |-> IF price = Unpriced THEN 0 ELSE price, status |-> Status(o)]

MarkOf(o, price) == [price |-> price, status |-> Status(o)]

\* What a read at this horizon may give, after what the reads before it gave.
Readings(t, o) ==
  {path[o] : path \in {p \in Markets[t] : \A q \in Offsets :
                          q < o /\ mark[t][q] # None => mark[t][q].price = p[q]}}

\* The read returned or was refused, and the mark is inserted with its verdict.
InsertMark(price) ==
  LET o == First(due) IN
    /\ pc = "read" /\ mark[cur][o] = None /\ price \in Readings(cur, o)
    /\ mark' = [mark EXCEPT ![cur][o] = MarkOf(o, price)]
    /\ at' = 0
    /\ IF WantsCounterfactual(cur, price)
         THEN pc' = "counterfactual" /\ due' = due
         ELSE pc' = "mark" /\ due' = due \ {o}
    /\ UNCHANGED <<state, rank, entry, bounded, replay, outcome, age, back,
                   passAge, todo, urgent, cur, outs, aborts>>

\* Mutant: a refused contract leaves no row.
BoundedRowSilent == IF entry[cur] = "small" THEN "exit" ELSE "none"

\* boundedCounterfactual: refused over the impact cap, and the refusal is a row.
BoundedRow == IF entry[cur] = "small" THEN "exit" ELSE "refused"

InsertCounterfactual ==
  LET o == First(due) IN
    /\ pc = "counterfactual"
    /\ bounded' = [bounded EXCEPT ![cur][o] = IF @ = "none" THEN BoundedRow ELSE @]
    /\ due' = due \ {o} /\ pc' = "mark"
    /\ UNCHANGED <<state, rank, entry, mark, replay, outcome, age, back, passAge,
                   todo, urgent, cur, at, outs, aborts>>

-----------------------------------------------------------------------------
(* Settling.                                                                 *)

\* Mutant: one priced mark is enough.
PathHasPrice(t) == \E o \in Offsets : Path(t)[o] # Unpriced

\* Mutant: no horizon may be unpriced.
PathIsPriced(t) == \A o \in Offsets : Path(t)[o] # Unpriced

\* pathIsComplete.
PathIsComplete(t) ==
  Unrecorded(t) = {} /\ \E o \in Offsets : Path(t)[o] # Unpriced

\* Mutant: the refusal of a row is not looked at.
ContractAtAny(t, o) ==
  IF o = Horizon /\ replay[t] # "none" THEN "REPLAY"
  ELSE IF o # None /\ bounded[t][o] = "exit" THEN "BOUNDED" ELSE None

\* counterfactualExits: the exact contract first, refused rows skipped. The
\* replay is run for the horizon of the control.
ContractAt(t, o) ==
  IF o = Horizon /\ replay[t] = "exit" THEN "REPLAY"
  ELSE IF o # None /\ bounded[t][o] = "exit" THEN "BOUNDED" ELSE None

\* evaluateExitPolicies: WHEN from the path, AT WHAT from the counterfactuals.
Evaluate(t, policy) ==
  LET d == Decide(policy, Path(t))
      contract == ContractAt(t, d.fill)
  IN [trigger |-> d.trigger,
      exit |-> IF contract = None THEN None ELSE <<contract, d.fill>>]

\* The marks of the trajectory are taken, its urgent rows consumed.
EndVisit ==
  /\ pc = "mark" /\ due = {}
  /\ IF PathIsComplete(cur)
       THEN /\ outs' = [p \in Policies |-> Evaluate(cur, p)]
            /\ pc' = "control" /\ cur' = cur
       ELSE pc' = "visit" /\ cur' = None /\ outs' = outs
  /\ UNCHANGED <<rows, age, back, passAge, todo, urgent, due, at, aborts>>

PolicyAt == [control |-> "FIXED_15M_CONTROL",
             challenger |-> "FLOW_LIQUIDITY_DETERIORATION_V1"]

After == [control |-> "challenger", challenger |-> "close"]

\* Mutant: INSERT OR IGNORE, as before the repair.
InsertOutcomeOrIgnore ==
  /\ pc \in DOMAIN PolicyAt
  /\ LET p == PolicyAt[pc] IN
       outcome' = [outcome EXCEPT ![cur][p] = IF @ = None THEN outs[p] ELSE @]
  /\ pc' = After[pc]
  /\ UNCHANGED <<state, rank, entry, mark, bounded, replay, age, locals, aborts>>

\* Mutant: INSERT OR REPLACE.
InsertOutcomeOrReplace ==
  /\ pc \in DOMAIN PolicyAt
  /\ outcome' = [outcome EXCEPT ![cur][PolicyAt[pc]] = outs[PolicyAt[pc]]]
  /\ pc' = After[pc]
  /\ UNCHANGED <<state, rank, entry, mark, bounded, replay, age, locals, aborts>>

\* insertPolicyOutcome: a new row, or one that says the same.
InsertOutcome ==
  /\ pc \in DOMAIN PolicyAt
  /\ LET p == PolicyAt[pc] IN
       /\ outcome[cur][p] \in {None, outs[p]}
       /\ outcome' = [outcome EXCEPT ![cur][p] = outs[p]]
  /\ pc' = After[pc]
  /\ UNCHANGED <<state, rank, entry, mark, bounded, replay, age, locals, aborts>>

\* The pass is over, with whatever it had in memory.
DropPass(next) ==
  /\ pc' = next /\ back' = "loop"
  /\ passAge' = [t \in Trajectories |-> 0] /\ todo' = {} /\ urgent' = {}
  /\ cur' = None /\ due' = {} /\ at' = 0 /\ outs' = None
  /\ UNCHANGED <<rows, age>>

\* PolicyOutcomeConflict: a different row is there. Nothing in the pass catches
\* it, so the trajectories not yet visited are not visited.
OutcomeConflict ==
  /\ pc \in DOMAIN PolicyAt
  /\ outcome[cur][PolicyAt[pc]] \notin {None, outs[PolicyAt[pc]]}
  /\ DropPass(back)
  /\ UNCHANGED aborts

\* closeTrajectory. The age counts while the trajectory is open.
Close ==
  /\ pc = "close"
  /\ state' = [state EXCEPT ![cur] = "SETTLED"] /\ age' = [age EXCEPT ![cur] = 0]
  /\ pc' = "visit" /\ cur' = None /\ outs' = None
  /\ UNCHANGED <<rank, entry, mark, bounded, replay, outcome, back, passAge, todo,
                 urgent, due, at, aborts>>

-----------------------------------------------------------------------------
(* What else happens.                                                        *)

\* A statement throws and the loop, or the hook, catches it; or the process
\* dies and is started again.
Abort ==
  /\ aborts < MaxAborts /\ pc # "loop"
  /\ \E next \in {"loop", back} : DropPass(next)
  /\ aborts' = aborts + 1

\* counterfactual-replay finds the mark and writes its row, a refusal when a
\* transaction of the window could not be resolved.
Replay(t) ==
  /\ Priced(t, Horizon)
  /\ entry[t] # "unknown" /\ replay[t] = "none"
  /\ Cardinality({u \in Trajectories : replay[u] # "none"}) < MaxReplays
  /\ \E r \in {"exit", "refused"} : replay' = [replay EXCEPT ![t] = r]
  /\ UNCHANGED <<state, rank, entry, mark, bounded, outcome, age, pc, locals, aborts>>

Tick ==
  /\ \E t \in Open : age[t] < AgeCap
  /\ age' = [t \in Trajectories |->
              IF t \in Open /\ age[t] < AgeCap THEN age[t] + 1 ELSE age[t]]
  /\ UNCHANGED <<rows, pc, locals, aborts>>

Collector ==
  \/ MarksOnly \/ Discover \/ YieldToMarks \/ EndCycle
  \/ \E t \in Trajectories : Visit(t)
  \/ \E o \in Offsets : BeginMark(o)
  \/ \E price \in Prices \cup {Unpriced} : InsertMark(price)
  \/ InsertCounterfactual
  \/ EndVisit \/ InsertOutcome \/ OutcomeConflict \/ Close \/ PassReturns

Next ==
  \/ Collector
  \/ \E t \in Trajectories : OpenTrajectory(t) \/ Replay(t)
  \/ Abort
  \/ Tick

\* Every read of takeMark returns or times out, the daemon is started again
\* after a death, and the clock runs.
Spec == Init /\ [][Next]_vars /\ WF_vars(Collector) /\ WF_vars(Tick)

-----------------------------------------------------------------------------
(* Properties.                                                               *)

\* A mark is begun at or after its horizon, never before, and a horizon is
\* marked once: no pass meets the row of another (insertMark would throw).
OneMarkPerHorizon ==
  pc = "read" => LET o == First(due) IN at >= o /\ mark[cur][o] = None

\* A settled trajectory has every mark, one that carries a price, and the
\* outcome of every policy, whatever died between those statements.
SettledIsComplete ==
  \A t \in Trajectories : state[t] = "SETTLED" =>
    /\ Unrecorded(t) = {}
    /\ \E o \in Offsets : Priced(t, o)
    /\ \A p \in Policies : outcome[t][p] # None

SameNumber(a, b) ==
  a.exit # None /\ b.exit # None => (a.exit[2] = b.exit[2] => a.exit = b.exit)

\* Policies that leave a path at the same horizon are booked at the same
\* number, also when the replay comes between the two outcomes: "a difference
\* between them is a difference in the decision and nothing else".
OutcomesArePaired ==
  \A t \in Trajectories : \A p, q \in Policies :
    outcome[t][p] # None /\ outcome[t][q] # None
      => SameNumber(outcome[t][p], outcome[t][q])

\* The control leaves at its clock. The challenger leaves at the first collapse
\* of the capacity since the last measured mark and fills at the first tradable
\* mark after the one that told it; without a collapse it leaves at a clock,
\* the later one when the capacity has improved.
ExitsFollowPath ==
  \A t \in Trajectories :
    LET path == Path(t)
        control == outcome[t]["FIXED_15M_CONTROL"]
        challenger == outcome[t]["FLOW_LIQUIDITY_DETERIORATION_V1"]
        late == {o \in Offsets : o >= Horizon + Extension}
        AtTrigger(x) == x.exit # None => x.exit[2] = x.trigger
    IN
      /\ control # None => control.trigger = Horizon /\ AtTrigger(control)
      /\ challenger # None /\ Collapses(path) # {} =>
           /\ challenger.trigger = First(Collapses(path))
           /\ challenger.exit # None =>
                LET fill == challenger.exit[2] IN
                  /\ fill > challenger.trigger /\ Tradable(path, fill)
                  /\ \A o \in Offsets :
                       challenger.trigger < o /\ o < fill => ~Tradable(path, o)
      /\ challenger # None /\ Collapses(path) = {} =>
           /\ AtTrigger(challenger)
           /\ challenger.trigger =
                IF Improves(path) /\ late # {} THEN First(late) ELSE Horizon

Backed(t, row) ==
  row.exit # None =>
    /\ Priced(t, row.exit[2])
    /\ row.exit[1] = "REPLAY" => replay[t] = "exit" /\ row.exit[2] = Horizon
    /\ row.exit[1] = "BOUNDED" => bounded[t][row.exit[2]] = "exit" /\ entry[t] = "small"

\* An exit is booked only where a mark was priced, and from a contract that
\* covers it: an exact replay that resolved, or the bounded one of a small entry.
ExitsAreBacked ==
  \A t \in Trajectories : \A p \in Policies :
    outcome[t][p] # None => Backed(t, outcome[t][p])

Holes ==
  {h \in Trajectories \X Offsets :
     /\ Priced(h[1], h[2]) /\ entry[h[1]] # "unknown"
     /\ bounded[h[1]][h[2]] = "none"}

\* "A row is written for every priced mark": a mark is left without one only by
\* a death or a throw between the two inserts, one mark for each.
HolesAreAborts ==
  Cardinality(Holes) <= aborts + (IF pc = "counterfactual" THEN 1 ELSE 0)

\* What has been recorded stays: one horizon has one mark, one contract one row,
\* one policy one outcome, and a settled trajectory is not opened again.
RowsAreFinal ==
  [][\A t \in Trajectories :
       /\ \A o \in Offsets :
            /\ mark[t][o] # None => mark'[t][o] = mark[t][o]
            /\ bounded[t][o] # "none" => bounded'[t][o] = bounded[t][o]
       /\ replay[t] # "none" => replay'[t] = replay[t]
       /\ \A p \in Policies : outcome[t][p] # None => outcome'[t][p] = outcome[t][p]
       /\ state[t] = "SETTLED" => state'[t] = "SETTLED"]_vars

\* The replay has come between the outcome of the control and the close, and
\* the outcome is no longer what the rows of the trajectory give.
Overtaken(t) ==
  /\ t \in Open /\ replay[t] = "exit"
  /\ LET control == outcome[t]["FIXED_15M_CONTROL"] IN
       control # None /\ control.exit # <<"REPLAY", Horizon>>

AllUnpriced(t) ==
  Unrecorded(t) = {} /\ \A o \in Offsets : Path(t)[o] = Unpriced

\* An open trajectory is settled in the end, unless the pool could be read at
\* none of its horizons, or a trajectory has been overtaken by a replay: then
\* every pass throws when it comes to that one.
PathsSettle ==
  \A t \in Trajectories :
    t \in Open ~> t \notin Open \/ AllUnpriced(t) \/ \E u \in Trajectories : Overtaken(u)

-----------------------------------------------------------------------------
(* The inductive invariant of the proofs: see MarksProofs.                   *)

SettlePcs == {"control", "challenger", "close"}

\* What the pass holds in memory, against the rows and the clock.
PassInv ==
  /\ todo \subseteq Open /\ \A t \in todo : passAge[t] <= age[t]
  /\ pc \in {"loop", "cycle", "visit"} => cur = None
  /\ pc \notin {"loop", "cycle", "visit"} => cur \in Open \ todo
  /\ pc \in {"mark", "read"} => \A o \in due : o \in Unrecorded(cur) /\ o <= age[cur]
  /\ pc \in {"read", "counterfactual"} => due # {}
  /\ pc = "read" => at >= First(due)
  /\ pc = "counterfactual" =>
       /\ Priced(cur, First(due)) /\ entry[cur] # "unknown"
       /\ \A o \in due \ {First(due)} : o \in Unrecorded(cur) /\ o <= age[cur]

\* Rows exist only of what was opened, and price only marks that carry a price.
RowsInv ==
  \A t \in Trajectories :
    /\ state[t] = "none" => \A o \in Offsets : mark[t][o] = None
    /\ \A o \in Offsets : bounded[t][o] = "exit" => Priced(t, o) /\ entry[t] = "small"
    /\ replay[t] # "none" => Priced(t, Horizon)

\* What has been written rests on rows that are there, is paired, control before
\* challenger, and complete when the trajectory is settled.
OutcomesInv ==
  \A t \in Trajectories :
    /\ outcome[t]["FLOW_LIQUIDITY_DETERIORATION_V1"] # None
         => outcome[t]["FIXED_15M_CONTROL"] # None
    /\ \A p \in Policies : outcome[t][p] # None => Backed(t, outcome[t][p])
    /\ \A p, q \in Policies :
         outcome[t][p] # None /\ outcome[t][q] # None
           => SameNumber(outcome[t][p], outcome[t][q])
    /\ state[t] = "SETTLED" =>
         PathIsComplete(t) /\ \A p \in Policies : outcome[t][p] # None

\* What is about to be written agrees with itself, with the rows it came from
\* and with what has been written of it.
SettleInv ==
  /\ pc \in SettlePcs =>
       /\ PathIsComplete(cur)
       /\ outs \in [Policies -> OutcomeRow]
       /\ \A p, q \in Policies : SameNumber(outs[p], outs[q])
       /\ \A p \in Policies : Backed(cur, outs[p])
  /\ pc \in {"challenger", "close"} =>
       outcome[cur]["FIXED_15M_CONTROL"] = outs["FIXED_15M_CONTROL"]
  /\ pc = "close" => \A p \in Policies : outcome[cur][p] = outs[p]

MarksInv == PassInv /\ RowsInv /\ SettleInv /\ OutcomesInv

\* A row says what its policy decides of the path: when, and at which mark.
Follows(policy, path, row) ==
  LET d == Decide(policy, path) IN
    row.trigger = d.trigger /\ (row.exit # None => row.exit[2] = d.fill)

\* What is written, and what is about to be, follows a path that is complete and
\* so does not change any more.
DecidedInv ==
  /\ pc \in SettlePcs => \A p \in Policies : Follows(p, Path(cur), outs[p])
  /\ \A t \in Trajectories : \A p \in Policies :
       outcome[t][p] # None =>
         Unrecorded(t) = {} /\ Follows(p, Path(t), outcome[t][p])

\* A contract row is written after its mark, so a new mark has none, and the one
\* the pass is about to write one for is a hole.
HolesInv ==
  /\ \A t \in Trajectories : \A o \in Offsets :
       bounded[t][o] # "none" => mark[t][o] # None
  /\ pc = "counterfactual" => bounded[cur][First(due)] = "none"
  /\ HolesAreAborts
=============================================================================
