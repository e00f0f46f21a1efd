------------------------------ MODULE ExitPolicy ------------------------------
(***************************************************************************)
(* When an exit policy leaves a recorded path: decideExit of                *)
(* packages/strategy/src/treatments.ts. A path gives for each horizon what  *)
(* the position could be sold for there, or Unpriced when the pool could    *)
(* not be read. The executable price and the exit capacity of a mark are    *)
(* one number (mark-path.ts, takeMark), so one number stands for both.      *)
(***************************************************************************)
EXTENDS Naturals, FiniteSetsExt

CONSTANTS
  Offsets,    \* the horizons of a path, in ticks after the opening
  Horizon,    \* FIXED_HORIZON_MS
  Extension,  \* EXIT_EXTENSION_MS
  DropBps,    \* EXIT_CAPACITY_DROP_BPS
  Prices,     \* what a position may be worth
  Unpriced,   \* a mark that was refused
  None        \* no horizon, no row, no trajectory

ASSUME ExitPolicyAssumption ==
  /\ Offsets \subseteq Nat /\ IsFiniteSet(Offsets)
  /\ Horizon \in Offsets /\ Extension \in Nat
  /\ Prices \subseteq Nat /\ Unpriced \notin Prices
  /\ None \notin Offsets

\* A share of what there was, in basis points; 2000 in the code.
ASSUME DropAssumption == DropBps \in 1..10000

Policies == {"FIXED_15M_CONTROL", "FLOW_LIQUIDITY_DETERIORATION_V1"}

Paths == [Offsets -> Prices \cup {Unpriced}]

\* The first horizon of a set: Array.find over the ordered marks.
First(S) == IF S = {} THEN None ELSE CHOOSE o \in S : \A q \in S : o <= q

\* The capacity fell by DropBps or more of what it was.
Dropped(before, now) ==
  before > now /\ (before - now) * 10000 >= DropBps * before

-----------------------------------------------------------------------------
(* The loop of the challenger, and what it finds.                            *)

\* Mutant: a gap forgets the capacity, so only adjacent marks are compared.
MeasureAdjacent(s, o, cap) ==
  IF s.fired # None THEN s
  ELSE IF cap = Unpriced THEN [s EXCEPT !.last = 0]
  ELSE IF s.last > 0 /\ Dropped(s.last, cap) THEN [s EXCEPT !.fired = o]
  ELSE [last |-> cap, fired |-> None,
        improved |-> s.improved \/ (s.last > 0 /\ cap > s.last)]

\* One turn of the loop over the marks. "last" is the capacity last measured,
\* 0 before the first one; a capacity of 0 is not compared against either.
Measure(s, o, cap) ==
  IF s.fired # None \/ cap = Unpriced THEN s
  ELSE IF s.last > 0 /\ Dropped(s.last, cap) THEN [s EXCEPT !.fired = o]
  ELSE [last |-> cap, fired |-> None,
        improved |-> s.improved \/ (s.last > 0 /\ cap > s.last)]

\* The loop over the marks in the order of their horizons: the last of them is
\* measured by what the loop has made of the others.
Scan(path) ==
  MapThenFoldSet(LAMBDA o, s : Measure(s, o, path[o]),
                 [last |-> 0, fired |-> None, improved |-> FALSE],
                 LAMBDA o : o, LAMBDA S : Max(S), Offsets)

Measured(path) == {o \in Offsets : path[o] # Unpriced}

\* The capacity collapses between two measured marks, however wide the gap of
\* unmeasured ones between them.
CollapsesAt(path, b) ==
  \E a \in Measured(path) :
    /\ b \in Measured(path) /\ a < b
    /\ \A c \in Measured(path) : ~(a < c /\ c < b)
    /\ path[a] > 0 /\ Dropped(path[a], path[b])

Collapses(path) == {o \in Offsets : CollapsesAt(path, o)}

Improves(path) ==
  \E a, b \in Measured(path) : a < b /\ 0 < path[a] /\ path[a] < path[b]

\* The loop stops at the first collapse over a path, gaps or not, and when there
\* is none it knows whether the capacity has ever improved.
LoopFindsCollapse ==
  \A path \in Paths :
    LET s == Scan(path) IN
      /\ s.fired = First(Collapses(path))
      /\ Collapses(path) = {} => s.improved = Improves(path)

-----------------------------------------------------------------------------
(* The decisions. The module that uses them says what they promise.          *)

Tradable(path, o) == path[o] # Unpriced /\ path[o] > 0

\* Mutant: the exit is booked at the mark whose reading triggered it.
FirstFillFrom(path, o) ==
  First({q \in Offsets : q >= o /\ Tradable(path, q)})

FirstFillAfter(path, o) ==
  First({q \in Offsets : q > o /\ Tradable(path, q)})

\* A clock known in advance: the trigger is the fill.
AtClock(o) == [trigger |-> o, fill |-> o]

Control(path) == AtClock(First({o \in Offsets : o >= Horizon}))

\* Deterioration first; then the extended hold when the capacity has improved
\* and a mark exists that late; then the horizon of the control.
Challenger(path) ==
  LET fired == First(Collapses(path))
      extended == First({o \in Offsets : o >= Horizon + Extension})
  IN
    IF fired # None
      THEN [trigger |-> fired, fill |-> FirstFillAfter(path, fired)]
    ELSE IF Improves(path) /\ extended # None THEN AtClock(extended)
    ELSE Control(path)

Decide(policy, path) ==
  IF policy = "FIXED_15M_CONTROL" THEN Control(path) ELSE Challenger(path)

=============================================================================
