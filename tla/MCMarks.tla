------------------------------- MODULE MCMarks -------------------------------
(* Marks on a small instance: see MCMarks.cfg.                               *)
EXTENDS Marks

CONSTANTS a, b

\* The capacity of one pool collapses, improves, stays, can be read once or
\* never. The other trajectory is there to delay it and to be delayed; its entry
\* deltas were not recorded.
MCMarkets ==
  [t \in Trajectories |->
     IF t = a THEN {<<2, 1>>, <<1, 2>>, <<1, 1>>, <<Unpriced, 1>>, <<Unpriced, Unpriced>>}
              ELSE {<<1, 1>>}]
MCEntries ==
  [t \in Trajectories |-> IF t = a THEN {"small", "large"} ELSE {"unknown"}]

\* The loop of the challenger on every path of five horizons.
Loop == INSTANCE ExitPolicy WITH Offsets <- 1..5, Horizon <- 3, Prices <- 0..5

\* On each of them the loop stops at the first collapse since the last measured
\* mark, gaps or not, and otherwise knows whether the capacity improved. It does
\* not depend on the state, so it is looked at before anything is opened.
LoopFindsCollapse5 ==
  (\A t \in Trajectories : state[t] = "none") => Loop!LoopFindsCollapse
=============================================================================
