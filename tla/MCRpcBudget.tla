----------------------------- MODULE MCRpcBudget -----------------------------
(* RpcBudget on a small instance: see MCRpcBudget.cfg.                       *)
EXTENDS RpcBudget, TLC

CONSTANTS watcher, daemon, p1, p2, light, history

\* One caller in each of two processes.
MCProcOf == (watcher :> p1) @@ (daemon :> p2)

\* The total binds before the families do.
MCRate == [x \in Rows |-> 1]
MCBurst == [x \in Rows |-> IF x = Total THEN 1 ELSE 2]
MCLocalRate == [x \in Buckets |-> 1]
MCLocalBurst == [x \in Buckets |-> IF x = "solana_rpc" THEN 3 ELSE 2]
MCMaxCalls == (watcher :> 1) @@ (daemon :> 2)

MCEndpoints == (watcher :> 2) @@ (daemon :> 1)

\* A tick back, or the whole way on.
MCClockSteps == {-1, 3}

MCMenu == (watcher :> {light}) @@ (daemon :> {history, "emergency_exit", "enrichment"})
=============================================================================
