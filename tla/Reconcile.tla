------------------------------ MODULE Reconcile ------------------------------
(***************************************************************************)
(* apps/executor/src/reconcile-cli.ts running beside the executor, whose    *)
(* process lock it does not take. It compares every attempt row with the    *)
(* confirmed chain, marks the landed ones and writes the fills.             *)
(***************************************************************************)
EXTENDS Execution

CONSTANT Reconcilers  \* processes an operator may have started

VARIABLES
  fill,  \* signatures with a row in fills (fills.signature is unique)
  rc     \* memory of each reconcile process

recVars  == <<fill, rc>>
allVars  == <<vars, recVars>>
execVars == <<intent, owner, lastValid, chainVars, memVars>>

Scan == [pc: {"idle", "scan", "update", "count", "insert"},
         todo: SUBSET Signatures,       \* rows of the list still to look at
         confirmed: SUBSET Signatures,  \* rows the list showed as CONFIRMED
         sig: Signatures \cup {NoSignature},
         wallet: BOOLEAN,               \* is the wallet's public key known?
         problems: BOOLEAN]             \* has a discrepancy been noted?

Idle == [pc |-> "idle", todo |-> {}, confirmed |-> {}, sig |-> NoSignature,
         wallet |-> FALSE, problems |-> FALSE]

RTypeOK == TypeOK /\ fill \subseteq Signatures /\ rc \in [Reconcilers -> Scan]

RInit == Init /\ fill = {} /\ rc = [r \in Reconcilers |-> Idle]

Recorded == {s \in Signatures : outcome[s] # "absent"}

\* The list is read once; everything below uses the outcomes it showed.
BeginReconcile(r) ==
  /\ rc[r].pc = "idle" /\ Recorded # {}
  /\ \E known \in BOOLEAN :
       rc' = [rc EXCEPT ![r] =
                [Idle EXCEPT !.pc = "scan", !.todo = Recorded, !.wallet = known,
                             !.confirmed = {s \in Recorded : outcome[s] = "CONFIRMED"}]]
  /\ UNCHANGED <<execVars, outcome, fill>>

\* Mutant: a processed transaction is taken for a confirmed one.
TransactionReadsProcessed(s) ==
  {StatusOf(tx[s])} \cup (IF StaleReads THEN {"null"} ELSE {})

\* getTransaction at commitment confirmed; "null" also when the endpoint lags.
TransactionReads(s) ==
  {IF tx[s] \in {"ok", "err"} THEN tx[s] ELSE "null"}
    \cup (IF StaleReads THEN {"null"} ELSE {})

FetchTransaction(r) ==
  /\ rc[r].pc = "scan"
  /\ \E s \in rc[r].todo : \E t \in TransactionReads(s) :
       LET rest == [rc[r] EXCEPT !.todo = @ \ {s}] IN
         rc' = [rc EXCEPT ![r] =
                  IF t # "ok"
                    THEN [rest EXCEPT !.problems = @ \/ s \in rc[r].confirmed]
                  ELSE IF s \in rc[r].confirmed
                    THEN [rest EXCEPT !.pc = "count", !.sig = s]
                    ELSE [rest EXCEPT !.pc = "update", !.sig = s, !.problems = TRUE]]
  /\ UNCHANGED <<execVars, outcome, fill>>

\* The attempt is corrected; the state of its intent is not.
MarkLanded(r) ==
  /\ rc[r].pc = "update"
  /\ outcome' = [outcome EXCEPT ![rc[r].sig] = "CONFIRMED"]
  /\ rc' = [rc EXCEPT ![r].pc = "count"]
  /\ UNCHANGED <<execVars, fill>>

\* Mutant: the signature is dropped before the fill is written.
CountFillsForgets(r) ==
  /\ rc[r].pc = "count"
  /\ rc' = [rc EXCEPT ![r] =
              IF rc[r].sig \notin fill /\ rc[r].wallet
                THEN [@ EXCEPT !.pc = "insert", !.sig = NoSignature]
                ELSE [@ EXCEPT !.pc = "scan", !.sig = NoSignature]]
  /\ UNCHANGED <<execVars, outcome, fill>>

\* Mutant: a fill that cannot be derived is not reported.
CountFillsQuiet(r) ==
  /\ rc[r].pc = "count"
  /\ rc' = [rc EXCEPT ![r] =
              IF rc[r].sig \notin fill /\ rc[r].wallet
                THEN [@ EXCEPT !.pc = "insert"]
                ELSE [@ EXCEPT !.pc = "scan", !.sig = NoSignature]]
  /\ UNCHANGED <<execVars, outcome, fill>>

CountFills(r) ==
  /\ rc[r].pc = "count"
  /\ rc' = [rc EXCEPT ![r] =
              IF rc[r].sig \in fill THEN [@ EXCEPT !.pc = "scan", !.sig = NoSignature]
              ELSE IF rc[r].wallet THEN [@ EXCEPT !.pc = "insert"]
              ELSE [@ EXCEPT !.pc = "scan", !.sig = NoSignature, !.problems = TRUE]]
  /\ UNCHANGED <<execVars, outcome, fill>>

\* The count and the insert are separate statements; the unique index makes
\* the slower of two processes throw, which ends it.
InsertFill(r) ==
  /\ rc[r].pc = "insert"
  /\ fill' = fill \cup {rc[r].sig}
  /\ rc' = [rc EXCEPT ![r] =
              IF rc[r].sig \in fill THEN Idle
              ELSE [@ EXCEPT !.pc = "scan", !.sig = NoSignature]]
  /\ UNCHANGED <<execVars, outcome>>

FinishReconcile(r) ==
  /\ rc[r].pc = "scan" /\ rc[r].todo = {}
  /\ rc' = [rc EXCEPT ![r] = Idle]
  /\ UNCHANGED <<execVars, outcome, fill>>

\* A read that throws is not caught: the process ends where it stands.
Abort(r) ==
  /\ rc[r].pc # "idle"
  /\ rc' = [rc EXCEPT ![r] = Idle]
  /\ UNCHANGED <<execVars, outcome, fill>>

Reconciler(r) ==
  \/ BeginReconcile(r) \/ FetchTransaction(r) \/ MarkLanded(r)
  \/ CountFills(r) \/ InsertFill(r) \/ FinishReconcile(r) \/ Abort(r)

RNext == (Next /\ UNCHANGED recVars) \/ \E r \in Reconcilers : Reconciler(r)

RSpec == RInit /\ [][RNext]_allVars

-----------------------------------------------------------------------------
\* A fill is money that moved: every fill is of a recorded attempt whose
\* transaction succeeded in a confirmed block, also when forks undo processed
\* ones and two reconcilers race.
FillsAreOnChain ==
  \A s \in fill : tx[s] = "ok" /\ outcome[s] # "absent"

\* "Books agree with the chain": a pass that ends without a discrepancy leaves
\* every attempt its list showed as CONFIRMED in a confirmed block and filled.
CleanPassBalances ==
  [][\A r \in Reconcilers :
       rc[r].pc = "scan" /\ rc[r].todo = {} /\ ~rc[r].problems /\ rc'[r].pc = "idle"
       => \A s \in rc[r].confirmed : tx[s] = "ok" /\ s \in fill]_allVars

-----------------------------------------------------------------------------
(* Inductive strengthening, proved in ReconcileProofs.                       *)

\* What a process carries from one statement to the next stays true while the
\* executor, the cluster and other reconcilers move.
ScanInv ==
  \A r \in Reconcilers :
    /\ rc[r].todo \cup rc[r].confirmed \subseteq Recorded
    /\ rc[r].pc \in {"update", "count", "insert"} =>
         rc[r].sig \in Recorded /\ tx[rc[r].sig] = "ok"

\* Until it notes a discrepancy, all it has passed is on chain and filled,
\* except the one transaction in hand.
BalanceInv ==
  \A r \in Reconcilers :
    /\ rc[r].pc = "update" => rc[r].problems
    /\ ~rc[r].problems => \A s \in rc[r].confirmed \ rc[r].todo :
         /\ tx[s] = "ok"
         /\ s \in fill \/ (rc[r].pc \in {"count", "insert"} /\ s = rc[r].sig)

BooksInv == ClaimInv /\ WireInv /\ RTypeOK /\ ScanInv /\ FillsAreOnChain /\ BalanceInv
=============================================================================
