--------------------------- MODULE ReconcileProofs ---------------------------
(***************************************************************************)
(* What reconcile-cli.ts promises beside any number of executors and other  *)
(* reconcilers. The invariant is BooksInv: ClaimInv and WireInv, which a    *)
(* reconciler cannot disturb, and what it carries in its own memory from    *)
(* one statement to the next. None of it needs an assumption beyond those   *)
(* on the constants: forks, lagging endpoints and crashes are all in it.    *)
(***************************************************************************)
EXTENDS Reconcile, ExecutionProofs

\* All but one step of a reconciler leave the executors, their tables and the
\* cluster alone.
LEMMA ReconcilerFrame ==
  ASSUME NEW r \in Reconcilers, Reconciler(r)
  PROVE  UNCHANGED vars \/ MarkLanded(r)
<1>1. UNCHANGED <<execVars, outcome>> \/ MarkLanded(r)
  BY DEF Reconciler, BeginReconcile, FetchTransaction, CountFills, InsertFill, FinishReconcile,
     Abort
<1> QED
  BY <1>1 DEF execVars, vars, dbVars

\* A reconciler writes its own memory only.
LEMMA OwnMemory ==
  ASSUME RTypeOK, NEW r \in Reconcilers, Reconciler(r), NEW q \in Reconcilers, q # r
  PROVE  rc'[q] = rc[q]
  BY DEF RTypeOK, Reconciler, BeginReconcile, FetchTransaction, MarkLanded, CountFills, InsertFill,
     FinishReconcile, Abort

\* Only the insert adds a fill, and it adds the transaction in hand.
LEMMA FillFrame ==
  ASSUME RNext
  PROVE  UNCHANGED fill \/ \E r \in Reconcilers : InsertFill(r)
  BY DEF RNext, Reconciler, BeginReconcile, FetchTransaction, MarkLanded, CountFills,
     FinishReconcile, Abort, recVars

\* A read shows nothing, or what a confirmed block holds; and the process
\* passes over the row, notes a discrepancy, or takes the transaction in hand.
LEMMA FetchFacts ==
  ASSUME RTypeOK, NEW r \in Reconcilers, FetchTransaction(r)
  PROVE  \E s \in rc[r].todo :
           /\ rc'[r].todo = rc[r].todo \ {s} /\ rc'[r].confirmed = rc[r].confirmed
           /\ rc'[r].wallet = rc[r].wallet
           /\ \/ /\ rc'[r].pc = "scan" /\ rc'[r].sig = rc[r].sig
                 /\ s \in rc[r].confirmed => rc'[r].problems
                 /\ rc[r].problems => rc'[r].problems
              \/ /\ s \in rc[r].confirmed /\ tx[s] = "ok" /\ rc'[r].pc = "count"
                 /\ rc'[r].sig = s /\ rc'[r].problems = rc[r].problems
              \/ /\ s \notin rc[r].confirmed /\ tx[s] = "ok" /\ rc'[r].pc = "update"
                 /\ rc'[r].sig = s /\ rc'[r].problems
<1> DEFINE rest(s) == [rc[r] EXCEPT !.todo = @ \ {s}]
           seen(s, t) ==
             IF t # "ok" THEN [rest(s) EXCEPT !.problems = @ \/ s \in rc[r].confirmed]
             ELSE IF s \in rc[r].confirmed THEN [rest(s) EXCEPT !.pc = "count", !.sig = s]
             ELSE [rest(s) EXCEPT !.pc = "update", !.sig = s, !.problems = TRUE]
<1>1. PICK s \in rc[r].todo : \E t \in TransactionReads(s) : rc' = [rc EXCEPT ![r] = seen(s, t)]
  BY DEF FetchTransaction
<1>2. PICK t \in TransactionReads(s) : rc' = [rc EXCEPT ![r] = seen(s, t)]
  BY <1>1
<1>3. rc'[r] = seen(s, t) /\ rc[r] \in Scan /\ rc[r].pc = "scan"
  BY <1>2 DEF RTypeOK, FetchTransaction
<1>4. t = "ok" => tx[s] = "ok"
  BY DEF TransactionReads
<1>5. CASE t # "ok"
  BY <1>3, <1>5 DEF Scan
<1>6. CASE t = "ok" /\ s \in rc[r].confirmed
  BY <1>3, <1>4, <1>6 DEF Scan
<1>7. CASE t = "ok" /\ s \notin rc[r].confirmed
  BY <1>3, <1>4, <1>7 DEF Scan
<1> QED
  BY <1>5, <1>6, <1>7

-----------------------------------------------------------------------------
(* Type correctness.                                                         *)

LEMMA ScanType ==
  ASSUME RTypeOK, ScanInv, NEW r \in Reconcilers, Reconciler(r)
  PROVE  rc' \in [Reconcilers -> Scan] /\ fill' \subseteq Signatures
<1> DEFINE m == rc[r]
<1>1. m \in Scan
  BY DEF RTypeOK
<1>2. ASSUME NEW x \in Scan, rc' = [rc EXCEPT ![r] = x], UNCHANGED fill
      PROVE  rc' \in [Reconcilers -> Scan] /\ fill' \subseteq Signatures
  BY <1>2 DEF RTypeOK
<1>3. Idle \in Scan
  BY DEF Idle, Scan
<1>4. CASE BeginReconcile(r)
  <2>1. PICK known \in BOOLEAN :
          rc' = [rc EXCEPT ![r] =
                   [Idle EXCEPT !.pc = "scan", !.todo = Recorded, !.wallet = known,
                                !.confirmed = {s \in Recorded : outcome[s] = "CONFIRMED"}]]
    BY <1>4 DEF BeginReconcile
  <2>2. [Idle EXCEPT !.pc = "scan", !.todo = Recorded, !.wallet = known,
                     !.confirmed = {s \in Recorded : outcome[s] = "CONFIRMED"}] \in Scan
    BY DEF Idle, Scan, Recorded
  <2> QED
    BY ONLY <1>2, <1>4, <2>1, <2>2 DEF BeginReconcile
<1>5. CASE FetchTransaction(r)
  <2>1. PICK s \in m.todo : \E t \in TransactionReads(s) :
          LET rest == [m EXCEPT !.todo = @ \ {s}] IN
            rc' = [rc EXCEPT ![r] =
                     IF t # "ok" THEN [rest EXCEPT !.problems = @ \/ s \in m.confirmed]
                     ELSE IF s \in m.confirmed THEN [rest EXCEPT !.pc = "count", !.sig = s]
                     ELSE [rest EXCEPT !.pc = "update", !.sig = s, !.problems = TRUE]]
    BY <1>5 DEF FetchTransaction
  <2> DEFINE rest == [m EXCEPT !.todo = @ \ {s}]
  <2>2. s \in Signatures
    BY <1>1 DEF Scan
  <2>3. /\ [rest EXCEPT !.problems = @ \/ s \in m.confirmed] \in Scan
        /\ [rest EXCEPT !.pc = "count", !.sig = s] \in Scan
        /\ [rest EXCEPT !.pc = "update", !.sig = s, !.problems = TRUE] \in Scan
    <3>1. \A x \in Scan : /\ [x EXCEPT !.todo = @ \ {s}] \in Scan
                          /\ [x EXCEPT !.problems = @ \/ s \in m.confirmed] \in Scan
                          /\ [x EXCEPT !.pc = "count", !.sig = s] \in Scan
                          /\ [x EXCEPT !.pc = "update", !.sig = s, !.problems = TRUE] \in Scan
      BY <2>2 DEF Scan
    <3> QED
      BY <1>1, <3>1
  <2> HIDE DEF m, rest
  <2> QED
    BY <1>2, <1>5, <2>1, <2>3 DEF FetchTransaction, rest
<1>6. CASE MarkLanded(r)
  BY <1>6 DEF MarkLanded, RTypeOK, Scan
<1>7. CASE CountFills(r)
  <2>1. \A x \in Scan : /\ [x EXCEPT !.pc = "scan", !.sig = NoSignature] \in Scan
                        /\ [x EXCEPT !.pc = "insert"] \in Scan
                        /\ [x EXCEPT !.pc = "scan", !.sig = NoSignature, !.problems = TRUE] \in Scan
    BY DEF Scan
  <2> QED
    BY <1>1, <1>2, <1>7, <2>1 DEF CountFills
<1>8. CASE InsertFill(r)
  <2>1. [m EXCEPT !.pc = "scan", !.sig = NoSignature] \in Scan
    BY <1>1 DEF Scan
  <2>2. rc' \in [Reconcilers -> Scan]
    BY <1>3, <1>8, <2>1 DEF InsertFill, RTypeOK
  <2>3. m.sig \in Signatures
    BY <1>8 DEF InsertFill, ScanInv, Recorded
  <2> QED
    BY <1>8, <2>2, <2>3 DEF InsertFill, RTypeOK
<1>9. CASE FinishReconcile(r)
  BY <1>2, <1>3, <1>9 DEF FinishReconcile
<1>10. CASE Abort(r)
  BY <1>2, <1>3, <1>10 DEF Abort
<1> QED
  BY <1>4, <1>5, <1>6, <1>7, <1>8, <1>9, <1>10 DEF Reconciler

-----------------------------------------------------------------------------
(* Neither side disturbs what the other relies on.                           *)

\* The executors' invariants survive a step of any process.
LEMMA ExecutorsStep ==
  ASSUME ClaimInv, WireInv, ScanInv, [RNext]_allVars
  PROVE  ClaimInv' /\ WireInv'
<1>1. ASSUME [Next]_vars PROVE ClaimInv' /\ WireInv'
  BY <1>1, ClaimStep, WireStep
<1>2. ASSUME NEW r \in Reconcilers, MarkLanded(r) PROVE ClaimInv' /\ WireInv'
  <2>1. /\ UNCHANGED <<intent, owner, lastValid, tx, validUntil, height>>
        /\ UNCHANGED memVars
    BY <1>2 DEF MarkLanded, execVars, chainVars
  <2>2. rc[r].sig \in Signatures /\ outcome[rc[r].sig] # "absent"
    BY <1>2 DEF MarkLanded, ScanInv, Recorded
  <2>3. outcome' = [outcome EXCEPT ![rc[r].sig] = "CONFIRMED"]
    BY <1>2 DEF MarkLanded
  <2>4. TypeOK'
    BY <2>1, <2>2, <2>3 DEF ClaimInv, TypeOK, memVars, Outcomes, Settled
  <2>5. \A s \in Signatures : (outcome'[s] = "absent") <=> (outcome[s] = "absent")
    BY <2>2, <2>3 DEF ClaimInv, TypeOK
  <2>6. RowInv'
    BY <2>1, <2>5 DEF ClaimInv, RowInv
  <2>7. MemoryInv'
    BY <2>1, <2>5 DEF ClaimInv, MemoryInv, memVars, TypeOK, Pass
  <2>8. ExclusiveInv' /\ WireInv'
    BY <2>1 DEF ClaimInv, ExclusiveInv, WireInv, memVars
  <2> QED
    BY <2>4, <2>6, <2>7, <2>8 DEF ClaimInv
<1> QED
  BY <1>1, <1>2, ReconcilerFrame DEF RNext, allVars

\* What a reconciler relies on: rows stay, confirmed transactions stay, and so
\* do fills.
LEMMA BooksKept ==
  ASSUME ClaimInv, WireInv, RTypeOK, ScanInv, [RNext]_allVars
  PROVE  /\ Recorded \subseteq Recorded'
         /\ \A s \in Signatures : tx[s] = "ok" => tx'[s] = "ok"
         /\ fill \subseteq fill'
<1>1. ASSUME [Next]_vars
      PROVE  /\ Recorded \subseteq Recorded'
             /\ \A s \in Signatures : tx[s] = "ok" => tx'[s] = "ok"
  BY <1>1, RowKept, TxStep DEF Recorded
<1>2. ASSUME NEW r \in Reconcilers, MarkLanded(r)
      PROVE  /\ Recorded \subseteq Recorded'
             /\ \A s \in Signatures : tx[s] = "ok" => tx'[s] = "ok"
  BY <1>2 DEF MarkLanded, Recorded, execVars, chainVars, ClaimInv, TypeOK
<1>3. fill \subseteq fill'
  BY FillFrame DEF InsertFill, allVars, recVars
<1> QED
  BY <1>1, <1>2, <1>3, ReconcilerFrame DEF RNext, allVars

-----------------------------------------------------------------------------
(* The books.                                                                *)

LEMMA ScanStep ==
  ASSUME BooksInv, NEW r \in Reconcilers, Reconciler(r),
         Recorded \subseteq Recorded',
         \A s \in Signatures : tx[s] = "ok" => tx'[s] = "ok"
  PROVE  ScanInv'
<1> SUFFICES ASSUME NEW q \in Reconcilers
             PROVE  /\ rc'[q].todo \cup rc'[q].confirmed \subseteq Recorded'
                    /\ rc'[q].pc \in {"update", "count", "insert"} =>
                         rc'[q].sig \in Recorded' /\ tx'[rc'[q].sig] = "ok"
  BY DEF ScanInv
<1> USE DEF BooksInv
<1>1. /\ rc[q].todo \cup rc[q].confirmed \subseteq Recorded
      /\ rc[q].pc \in {"update", "count", "insert"} =>
           rc[q].sig \in Recorded /\ tx[rc[q].sig] = "ok"
      /\ Recorded \subseteq Signatures
  BY DEF ScanInv, Recorded
<1>2. CASE q # r
  <2>1. rc'[q] = rc[q]
    BY <1>2, OwnMemory
  <2> QED
    BY <1>1, <2>1
<1>3. CASE q = r /\ FetchTransaction(r)
  <2>1. PICK s \in rc[r].todo :
           /\ rc'[r].todo = rc[r].todo \ {s} /\ rc'[r].confirmed = rc[r].confirmed
           /\ \/ rc'[r].pc = "scan"
              \/ tx[s] = "ok" /\ rc'[r].sig = s
    BY <1>3, FetchFacts
  <2> QED
    BY <1>1, <1>3, <2>1
<1>4. CASE q = r /\ BeginReconcile(r)
  <2>1. /\ rc'[r].todo = Recorded /\ rc'[r].confirmed \subseteq Recorded
        /\ rc'[r].pc = "scan"
    BY <1>4 DEF BeginReconcile, RTypeOK, Idle
  <2> QED
    BY <1>4, <2>1
<1>5. CASE q = r /\ (CountFills(r) \/ MarkLanded(r))
  <2>1. /\ rc'[r].todo = rc[r].todo /\ rc'[r].confirmed = rc[r].confirmed
        /\ rc[r].pc \in {"update", "count"}
        /\ rc'[r].pc = "scan" \/ rc'[r].sig = rc[r].sig
    <3>1. CASE CountFills(r)
      BY <3>1 DEF CountFills, RTypeOK, Scan
    <3>2. CASE MarkLanded(r)
      BY <3>2 DEF MarkLanded, RTypeOK, Scan
    <3> QED
      BY <1>5, <3>1, <3>2
  <2> QED
    BY <1>1, <1>5, <2>1
<1>6. CASE q = r /\ (InsertFill(r) \/ FinishReconcile(r) \/ Abort(r))
  <2>1. \/ rc'[r] = Idle
        \/ /\ rc'[r].todo = rc[r].todo /\ rc'[r].confirmed = rc[r].confirmed
           /\ rc'[r].pc = "scan"
    <3>1. CASE InsertFill(r)
      BY <3>1 DEF InsertFill, RTypeOK, Scan
    <3>2. CASE FinishReconcile(r) \/ Abort(r)
      BY <3>2 DEF FinishReconcile, Abort, RTypeOK
    <3> QED
      BY <1>6, <3>1, <3>2
  <2> QED
    BY <1>1, <1>6, <2>1 DEF Idle
<1> QED
  BY <1>2, <1>3, <1>4, <1>5, <1>6 DEF Reconciler

LEMMA BalanceStep ==
  ASSUME BooksInv, NEW r \in Reconcilers, Reconciler(r),
         \A s \in Signatures : tx[s] = "ok" => tx'[s] = "ok",
         fill \subseteq fill'
  PROVE  BalanceInv'
<1> SUFFICES ASSUME NEW q \in Reconcilers
             PROVE  /\ rc'[q].pc = "update" => rc'[q].problems
                    /\ ~rc'[q].problems => \A s \in rc'[q].confirmed \ rc'[q].todo :
                         /\ tx'[s] = "ok"
                         /\ s \in fill' \/ (rc'[q].pc \in {"count", "insert"} /\ s = rc'[q].sig)
  BY DEF BalanceInv
<1> USE DEF BooksInv
<1>1. /\ rc[q].pc = "update" => rc[q].problems
      /\ ~rc[q].problems => \A s \in rc[q].confirmed \ rc[q].todo :
           /\ tx[s] = "ok"
           /\ s \in fill \/ (rc[q].pc \in {"count", "insert"} /\ s = rc[q].sig)
      /\ rc[q].confirmed \subseteq Signatures
  BY DEF BalanceInv, ScanInv, Recorded
<1>2. CASE q # r
  <2>1. rc'[q] = rc[q]
    BY <1>2, OwnMemory
  <2> QED
    BY <1>1, <2>1
<1>3. CASE q = r /\ FetchTransaction(r)
  <2>1. rc[r].pc = "scan"
    BY <1>3 DEF FetchTransaction
  <2>2. PICK s \in rc[r].todo :
           /\ rc'[r].todo = rc[r].todo \ {s} /\ rc'[r].confirmed = rc[r].confirmed
           /\ \/ /\ rc'[r].pc = "scan"
                 /\ s \in rc[r].confirmed => rc'[r].problems
                 /\ rc[r].problems => rc'[r].problems
              \/ /\ tx[s] = "ok" /\ rc'[r].pc = "count"
                 /\ rc'[r].sig = s /\ rc'[r].problems = rc[r].problems
              \/ rc'[r].pc = "update" /\ rc'[r].problems
    BY <1>3, FetchFacts
  <2> QED
    BY <1>1, <1>3, <2>1, <2>2
<1>4. CASE q = r /\ BeginReconcile(r)
  <2>1. /\ rc'[r].todo = Recorded /\ rc'[r].confirmed \subseteq Recorded
        /\ rc'[r].pc = "scan"
    BY <1>4 DEF BeginReconcile, RTypeOK, Idle
  <2> QED
    BY <1>4, <2>1
<1>5. CASE q = r /\ CountFills(r)
  <2>1. /\ rc'[r].todo = rc[r].todo /\ rc'[r].confirmed = rc[r].confirmed
        /\ rc[r].pc = "count"
        /\ \/ rc'[r].pc = "insert" /\ rc'[r].sig = rc[r].sig /\ rc'[r].problems = rc[r].problems
           \/ rc'[r].pc = "scan" /\ rc[r].sig \in fill /\ rc'[r].problems = rc[r].problems
           \/ rc'[r].pc = "scan" /\ rc'[r].problems
    BY <1>5 DEF CountFills, RTypeOK, Scan
  <2> QED
    BY <1>1, <1>5, <2>1
<1>6. CASE q = r /\ MarkLanded(r)
  <2>1. rc'[r].pc = "count" /\ rc'[r].problems = rc[r].problems /\ rc[r].pc = "update"
    BY <1>6 DEF MarkLanded, RTypeOK, Scan
  <2> QED
    BY <1>1, <1>6, <2>1
<1>7. CASE q = r /\ InsertFill(r)
  <2>1. /\ fill' = fill \cup {rc[r].sig}
        /\ \/ rc'[r] = Idle
           \/ /\ rc'[r].todo = rc[r].todo /\ rc'[r].confirmed = rc[r].confirmed
              /\ rc'[r].pc = "scan" /\ rc'[r].problems = rc[r].problems
    BY <1>7 DEF InsertFill, RTypeOK, Scan
  <2> QED
    BY <1>1, <1>7, <2>1 DEF Idle
<1>8. CASE q = r /\ (FinishReconcile(r) \/ Abort(r))
  <2>1. rc'[r] = Idle
    BY <1>8 DEF FinishReconcile, Abort, RTypeOK
  <2> QED
    BY <1>8, <2>1 DEF Idle
<1> QED
  BY <1>2, <1>3, <1>4, <1>5, <1>6, <1>7, <1>8 DEF Reconciler

LEMMA BooksStep == BooksInv /\ [RNext]_allVars => BooksInv'
<1> SUFFICES ASSUME BooksInv, [RNext]_allVars PROVE BooksInv'
  OBVIOUS
<1> USE DEF BooksInv
<1>1. ClaimInv' /\ WireInv'
  BY ExecutorsStep
<1>2. /\ Recorded \subseteq Recorded'
      /\ \A s \in Signatures : tx[s] = "ok" => tx'[s] = "ok"
      /\ fill \subseteq fill'
  BY BooksKept
<1>3. CASE UNCHANGED recVars
  BY <1>1, <1>2, <1>3 DEF recVars, RTypeOK, ClaimInv, ScanInv, FillsAreOnChain, BalanceInv, Recorded, Scan
<1>4. ASSUME NEW r \in Reconcilers, Reconciler(r) PROVE BooksInv'
  <2>1. RTypeOK'
    BY <1>1, <1>4, ScanType DEF RTypeOK, ClaimInv
  <2>2. FillsAreOnChain'
    <3>1. fill' = fill \/ (fill' = fill \cup {rc[r].sig} /\ rc[r].pc = "insert")
      BY <1>4 DEF Reconciler, BeginReconcile, FetchTransaction, MarkLanded, CountFills, InsertFill,
                  FinishReconcile, Abort
    <3> QED
      BY <1>2, <3>1 DEF FillsAreOnChain, ScanInv, Recorded, RTypeOK
  <2>3. ScanInv'
    BY <1>2, <1>4, ScanStep
  <2>4. BalanceInv'
    BY <1>2, <1>4, BalanceStep
  <2> QED
    BY <1>1, <2>1, <2>2, <2>3, <2>4
<1> QED
  BY <1>3, <1>4 DEF RNext, allVars

\* What each reconciler has in hand is recorded and on chain, and what it has
\* passed without a complaint is filled.
THEOREM BooksHold == RSpec => []BooksInv
<1>1. RInit => BooksInv
  <2>1. RInit => RTypeOK /\ ScanInv /\ FillsAreOnChain /\ BalanceInv
    BY ClaimInit DEF RInit, RTypeOK, ScanInv, FillsAreOnChain, BalanceInv, Idle, Scan, ClaimInv
  <2> QED
    BY <2>1, ClaimInit DEF RInit, Init, BooksInv, WireInv
<1> QED
  BY <1>1, BooksStep, PTL DEF RSpec

\* The tables and the memories of the reconcilers hold what the code declares.
THEOREM RTypeCorrect == RSpec => []RTypeOK
<1>1. BooksInv => RTypeOK
  BY DEF BooksInv
<1> QED
  BY <1>1, BooksHold, PTL

\* Every fill is of a recorded attempt whose transaction succeeded in a
\* confirmed block, also when forks undo processed ones and reconcilers race.
THEOREM FillsAreReal == RSpec => []FillsAreOnChain
<1>1. BooksInv => FillsAreOnChain
  BY DEF BooksInv
<1> QED
  BY <1>1, BooksHold, PTL

\* A pass that ends without a discrepancy leaves every attempt its list showed
\* as CONFIRMED in a confirmed block and filled.
THEOREM CleanPassIsRight == RSpec => CleanPassBalances
<1>1. BooksInv /\ [RNext]_allVars
        => [\A r \in Reconcilers :
              rc[r].pc = "scan" /\ rc[r].todo = {} /\ ~rc[r].problems /\ rc'[r].pc = "idle"
              => \A s \in rc[r].confirmed : tx[s] = "ok" /\ s \in fill]_allVars
  BY DEF BooksInv, BalanceInv
<1> QED
  BY <1>1, BooksHold, PTL DEF RSpec, CleanPassBalances

-----------------------------------------------------------------------------
(* What the executors promise still holds beside reconcilers.                *)

\* A reconciler sends nothing and records nothing new: a decision still puts
\* at most one transaction on the wire, and none without its row.
THEOREM ClaimsHoldBeside == RSpec => [](OneTransactionPerIntent /\ DurableBeforeWire)
<1>1. BooksInv => OneTransactionPerIntent /\ DurableBeforeWire
  BY DEF BooksInv, ClaimInv, RowInv, OneTransactionPerIntent, DurableBeforeWire
<1> QED
  BY <1>1, BooksHold, PTL

\* Without forks every verdict is the chain's, the reconciler's corrections
\* included: also those it writes over an EXPIRED or a FAILED.
THEOREM VerdictsAreTrueBeside == ASSUME ~Reorgs PROVE RSpec => []VerdictsMatchChain
<1>1. RInit => ChainInv
  BY ChainInit DEF RInit
<1>2. BooksInv /\ BooksInv' /\ ChainInv /\ [RNext]_allVars => ChainInv'
  <2> SUFFICES ASSUME BooksInv, BooksInv', ChainInv, [RNext]_allVars PROVE ChainInv'
    OBVIOUS
  <2>1. ASSUME [Next]_vars PROVE ChainInv'
    BY <2>1, ChainStep DEF BooksInv
  <2>2. ASSUME NEW r \in Reconcilers, MarkLanded(r) PROVE ChainInv'
    <3>1. UNCHANGED <<tx, memVars>> /\ outcome' = [outcome EXCEPT ![rc[r].sig] = "CONFIRMED"]
      BY <2>2 DEF MarkLanded, execVars, chainVars
    <3>2. tx[rc[r].sig] = "ok"
      BY <2>2 DEF MarkLanded, BooksInv, ScanInv
    <3>3. WireInv' /\ VerdictInv'
      BY <3>1 DEF ChainInv, WireInv, VerdictInv, memVars
    <3>4. VerdictsMatchChain'
      BY <3>1, <3>2 DEF ChainInv, VerdictsMatchChain, BooksInv, ClaimInv, TypeOK, StatusOf
    <3> QED
      BY <3>3, <3>4 DEF ChainInv
  <2> QED
    BY <2>1, <2>2, ReconcilerFrame DEF RNext, allVars
<1>3. ChainInv => VerdictsMatchChain
  BY DEF ChainInv
<1> QED
  BY <1>1, <1>2, <1>3, BooksHold, PTL DEF RSpec
==============================================================================
