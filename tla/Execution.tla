------------------------------ MODULE Execution ------------------------------
(***************************************************************************)
(* The execution state machine of packages/execution/src/machine.ts: what   *)
(* an executor process writes to the intents and execution_attempts tables, *)
(* what it sends to the cluster, and what it concludes about a transaction  *)
(* whose fate it did not see.                                               *)
(*                                                                          *)
(* One step is one database statement or one RPC call, because those are    *)
(* the points at which another process can run and the process can die.     *)
(* A signature stands for the transaction that carries it: one is drawn     *)
(* when the order is built, and the attempt row is keyed by it.             *)
(***************************************************************************)
EXTENDS Integers, FiniteSets

CONSTANTS
  Executors,    \* executor processes (more than one: the process lock failed)
  Intents,      \* idempotency keys; replaying a decision reuses its key
  Signatures,   \* transactions that may ever be built; a bound of the model
  NoIntent,     \* an attempt row that does not exist
  NoSignature,  \* a process that holds no transaction
  Window,       \* blocks for which a recent blockhash stays valid
  MaxHeight,    \* bound of the model: the chain stops growing here
  MaxAttempts,  \* deps.maxAttemptsPerIntent, 1 in apps/executor/src/main.ts
  MaxPolls,     \* status polls that fit in deps.confirmTimeoutMs
  StaleReads,   \* may a read be answered by an endpoint that lags?
  Reorgs        \* may a processed transaction be rolled back by a fork?

ASSUME ConstantsAssumption ==
  /\ Window \in Nat /\ MaxHeight \in Nat /\ MaxAttempts \in Nat /\ MaxPolls \in Nat
  /\ StaleReads \in BOOLEAN /\ Reorgs \in BOOLEAN
  /\ NoIntent \notin Intents /\ NoSignature \notin Signatures

VARIABLES
  intent,      \* intents.state, "absent" while no row has the key
  outcome,     \* execution_attempts.outcome, "absent" while there is no row
  owner,       \* execution_attempts.intent_id
  lastValid,   \* execution_attempts.last_valid_height
  tx,          \* what the cluster knows of each transaction
  validUntil,  \* last block that may include it (its own blockhash)
  height,      \* block height of the cluster
  \* and the memory of each executor process, lost when it dies:
  pc,          \* where it is
  call,        \* the intent of the executeIntent call it is in
  sig,         \* the transaction in hand
  bound,       \* its lastValidHeight, as read for this call
  polls,       \* iterations of the confirm loop
  pass,        \* the startup pass of resolveOutstanding
  pending      \* the outcome about to be written, and where to go then

dbVars    == <<intent, outcome, owner, lastValid>>
chainVars == <<tx, validUntil, height>>
callVars  == <<call, bound, polls>>
memVars   == <<pc, call, sig, bound, polls, pass, pending>>
vars      == <<dbVars, chainVars, memVars>>

Unresolved == {"SIGNED", "SUBMITTED", "UNKNOWN"}
Settled    == {"CONFIRMED", "FAILED", "EXPIRED"}
Outcomes   == Unresolved \cup Settled
IntentStates == {"absent", "INTENT_CREATED", "ORDER_REQUESTED", "ORDER_VALIDATED"} \cup Outcomes

\* "held": only the executor has it. "procOk"/"procErr": in a block that may
\* still be forked away. "ok"/"err": in a confirmed block.
Processed == {"procOk", "procErr", "ok", "err"}
TxStates  == {"none", "held", "flying"} \cup Processed
OnWire    == {"flying"} \cup Processed

NoHeight == -1  \* a block height that could not be read; below every bound

\* Before the attempt row exists, and after it.
BuildPcs   == {"claimed", "ordering", "ordered", "validated", "signed", "bounded"}
AttemptPcs == {"recorded", "sending", "poll", "pollHeight"}
StartPcs   == {"startHeight", "resolve"}
WritePcs   == {"writeAttempt", "writeIntent"}
Pcs == {"down", "ready"} \cup BuildPcs \cup AttemptPcs \cup StartPcs \cup WritePcs

Pass == [todo: SUBSET Signatures,     \* rows it has yet to look at
         unknown: SUBSET Signatures,  \* of those, read as UNKNOWN
         height: Int,                 \* the height it compares bounds with
         open: BOOLEAN]               \* stillUnresolved > 0

Pending == [verdict: Outcomes, next: {"ready", "resolve", "poll"}]

NoPass    == [todo |-> {}, unknown |-> {}, height |-> NoHeight, open |-> FALSE]
NoPending == [verdict |-> "UNKNOWN", next |-> "ready"]

TypeOK ==
  /\ intent \in [Intents -> IntentStates]
  /\ outcome \in [Signatures -> Outcomes \cup {"absent"}]
  /\ owner \in [Signatures -> Intents \cup {NoIntent}]
  /\ lastValid \in [Signatures -> Int]
  /\ tx \in [Signatures -> TxStates]
  /\ validUntil \in [Signatures -> Int]
  /\ height \in Nat
  /\ pc \in [Executors -> Pcs]
  /\ call \in [Executors -> Intents \cup {NoIntent}]
  /\ sig \in [Executors -> Signatures \cup {NoSignature}]
  /\ bound \in [Executors -> Int]
  /\ polls \in [Executors -> Nat]
  /\ pass \in [Executors -> Pass]
  /\ pending \in [Executors -> Pending]

Init ==
  /\ intent = [i \in Intents |-> "absent"]
  /\ outcome = [s \in Signatures |-> "absent"]
  /\ owner = [s \in Signatures |-> NoIntent]
  /\ lastValid = [s \in Signatures |-> 0]
  /\ tx = [s \in Signatures |-> "none"]
  /\ validUntil = [s \in Signatures |-> 0]
  /\ height = 0
  /\ pc = [e \in Executors |-> "down"]
  /\ call = [e \in Executors |-> NoIntent]
  /\ sig = [e \in Executors |-> NoSignature]
  /\ bound = [e \in Executors |-> 0]
  /\ polls = [e \in Executors |-> 0]
  /\ pass = [e \in Executors |-> NoPass]
  /\ pending = [e \in Executors |-> NoPending]

Goto(e, p) == pc' = [pc EXCEPT ![e] = p]

\* The call or the pass is over, or the process is: its locals are gone.
Leave(e, p) ==
  /\ Goto(e, p)
  /\ call' = [call EXCEPT ![e] = NoIntent]
  /\ sig' = [sig EXCEPT ![e] = NoSignature]
  /\ bound' = [bound EXCEPT ![e] = 0]
  /\ polls' = [polls EXCEPT ![e] = 0]
  /\ pass' = [pass EXCEPT ![e] = NoPass]
  /\ pending' = [pending EXCEPT ![e] = NoPending]

-----------------------------------------------------------------------------
(* Reads of the cluster, rpc.ts. Reads fall over to a second endpoint, which *)
(* may be behind; sends do not. A failed read is a disjunct of its caller.   *)

\* Definitions under the heading Mutant are plausible bugs: each one replaces
\* the definition after it in a run that must then fail (see the README).

\* Mutant: reads the slot, which runs ahead of the block height.
HeightReadsSlot == {height + 1}

HeightReads == IF StaleReads THEN 0..height ELSE {height}

StatusOf(t) ==
  IF t \in {"procOk", "ok"} THEN "ok"
  ELSE IF t \in {"procErr", "err"} THEN "err" ELSE "null"

\* getSignatureStatuses reports a processed transaction as readily as a
\* confirmed one: confirmationStatus is carried back and never looked at.
StatusReads(s) ==
  {StatusOf(tx[s])} \cup (IF StaleReads THEN {"null"} ELSE {})

\* Mutant: stores what the chain said instead of an outcome.
VerdictRaw(status, seen, last) ==
  IF status # "null" THEN status
  ELSE IF seen > last THEN "EXPIRED" ELSE "UNKNOWN"

\* Mutant: a transaction that landed is taken to have succeeded.
VerdictIgnoresErr(status, seen, last) ==
  IF status # "null" THEN "CONFIRMED"
  ELSE IF seen > last THEN "EXPIRED" ELSE "UNKNOWN"

\* Mutant: the last valid block counts as past.
VerdictAtBound(status, seen, last) ==
  IF status = "ok" THEN "CONFIRMED"
  ELSE IF status = "err" THEN "FAILED"
  ELSE IF seen >= last THEN "EXPIRED" ELSE "UNKNOWN"

\* What resolveOne concludes from a status and the height of its pass.
Verdict(status, seen, last) ==
  IF status = "ok" THEN "CONFIRMED"
  ELSE IF status = "err" THEN "FAILED"
  ELSE IF seen > last THEN "EXPIRED" ELSE "UNKNOWN"

\* Mutant: the attempt is not written, only its intent.
ConcludeIntentOnly(e, v, next) ==
  /\ Goto(e, "writeIntent")
  /\ pending' = [pending EXCEPT ![e] = [verdict |-> v, next |-> next]]

\* An outcome is written to the attempt first and then to its intent, in two
\* statements with no transaction around them.
Conclude(e, v, next) ==
  /\ Goto(e, "writeAttempt")
  /\ pending' = [pending EXCEPT ![e] = [verdict |-> v, next |-> next]]

WriteAttempt(e) ==
  /\ pc[e] = "writeAttempt"
  /\ outcome' = [outcome EXCEPT ![sig[e]] = pending[e].verdict]
  /\ Goto(e, "writeIntent")
  /\ UNCHANGED <<intent, owner, lastValid, chainVars, callVars, sig, pass, pending>>

WriteIntent(e) ==
  /\ pc[e] = "writeIntent"
  /\ intent' = [intent EXCEPT ![owner[sig[e]]] = pending[e].verdict]
  /\ \/ pending[e].next = "ready" /\ Leave(e, "ready")
     \/ /\ pending[e].next # "ready"
        /\ Goto(e, pending[e].next)
        /\ pending' = [pending EXCEPT ![e] = NoPending]
        /\ UNCHANGED <<callVars, sig, pass>>
  /\ UNCHANGED <<outcome, owner, lastValid, chainVars>>

-----------------------------------------------------------------------------
(* Startup: resolveOutstanding before a single new decision is made.         *)

\* Mutant: every row is looked at again, not only the unresolved ones.
OutstandingAll == {s \in Signatures : outcome[s] # "absent"}

Outstanding == {s \in Signatures : outcome[s] \in Unresolved}

StartClean(e) ==
  /\ pc[e] = "down" /\ Outstanding = {}
  /\ Goto(e, "ready")
  /\ UNCHANGED <<dbVars, chainVars, callVars, sig, pass, pending>>

StartPass(e) ==
  /\ pc[e] = "down" /\ Outstanding # {}
  /\ Goto(e, "startHeight")
  /\ pass' = [pass EXCEPT ![e] =
       [todo |-> Outstanding, unknown |-> {s \in Outstanding : outcome[s] = "UNKNOWN"},
        height |-> NoHeight, open |-> FALSE]]
  /\ UNCHANGED <<dbVars, chainVars, callVars, sig, pending>>

\* The height is read once, before any status; unreadable, nothing expires.
ReadStartHeight(e) ==
  /\ pc[e] = "startHeight"
  /\ Goto(e, "resolve")
  /\ \E h \in HeightReads \cup {NoHeight} : pass' = [pass EXCEPT ![e].height = h]
  /\ UNCHANGED <<dbVars, chainVars, callVars, sig, pending>>

\* Mutant: a row that stays open is not counted.
PassedUncounted(e, s, unresolved) ==
  pass' = [pass EXCEPT ![e] =
    [todo |-> @.todo \ {s}, unknown |-> @.unknown \ {s},
     height |-> @.height, open |-> @.open]]

\* Row s has been looked at.
Passed(e, s, unresolved) ==
  pass' = [pass EXCEPT ![e] =
    [todo |-> @.todo \ {s}, unknown |-> @.unknown \ {s},
     height |-> @.height, open |-> @.open \/ unresolved]]

ResolveFails(e) ==
  /\ pc[e] = "resolve"
  /\ \E s \in pass[e].todo : Passed(e, s, TRUE)
  /\ UNCHANGED <<dbVars, chainVars, pc, callVars, sig, pending>>

\* A row that was already UNKNOWN and stays so is not written again.
ResolveOne(e) ==
  /\ pc[e] = "resolve"
  /\ \E s \in pass[e].todo : \E status \in StatusReads(s) :
       LET v == Verdict(status, pass[e].height, lastValid[s]) IN
         /\ Passed(e, s, v = "UNKNOWN")
         /\ IF v = "UNKNOWN" /\ s \in pass[e].unknown
              THEN UNCHANGED <<pc, sig, pending>>
              ELSE sig' = [sig EXCEPT ![e] = s] /\ Conclude(e, v, "resolve")
  /\ UNCHANGED <<dbVars, chainVars, callVars>>

\* Any attempt left open and the process refuses to trade and exits.
FinishStart(e) ==
  /\ pc[e] = "resolve" /\ pass[e].todo = {}
  /\ Leave(e, IF pass[e].open THEN "down" ELSE "ready")
  /\ UNCHANGED <<dbVars, chainVars>>

-----------------------------------------------------------------------------
(* executeIntent, up to the attempt row.                                     *)

\* Mutant: the insert replaces the row it collides with.
ClaimIntentReplaces(e, i) ==
  /\ pc[e] = "ready"
  /\ intent' = [intent EXCEPT ![i] = "INTENT_CREATED"]
  /\ Goto(e, "claimed")
  /\ call' = [call EXCEPT ![e] = i]
  /\ UNCHANGED <<outcome, owner, lastValid, chainVars, sig, bound, polls, pass, pending>>

\* INSERT OR IGNORE under the unique key. A key that is taken returns
\* "duplicate" and changes nothing, so only the insert is a step.
ClaimIntent(e, i) ==
  /\ pc[e] = "ready"
  /\ intent[i] = "absent"
  /\ intent' = [intent EXCEPT ![i] = "INTENT_CREATED"]
  /\ Goto(e, "claimed")
  /\ call' = [call EXCEPT ![e] = i]
  /\ UNCHANGED <<outcome, owner, lastValid, chainVars, sig, bound, polls, pass, pending>>

AttemptsOf(i) == {s \in Signatures : owner[s] = i}

\* A refusal is terminal for the intent: FAILED, and the call returns.
Refuse(e) ==
  /\ pc[e] \in {"claimed", "ordering", "validated", "signed"}
  /\ pc[e] = "claimed" => Cardinality(AttemptsOf(call[e])) >= MaxAttempts
  /\ intent' = [intent EXCEPT ![call[e]] = "FAILED"]
  /\ Leave(e, "ready")
  /\ UNCHANGED <<outcome, owner, lastValid, chainVars>>

RequestOrder(e) ==
  /\ pc[e] = "claimed"
  /\ Cardinality(AttemptsOf(call[e])) < MaxAttempts
  /\ intent' = [intent EXCEPT ![call[e]] = "ORDER_REQUESTED"]
  /\ Goto(e, "ordering")
  /\ UNCHANGED <<outcome, owner, lastValid, chainVars, callVars, sig, pass, pending>>

\* The aggregator builds a transaction on a blockhash of its own choosing,
\* which may already have used up part of its window.
BuildOrder(e) ==
  /\ pc[e] = "ordering"
  /\ \E s \in Signatures, last \in height..(height + Window) :
       /\ tx[s] = "none"
       /\ tx' = [tx EXCEPT ![s] = "held"]
       /\ validUntil' = [validUntil EXCEPT ![s] = last]
       /\ sig' = [sig EXCEPT ![e] = s]
  /\ Goto(e, "ordered")
  /\ UNCHANGED <<dbVars, height, callVars, pass, pending>>

\* The order decodes and the simulation answers; the verdict of the
\* simulation is only consulted by the signer.
VerifyEffect(e) ==
  /\ pc[e] = "ordered"
  /\ intent' = [intent EXCEPT ![call[e]] = "ORDER_VALIDATED"]
  /\ Goto(e, "validated")
  /\ UNCHANGED <<outcome, owner, lastValid, chainVars, callVars, sig, pass, pending>>

\* Mutant: the signed bytes are sent before the attempt is recorded.
SignThenSend(e) ==
  /\ pc[e] = "validated"
  /\ Goto(e, "sending")
  /\ UNCHANGED <<dbVars, chainVars, callVars, sig, pass, pending>>

Sign(e) ==
  /\ pc[e] = "validated"
  /\ Goto(e, "signed")
  /\ UNCHANGED <<dbVars, chainVars, callVars, sig, pass, pending>>

\* Mutant: the current height is recorded, not the last valid one.
ReadExpiryBoundNow(e) ==
  /\ pc[e] = "signed"
  /\ Goto(e, "bounded")
  /\ \E h \in HeightReads : bound' = [bound EXCEPT ![e] = h]
  /\ UNCHANGED <<dbVars, chainVars, call, sig, polls, pass, pending>>

\* lastValidBlockHeight of the latest blockhash, not of the one in the order.
ReadExpiryBound(e) ==
  /\ pc[e] = "signed"
  /\ Goto(e, "bounded")
  /\ \E h \in HeightReads : bound' = [bound EXCEPT ![e] = h + Window]
  /\ UNCHANGED <<dbVars, chainVars, call, sig, polls, pass, pending>>

RecordAttempt(e) ==
  /\ pc[e] = "bounded"
  /\ outcome' = [outcome EXCEPT ![sig[e]] = "SIGNED"]
  /\ owner' = [owner EXCEPT ![sig[e]] = call[e]]
  /\ lastValid' = [lastValid EXCEPT ![sig[e]] = bound[e]]
  /\ Goto(e, "recorded")
  /\ UNCHANGED <<intent, chainVars, callVars, sig, pass, pending>>

MarkSigned(e) ==
  /\ pc[e] = "recorded"
  /\ intent' = [intent EXCEPT ![call[e]] = "SIGNED"]
  /\ Goto(e, "sending")
  /\ UNCHANGED <<outcome, owner, lastValid, chainVars, callVars, sig, pass, pending>>

-----------------------------------------------------------------------------
(* The wire, and the confirm loop.                                           *)

SendAccepted(e) ==
  /\ pc[e] = "sending"
  /\ tx' = [tx EXCEPT ![sig[e]] = "flying"]
  /\ Conclude(e, "SUBMITTED", "poll")
  /\ UNCHANGED <<dbVars, validUntil, height, callVars, sig, pass>>

\* The call threw: the bytes may or may not have reached the cluster.
SendThrows(e) ==
  /\ pc[e] = "sending"
  /\ tx' = [tx EXCEPT ![sig[e]] = "flying"] \/ tx' = tx
  /\ Conclude(e, "UNKNOWN", "ready")
  /\ UNCHANGED <<dbVars, validUntil, height, callVars, sig, pass>>

\* Mutant: the confirm loop has no deadline.
PollAgainForever(e) ==
  /\ Goto(e, "poll")
  /\ UNCHANGED <<polls, pending>>

PollAgain(e) ==
  /\ Goto(e, "poll")
  /\ polls' = [polls EXCEPT ![e] = @ + 1]
  /\ UNCHANGED pending

PollStatus(e) ==
  /\ pc[e] = "poll" /\ polls[e] < MaxPolls
  /\ \/ PollAgain(e)  \* the read failed
     \/ /\ "null" \in StatusReads(sig[e])
        /\ Goto(e, "pollHeight")
        /\ UNCHANGED <<polls, pending>>
     \/ \E status \in StatusReads(sig[e]) \ {"null"} :
          Conclude(e, Verdict(status, NoHeight, 0), "ready") /\ UNCHANGED polls
  /\ UNCHANGED <<dbVars, chainVars, call, bound, sig, pass>>

\* The height is asked for after the status came back empty.
PollHeight(e) ==
  /\ pc[e] = "pollHeight"
  /\ \E h \in HeightReads \cup {NoHeight} :
       IF h > bound[e] THEN Conclude(e, "EXPIRED", "ready") /\ UNCHANGED polls
                       ELSE PollAgain(e)
  /\ UNCHANGED <<dbVars, chainVars, call, bound, sig, pass>>

\* The loop tests a wall clock, so slow answers end it after fewer polls.
ConfirmTimeout(e) ==
  /\ pc[e] = "poll"
  /\ Conclude(e, "UNKNOWN", "ready")
  /\ UNCHANGED <<dbVars, chainVars, callVars, sig, pass>>

\* Death of the process at any point; its rows and its transactions remain.
Crash(e) ==
  /\ pc[e] # "down"
  /\ Leave(e, "down")
  /\ UNCHANGED <<dbVars, chainVars>>

-----------------------------------------------------------------------------
(* The cluster.                                                              *)

AdvanceHeight ==
  /\ height < MaxHeight
  /\ height' = height + 1
  /\ UNCHANGED <<dbVars, tx, validUntil, memVars>>

CanLand(s) == tx[s] = "flying" /\ height <= validUntil[s]

Include(s) ==
  /\ CanLand(s)
  /\ \E t \in {"procOk", "procErr"} : tx' = [tx EXCEPT ![s] = t]
  /\ UNCHANGED <<dbVars, validUntil, height, memVars>>

ConfirmBlock(s) ==
  /\ tx[s] \in {"procOk", "procErr"}
  /\ tx' = [tx EXCEPT ![s] = StatusOf(tx[s])]
  /\ UNCHANGED <<dbVars, validUntil, height, memVars>>

Reorg(s) ==
  /\ Reorgs /\ tx[s] \in {"procOk", "procErr"}
  /\ tx' = [tx EXCEPT ![s] = "flying"]
  /\ UNCHANGED <<dbVars, validUntil, height, memVars>>

\* The steps a live executor takes on its own once it is started or called.
Proceed(e) ==
  \/ ReadStartHeight(e) \/ ResolveFails(e) \/ ResolveOne(e) \/ FinishStart(e)
  \/ Refuse(e) \/ RequestOrder(e) \/ BuildOrder(e) \/ VerifyEffect(e)
  \/ Sign(e) \/ ReadExpiryBound(e) \/ RecordAttempt(e) \/ MarkSigned(e)
  \/ SendAccepted(e) \/ SendThrows(e) \/ PollStatus(e) \/ PollHeight(e)
  \/ ConfirmTimeout(e) \/ WriteAttempt(e) \/ WriteIntent(e)

Executor(e) ==
  \/ StartClean(e) \/ StartPass(e) \/ Proceed(e) \/ Crash(e)
  \/ \E i \in Intents : ClaimIntent(e, i)
Cluster == AdvanceHeight \/ \E s \in Signatures : Include(s) \/ ConfirmBlock(s) \/ Reorg(s)

Next == Cluster \/ \E e \in Executors : Executor(e)

Spec == Init /\ [][Next]_vars

\* Every RPC call has a timeout and the confirm loop a deadline, so a process
\* that does not die keeps taking steps. Nothing obliges anyone to start one.
FairSpec == Spec /\ \A e \in Executors : WF_vars(Proceed(e))

-----------------------------------------------------------------------------
(* Properties.                                                               *)

\* A decision puts at most one transaction on the wire, however often it is
\* replayed, by however many executors, across crashes, stale reads and forks.
OneTransactionPerIntent ==
  \A s, t \in Signatures :
    tx[s] \in OnWire /\ tx[t] \in OnWire /\ owner[s] = owner[t] => s = t

\* No transaction is on the wire without the row that lets a later process
\* find out what became of it ("durable before the wire").
DurableBeforeWire ==
  \A s \in Signatures : tx[s] \in OnWire => outcome[s] # "absent"

\* A recorded success or failure is what the chain says, whoever recorded it
\* and whatever crashed since. Needs a chain without forks.
VerdictsMatchChain ==
  \A s \in Signatures :
    /\ outcome[s] = "CONFIRMED" => StatusOf(tx[s]) = "ok"
    /\ outcome[s] = "FAILED" => StatusOf(tx[s]) = "err"

\* Expiry is a proof: an attempt written off as EXPIRED can no longer be put
\* in a block. Needs endpoints that do not lag.
ExpiredCannotLand ==
  \A s \in Signatures : outcome[s] = "EXPIRED" => ~CanLand(s)

\* The startup pass, which reads the height before the status, never writes
\* off a transaction that is in a block. (confirm() reads them the other way.)
StartupExpiresOnlyDead ==
  \A e \in Executors :
    pc[e] \in WritePcs /\ pending[e].next = "resolve" /\ pending[e].verdict = "EXPIRED"
      => tx[sig[e]] \notin Processed

\* The intent never claims an end its attempt does not record. The converse
\* fails: a crash between the two writes leaves the intent behind for good.
IntentNeverAheadOfAttempt ==
  \A i \in Intents : intent[i] \in {"CONFIRMED", "EXPIRED"} =>
    \E s \in AttemptsOf(i) : outcome[s] = intent[i]

\* With one executor a settled attempt is never reopened or rewritten.
SettledIsFinal ==
  [][\A s \in Signatures : outcome[s] \in Settled => outcome'[s] = outcome[s]]_vars

\* A process that comes up to trade has nothing of unknown fate behind it.
TradesOnlyAfterResolving ==
  [][\A e \in Executors :
       pc[e] \in {"down", "resolve"} /\ pc'[e] = "ready" => Outstanding = {}]_vars

\* Startup and every call of executeIntent end: in an answer or in a crash.
CallsReturn ==
  \A e \in Executors : pc[e] \notin {"down", "ready"} ~> pc[e] \in {"down", "ready"}

\* What docs say and the code does not do; the runs that refute them are in
\* the README.

\* "An attempt is marked EXPIRED" as a proof that it never landed.
ExpiredNeverLanded ==
  \A s \in Signatures : outcome[s] = "EXPIRED" => tx[s] \notin Processed

\* "Any attempt whose fate is unknown blocks all further execution."
UnknownFateBlocks == Cardinality(Outstanding) <= 1

-----------------------------------------------------------------------------
(* Inductive strengthenings, proved in ExecutionProofs.                      *)

\* Program points at which the transaction in hand has no row yet.
HeldPcs == {"ordered", "validated", "signed", "bounded"}

RowInv ==
  \A s \in Signatures :
    /\ outcome[s] = "absent" <=> owner[s] = NoIntent
    /\ tx[s] = "none" => outcome[s] = "absent"
    /\ tx[s] \in OnWire => outcome[s] # "absent"
    /\ \A i \in Intents : owner[s] = i => intent[i] # "absent"
    /\ \A t \in Signatures : owner[s] = owner[t] /\ owner[s] # NoIntent => s = t

MemoryInv ==
  \A e \in Executors :
    /\ pc[e] \in BuildPcs =>
         /\ call[e] \in Intents /\ intent[call[e]] # "absent"
         /\ \A s \in Signatures : owner[s] # call[e]
    /\ pc[e] \in HeldPcs =>
         sig[e] \in Signatures /\ tx[sig[e]] = "held" /\ outcome[sig[e]] = "absent"
    /\ pc[e] \in AttemptPcs \cup WritePcs =>
         sig[e] \in Signatures /\ outcome[sig[e]] # "absent"
    /\ pc[e] = "recorded" => call[e] \in Intents
    /\ \A s \in pass[e].todo : outcome[s] # "absent"

\* Two executors never work on the same claim, nor on the same transaction.
ExclusiveInv ==
  \A e, f \in Executors : e # f =>
    /\ pc[e] \in BuildPcs /\ pc[f] \in BuildPcs => call[e] # call[f]
    /\ pc[e] \in HeldPcs /\ pc[f] \in HeldPcs => sig[e] # sig[f]

ClaimInv == TypeOK /\ RowInv /\ MemoryInv /\ ExclusiveInv

\* Without stale reads the recorded bound outlives the blockhash, and whoever
\* is about to write EXPIRED has seen the chain pass that bound.
ExpiryRowInv ==
  \A s \in Signatures :
    /\ outcome[s] # "absent" => validUntil[s] <= lastValid[s]
    /\ outcome[s] = "EXPIRED" => lastValid[s] < height

ExpiryMemoryInv ==
  \A e \in Executors :
    /\ pc[e] \in HeldPcs => validUntil[sig[e]] <= height + Window
    /\ pc[e] = "bounded" => validUntil[sig[e]] <= bound[e]
    /\ pc[e] \in AttemptPcs \/ (pc[e] \in WritePcs /\ pending[e].next = "poll")
         => bound[e] = lastValid[sig[e]]
    /\ pass[e].height <= height
    /\ pc[e] \in WritePcs /\ pending[e].verdict = "EXPIRED" => lastValid[sig[e]] < height

ExpiryInv == ExpiryRowInv /\ ExpiryMemoryInv /\ StartupExpiresOnlyDead

\* What is about to be sent is still private, and to one executor only: no
\* send can disturb a transaction the cluster already knows.
WireInv ==
  \A e \in Executors : pc[e] \in {"recorded", "sending"} =>
    /\ tx[sig[e]] = "held"
    /\ \A f \in Executors \ {e} : pc[f] \in {"recorded", "sending"} => sig[f] # sig[e]

\* A success or failure about to be written is what the chain says.
VerdictInv ==
  \A e \in Executors : pc[e] \in WritePcs =>
    /\ pending[e].verdict = "CONFIRMED" => StatusOf(tx[sig[e]]) = "ok"
    /\ pending[e].verdict = "FAILED" => StatusOf(tx[sig[e]]) = "err"

ChainInv == WireInv /\ VerdictInv /\ VerdictsMatchChain

\* What the process lock of main.ts is there for.
OneExecutor == \A e, f \in Executors : e = f

InPass(e) == pc[e] \in StartPcs \/ (pc[e] \in WritePcs /\ pending[e].next = "resolve")

\* Alone, an executor only ever rewrites a row that is still open ...
OpenRowInv ==
  \A e \in Executors :
    /\ pc[e] \in AttemptPcs \cup {"writeAttempt"} => outcome[sig[e]] \in Unresolved
    /\ pc[e] = "writeIntent" => outcome[sig[e]] = pending[e].verdict
    /\ pc[e] \in WritePcs /\ pending[e].next = "poll" => pending[e].verdict = "SUBMITTED"

\* ... and its startup pass has every open row ahead of it, in hand, or
\* counted as still open.
PassInv ==
  \A e \in Executors :
    /\ pass[e].todo \subseteq Outstanding
    /\ ~InPass(e) => pass[e].todo = {}
    /\ pc[e] \in WritePcs /\ InPass(e) => sig[e] \notin pass[e].todo
    /\ pc[e] \in WritePcs /\ InPass(e) /\ pending[e].verdict \notin Settled => pass[e].open
    /\ InPass(e) => \A s \in Outstanding :
         s \in pass[e].todo \/ pass[e].open \/ (pc[e] = "writeAttempt" /\ s = sig[e])

SoloInv == OpenRowInv /\ PassInv /\ IntentNeverAheadOfAttempt
=============================================================================
