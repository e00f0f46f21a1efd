--------------------------- MODULE ExecutionProofs ---------------------------
(***************************************************************************)
(* What Execution promises for every set of executors, intents and          *)
(* transactions, every window, budget and bound. The argument has four      *)
(* inductive invariants. ClaimInv says who holds which claim and which      *)
(* transaction; it needs no assumption beyond those on the constants, so    *)
(* crashes, forks, lagging endpoints and a second executor are all in it.   *)
(* ExpiryInv relates the recorded bound to the blockhash that really ends   *)
(* the transaction's life; it needs reads that do not lag. ChainInv says    *)
(* that a verdict is what the chain holds; it needs a chain without forks.  *)
(* SoloInv says which rows are still open and who will look at them; it     *)
(* needs the single executor that the process lock is there to ensure.      *)
(***************************************************************************)
EXTENDS Execution, TLAPS

-----------------------------------------------------------------------------
(* Lemmas about the steps that several actions share.                        *)

\* The two steps that several actions share keep their variables in range.
LEMMA ConcludeType ==
  ASSUME TypeOK, NEW e \in Executors, NEW v \in Outcomes,
         NEW next \in {"ready", "resolve", "poll"}, Conclude(e, v, next)
  PROVE  pc' \in [Executors -> Pcs] /\ pending' \in [Executors -> Pending]
  BY DEF TypeOK, Conclude, Goto, Pcs, WritePcs, Pending

LEMMA PollAgainType ==
  ASSUME TypeOK, NEW e \in Executors, PollAgain(e)
  PROVE  /\ pc' \in [Executors -> Pcs] /\ polls' \in [Executors -> Nat]
         /\ pending' \in [Executors -> Pending]
  BY DEF TypeOK, PollAgain, Goto, Pcs, AttemptPcs

\* Leaving forgets the process's own memory and touches no other's.
LEMMA LeaveFacts ==
  ASSUME TypeOK, NEW e \in Executors, NEW p, Leave(e, p), NEW f \in Executors
  PROVE  /\ f = e => pc'[f] = p /\ pass'[f] = NoPass
         /\ f # e => /\ pc'[f] = pc[f] /\ call'[f] = call[f] /\ sig'[f] = sig[f]
                     /\ bound'[f] = bound[f] /\ pass'[f] = pass[f]
                     /\ pending'[f] = pending[f]
  BY DEF TypeOK, Leave, Goto

\* The second write moves no executor into a state it was not in before.
LEMMA WriteIntentFacts ==
  ASSUME TypeOK, NEW e \in Executors, WriteIntent(e)
  PROVE  /\ \A i \in Intents : intent[i] # "absent" => intent'[i] # "absent"
         /\ pc[e] = "writeIntent" /\ pc'[e] \in {"ready", "resolve", "poll"}
         /\ pc'[e] = "poll" => pending[e].next = "poll"
         /\ pc'[e] # "ready" => /\ call'[e] = call[e] /\ sig'[e] = sig[e]
                               /\ bound'[e] = bound[e]
         /\ pass'[e].todo \subseteq pass[e].todo /\ pass'[e].height \in {pass[e].height, NoHeight}
         /\ \A f \in Executors \ {e} :
              /\ pc'[f] = pc[f] /\ call'[f] = call[f] /\ sig'[f] = sig[f]
              /\ bound'[f] = bound[f] /\ pass'[f] = pass[f] /\ pending'[f] = pending[f]
<1>1. \A i \in Intents : intent[i] # "absent" => intent'[i] # "absent"
  <2>1. pending[e].verdict # "absent"
    BY DEF TypeOK, Pending, Outcomes, Unresolved, Settled
  <2> QED
    BY <2>1 DEF WriteIntent, TypeOK
<1>2. CASE Leave(e, "ready")
  BY <1>1, <1>2, LeaveFacts DEF WriteIntent, NoPass
<1>3. CASE /\ pending[e].next # "ready"
           /\ Goto(e, pending[e].next)
           /\ pending' = [pending EXCEPT ![e] = NoPending]
           /\ UNCHANGED <<callVars, sig, pass>>
  <2>1. pending[e].next \in {"resolve", "poll"}
    BY <1>3 DEF TypeOK, Pending
  <2> QED
    BY <1>1, <1>3, <2>1 DEF WriteIntent, Goto, callVars, TypeOK
<1> QED
  BY <1>2, <1>3 DEF WriteIntent

-----------------------------------------------------------------------------
(* Type correctness.                                                         *)

LEMMA TypeStep == TypeOK /\ [Next]_vars => TypeOK'
<1> SUFFICES ASSUME TypeOK, [Next]_vars PROVE TypeOK'
  OBVIOUS
<1> USE ConstantsAssumption DEF TypeOK, Pcs, BuildPcs, AttemptPcs, StartPcs, WritePcs, Outcomes, Unresolved, Settled, IntentStates, TxStates, Processed, NoHeight, chainVars, dbVars, callVars, memVars, Pass, Pending, NoPass, NoPending
<1>1. ASSUME NEW e \in Executors, StartClean(e) PROVE TypeOK'
  BY <1>1 DEF StartClean, Goto
<1>2. ASSUME NEW e \in Executors, StartPass(e) PROVE TypeOK'
  <2> DEFINE opened == [todo |-> Outstanding,
                        unknown |-> {s \in Outstanding : outcome[s] = "UNKNOWN"},
                        height |-> NoHeight, open |-> FALSE]
  <2>1. opened \in Pass
    BY DEF Outstanding
  <2> HIDE DEF opened
  <2>2. pass' = [pass EXCEPT ![e] = opened]
    BY <1>2 DEF StartPass, opened
  <2>3. pass' \in [Executors -> Pass]
    BY <2>1, <2>2
  <2>4. pc' \in [Executors -> Pcs]
    BY <1>2 DEF StartPass, Goto
  <2> QED
    BY <1>2, <2>3, <2>4 DEF StartPass
<1>3. ASSUME NEW e \in Executors, ReadStartHeight(e) PROVE TypeOK'
  <2>1. PICK h \in HeightReads \cup {NoHeight} : pass' = [pass EXCEPT ![e].height = h]
    BY <1>3 DEF ReadStartHeight
  <2>2. h \in Int
    BY DEF HeightReads
  <2>3. [pass[e] EXCEPT !.height = h] \in Pass
    <3>1. pass[e] \in Pass
      OBVIOUS
    <3>2. ASSUME NEW r \in Pass PROVE [r EXCEPT !.height = h] \in Pass
      BY ONLY <2>2, h \in Int DEF Pass
    <3> QED
      BY ONLY <3>1, <3>2
  <2>4. pass' \in [Executors -> Pass]
    BY <2>1, <2>3
  <2> QED
    BY <1>3, <2>4 DEF ReadStartHeight, Goto
<1>4. ASSUME NEW e \in Executors, ResolveFails(e) PROVE TypeOK'
  BY <1>4 DEF ResolveFails, Passed
<1>5. ASSUME NEW e \in Executors, ResolveOne(e) PROVE TypeOK'
  <2>1. PICK s \in pass[e].todo : \E status \in StatusReads(s) :
          LET v == Verdict(status, pass[e].height, lastValid[s]) IN
            /\ Passed(e, s, v = "UNKNOWN")
            /\ IF v = "UNKNOWN" /\ s \in pass[e].unknown
                 THEN UNCHANGED <<pc, sig, pending>>
                 ELSE sig' = [sig EXCEPT ![e] = s] /\ Conclude(e, v, "resolve")
    BY <1>5 DEF ResolveOne
  <2>a. PICK status \in StatusReads(s) :
          LET v == Verdict(status, pass[e].height, lastValid[s]) IN
            /\ Passed(e, s, v = "UNKNOWN")
            /\ IF v = "UNKNOWN" /\ s \in pass[e].unknown
                 THEN UNCHANGED <<pc, sig, pending>>
                 ELSE sig' = [sig EXCEPT ![e] = s] /\ Conclude(e, v, "resolve")
    BY <2>1
  <2> DEFINE v == Verdict(status, pass[e].height, lastValid[s])
  <2>2. v \in Outcomes /\ s \in Signatures
    BY DEF Verdict
  <2> HIDE DEF v
  <2>3. pass' \in [Executors -> Pass]
    BY <2>a DEF Passed, v
  <2>4. sig' \in [Executors -> Signatures \cup {NoSignature}]
    BY <2>a, <2>2
  <2>5. pc' \in [Executors -> Pcs] /\ pending' \in [Executors -> Pending]
    <3>1. Conclude(e, v, "resolve") \/ UNCHANGED <<pc, pending>>
      BY <2>a DEF v
    <3> QED
      BY <3>1, <2>2, ConcludeType
  <2> QED
    BY <1>5, <2>3, <2>4, <2>5 DEF ResolveOne
<1>6. ASSUME NEW e \in Executors, FinishStart(e) PROVE TypeOK'
  BY <1>6 DEF FinishStart, Leave, Goto
<1>7. ASSUME NEW e \in Executors, Refuse(e) PROVE TypeOK'
  <2>1. intent' \in [Intents -> IntentStates]
    BY <1>7 DEF Refuse
  <2> QED
    BY <1>7, <2>1 DEF Refuse, Leave, Goto
<1>8. ASSUME NEW e \in Executors, RequestOrder(e) PROVE TypeOK'
  BY <1>8 DEF RequestOrder, Goto
<1>9. ASSUME NEW e \in Executors, BuildOrder(e) PROVE TypeOK'
  BY <1>9 DEF BuildOrder, Goto
<1>10. ASSUME NEW e \in Executors, VerifyEffect(e) PROVE TypeOK'
  BY <1>10 DEF VerifyEffect, Goto
<1>11. ASSUME NEW e \in Executors, Sign(e) PROVE TypeOK'
  BY <1>11 DEF Sign, Goto
<1>12. ASSUME NEW e \in Executors, ReadExpiryBound(e) PROVE TypeOK'
  BY <1>12 DEF ReadExpiryBound, Goto, HeightReads
<1>13. ASSUME NEW e \in Executors, RecordAttempt(e) PROVE TypeOK'
  BY <1>13 DEF RecordAttempt, Goto
<1>14. ASSUME NEW e \in Executors, MarkSigned(e) PROVE TypeOK'
  BY <1>14 DEF MarkSigned, Goto
<1>15. ASSUME NEW e \in Executors, SendAccepted(e) PROVE TypeOK'
  BY <1>15 DEF SendAccepted, Conclude, Goto
<1>16. ASSUME NEW e \in Executors, SendThrows(e) PROVE TypeOK'
  BY <1>16 DEF SendThrows, Conclude, Goto
<1>17. ASSUME NEW e \in Executors, PollStatus(e) PROVE TypeOK'
  <2> SUFFICES pc' \in [Executors -> Pcs] /\ polls' \in [Executors -> Nat]
                /\ pending' \in [Executors -> Pending]
    BY <1>17 DEF PollStatus
  <2>1. CASE PollAgain(e)
    BY <2>1, PollAgainType
  <2>2. CASE Goto(e, "pollHeight") /\ UNCHANGED <<polls, pending>>
    BY <2>2 DEF Goto
  <2>3. ASSUME NEW status, Conclude(e, Verdict(status, NoHeight, 0), "ready"), UNCHANGED polls
        PROVE  pc' \in [Executors -> Pcs] /\ polls' \in [Executors -> Nat]
                /\ pending' \in [Executors -> Pending]
    <3>1. Verdict(status, NoHeight, 0) \in Outcomes
      BY DEF Verdict
    <3> QED
      BY <2>3, <3>1, ConcludeType
  <2> QED
    BY <1>17, <2>1, <2>2, <2>3 DEF PollStatus
<1>18. ASSUME NEW e \in Executors, PollHeight(e) PROVE TypeOK'
  <2>1. CASE PollAgain(e)
    BY <1>18, <2>1, PollAgainType DEF PollHeight
  <2>2. CASE Conclude(e, "EXPIRED", "ready") /\ UNCHANGED polls
    BY <1>18, <2>2, ConcludeType DEF PollHeight
  <2> QED
    BY <1>18, <2>1, <2>2 DEF PollHeight
<1>19. ASSUME NEW e \in Executors, ConfirmTimeout(e) PROVE TypeOK'
  BY <1>19 DEF ConfirmTimeout, Conclude, Goto
<1>20. ASSUME NEW e \in Executors, WriteAttempt(e) PROVE TypeOK'
  BY <1>20 DEF WriteAttempt, Goto
<1>21. ASSUME NEW e \in Executors, WriteIntent(e) PROVE TypeOK'
  <2>1. intent' \in [Intents -> IntentStates]
    BY <1>21 DEF WriteIntent
  <2>2. CASE Leave(e, "ready")
    BY <1>21, <2>1, <2>2 DEF WriteIntent, Leave, Goto
  <2>3. CASE /\ pending[e].next # "ready"
             /\ Goto(e, pending[e].next)
             /\ pending' = [pending EXCEPT ![e] = NoPending]
             /\ UNCHANGED <<callVars, sig, pass>>
    <3>1. pending[e].next \in {"resolve", "poll"}
      BY <2>3
    <3>2. pc' \in [Executors -> Pcs]
      BY <2>3, <3>1 DEF Goto
    <3>3. pending' \in [Executors -> Pending]
      BY <2>3
    <3> QED
      BY <1>21, <2>1, <2>3, <3>2, <3>3 DEF WriteIntent
  <2> QED
    BY <1>21, <2>2, <2>3 DEF WriteIntent
<1>22. ASSUME NEW e \in Executors, Crash(e) PROVE TypeOK'
  BY <1>22 DEF Crash, Leave, Goto
<1>23. ASSUME NEW e \in Executors, NEW i \in Intents, ClaimIntent(e, i) PROVE TypeOK'
  BY <1>23 DEF ClaimIntent, Goto
<1>24. CASE AdvanceHeight
  BY <1>24 DEF AdvanceHeight
<1>25. ASSUME NEW s \in Signatures, Include(s) PROVE TypeOK'
  BY <1>25 DEF Include, CanLand
<1>26. ASSUME NEW s \in Signatures, ConfirmBlock(s) PROVE TypeOK'
  BY <1>26 DEF ConfirmBlock, StatusOf
<1>27. ASSUME NEW s \in Signatures, Reorg(s) PROVE TypeOK'
  BY <1>27 DEF Reorg
<1>28. CASE UNCHANGED vars
  BY <1>28 DEF vars
<1> QED
  BY <1>1, <1>2, <1>3, <1>4, <1>5, <1>6, <1>7, <1>8, <1>9, <1>10, <1>11, <1>12, <1>13, <1>14, <1>15, <1>16, <1>17, <1>18, <1>19, <1>20, <1>21, <1>22, <1>23, <1>24, <1>25, <1>26, <1>27, <1>28 DEF Next, Cluster, Executor, Proceed

\* The tables and the memories of the executors hold what the code declares.
THEOREM TypeCorrect == Spec => []TypeOK
<1>1. Init => TypeOK
  BY ConstantsAssumption DEF Init, TypeOK, Pcs, Pass, Pending, NoPass, NoPending,
     NoHeight, Outcomes, Unresolved, IntentStates, TxStates
<1> QED
  BY <1>1, TypeStep, PTL DEF Spec

-----------------------------------------------------------------------------
(* Claims: one transaction per intent, recorded before it is sent.           *)

LEMMA RowStep == ClaimInv /\ TypeOK' /\ [Next]_vars => RowInv'
<1> SUFFICES ASSUME ClaimInv, TypeOK', [Next]_vars PROVE RowInv'
  OBVIOUS
<1> USE DEF ClaimInv, TypeOK, RowInv, MemoryInv, ExclusiveInv, chainVars, dbVars, callVars,
        memVars, BuildPcs, HeldPcs, AttemptPcs, WritePcs, Unresolved, Settled, Outcomes, OnWire,
        Processed
<1>1. ASSUME NEW e \in Executors, StartClean(e) PROVE RowInv'
  BY <1>1 DEF StartClean, Goto, Pass, Pending
<1>2. ASSUME NEW e \in Executors, StartPass(e) PROVE RowInv'
  BY <1>2 DEF StartPass, Outstanding, Goto, Pass, Pending
<1>3. ASSUME NEW e \in Executors, ReadStartHeight(e) PROVE RowInv'
  BY <1>3 DEF ReadStartHeight, Goto, HeightReads, Pass, Pending
<1>4. ASSUME NEW e \in Executors, ResolveFails(e) PROVE RowInv'
  BY <1>4 DEF ResolveFails, Passed, Pass, Pending
<1>5. ASSUME NEW e \in Executors, ResolveOne(e) PROVE RowInv'
  BY <1>5 DEF ResolveOne, Passed, Goto, Conclude, Verdict, StatusReads, StatusOf, Pass, Pending
<1>6. ASSUME NEW e \in Executors, FinishStart(e) PROVE RowInv'
  BY <1>6 DEF FinishStart, Leave, Goto, Pass, Pending
<1>7. ASSUME NEW e \in Executors, Refuse(e) PROVE RowInv'
  BY <1>7 DEF Refuse, Leave, Goto, Pass, Pending
<1>8. ASSUME NEW e \in Executors, RequestOrder(e) PROVE RowInv'
  BY <1>8 DEF RequestOrder, Goto, Pass, Pending
<1>9. ASSUME NEW e \in Executors, BuildOrder(e) PROVE RowInv'
  BY <1>9 DEF BuildOrder, Goto, Pass, Pending
<1>10. ASSUME NEW e \in Executors, VerifyEffect(e) PROVE RowInv'
  BY <1>10 DEF VerifyEffect, Goto, Pass, Pending
<1>11. ASSUME NEW e \in Executors, Sign(e) PROVE RowInv'
  BY <1>11 DEF Sign, Goto, Pass, Pending
<1>12. ASSUME NEW e \in Executors, ReadExpiryBound(e) PROVE RowInv'
  BY <1>12 DEF ReadExpiryBound, Goto, HeightReads, Pass, Pending
<1>13. ASSUME NEW e \in Executors, RecordAttempt(e) PROVE RowInv'
  BY <1>13 DEF RecordAttempt, Goto, Pass, Pending
<1>14. ASSUME NEW e \in Executors, MarkSigned(e) PROVE RowInv'
  BY <1>14 DEF MarkSigned, Goto, Pass, Pending
<1>15. ASSUME NEW e \in Executors, SendAccepted(e) PROVE RowInv'
  BY <1>15 DEF SendAccepted, Conclude, Goto, Pass, Pending
<1>16. ASSUME NEW e \in Executors, SendThrows(e) PROVE RowInv'
  BY <1>16 DEF SendThrows, Conclude, Goto, Pass, Pending
<1>17. ASSUME NEW e \in Executors, PollStatus(e) PROVE RowInv'
  BY <1>17 DEF PollStatus, Verdict, StatusReads, StatusOf, Conclude, Goto, PollAgain, Pass, Pending
<1>18. ASSUME NEW e \in Executors, PollHeight(e) PROVE RowInv'
  BY <1>18 DEF PollHeight, Conclude, Goto, PollAgain, HeightReads, Pass, Pending
<1>19. ASSUME NEW e \in Executors, ConfirmTimeout(e) PROVE RowInv'
  BY <1>19 DEF ConfirmTimeout, Conclude, Goto, Pass, Pending
<1>20. ASSUME NEW e \in Executors, WriteAttempt(e) PROVE RowInv'
  BY <1>20 DEF WriteAttempt, Goto, Pass, Pending
<1>21. ASSUME NEW e \in Executors, WriteIntent(e) PROVE RowInv'
  <2>1. UNCHANGED <<outcome, owner, lastValid, tx, validUntil, height>>
    BY <1>21 DEF WriteIntent
  <2>2. /\ \A i \in Intents : intent[i] # "absent" => intent'[i] # "absent"
        /\ pc[e] = "writeIntent" /\ pc'[e] \in {"ready", "resolve", "poll"}
        /\ pc'[e] = "poll" => sig'[e] = sig[e]
        /\ pass'[e].todo \subseteq pass[e].todo
        /\ \A f \in Executors \ {e} :
              pc'[f] = pc[f] /\ call'[f] = call[f] /\ sig'[f] = sig[f] /\ pass'[f] = pass[f]
    BY <1>21, WriteIntentFacts
  <2> QED
    BY <2>1, <2>2
<1>22. ASSUME NEW e \in Executors, Crash(e) PROVE RowInv'
  BY <1>22 DEF Crash, Leave, Goto, Pass, Pending
<1>23. ASSUME NEW e \in Executors, NEW i \in Intents, ClaimIntent(e, i) PROVE RowInv'
  BY <1>23 DEF ClaimIntent, Goto, Pass, Pending
<1>24. CASE AdvanceHeight
  BY <1>24 DEF AdvanceHeight, Pass, Pending
<1>25. ASSUME NEW s \in Signatures, Include(s) PROVE RowInv'
  BY <1>25 DEF Include, CanLand, Pass, Pending
<1>26. ASSUME NEW s \in Signatures, ConfirmBlock(s) PROVE RowInv'
  BY <1>26 DEF ConfirmBlock, StatusOf, Pass, Pending
<1>27. ASSUME NEW s \in Signatures, Reorg(s) PROVE RowInv'
  BY <1>27 DEF Reorg, Pass, Pending
<1>28. CASE UNCHANGED vars
  BY <1>28 DEF vars, Pass, Pending
<1> QED
  BY <1>1, <1>2, <1>3, <1>4, <1>5, <1>6, <1>7, <1>8, <1>9, <1>10, <1>11, <1>12, <1>13, <1>14, <1>15, <1>16, <1>17, <1>18, <1>19, <1>20, <1>21, <1>22, <1>23, <1>24, <1>25, <1>26, <1>27, <1>28 DEF Next, Cluster, Executor, Proceed

LEMMA MemoryStep == ClaimInv /\ TypeOK' /\ [Next]_vars => MemoryInv'
<1> SUFFICES ASSUME ClaimInv, TypeOK', [Next]_vars PROVE MemoryInv'
  OBVIOUS
<1> USE DEF ClaimInv, TypeOK, RowInv, MemoryInv, ExclusiveInv, chainVars, dbVars, callVars,
        memVars, BuildPcs, HeldPcs, AttemptPcs, WritePcs, Unresolved, Settled, Outcomes, OnWire,
        Processed
<1>1. ASSUME NEW e \in Executors, StartClean(e) PROVE MemoryInv'
  BY <1>1 DEF StartClean, Goto, Pass, Pending
<1>2. ASSUME NEW e \in Executors, StartPass(e) PROVE MemoryInv'
  BY <1>2 DEF StartPass, Outstanding, Goto, Pass, Pending
<1>3. ASSUME NEW e \in Executors, ReadStartHeight(e) PROVE MemoryInv'
  BY <1>3 DEF ReadStartHeight, Goto, HeightReads, Pass, Pending
<1>4. ASSUME NEW e \in Executors, ResolveFails(e) PROVE MemoryInv'
  BY <1>4 DEF ResolveFails, Passed, Pass, Pending
<1>5. ASSUME NEW e \in Executors, ResolveOne(e) PROVE MemoryInv'
  BY <1>5 DEF ResolveOne, Passed, Goto, Conclude, Verdict, StatusReads, StatusOf, Pass, Pending
<1>6. ASSUME NEW e \in Executors, FinishStart(e) PROVE MemoryInv'
  BY <1>6, LeaveFacts DEF FinishStart, NoPass
<1>7. ASSUME NEW e \in Executors, Refuse(e) PROVE MemoryInv'
  <2>1. \A i \in Intents : intent[i] # "absent" => intent'[i] # "absent"
    BY <1>7 DEF Refuse
  <2> QED
    BY <1>7, <2>1, LeaveFacts DEF Refuse, NoPass
<1>8. ASSUME NEW e \in Executors, RequestOrder(e) PROVE MemoryInv'
  BY <1>8 DEF RequestOrder, Goto, Pass, Pending
<1>9. ASSUME NEW e \in Executors, BuildOrder(e) PROVE MemoryInv'
  BY <1>9 DEF BuildOrder, Goto, Pass, Pending
<1>10. ASSUME NEW e \in Executors, VerifyEffect(e) PROVE MemoryInv'
  BY <1>10 DEF VerifyEffect, Goto, Pass, Pending
<1>11. ASSUME NEW e \in Executors, Sign(e) PROVE MemoryInv'
  BY <1>11 DEF Sign, Goto, Pass, Pending
<1>12. ASSUME NEW e \in Executors, ReadExpiryBound(e) PROVE MemoryInv'
  BY <1>12 DEF ReadExpiryBound, Goto, HeightReads, Pass, Pending
<1>13. ASSUME NEW e \in Executors, RecordAttempt(e) PROVE MemoryInv'
  BY <1>13 DEF RecordAttempt, Goto, Pass, Pending
<1>14. ASSUME NEW e \in Executors, MarkSigned(e) PROVE MemoryInv'
  BY <1>14 DEF MarkSigned, Goto, Pass, Pending
<1>15. ASSUME NEW e \in Executors, SendAccepted(e) PROVE MemoryInv'
  BY <1>15 DEF SendAccepted, Conclude, Goto, Pass, Pending
<1>16. ASSUME NEW e \in Executors, SendThrows(e) PROVE MemoryInv'
  BY <1>16 DEF SendThrows, Conclude, Goto, Pass, Pending
<1>17. ASSUME NEW e \in Executors, PollStatus(e) PROVE MemoryInv'
  BY <1>17 DEF PollStatus, Verdict, StatusReads, StatusOf, Conclude, Goto, PollAgain, Pass, Pending
<1>18. ASSUME NEW e \in Executors, PollHeight(e) PROVE MemoryInv'
  BY <1>18 DEF PollHeight, Conclude, Goto, PollAgain, HeightReads, Pass, Pending
<1>19. ASSUME NEW e \in Executors, ConfirmTimeout(e) PROVE MemoryInv'
  BY <1>19 DEF ConfirmTimeout, Conclude, Goto, Pass, Pending
<1>20. ASSUME NEW e \in Executors, WriteAttempt(e) PROVE MemoryInv'
  BY <1>20 DEF WriteAttempt, Goto, Pass, Pending
<1>21. ASSUME NEW e \in Executors, WriteIntent(e) PROVE MemoryInv'
  <2>1. UNCHANGED <<outcome, owner, lastValid, tx, validUntil, height>>
    BY <1>21 DEF WriteIntent
  <2>2. /\ \A i \in Intents : intent[i] # "absent" => intent'[i] # "absent"
        /\ pc[e] = "writeIntent" /\ pc'[e] \in {"ready", "resolve", "poll"}
        /\ pc'[e] = "poll" => sig'[e] = sig[e]
        /\ pass'[e].todo \subseteq pass[e].todo
        /\ \A f \in Executors \ {e} :
              pc'[f] = pc[f] /\ call'[f] = call[f] /\ sig'[f] = sig[f] /\ pass'[f] = pass[f]
    BY <1>21, WriteIntentFacts
  <2> QED
    BY <2>1, <2>2
<1>22. ASSUME NEW e \in Executors, Crash(e) PROVE MemoryInv'
  BY <1>22, LeaveFacts DEF Crash, NoPass
<1>23. ASSUME NEW e \in Executors, NEW i \in Intents, ClaimIntent(e, i) PROVE MemoryInv'
  BY <1>23 DEF ClaimIntent, Goto, Pass, Pending
<1>24. CASE AdvanceHeight
  BY <1>24 DEF AdvanceHeight, Pass, Pending
<1>25. ASSUME NEW s \in Signatures, Include(s) PROVE MemoryInv'
  BY <1>25 DEF Include, CanLand, Pass, Pending
<1>26. ASSUME NEW s \in Signatures, ConfirmBlock(s) PROVE MemoryInv'
  BY <1>26 DEF ConfirmBlock, StatusOf, Pass, Pending
<1>27. ASSUME NEW s \in Signatures, Reorg(s) PROVE MemoryInv'
  BY <1>27 DEF Reorg, Pass, Pending
<1>28. CASE UNCHANGED vars
  BY <1>28 DEF vars, Pass, Pending
<1> QED
  BY <1>1, <1>2, <1>3, <1>4, <1>5, <1>6, <1>7, <1>8, <1>9, <1>10, <1>11, <1>12, <1>13, <1>14, <1>15, <1>16, <1>17, <1>18, <1>19, <1>20, <1>21, <1>22, <1>23, <1>24, <1>25, <1>26, <1>27, <1>28 DEF Next, Cluster, Executor, Proceed

LEMMA ExclusiveStep == ClaimInv /\ TypeOK' /\ [Next]_vars => ExclusiveInv'
<1> SUFFICES ASSUME ClaimInv, TypeOK', [Next]_vars PROVE ExclusiveInv'
  OBVIOUS
<1> USE DEF ClaimInv, TypeOK, RowInv, MemoryInv, ExclusiveInv, chainVars, dbVars, callVars,
        memVars, BuildPcs, HeldPcs, AttemptPcs, WritePcs, Unresolved, Settled, Outcomes, OnWire,
        Processed
<1>1. ASSUME NEW e \in Executors, StartClean(e) PROVE ExclusiveInv'
  BY <1>1 DEF StartClean, Goto, Pass, Pending
<1>2. ASSUME NEW e \in Executors, StartPass(e) PROVE ExclusiveInv'
  BY <1>2 DEF StartPass, Outstanding, Goto, Pass, Pending
<1>3. ASSUME NEW e \in Executors, ReadStartHeight(e) PROVE ExclusiveInv'
  BY <1>3 DEF ReadStartHeight, Goto, HeightReads, Pass, Pending
<1>4. ASSUME NEW e \in Executors, ResolveFails(e) PROVE ExclusiveInv'
  BY <1>4 DEF ResolveFails, Passed, Pass, Pending
<1>5. ASSUME NEW e \in Executors, ResolveOne(e) PROVE ExclusiveInv'
  BY <1>5 DEF ResolveOne, Passed, Goto, Conclude, Verdict, StatusReads, StatusOf, Pass, Pending
<1>6. ASSUME NEW e \in Executors, FinishStart(e) PROVE ExclusiveInv'
  BY <1>6 DEF FinishStart, Leave, Goto, Pass, Pending
<1>7. ASSUME NEW e \in Executors, Refuse(e) PROVE ExclusiveInv'
  BY <1>7 DEF Refuse, Leave, Goto, Pass, Pending
<1>8. ASSUME NEW e \in Executors, RequestOrder(e) PROVE ExclusiveInv'
  BY <1>8 DEF RequestOrder, Goto, Pass, Pending
<1>9. ASSUME NEW e \in Executors, BuildOrder(e) PROVE ExclusiveInv'
  BY <1>9 DEF BuildOrder, Goto, Pass, Pending
<1>10. ASSUME NEW e \in Executors, VerifyEffect(e) PROVE ExclusiveInv'
  BY <1>10 DEF VerifyEffect, Goto, Pass, Pending
<1>11. ASSUME NEW e \in Executors, Sign(e) PROVE ExclusiveInv'
  BY <1>11 DEF Sign, Goto, Pass, Pending
<1>12. ASSUME NEW e \in Executors, ReadExpiryBound(e) PROVE ExclusiveInv'
  BY <1>12 DEF ReadExpiryBound, Goto, HeightReads, Pass, Pending
<1>13. ASSUME NEW e \in Executors, RecordAttempt(e) PROVE ExclusiveInv'
  BY <1>13 DEF RecordAttempt, Goto, Pass, Pending
<1>14. ASSUME NEW e \in Executors, MarkSigned(e) PROVE ExclusiveInv'
  BY <1>14 DEF MarkSigned, Goto, Pass, Pending
<1>15. ASSUME NEW e \in Executors, SendAccepted(e) PROVE ExclusiveInv'
  BY <1>15 DEF SendAccepted, Conclude, Goto, Pass, Pending
<1>16. ASSUME NEW e \in Executors, SendThrows(e) PROVE ExclusiveInv'
  BY <1>16 DEF SendThrows, Conclude, Goto, Pass, Pending
<1>17. ASSUME NEW e \in Executors, PollStatus(e) PROVE ExclusiveInv'
  <2>1. pc'[e] \in {"poll", "pollHeight", "writeAttempt"}
    BY <1>17 DEF PollStatus, PollAgain, Conclude, Goto
  <2>2. \A f \in Executors \ {e} : pc'[f] = pc[f]
    BY <1>17 DEF PollStatus, PollAgain, Conclude, Goto
  <2> QED
    BY <1>17, <2>1, <2>2 DEF PollStatus
<1>18. ASSUME NEW e \in Executors, PollHeight(e) PROVE ExclusiveInv'
  <2>1. pc'[e] \in {"poll", "writeAttempt"}
    BY <1>18 DEF PollHeight, PollAgain, Conclude, Goto
  <2>2. \A f \in Executors \ {e} : pc'[f] = pc[f]
    BY <1>18 DEF PollHeight, PollAgain, Conclude, Goto
  <2> QED
    BY <1>18, <2>1, <2>2 DEF PollHeight
<1>19. ASSUME NEW e \in Executors, ConfirmTimeout(e) PROVE ExclusiveInv'
  BY <1>19 DEF ConfirmTimeout, Conclude, Goto, Pass, Pending
<1>20. ASSUME NEW e \in Executors, WriteAttempt(e) PROVE ExclusiveInv'
  BY <1>20 DEF WriteAttempt, Goto, Pass, Pending
<1>21. ASSUME NEW e \in Executors, WriteIntent(e) PROVE ExclusiveInv'
  <2>1. UNCHANGED <<outcome, owner, lastValid, tx, validUntil, height>>
    BY <1>21 DEF WriteIntent
  <2>2. /\ \A i \in Intents : intent[i] # "absent" => intent'[i] # "absent"
        /\ pc[e] = "writeIntent" /\ pc'[e] \in {"ready", "resolve", "poll"}
        /\ pc'[e] = "poll" => sig'[e] = sig[e]
        /\ pass'[e].todo \subseteq pass[e].todo
        /\ \A f \in Executors \ {e} :
              pc'[f] = pc[f] /\ call'[f] = call[f] /\ sig'[f] = sig[f] /\ pass'[f] = pass[f]
    BY <1>21, WriteIntentFacts
  <2> QED
    BY <2>1, <2>2
<1>22. ASSUME NEW e \in Executors, Crash(e) PROVE ExclusiveInv'
  BY <1>22 DEF Crash, Leave, Goto, Pass, Pending
<1>23. ASSUME NEW e \in Executors, NEW i \in Intents, ClaimIntent(e, i) PROVE ExclusiveInv'
  BY <1>23 DEF ClaimIntent, Goto, Pass, Pending
<1>24. CASE AdvanceHeight
  BY <1>24 DEF AdvanceHeight, Pass, Pending
<1>25. ASSUME NEW s \in Signatures, Include(s) PROVE ExclusiveInv'
  BY <1>25 DEF Include, CanLand, Pass, Pending
<1>26. ASSUME NEW s \in Signatures, ConfirmBlock(s) PROVE ExclusiveInv'
  BY <1>26 DEF ConfirmBlock, StatusOf, Pass, Pending
<1>27. ASSUME NEW s \in Signatures, Reorg(s) PROVE ExclusiveInv'
  BY <1>27 DEF Reorg, Pass, Pending
<1>28. CASE UNCHANGED vars
  BY <1>28 DEF vars, Pass, Pending
<1> QED
  BY <1>1, <1>2, <1>3, <1>4, <1>5, <1>6, <1>7, <1>8, <1>9, <1>10, <1>11, <1>12, <1>13, <1>14, <1>15, <1>16, <1>17, <1>18, <1>19, <1>20, <1>21, <1>22, <1>23, <1>24, <1>25, <1>26, <1>27, <1>28 DEF Next, Cluster, Executor, Proceed

LEMMA ClaimInit == Init => ClaimInv
<1>1. Init => TypeOK
  BY ConstantsAssumption DEF Init, TypeOK, Pcs, Pass, Pending, NoPass, NoPending,
     NoHeight, Outcomes, Unresolved, IntentStates, TxStates
<1>2. Init => RowInv /\ MemoryInv /\ ExclusiveInv
  BY ConstantsAssumption DEF Init, RowInv, MemoryInv, ExclusiveInv, NoPass, BuildPcs, HeldPcs,
     AttemptPcs, WritePcs, OnWire, Processed
<1> QED
  BY <1>1, <1>2 DEF ClaimInv

LEMMA ClaimStep == ClaimInv /\ [Next]_vars => ClaimInv'
  BY TypeStep, RowStep, MemoryStep, ExclusiveStep DEF ClaimInv

\* The claims are exclusive in every reachable state.
THEOREM ClaimsHold == Spec => []ClaimInv
  BY ClaimInit, ClaimStep, PTL DEF Spec

\* A decision puts at most one transaction on the wire: executeIntent claims
\* the key with a unique insert before it builds anything.
THEOREM AtMostOneTransaction == Spec => []OneTransactionPerIntent
<1>1. ClaimInv => OneTransactionPerIntent
  BY DEF ClaimInv, RowInv, OneTransactionPerIntent
<1> QED
  BY <1>1, ClaimsHold, PTL

\* Durable before the wire: recordAttempt precedes send on every path.
THEOREM RecordedBeforeSent == Spec => []DurableBeforeWire
<1>1. ClaimInv => DurableBeforeWire
  BY DEF ClaimInv, RowInv, DurableBeforeWire
<1> QED
  BY <1>1, ClaimsHold, PTL

-----------------------------------------------------------------------------
(* Expiry: what the bound proves about the chain.                            *)

LEMMA ExpiryRowStep ==
  ~StaleReads /\ ClaimInv /\ ClaimInv' /\ ExpiryInv /\ [Next]_vars => ExpiryRowInv'
<1> SUFFICES ASSUME ~StaleReads, ClaimInv, ClaimInv', ExpiryInv, [Next]_vars PROVE ExpiryRowInv'
  OBVIOUS
<1> USE ConstantsAssumption
    DEF ClaimInv, TypeOK, RowInv, MemoryInv, ExpiryInv, ExpiryRowInv, ExpiryMemoryInv, chainVars,
        dbVars, callVars, memVars, BuildPcs, HeldPcs, AttemptPcs, WritePcs, Unresolved, Settled,
        Outcomes
<1>1. ASSUME NEW e \in Executors, StartClean(e) PROVE ExpiryRowInv'
  BY <1>1 DEF StartClean, Goto, Pass, Pending, NoHeight
<1>2. ASSUME NEW e \in Executors, StartPass(e) PROVE ExpiryRowInv'
  BY <1>2 DEF StartPass, Outstanding, Goto, Pass, Pending, NoHeight
<1>3. ASSUME NEW e \in Executors, ReadStartHeight(e) PROVE ExpiryRowInv'
  BY <1>3 DEF ReadStartHeight, Goto, HeightReads, Pass, Pending, NoHeight
<1>4. ASSUME NEW e \in Executors, ResolveFails(e) PROVE ExpiryRowInv'
  BY <1>4 DEF ResolveFails, Passed, Pass, Pending, NoHeight
<1>5. ASSUME NEW e \in Executors, ResolveOne(e) PROVE ExpiryRowInv'
  BY <1>5 DEF ResolveOne, Passed, Goto, Conclude, Verdict, StatusReads, StatusOf, Pass, Pending, NoHeight
<1>6. ASSUME NEW e \in Executors, FinishStart(e) PROVE ExpiryRowInv'
  BY <1>6 DEF FinishStart, Leave, Goto, Pass, Pending, NoHeight
<1>7. ASSUME NEW e \in Executors, Refuse(e) PROVE ExpiryRowInv'
  BY <1>7 DEF Refuse, Leave, Goto, Pass, Pending, NoHeight
<1>8. ASSUME NEW e \in Executors, RequestOrder(e) PROVE ExpiryRowInv'
  BY <1>8 DEF RequestOrder, Goto, Pass, Pending, NoHeight
<1>9. ASSUME NEW e \in Executors, BuildOrder(e) PROVE ExpiryRowInv'
  BY <1>9 DEF BuildOrder, Goto, Pass, Pending, NoHeight
<1>10. ASSUME NEW e \in Executors, VerifyEffect(e) PROVE ExpiryRowInv'
  BY <1>10 DEF VerifyEffect, Goto, Pass, Pending, NoHeight
<1>11. ASSUME NEW e \in Executors, Sign(e) PROVE ExpiryRowInv'
  BY <1>11 DEF Sign, Goto, Pass, Pending, NoHeight
<1>12. ASSUME NEW e \in Executors, ReadExpiryBound(e) PROVE ExpiryRowInv'
  BY <1>12 DEF ReadExpiryBound, Goto, HeightReads, Pass, Pending, NoHeight
<1>13. ASSUME NEW e \in Executors, RecordAttempt(e) PROVE ExpiryRowInv'
  BY <1>13 DEF RecordAttempt, Goto, Pass, Pending, NoHeight
<1>14. ASSUME NEW e \in Executors, MarkSigned(e) PROVE ExpiryRowInv'
  BY <1>14 DEF MarkSigned, Goto, Pass, Pending, NoHeight
<1>15. ASSUME NEW e \in Executors, SendAccepted(e) PROVE ExpiryRowInv'
  BY <1>15 DEF SendAccepted, Conclude, Goto, Pass, Pending, NoHeight
<1>16. ASSUME NEW e \in Executors, SendThrows(e) PROVE ExpiryRowInv'
  BY <1>16 DEF SendThrows, Conclude, Goto, Pass, Pending, NoHeight
<1>17. ASSUME NEW e \in Executors, PollStatus(e) PROVE ExpiryRowInv'
  BY <1>17 DEF PollStatus, Verdict, StatusReads, StatusOf, Conclude, Goto, PollAgain, Pass, Pending, NoHeight
<1>18. ASSUME NEW e \in Executors, PollHeight(e) PROVE ExpiryRowInv'
  BY <1>18 DEF PollHeight, Conclude, Goto, PollAgain, HeightReads, Pass, Pending, NoHeight
<1>19. ASSUME NEW e \in Executors, ConfirmTimeout(e) PROVE ExpiryRowInv'
  BY <1>19 DEF ConfirmTimeout, Conclude, Goto, Pass, Pending, NoHeight
<1>20. ASSUME NEW e \in Executors, WriteAttempt(e) PROVE ExpiryRowInv'
  BY <1>20 DEF WriteAttempt, Goto, Pass, Pending, NoHeight
<1>21. ASSUME NEW e \in Executors, WriteIntent(e) PROVE ExpiryRowInv'
  <2>1. UNCHANGED <<outcome, owner, lastValid, tx, validUntil, height>>
    BY <1>21 DEF WriteIntent
  <2>2. /\ pc[e] = "writeIntent" /\ pc'[e] \in {"ready", "resolve", "poll"}
        /\ pc'[e] = "poll" => pending[e].next = "poll"
        /\ pc'[e] # "ready" => sig'[e] = sig[e] /\ bound'[e] = bound[e]
        /\ pass'[e].height \in {pass[e].height, NoHeight}
        /\ \A f \in Executors \ {e} :
              /\ pc'[f] = pc[f] /\ call'[f] = call[f] /\ sig'[f] = sig[f]
              /\ bound'[f] = bound[f] /\ pass'[f] = pass[f] /\ pending'[f] = pending[f]
    BY <1>21, WriteIntentFacts
  <2> QED
    BY <2>1, <2>2 DEF NoHeight
<1>22. ASSUME NEW e \in Executors, Crash(e) PROVE ExpiryRowInv'
  BY <1>22 DEF Crash, Leave, Goto, Pass, Pending, NoHeight
<1>23. ASSUME NEW e \in Executors, NEW i \in Intents, ClaimIntent(e, i) PROVE ExpiryRowInv'
  BY <1>23 DEF ClaimIntent, Goto, Pass, Pending, NoHeight
<1>24. CASE AdvanceHeight
  BY <1>24 DEF AdvanceHeight, Pass, Pending, NoHeight
<1>25. ASSUME NEW s \in Signatures, Include(s) PROVE ExpiryRowInv'
  BY <1>25 DEF Include, CanLand, Pass, Pending, NoHeight
<1>26. ASSUME NEW s \in Signatures, ConfirmBlock(s) PROVE ExpiryRowInv'
  BY <1>26 DEF ConfirmBlock, StatusOf, Pass, Pending, NoHeight
<1>27. ASSUME NEW s \in Signatures, Reorg(s) PROVE ExpiryRowInv'
  BY <1>27 DEF Reorg, Pass, Pending, NoHeight
<1>28. CASE UNCHANGED vars
  BY <1>28 DEF vars, Pass, Pending, NoHeight
<1> QED
  BY <1>1, <1>2, <1>3, <1>4, <1>5, <1>6, <1>7, <1>8, <1>9, <1>10, <1>11, <1>12, <1>13, <1>14, <1>15, <1>16, <1>17, <1>18, <1>19, <1>20, <1>21, <1>22, <1>23, <1>24, <1>25, <1>26, <1>27, <1>28 DEF Next, Cluster, Executor, Proceed

LEMMA ExpiryMemoryStep ==
  ~StaleReads /\ ClaimInv /\ ClaimInv' /\ ExpiryInv /\ [Next]_vars => ExpiryMemoryInv'
<1> SUFFICES ASSUME ~StaleReads, ClaimInv, ClaimInv', ExpiryInv, [Next]_vars PROVE ExpiryMemoryInv'
  OBVIOUS
<1> USE ConstantsAssumption
    DEF ClaimInv, TypeOK, RowInv, MemoryInv, ExpiryInv, ExpiryRowInv, ExpiryMemoryInv, chainVars,
        dbVars, callVars, memVars, BuildPcs, HeldPcs, AttemptPcs, WritePcs, Unresolved, Settled,
        Outcomes
<1>1. ASSUME NEW e \in Executors, StartClean(e) PROVE ExpiryMemoryInv'
  BY <1>1 DEF StartClean, Goto, Pass, Pending, NoHeight
<1>2. ASSUME NEW e \in Executors, StartPass(e) PROVE ExpiryMemoryInv'
  BY <1>2 DEF StartPass, Outstanding, Goto, Pass, Pending, NoHeight
<1>3. ASSUME NEW e \in Executors, ReadStartHeight(e) PROVE ExpiryMemoryInv'
  BY <1>3 DEF ReadStartHeight, Goto, HeightReads, Pass, Pending, NoHeight
<1>4. ASSUME NEW e \in Executors, ResolveFails(e) PROVE ExpiryMemoryInv'
  BY <1>4 DEF ResolveFails, Passed, Pass, Pending, NoHeight
<1>5. ASSUME NEW e \in Executors, ResolveOne(e) PROVE ExpiryMemoryInv'
  BY <1>5 DEF ResolveOne, Passed, Goto, Conclude, Verdict, StatusReads, StatusOf, Pass, Pending, NoHeight
<1>6. ASSUME NEW e \in Executors, FinishStart(e) PROVE ExpiryMemoryInv'
  BY <1>6, LeaveFacts DEF FinishStart, NoPass, NoHeight
<1>7. ASSUME NEW e \in Executors, Refuse(e) PROVE ExpiryMemoryInv'
  BY <1>7, LeaveFacts DEF Refuse, NoPass, NoHeight
<1>8. ASSUME NEW e \in Executors, RequestOrder(e) PROVE ExpiryMemoryInv'
  BY <1>8 DEF RequestOrder, Goto, Pass, Pending, NoHeight
<1>9. ASSUME NEW e \in Executors, BuildOrder(e) PROVE ExpiryMemoryInv'
  BY <1>9 DEF BuildOrder, Goto, Pass, Pending, NoHeight
<1>10. ASSUME NEW e \in Executors, VerifyEffect(e) PROVE ExpiryMemoryInv'
  BY <1>10 DEF VerifyEffect, Goto, Pass, Pending, NoHeight
<1>11. ASSUME NEW e \in Executors, Sign(e) PROVE ExpiryMemoryInv'
  BY <1>11 DEF Sign, Goto, Pass, Pending, NoHeight
<1>12. ASSUME NEW e \in Executors, ReadExpiryBound(e) PROVE ExpiryMemoryInv'
  BY <1>12 DEF ReadExpiryBound, Goto, HeightReads, Pass, Pending, NoHeight
<1>13. ASSUME NEW e \in Executors, RecordAttempt(e) PROVE ExpiryMemoryInv'
  BY <1>13 DEF RecordAttempt, Goto, Pass, Pending, NoHeight
<1>14. ASSUME NEW e \in Executors, MarkSigned(e) PROVE ExpiryMemoryInv'
  BY <1>14 DEF MarkSigned, Goto, Pass, Pending, NoHeight
<1>15. ASSUME NEW e \in Executors, SendAccepted(e) PROVE ExpiryMemoryInv'
  BY <1>15 DEF SendAccepted, Conclude, Goto, Pass, Pending, NoHeight
<1>16. ASSUME NEW e \in Executors, SendThrows(e) PROVE ExpiryMemoryInv'
  BY <1>16 DEF SendThrows, Conclude, Goto, Pass, Pending, NoHeight
<1>17. ASSUME NEW e \in Executors, PollStatus(e) PROVE ExpiryMemoryInv'
  BY <1>17 DEF PollStatus, Verdict, StatusReads, StatusOf, Conclude, Goto, PollAgain, Pass, Pending, NoHeight
<1>18. ASSUME NEW e \in Executors, PollHeight(e) PROVE ExpiryMemoryInv'
  <2>1. /\ pc[e] = "pollHeight"
        /\ UNCHANGED <<outcome, lastValid, tx, validUntil, height, bound, sig, pass>>
    BY <1>18 DEF PollHeight
  <2>2. bound[e] = lastValid[sig[e]]
    BY <2>1
  <2>3. CASE PollAgain(e)
    <3>1. pc' = [pc EXCEPT ![e] = "poll"] /\ pending' = pending
      BY <2>3 DEF PollAgain, Goto
    <3> QED
      BY <2>1, <2>2, <3>1
  <2>4. CASE Conclude(e, "EXPIRED", "ready") /\ height > bound[e]
    <3>1. /\ pc' = [pc EXCEPT ![e] = "writeAttempt"]
          /\ pending' = [pending EXCEPT ![e] = [verdict |-> "EXPIRED", next |-> "ready"]]
      BY <2>4 DEF Conclude, Goto
    <3>2. lastValid[sig[e]] < height
      BY <2>1, <2>2, <2>4
    <3>3. ASSUME NEW f \in Executors \ {e}
          PROVE  pc'[f] = pc[f] /\ pending'[f] = pending[f]
      BY <3>1
    <3>4. pc'[e] = "writeAttempt" /\ pending'[e].next = "ready"
      BY <3>1
    <3> QED
      BY <2>1, <3>2, <3>3, <3>4
  <2>5. PollAgain(e) \/ (Conclude(e, "EXPIRED", "ready") /\ height > bound[e])
    <3>1. PICK h \in {height, NoHeight} :
            IF h > bound[e] THEN Conclude(e, "EXPIRED", "ready") /\ UNCHANGED polls
                            ELSE PollAgain(e)
      BY <1>18 DEF PollHeight, HeightReads
    <3> QED
      BY <3>1 DEF NoHeight
  <2> QED
    BY <2>3, <2>4, <2>5
<1>19. ASSUME NEW e \in Executors, ConfirmTimeout(e) PROVE ExpiryMemoryInv'
  BY <1>19 DEF ConfirmTimeout, Conclude, Goto, Pass, Pending, NoHeight
<1>20. ASSUME NEW e \in Executors, WriteAttempt(e) PROVE ExpiryMemoryInv'
  BY <1>20 DEF WriteAttempt, Goto, Pass, Pending, NoHeight
<1>21. ASSUME NEW e \in Executors, WriteIntent(e) PROVE ExpiryMemoryInv'
  <2>1. UNCHANGED <<outcome, owner, lastValid, tx, validUntil, height>>
    BY <1>21 DEF WriteIntent
  <2>2. /\ pc[e] = "writeIntent" /\ pc'[e] \in {"ready", "resolve", "poll"}
        /\ pc'[e] = "poll" => pending[e].next = "poll"
        /\ pc'[e] # "ready" => sig'[e] = sig[e] /\ bound'[e] = bound[e]
        /\ pass'[e].height \in {pass[e].height, NoHeight}
        /\ \A f \in Executors \ {e} :
              /\ pc'[f] = pc[f] /\ call'[f] = call[f] /\ sig'[f] = sig[f]
              /\ bound'[f] = bound[f] /\ pass'[f] = pass[f] /\ pending'[f] = pending[f]
    BY <1>21, WriteIntentFacts
  <2>3. pass'[e].height <= height'
    BY <2>1, <2>2 DEF NoHeight, Pass
  <2>4. pc'[e] = "poll" => bound'[e] = lastValid'[sig'[e]]
    BY <2>1, <2>2
  <2>5. ASSUME NEW f \in Executors \ {e}
        PROVE  /\ pc'[f] \in HeldPcs => validUntil'[sig'[f]] <= height' + Window
               /\ pc'[f] = "bounded" => validUntil'[sig'[f]] <= bound'[f]
               /\ pc'[f] \in AttemptPcs \/ (pc'[f] \in WritePcs /\ pending'[f].next = "poll")
                    => bound'[f] = lastValid'[sig'[f]]
               /\ pass'[f].height <= height'
               /\ pc'[f] \in WritePcs /\ pending'[f].verdict = "EXPIRED"
                    => lastValid'[sig'[f]] < height'
    BY <2>1, <2>2
  <2> QED
    BY <2>2, <2>3, <2>4, <2>5
<1>22. ASSUME NEW e \in Executors, Crash(e) PROVE ExpiryMemoryInv'
  BY <1>22, LeaveFacts DEF Crash, NoPass, NoHeight
<1>23. ASSUME NEW e \in Executors, NEW i \in Intents, ClaimIntent(e, i) PROVE ExpiryMemoryInv'
  BY <1>23 DEF ClaimIntent, Goto, Pass, Pending, NoHeight
<1>24. CASE AdvanceHeight
  BY <1>24 DEF AdvanceHeight, Pass, Pending, NoHeight
<1>25. ASSUME NEW s \in Signatures, Include(s) PROVE ExpiryMemoryInv'
  BY <1>25 DEF Include, CanLand, Pass, Pending, NoHeight
<1>26. ASSUME NEW s \in Signatures, ConfirmBlock(s) PROVE ExpiryMemoryInv'
  BY <1>26 DEF ConfirmBlock, StatusOf, Pass, Pending, NoHeight
<1>27. ASSUME NEW s \in Signatures, Reorg(s) PROVE ExpiryMemoryInv'
  BY <1>27 DEF Reorg, Pass, Pending, NoHeight
<1>28. CASE UNCHANGED vars
  BY <1>28 DEF vars, Pass, Pending, NoHeight
<1> QED
  BY <1>1, <1>2, <1>3, <1>4, <1>5, <1>6, <1>7, <1>8, <1>9, <1>10, <1>11, <1>12, <1>13, <1>14, <1>15, <1>16, <1>17, <1>18, <1>19, <1>20, <1>21, <1>22, <1>23, <1>24, <1>25, <1>26, <1>27, <1>28 DEF Next, Cluster, Executor, Proceed

LEMMA StartupStep ==
  ~StaleReads /\ ClaimInv /\ ClaimInv' /\ ExpiryInv /\ [Next]_vars => StartupExpiresOnlyDead'
<1> SUFFICES ASSUME ~StaleReads, ClaimInv, ClaimInv', ExpiryInv, [Next]_vars PROVE StartupExpiresOnlyDead'
  OBVIOUS
<1> USE ConstantsAssumption
    DEF ClaimInv, TypeOK, RowInv, MemoryInv, ExpiryInv, ExpiryRowInv, ExpiryMemoryInv, chainVars,
        dbVars, callVars, memVars, BuildPcs, HeldPcs, AttemptPcs, WritePcs, Unresolved, Settled,
        Outcomes, Processed, StartupExpiresOnlyDead
<1>1. ASSUME NEW e \in Executors, StartClean(e) PROVE StartupExpiresOnlyDead'
  BY <1>1 DEF StartClean, Goto, Pass, Pending, NoHeight
<1>2. ASSUME NEW e \in Executors, StartPass(e) PROVE StartupExpiresOnlyDead'
  BY <1>2 DEF StartPass, Outstanding, Goto, Pass, Pending, NoHeight
<1>3. ASSUME NEW e \in Executors, ReadStartHeight(e) PROVE StartupExpiresOnlyDead'
  BY <1>3 DEF ReadStartHeight, Goto, HeightReads, Pass, Pending, NoHeight
<1>4. ASSUME NEW e \in Executors, ResolveFails(e) PROVE StartupExpiresOnlyDead'
  BY <1>4 DEF ResolveFails, Passed, Pass, Pending, NoHeight
<1>5. ASSUME NEW e \in Executors, ResolveOne(e) PROVE StartupExpiresOnlyDead'
  <2>1. PICK s \in pass[e].todo : \E status \in StatusReads(s) :
          LET v == Verdict(status, pass[e].height, lastValid[s]) IN
            IF v = "UNKNOWN" /\ s \in pass[e].unknown
              THEN UNCHANGED <<pc, sig, pending>>
              ELSE sig' = [sig EXCEPT ![e] = s] /\ Conclude(e, v, "resolve")
    BY <1>5 DEF ResolveOne
  <2>2. PICK status \in StatusReads(s) :
          LET v == Verdict(status, pass[e].height, lastValid[s]) IN
            IF v = "UNKNOWN" /\ s \in pass[e].unknown
              THEN UNCHANGED <<pc, sig, pending>>
              ELSE sig' = [sig EXCEPT ![e] = s] /\ Conclude(e, v, "resolve")
    BY <2>1
  <2> DEFINE v == Verdict(status, pass[e].height, lastValid[s])
  <2>3. v = "EXPIRED" => tx[s] \notin Processed
    BY DEF Verdict, StatusReads, StatusOf
  <2> HIDE DEF v
  <2>4. CASE UNCHANGED <<pc, sig, pending>>
    BY <1>5, <2>4 DEF ResolveOne
  <2>5. CASE sig' = [sig EXCEPT ![e] = s] /\ Conclude(e, v, "resolve")
    BY <1>5, <2>3, <2>5 DEF ResolveOne, Conclude, Goto
  <2> QED
    BY <2>2, <2>4, <2>5 DEF v
<1>6. ASSUME NEW e \in Executors, FinishStart(e) PROVE StartupExpiresOnlyDead'
  <2>1. PICK p \in {"down", "ready"} : Leave(e, p)
    BY <1>6 DEF FinishStart
  <2>2. pc'[e] = p /\ UNCHANGED tx
    BY <1>6, <2>1, LeaveFacts DEF FinishStart
  <2>3. ASSUME NEW f \in Executors \ {e}
        PROVE  pc'[f] = pc[f] /\ sig'[f] = sig[f] /\ pending'[f] = pending[f]
    BY <2>1, LeaveFacts
  <2>4. StartupExpiresOnlyDead
    BY DEF ExpiryInv
  <2> QED
    BY ONLY <2>2, <2>3, <2>4, p \in {"down", "ready"} DEF StartupExpiresOnlyDead, WritePcs
<1>7. ASSUME NEW e \in Executors, Refuse(e) PROVE StartupExpiresOnlyDead'
  <2>1. Leave(e, "ready") /\ UNCHANGED tx
    BY <1>7 DEF Refuse
  <2>2. pc'[e] = "ready"
    BY <2>1 DEF Leave, Goto
  <2>3. ASSUME NEW f \in Executors \ {e}
        PROVE  pc'[f] = pc[f] /\ sig'[f] = sig[f] /\ pending'[f] = pending[f]
    BY <2>1, LeaveFacts
  <2>4. StartupExpiresOnlyDead
    BY DEF ExpiryInv
  <2> QED
    BY ONLY <2>1, <2>2, <2>3, <2>4 DEF StartupExpiresOnlyDead, WritePcs
<1>8. ASSUME NEW e \in Executors, RequestOrder(e) PROVE StartupExpiresOnlyDead'
  BY <1>8 DEF RequestOrder, Goto, Pass, Pending, NoHeight
<1>9. ASSUME NEW e \in Executors, BuildOrder(e) PROVE StartupExpiresOnlyDead'
  BY <1>9 DEF BuildOrder, Goto, Pass, Pending, NoHeight
<1>10. ASSUME NEW e \in Executors, VerifyEffect(e) PROVE StartupExpiresOnlyDead'
  BY <1>10 DEF VerifyEffect, Goto, Pass, Pending, NoHeight
<1>11. ASSUME NEW e \in Executors, Sign(e) PROVE StartupExpiresOnlyDead'
  BY <1>11 DEF Sign, Goto, Pass, Pending, NoHeight
<1>12. ASSUME NEW e \in Executors, ReadExpiryBound(e) PROVE StartupExpiresOnlyDead'
  BY <1>12 DEF ReadExpiryBound, Goto, HeightReads, Pass, Pending, NoHeight
<1>13. ASSUME NEW e \in Executors, RecordAttempt(e) PROVE StartupExpiresOnlyDead'
  BY <1>13 DEF RecordAttempt, Goto, Pass, Pending, NoHeight
<1>14. ASSUME NEW e \in Executors, MarkSigned(e) PROVE StartupExpiresOnlyDead'
  BY <1>14 DEF MarkSigned, Goto, Pass, Pending, NoHeight
<1>15. ASSUME NEW e \in Executors, SendAccepted(e) PROVE StartupExpiresOnlyDead'
  BY <1>15 DEF SendAccepted, Conclude, Goto, Pass, Pending, NoHeight
<1>16. ASSUME NEW e \in Executors, SendThrows(e) PROVE StartupExpiresOnlyDead'
  BY <1>16 DEF SendThrows, Conclude, Goto, Pass, Pending, NoHeight
<1>17. ASSUME NEW e \in Executors, PollStatus(e) PROVE StartupExpiresOnlyDead'
  BY <1>17 DEF PollStatus, Verdict, StatusReads, StatusOf, Conclude, Goto, PollAgain, Pass, Pending, NoHeight
<1>18. ASSUME NEW e \in Executors, PollHeight(e) PROVE StartupExpiresOnlyDead'
  <2>1. CASE PollAgain(e)
    BY <1>18, <2>1 DEF PollHeight, PollAgain, Goto
  <2>2. CASE Conclude(e, "EXPIRED", "ready")
    BY <1>18, <2>2 DEF PollHeight, Conclude, Goto
  <2> QED
    BY <1>18, <2>1, <2>2 DEF PollHeight
<1>19. ASSUME NEW e \in Executors, ConfirmTimeout(e) PROVE StartupExpiresOnlyDead'
  BY <1>19 DEF ConfirmTimeout, Conclude, Goto, Pass, Pending, NoHeight
<1>20. ASSUME NEW e \in Executors, WriteAttempt(e) PROVE StartupExpiresOnlyDead'
  BY <1>20 DEF WriteAttempt, Goto, Pass, Pending, NoHeight
<1>21. ASSUME NEW e \in Executors, WriteIntent(e) PROVE StartupExpiresOnlyDead'
  <2>1. UNCHANGED <<outcome, owner, lastValid, tx, validUntil, height>>
    BY <1>21 DEF WriteIntent
  <2>2. /\ pc[e] = "writeIntent" /\ pc'[e] \in {"ready", "resolve", "poll"}
        /\ pc'[e] = "poll" => pending[e].next = "poll"
        /\ pc'[e] # "ready" => sig'[e] = sig[e] /\ bound'[e] = bound[e]
        /\ pass'[e].height \in {pass[e].height, NoHeight}
        /\ \A f \in Executors \ {e} :
              /\ pc'[f] = pc[f] /\ call'[f] = call[f] /\ sig'[f] = sig[f]
              /\ bound'[f] = bound[f] /\ pass'[f] = pass[f] /\ pending'[f] = pending[f]
    BY <1>21, WriteIntentFacts
  <2> QED
    BY <2>1, <2>2 DEF NoHeight
<1>22. ASSUME NEW e \in Executors, Crash(e) PROVE StartupExpiresOnlyDead'
  BY <1>22, LeaveFacts DEF Crash, NoPass, NoHeight
<1>23. ASSUME NEW e \in Executors, NEW i \in Intents, ClaimIntent(e, i) PROVE StartupExpiresOnlyDead'
  BY <1>23 DEF ClaimIntent, Goto, Pass, Pending, NoHeight
<1>24. CASE AdvanceHeight
  BY <1>24 DEF AdvanceHeight, Pass, Pending, NoHeight
<1>25. ASSUME NEW s \in Signatures, Include(s) PROVE StartupExpiresOnlyDead'
  BY <1>25 DEF Include, CanLand, Pass, Pending, NoHeight
<1>26. ASSUME NEW s \in Signatures, ConfirmBlock(s) PROVE StartupExpiresOnlyDead'
  BY <1>26 DEF ConfirmBlock, StatusOf, Pass, Pending, NoHeight
<1>27. ASSUME NEW s \in Signatures, Reorg(s) PROVE StartupExpiresOnlyDead'
  BY <1>27 DEF Reorg, Pass, Pending, NoHeight
<1>28. CASE UNCHANGED vars
  BY <1>28 DEF vars, Pass, Pending, NoHeight
<1> QED
  BY <1>1, <1>2, <1>3, <1>4, <1>5, <1>6, <1>7, <1>8, <1>9, <1>10, <1>11, <1>12, <1>13, <1>14, <1>15, <1>16, <1>17, <1>18, <1>19, <1>20, <1>21, <1>22, <1>23, <1>24, <1>25, <1>26, <1>27, <1>28 DEF Next, Cluster, Executor, Proceed

\* Without lagging endpoints the recorded bound outlives the blockhash, and
\* whoever is about to write EXPIRED has seen the chain pass it.
THEOREM BoundsHold == ASSUME ~StaleReads PROVE Spec => []ExpiryInv
<1>1. Init => ExpiryInv
  BY DEF Init, ExpiryInv, ExpiryRowInv, ExpiryMemoryInv, StartupExpiresOnlyDead, NoPass, NoHeight, HeldPcs, AttemptPcs,
     WritePcs
<1>2. ClaimInv /\ ClaimInv' /\ ExpiryInv /\ [Next]_vars => ExpiryInv'
  BY ExpiryRowStep, ExpiryMemoryStep, StartupStep DEF ExpiryInv
<1> QED
  BY <1>1, <1>2, ClaimsHold, PTL DEF Spec

\* An attempt written off as EXPIRED can no longer be put in a block, by
\* confirm() or by resolveOne(), whatever crashes and forks happened.
THEOREM ExpiryIsFinal == ASSUME ~StaleReads PROVE Spec => []ExpiredCannotLand
<1>1. ClaimInv /\ ExpiryInv => ExpiredCannotLand
  BY DEF ClaimInv, TypeOK, ExpiryInv, ExpiryRowInv, ExpiredCannotLand, CanLand
<1> QED
  BY <1>1, ClaimsHold, BoundsHold, PTL

\* resolveOutstanding reads the height before the status, so an EXPIRED it
\* writes was never in a block. (confirm() reads them the other way round.)
THEOREM StartupExpiryIsSound == ASSUME ~StaleReads PROVE Spec => []StartupExpiresOnlyDead
<1>1. ExpiryInv => StartupExpiresOnlyDead
  BY DEF ExpiryInv
<1> QED
  BY <1>1, BoundsHold, PTL

-----------------------------------------------------------------------------
(* The chain: a verdict that is written is what the cluster holds.           *)

\* Three steps of an executor and three of the cluster change a transaction.
LEMMA TxFrame ==
  ASSUME [Next]_vars
  PROVE  \/ UNCHANGED tx
         \/ \E e \in Executors : BuildOrder(e) \/ SendAccepted(e) \/ SendThrows(e)
         \/ \E s \in Signatures : Include(s) \/ ConfirmBlock(s) \/ Reorg(s)
<1> USE DEF chainVars
<1>1. ASSUME NEW e \in Executors,
             \/ StartClean(e) \/ StartPass(e) \/ ReadStartHeight(e) \/ ResolveFails(e)
             \/ ResolveOne(e) \/ FinishStart(e) \/ Crash(e) \/ WriteAttempt(e) \/ WriteIntent(e)
      PROVE  UNCHANGED tx
  BY <1>1 DEF StartClean, StartPass, ReadStartHeight, ResolveFails, ResolveOne, FinishStart, Crash,
              WriteAttempt, WriteIntent
<1>2. ASSUME NEW e \in Executors,
             \/ Refuse(e) \/ RequestOrder(e) \/ VerifyEffect(e) \/ Sign(e) \/ ReadExpiryBound(e)
             \/ RecordAttempt(e) \/ MarkSigned(e) \/ PollStatus(e) \/ PollHeight(e)
             \/ ConfirmTimeout(e) \/ \E i \in Intents : ClaimIntent(e, i)
      PROVE  UNCHANGED tx
  BY <1>2 DEF Refuse, RequestOrder, VerifyEffect, Sign, ReadExpiryBound, RecordAttempt, MarkSigned,
              PollStatus, PollHeight, ConfirmTimeout, ClaimIntent
<1>3. CASE AdvanceHeight \/ UNCHANGED vars
  BY <1>3 DEF AdvanceHeight, vars
<1> QED
  BY <1>1, <1>2, <1>3 DEF Next, Cluster, Executor, Proceed

\* Two steps change an attempt row.
LEMMA OutcomeFrame ==
  ASSUME [Next]_vars
  PROVE  \/ UNCHANGED <<outcome, owner>>
         \/ \E e \in Executors : RecordAttempt(e) \/ WriteAttempt(e)
<1> USE DEF dbVars
<1>1. ASSUME NEW e \in Executors,
             \/ StartClean(e) \/ StartPass(e) \/ ReadStartHeight(e) \/ ResolveFails(e)
             \/ ResolveOne(e) \/ FinishStart(e) \/ Crash(e) \/ WriteIntent(e)
      PROVE  UNCHANGED <<outcome, owner>>
  BY <1>1 DEF StartClean, StartPass, ReadStartHeight, ResolveFails, ResolveOne, FinishStart, Crash,
              WriteIntent
<1>2. ASSUME NEW e \in Executors,
             \/ Refuse(e) \/ RequestOrder(e) \/ BuildOrder(e) \/ VerifyEffect(e) \/ Sign(e)
             \/ ReadExpiryBound(e) \/ MarkSigned(e) \/ SendAccepted(e) \/ SendThrows(e)
             \/ PollStatus(e) \/ PollHeight(e) \/ ConfirmTimeout(e)
             \/ \E i \in Intents : ClaimIntent(e, i)
      PROVE  UNCHANGED <<outcome, owner>>
  BY <1>2 DEF Refuse, RequestOrder, BuildOrder, VerifyEffect, Sign, ReadExpiryBound, MarkSigned,
              SendAccepted, SendThrows, PollStatus, PollHeight, ConfirmTimeout, ClaimIntent
<1>3. CASE Cluster \/ UNCHANGED vars
  BY <1>3 DEF Cluster, AdvanceHeight, Include, ConfirmBlock, Reorg, vars
<1> QED
  BY <1>1, <1>2, <1>3 DEF Next, Executor, Proceed

LEMMA WireStep ==
  ClaimInv /\ WireInv /\ [Next]_vars => WireInv'
<1> SUFFICES ASSUME ClaimInv, WireInv, [Next]_vars PROVE WireInv'
  OBVIOUS
<1> USE DEF ClaimInv, TypeOK, RowInv, MemoryInv, ExclusiveInv, WireInv, chainVars, dbVars, callVars,
        memVars, BuildPcs, HeldPcs, AttemptPcs, WritePcs, Unresolved, Settled, Outcomes, OnWire,
        Processed
<1>1. ASSUME NEW e \in Executors, StartClean(e) PROVE WireInv'
  BY <1>1 DEF StartClean, Goto, Pass, Pending
<1>2. ASSUME NEW e \in Executors, StartPass(e) PROVE WireInv'
  BY <1>2 DEF StartPass, Outstanding, Goto, Pass, Pending
<1>3. ASSUME NEW e \in Executors, ReadStartHeight(e) PROVE WireInv'
  BY <1>3 DEF ReadStartHeight, Goto, HeightReads, Pass, Pending
<1>4. ASSUME NEW e \in Executors, ResolveFails(e) PROVE WireInv'
  BY <1>4 DEF ResolveFails, Passed, Pass, Pending
<1>5. ASSUME NEW e \in Executors, ResolveOne(e) PROVE WireInv'
  <2>1. /\ UNCHANGED tx /\ pc'[e] \notin {"recorded", "sending"}
        /\ \A f \in Executors \ {e} :
              pc'[f] = pc[f] /\ sig'[f] = sig[f] /\ pending'[f] = pending[f]
    BY <1>5 DEF ResolveOne, Passed, Goto, Conclude
  <2> QED
    BY ONLY <2>1, WireInv DEF WireInv
<1>6. ASSUME NEW e \in Executors, FinishStart(e) PROVE WireInv'
  <2>1. /\ UNCHANGED tx /\ pc'[e] \notin {"recorded", "sending"}
        /\ \A f \in Executors \ {e} :
              pc'[f] = pc[f] /\ sig'[f] = sig[f] /\ pending'[f] = pending[f]
    BY <1>6, LeaveFacts DEF FinishStart
  <2> QED
    BY ONLY <2>1, WireInv DEF WireInv
<1>7. ASSUME NEW e \in Executors, Refuse(e) PROVE WireInv'
  <2>1. /\ UNCHANGED tx /\ pc'[e] \notin {"recorded", "sending"}
        /\ \A f \in Executors \ {e} :
              pc'[f] = pc[f] /\ sig'[f] = sig[f] /\ pending'[f] = pending[f]
    BY <1>7, LeaveFacts DEF Refuse
  <2> QED
    BY ONLY <2>1, WireInv DEF WireInv
<1>8. ASSUME NEW e \in Executors, RequestOrder(e) PROVE WireInv'
  BY <1>8 DEF RequestOrder, Goto, Pass, Pending
<1>9. ASSUME NEW e \in Executors, BuildOrder(e) PROVE WireInv'
  BY <1>9 DEF BuildOrder, Goto, Pass, Pending
<1>10. ASSUME NEW e \in Executors, VerifyEffect(e) PROVE WireInv'
  BY <1>10 DEF VerifyEffect, Goto, Pass, Pending
<1>11. ASSUME NEW e \in Executors, Sign(e) PROVE WireInv'
  BY <1>11 DEF Sign, Goto, Pass, Pending
<1>12. ASSUME NEW e \in Executors, ReadExpiryBound(e) PROVE WireInv'
  BY <1>12 DEF ReadExpiryBound, Goto, HeightReads, Pass, Pending
<1>13. ASSUME NEW e \in Executors, RecordAttempt(e) PROVE WireInv'
  BY <1>13 DEF RecordAttempt, Goto, Pass, Pending
<1>14. ASSUME NEW e \in Executors, MarkSigned(e) PROVE WireInv'
  BY <1>14 DEF MarkSigned, Goto, Pass, Pending
<1>15. ASSUME NEW e \in Executors, SendAccepted(e) PROVE WireInv'
  BY <1>15 DEF SendAccepted, Conclude, Goto, Pass, Pending
<1>16. ASSUME NEW e \in Executors, SendThrows(e) PROVE WireInv'
  BY <1>16 DEF SendThrows, Conclude, Goto, Pass, Pending
<1>17. ASSUME NEW e \in Executors, PollStatus(e) PROVE WireInv'
  <2>1. /\ UNCHANGED tx /\ pc'[e] \notin {"recorded", "sending"}
        /\ \A f \in Executors \ {e} :
              pc'[f] = pc[f] /\ sig'[f] = sig[f] /\ pending'[f] = pending[f]
    BY <1>17 DEF PollStatus, Conclude, Goto, PollAgain
  <2> QED
    BY ONLY <2>1, WireInv DEF WireInv
<1>18. ASSUME NEW e \in Executors, PollHeight(e) PROVE WireInv'
  <2>1. /\ UNCHANGED tx /\ pc'[e] \notin {"recorded", "sending"}
        /\ \A f \in Executors \ {e} :
              pc'[f] = pc[f] /\ sig'[f] = sig[f] /\ pending'[f] = pending[f]
    BY <1>18 DEF PollHeight, Conclude, Goto, PollAgain
  <2> QED
    BY ONLY <2>1, WireInv DEF WireInv
<1>19. ASSUME NEW e \in Executors, ConfirmTimeout(e) PROVE WireInv'
  BY <1>19 DEF ConfirmTimeout, Conclude, Goto, Pass, Pending
<1>20. ASSUME NEW e \in Executors, WriteAttempt(e) PROVE WireInv'
  BY <1>20 DEF WriteAttempt, Goto, Pass, Pending
<1>21. ASSUME NEW e \in Executors, WriteIntent(e) PROVE WireInv'
  <2>1. UNCHANGED tx
    BY <1>21 DEF WriteIntent
  <2>2. /\ pc'[e] \notin {"recorded", "sending"}
        /\ \A f \in Executors \ {e} :
              pc'[f] = pc[f] /\ sig'[f] = sig[f] /\ pending'[f] = pending[f]
    BY <1>21, WriteIntentFacts
  <2> QED
    BY ONLY <2>1, <2>2, WireInv DEF WireInv
<1>22. ASSUME NEW e \in Executors, Crash(e) PROVE WireInv'
  <2>1. /\ UNCHANGED tx /\ pc'[e] \notin {"recorded", "sending"}
        /\ \A f \in Executors \ {e} :
              pc'[f] = pc[f] /\ sig'[f] = sig[f] /\ pending'[f] = pending[f]
    BY <1>22, LeaveFacts DEF Crash
  <2> QED
    BY ONLY <2>1, WireInv DEF WireInv
<1>23. ASSUME NEW e \in Executors, NEW i \in Intents, ClaimIntent(e, i) PROVE WireInv'
  BY <1>23 DEF ClaimIntent, Goto, Pass, Pending
<1>24. CASE AdvanceHeight
  BY <1>24 DEF AdvanceHeight, Pass, Pending
<1>25. ASSUME NEW s \in Signatures, Include(s) PROVE WireInv'
  BY <1>25 DEF Include, CanLand, Pass, Pending
<1>26. ASSUME NEW s \in Signatures, ConfirmBlock(s) PROVE WireInv'
  BY <1>26 DEF ConfirmBlock, StatusOf, Pass, Pending
<1>27. ASSUME NEW s \in Signatures, Reorg(s) PROVE WireInv'
  BY <1>27 DEF Reorg, Pass, Pending
<1>28. CASE UNCHANGED vars
  BY <1>28 DEF vars, Pass, Pending
<1> QED
  BY <1>1, <1>2, <1>3, <1>4, <1>5, <1>6, <1>7, <1>8, <1>9, <1>10, <1>11, <1>12, <1>13, <1>14, <1>15, <1>16, <1>17, <1>18, <1>19, <1>20, <1>21, <1>22, <1>23, <1>24, <1>25, <1>26, <1>27, <1>28 DEF Next, Cluster, Executor, Proceed

\* What the cluster confirmed it never takes back, and without forks neither
\* what it put in a block.
LEMMA TxStep ==
  ASSUME ClaimInv, WireInv, [Next]_vars, NEW s \in Signatures
  PROVE  /\ tx[s] \in {"ok", "err"} => tx'[s] = tx[s]
         /\ ~Reorgs /\ StatusOf(tx[s]) # "null" => StatusOf(tx'[s]) = StatusOf(tx[s])
<1> USE DEF ClaimInv, TypeOK, MemoryInv, WireInv, AttemptPcs, StatusOf
<1>1. CASE UNCHANGED tx
  BY <1>1
<1>2. ASSUME NEW e \in Executors, BuildOrder(e) PROVE tx'[s] = tx[s] \/ tx[s] = "none"
  BY <1>2 DEF BuildOrder
<1>3. ASSUME NEW e \in Executors, SendAccepted(e) \/ SendThrows(e)
      PROVE  tx'[s] = tx[s] \/ tx[s] = "held"
  BY <1>3 DEF SendAccepted, SendThrows
<1>4. ASSUME NEW t \in Signatures, Include(t) PROVE tx'[s] = tx[s] \/ tx[s] = "flying"
  BY <1>4 DEF Include, CanLand
<1>5. ASSUME NEW t \in Signatures, ConfirmBlock(t)
      PROVE  tx'[s] = tx[s] \/ (tx[s] \in {"procOk", "procErr"} /\ tx'[s] = StatusOf(tx[s]))
  BY <1>5 DEF ConfirmBlock
<1>6. ASSUME NEW t \in Signatures, Reorg(t)
      PROVE  Reorgs /\ (tx'[s] = tx[s] \/ tx[s] \in {"procOk", "procErr"})
  BY <1>6 DEF Reorg
<1> QED
  BY <1>1, <1>2, <1>3, <1>4, <1>5, <1>6, TxFrame


\* A row that is there stays, and keeps its intent.
LEMMA RowKept ==
  ASSUME ClaimInv, [Next]_vars, NEW s \in Signatures, outcome[s] # "absent"
  PROVE  outcome'[s] # "absent" /\ owner'[s] = owner[s]
<1> USE DEF ClaimInv, TypeOK, MemoryInv, HeldPcs, WritePcs
<1>1. CASE UNCHANGED <<outcome, owner>>
  BY <1>1
<1>2. ASSUME NEW e \in Executors, RecordAttempt(e) PROVE s # sig[e] /\ outcome'[s] = outcome[s] /\ owner'[s] = owner[s]
  BY <1>2 DEF RecordAttempt
<1>3. ASSUME NEW e \in Executors, WriteAttempt(e)
      PROVE  outcome'[s] # "absent" /\ owner'[s] = owner[s]
  BY <1>3 DEF WriteAttempt, Pending, Outcomes, Unresolved, Settled
<1> QED
  BY <1>1, <1>2, <1>3, OutcomeFrame

LEMMA VerdictStep ==
  ~Reorgs /\ ClaimInv /\ ClaimInv' /\ WireInv /\ VerdictInv /\ [Next]_vars => VerdictInv'
<1> SUFFICES ASSUME ~Reorgs, ClaimInv, ClaimInv', WireInv, VerdictInv, [Next]_vars PROVE VerdictInv'
  OBVIOUS
<1> USE DEF ClaimInv, TypeOK, RowInv, MemoryInv, VerdictInv, chainVars, dbVars, callVars,
        memVars, BuildPcs, HeldPcs, AttemptPcs, WritePcs, Unresolved, Settled, Outcomes, OnWire,
        Processed
<1>1. ASSUME NEW e \in Executors, StartClean(e) PROVE VerdictInv'
  BY <1>1 DEF StartClean, Goto, Pass, Pending
<1>2. ASSUME NEW e \in Executors, StartPass(e) PROVE VerdictInv'
  BY <1>2 DEF StartPass, Outstanding, Goto, Pass, Pending
<1>3. ASSUME NEW e \in Executors, ReadStartHeight(e) PROVE VerdictInv'
  BY <1>3 DEF ReadStartHeight, Goto, HeightReads, Pass, Pending
<1>4. ASSUME NEW e \in Executors, ResolveFails(e) PROVE VerdictInv'
  BY <1>4 DEF ResolveFails, Passed, Pass, Pending
<1>5. ASSUME NEW e \in Executors, ResolveOne(e) PROVE VerdictInv'
  BY <1>5 DEF ResolveOne, Passed, Goto, Conclude, Verdict, StatusReads, StatusOf, Pass, Pending
<1>6. ASSUME NEW e \in Executors, FinishStart(e) PROVE VerdictInv'
  BY <1>6, LeaveFacts DEF FinishStart, NoPass
<1>7. ASSUME NEW e \in Executors, Refuse(e) PROVE VerdictInv'
  BY <1>7, LeaveFacts DEF Refuse, NoPass
<1>8. ASSUME NEW e \in Executors, RequestOrder(e) PROVE VerdictInv'
  BY <1>8 DEF RequestOrder, Goto, Pass, Pending
<1>9. ASSUME NEW e \in Executors, BuildOrder(e) PROVE VerdictInv'
  BY <1>9 DEF BuildOrder, Goto, Pass, Pending
<1>10. ASSUME NEW e \in Executors, VerifyEffect(e) PROVE VerdictInv'
  BY <1>10 DEF VerifyEffect, Goto, Pass, Pending
<1>11. ASSUME NEW e \in Executors, Sign(e) PROVE VerdictInv'
  BY <1>11 DEF Sign, Goto, Pass, Pending
<1>12. ASSUME NEW e \in Executors, ReadExpiryBound(e) PROVE VerdictInv'
  BY <1>12 DEF ReadExpiryBound, Goto, HeightReads, Pass, Pending
<1>13. ASSUME NEW e \in Executors, RecordAttempt(e) PROVE VerdictInv'
  BY <1>13 DEF RecordAttempt, Goto, Pass, Pending
<1>14. ASSUME NEW e \in Executors, MarkSigned(e) PROVE VerdictInv'
  BY <1>14 DEF MarkSigned, Goto, Pass, Pending
<1>15. ASSUME NEW e \in Executors, SendAccepted(e) PROVE VerdictInv'
  <2>1. UNCHANGED sig /\ pending'[e].verdict = "SUBMITTED"
    BY <1>15 DEF SendAccepted, Conclude
  <2>2. ASSUME NEW f \in Executors, pc'[f] \in WritePcs
        PROVE  /\ pending'[f].verdict = "CONFIRMED" => StatusOf(tx'[sig'[f]]) = "ok"
               /\ pending'[f].verdict = "FAILED" => StatusOf(tx'[sig'[f]]) = "err"
    <3>1. CASE f = e
      BY <2>1, <3>1
    <3>2. CASE f # e
      <4>1. pc'[f] = pc[f] /\ pending'[f] = pending[f]
        BY <1>15, <3>2 DEF SendAccepted, Conclude, Goto
      <4>2. sig[f] \in Signatures
        BY <2>2, <4>1
      <4> QED
        BY <2>1, <2>2, <4>1, <4>2, TxStep
    <3> QED
      BY <3>1, <3>2
  <2> QED
    BY <2>2 DEF VerdictInv
<1>16. ASSUME NEW e \in Executors, SendThrows(e) PROVE VerdictInv'
  <2>1. UNCHANGED sig /\ pending'[e].verdict = "UNKNOWN"
    BY <1>16 DEF SendThrows, Conclude
  <2>2. ASSUME NEW f \in Executors, pc'[f] \in WritePcs
        PROVE  /\ pending'[f].verdict = "CONFIRMED" => StatusOf(tx'[sig'[f]]) = "ok"
               /\ pending'[f].verdict = "FAILED" => StatusOf(tx'[sig'[f]]) = "err"
    <3>1. CASE f = e
      BY <2>1, <3>1
    <3>2. CASE f # e
      <4>1. pc'[f] = pc[f] /\ pending'[f] = pending[f]
        BY <1>16, <3>2 DEF SendThrows, Conclude, Goto
      <4>2. sig[f] \in Signatures
        BY <2>2, <4>1
      <4> QED
        BY <2>1, <2>2, <4>1, <4>2, TxStep
    <3> QED
      BY <3>1, <3>2
  <2> QED
    BY <2>2 DEF VerdictInv
<1>17. ASSUME NEW e \in Executors, PollStatus(e) PROVE VerdictInv'
  BY <1>17 DEF PollStatus, Verdict, StatusReads, StatusOf, Conclude, Goto, PollAgain, Pass, Pending
<1>18. ASSUME NEW e \in Executors, PollHeight(e) PROVE VerdictInv'
  <2>1. UNCHANGED <<tx, sig>> /\ pc[e] = "pollHeight"
    BY <1>18 DEF PollHeight
  <2>2. CASE PollAgain(e)
    BY <2>1, <2>2 DEF PollAgain, Goto
  <2>3. CASE Conclude(e, "EXPIRED", "ready")
    BY <2>1, <2>3 DEF Conclude, Goto
  <2> QED
    BY <1>18, <2>2, <2>3 DEF PollHeight
<1>19. ASSUME NEW e \in Executors, ConfirmTimeout(e) PROVE VerdictInv'
  BY <1>19 DEF ConfirmTimeout, Conclude, Goto, Pass, Pending
<1>20. ASSUME NEW e \in Executors, WriteAttempt(e) PROVE VerdictInv'
  BY <1>20 DEF WriteAttempt, Goto, Pass, Pending
<1>21. ASSUME NEW e \in Executors, WriteIntent(e) PROVE VerdictInv'
  <2>1. UNCHANGED <<outcome, owner, lastValid, tx, validUntil, height>>
    BY <1>21 DEF WriteIntent
  <2>2. /\ pc[e] = "writeIntent" /\ pc'[e] \in {"ready", "resolve", "poll"}
        /\ pc'[e] = "poll" => pending[e].next = "poll" /\ sig'[e] = sig[e]
        /\ \A f \in Executors \ {e} :
              /\ pc'[f] = pc[f] /\ call'[f] = call[f] /\ sig'[f] = sig[f]
              /\ pass'[f] = pass[f] /\ pending'[f] = pending[f]
    BY <1>21, WriteIntentFacts
  <2> QED
    BY <2>1, <2>2
<1>22. ASSUME NEW e \in Executors, Crash(e) PROVE VerdictInv'
  BY <1>22, LeaveFacts DEF Crash, NoPass
<1>23. ASSUME NEW e \in Executors, NEW i \in Intents, ClaimIntent(e, i) PROVE VerdictInv'
  BY <1>23 DEF ClaimIntent, Goto, Pass, Pending
<1>24. CASE AdvanceHeight
  BY <1>24 DEF AdvanceHeight, Pass, Pending
<1>25. ASSUME NEW s \in Signatures, Include(s) PROVE VerdictInv'
  BY <1>25, TxStep DEF Include, CanLand, Pass, Pending
<1>26. ASSUME NEW s \in Signatures, ConfirmBlock(s) PROVE VerdictInv'
  BY <1>26, TxStep DEF ConfirmBlock, Pass, Pending
<1>27. ASSUME NEW s \in Signatures, Reorg(s) PROVE VerdictInv'
  BY <1>27, TxStep DEF Reorg, Pass, Pending
<1>28. CASE UNCHANGED vars
  BY <1>28 DEF vars, Pass, Pending
<1> QED
  BY <1>1, <1>2, <1>3, <1>4, <1>5, <1>6, <1>7, <1>8, <1>9, <1>10, <1>11, <1>12, <1>13, <1>14, <1>15, <1>16, <1>17, <1>18, <1>19, <1>20, <1>21, <1>22, <1>23, <1>24, <1>25, <1>26, <1>27, <1>28 DEF Next, Cluster, Executor, Proceed

LEMMA MatchStep ==
  ASSUME ~Reorgs, ClaimInv, ClaimInv', ChainInv, [Next]_vars
  PROVE  VerdictsMatchChain'
<1> SUFFICES ASSUME NEW s \in Signatures
             PROVE  /\ outcome'[s] = "CONFIRMED" => StatusOf(tx'[s]) = "ok"
                    /\ outcome'[s] = "FAILED" => StatusOf(tx'[s]) = "err"
  BY DEF VerdictsMatchChain
<1>1. StatusOf(tx[s]) # "null" => StatusOf(tx'[s]) = StatusOf(tx[s])
  BY TxStep DEF ChainInv
<1>2. /\ outcome[s] = "CONFIRMED" => StatusOf(tx[s]) = "ok"
      /\ outcome[s] = "FAILED" => StatusOf(tx[s]) = "err"
  BY DEF ChainInv, VerdictsMatchChain
<1>3. CASE outcome'[s] = outcome[s]
  BY <1>1, <1>2, <1>3
<1>4. ASSUME NEW e \in Executors, RecordAttempt(e), s = sig[e] PROVE outcome'[s] = "SIGNED"
  BY <1>4 DEF RecordAttempt, ClaimInv, TypeOK
<1>5. ASSUME NEW e \in Executors, WriteAttempt(e), s = sig[e]
      PROVE  /\ outcome'[s] = "CONFIRMED" => StatusOf(tx'[s]) = "ok"
             /\ outcome'[s] = "FAILED" => StatusOf(tx'[s]) = "err"
  <2>1. outcome'[s] = pending[e].verdict /\ UNCHANGED tx
    BY <1>5 DEF WriteAttempt, ClaimInv, TypeOK, chainVars
  <2>2. /\ pending[e].verdict = "CONFIRMED" => StatusOf(tx[s]) = "ok"
        /\ pending[e].verdict = "FAILED" => StatusOf(tx[s]) = "err"
    BY <1>5 DEF WriteAttempt, WritePcs, ChainInv, VerdictInv
  <2> QED
    BY <2>1, <2>2
<1>6. ASSUME NEW e \in Executors, RecordAttempt(e) \/ WriteAttempt(e), s # sig[e]
      PROVE  outcome'[s] = outcome[s]
  BY <1>6 DEF RecordAttempt, WriteAttempt, ClaimInv, TypeOK
<1> QED
  BY <1>3, <1>4, <1>5, <1>6, OutcomeFrame

LEMMA ChainInit == Init => ChainInv
  BY DEF Init, ChainInv, WireInv, VerdictInv, VerdictsMatchChain, WritePcs

LEMMA ChainStep == ~Reorgs /\ ClaimInv /\ ClaimInv' /\ ChainInv /\ [Next]_vars => ChainInv'
  BY WireStep, VerdictStep, MatchStep DEF ChainInv

\* Without forks the verdicts about to be written, and those written, are the
\* chain's: for any number of executors and with endpoints that lag.
THEOREM ChainHolds == ASSUME ~Reorgs PROVE Spec => []ChainInv
  BY ChainInit, ChainStep, ClaimsHold, PTL DEF Spec

\* A recorded success or failure is what the chain says, whoever recorded it.
THEOREM VerdictsAreTrue == ASSUME ~Reorgs PROVE Spec => []VerdictsMatchChain
<1>1. ChainInv => VerdictsMatchChain
  BY DEF ChainInv
<1> QED
  BY <1>1, ChainHolds, PTL

-----------------------------------------------------------------------------
(* One executor: what the process lock buys.                                 *)


\* A row that has been looked at is struck off the list of its own process.
LEMMA PassedFacts ==
  ASSUME TypeOK, NEW e \in Executors, NEW s, NEW u \in BOOLEAN, Passed(e, s, u)
  PROVE  /\ pass'[e].todo = pass[e].todo \ {s}
         /\ pass[e].open \/ u => pass'[e].open
  BY DEF TypeOK, Passed, Pass

\* resolveOne settles its row or leaves it UNKNOWN, and counts what it leaves.
LEMMA ResolveOneFacts ==
  ASSUME NEW e \in Executors, ResolveOne(e)
  PROVE  \E s \in pass[e].todo, v \in Settled \cup {"UNKNOWN"} :
           /\ Passed(e, s, v = "UNKNOWN")
           /\ \/ v = "UNKNOWN" /\ UNCHANGED <<pc, sig, pending>>
              \/ sig' = [sig EXCEPT ![e] = s] /\ Conclude(e, v, "resolve")
<1>1. ASSUME NEW status, NEW h, NEW last
      PROVE  Verdict(status, h, last) \in Settled \cup {"UNKNOWN"}
  BY DEF Verdict, Settled
<1> QED
  BY <1>1 DEF ResolveOne

LEMMA OpenRowStep ==
  OneExecutor /\ ClaimInv /\ ClaimInv' /\ OpenRowInv /\ PassInv /\ [Next]_vars => OpenRowInv'
<1> SUFFICES ASSUME OneExecutor, ClaimInv, ClaimInv', OpenRowInv, PassInv, [Next]_vars PROVE OpenRowInv'
  OBVIOUS
<1> USE DEF OneExecutor, ClaimInv, TypeOK, MemoryInv, OpenRowInv, PassInv, Outstanding,
        InPass, chainVars, dbVars, callVars, memVars,
        BuildPcs, HeldPcs, AttemptPcs, WritePcs, Unresolved, Settled, Outcomes
<1>1. ASSUME NEW e \in Executors, StartClean(e) PROVE OpenRowInv'
  BY <1>1 DEF StartClean, Goto, Pass, Pending
<1>2. ASSUME NEW e \in Executors, StartPass(e) PROVE OpenRowInv'
  BY <1>2 DEF StartPass, Outstanding, Goto, Pass, Pending
<1>3. ASSUME NEW e \in Executors, ReadStartHeight(e) PROVE OpenRowInv'
  BY <1>3 DEF ReadStartHeight, Goto, HeightReads, Pass, Pending
<1>4. ASSUME NEW e \in Executors, ResolveFails(e) PROVE OpenRowInv'
  BY <1>4 DEF ResolveFails, Passed, Pass, Pending
<1>5. ASSUME NEW e \in Executors, ResolveOne(e) PROVE OpenRowInv'
  BY <1>5 DEF ResolveOne, Passed, Goto, Conclude, Verdict, StatusReads, StatusOf, Pass, Pending
<1>6. ASSUME NEW e \in Executors, FinishStart(e) PROVE OpenRowInv'
  <2>1. pc'[e] \in {"down", "ready"} /\ pass'[e] = NoPass
    BY <1>6, LeaveFacts DEF FinishStart
  <2> QED
    BY <2>1 DEF NoPass
<1>7. ASSUME NEW e \in Executors, Refuse(e) PROVE OpenRowInv'
  <2>1. pc'[e] \in {"down", "ready"} /\ pass'[e] = NoPass
    BY <1>7, LeaveFacts DEF Refuse
  <2> QED
    BY <2>1 DEF NoPass
<1>8. ASSUME NEW e \in Executors, RequestOrder(e) PROVE OpenRowInv'
  BY <1>8 DEF RequestOrder, Goto, Pass, Pending
<1>9. ASSUME NEW e \in Executors, BuildOrder(e) PROVE OpenRowInv'
  BY <1>9 DEF BuildOrder, Goto, Pass, Pending
<1>10. ASSUME NEW e \in Executors, VerifyEffect(e) PROVE OpenRowInv'
  BY <1>10 DEF VerifyEffect, Goto, Pass, Pending
<1>11. ASSUME NEW e \in Executors, Sign(e) PROVE OpenRowInv'
  BY <1>11 DEF Sign, Goto, Pass, Pending
<1>12. ASSUME NEW e \in Executors, ReadExpiryBound(e) PROVE OpenRowInv'
  BY <1>12 DEF ReadExpiryBound, Goto, HeightReads, Pass, Pending
<1>13. ASSUME NEW e \in Executors, RecordAttempt(e) PROVE OpenRowInv'
  BY <1>13 DEF RecordAttempt, Goto, Pass, Pending
<1>14. ASSUME NEW e \in Executors, MarkSigned(e) PROVE OpenRowInv'
  BY <1>14 DEF MarkSigned, Goto, Pass, Pending
<1>15. ASSUME NEW e \in Executors, SendAccepted(e) PROVE OpenRowInv'
  BY <1>15 DEF SendAccepted, Conclude, Goto, Pass, Pending
<1>16. ASSUME NEW e \in Executors, SendThrows(e) PROVE OpenRowInv'
  BY <1>16 DEF SendThrows, Conclude, Goto, Pass, Pending
<1>17. ASSUME NEW e \in Executors, PollStatus(e) PROVE OpenRowInv'
  BY <1>17 DEF PollStatus, Verdict, StatusReads, StatusOf, Conclude, Goto, PollAgain, Pass, Pending
<1>18. ASSUME NEW e \in Executors, PollHeight(e) PROVE OpenRowInv'
  <2>1. UNCHANGED <<outcome, sig, pass>> /\ pc[e] = "pollHeight"
    BY <1>18 DEF PollHeight
  <2>2. CASE PollAgain(e)
    BY <2>1, <2>2 DEF PollAgain, Goto
  <2>3. CASE Conclude(e, "EXPIRED", "ready")
    BY <2>1, <2>3 DEF Conclude, Goto
  <2> QED
    BY <1>18, <2>2, <2>3 DEF PollHeight
<1>19. ASSUME NEW e \in Executors, ConfirmTimeout(e) PROVE OpenRowInv'
  BY <1>19 DEF ConfirmTimeout, Conclude, Goto, Pass, Pending
<1>20. ASSUME NEW e \in Executors, WriteAttempt(e) PROVE OpenRowInv'
  BY <1>20 DEF WriteAttempt, Goto, Pass, Pending
<1>21. ASSUME NEW e \in Executors, WriteIntent(e) PROVE OpenRowInv'
  <2>1. UNCHANGED <<outcome, owner, lastValid, tx, validUntil, height>>
    BY <1>21 DEF WriteIntent
  <2>2. /\ pc[e] = "writeIntent" /\ pc'[e] \in {"ready", "resolve", "poll"}
        /\ pc'[e] = "poll" => pending[e].next = "poll" /\ sig'[e] = sig[e]
        /\ \A f \in Executors \ {e} :
              /\ pc'[f] = pc[f] /\ call'[f] = call[f] /\ sig'[f] = sig[f]
              /\ pass'[f] = pass[f] /\ pending'[f] = pending[f]
    BY <1>21, WriteIntentFacts
  <2> QED
    BY <2>1, <2>2
<1>22. ASSUME NEW e \in Executors, Crash(e) PROVE OpenRowInv'
  <2>1. pc'[e] \in {"down", "ready"} /\ pass'[e] = NoPass
    BY <1>22, LeaveFacts DEF Crash
  <2> QED
    BY <2>1 DEF NoPass
<1>23. ASSUME NEW e \in Executors, NEW i \in Intents, ClaimIntent(e, i) PROVE OpenRowInv'
  BY <1>23 DEF ClaimIntent, Goto, Pass, Pending
<1>24. CASE AdvanceHeight
  BY <1>24 DEF AdvanceHeight, Pass, Pending
<1>25. ASSUME NEW s \in Signatures, Include(s) PROVE OpenRowInv'
  BY <1>25 DEF Include, CanLand, Pass, Pending
<1>26. ASSUME NEW s \in Signatures, ConfirmBlock(s) PROVE OpenRowInv'
  BY <1>26 DEF ConfirmBlock, StatusOf, Pass, Pending
<1>27. ASSUME NEW s \in Signatures, Reorg(s) PROVE OpenRowInv'
  BY <1>27 DEF Reorg, Pass, Pending
<1>28. CASE UNCHANGED vars
  BY <1>28 DEF vars, Pass, Pending
<1> QED
  BY <1>1, <1>2, <1>3, <1>4, <1>5, <1>6, <1>7, <1>8, <1>9, <1>10, <1>11, <1>12, <1>13, <1>14, <1>15, <1>16, <1>17, <1>18, <1>19, <1>20, <1>21, <1>22, <1>23, <1>24, <1>25, <1>26, <1>27, <1>28 DEF Next, Cluster, Executor, Proceed

LEMMA PassStep ==
  OneExecutor /\ ClaimInv /\ ClaimInv' /\ OpenRowInv /\ PassInv /\ [Next]_vars => PassInv'
<1> SUFFICES ASSUME OneExecutor, ClaimInv, ClaimInv', OpenRowInv, PassInv, [Next]_vars PROVE PassInv'
  OBVIOUS
<1> USE DEF OneExecutor, ClaimInv, TypeOK, MemoryInv, OpenRowInv, PassInv, Outstanding,
        InPass, StartPcs, chainVars, dbVars, callVars, memVars,
        BuildPcs, HeldPcs, AttemptPcs, WritePcs, Unresolved, Settled, Outcomes
<1>1. ASSUME NEW e \in Executors, StartClean(e) PROVE PassInv'
  BY <1>1 DEF StartClean, Goto, Pass, Pending
<1>2. ASSUME NEW e \in Executors, StartPass(e) PROVE PassInv'
  BY <1>2 DEF StartPass, Outstanding, Goto, Pass, Pending
<1>3. ASSUME NEW e \in Executors, ReadStartHeight(e) PROVE PassInv'
  BY <1>3 DEF ReadStartHeight, Goto, HeightReads, Pass, Pending
<1>4. ASSUME NEW e \in Executors, ResolveFails(e) PROVE PassInv'
  <2>1. PICK s \in pass[e].todo : Passed(e, s, TRUE)
    BY <1>4 DEF ResolveFails
  <2>2. pass'[e].todo = pass[e].todo \ {s} /\ pass'[e].open
    BY ONLY <2>1, TypeOK, PassedFacts
  <2>3. UNCHANGED <<outcome, pc, sig, pending>>
    BY <1>4 DEF ResolveFails
  <2> QED
    BY <2>2, <2>3
<1>5. ASSUME NEW e \in Executors, ResolveOne(e) PROVE PassInv'
  <2>1. PICK s \in pass[e].todo, v \in Settled \cup {"UNKNOWN"} :
          /\ Passed(e, s, v = "UNKNOWN")
          /\ \/ v = "UNKNOWN" /\ UNCHANGED <<pc, sig, pending>>
             \/ sig' = [sig EXCEPT ![e] = s] /\ Conclude(e, v, "resolve")
    BY <1>5, ResolveOneFacts
  <2>2. /\ pass'[e].todo = pass[e].todo \ {s}
        /\ pass[e].open \/ v = "UNKNOWN" => pass'[e].open
    BY ONLY <2>1, TypeOK, PassedFacts, v \in Settled \cup {"UNKNOWN"}
  <2>3. UNCHANGED outcome /\ pc[e] = "resolve"
    BY <1>5 DEF ResolveOne
  <2>4. CASE v = "UNKNOWN" /\ UNCHANGED <<pc, sig, pending>>
    BY <2>2, <2>3, <2>4
  <2>5. CASE sig' = [sig EXCEPT ![e] = s] /\ Conclude(e, v, "resolve")
    <3>1. /\ sig'[e] = s /\ pc'[e] = "writeAttempt"
          /\ pending'[e] = [verdict |-> v, next |-> "resolve"]
      BY <2>1, <2>5 DEF Conclude, Goto
    <3> QED
      BY <2>2, <2>3, <3>1
  <2> QED
    BY <2>1, <2>4, <2>5
<1>6. ASSUME NEW e \in Executors, FinishStart(e) PROVE PassInv'
  <2>1. pc'[e] \in {"down", "ready"} /\ pass'[e] = NoPass
    BY <1>6, LeaveFacts DEF FinishStart
  <2> QED
    BY <2>1 DEF NoPass
<1>7. ASSUME NEW e \in Executors, Refuse(e) PROVE PassInv'
  <2>1. pc'[e] \in {"down", "ready"} /\ pass'[e] = NoPass
    BY <1>7, LeaveFacts DEF Refuse
  <2> QED
    BY <2>1 DEF NoPass
<1>8. ASSUME NEW e \in Executors, RequestOrder(e) PROVE PassInv'
  BY <1>8 DEF RequestOrder, Goto, Pass, Pending
<1>9. ASSUME NEW e \in Executors, BuildOrder(e) PROVE PassInv'
  BY <1>9 DEF BuildOrder, Goto, Pass, Pending
<1>10. ASSUME NEW e \in Executors, VerifyEffect(e) PROVE PassInv'
  BY <1>10 DEF VerifyEffect, Goto, Pass, Pending
<1>11. ASSUME NEW e \in Executors, Sign(e) PROVE PassInv'
  BY <1>11 DEF Sign, Goto, Pass, Pending
<1>12. ASSUME NEW e \in Executors, ReadExpiryBound(e) PROVE PassInv'
  BY <1>12 DEF ReadExpiryBound, Goto, HeightReads, Pass, Pending
<1>13. ASSUME NEW e \in Executors, RecordAttempt(e) PROVE PassInv'
  BY <1>13 DEF RecordAttempt, Goto, Pass, Pending
<1>14. ASSUME NEW e \in Executors, MarkSigned(e) PROVE PassInv'
  BY <1>14 DEF MarkSigned, Goto, Pass, Pending
<1>15. ASSUME NEW e \in Executors, SendAccepted(e) PROVE PassInv'
  BY <1>15 DEF SendAccepted, Conclude, Goto, Pass, Pending
<1>16. ASSUME NEW e \in Executors, SendThrows(e) PROVE PassInv'
  BY <1>16 DEF SendThrows, Conclude, Goto, Pass, Pending
<1>17. ASSUME NEW e \in Executors, PollStatus(e) PROVE PassInv'
  BY <1>17 DEF PollStatus, Verdict, StatusReads, StatusOf, Conclude, Goto, PollAgain, Pass, Pending
<1>18. ASSUME NEW e \in Executors, PollHeight(e) PROVE PassInv'
  <2>1. UNCHANGED <<outcome, sig, pass>> /\ pc[e] = "pollHeight"
    BY <1>18 DEF PollHeight
  <2>2. CASE PollAgain(e)
    BY <2>1, <2>2 DEF PollAgain, Goto
  <2>3. CASE Conclude(e, "EXPIRED", "ready")
    BY <2>1, <2>3 DEF Conclude, Goto
  <2> QED
    BY <1>18, <2>2, <2>3 DEF PollHeight
<1>19. ASSUME NEW e \in Executors, ConfirmTimeout(e) PROVE PassInv'
  BY <1>19 DEF ConfirmTimeout, Conclude, Goto, Pass, Pending
<1>20. ASSUME NEW e \in Executors, WriteAttempt(e) PROVE PassInv'
  BY <1>20 DEF WriteAttempt, Goto, Pass, Pending
<1>21. ASSUME NEW e \in Executors, WriteIntent(e) PROVE PassInv'
  <2>1. UNCHANGED outcome /\ pc[e] = "writeIntent"
    BY <1>21 DEF WriteIntent
  <2>2. CASE Leave(e, "ready")
    <3>1. pc'[e] = "ready" /\ pass'[e] = NoPass
      BY <2>2, LeaveFacts
    <3> QED
      BY <3>1 DEF NoPass
  <2>3. CASE /\ pending[e].next # "ready"
             /\ Goto(e, pending[e].next)
             /\ UNCHANGED <<sig, pass>>
    <3>1. pc'[e] = pending[e].next /\ pending[e].next \in {"resolve", "poll"}
      BY <2>3 DEF Goto, Pending
    <3>2. pending[e].verdict \in Outcomes
      BY DEF Pending
    <3> QED
      BY <2>1, <2>3, <3>1, <3>2
  <2> QED
    BY <1>21, <2>2, <2>3 DEF WriteIntent
<1>22. ASSUME NEW e \in Executors, Crash(e) PROVE PassInv'
  <2>1. pc'[e] \in {"down", "ready"} /\ pass'[e] = NoPass
    BY <1>22, LeaveFacts DEF Crash
  <2> QED
    BY <2>1 DEF NoPass
<1>23. ASSUME NEW e \in Executors, NEW i \in Intents, ClaimIntent(e, i) PROVE PassInv'
  BY <1>23 DEF ClaimIntent, Goto, Pass, Pending
<1>24. CASE AdvanceHeight
  BY <1>24 DEF AdvanceHeight, Pass, Pending
<1>25. ASSUME NEW s \in Signatures, Include(s) PROVE PassInv'
  BY <1>25 DEF Include, CanLand, Pass, Pending
<1>26. ASSUME NEW s \in Signatures, ConfirmBlock(s) PROVE PassInv'
  BY <1>26 DEF ConfirmBlock, StatusOf, Pass, Pending
<1>27. ASSUME NEW s \in Signatures, Reorg(s) PROVE PassInv'
  BY <1>27 DEF Reorg, Pass, Pending
<1>28. CASE UNCHANGED vars
  BY <1>28 DEF vars, Pass, Pending
<1> QED
  BY <1>1, <1>2, <1>3, <1>4, <1>5, <1>6, <1>7, <1>8, <1>9, <1>10, <1>11, <1>12, <1>13, <1>14, <1>15, <1>16, <1>17, <1>18, <1>19, <1>20, <1>21, <1>22, <1>23, <1>24, <1>25, <1>26, <1>27, <1>28 DEF Next, Cluster, Executor, Proceed

\* A settled row is rewritten by neither of the two steps that write rows.
LEMMA SettledKept ==
  ASSUME ClaimInv, OpenRowInv, [Next]_vars, NEW s \in Signatures, outcome[s] \in Settled
  PROVE  outcome'[s] = outcome[s] /\ owner'[s] = owner[s]
<1> USE DEF ClaimInv, TypeOK, MemoryInv, HeldPcs, Unresolved, Settled
<1>1. CASE UNCHANGED <<outcome, owner>>
  BY <1>1
<1>2. ASSUME NEW e \in Executors, RecordAttempt(e) PROVE s # sig[e]
  BY <1>2 DEF RecordAttempt
<1>3. ASSUME NEW e \in Executors, WriteAttempt(e) PROVE s # sig[e]
  BY <1>3 DEF WriteAttempt, OpenRowInv
<1>4. ASSUME NEW e \in Executors, RecordAttempt(e) \/ WriteAttempt(e)
      PROVE  s # sig[e] => outcome'[s] = outcome[s] /\ owner'[s] = owner[s]
  BY <1>4 DEF RecordAttempt, WriteAttempt
<1> QED
  BY <1>1, <1>2, <1>3, <1>4, OutcomeFrame

\* Only the second write of an outcome gives an intent one of these ends.
LEMMA IntentEnds ==
  ASSUME TypeOK, [Next]_vars, NEW i \in Intents, intent'[i] \in {"CONFIRMED", "EXPIRED"},
         intent'[i] # intent[i]
  PROVE  \E e \in Executors :
           WriteIntent(e) /\ owner[sig[e]] = i /\ intent'[i] = pending[e].verdict
<1> USE DEF TypeOK
<1>1. ASSUME NEW e \in Executors, WriteIntent(e)
      PROVE  owner[sig[e]] = i /\ intent'[i] = pending[e].verdict
  BY <1>1 DEF WriteIntent
<1>2. ASSUME NEW e \in Executors,
             \/ Refuse(e) \/ RequestOrder(e) \/ VerifyEffect(e) \/ MarkSigned(e)
             \/ \E j \in Intents : ClaimIntent(e, j)
      PROVE  FALSE
  BY <1>2 DEF Refuse, RequestOrder, VerifyEffect, MarkSigned, ClaimIntent
<1>3. \/ UNCHANGED intent
      \/ \E e \in Executors :
           \/ WriteIntent(e) \/ Refuse(e) \/ RequestOrder(e) \/ VerifyEffect(e) \/ MarkSigned(e)
           \/ \E j \in Intents : ClaimIntent(e, j)
  BY DEF Next, Cluster, Executor, Proceed, StartClean, StartPass, ReadStartHeight, ResolveFails,
     ResolveOne, FinishStart, BuildOrder, Sign, ReadExpiryBound, RecordAttempt, SendAccepted,
     SendThrows, PollStatus, PollHeight, ConfirmTimeout, WriteAttempt, Crash, AdvanceHeight,
     Include, ConfirmBlock, Reorg, vars, dbVars
<1> QED
  BY <1>1, <1>2, <1>3

LEMMA AheadStep ==
  ASSUME ClaimInv, OpenRowInv, IntentNeverAheadOfAttempt, [Next]_vars
  PROVE  IntentNeverAheadOfAttempt'
<1> SUFFICES ASSUME NEW i \in Intents, intent'[i] \in {"CONFIRMED", "EXPIRED"}
             PROVE  \E s \in Signatures : owner'[s] = i /\ outcome'[s] = intent'[i]
  BY DEF IntentNeverAheadOfAttempt, AttemptsOf
<1>1. CASE intent'[i] = intent[i]
  <2>1. PICK s \in Signatures : owner[s] = i /\ outcome[s] = intent[i]
    BY <1>1 DEF IntentNeverAheadOfAttempt, AttemptsOf
  <2> QED
    BY <1>1, <2>1, SettledKept DEF Settled
<1>2. CASE intent'[i] # intent[i]
  <2>1. PICK e \in Executors :
          WriteIntent(e) /\ owner[sig[e]] = i /\ intent'[i] = pending[e].verdict
    BY <1>2, IntentEnds DEF ClaimInv
  <2>2. UNCHANGED <<outcome, owner>> /\ sig[e] \in Signatures /\ outcome[sig[e]] = pending[e].verdict
    BY <2>1 DEF WriteIntent, ClaimInv, MemoryInv, OpenRowInv, WritePcs
  <2> QED
    BY <2>1, <2>2
<1> QED
  BY <1>1, <1>2

\* Alone, an executor rewrites only open rows, and its startup pass loses
\* sight of none of them: across crashes, forks and endpoints that lag.
THEOREM SoloHolds == ASSUME OneExecutor PROVE Spec => []SoloInv
<1>1. Init => SoloInv
  BY ConstantsAssumption
     DEF Init, SoloInv, OpenRowInv, PassInv, InPass, IntentNeverAheadOfAttempt, AttemptPcs,
         WritePcs, StartPcs, NoPass
<1>2. ClaimInv /\ ClaimInv' /\ SoloInv /\ [Next]_vars => SoloInv'
  BY OpenRowStep, PassStep, AheadStep DEF SoloInv
<1> QED
  BY <1>1, <1>2, ClaimsHold, PTL DEF Spec

\* The intent never claims an end its attempt does not record.
THEOREM IntentFollowsAttempt == ASSUME OneExecutor PROVE Spec => []IntentNeverAheadOfAttempt
<1>1. SoloInv => IntentNeverAheadOfAttempt
  BY DEF SoloInv
<1> QED
  BY <1>1, SoloHolds, PTL

\* A settled attempt is never reopened or rewritten.
THEOREM SettledStays == ASSUME OneExecutor PROVE Spec => SettledIsFinal
<1>1. ClaimInv /\ SoloInv /\ [Next]_vars
        => [\A s \in Signatures : outcome[s] \in Settled => outcome'[s] = outcome[s]]_vars
  BY SettledKept DEF SoloInv
<1> QED
  BY <1>1, ClaimsHold, SoloHolds, PTL DEF Spec, SettledIsFinal

\* A process comes up to trade only with nothing of unknown fate behind it.
THEOREM ResolvesBeforeTrading == ASSUME OneExecutor PROVE Spec => TradesOnlyAfterResolving
<1>1. ASSUME ClaimInv, PassInv, [Next]_vars, NEW e \in Executors,
             pc[e] \in {"down", "resolve"}, pc'[e] = "ready"
      PROVE  Outstanding = {}
  <2>1. StartClean(e) \/ FinishStart(e)
    <3>1. pc'[e] # pc[e]
      BY <1>1
    <3>2. PICK f \in Executors : Executor(f)
      BY <1>1, <3>1
         DEF Next, Cluster, AdvanceHeight, Include, ConfirmBlock, Reorg, vars, memVars
    <3>3. f = e
      BY OneExecutor DEF OneExecutor
    <3> QED
      BY <1>1, <3>2, <3>3
         DEF Executor, Proceed, StartPass, ReadStartHeight, ResolveFails, ResolveOne, Refuse,
             RequestOrder, BuildOrder, VerifyEffect, Sign, ReadExpiryBound, RecordAttempt,
             MarkSigned, SendAccepted, SendThrows, PollStatus, PollHeight, ConfirmTimeout,
             WriteAttempt, WriteIntent, Crash, ClaimIntent, Leave, Conclude, Goto, ClaimInv, TypeOK
  <2>2. CASE FinishStart(e)
    <3>1. ~pass[e].open /\ pass[e].todo = {} /\ pc[e] = "resolve"
      BY <1>1, <2>2, LeaveFacts DEF FinishStart, ClaimInv
    <3> QED
      BY <1>1, <3>1 DEF PassInv, InPass, StartPcs
  <2> QED
    BY <2>1, <2>2 DEF StartClean
<1>2. ClaimInv /\ SoloInv /\ [Next]_vars
        => [\A e \in Executors :
              pc[e] \in {"down", "resolve"} /\ pc'[e] = "ready" => Outstanding = {}]_vars
  BY <1>1 DEF SoloInv
<1> QED
  BY <1>2, ClaimsHold, SoloHolds, PTL DEF Spec, TradesOnlyAfterResolving
==============================================================================
