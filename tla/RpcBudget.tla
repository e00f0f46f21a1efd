------------------------------ MODULE RpcBudget ------------------------------
(***************************************************************************)
(* How a call to a provider gets its turn: SolanaRpc.call of                *)
(* packages/solana/src/rpc.ts, SharedEndpointBudget of                      *)
(* packages/adapters/src/endpoint-budget.ts, which the processes of a host  *)
(* share through SQLite, fetchJson of http.ts with its retries, and the     *)
(* RateLimiter of ratelimit.ts, of which every process has its own.         *)
(*                                                                          *)
(* A tick is the busy timeout of the database. Rates are tokens per tick.   *)
(* A caller that waits looks again every tick; the code sleeps for at most  *)
(* 250 ms at a time. A timer that is due fires before the next tick.        *)
(***************************************************************************)
EXTENDS Integers, FiniteSetsExt

CONSTANTS
  Procs, Callers,
  ProcOf,          \* the process of each caller
  Families,        \* MethodFamily
  Endpoints,       \* how many endpoints it has: 1 when there is no fallback
  Menu,            \* what each caller calls: a method of a family of SolanaRpc,
                   \* or the Jupiter client with a priority
  Total,           \* ENDPOINT_TOTAL_FAMILY
  Rate, Burst,     \* BudgetLimits, for each family and Total
  Share,           \* DEGRADED_SHARE is 1 / Share
  LocalRate,       \* source-limits.json, for each bucket of the limiter
  LocalBurst,
  MaxLeaseWait,    \* maxWaitMs of awaitSharedBudget
  MaxAcquireWait,  \* maxWaitMs of acquire
  MaxAttempts,     \* of fetchJson
  None,
  Start,           \* what the wall clock shows when the monotonic clock shows 0
  MaxTime,         \* bounds of the model: the monotonic clock,
  MaxWall,         \* the wall clock,
  ClockSteps,      \* what the wall clock may be set on or back by,
  MaxSteps,        \* how often,
  MaxCalls         \* calls of each caller

Urls == {1, 2}  \* the primary endpoint and the fallback
Rows == Families \cup {Total}
Buckets == {"solana_rpc", "jupiter_main"}

\* RESERVED_TOKENS.
Reserved == [emergency_exit |-> 1, open_position |-> 2, risk |-> 2,
             discovery |-> 3, enrichment |-> 4]

ASSUME RpcBudgetAssumption ==
  /\ ProcOf \in [Callers -> Procs]
  /\ Endpoints \in [Callers -> Urls]
  /\ Menu \in [Callers -> SUBSET (Families \cup DOMAIN Reserved)]
  /\ Families \cap DOMAIN Reserved = {}
  /\ Total \notin Families /\ IsFiniteSet(Families) /\ None \notin Families
  /\ Rate \in [Rows -> Nat \ {0}] /\ Burst \in [Rows -> Nat \ {0}]
  /\ Share \in Nat \ {0}
  /\ LocalRate \in [Buckets -> Nat \ {0}] /\ LocalBurst \in [Buckets -> Nat \ {0}]
  /\ MaxLeaseWait \in Nat /\ MaxAcquireWait \in Nat /\ MaxAttempts \in Nat \ {0}
  /\ MaxTime \in Nat /\ MaxWall \in Nat /\ Start \in 0..MaxWall
  /\ ClockSteps \subseteq Int /\ MaxSteps \in Nat /\ MaxCalls \in [Callers -> Nat]

VARIABLES
  row,       \* rpc_endpoint_budget: a bucket for each endpoint and row, or None
  fallback,  \* the local buckets of each process, for each endpoint and family
  tokens,    \* the buckets of the limiter of each process
  wall,      \* Date.now()
  mono,      \* monotonicMs(), and the true time
  pc,
  job,       \* what the caller is calling, or None
  url,
  now,       \* the time it read before it asked for the write lock
  started,   \* when it began to wait, by the clock its deadline is taken from
  attempts,
  \* history
  begun,     \* when it began to wait
  leased,    \* the endpoints that let this call through
  calls,
  exits,     \* tokens taken by emergency exits
  latest,    \* the latest the wall clock has shown
  forward,   \* steps of the wall clock forward
  back       \* ticks the wall clock was set back by

callerVars == <<pc, job, url, now, started, attempts, begun, leased>>
clockVars == <<wall, mono, latest, forward, back>>
vars == <<row, fallback, tokens, callerVars, clockVars, calls, exits>>

Max2(m, n) == IF m >= n THEN m ELSE n
Min2(m, n) == IF m <= n THEN m ELSE n
Ceil(m, n) == (m + n - 1) \div n

\* What a bucket gains in a tick, what a call costs, and what it holds.
SharedSpec(x) == [gain |-> Rate[x], cost |-> 1, cap |-> Burst[x]]
LocalSpec(f) == [gain |-> Rate[f], cost |-> Share,
                 cap |-> Share * Max2(1, Burst[f] \div Share)]

\* since: when the bucket was created, granted: the calls it let through; the
\* fallback counts neither, they are history there.
Bucket(spec) == [tokens : 0..spec.cap, refill : 0..MaxWall, since : 0..MaxWall, granted : Nat]

\* A row that is not there is no bucket.
ASSUME NoneIsNoBucket == \A x \in Rows : None \notin Bucket(SharedSpec(x))

Jobs == [bucket : Buckets, priority : DOMAIN Reserved, family : Families \cup {None}]

TypeOK ==
  /\ \A u \in Urls : \A x \in Rows : row[u][x] \in Bucket(SharedSpec(x)) \cup {None}
  /\ \A p \in Procs : \A u \in Urls : \A f \in Families :
       fallback[p][u][f] \in Bucket(LocalSpec(f)) \cup {None}
  /\ \A p \in Procs : \A b \in Buckets : tokens[p][b] \in 0..LocalBurst[b]
  /\ DOMAIN row = Urls /\ DOMAIN fallback = Procs /\ DOMAIN tokens = Procs
  /\ \A u \in Urls : DOMAIN row[u] = Rows
  /\ \A p \in Procs : DOMAIN fallback[p] = Urls /\ DOMAIN tokens[p] = Buckets
  /\ \A p \in Procs : \A u \in Urls : DOMAIN fallback[p][u] = Families
  /\ wall \in 0..MaxWall /\ latest \in 0..MaxWall /\ wall <= latest
  /\ mono \in 0..MaxTime /\ forward \in Nat /\ back \in Nat
  /\ pc \in [Callers -> {"idle", "poll", "lease", "late", "asleep",
                         "acquire", "wait", "request"}]
  /\ job \in [Callers -> Jobs \cup {None}]
  /\ url \in [Callers -> Urls]
  /\ now \in [Callers -> 0..MaxWall] /\ \A c \in Callers : now[c] <= latest
  /\ started \in [Callers -> 0..Max2(MaxWall, MaxTime)]
  /\ begun \in [Callers -> 0..MaxTime]
  /\ attempts \in [Callers -> 0..MaxAttempts]
  /\ leased \in [Callers -> SUBSET Urls]
  /\ calls \in [Callers -> Nat]
  /\ exits \in [Procs -> [Buckets -> Nat]]

Init ==
  /\ row = [u \in Urls |-> [x \in Rows |-> None]]
  /\ fallback = [p \in Procs |-> [u \in Urls |-> [f \in Families |-> None]]]
  /\ tokens = [p \in Procs |-> LocalBurst]
  /\ wall = Start /\ mono = 0 /\ latest = Start /\ forward = 0 /\ back = 0
  /\ pc = [c \in Callers |-> "idle"] /\ job = [c \in Callers |-> None]
  /\ url = [c \in Callers |-> 1] /\ now = [c \in Callers |-> 0]
  /\ started = [c \in Callers |-> 0] /\ begun = [c \in Callers |-> 0]
  /\ attempts = [c \in Callers |-> 0] /\ leased = [c \in Callers |-> {}]
  /\ calls = [c \in Callers |-> 0]
  /\ exits = [p \in Procs |-> [b \in Buckets |-> 0]]

-----------------------------------------------------------------------------
(* Buckets.                                                                  *)

\* Mutant: the time of the refill follows the clock back.
RefilledBack(b, spec, t) ==
  [b EXCEPT !.tokens = Min2(spec.cap, @ + spec.gain * Max2(0, t - b.refill)), !.refill = t]

\* Mutant: the burst is not a limit.
RefilledUnclamped(b, spec, t) ==
  IF t <= b.refill THEN b
  ELSE [b EXCEPT !.tokens = @ + spec.gain * (t - b.refill), !.refill = t]

\* A clock that has not advanced mints nothing.
Refilled(b, spec, t) ==
  IF t <= b.refill THEN b
  ELSE [b EXCEPT !.tokens = Min2(spec.cap, @ + spec.gain * (t - b.refill)), !.refill = t]

\* A bucket that is not there is a full one.
Loaded(b, spec, t) ==
  Refilled(IF b = None THEN [tokens |-> spec.cap, refill |-> t, since |-> t, granted |-> 0]
           ELSE b, spec, t)

Covers(b, spec) == b.tokens >= spec.cost

Debited(b, spec) == [b EXCEPT !.tokens = @ - spec.cost, !.granted = @ + 1]

WaitFor(b, spec) == Ceil(spec.cost - b.tokens, spec.gain)

-----------------------------------------------------------------------------
(* A call.                                                                   *)

Idle(c) ==
  /\ pc' = [pc EXCEPT ![c] = "idle"] /\ job' = [job EXCEPT ![c] = None]
  /\ url' = [url EXCEPT ![c] = 1] /\ now' = [now EXCEPT ![c] = 0]
  /\ started' = [started EXCEPT ![c] = 0] /\ begun' = [begun EXCEPT ![c] = 0]
  /\ attempts' = [attempts EXCEPT ![c] = 0] /\ leased' = [leased EXCEPT ![c] = {}]

\* awaitSharedBudget is entered for an endpoint.
AskFor(c, u) ==
  /\ pc' = [pc EXCEPT ![c] = "poll"] /\ url' = [url EXCEPT ![c] = u]
  /\ started' = [started EXCEPT ![c] = wall] /\ begun' = [begun EXCEPT ![c] = mono]

\* fetchJson waits for the limiter, by the monotonic clock.
AskLimiter(c) ==
  /\ pc' = [pc EXCEPT ![c] = "acquire"]
  /\ started' = [started EXCEPT ![c] = mono] /\ begun' = [begun EXCEPT ![c] = mono]

\* The next endpoint, or the error of the last one.
FailOver(c) ==
  IF job[c].family # None /\ url[c] < Endpoints[c]
    THEN /\ AskFor(c, url[c] + 1)
         /\ attempts' = [attempts EXCEPT ![c] = 0]
         /\ UNCHANGED <<job, now, leased>>
    ELSE Idle(c)

\* A method of SolanaRpc. It names no priority, so it asks as discovery.
CallRpc(c, f) ==
  /\ pc[c] = "idle" /\ calls[c] < MaxCalls[c]
  /\ calls' = [calls EXCEPT ![c] = @ + 1]
  /\ job' = [job EXCEPT ![c] =
       [bucket |-> "solana_rpc", priority |-> "discovery", family |-> f]]
  /\ AskFor(c, 1)
  /\ UNCHANGED <<row, fallback, tokens, clockVars, now, attempts, leased, exits>>

\* A call of the Jupiter client: only the limiter is asked.
CallJupiter(c, priority) ==
  /\ pc[c] = "idle" /\ calls[c] < MaxCalls[c]
  /\ calls' = [calls EXCEPT ![c] = @ + 1]
  /\ job' = [job EXCEPT ![c] =
       [bucket |-> "jupiter_main", priority |-> priority, family |-> None]]
  /\ AskLimiter(c)
  /\ UNCHANGED <<row, fallback, tokens, clockVars, url, now, attempts, leased, exits>>

\* Mutant: every turn of the loop begins the wait anew.
ReadNowRestarts(c) ==
  /\ pc[c] = "poll"
  /\ pc' = [pc EXCEPT ![c] = "lease"] /\ now' = [now EXCEPT ![c] = wall]
  /\ started' = [started EXCEPT ![c] = wall]
  /\ UNCHANGED <<row, fallback, tokens, clockVars, job, url, attempts, begun,
                 leased, calls, exits>>

\* leaseShared reads the time before it asks for the write lock.
ReadNow(c) ==
  /\ pc[c] = "poll"
  /\ pc' = [pc EXCEPT ![c] = "lease"] /\ now' = [now EXCEPT ![c] = wall]
  /\ UNCHANGED <<row, fallback, tokens, clockVars, job, url, started, attempts, begun,
                 leased, calls, exits>>

Granted(c) ==
  /\ AskLimiter(c)
  /\ leased' = [leased EXCEPT ![c] = @ \cup {url[c]}]
  /\ now' = [now EXCEPT ![c] = 0] /\ UNCHANGED <<job, url, attempts>>

\* Mutant: a refusal of the budget is an error of the endpoint like any other.
RefusedFailsOver(c, wait) ==
  IF wall - started[c] + wait > MaxLeaseWait THEN FailOver(c)
  ELSE /\ pc' = [pc EXCEPT ![c] = "asleep"] /\ now' = [now EXCEPT ![c] = 0]
       /\ UNCHANGED <<job, url, started, attempts, begun, leased>>

\* The wait would end too late, and the call with it; or the caller sleeps.
Refused(c, wait) ==
  IF wall - started[c] + wait > MaxLeaseWait THEN Idle(c)
  ELSE /\ pc' = [pc EXCEPT ![c] = "asleep"] /\ now' = [now EXCEPT ![c] = 0]
       /\ UNCHANGED <<job, url, started, attempts, begun, leased>>

\* Mutant: the family is debited before the total is looked at.
LeasePartly(c) ==
  LET u == url[c]
      f == job[c].family
      total == Loaded(row[u][Total], SharedSpec(Total), now[c])
      family == Loaded(row[u][f], SharedSpec(f), now[c])
      mine == IF Covers(family, SharedSpec(f)) THEN Debited(family, SharedSpec(f)) ELSE family
  IN
    /\ pc[c] \in {"lease", "late"}
    /\ IF Covers(total, SharedSpec(Total)) /\ Covers(family, SharedSpec(f))
         THEN /\ row' = [row EXCEPT ![u][Total] = Debited(total, SharedSpec(Total)), ![u][f] = mine]
              /\ Granted(c)
         ELSE /\ row' = [row EXCEPT ![u][Total] = total, ![u][f] = mine]
              /\ Refused(c, IF Covers(total, SharedSpec(Total)) THEN WaitFor(family, SharedSpec(f))
                            ELSE WaitFor(total, SharedSpec(Total)))
    /\ UNCHANGED <<fallback, tokens, clockVars, calls, exits>>

\* leaseShared, one transaction: both rows are refilled, and both are debited or
\* none is.
Lease(c) ==
  LET u == url[c]
      f == job[c].family
      total == Loaded(row[u][Total], SharedSpec(Total), now[c])
      family == Loaded(row[u][f], SharedSpec(f), now[c])
  IN
    /\ pc[c] \in {"lease", "late"}
    /\ IF Covers(total, SharedSpec(Total)) /\ Covers(family, SharedSpec(f))
         THEN /\ row' = [row EXCEPT ![u][Total] = Debited(total, SharedSpec(Total)),
                                    ![u][f] = Debited(family, SharedSpec(f))]
              /\ Granted(c)
         ELSE /\ row' = [row EXCEPT ![u][Total] = total, ![u][f] = family]
              /\ Refused(c, IF Covers(total, SharedSpec(Total)) THEN WaitFor(family, SharedSpec(f))
                            ELSE WaitFor(total, SharedSpec(Total)))
    /\ UNCHANGED <<fallback, tokens, clockVars, calls, exits>>

\* The transaction throws, busy at the latest when its timeout is over, and
\* leaseLocal decides, at its own time.
LeaseLocal(c) ==
  LET u == url[c]
      p == ProcOf[c]
      f == job[c].family
      b == Loaded(fallback[p][u][f], LocalSpec(f), wall)
  IN
    /\ pc[c] \in {"lease", "late"}
    /\ IF Covers(b, LocalSpec(f))
         THEN fallback' = [fallback EXCEPT ![p][u][f] = Debited(b, LocalSpec(f))] /\ Granted(c)
         ELSE fallback' = [fallback EXCEPT ![p][u][f] = b] /\ Refused(c, WaitFor(b, LocalSpec(f)))
    /\ UNCHANGED <<row, tokens, clockVars, calls, exits>>

-----------------------------------------------------------------------------
(* The limiter, and the request.                                             *)

\* Mutant: one token is enough for anyone.
NeedOne(j) == 1

\* What a call must find in the bucket: less urgent calls leave a floor.
Need(j) == Min2(Reserved[j.priority], LocalBurst[j.bucket])

\* The token is taken and the request goes out.
Acquire(c) ==
  LET p == ProcOf[c]
      b == job[c].bucket
  IN
    /\ pc[c] = "acquire" /\ tokens[p][b] >= Need(job[c])
    /\ tokens' = [tokens EXCEPT ![p][b] = @ - 1]
    /\ exits' = IF job[c].priority = "emergency_exit"
                  THEN [exits EXCEPT ![p][b] = @ + 1] ELSE exits
    /\ pc' = [pc EXCEPT ![c] = "request"] /\ attempts' = [attempts EXCEPT ![c] = @ + 1]
    /\ started' = [started EXCEPT ![c] = 0] /\ begun' = [begun EXCEPT ![c] = 0]
    /\ UNCHANGED <<row, fallback, clockVars, job, url, now, leased, calls>>

\* Not enough is there: RateLimitRefused when the wait would end too late, which
\* the call takes for an error of the endpoint; or the caller sleeps.
AcquireWaits(c) ==
  LET b == job[c].bucket
      short == Need(job[c]) - tokens[ProcOf[c]][b]
  IN
    /\ pc[c] = "acquire" /\ short > 0
    /\ IF mono - started[c] + Ceil(short, LocalRate[b]) > MaxAcquireWait
         THEN FailOver(c)
         ELSE /\ pc' = [pc EXCEPT ![c] = "wait"]
              /\ UNCHANGED <<job, url, now, started, attempts, begun, leased>>
    /\ UNCHANGED <<row, fallback, tokens, clockVars, calls, exits>>

\* A status of 429 or 5xx, a timeout or a broken connection: again, after the
\* limiter alone has been asked.
RetryRequest(c) ==
  /\ pc[c] = "request" /\ attempts[c] < MaxAttempts
  /\ AskLimiter(c)
  /\ UNCHANGED <<row, fallback, tokens, clockVars, job, url, now, attempts, leased,
                 calls, exits>>

\* The last attempt failed, or the error is not one to retry.
RequestFails(c) ==
  /\ pc[c] = "request"
  /\ FailOver(c)
  /\ UNCHANGED <<row, fallback, tokens, clockVars, calls, exits>>

\* An answer, or one of the wrong shape: schema_drift does not fail over.
Return(c) ==
  /\ pc[c] = "request"
  /\ Idle(c)
  /\ UNCHANGED <<row, fallback, tokens, clockVars, calls, exits>>

-----------------------------------------------------------------------------
(* Time.                                                                     *)

\* What a tick does to a caller: sleepers wake, a lock is waited for no longer
\* than the busy timeout.
AfterTick(s) ==
  CASE s = "asleep" -> "poll" [] s = "wait" -> "acquire" [] s = "lease" -> "late" [] OTHER -> s

Tick ==
  /\ mono < MaxTime /\ wall < MaxWall
  /\ \A c \in Callers : pc[c] \notin {"poll", "late", "acquire"}
  /\ mono' = mono + 1 /\ wall' = wall + 1 /\ latest' = Max2(latest, wall + 1)
  /\ pc' = [c \in Callers |-> AfterTick(pc[c])]
  /\ tokens' = [p \in Procs |-> [b \in Buckets |->
                 Min2(LocalBurst[b], tokens[p][b] + LocalRate[b])]]
  /\ UNCHANGED <<row, fallback, job, url, now, started, attempts, begun, leased,
                 calls, exits, forward, back>>

\* The wall clock is set.
SetClock(d) ==
  /\ wall + d \in 0..MaxWall /\ forward + back < MaxSteps
  /\ wall' = wall + d /\ latest' = Max2(latest, wall + d)
  /\ forward' = forward + (IF d > 0 THEN 1 ELSE 0)
  /\ back' = back + (IF d < 0 THEN -d ELSE 0)
  /\ UNCHANGED <<row, fallback, tokens, callerVars, mono, calls, exits>>

Next ==
  \/ \E c \in Callers :
       \/ \E f \in Families \cap Menu[c] : CallRpc(c, f)
       \/ \E priority \in Menu[c] \ Families : CallJupiter(c, priority)
       \/ ReadNow(c) \/ Lease(c) \/ LeaseLocal(c)
       \/ Acquire(c) \/ AcquireWaits(c)
       \/ RetryRequest(c) \/ RequestFails(c) \/ Return(c)
  \/ Tick
  \/ \E d \in ClockSteps : SetClock(d)

Spec == Init /\ [][Next]_vars

-----------------------------------------------------------------------------
(* Properties.                                                               *)

MintsOnce(b, spec) ==
  spec.cost * b.granted + b.tokens <= spec.cap + spec.gain * (b.refill - b.since)

\* No time the clock has shown mints twice: in whatever order the processes bring
\* the times they read, and however the clock is set, a bucket has given and still
\* holds no more than its burst and what it gains between the first of them and
\* the last. The same holds of each bucket of a process that lost the database.
ClockMintsOnce ==
  /\ \A u \in Urls : \A x \in Rows : row[u][x] # None => MintsOnce(row[u][x], SharedSpec(x))
  /\ \A p \in Procs : \A u \in Urls : \A f \in Families :
       fallback[p][u][f] # None => MintsOnce(fallback[p][u][f], LocalSpec(f))

FitsTrueTime(b, spec) ==
  spec.cost * b.granted <= spec.cap * (1 + forward) + spec.gain * (mono + back)

\* All processes together are let through to an endpoint no oftener than one
\* bucket allows in true time: a step back of the clock gives no more than it
\* takes, and a step forward one burst.
GrantsFitBudget ==
  /\ \A u \in Urls : \A x \in Rows :
       row[u][x] # None => FitsTrueTime(row[u][x], SharedSpec(x))
  /\ \A p \in Procs : \A u \in Urls : \A f \in Families :
       fallback[p][u][f] # None => FitsTrueTime(fallback[p][u][f], LocalSpec(f))

GrantedBy(b) == IF b = None THEN 0 ELSE b.granted

SumOfFamilies(r) == MapThenSumSet(LAMBDA f : GrantedBy(r[f]), Families)

\* A lease is taken from its family and from the total, or from neither.
LeasesAreWhole == \A u \in Urls : GrantedBy(row[u][Total]) = SumOfFamilies(row[u])

\* "A BUDGET refusal does not fail over": who turns to the fallback has been let
\* through to the primary.
RefusalStays ==
  \A c \in Callers :
    /\ pc[c] # "idle" /\ url[c] = 2 => 1 \in leased[c]
    /\ pc[c] = "request" /\ job[c].family # None => url[c] \in leased[c]

\* Less urgent calls never take the last token of a bucket: whatever they do, an
\* emergency exit finds one, unless another exit had it. A bucket of one token
\* has no floor.
ExitFloor ==
  \A p \in Procs : \A b \in Buckets :
    LocalBurst[b] > 1 => tokens[p][b] + exits[p][b] >= 1

\* "A caller that cannot get a lease inside the window is refused rather than
\* parked". The window is one of the wall clock, so a step back opens it again;
\* one busy timeout comes on top.
NobodyIsParked ==
  \A c \in Callers :
    /\ pc[c] \in {"poll", "lease", "late", "asleep"} =>
         mono - begun[c] <= MaxLeaseWait + back + 1
    /\ pc[c] \in {"acquire", "wait"} => mono - begun[c] <= MaxAcquireWait
=============================================================================
