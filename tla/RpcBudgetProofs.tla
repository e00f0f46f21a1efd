---------------------------- MODULE RpcBudgetProofs ----------------------------
(***************************************************************************)
(* Proofs about the budgets, for every set of processes, callers, families  *)
(* and rates, every window, and every way the wall clock is set.            *)
(***************************************************************************)
EXTENDS RpcBudget, FoldLemmas

Asking == {"poll", "lease", "late", "asleep"}
Limited == {"acquire", "wait", "request"}

\* TypeOK in three parts.
CallerTypes ==
  /\ pc \in [Callers -> {"idle", "poll", "lease", "late", "asleep",
                         "acquire", "wait", "request"}]
  /\ job \in [Callers -> Jobs \cup {None}]
  /\ url \in [Callers -> Urls]
  /\ now \in [Callers -> 0..MaxWall] /\ \A c \in Callers : now[c] <= latest
  /\ started \in [Callers -> 0..Max2(MaxWall, MaxTime)]
  /\ begun \in [Callers -> 0..MaxTime]
  /\ attempts \in [Callers -> 0..MaxAttempts]
  /\ leased \in [Callers -> SUBSET Urls]

ClockTypes ==
  /\ wall \in 0..MaxWall /\ latest \in 0..MaxWall /\ wall <= latest
  /\ mono \in 0..MaxTime /\ forward \in Nat /\ back \in Nat

RowTypes ==
  /\ \A u \in Urls : \A x \in Rows : row[u][x] \in Bucket(SharedSpec(x)) \cup {None}
  /\ \A p \in Procs : \A u \in Urls : \A f \in Families :
       fallback[p][u][f] \in Bucket(LocalSpec(f)) \cup {None}
  /\ DOMAIN row = Urls /\ DOMAIN fallback = Procs
  /\ \A u \in Urls : DOMAIN row[u] = Rows
  /\ \A p \in Procs : DOMAIN fallback[p] = Urls
  /\ \A p \in Procs : \A u \in Urls : DOMAIN fallback[p][u] = Families

LimiterTypes ==
  /\ \A p \in Procs : \A b \in Buckets : tokens[p][b] \in 0..LocalBurst[b]
  /\ DOMAIN tokens = Procs /\ \A p \in Procs : DOMAIN tokens[p] = Buckets
  /\ calls \in [Callers -> Nat]
  /\ exits \in [Procs -> [Buckets -> Nat]]

\* TypeOK in the parts that actions touch apart.
LEMMA TypeParts == TypeOK <=> CallerTypes /\ ClockTypes /\ RowTypes /\ LimiterTypes
BY DEF TypeOK, CallerTypes, ClockTypes, RowTypes, LimiterTypes

\* What a caller is doing, what it has been let through to, and how long it has
\* waited at each point of the wait.
CallerInv(c) ==
  /\ pc[c] # "idle" => job[c] \in Jobs
  /\ pc[c] \in Asking => job[c].family \in Families
  /\ pc[c] \in Limited /\ job[c].family # None => url[c] \in leased[c]
  /\ url[c] = 2 => 1 \in leased[c]
  /\ pc[c] # "request" => attempts[c] < MaxAttempts
  /\ pc[c] \in {"lease", "late"} => Start - back <= now[c]
  /\ pc[c] \in Asking => mono - begun[c] <= wall - started[c] + back
  /\ pc[c] = "asleep" => mono - begun[c] <= MaxLeaseWait + back - 1
  /\ pc[c] \in {"poll", "lease"} => mono - begun[c] <= MaxLeaseWait + back
  /\ pc[c] = "late" => mono - begun[c] <= MaxLeaseWait + back + 1
  /\ pc[c] \in {"acquire", "wait"} => started[c] = begun[c]
  /\ pc[c] = "acquire" => mono - begun[c] <= MaxAcquireWait
  /\ pc[c] = "wait" => mono - begun[c] <= MaxAcquireWait - 1

ClockInv ==
  /\ Start - back <= wall /\ Start <= latest
  /\ forward = 0 => latest <= Start + mono

\* No bucket is older than the clock, or younger than the last time it showed.
GoodBucket(b, spec) ==
  /\ b \in Bucket(spec) /\ MintsOnce(b, spec)
  /\ b.refill <= latest /\ Start - back <= b.since

BudgetInv ==
  /\ \A u \in Urls : \A x \in Rows : row[u][x] # None => GoodBucket(row[u][x], SharedSpec(x))
  /\ \A p \in Procs : \A u \in Urls : \A f \in Families :
       fallback[p][u][f] # None => GoodBucket(fallback[p][u][f], LocalSpec(f))

RpcInv == ClockInv /\ (\A c \in Callers : CallerInv(c)) /\ BudgetInv

CallersOK == CallerTypes /\ \A c \in Callers : CallerInv(c)

(***************************************************************************)
(* Arithmetic.                                                              *)
(***************************************************************************)

\* Who is short of tokens waits a tick at least.
LEMMA CeilPositive ==
  ASSUME NEW m \in Nat \ {0}, NEW n \in Nat \ {0}
  PROVE  Ceil(m, n) \in Nat \ {0}
<1> DEFINE k == m + n - 1
           q == k \div n
<1>1. k \in Nat /\ k >= n
  OBVIOUS
<1>2. q \in Int /\ k = n * q + (k % n) /\ k % n < n
  BY <1>1
<1>3. q >= 1
  BY <1>1, <1>2
<1> QED
  BY <1>2, <1>3 DEF Ceil

\* A rate gains no less in a longer time.
LEMMA GainGrows ==
  ASSUME NEW g \in Nat, NEW m \in Int, NEW n \in Int, m <= n
  PROVE  g * m <= g * n
<1>1. g * (n - m) >= 0
  OBVIOUS
<1>2. g * (n - m) = g * n - g * m
  OBVIOUS
<1>3. g * n \in Int /\ g * m \in Int
  OBVIOUS
<1> QED
  BY <1>1, <1>2, <1>3

(***************************************************************************)
(* Callers.                                                                 *)
(***************************************************************************)

\* What a wait may start from.
LEMMA ClockInRange ==
  ASSUME ClockTypes
  PROVE  /\ wall \in 0..Max2(MaxWall, MaxTime) /\ mono \in 0..Max2(MaxWall, MaxTime)
         /\ 0 \in 0..Max2(MaxWall, MaxTime)
BY RpcBudgetAssumption DEF ClockTypes, Max2

\* A caller whose call is over.
LEMMA IdleKeeps ==
  ASSUME CallersOK, ClockTypes, NEW c \in Callers, Idle(c), UNCHANGED clockVars
  PROVE  CallersOK'
<1>1. CallerTypes'
  BY RpcBudgetAssumption DEF CallersOK, CallerTypes, ClockTypes, Idle, clockVars, Urls, Max2
<1>2. ASSUME NEW d \in Callers  PROVE CallerInv(d)'
  BY RpcBudgetAssumption
     DEF CallersOK, CallerTypes, CallerInv, Idle, clockVars, Asking, Limited
<1> QED
  BY <1>1, <1>2 DEF CallersOK

\* A caller that begins to wait for a lease of an endpoint.
LEMMA AskForKeeps ==
  ASSUME CallersOK, ClockTypes, NEW c \in Callers, NEW u \in Urls, AskFor(c, u),
         UNCHANGED <<clockVars, now, leased>>,
         job' \in [Callers -> Jobs \cup {None}], attempts' \in [Callers -> 0..MaxAttempts],
         job'[c] \in Jobs, job'[c].family \in Families,
         attempts'[c] < MaxAttempts,
         \A d \in Callers \ {c} : job'[d] = job[d] /\ attempts'[d] = attempts[d],
         u = 2 => 1 \in leased[c]
  PROVE  CallersOK'
<1>1. CallerTypes'
  BY ClockInRange, RpcBudgetAssumption DEF CallersOK, CallerTypes, ClockTypes, AskFor, clockVars
<1>2. CallerInv(c)'
  BY RpcBudgetAssumption
     DEF CallersOK, CallerTypes, ClockTypes, CallerInv, AskFor, clockVars, Asking, Limited
<1>3. ASSUME NEW d \in Callers \ {c}  PROVE CallerInv(d)'
  BY DEF CallersOK, CallerTypes, CallerInv, AskFor, clockVars, Asking, Limited
<1> QED
  BY <1>1, <1>2, <1>3 DEF CallersOK

\* A caller that begins to wait for the limiter.
LEMMA AskLimiterKeeps ==
  ASSUME CallersOK, ClockTypes, NEW c \in Callers, AskLimiter(c),
         UNCHANGED <<clockVars, url, attempts>>,
         job' \in [Callers -> Jobs \cup {None}], leased' \in [Callers -> SUBSET Urls],
         now' \in [Callers -> 0..MaxWall], \A d \in Callers : now'[d] <= latest,
         job'[c] \in Jobs, job'[c].family # None => url[c] \in leased'[c],
         url[c] = 2 => 1 \in leased'[c], attempts[c] < MaxAttempts,
         \A d \in Callers \ {c} : job'[d] = job[d] /\ leased'[d] = leased[d] /\ now'[d] = now[d]
  PROVE  CallersOK'
<1>1. CallerTypes'
  BY ClockInRange, RpcBudgetAssumption DEF CallersOK, CallerTypes, ClockTypes, AskLimiter, clockVars
<1>2. CallerInv(c)'
  BY RpcBudgetAssumption
     DEF CallersOK, CallerTypes, ClockTypes, CallerInv, AskLimiter, clockVars, Asking, Limited
<1>3. ASSUME NEW d \in Callers \ {c}  PROVE CallerInv(d)'
  BY DEF CallersOK, CallerTypes, CallerInv, AskLimiter, clockVars, Asking, Limited
<1> QED
  BY <1>1, <1>2, <1>3 DEF CallersOK

\* Who turns to the fallback has been let through to the primary.
LEMMA FailOverKeeps ==
  ASSUME CallersOK, ClockTypes, NEW c \in Callers, pc[c] \in Limited, FailOver(c),
         UNCHANGED clockVars
  PROVE  CallersOK'
<1>1. CASE job[c].family # None /\ url[c] < Endpoints[c]
  <2>1. url[c] = 1 /\ url[c] + 1 \in Urls
    BY <1>1, RpcBudgetAssumption DEF CallersOK, CallerTypes, Urls
  <2>2. job[c] \in Jobs /\ 1 \in leased[c] /\ CallerTypes
    BY <1>1, <2>1 DEF CallersOK, CallerInv, Limited
  <2>3. job[c].family \in Families
    BY <1>1, <2>2 DEF Jobs
  <2>4. /\ AskFor(c, url[c] + 1) /\ UNCHANGED <<job, now, leased>>
        /\ attempts' = [attempts EXCEPT ![c] = 0]
    BY <1>1 DEF FailOver
  <2>5. /\ attempts' \in [Callers -> 0..MaxAttempts] /\ attempts'[c] < MaxAttempts
        /\ \A d \in Callers \ {c} : attempts'[d] = attempts[d]
    BY <2>2, <2>4, RpcBudgetAssumption DEF CallerTypes
  <2>6. job' \in [Callers -> Jobs \cup {None}]
    BY <2>2, <2>4 DEF CallerTypes
  <2> QED
    BY <2>1, <2>2, <2>3, <2>4, <2>5, <2>6, AskForKeeps
<1>2. CASE ~(job[c].family # None /\ url[c] < Endpoints[c])
  BY <1>2, IdleKeeps DEF FailOver
<1> QED
  BY <1>1, <1>2

\* A caller that has its lease.
LEMMA GrantedKeeps ==
  ASSUME CallersOK, ClockTypes, NEW c \in Callers, pc[c] \in Asking, Granted(c),
         UNCHANGED clockVars
  PROVE  CallersOK'
<1>1. CallerTypes /\ job[c] \in Jobs /\ CallerInv(c)
  BY DEF CallersOK, CallerInv, Asking
<1>2. /\ AskLimiter(c) /\ UNCHANGED <<url, attempts, job>>
      /\ leased' = [leased EXCEPT ![c] = @ \cup {url[c]}]
      /\ now' = [now EXCEPT ![c] = 0]
  BY DEF Granted
<1>3. leased' \in [Callers -> SUBSET Urls] /\ url[c] \in leased'[c]
      /\ leased[c] \subseteq leased'[c]
  BY <1>1, <1>2 DEF CallerTypes
<1>4. now' \in [Callers -> 0..MaxWall] /\ \A d \in Callers : now'[d] <= latest
  BY <1>1, <1>2, RpcBudgetAssumption DEF CallerTypes, ClockTypes
<1>5. (url[c] = 2 => 1 \in leased'[c]) /\ attempts[c] < MaxAttempts
  BY <1>1, <1>3 DEF CallerInv, Asking
<1>6. \A d \in Callers \ {c} : job'[d] = job[d] /\ leased'[d] = leased[d] /\ now'[d] = now[d]
  BY <1>1, <1>2 DEF CallerTypes
<1>7. job' \in [Callers -> Jobs \cup {None}] /\ job'[c] \in Jobs
  BY <1>1, <1>2 DEF CallerTypes
<1> QED
  BY <1>2, <1>3, <1>4, <1>5, <1>6, <1>7, AskLimiterKeeps

\* A caller goes to sleep only when it will wake inside its window.
LEMMA RefusedKeeps ==
  ASSUME CallersOK, ClockTypes, NEW c \in Callers, pc[c] \in {"lease", "late"},
         NEW w \in Nat \ {0}, Refused(c, w), UNCHANGED clockVars
  PROVE  CallersOK'
<1>1. CASE wall - started[c] + w > MaxLeaseWait
  BY <1>1, IdleKeeps DEF Refused
<1>2. CASE ~(wall - started[c] + w > MaxLeaseWait)
  <2>1. /\ pc' = [pc EXCEPT ![c] = "asleep"] /\ now' = [now EXCEPT ![c] = 0]
        /\ UNCHANGED <<job, url, started, attempts, begun, leased>>
    BY <1>2 DEF Refused
  <2>2. CallerTypes'
    BY <2>1, RpcBudgetAssumption DEF CallersOK, CallerTypes, ClockTypes, clockVars, Max2
  <2>3. CallerInv(c)'
    <3>1. /\ started[c] \in Int /\ begun[c] \in Int /\ wall \in Int /\ mono \in Int
          /\ back \in Int /\ MaxLeaseWait \in Int
      BY RpcBudgetAssumption DEF CallersOK, CallerTypes, ClockTypes, Max2
    <3>2. mono - begun[c] <= MaxLeaseWait + back - 1
      BY <1>2, <3>1 DEF CallersOK, CallerInv, Asking
    <3> QED
      BY <2>1, <3>2 DEF CallersOK, CallerTypes, CallerInv, clockVars, Asking, Limited
  <2>4. ASSUME NEW d \in Callers \ {c}  PROVE CallerInv(d)'
    BY <2>1 DEF CallersOK, CallerTypes, CallerInv, clockVars, Asking, Limited
  <2> QED
    BY <2>2, <2>3, <2>4 DEF CallersOK
<1> QED
  BY <1>1, <1>2

(***************************************************************************)
(* Buckets.                                                                 *)
(***************************************************************************)

IsSpec(s) == s.gain \in Nat \ {0} /\ s.cost \in Nat \ {0} /\ s.cap \in Nat

\* The rates of a row of rpc_endpoint_budget are positive.
LEMMA SharedIsSpec ==
  ASSUME NEW x \in Rows
  PROVE  IsSpec(SharedSpec(x))
BY RpcBudgetAssumption DEF IsSpec, SharedSpec

\* So are those of a bucket of the fallback.
LEMMA LocalIsSpec ==
  ASSUME NEW f \in Families
  PROVE  IsSpec(LocalSpec(f))
<1>1. f \in Rows
  BY DEF Rows
<1>2. Rate[f] \in Nat \ {0} /\ Share \in Nat \ {0} /\ Burst[f] \in Nat
  BY <1>1, RpcBudgetAssumption
<1> DEFINE q == Burst[f] \div Share
<1>3. q \in Int
  BY <1>2
<1>4. Max2(1, q) \in Nat
  BY <1>3 DEF Max2
<1>5. Share * Max2(1, q) \in Nat
  BY <1>2, <1>4
<1> QED
  BY <1>2, <1>5 DEF IsSpec, LocalSpec

\* A refill at a time the clock has shown gives what that time is worth, once.
LEMMA LoadedGood ==
  ASSUME ClockTypes, NEW s, IsSpec(s), NEW b, b # None => GoodBucket(b, s),
         NEW t \in 0..MaxWall, t <= latest, Start - back <= t
  PROVE  GoodBucket(Loaded(b, s, t), s)
<1> USE DEF IsSpec
<1>1. CASE b = None
  <2> DEFINE full == [tokens |-> s.cap, refill |-> t, since |-> t, granted |-> 0]
  <2>1. Loaded(b, s, t) = full
    BY <1>1 DEF Loaded, Refilled
  <2>2. full \in Bucket(s)
    BY DEF Bucket
  <2>3. MintsOnce(full, s)
    BY DEF MintsOnce
  <2> QED
    BY <2>1, <2>2, <2>3 DEF GoodBucket
<1>2. CASE b # None /\ t <= b.refill
  BY <1>2 DEF Loaded, Refilled
<1>3. CASE b # None /\ ~(t <= b.refill)
  <2> DEFINE got == b.tokens + s.gain * (t - b.refill)
             l == [b EXCEPT !.tokens = Min2(s.cap, got), !.refill = t]
  <2>1. Loaded(b, s, t) = l
    BY <1>3 DEF Loaded, Refilled
  <2>2. /\ b \in Bucket(s) /\ MintsOnce(b, s) /\ b.refill <= latest /\ Start - back <= b.since
    BY <1>3 DEF GoodBucket
  <2>3. /\ b.tokens \in Nat /\ b.refill \in Nat /\ b.since \in Nat /\ b.granted \in Nat
        /\ t > b.refill
    BY <1>3, <2>2 DEF Bucket
  <2>4. s.gain * (t - b.refill) \in Nat
    <3>1. t - b.refill \in Nat
      BY <2>3
    <3> QED
      BY <3>1
  <2>5. Min2(s.cap, got) \in 0..s.cap /\ Min2(s.cap, got) <= got
    BY <2>3, <2>4 DEF Min2
  <2>6. l \in Bucket(s)
    BY <2>2, <2>5 DEF Bucket
  <2>7. l.tokens = Min2(s.cap, got) /\ l.refill = t /\ l.since = b.since /\ l.granted = b.granted
    BY <2>2 DEF Bucket
  <2>8. MintsOnce(l, s)
    <3>1. s.gain * (t - b.since) = s.gain * (t - b.refill) + s.gain * (b.refill - b.since)
      BY <2>3
    <3>2. s.cost * b.granted \in Nat /\ s.gain * (b.refill - b.since) \in Int
      BY <2>3
    <3>3. s.cost * b.granted + b.tokens <= s.cap + s.gain * (b.refill - b.since)
      BY <2>2 DEF MintsOnce
    <3>4. s.cost * b.granted + got <= s.cap + s.gain * (t - b.since)
      BY <2>3, <2>4, <3>1, <3>2, <3>3
    <3>5. s.cost * b.granted + Min2(s.cap, got) <= s.cap + s.gain * (t - b.since)
      BY <2>3, <2>4, <2>5, <3>1, <3>2, <3>4
    <3> QED
      BY <2>7, <3>5 DEF MintsOnce
  <2> QED
    BY <2>1, <2>2, <2>6, <2>7, <2>8 DEF GoodBucket
<1> QED
  BY <1>1, <1>2, <1>3

\* A call is let through for the token it takes.
LEMMA DebitedGood ==
  ASSUME NEW s, IsSpec(s), NEW b, GoodBucket(b, s), Covers(b, s)
  PROVE  GoodBucket(Debited(b, s), s)
<1> USE DEF IsSpec
<1>1. /\ b \in Bucket(s) /\ MintsOnce(b, s) /\ b.refill <= latest /\ Start - back <= b.since
  BY DEF GoodBucket
<1>2. b.tokens \in 0..s.cap /\ b.refill \in Nat /\ b.since \in Nat /\ b.granted \in Nat
  BY <1>1 DEF Bucket
<1> DEFINE d == Debited(b, s)
<1>3. /\ d.tokens = b.tokens - s.cost /\ d.granted = b.granted + 1
      /\ d.refill = b.refill /\ d.since = b.since
  BY <1>1 DEF Debited, Bucket
<1>4. d.tokens \in 0..s.cap /\ d.granted \in Nat
  BY <1>2, <1>3 DEF Covers
<1>5. d \in Bucket(s)
  BY <1>1, <1>2, <1>3, <1>4 DEF Bucket, Debited
<1>6. MintsOnce(d, s)
  <2>1. s.cost * (b.granted + 1) = s.cost * b.granted + s.cost
    BY <1>2
  <2>2. s.cost * b.granted \in Int /\ s.gain * (b.refill - b.since) \in Int
    BY <1>2
  <2>3. s.cost * b.granted + b.tokens <= s.cap + s.gain * (b.refill - b.since)
    BY <1>1 DEF MintsOnce
  <2>4. s.cost * (b.granted + 1) + (b.tokens - s.cost) <= s.cap + s.gain * (b.refill - b.since)
    BY <1>2, <2>1, <2>2, <2>3
  <2> QED
    BY <1>3, <2>4 DEF MintsOnce
<1> HIDE DEF d
<1> QED
  BY <1>1, <1>3, <1>5, <1>6 DEF GoodBucket, d

\* A bucket that does not cover a call makes it wait.
LEMMA WaitIsPositive ==
  ASSUME NEW s, IsSpec(s), NEW b, GoodBucket(b, s), ~Covers(b, s)
  PROVE  WaitFor(b, s) \in Nat \ {0}
<1>1. b.tokens \in Nat
  BY DEF GoodBucket, Bucket, IsSpec
<1>2. s.cost - b.tokens \in Nat \ {0}
  BY <1>1 DEF Covers, IsSpec
<1> QED
  BY <1>2, CeilPositive DEF WaitFor, IsSpec

\* A lease leaves two good buckets in place of two.
LEMMA LeaseKeepsRows ==
  ASSUME RowTypes, BudgetInv, UNCHANGED <<clockVars, fallback>>,
         NEW u \in Urls, NEW f \in Families, NEW total, NEW family,
         GoodBucket(total, SharedSpec(Total)), GoodBucket(family, SharedSpec(f)),
         row' = [row EXCEPT ![u][Total] = total, ![u][f] = family]
  PROVE  RowTypes' /\ BudgetInv'
<1>1. f # Total /\ f \in Rows /\ Total \in Rows
  BY RpcBudgetAssumption DEF Rows
<1>2. DOMAIN row' = Urls /\ \A v \in Urls : DOMAIN row'[v] = Rows
  BY <1>1 DEF RowTypes
<1>3. row'[u][Total] = total /\ row'[u][f] = family
  BY <1>1 DEF RowTypes
<1>4. \A v \in Urls, x \in Rows : v # u \/ x \notin {f, Total} => row'[v][x] = row[v][x]
  BY <1>1 DEF RowTypes
<1>5. \A v \in Urls, x \in Rows : row'[v][x] # None => GoodBucket(row'[v][x], SharedSpec(x))
  BY <1>1, <1>3, <1>4 DEF BudgetInv
<1>6. \A v \in Urls, x \in Rows : row'[v][x] \in Bucket(SharedSpec(x)) \cup {None}
  BY <1>5 DEF GoodBucket
<1> QED
  BY <1>2, <1>5, <1>6 DEF RowTypes, BudgetInv, GoodBucket, clockVars

\* The fallback leaves one.
LEMMA FallbackKeepsRows ==
  ASSUME RowTypes, BudgetInv, UNCHANGED <<clockVars, row>>,
         NEW p \in Procs, NEW u \in Urls, NEW f \in Families, NEW b,
         GoodBucket(b, LocalSpec(f)), fallback' = [fallback EXCEPT ![p][u][f] = b]
  PROVE  RowTypes' /\ BudgetInv'
<1>1. /\ DOMAIN fallback' = Procs /\ \A q \in Procs : DOMAIN fallback'[q] = Urls
      /\ \A q \in Procs : \A v \in Urls : DOMAIN fallback'[q][v] = Families
  BY DEF RowTypes
<1>2. \A q \in Procs, v \in Urls, x \in Families :
        fallback'[q][v][x] = IF q = p /\ v = u /\ x = f THEN b ELSE fallback[q][v][x]
  BY DEF RowTypes
<1>3. \A q \in Procs, v \in Urls, x \in Families :
        fallback'[q][v][x] # None => GoodBucket(fallback'[q][v][x], LocalSpec(x))
  BY <1>2 DEF BudgetInv
<1>4. \A q \in Procs, v \in Urls, x \in Families :
        fallback'[q][v][x] \in Bucket(LocalSpec(x)) \cup {None}
  BY <1>3 DEF GoodBucket
<1> QED
  BY <1>1, <1>3, <1>4 DEF RowTypes, BudgetInv, GoodBucket, clockVars

\* The clock only makes a bucket older.
LEMMA ClockKeepsRows ==
  ASSUME ClockTypes, ClockTypes', RowTypes, BudgetInv, UNCHANGED <<row, fallback>>,
         latest <= latest', back <= back'
  PROVE  RowTypes' /\ BudgetInv'
<1>1. ASSUME NEW s, NEW b, b \in Bucket(s), b.refill <= latest, Start - back <= b.since
      PROVE  b.refill <= latest' /\ Start - back' <= b.since
  BY <1>1, RpcBudgetAssumption DEF Bucket, ClockTypes
<1>2. RowTypes'
  BY DEF RowTypes
<1>3. \A u \in Urls, x \in Rows : row[u][x] # None => GoodBucket(row[u][x], SharedSpec(x))'
  BY <1>1 DEF BudgetInv, GoodBucket, MintsOnce
<1>4. \A p \in Procs, u \in Urls, f \in Families :
        fallback[p][u][f] # None => GoodBucket(fallback[p][u][f], LocalSpec(f))'
  BY <1>1 DEF BudgetInv, GoodBucket, MintsOnce
<1> QED
  BY <1>2, <1>3, <1>4 DEF BudgetInv

(***************************************************************************)
(* The invariant.                                                           *)
(***************************************************************************)

RpcFacts == TypeOK /\ RpcInv

AllParts ==
  CallersOK /\ ClockTypes /\ RowTypes /\ LimiterTypes /\ ClockInv /\ BudgetInv

\* The invariant by what its parts are about.
LEMMA FactsAreParts == RpcFacts <=> AllParts
BY TypeParts DEF RpcFacts, RpcInv, AllParts, CallersOK

\* It holds at first.
LEMMA FactsInitially == Init => AllParts
<1> SUFFICES ASSUME Init  PROVE AllParts
  OBVIOUS
<1> USE RpcBudgetAssumption
<1>1. ClockTypes /\ ClockInv
  BY DEF Init, ClockTypes, ClockInv
<1>2. CallerTypes
  <2>1. 0 \in 0..Max2(MaxWall, MaxTime)
    BY <1>1, ClockInRange
  <2> QED
    BY <2>1 DEF Init, CallerTypes, Urls
<1>3. \A c \in Callers : CallerInv(c)
  BY DEF Init, CallerInv, Asking, Limited
<1>4. RowTypes /\ BudgetInv
  BY DEF Init, RowTypes, BudgetInv
<1>5. LimiterTypes
  BY DEF Init, LimiterTypes
<1> QED
  BY <1>1, <1>2, <1>3, <1>4, <1>5 DEF AllParts, CallersOK

\* A step that leaves the clock and the shared and local buckets alone keeps what
\* is said of them.
LEMMA RestKeeps ==
  ASSUME AllParts, UNCHANGED <<row, fallback, clockVars>>
  PROVE  ClockTypes' /\ ClockInv' /\ RowTypes' /\ BudgetInv'
BY DEF AllParts, ClockTypes, ClockInv, RowTypes, BudgetInv, GoodBucket, clockVars

\* Each action keeps it.
LEMMA CallRpcKeeps ==
  ASSUME AllParts, NEW c \in Callers, NEW f \in Families, CallRpc(c, f)
  PROVE  AllParts'
<1> DEFINE j == [bucket |-> "solana_rpc", priority |-> "discovery", family |-> f]
<1>1. j \in Jobs
  BY DEF Jobs, Buckets, Reserved
<1>2. job' \in [Callers -> Jobs \cup {None}] /\ job'[c] = j
      /\ \A d \in Callers \ {c} : job'[d] = job[d]
  BY <1>1 DEF CallRpc, AllParts, CallersOK, CallerTypes
<1>3. attempts' \in [Callers -> 0..MaxAttempts] /\ attempts' = attempts /\ attempts[c] < MaxAttempts
  BY DEF CallRpc, AllParts, CallersOK, CallerTypes, CallerInv
<1>4. CallersOK'
  BY <1>1, <1>2, <1>3, AskForKeeps DEF CallRpc, AllParts, Urls
<1>5. LimiterTypes'
  BY DEF CallRpc, AllParts, LimiterTypes
<1> QED
  BY <1>4, <1>5, RestKeeps DEF CallRpc, AllParts

\* A call of the Jupiter client.
LEMMA CallJupiterKeeps ==
  ASSUME AllParts, NEW c \in Callers, NEW priority \in DOMAIN Reserved,
         CallJupiter(c, priority)
  PROVE  AllParts'
<1> DEFINE j == [bucket |-> "jupiter_main", priority |-> priority, family |-> None]
<1>1. j \in Jobs
  BY DEF Jobs, Buckets
<1>2. job' \in [Callers -> Jobs \cup {None}] /\ job'[c] = j
      /\ \A d \in Callers \ {c} : job'[d] = job[d]
  BY <1>1 DEF CallJupiter, AllParts, CallersOK, CallerTypes
<1>3. CallerTypes /\ CallerInv(c)
  BY DEF AllParts, CallersOK
<1>4. CallersOK'
  BY <1>1, <1>2, <1>3, AskLimiterKeeps DEF CallJupiter, AllParts, CallerTypes, CallerInv
<1>5. LimiterTypes'
  BY DEF CallJupiter, AllParts, LimiterTypes
<1> QED
  BY <1>4, <1>5, RestKeeps DEF CallJupiter, AllParts

\* The time is read before the lock is asked for.
LEMMA ReadNowKeeps ==
  ASSUME AllParts, NEW c \in Callers, ReadNow(c)
  PROVE  AllParts'
<1>1. CallerTypes'
  BY DEF ReadNow, AllParts, CallersOK, CallerTypes, ClockTypes, clockVars
<1>2. CallerInv(c)'
  BY DEF ReadNow, AllParts, CallersOK, CallerTypes, CallerInv, ClockInv, clockVars, Asking, Limited
<1>3. ASSUME NEW d \in Callers \ {c}  PROVE CallerInv(d)'
  BY DEF ReadNow, AllParts, CallersOK, CallerTypes, CallerInv, clockVars, Asking, Limited
<1>4. LimiterTypes'
  BY DEF ReadNow, AllParts, LimiterTypes
<1>5. CallersOK'
  BY <1>1, <1>2, <1>3 DEF CallersOK
<1> QED
  BY <1>4, <1>5, RestKeeps DEF ReadNow, AllParts

\* A lease, granted or refused.
LEMMA LeaseKeeps ==
  ASSUME AllParts, NEW c \in Callers, Lease(c)
  PROVE  AllParts'
<1> DEFINE u == url[c]
           f == job[c].family
           total == Loaded(row[u][Total], SharedSpec(Total), now[c])
           family == Loaded(row[u][f], SharedSpec(f), now[c])
<1>1. /\ u \in Urls /\ f \in Families /\ f \in Rows /\ Total \in Rows
      /\ now[c] \in 0..MaxWall /\ now[c] <= latest /\ Start - back <= now[c]
      /\ pc[c] \in {"lease", "late"} /\ pc[c] \in Asking
  BY DEF Lease, AllParts, CallersOK, CallerTypes, CallerInv, Asking, Rows
<1>2. GoodBucket(total, SharedSpec(Total)) /\ GoodBucket(family, SharedSpec(f))
  BY <1>1, LoadedGood, SharedIsSpec DEF AllParts, BudgetInv
<1>3. UNCHANGED <<clockVars, fallback>> /\ LimiterTypes'
  BY DEF Lease, AllParts, LimiterTypes
<1>4. ClockTypes' /\ ClockInv'
  BY <1>3 DEF AllParts, ClockTypes, ClockInv, clockVars
<1> HIDE DEF total, family
<1>5. CASE Covers(total, SharedSpec(Total)) /\ Covers(family, SharedSpec(f))
  <2>1. /\ row' = [row EXCEPT ![u][Total] = Debited(total, SharedSpec(Total)),
                              ![u][f] = Debited(family, SharedSpec(f))]
        /\ Granted(c)
    BY <1>5 DEF Lease, total, family
  <2>2. /\ GoodBucket(Debited(total, SharedSpec(Total)), SharedSpec(Total))
        /\ GoodBucket(Debited(family, SharedSpec(f)), SharedSpec(f))
    BY <1>1, <1>2, <1>5, DebitedGood, SharedIsSpec
  <2>3. RowTypes' /\ BudgetInv'
    BY <1>1, <1>3, <2>1, <2>2, LeaseKeepsRows DEF AllParts
  <2>4. CallersOK'
    BY <1>1, <1>3, <2>1, GrantedKeeps DEF AllParts
  <2> QED
    BY <1>3, <1>4, <2>3, <2>4 DEF AllParts
<1>6. CASE ~(Covers(total, SharedSpec(Total)) /\ Covers(family, SharedSpec(f)))
  <2> DEFINE wait == IF Covers(total, SharedSpec(Total)) THEN WaitFor(family, SharedSpec(f))
                     ELSE WaitFor(total, SharedSpec(Total))
  <2>1. row' = [row EXCEPT ![u][Total] = total, ![u][f] = family] /\ Refused(c, wait)
    BY <1>6 DEF Lease, total, family
  <2>2. wait \in Nat \ {0}
    BY <1>1, <1>2, <1>6, WaitIsPositive, SharedIsSpec
  <2> HIDE DEF wait
  <2>3. RowTypes' /\ BudgetInv'
    BY <1>1, <1>2, <1>3, <2>1, LeaseKeepsRows DEF AllParts
  <2>4. CallersOK'
    BY <1>1, <1>3, <2>1, <2>2, RefusedKeeps DEF AllParts
  <2> QED
    BY <1>3, <1>4, <2>3, <2>4 DEF AllParts
<1> QED
  BY <1>5, <1>6

\* A lease of the fallback.
LEMMA LeaseLocalKeeps ==
  ASSUME AllParts, NEW c \in Callers, LeaseLocal(c)
  PROVE  AllParts'
<1> DEFINE u == url[c]
           p == ProcOf[c]
           f == job[c].family
           b == Loaded(fallback[p][u][f], LocalSpec(f), wall)
<1>1. /\ u \in Urls /\ f \in Families /\ p \in Procs
      /\ wall \in 0..MaxWall /\ wall <= latest /\ Start - back <= wall
      /\ pc[c] \in {"lease", "late"} /\ pc[c] \in Asking
  BY RpcBudgetAssumption
     DEF LeaseLocal, AllParts, CallersOK, CallerTypes, CallerInv, ClockTypes, ClockInv, Asking
<1>2. GoodBucket(b, LocalSpec(f))
  BY <1>1, LoadedGood, LocalIsSpec DEF AllParts, BudgetInv
<1>3. UNCHANGED <<clockVars, row>> /\ LimiterTypes'
  BY DEF LeaseLocal, AllParts, LimiterTypes
<1>4. ClockTypes' /\ ClockInv'
  BY <1>3 DEF AllParts, ClockTypes, ClockInv, clockVars
<1> HIDE DEF b
<1>5. CASE Covers(b, LocalSpec(f))
  <2>1. fallback' = [fallback EXCEPT ![p][u][f] = Debited(b, LocalSpec(f))] /\ Granted(c)
    BY <1>5 DEF LeaseLocal, b
  <2>2. GoodBucket(Debited(b, LocalSpec(f)), LocalSpec(f))
    BY <1>1, <1>2, <1>5, DebitedGood, LocalIsSpec
  <2>3. RowTypes' /\ BudgetInv'
    BY <1>1, <1>3, <2>1, <2>2, FallbackKeepsRows DEF AllParts
  <2>4. CallersOK'
    BY <1>1, <1>3, <2>1, GrantedKeeps DEF AllParts
  <2> QED
    BY <1>3, <1>4, <2>3, <2>4 DEF AllParts
<1>6. CASE ~Covers(b, LocalSpec(f))
  <2>1. fallback' = [fallback EXCEPT ![p][u][f] = b] /\ Refused(c, WaitFor(b, LocalSpec(f)))
    BY <1>6 DEF LeaseLocal, b
  <2>2. WaitFor(b, LocalSpec(f)) \in Nat \ {0}
    BY <1>1, <1>2, <1>6, WaitIsPositive, LocalIsSpec
  <2>3. RowTypes' /\ BudgetInv'
    BY <1>1, <1>2, <1>3, <2>1, FallbackKeepsRows DEF AllParts
  <2>4. CallersOK'
    BY <1>1, <1>3, <2>1, <2>2, RefusedKeeps DEF AllParts
  <2> QED
    BY <1>3, <1>4, <2>3, <2>4 DEF AllParts
<1> QED
  BY <1>5, <1>6

\* A token of the limiter is taken.
LEMMA AcquireKeeps ==
  ASSUME AllParts, NEW c \in Callers, Acquire(c)
  PROVE  AllParts'
<1> DEFINE p == ProcOf[c]
           b == job[c].bucket
<1>1. /\ job[c] \in Jobs /\ p \in Procs /\ b \in Buckets /\ pc[c] = "acquire"
      /\ attempts[c] < MaxAttempts /\ CallerInv(c) /\ CallerTypes
  BY RpcBudgetAssumption DEF Acquire, AllParts, CallersOK, CallerInv, Jobs
<1>2. /\ pc' = [pc EXCEPT ![c] = "request"] /\ attempts' = [attempts EXCEPT ![c] = @ + 1]
      /\ started' = [started EXCEPT ![c] = 0] /\ begun' = [begun EXCEPT ![c] = 0]
      /\ UNCHANGED <<row, fallback, clockVars, job, url, now, leased, calls>>
  BY DEF Acquire
<1>3. CallerTypes'
  <2>1. attempts' \in [Callers -> 0..MaxAttempts]
    BY <1>1, <1>2, RpcBudgetAssumption DEF CallerTypes
  <2>2. 0 \in 0..Max2(MaxWall, MaxTime) /\ 0 \in 0..MaxTime
    BY ClockInRange, RpcBudgetAssumption DEF AllParts
  <2> QED
    BY <1>1, <1>2, <2>1, <2>2 DEF CallerTypes, clockVars
<1>4. ASSUME NEW d \in Callers  PROVE CallerInv(d)'
  BY <1>1, <1>2 DEF AllParts, CallersOK, CallerTypes, CallerInv, clockVars, Asking, Limited
<1>5. LimiterTypes'
  <2>1. tokens' = [tokens EXCEPT ![p][b] = @ - 1] /\ tokens[p][b] >= Need(job[c])
    BY DEF Acquire
  <2>2. Need(job[c]) \in Nat \ {0}
    BY <1>1, RpcBudgetAssumption DEF Need, Min2, Jobs, Reserved
  <2>3. tokens[p][b] - 1 \in 0..LocalBurst[b]
    BY <1>1, <2>1, <2>2, RpcBudgetAssumption DEF AllParts, LimiterTypes
  <2>4. /\ DOMAIN tokens' = Procs /\ \A q \in Procs : DOMAIN tokens'[q] = Buckets
        /\ \A q \in Procs, a \in Buckets :
             tokens'[q][a] = IF q = p /\ a = b THEN tokens[p][b] - 1 ELSE tokens[q][a]
    BY <2>1 DEF AllParts, LimiterTypes
  <2>5. \A q \in Procs, a \in Buckets : tokens'[q][a] \in 0..LocalBurst[a]
    BY <2>3, <2>4 DEF AllParts, LimiterTypes
  <2>6. exits' \in [Procs -> [Buckets -> Nat]]
    BY <1>1 DEF Acquire, AllParts, LimiterTypes
  <2> QED
    BY <1>2, <2>4, <2>5, <2>6 DEF AllParts, LimiterTypes
<1>6. ClockTypes' /\ ClockInv' /\ RowTypes' /\ BudgetInv'
  BY <1>2, RestKeeps
<1>7. CallersOK'
  BY <1>3, <1>4 DEF CallersOK
<1> QED
  BY <1>5, <1>6, <1>7 DEF AllParts

\* A caller sleeps only for a wait that ends inside its window.
LEMMA AcquireWaitsKeeps ==
  ASSUME AllParts, NEW c \in Callers, AcquireWaits(c)
  PROVE  AllParts'
<1> DEFINE b == job[c].bucket
           short == Need(job[c]) - tokens[ProcOf[c]][b]
           wait == Ceil(short, LocalRate[b])
<1>1. /\ pc[c] = "acquire" /\ short > 0 /\ pc[c] \in Limited
      /\ UNCHANGED <<row, fallback, tokens, clockVars, calls, exits>>
  BY DEF AcquireWaits, Limited
<1>2. LimiterTypes'
  BY <1>1 DEF AllParts, LimiterTypes
<1>3. CASE mono - started[c] + wait > MaxAcquireWait
  <2>1. CallersOK'
    BY <1>1, <1>3, FailOverKeeps DEF AcquireWaits, AllParts
  <2> QED
    BY <1>1, <1>2, <2>1, RestKeeps DEF AllParts
<1>4. CASE ~(mono - started[c] + wait > MaxAcquireWait)
  <2>1. /\ pc' = [pc EXCEPT ![c] = "wait"]
        /\ UNCHANGED <<job, url, now, started, attempts, begun, leased>>
    BY <1>4 DEF AcquireWaits
  <2>2. CallerTypes /\ CallerInv(c) /\ job[c] \in Jobs /\ b \in Buckets /\ ProcOf[c] \in Procs
    BY <1>1, RpcBudgetAssumption DEF AllParts, CallersOK, CallerInv, Jobs
  <2>3. short \in Nat \ {0}
    <3>1. Need(job[c]) \in Int
      BY <2>2, RpcBudgetAssumption DEF Need, Min2, Jobs, Reserved
    <3>2. tokens[ProcOf[c]][b] \in Int
      BY <2>2, RpcBudgetAssumption DEF AllParts, LimiterTypes
    <3> QED
      BY <1>1, <3>1, <3>2
  <2>4. wait \in Nat \ {0}
    BY <2>2, <2>3, CeilPositive, RpcBudgetAssumption
  <2>5. mono - begun[c] <= MaxAcquireWait - 1
    <3>1. started[c] \in Int /\ mono \in Int /\ begun[c] = started[c]
      BY <1>1, <2>2, RpcBudgetAssumption DEF AllParts, CallerTypes, CallerInv, ClockTypes, Max2
    <3> HIDE DEF wait
    <3> QED
      BY <1>4, <2>4, <3>1, RpcBudgetAssumption
  <2>6. CallerTypes'
    BY <1>1, <2>1, <2>2 DEF CallerTypes, clockVars
  <2>7. CallerInv(c)'
    BY <1>1, <2>1, <2>2, <2>5 DEF CallerTypes, CallerInv, clockVars, Asking, Limited
  <2>8. ASSUME NEW d \in Callers \ {c}  PROVE CallerInv(d)'
    BY <1>1, <2>1, <2>2 DEF AllParts, CallersOK, CallerTypes, CallerInv, clockVars, Asking, Limited
  <2>9. CallersOK'
    BY <2>6, <2>7, <2>8 DEF CallersOK
  <2> QED
    BY <1>1, <1>2, <2>9, RestKeeps DEF AllParts
<1> QED
  BY <1>3, <1>4

\* A retry keeps the lease it has.
LEMMA RetryRequestKeeps ==
  ASSUME AllParts, NEW c \in Callers, RetryRequest(c)
  PROVE  AllParts'
<1>1. /\ CallerTypes /\ CallerInv(c) /\ pc[c] = "request" /\ attempts[c] < MaxAttempts
      /\ AskLimiter(c)
      /\ UNCHANGED <<row, fallback, tokens, clockVars, job, url, now, attempts, leased,
                     calls, exits>>
  BY DEF RetryRequest, AllParts, CallersOK
<1>2. /\ job[c] \in Jobs /\ (job[c].family # None => url[c] \in leased[c])
      /\ (url[c] = 2 => 1 \in leased[c])
  BY <1>1 DEF CallerInv, Limited
<1>3. /\ job' \in [Callers -> Jobs \cup {None}] /\ leased' \in [Callers -> SUBSET Urls]
      /\ now' \in [Callers -> 0..MaxWall] /\ \A d \in Callers : now'[d] <= latest
  BY <1>1 DEF CallerTypes
<1>4. CallersOK'
  BY <1>1, <1>2, <1>3, AskLimiterKeeps DEF AllParts
<1>5. LimiterTypes'
  BY <1>1 DEF AllParts, LimiterTypes
<1> QED
  BY <1>1, <1>4, <1>5, RestKeeps DEF AllParts

\* A request that failed.
LEMMA RequestFailsKeeps ==
  ASSUME AllParts, NEW c \in Callers, RequestFails(c)
  PROVE  AllParts'
<1>1. CallersOK'
  BY FailOverKeeps DEF RequestFails, AllParts, Limited
<1>2. LimiterTypes'
  BY DEF RequestFails, AllParts, LimiterTypes
<1> QED
  BY <1>1, <1>2, RestKeeps DEF RequestFails, AllParts

\* A request that returned.
LEMMA ReturnKeeps ==
  ASSUME AllParts, NEW c \in Callers, Return(c)
  PROVE  AllParts'
<1>1. CallersOK'
  BY IdleKeeps DEF Return, AllParts
<1>2. LimiterTypes'
  BY DEF Return, AllParts, LimiterTypes
<1> QED
  BY <1>1, <1>2, RestKeeps DEF Return, AllParts

\* Sleepers wake at the tick their wait ends at the latest.
LEMMA TickKeeps ==
  ASSUME AllParts, Tick
  PROVE  AllParts'
<1>1. /\ CallerTypes /\ ClockTypes /\ ClockInv
      /\ \A c \in Callers : CallerInv(c) /\ pc[c] \notin {"poll", "late", "acquire"}
  BY DEF Tick, AllParts, CallersOK
<1>2. /\ mono' = mono + 1 /\ wall' = wall + 1 /\ latest' = Max2(latest, wall + 1)
      /\ mono < MaxTime /\ wall < MaxWall
      /\ pc' = [c \in Callers |-> AfterTick(pc[c])]
      /\ UNCHANGED <<row, fallback, job, url, now, started, attempts, begun, leased,
                     calls, exits, forward, back>>
  BY DEF Tick
<1>3. ClockTypes' /\ ClockInv' /\ latest <= latest'
  BY <1>1, <1>2, RpcBudgetAssumption DEF ClockTypes, ClockInv, Max2
<1>4. CallerTypes'
  <2>1. pc' \in [Callers -> {"idle", "poll", "lease", "late", "asleep",
                             "acquire", "wait", "request"}]
    BY <1>1, <1>2 DEF CallerTypes, AfterTick
  <2>2. \A c \in Callers : now'[c] <= latest'
    BY <1>1, <1>2, <1>3 DEF CallerTypes, ClockTypes
  <2> QED
    BY <1>1, <1>2, <2>1, <2>2 DEF CallerTypes
<1>5. ASSUME NEW c \in Callers  PROVE CallerInv(c)'
  <2>1. /\ mono \in Int /\ wall \in Int /\ back \in Int /\ begun[c] \in Int
        /\ started[c] \in Int /\ MaxLeaseWait \in Nat /\ MaxAcquireWait \in Nat
    BY <1>1, RpcBudgetAssumption DEF CallerTypes, ClockTypes, Max2
  <2>2. /\ pc[c] \in {"idle", "lease", "asleep", "wait", "request"}
        /\ pc'[c] = AfterTick(pc[c])
    BY <1>1, <1>2 DEF CallerTypes
  <2> QED
    BY <1>1, <1>2, <2>1, <2>2 DEF CallerInv, AfterTick, Asking, Limited
<1>6. RowTypes' /\ BudgetInv'
  <2>1. ClockTypes /\ ClockTypes' /\ RowTypes /\ BudgetInv /\ UNCHANGED <<row, fallback>>
    BY <1>2, <1>3 DEF AllParts
  <2>2. back <= back'
    BY <1>1, <1>2 DEF ClockTypes
  <2> QED
    BY <1>3, <2>1, <2>2, ClockKeepsRows
<1>7. LimiterTypes'
  <2>1. tokens' = [p \in Procs |-> [b \in Buckets |->
                    Min2(LocalBurst[b], tokens[p][b] + LocalRate[b])]]
    BY DEF Tick
  <2>2. \A p \in Procs, b \in Buckets :
          Min2(LocalBurst[b], tokens[p][b] + LocalRate[b]) \in 0..LocalBurst[b]
    BY RpcBudgetAssumption DEF AllParts, LimiterTypes, Min2
  <2> QED
    BY <1>2, <2>1, <2>2 DEF AllParts, LimiterTypes
<1>8. CallersOK'
  BY <1>4, <1>5 DEF CallersOK
<1> QED
  BY <1>3, <1>6, <1>7, <1>8 DEF AllParts

\* What a step back of the clock takes from the wait, back gives.
LEMMA SetClockKeeps ==
  ASSUME AllParts, NEW d \in ClockSteps, SetClock(d)
  PROVE  AllParts'
<1>1. /\ CallerTypes /\ ClockTypes /\ ClockInv /\ d \in Int
      /\ \A c \in Callers : CallerInv(c)
  BY RpcBudgetAssumption DEF AllParts, CallersOK
<1>2. /\ wall + d \in 0..MaxWall /\ wall' = wall + d /\ latest' = Max2(latest, wall + d)
      /\ forward' = forward + (IF d > 0 THEN 1 ELSE 0)
      /\ back' = back + (IF d < 0 THEN -d ELSE 0)
      /\ UNCHANGED <<row, fallback, tokens, callerVars, mono, calls, exits>>
  BY DEF SetClock
<1>3. /\ forward' \in Nat /\ back' \in Nat /\ back <= back' /\ forward <= forward'
      /\ back' >= back - d /\ (d > 0 => forward' # 0)
  BY <1>1, <1>2 DEF ClockTypes
<1>4. ClockTypes' /\ latest <= latest'
  BY <1>1, <1>2, <1>3 DEF ClockTypes, Max2
<1>5. ClockInv'
  BY <1>1, <1>2, <1>3, RpcBudgetAssumption DEF ClockTypes, ClockInv, Max2
<1>6. CallerTypes'
  <2>1. \A c \in Callers : now[c] <= latest'
    BY <1>1, <1>4 DEF CallerTypes, ClockTypes
  <2> QED
    BY <1>1, <1>2, <2>1 DEF CallerTypes, callerVars
<1>7. ASSUME NEW c \in Callers  PROVE CallerInv(c)'
  <2>1. /\ mono \in Int /\ wall \in Int /\ back \in Int /\ begun[c] \in Int /\ Start \in Int
        /\ now[c] \in Int /\ started[c] \in Int /\ MaxLeaseWait \in Nat
    BY <1>1, RpcBudgetAssumption DEF CallerTypes, ClockTypes, Max2
  <2> QED
    BY <1>1, <1>2, <1>3, <2>1 DEF CallerInv, callerVars, Asking, Limited
<1>8. RowTypes' /\ BudgetInv'
  BY <1>2, <1>3, <1>4, ClockKeepsRows DEF AllParts
<1>9. LimiterTypes'
  BY <1>2 DEF AllParts, LimiterTypes
<1>10. CallersOK'
  BY <1>6, <1>7 DEF CallersOK
<1> QED
  BY <1>4, <1>5, <1>8, <1>9, <1>10 DEF AllParts

\* Every step keeps it.
LEMMA StepKeeps == AllParts /\ [Next]_vars => AllParts'
<1> SUFFICES ASSUME AllParts, [Next]_vars  PROVE AllParts'
  OBVIOUS
<1>1. CASE UNCHANGED vars
  BY <1>1 DEF AllParts, CallersOK, CallerTypes, CallerInv, ClockTypes, ClockInv, RowTypes,
              LimiterTypes, BudgetInv, GoodBucket, vars, callerVars, clockVars
<1>2. ASSUME NEW c \in Callers,
             \/ \E f \in Families \cap Menu[c] : CallRpc(c, f)
             \/ \E priority \in Menu[c] \ Families : CallJupiter(c, priority)
      PROVE  AllParts'
  <2>1. Menu[c] \subseteq Families \cup DOMAIN Reserved
    BY RpcBudgetAssumption
  <2> QED
    BY <1>2, <2>1, CallRpcKeeps, CallJupiterKeeps
<1>3. ASSUME NEW c \in Callers,
             \/ ReadNow(c) \/ Lease(c) \/ LeaseLocal(c) \/ Acquire(c) \/ AcquireWaits(c)
             \/ RetryRequest(c) \/ RequestFails(c) \/ Return(c)
      PROVE  AllParts'
  BY <1>3, ReadNowKeeps, LeaseKeeps, LeaseLocalKeeps, AcquireKeeps, AcquireWaitsKeeps,
     RetryRequestKeeps, RequestFailsKeeps, ReturnKeeps
<1>4. CASE Tick
  BY <1>4, TickKeeps
<1>5. CASE \E d \in ClockSteps : SetClock(d)
  BY <1>5, SetClockKeeps
<1> QED
  BY <1>1, <1>2, <1>3, <1>4, <1>5 DEF Next

\* The invariant: what callers have been let through to and how long they waited,
\* how old every bucket is and what it has given.
THEOREM RpcInvariant == Spec => []RpcFacts
<1>1. Init => AllParts
  BY FactsInitially
<1>2. AllParts /\ [Next]_vars => AllParts'
  BY StepKeeps
<1>3. AllParts => RpcFacts
  BY FactsAreParts
<1> QED
  BY <1>1, <1>2, <1>3, PTL DEF Spec

(***************************************************************************)
(* What follows from it.                                                    *)
(***************************************************************************)

\* However the clock is set and whoever calls, the state keeps to its types: no
\* bucket holds more than its burst or less than nothing.
THEOREM RpcTypeCorrect == Spec => []TypeOK
<1>1. RpcFacts => TypeOK
  BY DEF RpcFacts
<1> QED
  BY <1>1, RpcInvariant, PTL

\* leaseShared and leaseLocal of endpoint-budget.ts: no time the wall clock has
\* shown mints twice, in whatever order the processes bring the times they read.
THEOREM NoTimeMintsTwice == Spec => []ClockMintsOnce
<1>1. RpcFacts => ClockMintsOnce
  BY DEF RpcFacts, RpcInv, BudgetInv, GoodBucket, ClockMintsOnce
<1> QED
  BY <1>1, RpcInvariant, PTL

\* SolanaRpc.call: a refusal of the budget ends the call where it is; only a call
\* the primary endpoint was leased to goes on to the fallback.
THEOREM RefusalsStay == Spec => []RefusalStays
<1>1. RpcFacts => RefusalStays
  <2> SUFFICES ASSUME RpcFacts, NEW c \in Callers
               PROVE  /\ pc[c] # "idle" /\ url[c] = 2 => 1 \in leased[c]
                      /\ pc[c] = "request" /\ job[c].family # None => url[c] \in leased[c]
    BY DEF RefusalStays
  <2> QED
    BY DEF RpcFacts, RpcInv, CallerInv, Limited
<1> QED
  BY <1>1, RpcInvariant, PTL

\* awaitSharedBudget and acquire: a caller waits for its window, and beyond it only
\* for what the clock was set back by and one busy timeout of the database.
THEOREM WaitsAreBounded == Spec => []NobodyIsParked
<1>1. RpcFacts => NobodyIsParked
  <2> SUFFICES ASSUME RpcFacts, NEW c \in Callers
               PROVE  /\ pc[c] \in {"poll", "lease", "late", "asleep"} =>
                           mono - begun[c] <= MaxLeaseWait + back + 1
                      /\ pc[c] \in {"acquire", "wait"} => mono - begun[c] <= MaxAcquireWait
    BY DEF NobodyIsParked
  <2>1. CallerInv(c) /\ CallerTypes /\ ClockTypes
    BY TypeParts DEF RpcFacts, RpcInv
  <2>2. mono \in Int /\ back \in Int /\ begun[c] \in Int
    BY <2>1, RpcBudgetAssumption DEF CallerTypes, ClockTypes
  <2> QED
    BY <2>1, <2>2, RpcBudgetAssumption DEF CallerInv
<1> QED
  BY <1>1, RpcInvariant, PTL

\* Who is no exit leaves a token behind in a bucket of more than one.
LEMMA LessUrgentNeedTwo ==
  ASSUME NEW j \in Jobs, j.priority # "emergency_exit", LocalBurst[j.bucket] > 1
  PROVE  Need(j) >= 2
BY RpcBudgetAssumption DEF Need, Min2, Jobs, Reserved

\* RateLimiter.need: whatever the less urgent calls of a process do, they leave a
\* token to its first emergency exit.
THEOREM ExitsKeepTheirFloor == Spec => []ExitFloor
<1>1. Init => ExitFloor
  BY RpcBudgetAssumption DEF Init, ExitFloor
<1>2. RpcFacts /\ ExitFloor /\ [Next]_vars => ExitFloor'
  <2> SUFFICES ASSUME RpcFacts, ExitFloor, [Next]_vars  PROVE ExitFloor'
    OBVIOUS
  <2>1. LimiterTypes
    BY TypeParts DEF RpcFacts
  <2>2. CASE UNCHANGED <<tokens, exits>>
    BY <2>2 DEF ExitFloor
  <2>3. ASSUME NEW c \in Callers, Acquire(c)  PROVE ExitFloor'
    <3> DEFINE p == ProcOf[c]
               b == job[c].bucket
    <3>1. job[c] \in Jobs /\ p \in Procs /\ b \in Buckets
      BY <2>3, RpcBudgetAssumption DEF RpcFacts, RpcInv, CallerInv, Acquire, Jobs
    <3>2. /\ tokens' = [tokens EXCEPT ![p][b] = @ - 1] /\ tokens[p][b] >= Need(job[c])
          /\ exits' = IF job[c].priority = "emergency_exit"
                        THEN [exits EXCEPT ![p][b] = @ + 1] ELSE exits
      BY <2>3 DEF Acquire
    <3>3. \A q \in Procs, a \in Buckets :
            tokens'[q][a] = IF q = p /\ a = b THEN tokens[p][b] - 1 ELSE tokens[q][a]
      BY <3>1, <3>2, <2>1 DEF LimiterTypes
    <3>4. \A q \in Procs, a \in Buckets : q # p \/ a # b => exits'[q][a] = exits[q][a]
      BY <3>1, <3>2, <2>1 DEF LimiterTypes
    <3>5. tokens[p][b] \in Nat /\ exits[p][b] \in Nat /\ LocalBurst[b] \in Nat
      BY <3>1, <2>1, RpcBudgetAssumption DEF LimiterTypes
    <3>6. ASSUME LocalBurst[b] > 1  PROVE tokens'[p][b] + exits'[p][b] >= 1
      <4>1. CASE job[c].priority = "emergency_exit"
        <5>1. exits'[p][b] = exits[p][b] + 1
          BY <3>1, <3>2, <4>1, <2>1 DEF LimiterTypes
        <5>2. tokens[p][b] + exits[p][b] >= 1
          BY <3>1, <3>6 DEF ExitFloor
        <5> QED
          BY <3>1, <3>3, <3>5, <5>1, <5>2
      <4>2. CASE job[c].priority # "emergency_exit"
        <5>1. exits'[p][b] = exits[p][b]
          BY <3>2, <4>2
        <5>2. Need(job[c]) >= 2 /\ Need(job[c]) \in Nat
          BY <3>1, <3>6, <4>2, LessUrgentNeedTwo, RpcBudgetAssumption DEF Need, Min2, Jobs, Reserved
        <5> QED
          BY <3>1, <3>2, <3>3, <3>5, <5>1, <5>2
      <4> QED
        BY <4>1, <4>2
    <3> QED
      BY <3>3, <3>4, <3>6 DEF ExitFloor
  <2>4. CASE Tick
    <3>1. exits' = exits
      BY <2>4 DEF Tick
    <3>2. \A p \in Procs, b \in Buckets :
            tokens'[p][b] = Min2(LocalBurst[b], tokens[p][b] + LocalRate[b])
      BY <2>4 DEF Tick
    <3>3. \A p \in Procs, b \in Buckets : tokens[p][b] <= tokens'[p][b]
      BY <3>2, <2>1, RpcBudgetAssumption DEF LimiterTypes, Min2
    <3>4. \A p \in Procs, b \in Buckets :
            tokens[p][b] \in Int /\ tokens'[p][b] \in Int /\ exits[p][b] \in Int
      BY <3>2, <2>1, RpcBudgetAssumption DEF LimiterTypes, Min2
    <3> QED
      BY <3>1, <3>3, <3>4 DEF ExitFloor
  <2>5. \/ UNCHANGED <<tokens, exits>> \/ Tick \/ \E c \in Callers : Acquire(c)
    BY DEF Next, vars, CallRpc, CallJupiter, ReadNow, Lease, LeaseLocal, AcquireWaits,
           RetryRequest, RequestFails, Return, SetClock
  <2> QED
    BY <2>2, <2>3, <2>4, <2>5
<1> QED
  BY <1>1, <1>2, RpcInvariant, PTL DEF Spec

(***************************************************************************)
(* What the clock is worth. A time counts once it has been shown, and some    *)
(* caller may still hold one that it read before the clock was set. S says    *)
(* for each time what the times up to it have been worth to a bucket: a tick  *)
(* is worth its gain, a step forward one burst, and a step back gives for the *)
(* times it shows again what it took.                                         *)
(***************************************************************************)

\* What a bucket can gain in n ticks.
Earn(s, n) == Min2(s.cap, s.gain * n)

Rising(S) ==
  S \in [0..MaxWall -> Int] /\ \A x, y \in 0..MaxWall : x <= y => S[x] <= S[y]

\* Time t is paid for: a bucket refilled at any time before it finds in S what it
\* gains by t.
Pays(S, s, t) == S[t] >= 0 /\ \A x \in 0..t : S[x] + Earn(s, t - x) <= S[t]

\* What a bucket has given and still holds has been paid for.
PaidFor(S, s, b) == s.cost * b.granted + b.tokens <= s.cap + S[b.refill]

\* The times a caller may still bring to a bucket.
Readable == {wall} \cup {now[c] : c \in {d \in Callers : pc[d] \in {"lease", "late"}}}

Credit(s, Bs) ==
  \E S : /\ Rising(S) /\ \A t \in Readable : Pays(S, s, t)
         /\ S[MaxWall] <= s.cap * forward + s.gain * (mono + back)
         /\ \A b \in Bs : PaidFor(S, s, b)

SharedBuckets(x) == {row[u][x] : u \in Urls} \ {None}
LocalBuckets(f) == {fallback[p][u][f] : p \in Procs, u \in Urls} \ {None}

\* The credit of each kind of bucket lasts, and covers all buckets of the kind.
CreditInv ==
  /\ \A x \in Rows : Credit(SharedSpec(x), SharedBuckets(x))
  /\ \A f \in Families : Credit(LocalSpec(f), LocalBuckets(f))

\* Nothing is gained in no time, never more than the burst, and what two stretches
\* of time are worth together is at most what each of them is worth.
LEMMA EarnFacts ==
  ASSUME NEW s, IsSpec(s)
  PROVE  /\ Earn(s, 0) = 0
         /\ \A n \in Nat : Earn(s, n) \in Nat /\ Earn(s, n) <= s.cap
         /\ \A n \in Nat : s.gain * n \in Nat /\ Earn(s, n) <= s.gain * n
         /\ \A m, n \in Nat : Earn(s, m + n) <= Earn(s, m) + s.gain * n
         /\ \A m, n \in Nat : Earn(s, m + n) <= Earn(s, m) + Earn(s, n)
         /\ \A m, n \in Nat : Earn(s, m) <= Earn(s, m + n)
<1>1. PICK g \in Nat : g = s.gain
  BY DEF IsSpec
<1>2. s.cap \in Nat /\ g * 0 = 0
  BY <1>1 DEF IsSpec
<1>3. \A m, n \in Nat : g * m \in Nat /\ g * n \in Nat /\ g * (m + n) = g * m + g * n
  BY <1>1
<1>4. \A n \in Nat : Earn(s, n) = Min2(s.cap, g * n)
  BY <1>1 DEF Earn
<1>5. \A n \in Nat : Earn(s, n) \in Nat /\ Earn(s, n) <= s.cap /\ Earn(s, n) <= g * n
  BY <1>2, <1>3, <1>4 DEF Min2
<1>6. Earn(s, 0) = 0
  BY <1>2, <1>4 DEF Min2
<1>7. ASSUME NEW m \in Nat, NEW n \in Nat
      PROVE  /\ Earn(s, m + n) <= Earn(s, m) + g * n
             /\ Earn(s, m + n) <= Earn(s, m) + Earn(s, n)
             /\ Earn(s, m) <= Earn(s, m + n)
  <2>1. /\ Earn(s, m + n) = Min2(s.cap, g * m + g * n)
        /\ Earn(s, m) = Min2(s.cap, g * m) /\ Earn(s, n) = Min2(s.cap, g * n)
    BY <1>3, <1>4
  <2>2. PICK a \in Nat : a = g * m
    BY <1>3
  <2>3. PICK b \in Nat : b = g * n
    BY <1>3
  <2> QED
    BY <1>2, <2>1, <2>2, <2>3 DEF Min2
<1> QED
  BY <1>1, <1>3, <1>5, <1>6, <1>7

\* A tick is worth its gain.
LEMMA TickPays ==
  ASSUME NEW s, IsSpec(s), NEW S, Rising(S), NEW T \in SUBSET (0..MaxWall),
         \A t \in T : Pays(S, s, t), NEW w \in T, w + 1 <= MaxWall
  PROVE  \E Z : /\ Rising(Z) /\ \A x \in 0..MaxWall : S[x] <= Z[x]
                /\ Z[MaxWall] <= S[MaxWall] + s.gain
                /\ \A t \in T \cup {w + 1} : Pays(Z, s, t)
<1> DEFINE Z == [x \in 0..MaxWall |-> IF x > w THEN S[x] + s.gain ELSE S[x]]
<1>1. /\ MaxWall \in Nat /\ s.gain \in Nat /\ w \in Nat /\ w \in 0..MaxWall
      /\ \A x \in 0..MaxWall : S[x] \in Int
  BY RpcBudgetAssumption DEF IsSpec, Rising
<1>2. \A x \in 0..MaxWall : Z[x] = IF x > w THEN S[x] + s.gain ELSE S[x]
  OBVIOUS
<1>3. Z \in [0..MaxWall -> Int]
  BY <1>1
<1> HIDE DEF Z
<1>4. Rising(Z)
  <2>1. ASSUME NEW x \in 0..MaxWall, NEW y \in 0..MaxWall, x <= y
        PROVE  Z[x] <= Z[y]
    <3>1. S[x] <= S[y]
      BY <2>1 DEF Rising
    <3> QED
      BY <1>1, <1>2, <2>1, <3>1
  <2> QED
    BY <1>3, <2>1 DEF Rising
<1>5. \A x \in 0..MaxWall : S[x] <= Z[x]
  BY <1>1, <1>2
<1>6. MaxWall \in 0..MaxWall /\ Z[MaxWall] <= S[MaxWall] + s.gain
  BY <1>1, <1>2
<1>7. ASSUME NEW t \in T
      PROVE  Pays(Z, s, t)
  <2>1. t \in 0..MaxWall /\ Pays(S, s, t)
    OBVIOUS
  <2>2. ASSUME NEW x \in 0..t
        PROVE  x \in 0..MaxWall /\ Earn(s, t - x) \in Nat
    <3>1. x \in 0..MaxWall /\ t - x \in Nat
      BY <1>1, <2>1
    <3> QED
      BY <3>1, EarnFacts
  <2>3. Z[t] >= 0
    BY <1>1, <1>2, <2>1 DEF Pays
  <2>4. ASSUME NEW x \in 0..t
        PROVE  Z[x] + Earn(s, t - x) <= Z[t]
    <3>1. S[x] + Earn(s, t - x) <= S[t]
      BY <2>1 DEF Pays
    <3> QED
      BY <1>1, <1>2, <2>1, <2>2, <3>1
  <2> QED
    BY <2>3, <2>4 DEF Pays
<1>8. Pays(Z, s, w + 1)
  <2>1. w + 1 \in 0..MaxWall /\ Pays(S, s, w) /\ S[w] <= S[w + 1]
    BY <1>1 DEF Rising
  <2>2. Z[w + 1] = S[w + 1] + s.gain
    BY <1>1, <1>2, <2>1
  <2>3. Z[w + 1] >= 0
    BY <1>1, <2>1, <2>2 DEF Pays
  <2>4. ASSUME NEW x \in 0..(w + 1)
        PROVE  Z[x] + Earn(s, (w + 1) - x) <= Z[w + 1]
    <3>1. CASE x = w + 1
      <4>1. Earn(s, (w + 1) - x) = 0
        BY <1>1, <3>1, EarnFacts
      <4> QED
        BY <1>1, <2>1, <2>2, <3>1, <4>1
    <3>2. CASE x # w + 1
      <4>1. x \in 0..w /\ x \in 0..MaxWall /\ w - x \in Nat /\ (w + 1) - x = (w - x) + 1
        BY <1>1, <3>2
      <4>2. Earn(s, (w - x) + 1) <= Earn(s, w - x) + s.gain * 1
        BY <4>1, EarnFacts
      <4>3. Earn(s, w - x) \in Nat /\ Earn(s, (w - x) + 1) \in Nat /\ s.gain * 1 = s.gain
        <5>1. w - x \in Nat /\ (w - x) + 1 \in Nat
          BY <4>1
        <5>2. s.gain * 1 = s.gain
          BY <1>1
        <5> QED
          BY <5>1, <5>2, EarnFacts
      <4>4. S[x] + Earn(s, w - x) <= S[w]
        BY <2>1, <4>1 DEF Pays
      <4>5. Z[x] = S[x]
        BY <1>1, <1>2, <4>1
      <4> QED
        BY <1>1, <2>1, <2>2, <4>1, <4>2, <4>3, <4>4, <4>5
    <3> QED
      BY <3>1, <3>2
  <2> QED
    BY <2>3, <2>4 DEF Pays
<1> QED
  BY <1>4, <1>5, <1>6, <1>7, <1>8

\* A step forward is worth one burst at the time it shows.
LEMMA ForwardPays ==
  ASSUME NEW s, IsSpec(s), NEW S, Rising(S), NEW T \in SUBSET (0..MaxWall),
         \A t \in T : Pays(S, s, t), NEW w \in T, NEW v \in 0..MaxWall, w < v
  PROVE  \E Z : /\ Rising(Z) /\ \A x \in 0..MaxWall : S[x] <= Z[x]
                /\ Z[MaxWall] <= S[MaxWall] + s.cap
                /\ \A t \in T \cup {v} : Pays(Z, s, t)
<1> DEFINE Z == [x \in 0..MaxWall |-> IF x >= v THEN S[x] + s.cap ELSE S[x]]
<1>1. /\ MaxWall \in Nat /\ s.cap \in Nat /\ v \in Nat /\ w \in 0..MaxWall
      /\ \A x \in 0..MaxWall : S[x] \in Int
  BY RpcBudgetAssumption DEF IsSpec, Rising
<1>2. \A x \in 0..MaxWall : Z[x] = IF x >= v THEN S[x] + s.cap ELSE S[x]
  OBVIOUS
<1>3. Z \in [0..MaxWall -> Int]
  BY <1>1
<1> HIDE DEF Z
<1>4. Rising(Z)
  <2>1. ASSUME NEW x \in 0..MaxWall, NEW y \in 0..MaxWall, x <= y
        PROVE  Z[x] <= Z[y]
    <3>1. S[x] <= S[y]
      BY <2>1 DEF Rising
    <3> QED
      BY <1>1, <1>2, <2>1, <3>1
  <2> QED
    BY <1>3, <2>1 DEF Rising
<1>5. \A x \in 0..MaxWall : S[x] <= Z[x]
  BY <1>1, <1>2
<1>6. MaxWall \in 0..MaxWall /\ Z[MaxWall] <= S[MaxWall] + s.cap
  BY <1>1, <1>2
<1>7. ASSUME NEW t \in T
      PROVE  Pays(Z, s, t)
  <2>1. t \in 0..MaxWall /\ Pays(S, s, t)
    OBVIOUS
  <2>2. ASSUME NEW x \in 0..t
        PROVE  x \in 0..MaxWall /\ Earn(s, t - x) \in Nat
    <3>1. x \in 0..MaxWall /\ t - x \in Nat
      BY <1>1, <2>1
    <3> QED
      BY <3>1, EarnFacts
  <2>3. Z[t] >= 0
    BY <1>1, <1>2, <2>1 DEF Pays
  <2>4. ASSUME NEW x \in 0..t
        PROVE  Z[x] + Earn(s, t - x) <= Z[t]
    <3>1. S[x] + Earn(s, t - x) <= S[t]
      BY <2>1 DEF Pays
    <3> QED
      BY <1>1, <1>2, <2>1, <2>2, <3>1
  <2> QED
    BY <2>3, <2>4 DEF Pays
<1>8. Pays(Z, s, v)
  <2>1. S[v] >= S[w] /\ S[w] >= 0 /\ Z[v] = S[v] + s.cap
    BY <1>1, <1>2 DEF Rising, Pays
  <2>2. ASSUME NEW x \in 0..v
        PROVE  Z[x] + Earn(s, v - x) <= Z[v]
    <3>0. x \in 0..MaxWall /\ v - x \in Nat /\ x <= v
      BY <1>1
    <3>1. /\ x \in 0..MaxWall /\ S[x] <= S[v]
          /\ Earn(s, v - x) \in Nat /\ Earn(s, v - x) <= s.cap /\ Earn(s, 0) = 0
      BY <3>0, EarnFacts DEF Rising
    <3>2. CASE x = v
      <4>1. v - x = 0
        BY <1>1, <3>2
      <4> QED
        BY <1>1, <2>1, <3>1, <3>2, <4>1
    <3>3. CASE x # v
      <4>1. Z[x] = S[x]
        BY <1>1, <1>2, <3>1, <3>3
      <4> QED
        BY <1>1, <2>1, <3>1, <4>1
    <3> QED
      BY <3>2, <3>3
  <2> QED
    BY <1>1, <2>1, <2>2 DEF Pays
<1> QED
  BY <1>4, <1>5, <1>6, <1>7, <1>8

\* A step back gives for the times it will show again what it took, and the time
\* it shows is worth what the time it left was worth.
LEMMA BackPays ==
  ASSUME NEW s, IsSpec(s), NEW S, Rising(S), NEW T \in SUBSET (0..MaxWall),
         \A t \in T : Pays(S, s, t), NEW w \in T, NEW v \in 0..MaxWall, v < w
  PROVE  \E Z : /\ Rising(Z) /\ \A x \in 0..MaxWall : S[x] <= Z[x]
                /\ Z[MaxWall] <= S[MaxWall] + s.gain * (w - v)
                /\ \A t \in T \cup {v} : Pays(Z, s, t)
<1> DEFINE Z == [x \in 0..MaxWall |->
                  IF x < v THEN S[x]
                  ELSE IF x <= w THEN S[w] + s.gain * (x - v)
                  ELSE S[x] + s.gain * (w - v)]
<1>1. /\ MaxWall \in Nat /\ MaxWall \in 0..MaxWall /\ v \in Nat /\ w \in 0..MaxWall
      /\ w - v \in Nat /\ \A x \in 0..MaxWall : S[x] \in Int
  BY RpcBudgetAssumption DEF Rising
<1>2. PICK g \in [Nat -> Nat] : \A n \in Nat : g[n] = s.gain * n
  <2>1. [n \in Nat |-> s.gain * n] \in [Nat -> Nat]
    BY EarnFacts
  <2> QED
    BY <2>1
<1>3. \A m, n \in Nat : g[m + n] = g[m] + g[n]
  BY <1>2 DEF IsSpec
<1>4. \A m, n \in Nat : m <= n => g[m] <= g[n]
  <2> SUFFICES ASSUME NEW m \in Nat, NEW n \in Nat, m <= n
               PROVE  g[m] <= g[n]
    OBVIOUS
  <2>1. n - m \in Nat /\ n = m + (n - m)
    OBVIOUS
  <2>2. g[n] = g[m] + g[n - m]
    BY <1>3, <2>1
  <2> QED
    BY <2>1, <2>2
<1>5. \A x \in 0..MaxWall :
        Z[x] = IF x < v THEN S[x]
               ELSE IF x <= w THEN S[w] + g[x - v] ELSE S[x] + g[w - v]
  BY <1>1, <1>2
<1>6. Z = [x \in 0..MaxWall |-> Z[x]]
  OBVIOUS
<1> HIDE DEF Z
<1>7. ASSUME NEW x \in 0..MaxWall
      PROVE  /\ x < v => Z[x] = S[x] /\ S[x] <= S[w]
             /\ v <= x /\ x <= w =>
                  /\ x - v \in Nat /\ g[x - v] \in Nat /\ Z[x] = S[w] + g[x - v]
                  /\ g[x - v] <= g[w - v] /\ S[x] <= S[w]
             /\ w < x => Z[x] = S[x] + g[w - v] /\ S[w] <= S[x]
  <2>1. (x <= w => S[x] <= S[w]) /\ (w <= x => S[w] <= S[x])
    BY <1>1 DEF Rising
  <2>2. v <= x /\ x <= w => x - v \in Nat /\ x - v <= w - v
    BY <1>1
  <2>3. v <= x /\ x <= w => g[x - v] \in Nat /\ g[x - v] <= g[w - v]
    BY <1>1, <1>4, <2>2
  <2> QED
    BY <1>1, <1>5, <2>1, <2>2, <2>3
<1>8. g[w - v] \in Nat
  BY <1>1
<1>9. \A x \in 0..MaxWall : Z[x] \in Int /\ S[x] <= Z[x]
  BY <1>1, <1>7, <1>8
<1>10. Rising(Z)
  <2>1. Z \in [0..MaxWall -> Int]
    BY <1>6, <1>9
  <2>2. ASSUME NEW x \in 0..MaxWall, NEW y \in 0..MaxWall, x <= y
        PROVE  Z[x] <= Z[y]
    <3>1. S[x] <= S[y]
      BY <2>2 DEF Rising
    <3>2. v <= x /\ y <= w => g[x - v] <= g[y - v]
      BY <1>1, <1>4, <2>2
    <3> QED
      BY <1>1, <1>7, <1>8, <2>2, <3>1, <3>2
  <2> QED
    BY <2>1, <2>2 DEF Rising
<1>11. Z[MaxWall] <= S[MaxWall] + s.gain * (w - v)
  <2>1. Z[MaxWall] <= S[MaxWall] + g[w - v]
    BY <1>1, <1>7, <1>8
  <2> QED
    BY <1>1, <1>2, <2>1
<1>12. \A m, n \in Nat :
         /\ Earn(s, m + n) <= Earn(s, m) + g[n] /\ Earn(s, m) \in Nat /\ Earn(s, m) <= g[m]
         /\ Earn(s, m) <= Earn(s, m + n)
  <2>1. ASSUME NEW m \in Nat, NEW n \in Nat
        PROVE  /\ Earn(s, m + n) <= Earn(s, m) + s.gain * n
               /\ Earn(s, m) \in Nat /\ Earn(s, m) <= s.gain * m
               /\ Earn(s, m) <= Earn(s, m + n)
    BY EarnFacts
  <2>2. \A n \in Nat : g[n] = s.gain * n
    BY <1>2
  <2> QED
    BY ONLY <2>1, <2>2
<1>13. Pays(S, s, w)
  OBVIOUS
<1>14. ASSUME NEW t \in 0..MaxWall, t = v \/ t \in T, NEW x \in 0..t
       PROVE  Z[x] + Earn(s, t - x) <= Z[t]
  <2>1. x \in 0..MaxWall /\ t - x \in Nat /\ Earn(s, t - x) \in Nat
    <3>1. x \in 0..MaxWall /\ t - x \in Nat
      BY <1>1
    <3> QED
      BY <1>12, <3>1
  <2>2. CASE t < v
    <3>1. S[x] + Earn(s, t - x) <= S[t]
      BY <1>1, <1>14, <2>2 DEF Pays
    <3> QED
      BY <1>1, <1>7, <2>1, <2>2, <3>1
  <2>3. CASE v <= t /\ t <= w /\ x < v
    <3>1. x \in 0..w /\ w - x \in Nat /\ S[x] + Earn(s, w - x) <= S[w]
      BY <1>1, <1>13, <2>3 DEF Pays
    <3>2. Earn(s, t - x) <= Earn(s, w - x)
      <4>1. w - t \in Nat /\ w - x = (t - x) + (w - t)
        BY <1>1, <2>1, <2>3
      <4> QED
        BY <1>12, <2>1, <4>1
    <3>3. Earn(s, w - x) \in Nat
      BY <1>12, <3>1
    <3> QED
      BY <1>1, <1>7, <2>1, <2>3, <3>1, <3>2, <3>3
  <2>4. CASE t <= w /\ v <= x
    <3>1. x - v \in Nat /\ t - v = (x - v) + (t - x) /\ x <= w /\ v <= t
      BY <1>1, <2>1, <2>4
    <3>2. g[t - v] = g[x - v] + g[t - x]
      BY <1>3, <2>1, <3>1
    <3>3. Earn(s, t - x) <= g[t - x] /\ g[t - x] \in Nat
      BY <1>12, <2>1
    <3> QED
      BY <1>1, <1>7, <2>1, <2>4, <3>1, <3>2, <3>3
  <2>5. CASE w < t /\ (x < v \/ w < x)
    <3>1. S[x] + Earn(s, t - x) <= S[t]
      BY <1>1, <1>14, <2>5 DEF Pays
    <3> QED
      BY <1>1, <1>7, <1>8, <2>1, <2>5, <3>1
  <2>6. CASE w < t /\ v <= x /\ x <= w
    <3>1. /\ w \in 0..t /\ t - w \in Nat /\ w - x \in Nat /\ x - v \in Nat
          /\ t - x = (t - w) + (w - x) /\ w - v = (x - v) + (w - x)
      BY <1>1, <2>1, <2>6
    <3>2. S[w] + Earn(s, t - w) <= S[t]
      BY <1>1, <1>14, <2>6, <3>1 DEF Pays
    <3>3. Earn(s, t - x) <= Earn(s, t - w) + g[w - x] /\ g[w - v] = g[x - v] + g[w - x]
      BY <1>3, <1>12, <3>1
    <3>4. Earn(s, t - w) \in Nat /\ g[w - x] \in Nat /\ g[x - v] \in Nat
      BY <1>12, <3>1
    <3> QED
      BY <1>1, <1>7, <2>1, <2>6, <3>2, <3>3, <3>4
  <2> QED
    BY <1>1, <2>1, <2>2, <2>3, <2>4, <2>5, <2>6
<1>15. ASSUME NEW t \in T \cup {v}
       PROVE  Pays(Z, s, t)
  <2>1. t \in 0..MaxWall /\ (t = v \/ t \in T)
    OBVIOUS
  <2>2. Z[t] >= 0
    <3>1. CASE t \in T
      BY <1>1, <1>9, <2>1, <3>1 DEF Pays
    <3>2. CASE t = v
      <4>1. Z[v] = S[w] + g[v - v] /\ g[v - v] \in Nat /\ S[w] >= 0
        BY <1>1, <1>7, <1>13 DEF Pays
      <4> QED
        BY <1>1, <3>2, <4>1
    <3> QED
      BY <2>1, <3>1, <3>2
  <2> QED
    BY <1>14, <2>1, <2>2 DEF Pays
<1> QED
  BY <1>9, <1>10, <1>11, <1>15

\* A refill takes what is paid for, and so does a debit.
LEMMA LoadedIsPaid ==
  ASSUME NEW s, IsSpec(s), NEW S, Rising(S), NEW t \in 0..MaxWall, Pays(S, s, t),
         NEW b, b # None => b \in Bucket(s) /\ PaidFor(S, s, b)
  PROVE  PaidFor(S, s, Loaded(b, s, t))
<1>1. s.cap \in Nat /\ S[t] >= 0 /\ S[t] \in Int
  BY DEF IsSpec, Rising, Pays
<1>2. CASE b = None
  <2>1. /\ Loaded(b, s, t).granted = 0 /\ Loaded(b, s, t).tokens = s.cap
        /\ Loaded(b, s, t).refill = t
    BY <1>2 DEF Loaded, Refilled
  <2>2. s.cost * 0 = 0
    BY DEF IsSpec
  <2> QED
    BY <1>1, <2>1, <2>2 DEF PaidFor
<1>3. CASE b # None /\ t <= b.refill
  BY <1>3 DEF Loaded, Refilled
<1>4. CASE b # None /\ ~(t <= b.refill)
  <2>1. /\ b.tokens \in 0..s.cap /\ b.refill \in 0..MaxWall /\ b.granted \in Nat
        /\ s.cost * b.granted + b.tokens <= s.cap + S[b.refill]
    BY <1>4 DEF Bucket, PaidFor
  <2>2. /\ Loaded(b, s, t).granted = b.granted /\ Loaded(b, s, t).refill = t
        /\ Loaded(b, s, t).tokens = Min2(s.cap, b.tokens + s.gain * (t - b.refill))
    BY <1>4 DEF Loaded, Refilled, Bucket
  <2>3. PICK r \in 0..t : r = b.refill
    BY <1>4, <2>1
  <2>4. r \in 0..MaxWall /\ S[r] \in Int /\ S[r] + Earn(s, t - r) <= S[t]
    BY <2>1, <2>3 DEF Pays, Rising
  <2>5. PICK e \in Nat : e = s.gain * (t - r)
    <3>1. t - r \in Nat
      BY <2>3
    <3> QED
      BY <3>1 DEF IsSpec
  <2>6. Earn(s, t - r) = Min2(s.cap, e)
    BY <2>5 DEF Earn
  <2>7. Min2(s.cap, b.tokens + e) <= b.tokens + Min2(s.cap, e) /\ Min2(s.cap, e) \in Int
        /\ Min2(s.cap, b.tokens + e) \in Int
    BY <1>1, <2>1 DEF Min2
  <2>8. PICK k \in Int : k = s.cost * b.granted
    BY <2>1 DEF IsSpec
  <2>9. k + Min2(s.cap, b.tokens + e) <= s.cap + S[t]
    BY <1>1, <2>1, <2>3, <2>4, <2>6, <2>7, <2>8
  <2> QED
    BY <2>2, <2>3, <2>5, <2>8, <2>9 DEF PaidFor
<1> QED
  BY <1>2, <1>3, <1>4

LEMMA DebitedIsPaid ==
  ASSUME NEW s, IsSpec(s), NEW S, Rising(S), NEW b \in Bucket(s), PaidFor(S, s, b)
  PROVE  PaidFor(S, s, Debited(b, s))
<1>1. /\ Debited(b, s).tokens = b.tokens - s.cost /\ Debited(b, s).granted = b.granted + 1
      /\ Debited(b, s).refill = b.refill
  BY DEF Debited, Bucket
<1>2. b.tokens \in Int /\ b.granted \in Nat /\ s.cost \in Nat
  BY DEF Bucket, IsSpec
<1>3. s.cost * (b.granted + 1) = s.cost * b.granted + s.cost /\ s.cost * b.granted \in Int
  BY <1>2
<1>4. S[b.refill] \in Int /\ s.cap \in Int
  BY DEF Rising, Bucket, IsSpec
<1> QED
  BY <1>1, <1>2, <1>3, <1>4 DEF PaidFor

\* Every time a caller may bring has been shown.
LEMMA ReadableShown ==
  ASSUME AllParts
  PROVE  /\ Readable \in SUBSET (0..MaxWall) /\ wall \in Readable
         /\ \A c \in Callers : pc[c] \in {"lease", "late"} => now[c] \in Readable
  BY DEF AllParts, CallersOK, CallerTypes, ClockTypes, Readable

\* A caller that does not read the clock brings no new time.
LEMMA ReadableStays ==
  ASSUME CallerTypes, NEW c \in Callers, NEW v, pc' = [pc EXCEPT ![c] = v], wall' = wall,
         \/ v \notin {"lease", "late"} /\ (now' = now \/ now' = [now EXCEPT ![c] = 0])
         \/ now' = [now EXCEPT ![c] = wall]
  PROVE  Readable' \subseteq Readable
<1>1. ASSUME NEW d \in Callers, pc'[d] \in {"lease", "late"}
      PROVE  now'[d] \in Readable
  <2>1. CASE d = c
    BY <1>1, <2>1 DEF CallerTypes, Readable
  <2>2. CASE d # c
    <3>1. pc'[d] = pc[d] /\ now'[d] = now[d]
      BY <2>2 DEF CallerTypes
    <3> QED
      BY <1>1, <3>1 DEF Readable
  <2> QED
    BY <2>1, <2>2
<1>2. wall' \in Readable
  BY DEF Readable
<1> QED
  BY <1>1, <1>2 DEF Readable

\* No step of a caller brings a time that could not be brought before.
LEMMA CallersReadNothingNew ==
  ASSUME AllParts, NEW c \in Callers,
         \/ \E f \in Families \cap Menu[c] : CallRpc(c, f)
         \/ \E priority \in Menu[c] \ Families : CallJupiter(c, priority)
         \/ ReadNow(c) \/ Lease(c) \/ LeaseLocal(c) \/ Acquire(c) \/ AcquireWaits(c)
         \/ RetryRequest(c) \/ RequestFails(c) \/ Return(c)
  PROVE  UNCHANGED clockVars /\ Readable' \subseteq Readable
<1>1. UNCHANGED clockVars
  BY DEF CallRpc, CallJupiter, ReadNow, Lease, LeaseLocal, Acquire, AcquireWaits,
     RetryRequest, RequestFails, Return
<1>2. CallerTypes /\ wall' = wall
  BY <1>1 DEF AllParts, CallersOK, clockVars
<1> DEFINE To(v) == /\ pc' = [pc EXCEPT ![c] = v]
                    /\ v \notin {"lease", "late"}
                    /\ now' = now \/ now' = [now EXCEPT ![c] = 0]
           Quiet == \E v : To(v)
<1>3. Idle(c) => Quiet
  <2> SUFFICES ASSUME Idle(c)
               PROVE  Quiet
    OBVIOUS
  <2>1. pc' = [pc EXCEPT ![c] = "idle"] /\ now' = [now EXCEPT ![c] = 0]
    BY DEF Idle
  <2>2. To("idle")
    BY <2>1
  <2> HIDE DEF To
  <2> QED
    BY <2>2
<1>4. (\E u : AskFor(c, u)) /\ now' = now => Quiet
  BY DEF AskFor
<1>5. AskLimiter(c) /\ (now' = now \/ now' = [now EXCEPT ![c] = 0]) => Quiet
  BY DEF AskLimiter
<1>6. FailOver(c) => Quiet
  BY <1>3, <1>4 DEF FailOver
<1>7. Granted(c) => Quiet
  BY <1>5 DEF Granted
<1>8. \A w : Refused(c, w) => Quiet
  BY <1>3 DEF Refused
<1>9. (\E f \in Families \cap Menu[c] : CallRpc(c, f)) => Quiet
  BY <1>4 DEF CallRpc
<1>10. (\E priority \in Menu[c] \ Families : CallJupiter(c, priority)) => Quiet
  BY <1>5 DEF CallJupiter
<1>11. Lease(c) => Quiet
  BY <1>7, <1>8 DEF Lease
<1>12. LeaseLocal(c) => Quiet
  BY <1>7, <1>8 DEF LeaseLocal
<1>13. Acquire(c) => Quiet
  BY DEF Acquire
<1>14. AcquireWaits(c) => Quiet
  <2> SUFFICES ASSUME AcquireWaits(c)
               PROVE  Quiet
    OBVIOUS
  <2>1. FailOver(c) \/ (pc' = [pc EXCEPT ![c] = "wait"] /\ now' = now)
    BY DEF AcquireWaits
  <2> QED
    BY <1>6, <2>1
<1>15. RetryRequest(c) => Quiet
  BY <1>5 DEF RetryRequest
<1>16. RequestFails(c) \/ Return(c) => Quiet
  BY <1>3, <1>6 DEF RequestFails, Return
<1>17. ReadNow(c) => Readable' \subseteq Readable
  BY <1>2, ReadableStays DEF ReadNow
<1>18. Quiet => Readable' \subseteq Readable
  BY <1>2, ReadableStays
<1> HIDE DEF Quiet
<1> QED
  BY <1>1, <1>9, <1>10, <1>11, <1>12, <1>13, <1>14, <1>15, <1>16, <1>17, <1>18

\* While the clock stands, the credit lasts for what is bought with it.
LEMMA CreditStands ==
  ASSUME NEW s, NEW Bs, NEW Cs, Credit(s, Bs),
         UNCHANGED clockVars, Readable' \subseteq Readable,
         \A S : Rising(S) /\ (\A t \in Readable : Pays(S, s, t)) /\ (\A b \in Bs : PaidFor(S, s, b))
                  => \A b \in Cs : PaidFor(S, s, b)
  PROVE  \E S : /\ Rising(S) /\ \A t \in Readable' : Pays(S, s, t)
                /\ S[MaxWall] <= s.cap * forward' + s.gain * (mono' + back')
                /\ \A b \in Cs : PaidFor(S, s, b)
<1>1. PICK S : /\ Rising(S) /\ \A t \in Readable : Pays(S, s, t)
               /\ S[MaxWall] <= s.cap * forward + s.gain * (mono + back)
               /\ \A b \in Bs : PaidFor(S, s, b)
  BY DEF Credit
<1>2. \A b \in Cs : PaidFor(S, s, b)
  BY <1>1
<1>3. \A t \in Readable' : Pays(S, s, t)
  BY <1>1
<1>4. S[MaxWall] <= s.cap * forward' + s.gain * (mono' + back')
  BY <1>1 DEF clockVars
<1> QED
  BY <1>1, <1>2, <1>3, <1>4

\* When the clock runs or is set, the credit grows by what that is worth.
LEMMA CreditGrows ==
  ASSUME AllParts, Tick \/ (\E d \in ClockSteps : SetClock(d)),
         NEW s, IsSpec(s), NEW Bs, Bs \subseteq Bucket(s), Credit(s, Bs)
  PROVE  \E S : /\ Rising(S) /\ \A t \in Readable' : Pays(S, s, t)
                /\ S[MaxWall] <= s.cap * forward' + s.gain * (mono' + back')
                /\ \A b \in Bs : PaidFor(S, s, b)
<1>1. PICK S : /\ Rising(S) /\ \A t \in Readable : Pays(S, s, t)
               /\ S[MaxWall] <= s.cap * forward + s.gain * (mono + back)
               /\ \A b \in Bs : PaidFor(S, s, b)
  BY DEF Credit
<1>2. PICK T \in SUBSET (0..MaxWall) : T = Readable
  BY ReadableShown
<1>3. PICK w \in T : w = wall
  BY <1>2, ReadableShown
<1>4. /\ \A t \in T : Pays(S, s, t)
      /\ mono \in Nat /\ back \in Nat /\ forward \in Nat /\ MaxWall \in Nat
      /\ s.cap \in Nat /\ s.gain \in Nat /\ MaxWall \in 0..MaxWall /\ w \in 0..MaxWall
  BY <1>1, <1>2, RpcBudgetAssumption DEF AllParts, ClockTypes, IsSpec
<1>5. /\ S[MaxWall] \in Int
      /\ \A m, n \in Nat : s.gain * (m + n) = s.gain * m + s.gain * n /\ s.gain * m \in Nat
  BY <1>1, <1>4 DEF Rising
<1> DEFINE Limit(f, n) == s.cap * f + s.gain * n
<1>6. ASSUME NEW v \in 0..MaxWall, Readable' \subseteq T \cup {v},
             NEW n \in Int, Limit(forward, mono + back) + n <= Limit(forward', mono' + back'),
             NEW Z, Rising(Z), \A x \in 0..MaxWall : S[x] <= Z[x],
             Z[MaxWall] <= S[MaxWall] + n, \A t \in T \cup {v} : Pays(Z, s, t),
             Limit(forward', mono' + back') \in Int, Limit(forward, mono + back) \in Int
      PROVE  \E Y : /\ Rising(Y) /\ \A t \in Readable' : Pays(Y, s, t)
                    /\ Y[MaxWall] <= s.cap * forward' + s.gain * (mono' + back')
                    /\ \A b \in Bs : PaidFor(Y, s, b)
  <2>1. Z[MaxWall] <= Limit(forward', mono' + back')
    <3>1. Z[MaxWall] \in Int
      BY <1>4, <1>6 DEF Rising
    <3>2. S[MaxWall] <= Limit(forward, mono + back)
      BY <1>1
    <3> HIDE DEF Limit
    <3>3. PICK k \in Int : k = Limit(forward, mono + back)
      BY <1>6
    <3>4. PICK m \in Int : m = Limit(forward', mono' + back')
      BY <1>6
    <3>5. k + n <= m /\ Z[MaxWall] <= S[MaxWall] + n /\ S[MaxWall] <= k
      BY <1>6, <3>2, <3>3, <3>4
    <3>6. S[MaxWall] \in Int
      BY <1>5
    <3>7. Z[MaxWall] <= m
      BY <3>1, <3>5, <3>6
    <3> QED
      BY <3>4, <3>7
  <2>2. ASSUME NEW b \in Bs
        PROVE  PaidFor(Z, s, b)
    <3>1. b.refill \in 0..MaxWall /\ b.tokens \in Int /\ b.granted \in Nat
      BY DEF Bucket
    <3>2. PICK k \in Int : k = s.cost * b.granted
      BY <3>1 DEF IsSpec
    <3>3. S[b.refill] \in Int /\ Z[b.refill] \in Int /\ S[b.refill] <= Z[b.refill]
      BY <1>1, <1>6, <3>1 DEF Rising
    <3>4. k + b.tokens <= s.cap + S[b.refill]
      BY <1>1, <3>2 DEF PaidFor
    <3>5. k + b.tokens <= s.cap + Z[b.refill]
      BY <1>4, <3>1, <3>3, <3>4
    <3> QED
      BY <3>2, <3>5 DEF PaidFor
  <2>3. \A t \in Readable' : Pays(Z, s, t)
    BY <1>6
  <2> QED
    BY <1>6, <2>1, <2>2, <2>3
<1>7. CASE Tick
  <2>1. /\ w + 1 <= MaxWall /\ w + 1 \in 0..MaxWall
        /\ wall' = w + 1 /\ mono' = mono + 1 /\ forward' = forward /\ back' = back
        /\ now' = now /\ pc' = [c \in Callers |-> AfterTick(pc[c])]
    BY <1>3, <1>4, <1>7 DEF Tick
  <2>2. \A c \in Callers : pc'[c] \in {"lease", "late"} => pc[c] \in {"lease", "late"}
    BY <2>1 DEF AfterTick, AllParts, CallersOK, CallerTypes
  <2>3. Readable' \subseteq T \cup {w + 1}
    BY <1>2, <2>1, <2>2 DEF Readable
  <2>4. PICK Z : /\ Rising(Z) /\ \A x \in 0..MaxWall : S[x] <= Z[x]
                 /\ Z[MaxWall] <= S[MaxWall] + s.gain
                 /\ \A t \in T \cup {w + 1} : Pays(Z, s, t)
    BY <1>1, <1>4, <2>1, TickPays
  <2>5. /\ Limit(forward', mono' + back') = Limit(forward, mono + back) + s.gain
        /\ Limit(forward, mono + back) \in Int
    <3>1. mono' + back' = (mono + back) + 1 /\ mono + back \in Nat
      BY <1>4, <2>1
    <3>2. s.gain * ((mono + back) + 1) = s.gain * (mono + back) + s.gain * 1 /\ s.gain * 1 = s.gain
      <4>1. PICK n \in Nat : n = mono + back
        BY <3>1
      <4>2. s.gain * (n + 1) = s.gain * n + s.gain * 1
        BY <1>5
      <4>3. s.gain * 1 = s.gain
        BY <1>4
      <4> QED
        BY <4>1, <4>2, <4>3
    <3>3. s.cap * forward \in Int /\ s.gain * (mono + back) \in Int
      BY <1>4, <3>1
    <3> QED
      BY <1>4, <2>1, <3>1, <3>2, <3>3
  <2> HIDE DEF Limit
  <2>6. /\ Limit(forward, mono + back) + s.gain <= Limit(forward', mono' + back')
        /\ Limit(forward', mono' + back') \in Int /\ s.gain \in Int
    BY <1>4, <2>5
  <2> QED
    BY <1>6, <2>1, <2>3, <2>4, <2>5, <2>6
<1>8. ASSUME NEW d \in ClockSteps, SetClock(d)
      PROVE  \E Y : /\ Rising(Y) /\ \A t \in Readable' : Pays(Y, s, t)
                    /\ Y[MaxWall] <= s.cap * forward' + s.gain * (mono' + back')
                    /\ \A b \in Bs : PaidFor(Y, s, b)
  <2>1. /\ d \in Int /\ w + d \in 0..MaxWall /\ wall' = w + d
        /\ forward' = forward + (IF d > 0 THEN 1 ELSE 0)
        /\ back' = back + (IF d < 0 THEN -d ELSE 0) /\ mono' = mono
        /\ now' = now /\ pc' = pc
    BY <1>3, <1>8, RpcBudgetAssumption DEF SetClock, callerVars
  <2>2. Readable' \subseteq T \cup {w + d}
    BY <1>2, <2>1 DEF Readable
  <2>3. Limit(forward, mono + back) \in Int /\ mono + back \in Nat
    <3>1. mono + back \in Nat
      BY <1>4
    <3>2. s.cap * forward \in Int /\ s.gain * (mono + back) \in Int
      BY <1>4, <3>1
    <3> QED
      BY <3>1, <3>2
  <2>4. CASE d > 0
    <3>1. PICK Z : /\ Rising(Z) /\ \A x \in 0..MaxWall : S[x] <= Z[x]
                   /\ Z[MaxWall] <= S[MaxWall] + s.cap
                   /\ \A t \in T \cup {w + d} : Pays(Z, s, t)
      <4>1. w < w + d
        BY <1>4, <2>1, <2>4
      <4> QED
        BY <1>1, <1>4, <2>1, <4>1, ForwardPays
    <3>2. Limit(forward', mono' + back') = Limit(forward, mono + back) + s.cap
      <4>1. forward' = forward + 1 /\ mono' + back' = mono + back
        BY <1>4, <2>1, <2>4
      <4>2. s.cap * (forward + 1) = s.cap * forward + s.cap
        BY <1>4
      <4>3. s.cap * forward \in Int /\ s.gain * (mono + back) \in Int
        BY <1>4, <2>3
      <4> QED
        BY <1>4, <4>1, <4>2, <4>3
    <3> HIDE DEF Limit
    <3>3. /\ Limit(forward, mono + back) + s.cap <= Limit(forward', mono' + back')
          /\ Limit(forward', mono' + back') \in Int /\ s.cap \in Int
      BY <1>4, <2>3, <3>2
    <3> QED
      BY <1>6, <2>1, <2>2, <2>3, <3>1, <3>3
  <2>5. CASE d < 0
    <3>1. w + d < w /\ w - (w + d) = -d /\ -d \in Nat
      BY <1>4, <2>1, <2>5
    <3>2. PICK Z : /\ Rising(Z) /\ \A x \in 0..MaxWall : S[x] <= Z[x]
                   /\ Z[MaxWall] <= S[MaxWall] + s.gain * (-d)
                   /\ \A t \in T \cup {w + d} : Pays(Z, s, t)
      <4>1. PICK v \in 0..MaxWall : v = w + d
        BY <2>1
      <4>2. v < w /\ w - v = -d
        BY <3>1, <4>1
      <4>3. PICK Z : /\ Rising(Z) /\ \A x \in 0..MaxWall : S[x] <= Z[x]
                     /\ Z[MaxWall] <= S[MaxWall] + s.gain * (w - v)
                     /\ \A t \in T \cup {v} : Pays(Z, s, t)
        BY <1>1, <1>4, <4>2, BackPays
      <4>4. s.gain * (w - v) = s.gain * (-d)
        BY <4>2
      <4> QED
        BY <4>1, <4>3, <4>4
    <3>3. Limit(forward', mono' + back') = Limit(forward, mono + back) + s.gain * (-d)
      <4>1. forward' = forward /\ mono' + back' = (mono + back) + (-d)
        BY <1>4, <2>1, <2>5
      <4>2. s.gain * ((mono + back) + (-d)) = s.gain * (mono + back) + s.gain * (-d)
        BY <1>5, <2>3, <3>1
      <4>3. s.cap * forward \in Int /\ s.gain * (mono + back) \in Int /\ s.gain * (-d) \in Int
        BY <1>4, <2>3, <3>1
      <4> QED
        BY <4>1, <4>2, <4>3
    <3>4. s.gain * (-d) \in Int
      BY <1>4, <3>1
    <3> HIDE DEF Limit
    <3>5. /\ Limit(forward, mono + back) + s.gain * (-d) <= Limit(forward', mono' + back')
          /\ Limit(forward', mono' + back') \in Int
      BY <2>3, <3>3, <3>4
    <3> QED
      BY <1>6, <2>1, <2>2, <2>3, <3>2, <3>4, <3>5
  <2>6. CASE d = 0
    <3>1. forward' = forward /\ back' = back /\ w + d = w
      BY <1>4, <2>1, <2>6
    <3>2. Readable' \subseteq Readable
      BY <1>2, <2>2, <3>1
    <3> QED
      BY <1>1, <2>1, <3>1, <3>2
  <2> QED
    BY <2>1, <2>4, <2>5, <2>6
<1> QED
  BY <1>7, <1>8

\* The buckets are buckets of their kind.
LEMMA BucketKinds ==
  ASSUME AllParts
  PROVE  /\ \A x \in Rows : SharedBuckets(x) \subseteq Bucket(SharedSpec(x))
         /\ \A f \in Families : LocalBuckets(f) \subseteq Bucket(LocalSpec(f))
  BY DEF AllParts, RowTypes, SharedBuckets, LocalBuckets

\* A bucket loaded, and debited when it covers the call, was paid for.
LEMMA BoughtIsPaid ==
  ASSUME NEW s, IsSpec(s), NEW S, Rising(S), NEW t \in 0..MaxWall, Pays(S, s, t),
         NEW b, b # None => b \in Bucket(s) /\ PaidFor(S, s, b),
         Loaded(b, s, t) \in Bucket(s)
  PROVE  PaidFor(S, s, Loaded(b, s, t)) /\ PaidFor(S, s, Debited(Loaded(b, s, t), s))
<1>1. PaidFor(S, s, Loaded(b, s, t))
  BY LoadedIsPaid
<1> QED
  BY <1>1, DebitedIsPaid

\* A lease buys from the credit of its row and from that of the total.
LEMMA LeaseBuys ==
  ASSUME AllParts, CreditInv, NEW c \in Callers, Lease(c), NEW x \in Rows,
         NEW S, Rising(S), \A t \in Readable : Pays(S, SharedSpec(x), t),
         \A b \in SharedBuckets(x) : PaidFor(S, SharedSpec(x), b)
  PROVE  \A b \in SharedBuckets(x)' : PaidFor(S, SharedSpec(x), b)
<1>1. PICK u \in Urls : u = url[c]
  BY DEF AllParts, CallersOK, CallerTypes
<1>2. PICK f \in Families : f = job[c].family
  BY DEF Lease, AllParts, CallersOK, CallerInv, Asking
<1>3. PICK t \in 0..MaxWall : t = now[c] /\ t \in Readable /\ t <= latest /\ Start - back <= t
  BY ReadableShown DEF Lease, AllParts, CallersOK, CallerTypes, CallerInv
<1>4. f \in Rows /\ Total \in Rows /\ f # Total
  BY RpcBudgetAssumption DEF Rows
<1>5. ASSUME NEW y \in Rows
      PROVE  Loaded(row[u][y], SharedSpec(y), t) \in Bucket(SharedSpec(y))
  BY <1>3, LoadedGood, SharedIsSpec DEF AllParts, BudgetInv, GoodBucket
<1> DEFINE l == Loaded(row[u][x], SharedSpec(x), t)
<1>6. PaidFor(S, SharedSpec(x), l) /\ PaidFor(S, SharedSpec(x), Debited(l, SharedSpec(x)))
  <2>1. row[u][x] # None => row[u][x] \in SharedBuckets(x)
    BY DEF SharedBuckets
  <2>2. row[u][x] # None => row[u][x] \in Bucket(SharedSpec(x))
    BY DEF AllParts, RowTypes
  <2> QED
    BY <1>3, <1>5, <2>1, <2>2, BoughtIsPaid, SharedIsSpec
<1>7. \A v \in Urls : row'[v][x] \in {row[v][x], l, Debited(l, SharedSpec(x))}
  <2>1. /\ DOMAIN row = Urls /\ \A v \in Urls : DOMAIN row[v] = Rows
    BY DEF AllParts, RowTypes
  <2>2. \E T, F :
          /\ row' = [row EXCEPT ![u][Total] = T, ![u][f] = F]
          /\ \/ T = Loaded(row[u][Total], SharedSpec(Total), t)
             \/ T = Debited(Loaded(row[u][Total], SharedSpec(Total), t), SharedSpec(Total))
          /\ \/ F = Loaded(row[u][f], SharedSpec(f), t)
             \/ F = Debited(Loaded(row[u][f], SharedSpec(f), t), SharedSpec(f))
    BY <1>1, <1>2, <1>3 DEF Lease
  <2>3. PICK T : \E F :
          /\ row' = [row EXCEPT ![u][Total] = T, ![u][f] = F]
          /\ \/ T = Loaded(row[u][Total], SharedSpec(Total), t)
             \/ T = Debited(Loaded(row[u][Total], SharedSpec(Total), t), SharedSpec(Total))
          /\ \/ F = Loaded(row[u][f], SharedSpec(f), t)
             \/ F = Debited(Loaded(row[u][f], SharedSpec(f), t), SharedSpec(f))
    BY <2>2
  <2>4. PICK F :
          /\ row' = [row EXCEPT ![u][Total] = T, ![u][f] = F]
          /\ \/ T = Loaded(row[u][Total], SharedSpec(Total), t)
             \/ T = Debited(Loaded(row[u][Total], SharedSpec(Total), t), SharedSpec(Total))
          /\ \/ F = Loaded(row[u][f], SharedSpec(f), t)
             \/ F = Debited(Loaded(row[u][f], SharedSpec(f), t), SharedSpec(f))
    BY <2>3
  <2>5. /\ row'[u][Total] = T /\ row'[u][f] = F
        /\ \A y \in Rows \ {Total, f} : row'[u][y] = row[u][y]
        /\ \A v \in Urls \ {u} : row'[v] = row[v]
    BY <1>4, <2>1, <2>4
  <2>6. x = Total \/ x = f \/ x \in Rows \ {Total, f}
    OBVIOUS
  <2> QED
    BY <2>4, <2>5, <2>6
<1> HIDE DEF l
<1>8. ASSUME NEW b \in SharedBuckets(x)'
      PROVE  PaidFor(S, SharedSpec(x), b)
  <2>1. PICK v \in Urls : b = row'[v][x] /\ b # None
    BY <1>8 DEF SharedBuckets
  <2>2. b = row[v][x] => b \in SharedBuckets(x)
    BY <2>1 DEF SharedBuckets
  <2> QED
    BY <1>6, <1>7, <2>1, <2>2
<1> QED
  BY <1>8

\* A lease of the fallback buys from the credit of its own bucket.
LEMMA LeaseLocalBuys ==
  ASSUME AllParts, CreditInv, NEW c \in Callers, LeaseLocal(c), NEW g \in Families,
         NEW S, Rising(S), \A t \in Readable : Pays(S, LocalSpec(g), t),
         \A b \in LocalBuckets(g) : PaidFor(S, LocalSpec(g), b)
  PROVE  \A b \in LocalBuckets(g)' : PaidFor(S, LocalSpec(g), b)
<1>1. PICK u \in Urls : u = url[c]
  BY DEF AllParts, CallersOK, CallerTypes
<1>2. PICK f \in Families : f = job[c].family
  BY DEF LeaseLocal, AllParts, CallersOK, CallerInv, Asking
<1>3. PICK p \in Procs : p = ProcOf[c]
  BY RpcBudgetAssumption
<1>4. PICK t \in 0..MaxWall : t = wall /\ t \in Readable /\ t <= latest /\ Start - back <= t
  BY ReadableShown DEF AllParts, ClockTypes, ClockInv
<1> DEFINE l == Loaded(fallback[p][u][f], LocalSpec(f), t)
<1>5. l \in Bucket(LocalSpec(f))
  BY <1>4, LoadedGood, LocalIsSpec DEF AllParts, BudgetInv, GoodBucket
<1>6. fallback' = [fallback EXCEPT ![p][u][f] = Debited(l, LocalSpec(f))]
        \/ fallback' = [fallback EXCEPT ![p][u][f] = l]
  BY <1>1, <1>2, <1>3, <1>4 DEF LeaseLocal
<1>7. /\ DOMAIN fallback = Procs /\ \A q \in Procs : DOMAIN fallback[q] = Urls
      /\ \A q \in Procs : \A v \in Urls : DOMAIN fallback[q][v] = Families
  BY DEF AllParts, RowTypes
<1> HIDE DEF l
<1>8. \A q \in Procs, v \in Urls :
        \/ fallback'[q][v][g] = fallback[q][v][g]
        \/ g = f /\ fallback'[q][v][g] \in {l, Debited(l, LocalSpec(f))}
  BY <1>6, <1>7
<1>9. g = f => PaidFor(S, LocalSpec(f), l) /\ PaidFor(S, LocalSpec(f), Debited(l, LocalSpec(f)))
  <2> SUFFICES ASSUME g = f
               PROVE  PaidFor(S, LocalSpec(f), l)
                      /\ PaidFor(S, LocalSpec(f), Debited(l, LocalSpec(f)))
    OBVIOUS
  <2>1. fallback[p][u][f] # None => fallback[p][u][f] \in LocalBuckets(f)
    BY DEF LocalBuckets
  <2>2. fallback[p][u][f] # None => fallback[p][u][f] \in Bucket(LocalSpec(f))
    BY DEF AllParts, RowTypes
  <2> QED
    BY <1>4, <1>5, <2>1, <2>2, BoughtIsPaid, LocalIsSpec DEF l
<1>10. ASSUME NEW b \in LocalBuckets(g)'
       PROVE  PaidFor(S, LocalSpec(g), b)
  <2>1. PICK q \in Procs, v \in Urls : b = fallback'[q][v][g] /\ b # None
    BY <1>10 DEF LocalBuckets
  <2>2. b = fallback[q][v][g] => b \in LocalBuckets(g)
    BY <2>1 DEF LocalBuckets
  <2> QED
    BY <1>8, <1>9, <2>1, <2>2
<1> QED
  BY <1>10

\* No step leaves CreditInv.
LEMMA CreditStep == AllParts /\ CreditInv /\ [Next]_vars => CreditInv'
<1> SUFFICES ASSUME AllParts, CreditInv, [Next]_vars
             PROVE  CreditInv'
  OBVIOUS
<1> DEFINE Kept(s, Cs) ==
             \E S : /\ Rising(S) /\ \A t \in Readable' : Pays(S, s, t)
                    /\ S[MaxWall] <= s.cap * forward' + s.gain * (mono' + back')
                    /\ \A b \in Cs : PaidFor(S, s, b)
<1>1. SUFFICES /\ \A x \in Rows : Kept(SharedSpec(x), SharedBuckets(x)')
               /\ \A f \in Families : Kept(LocalSpec(f), LocalBuckets(f)')
  BY DEF CreditInv, Credit
<1>2. /\ \A x \in Rows : Credit(SharedSpec(x), SharedBuckets(x)) /\ IsSpec(SharedSpec(x))
      /\ \A f \in Families : Credit(LocalSpec(f), LocalBuckets(f)) /\ IsSpec(LocalSpec(f))
  BY SharedIsSpec, LocalIsSpec DEF CreditInv
<1>3. row' = row => \A x \in Rows : SharedBuckets(x)' = SharedBuckets(x)
  BY DEF SharedBuckets
<1>4. fallback' = fallback => \A f \in Families : LocalBuckets(f)' = LocalBuckets(f)
  BY DEF LocalBuckets
<1>5. CASE Tick \/ (\E d \in ClockSteps : SetClock(d))
  <2>1. row' = row /\ fallback' = fallback
    BY <1>5 DEF Tick, SetClock
  <2>2. ASSUME NEW x \in Rows
        PROVE  Kept(SharedSpec(x), SharedBuckets(x))
    BY <1>2, <1>5, BucketKinds, CreditGrows
  <2>3. ASSUME NEW f \in Families
        PROVE  Kept(LocalSpec(f), LocalBuckets(f))
    BY <1>2, <1>5, BucketKinds, CreditGrows
  <2> HIDE DEF Kept
  <2> QED
    BY <1>3, <1>4, <2>1, <2>2, <2>3
<1>6. ASSUME UNCHANGED clockVars, Readable' \subseteq Readable
      PROVE  /\ row' = row => \A x \in Rows : Kept(SharedSpec(x), SharedBuckets(x)')
             /\ fallback' = fallback => \A f \in Families : Kept(LocalSpec(f), LocalBuckets(f)')
  <2>1. ASSUME NEW x \in Rows
        PROVE  Kept(SharedSpec(x), SharedBuckets(x))
    BY <1>2, <1>6, CreditStands
  <2>2. ASSUME NEW f \in Families
        PROVE  Kept(LocalSpec(f), LocalBuckets(f))
    BY <1>2, <1>6, CreditStands
  <2> HIDE DEF Kept
  <2> QED
    BY <1>3, <1>4, <2>1, <2>2
<1>7. CASE UNCHANGED vars
  <2>1. /\ UNCHANGED clockVars /\ row' = row /\ fallback' = fallback
        /\ UNCHANGED <<pc, now, wall>>
    BY <1>7 DEF vars, callerVars, clockVars
  <2>2. Readable' \subseteq Readable
    BY <2>1 DEF Readable
  <2> HIDE DEF Kept
  <2> QED
    BY <1>6, <2>1, <2>2
<1>8. ASSUME NEW c \in Callers, Lease(c)
      PROVE  /\ \A x \in Rows : Kept(SharedSpec(x), SharedBuckets(x)')
             /\ \A f \in Families : Kept(LocalSpec(f), LocalBuckets(f)')
  <2>1. UNCHANGED clockVars /\ Readable' \subseteq Readable /\ fallback' = fallback
    BY <1>8, CallersReadNothingNew DEF Lease
  <2>2. ASSUME NEW x \in Rows
        PROVE  Kept(SharedSpec(x), SharedBuckets(x)')
    <3>1. PICK Cs : Cs = SharedBuckets(x)'
      OBVIOUS
    <3>2. ASSUME NEW S, Rising(S), \A t \in Readable : Pays(S, SharedSpec(x), t),
                 \A b \in SharedBuckets(x) : PaidFor(S, SharedSpec(x), b)
          PROVE  \A b \in Cs : PaidFor(S, SharedSpec(x), b)
      <4>1. \A b \in SharedBuckets(x)' : PaidFor(S, SharedSpec(x), b)
        BY <1>8, <3>2, LeaseBuys
      <4>2. ASSUME NEW b \in Cs
            PROVE  PaidFor(S, SharedSpec(x), b)
        <5>1. b \in SharedBuckets(x)'
          BY <3>1, <4>2
        <5> QED
          BY <4>1, <5>1
      <4> QED
        BY <4>2
    <3>3. Kept(SharedSpec(x), Cs)
      BY <1>2, <2>1, <3>2, CreditStands
    <3> HIDE DEF Kept
    <3> QED
      BY <3>1, <3>3
  <2> HIDE DEF Kept
  <2> QED
    BY <1>6, <2>1, <2>2
<1>9. ASSUME NEW c \in Callers, LeaseLocal(c)
      PROVE  /\ \A x \in Rows : Kept(SharedSpec(x), SharedBuckets(x)')
             /\ \A f \in Families : Kept(LocalSpec(f), LocalBuckets(f)')
  <2>1. UNCHANGED clockVars /\ Readable' \subseteq Readable /\ row' = row
    BY <1>9, CallersReadNothingNew DEF LeaseLocal
  <2>2. ASSUME NEW f \in Families
        PROVE  Kept(LocalSpec(f), LocalBuckets(f)')
    <3>1. PICK Cs : Cs = LocalBuckets(f)'
      OBVIOUS
    <3>2. ASSUME NEW S, Rising(S), \A t \in Readable : Pays(S, LocalSpec(f), t),
                 \A b \in LocalBuckets(f) : PaidFor(S, LocalSpec(f), b)
          PROVE  \A b \in Cs : PaidFor(S, LocalSpec(f), b)
      <4>1. \A b \in LocalBuckets(f)' : PaidFor(S, LocalSpec(f), b)
        BY <1>9, <3>2, LeaseLocalBuys
      <4>2. ASSUME NEW b \in Cs
            PROVE  PaidFor(S, LocalSpec(f), b)
        <5>1. b \in LocalBuckets(f)'
          BY <3>1, <4>2
        <5> QED
          BY <4>1, <5>1
      <4> QED
        BY <4>2
    <3>3. Kept(LocalSpec(f), Cs)
      BY <1>2, <2>1, <3>2, CreditStands
    <3> HIDE DEF Kept
    <3> QED
      BY <3>1, <3>3
  <2> HIDE DEF Kept
  <2> QED
    BY <1>6, <2>1, <2>2
<1>10. ASSUME NEW c \in Callers,
              \/ \E f \in Families \cap Menu[c] : CallRpc(c, f)
              \/ \E priority \in Menu[c] \ Families : CallJupiter(c, priority)
              \/ ReadNow(c) \/ Acquire(c) \/ AcquireWaits(c)
              \/ RetryRequest(c) \/ RequestFails(c) \/ Return(c)
       PROVE  /\ \A x \in Rows : Kept(SharedSpec(x), SharedBuckets(x)')
              /\ \A f \in Families : Kept(LocalSpec(f), LocalBuckets(f)')
  <2>1. UNCHANGED clockVars /\ Readable' \subseteq Readable
    BY <1>10, CallersReadNothingNew
  <2>2. row' = row /\ fallback' = fallback
    BY <1>10 DEF CallRpc, CallJupiter, ReadNow, Acquire, AcquireWaits, RetryRequest,
       RequestFails, Return
  <2> HIDE DEF Kept
  <2> QED
    BY <1>6, <2>1, <2>2
<1> HIDE DEF Kept
<1> QED
  BY <1>5, <1>7, <1>8, <1>9, <1>10 DEF Next

\* At first there is no bucket, and the clock has shown one time.
LEMMA CreditInitially == Init => CreditInv
<1> SUFFICES ASSUME Init
             PROVE  CreditInv
  OBVIOUS
<1>1. Readable = {Start} /\ forward = 0 /\ mono + back = 0
  BY DEF Init, Readable
<1>2. /\ \A x \in Rows : SharedBuckets(x) = {}
      /\ \A f \in Families : LocalBuckets(f) = {}
  BY DEF Init, SharedBuckets, LocalBuckets
<1>3. ASSUME NEW s, IsSpec(s)
      PROVE  Credit(s, {})
  <2> DEFINE S == [x \in 0..MaxWall |-> IF x < Start THEN -s.cap ELSE 0]
  <2>1. /\ Start \in 0..MaxWall /\ MaxWall \in 0..MaxWall /\ s.cap \in Nat /\ s.gain \in Nat
        /\ MaxWall >= Start
    <3>1. Start \in Nat /\ MaxWall \in Nat /\ Start <= MaxWall
      BY RpcBudgetAssumption
    <3>2. s.cap \in Nat /\ s.gain \in Nat
      BY <1>3 DEF IsSpec
    <3> QED
      BY <3>1, <3>2
  <2>2. \A x \in 0..MaxWall : S[x] = IF x < Start THEN -s.cap ELSE 0
    OBVIOUS
  <2>3. S \in [0..MaxWall -> Int]
    BY <2>1
  <2> HIDE DEF S
  <2>4. Rising(S)
    BY <2>1, <2>2, <2>3 DEF Rising
  <2>5. S[MaxWall] = 0 /\ S[Start] = 0
    BY <2>1, <2>2
  <2>6. ASSUME NEW x \in 0..Start
        PROVE  S[x] + Earn(s, Start - x) <= S[Start]
    <3>1. x \in 0..MaxWall /\ Start - x \in Nat
      BY <2>1
    <3>2. Earn(s, Start - x) \in Nat /\ Earn(s, Start - x) <= s.cap /\ Earn(s, 0) = 0
      <4>1. PICK n \in Nat : n = Start - x
        BY <3>1
      <4>2. Earn(s, n) \in Nat /\ Earn(s, n) <= s.cap /\ Earn(s, 0) = 0
        BY <1>3, EarnFacts
      <4> QED
        BY <4>1, <4>2
    <3>3. CASE x = Start
      <4>1. Start - x = 0
        BY <2>1, <3>3
      <4> QED
        BY <2>5, <3>2, <3>3, <4>1
    <3>4. CASE x # Start
      <4>1. S[x] = -s.cap
        BY <2>1, <2>2, <3>1, <3>4
      <4> QED
        BY <2>1, <2>5, <3>2, <4>1
    <3> QED
      BY <3>3, <3>4
  <2>7. Pays(S, s, Start)
    BY <2>5, <2>6 DEF Pays
  <2>8. s.cap * forward + s.gain * (mono + back) = 0
    BY <1>1, <2>1
  <2>9. S[MaxWall] <= s.cap * forward + s.gain * (mono + back)
    BY <2>5, <2>8
  <2> QED
    BY <1>1, <2>4, <2>7, <2>9 DEF Credit
<1> QED
  BY <1>2, <1>3, SharedIsSpec, LocalIsSpec DEF CreditInv

\* What has been paid for fits the true time.
LEMMA PaidFits ==
  ASSUME AllParts, NEW s, IsSpec(s), NEW Bs, Bs \subseteq Bucket(s), Credit(s, Bs), NEW b \in Bs
  PROVE  FitsTrueTime(b, s)
<1>1. PICK S : /\ Rising(S) /\ S[MaxWall] <= s.cap * forward + s.gain * (mono + back)
               /\ PaidFor(S, s, b)
  BY DEF Credit
<1>2. /\ b.refill \in 0..MaxWall /\ MaxWall \in 0..MaxWall /\ b.refill <= MaxWall
      /\ b.tokens \in Nat /\ b.granted \in Nat /\ s.cap \in Nat /\ s.gain \in Nat
      /\ forward \in Nat /\ mono + back \in Nat
  BY RpcBudgetAssumption DEF Bucket, IsSpec, AllParts, ClockTypes
<1>3. S[b.refill] <= S[MaxWall] /\ S[b.refill] \in Int /\ S[MaxWall] \in Int
  BY <1>1, <1>2 DEF Rising
<1>4. s.cap * (1 + forward) = s.cap + s.cap * forward
  BY <1>2
<1>5. PICK k \in Int : k = s.cost * b.granted
  BY <1>2 DEF IsSpec
<1>6. PICK g \in Int : g = s.gain * (mono + back)
  BY <1>2
<1>7. PICK h \in Int : h = s.cap * forward
  BY <1>2
<1>8. k + b.tokens <= s.cap + S[b.refill] /\ S[MaxWall] <= h + g
  BY <1>1, <1>5, <1>6, <1>7 DEF PaidFor
<1>9. k <= (s.cap + h) + g
  BY <1>2, <1>3, <1>8
<1> QED
  BY <1>4, <1>5, <1>6, <1>7, <1>9 DEF FitsTrueTime

\* leaseShared and leaseLocal of endpoint-budget.ts: however the wall clock is set
\* and in whatever order the processes bring the times they have read, all of them
\* together are let through no oftener than one bucket allows in true time, plus
\* one burst for each step forward and what the steps back took.
THEOREM BudgetHoldsInTrueTime == Spec => []GrantsFitBudget
<1>1. Init => CreditInv
  BY CreditInitially
<1>2. AllParts /\ CreditInv /\ [Next]_vars => CreditInv'
  BY CreditStep
<1>3. AllParts /\ CreditInv => GrantsFitBudget
  <2> SUFFICES ASSUME AllParts, CreditInv
               PROVE  GrantsFitBudget
    OBVIOUS
  <2>1. ASSUME NEW u \in Urls, NEW x \in Rows, row[u][x] # None
        PROVE  FitsTrueTime(row[u][x], SharedSpec(x))
    <3>1. row[u][x] \in SharedBuckets(x)
      BY <2>1 DEF SharedBuckets
    <3> QED
      BY <3>1, BucketKinds, SharedIsSpec, PaidFits DEF CreditInv
  <2>2. ASSUME NEW p \in Procs, NEW u \in Urls, NEW f \in Families, fallback[p][u][f] # None
        PROVE  FitsTrueTime(fallback[p][u][f], LocalSpec(f))
    <3>1. fallback[p][u][f] \in LocalBuckets(f)
      BY <2>2 DEF LocalBuckets
    <3> QED
      BY <3>1, BucketKinds, LocalIsSpec, PaidFits DEF CreditInv
  <2> QED
    BY <2>1, <2>2 DEF GrantsFitBudget
<1>4. RpcFacts => AllParts
  BY FactsAreParts
<1> QED
  BY <1>1, <1>2, <1>3, <1>4, RpcInvariant, PTL DEF Spec

(***************************************************************************)
(* The total is the sum of the families.                                    *)
(***************************************************************************)

Chosen(s) == CHOOSE x \in s : TRUE

\* I sums what the families of r were granted, one family after the other.
IsSum(I, r) ==
  /\ I \in [SUBSET Families -> Nat] /\ I[{}] = 0
  /\ \A s \in SUBSET Families : s # {} =>
       Chosen(s) \in s /\ I[s] = GrantedBy(r[Chosen(s)]) + I[s \ {Chosen(s)}]

\* The sum of the model is such a sum.
LEMMA SumUnfolds ==
  ASSUME NEW r, \A f \in Families : GrantedBy(r[f]) \in Nat
  PROVE  \E I : IsSum(I, r) /\ SumOfFamilies(r) = I[Families]
<1> DEFINE any == [s \in SUBSET Families |-> Chosen(s)]
           G == [p \in Families \X Nat |-> GrantedBy(r[p[1]]) + p[2]]
           Body(J) == [s \in SUBSET Families |->
             IF s = {} THEN 0 ELSE GrantedBy(r[Chosen(s)]) + J[s \ {Chosen(s)}]]
           Iter == CHOOSE J : J = Body(J)
<1>1. \A s \in SUBSET Families : s # {} => Chosen(s) \in s
  BY DEF Chosen
<1>2. /\ G \in [Families \X Nat -> Nat]
      /\ \A x \in Families, n \in Nat : G[<<x, n>>] = GrantedBy(r[x]) + n
  OBVIOUS
<1>3. /\ IsFiniteSet(Families) /\ 0 \in Nat
      /\ \A s \in SUBSET Families : s # {} => any[s] \in s
      /\ \A s \in SUBSET Families : any[s] = Chosen(s)
  BY <1>1, RpcBudgetAssumption
<1> HIDE DEF any, G
<1>4. PICK I : IsFold(I, Families, Nat, 0, G, any)
  BY <1>2, <1>3, FoldExists
<1>5. I \in [SUBSET Families -> Nat] /\ I[{}] = 0
  BY <1>4 DEF IsFold
<1>6. ASSUME NEW s \in SUBSET Families, s # {}
      PROVE  I[s] = GrantedBy(r[Chosen(s)]) + I[s \ {Chosen(s)}]
  <2>1. I[s] = G[<<Chosen(s), I[s \ {Chosen(s)}]>>]
    BY <1>3, <1>4, <1>6 DEF IsFold
  <2>2. Chosen(s) \in Families /\ I[s \ {Chosen(s)}] \in Nat
    BY <1>1, <1>5, <1>6
  <2> QED
    BY <1>2, <2>1, <2>2
<1>7. I = Body(I)
  BY <1>5, <1>6
<1>8. Iter = Body(Iter)
  <2> HIDE DEF Body
  <2> QED
    BY <1>7
<1>9. SumOfFamilies(r) = Iter[Families]
  BY DEF SumOfFamilies, MapThenSumSet, MapThenFoldSet, Chosen
<1> HIDE DEF Iter
<1>10. /\ DOMAIN Iter = SUBSET Families /\ Iter = [s \in SUBSET Families |-> Iter[s]]
       /\ Iter[{}] = 0
       /\ \A s \in SUBSET Families : s # {} =>
            Iter[s] = GrantedBy(r[Chosen(s)]) + Iter[s \ {Chosen(s)}]
  BY <1>8
<1>11. Iter \in [SUBSET Families -> Nat]
  <2> DEFINE Bad == {s \in SUBSET Families : Iter[s] \notin Nat}
  <2>1. ASSUME NEW s \in Bad, \A x \in s : s \ {x} \notin Bad
        PROVE  FALSE
    <3>1. s # {} /\ Chosen(s) \in s
      <4>1. Iter[s] \notin Nat
        OBVIOUS
      <4>2. Iter[{}] \in Nat
        BY <1>10
      <4>3. s # {}
        BY ONLY <4>1, <4>2
      <4> QED
        BY <1>1, <4>3
    <3>2. Iter[s \ {Chosen(s)}] \in Nat
      BY <2>1, <3>1
    <3>3. /\ Iter[s] = GrantedBy(r[Chosen(s)]) + Iter[s \ {Chosen(s)}]
          /\ GrantedBy(r[Chosen(s)]) \in Nat
      BY <1>10, <3>1
    <3> QED
      BY <3>2, <3>3
  <2>2. Bad = {}
    <3> HIDE DEF Bad
    <3>1. Bad \subseteq SUBSET Families
      BY DEF Bad
    <3> QED
      BY <2>1, <3>1, SmallestSubset, RpcBudgetAssumption
  <2> QED
    BY <1>10, <2>2
<1>12. IsSum(Iter, r)
  BY <1>1, <1>10, <1>11 DEF IsSum
<1> QED
  BY <1>9, <1>12

\* One family more or less is granted, or none is: the sum follows.
LEMMA SumFollows ==
  ASSUME NEW r, \A f \in Families : GrantedBy(r[f]) \in Nat,
         NEW q, \A f \in Families : GrantedBy(q[f]) \in Nat,
         NEW g \in Families, NEW d \in Nat,
         GrantedBy(q[g]) = GrantedBy(r[g]) + d,
         \A f \in Families \ {g} : GrantedBy(q[f]) = GrantedBy(r[f])
  PROVE  SumOfFamilies(q) = SumOfFamilies(r) + d
<1>1. PICK I : IsSum(I, r) /\ SumOfFamilies(r) = I[Families]
  BY SumUnfolds
<1>2. PICK J : IsSum(J, q) /\ SumOfFamilies(q) = J[Families]
  BY SumUnfolds
<1> DEFINE Bad == {s \in SUBSET Families : J[s] # I[s] + (IF g \in s THEN d ELSE 0)}
<1>3. ASSUME NEW s \in Bad, \A x \in s : s \ {x} \notin Bad
      PROVE  FALSE
  <2>1. s # {}
    <3>1. J[s] # I[s] + (IF g \in s THEN d ELSE 0)
      OBVIOUS
    <3>2. I[{}] = 0 /\ J[{}] = 0
      BY <1>1, <1>2 DEF IsSum
    <3>3. s = {} => J[s] = 0 /\ I[s] = 0 /\ g \notin s
      BY <3>2
    <3> QED
      BY ONLY <3>1, <3>3
  <2>2. PICK x \in s : x = Chosen(s)
    BY <1>1, <2>1 DEF IsSum
  <2>3. s \ {x} \in SUBSET Families /\ s \ {x} \notin Bad
    BY <1>3
  <2>4. /\ I[s \ {x}] \in Nat
        /\ J[s \ {x}] = I[s \ {x}] + (IF g \in s \ {x} THEN d ELSE 0)
    BY <1>1, <2>3 DEF IsSum
  <2>5. I[s] = GrantedBy(r[x]) + I[s \ {x}] /\ J[s] = GrantedBy(q[x]) + J[s \ {x}]
    BY <1>1, <1>2, <2>1, <2>2 DEF IsSum
  <2>6. GrantedBy(r[x]) \in Nat /\ x \in Families
    OBVIOUS
  <2>7. J[s] # I[s] + (IF g \in s THEN d ELSE 0)
    OBVIOUS
  <2>8. CASE x = g
    BY <2>4, <2>5, <2>6, <2>7, <2>8
  <2>9. CASE x # g
    BY <2>4, <2>5, <2>6, <2>7, <2>9
  <2> QED
    BY <2>8, <2>9
<1>4. Bad = {}
  <2> HIDE DEF Bad
  <2>1. Bad \subseteq SUBSET Families
    BY DEF Bad
  <2> QED
    BY <1>3, <2>1, SmallestSubset, RpcBudgetAssumption
<1>5. J[Families] = I[Families] + d
  BY <1>4
<1> QED
  BY <1>1, <1>2, <1>5

\* Before anything is granted the sum is nothing.
LEMMA SumOfNothing ==
  ASSUME NEW r, \A f \in Families : GrantedBy(r[f]) = 0
  PROVE  SumOfFamilies(r) = 0
<1>1. PICK I : IsSum(I, r) /\ SumOfFamilies(r) = I[Families]
  BY SumUnfolds
<1> DEFINE Bad == {s \in SUBSET Families : I[s] # 0}
<1>2. ASSUME NEW s \in Bad, \A x \in s : s \ {x} \notin Bad
      PROVE  FALSE
  <2>1. s # {}
    BY <1>1 DEF IsSum
  <2>2. Chosen(s) \in s /\ I[s] = GrantedBy(r[Chosen(s)]) + I[s \ {Chosen(s)}]
    BY <1>1, <2>1 DEF IsSum
  <2>3. I[s \ {Chosen(s)}] = 0
    BY <1>2, <2>2
  <2> QED
    BY <2>2, <2>3
<1>3. Bad = {}
  <2> HIDE DEF Bad
  <2>1. Bad \subseteq SUBSET Families
    BY DEF Bad
  <2> QED
    BY <1>2, <2>1, SmallestSubset, RpcBudgetAssumption
<1> QED
  BY <1>1, <1>3

\* A refill counts nothing, a debit one.
LEMMA GrantsOfBuckets ==
  ASSUME NEW x \in Rows, NEW b, b # None => GoodBucket(b, SharedSpec(x)),
         ClockTypes, NEW t \in 0..MaxWall, t <= latest, Start - back <= t
  PROVE  LET l == Loaded(b, SharedSpec(x), t) IN
           /\ GrantedBy(b) \in Nat /\ GrantedBy(l) = GrantedBy(b)
           /\ Covers(l, SharedSpec(x)) =>
                GrantedBy(Debited(l, SharedSpec(x))) = GrantedBy(b) + 1
<1> DEFINE s == SharedSpec(x)
           l == Loaded(b, s, t)
<1>1. IsSpec(s) /\ None \notin Bucket(s)
  BY SharedIsSpec, NoneIsNoBucket
<1> HIDE DEF s
<1>2. GoodBucket(l, s) /\ (Covers(l, s) => GoodBucket(Debited(l, s), s))
  BY <1>1, LoadedGood, DebitedGood DEF s
<1>3. l \in Bucket(s) /\ (Covers(l, s) => Debited(l, s) \in Bucket(s))
  BY <1>2 DEF GoodBucket
<1>4. GrantedBy(b) \in Nat /\ l.granted = GrantedBy(b)
  <2>1. CASE b = None
    BY <2>1 DEF GrantedBy, Loaded, Refilled
  <2>2. CASE b # None
    <3>1. b \in Bucket(s)
      BY <2>2 DEF GoodBucket, s
    <3>2. b.granted \in Nat /\ Refilled(b, s, t).granted = b.granted
      BY <3>1 DEF Bucket, Refilled
    <3> QED
      BY <2>2, <3>2 DEF GrantedBy, Loaded
  <2> QED
    BY <2>1, <2>2
<1>5. GrantedBy(l) = GrantedBy(b)
  BY <1>1, <1>3, <1>4 DEF GrantedBy
<1>6. ASSUME Covers(l, s)
      PROVE  GrantedBy(Debited(l, s)) = GrantedBy(b) + 1
  <2>1. Debited(l, s).granted = l.granted + 1
    BY <1>3 DEF Debited, Bucket
  <2>2. Debited(l, s) # None
    BY <1>1, <1>3, <1>6
  <2> QED
    BY <1>4, <2>1, <2>2 DEF GrantedBy
<1> QED
  BY <1>4, <1>5, <1>6 DEF s

\* A lease counts for its family and for the total, or for neither.
LEMMA LeaseIsWhole ==
  ASSUME AllParts, LeasesAreWhole, NEW c \in Callers, Lease(c)
  PROVE  LeasesAreWhole'
<1>1. PICK u \in Urls : u = url[c]
  BY DEF AllParts, CallersOK, CallerTypes
<1>2. PICK f \in Families : f = job[c].family
  BY DEF Lease, AllParts, CallersOK, CallerInv, Asking
<1>3. PICK t \in 0..MaxWall : t = now[c] /\ t <= latest /\ Start - back <= t
  BY DEF Lease, AllParts, CallersOK, CallerTypes, CallerInv
<1>4. f \in Rows /\ Total \in Rows /\ \A g \in Families : g # Total /\ g \in Rows
  BY RpcBudgetAssumption DEF Rows
<1> DEFINE total == Loaded(row[u][Total], SharedSpec(Total), t)
           family == Loaded(row[u][f], SharedSpec(f), t)
           Counts(T, F, d) ==
             /\ row' = [row EXCEPT ![u][Total] = T, ![u][f] = F]
             /\ GrantedBy(T) = GrantedBy(row[u][Total]) + d
             /\ GrantedBy(F) = GrantedBy(row[u][f]) + d
<1>5. ClockTypes /\ \A v \in Urls : \A x \in Rows :
        row[v][x] # None => GoodBucket(row[v][x], SharedSpec(x))
  BY DEF AllParts, BudgetInv
<1>6. \A v \in Urls : \A x \in Rows : GrantedBy(row[v][x]) \in Nat
  BY <1>3, <1>5, GrantsOfBuckets
<1>7. \E d \in {0, 1} : \E T, F : Counts(T, F, d)
  <2>1. /\ GrantedBy(total) = GrantedBy(row[u][Total])
        /\ GrantedBy(family) = GrantedBy(row[u][f])
        /\ Covers(total, SharedSpec(Total)) =>
             GrantedBy(Debited(total, SharedSpec(Total))) = GrantedBy(row[u][Total]) + 1
        /\ Covers(family, SharedSpec(f)) =>
             GrantedBy(Debited(family, SharedSpec(f))) = GrantedBy(row[u][f]) + 1
    BY <1>3, <1>4, <1>5, GrantsOfBuckets
  <2>2. \/ /\ Covers(total, SharedSpec(Total)) /\ Covers(family, SharedSpec(f))
           /\ row' = [row EXCEPT ![u][Total] = Debited(total, SharedSpec(Total)),
                                 ![u][f] = Debited(family, SharedSpec(f))]
        \/ row' = [row EXCEPT ![u][Total] = total, ![u][f] = family]
    BY <1>1, <1>2, <1>3 DEF Lease
  <2> HIDE DEF total, family
  <2>3. CASE row' = [row EXCEPT ![u][Total] = total, ![u][f] = family]
    <3>1. Counts(total, family, 0)
      BY <1>4, <1>6, <2>1, <2>3
    <3> QED
      BY <3>1
  <2>4. CASE /\ Covers(total, SharedSpec(Total)) /\ Covers(family, SharedSpec(f))
             /\ row' = [row EXCEPT ![u][Total] = Debited(total, SharedSpec(Total)),
                                   ![u][f] = Debited(family, SharedSpec(f))]
    <3>1. Counts(Debited(total, SharedSpec(Total)), Debited(family, SharedSpec(f)), 1)
      BY <2>1, <2>4
    <3> QED
      BY <3>1
  <2> QED
    BY <2>2, <2>3, <2>4
<1>8. PICK d \in {0, 1} : \E T, F : Counts(T, F, d)
  BY <1>7
<1>9. PICK T, F : Counts(T, F, d)
  BY <1>8
<1>10. /\ DOMAIN row = Urls /\ \A v \in Urls : DOMAIN row[v] = Rows
  BY DEF AllParts, RowTypes
<1>11. /\ row'[u][Total] = T /\ row'[u][f] = F
       /\ \A g \in Families \ {f} : row'[u][g] = row[u][g]
       /\ \A v \in Urls \ {u} : row'[v] = row[v]
  BY <1>4, <1>9, <1>10
<1>12. ASSUME NEW v \in Urls
       PROVE  GrantedBy(row'[v][Total]) = SumOfFamilies(row'[v])
  <2>1. GrantedBy(row[v][Total]) = SumOfFamilies(row[v])
    BY DEF LeasesAreWhole
  <2>2. CASE v # u
    BY <1>11, <2>1, <2>2
  <2>3. CASE v = u
    <3>1. PICK r : r = row[u]
      OBVIOUS
    <3>2. PICK q : q = row'[u]
      OBVIOUS
    <3>3. /\ \A g \in Families : GrantedBy(r[g]) \in Nat
          /\ GrantedBy(q[f]) = GrantedBy(r[f]) + d
          /\ \A g \in Families \ {f} : GrantedBy(q[g]) = GrantedBy(r[g])
      BY <1>4, <1>6, <1>9, <1>11, <3>1, <3>2
    <3>4. \A g \in Families : GrantedBy(q[g]) \in Nat
      BY <3>3
    <3>5. SumOfFamilies(q) = SumOfFamilies(r) + d
      BY <3>3, <3>4, SumFollows
    <3> QED
      BY <1>9, <1>11, <2>1, <2>3, <3>1, <3>2, <3>5
  <2> QED
    BY <2>2, <2>3
<1> QED
  BY <1>12 DEF LeasesAreWhole

\* leaseShared debits the total and the family in one transaction, or neither: of
\* each endpoint the total has let through what its families have together.
THEOREM LeasesStayWhole == Spec => []LeasesAreWhole
<1>1. Init => LeasesAreWhole
  <2> SUFFICES ASSUME Init, NEW u \in Urls
               PROVE  GrantedBy(row[u][Total]) = SumOfFamilies(row[u])
    BY DEF LeasesAreWhole
  <2>1. \A x \in Rows : GrantedBy(row[u][x]) = 0
    BY DEF Init, GrantedBy
  <2>2. SumOfFamilies(row[u]) = 0
    BY <2>1, SumOfNothing DEF Rows
  <2> QED
    BY <2>1, <2>2 DEF Rows
<1>2. AllParts /\ LeasesAreWhole /\ [Next]_vars => LeasesAreWhole'
  <2> SUFFICES ASSUME AllParts, LeasesAreWhole, [Next]_vars
               PROVE  LeasesAreWhole'
    OBVIOUS
  <2>1. CASE row' = row
    BY <2>1 DEF LeasesAreWhole
  <2>2. (\E c \in Callers : Lease(c)) \/ row' = row
    BY DEF Next, CallRpc, CallJupiter, ReadNow, LeaseLocal, Acquire, AcquireWaits,
       RetryRequest, RequestFails, Return, Tick, SetClock, vars
  <2> QED
    BY <2>1, <2>2, LeaseIsWhole
<1>3. RpcFacts => AllParts
  BY FactsAreParts
<1> QED
  BY <1>1, <1>2, <1>3, RpcInvariant, PTL DEF Spec
=============================================================================
