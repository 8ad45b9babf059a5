-------------------------- MODULE RedisCacheProofs --------------------------
(***************************************************************************)
(* Proofs about RedisCache: how old a copy is when it is served, how many  *)
(* search results there are, and how often an error is reported; and about *)
(* an instance of RateLimit, in Redis and in the table.                    *)
(*                                                                         *)
(* RateLimit: the requests that a count has counted began since its window *)
(* was written (RedisOK), and so did those of a row if one worker is alone *)
(* (AloneOK).  How many are still let through in a stretch of time depends *)
(* on the workers that are about to begin a window and on those that were  *)
(* counted and have not been answered (Room).                              *)
(*                                                                         *)
(* As in MCRedis the two share their workers; no theorem is about both.    *)
(***************************************************************************)
EXTENDS RedisCache, FiniteSetTheorems, TLAPS

CONSTANTS Redis, Limit, Window, MaxAsk                                \* RateLimit
VARIABLES clock, window, count, row, jobs, answer, asked, passed, inWindow

Rate == INSTANCE RateLimit WITH time <- clock, job <- jobs

StoreRow  == [made : 0..time, expires : 0..Never]
JobRow    == [pc : {"idle", "size", "query", "set", "expire", "mark", "report"},
              key : Key \cup {NoKey}, made : 0..time, since : 0..time]
ServedRow == [made : 0..time, at : 0..time]

\* What a worker has in hand belongs to what it does, and its request is at
\* most one tick old.
JobOK(j) ==
    /\ j \in JobRow
    /\ j.pc = "idle" <=> j.key = NoKey
    /\ j.pc \in {"size", "query", "set", "expire"} => j.key \in Copy
    /\ j.pc \in {"mark", "report"} => j.key \in Error
    /\ j.pc # "idle" => time <= j.since + 1
    /\ j.pc \in {"set", "expire"} => j.since <= j.made

JobsType   == job \in [Worker -> JobRow] /\ \A w \in Worker : JobOK(job[w])
StoreType  == store \in [Key -> StoreRow]
OtherType  ==
    /\ time \in 0..MaxTime
    /\ served \in [Worker -> ServedRow]
    /\ reported \in [Error -> 0..MaxReport] /\ crashes \in 0..MaxCrash

IType == JobsType /\ StoreType /\ OtherType

LEMMA ITypeGivesType == IType => TypeOK
BY DEF IType, TypeOK, JobsType, StoreType, OtherType, JobOK, JobRow, StoreRow, ServedRow

LEMMA NeverType ==
  /\ Never \in Nat /\ MaxTime < Never
  /\ \A t \in 0..MaxTime : t + Lifetime \in 0..Never /\ t + MarkLifetime \in 0..Never
BY BoundAssumption DEF Never

LEMMA IdleType == ASSUME time \in 0..MaxTime PROVE JobOK(Idle) /\ Idle.pc = "idle"
<1>1. 0 \in 0..time
  BY BoundAssumption
<1> QED BY <1>1, KeyAssumption DEF Idle, JobOK, JobRow

LEMMA JobUpdate ==
  ASSUME JobsType, time' = time, NEW w \in Worker, NEW j, JobOK(j),
         job' = [job EXCEPT ![w] = j]
  PROVE  JobsType' /\ \A v \in Worker : job'[v] = IF v = w THEN j ELSE job[v]
<1>1. \A v \in Worker : job'[v] = IF v = w THEN j ELSE job[v]
  BY DEF JobsType
<1>2. \A v \in Worker : JobOK(job[v])'
  BY <1>1 DEF JobsType, JobOK, JobRow
<1>3. JobRow' = JobRow
  BY DEF JobRow
<1>4. job' \in [Worker -> JobRow]
  BY DEF JobsType, JobOK
<1> QED BY <1>1, <1>2, <1>3, <1>4 DEF JobsType

LEMMA EndJob ==
  ASSUME IType, time' = time, NEW w \in Worker, End(w)
  PROVE  JobsType' /\ \A v \in Worker : job'[v] = IF v = w THEN Idle ELSE job[v]
BY JobUpdate, IdleType DEF End, IType, OtherType

LEMMA GotoJob ==
  ASSUME IType, time' = time, NEW w \in Worker,
         NEW pc \in {"query", "expire", "report"},
         pc = "query" => job[w].pc = "size",
         pc = "expire" => job[w].pc = "set",
         pc = "report" => job[w].pc = "mark",
         Goto(w, pc)
  PROVE  JobsType' /\ \A v \in Worker :
           job'[v] = IF v = w THEN [job[w] EXCEPT !.pc = pc] ELSE job[v]
<1> DEFINE j == [job[w] EXCEPT !.pc = pc]
<1>1. job' = [job EXCEPT ![w] = j]
  BY DEF Goto, IType, JobsType
<1>2. JobOK(job[w])
  BY DEF IType, JobsType
<1>3. JobOK(j)
  BY <1>2, KeyAssumption DEF JobOK, JobRow, Key
<1> HIDE DEF j
<1>4. JobsType' /\ \A v \in Worker : job'[v] = IF v = w THEN j ELSE job[v]
  BY <1>1, <1>3, JobUpdate DEF IType
<1> QED BY <1>4 DEF j

LEMMA StoreUpdate ==
  ASSUME StoreType, time' = time, NEW k \in Key, NEW entry \in StoreRow,
         store' = [store EXCEPT ![k] = entry]
  PROVE  StoreType' /\ \A l \in Key : store'[l] = IF l = k THEN entry ELSE store[l]
BY DEF StoreType, StoreRow

LEMMA ServeType ==
  ASSUME OtherType, NEW w \in Worker, NEW made \in 0..time, Serve(w, made),
         UNCHANGED <<time, reported, crashes>>
  PROVE  OtherType' /\ \A v \in Worker :
           served'[v] = IF v = w THEN [made |-> made, at |-> time] ELSE served[v]
<1>1. time \in 0..time /\ [made |-> made, at |-> time] \in ServedRow
  BY BoundAssumption DEF OtherType, ServedRow
<1>2. ServedRow' = ServedRow
  BY DEF ServedRow
<1> QED BY <1>1, <1>2 DEF OtherType, Serve

LEMMA InitType == Init => IType
<1> SUFFICES ASSUME Init PROVE IType
  OBVIOUS
<1>1. time = 0 /\ time \in 0..MaxTime /\ 0 \in 0..time /\ 0 \in 0..Never
  BY BoundAssumption, NeverType DEF Init
<1>2. JobsType
  BY <1>1, IdleType DEF Init, JobsType, JobOK
<1>3. StoreType
  BY <1>1 DEF Init, StoreType, StoreRow, Absent
<1>4. OtherType
  BY <1>1, BoundAssumption DEF Init, OtherType, ServedRow, Nothing
<1> QED BY <1>2, <1>3, <1>4 DEF IType

-----------------------------------------------------------------------------
(* Every step keeps the types. *)

LEMMA StoreKept == ASSUME StoreType, store' = store, time' = time PROVE StoreType'
BY DEF StoreType, StoreRow

LEMMA JobsKept == ASSUME JobsType, job' = job, time' = time PROVE JobsType'
BY DEF JobsType, JobOK, JobRow

LEMMA OtherKept ==
  ASSUME OtherType, UNCHANGED <<time, served, reported, crashes>>
  PROVE  OtherType'
BY DEF OtherType, ServedRow

\* A worker that begins has nothing yet.
LEMMA FreshJob ==
  ASSUME time \in 0..MaxTime, NEW k \in Key, NEW pc \in {"size", "query", "mark"},
         pc = "mark" <=> k \in Error
  PROVE  JobOK([pc |-> pc, key |-> k, made |-> 0, since |-> time])
<1>1. 0 \in 0..time /\ time \in 0..time /\ time <= time + 1 /\ k # NoKey
  BY BoundAssumption, KeyAssumption
<1> QED BY <1>1 DEF JobOK, JobRow, Key

LEMMA GetType ==
  ASSUME IType, NEW w \in Worker, NEW k \in Copy, Get(w, k)
  PROVE  IType'
<1>1. k \in Key /\ k \notin Error
  BY KeyAssumption DEF Key
<1>2. CASE Live(k)
  <2>1. store[k].made \in 0..time
    BY <1>1 DEF IType, StoreType, StoreRow
  <2>2. OtherType'
    BY <1>2, <2>1, ServeType DEF Get, IType
  <2> QED BY <1>2, <2>2, StoreKept, JobsKept DEF Get, IType
<1>3. CASE ~ Live(k)
  <2> DEFINE j == [pc |-> IF k \in ListKey THEN "size" ELSE "query",
                   key |-> k, made |-> 0, since |-> time]
  <2>1. JobOK(j)
    BY <1>1, FreshJob DEF IType, OtherType
  <2>2. job' = [job EXCEPT ![w] = j]
    BY <1>3 DEF Get
  <2> HIDE DEF j
  <2>3. JobsType'
    BY <2>1, <2>2, JobUpdate DEF IType, Get
  <2> QED BY <1>3, <2>3, StoreKept, OtherKept DEF Get, IType
<1> QED BY <1>2, <1>3

LEMMA FailType ==
  ASSUME IType, NEW w \in Worker, NEW e \in Error, Fail(w, e)
  PROVE  IType'
<1> DEFINE j == [pc |-> "mark", key |-> e, made |-> 0, since |-> time]
<1>1. JobOK(j)
  BY FreshJob DEF IType, OtherType, Key
<1>2. job' = [job EXCEPT ![w] = j]
  BY DEF Fail
<1> HIDE DEF j
<1>3. JobsType'
  BY <1>1, <1>2, JobUpdate DEF IType, Fail
<1> QED BY <1>3, StoreKept, OtherKept DEF Fail, IType

LEMMA SizeType ==
  ASSUME IType, NEW w \in Worker, Size(w)
  PROVE  IType'
<1>1. JobsType'
  BY EndJob, GotoJob DEF Size
<1>2. time \in 0..time
  BY BoundAssumption DEF IType, OtherType
<1>3. OtherType'
  BY <1>2, ServeType, OtherKept DEF Size, IType
<1> QED BY <1>1, <1>3, StoreKept DEF Size, IType

LEMMA QueryType ==
  ASSUME IType, NEW w \in Worker, Query(w)
  PROVE  IType'
<1> DEFINE j == [job[w] EXCEPT !.pc = "set", !.made = time]
<1>1. job' = [job EXCEPT ![w] = j]
  BY DEF Query, IType, JobsType
<1>2. JobOK(job[w]) /\ time \in 0..time
  BY BoundAssumption DEF IType, JobsType, OtherType
<1>3. JobOK(j)
  <2>1. job[w] \in JobRow /\ job[w].key \in Copy /\ time <= job[w].since + 1
    BY <1>2 DEF JobOK, Query
  <2>2. job[w].key # NoKey
    BY <2>1, KeyAssumption DEF Key
  <2>3. job[w].since <= time
    BY <1>2, <2>1, BoundAssumption DEF JobRow, IType, OtherType
  <2>4. /\ j \in JobRow /\ j.pc = "set" /\ j.key = job[w].key /\ j.since = job[w].since
        /\ j.made = time
    BY <1>2, <2>1 DEF JobRow
  <2> HIDE DEF j
  <2> QED BY <2>1, <2>2, <2>3, <2>4 DEF JobOK
<1> HIDE DEF j
<1>4. JobsType'
  BY <1>1, <1>3, JobUpdate DEF IType, Query
<1> QED BY <1>4, StoreKept, OtherKept DEF Query, IType

\* What a worker that stores has in hand.
LEMMA StoringFacts ==
  ASSUME IType, NEW w \in Worker, job[w].pc \in {"set", "expire", "mark", "report"}
  PROVE  /\ job[w].key \in Key /\ job[w].made \in 0..time /\ job[w].since \in 0..time
         /\ time \in 0..MaxTime /\ time <= job[w].since + 1
         /\ job[w].pc \in {"set", "expire"} => job[w].since <= job[w].made /\ job[w].key \in Copy
         /\ job[w].pc \in {"mark", "report"} => job[w].key \in Error
         /\ Never \in 0..Never /\ time + Lifetime \in 0..Never /\ time + MarkLifetime \in 0..Never
BY NeverType DEF IType, JobsType, JobOK, JobRow, OtherType, Key

LEMMA SetType ==
  ASSUME IType, NEW w \in Worker, Set(w)
  PROVE  IType' /\ \A l \in Key : store'[l] =
           IF l = job[w].key THEN [made |-> job[w].made, expires |-> Never] ELSE store[l]
<1> DEFINE entry == [made |-> job[w].made, expires |-> Never]
<1>1. entry \in StoreRow /\ job[w].key \in Key
  BY StoringFacts DEF Set, StoreRow
<1>2. StoreType' /\ \A l \in Key : store'[l] = IF l = job[w].key THEN entry ELSE store[l]
  BY <1>1, StoreUpdate DEF Set, IType
<1>3. JobsType'
  BY GotoJob DEF Set
<1> QED BY <1>2, <1>3, OtherKept DEF Set, IType

LEMMA ExpireType ==
  ASSUME IType, NEW w \in Worker, Expire(w)
  PROVE  IType' /\ \A l \in Key : store'[l] =
           IF l = job[w].key /\ Live(l) THEN [store[l] EXCEPT !.expires = time + Lifetime]
           ELSE store[l]
<1>1. PICK k \in Key : k = job[w].key
  BY StoringFacts DEF Expire
<1> DEFINE entry == IF Live(k) THEN [store[k] EXCEPT !.expires = time + Lifetime] ELSE store[k]
<1>2. entry \in StoreRow
  BY StoringFacts DEF Expire, StoreRow, IType, StoreType
<1>3. store' = [store EXCEPT ![k] = entry]
  BY <1>1 DEF Expire, IType, StoreType
<1>4. StoreType' /\ \A l \in Key : store'[l] = IF l = k THEN entry ELSE store[l]
  <2> HIDE DEF entry
  <2> QED BY <1>2, <1>3, StoreUpdate DEF Expire, IType
<1>5. JobsType'
  BY EndJob DEF Expire
<1>6. OtherType'
  BY StoringFacts, ServeType DEF Expire, IType
<1> QED BY <1>1, <1>4, <1>5, <1>6 DEF IType

LEMMA SetFeedType ==
  ASSUME IType, NEW w \in Worker, SetFeed(w)
  PROVE  IType' /\ \A l \in Key : store'[l] =
           IF l = job[w].key THEN [made |-> job[w].made, expires |-> time + Lifetime] ELSE store[l]
<1> DEFINE entry == [made |-> job[w].made, expires |-> time + Lifetime]
<1>1. entry \in StoreRow /\ job[w].key \in Key
  BY StoringFacts DEF SetFeed, StoreRow
<1>2. StoreType' /\ \A l \in Key : store'[l] = IF l = job[w].key THEN entry ELSE store[l]
  BY <1>1, StoreUpdate DEF SetFeed, IType
<1>3. JobsType'
  BY EndJob DEF SetFeed
<1>4. OtherType'
  BY StoringFacts, ServeType DEF SetFeed, IType
<1> QED BY <1>2, <1>3, <1>4 DEF IType

LEMMA MarkType ==
  ASSUME IType, NEW w \in Worker, Mark(w)
  PROVE  IType' /\ \A l \in Key : store'[l] =
           IF l = job[w].key THEN [made |-> time, expires |-> time + MarkLifetime] ELSE store[l]
<1> DEFINE entry == [made |-> time, expires |-> time + MarkLifetime]
<1>1. entry \in StoreRow /\ job[w].key \in Key
  <2>1. time \in 0..time
    BY BoundAssumption DEF IType, OtherType
  <2> QED BY <2>1, StoringFacts DEF Mark, StoreRow
<1>2. StoreType' /\ \A l \in Key : store'[l] = IF l = job[w].key THEN entry ELSE store[l]
  BY <1>1, StoreUpdate DEF Mark, IType
<1>3. JobsType'
  BY GotoJob DEF Mark
<1> QED BY <1>2, <1>3, OtherKept DEF Mark, IType

LEMMA ReportType ==
  ASSUME IType, NEW w \in Worker, Report(w)
  PROVE  IType'
<1>1. JobsType'
  BY EndJob DEF Report
<1>2. reported' \in [Error -> 0..MaxReport]
  <2>1. job[w].key \in Error
    BY StoringFacts DEF Report
  <2>2. reported[job[w].key] + 1 \in 0..MaxReport
    BY <2>1, BoundAssumption DEF Report, IType, OtherType
  <2> QED BY <2>1, <2>2 DEF Report, IType, OtherType
<1>3. OtherType'
  BY <1>2 DEF Report, IType, OtherType, ServedRow
<1> QED BY <1>1, <1>3, StoreKept DEF Report, IType

LEMMA TickType ==
  ASSUME IType, Tick
  PROVE  IType'
<1>1. time \in Nat /\ time' = time + 1 /\ time' \in 0..MaxTime /\ 0..time \subseteq 0..time'
  BY BoundAssumption DEF Tick, IType, OtherType
<1>2. JobsType'
  <2>1. \A w \in Worker : JobOK(job[w]) /\ (job[w].pc # "idle" => job[w].since = time)
    BY DEF Tick, IType, JobsType
  <2>2. \A w \in Worker : job[w] \in JobRow'
    BY <1>1, <2>1 DEF JobOK, JobRow
  <2>3. \A w \in Worker : JobOK(job[w])'
    BY <1>1, <2>1, <2>2 DEF JobOK, Tick
  <2> QED BY <2>2, <2>3 DEF Tick, IType, JobsType
<1>3. StoreType'
  <2>1. \A k \in Key : store[k] \in StoreRow' /\ Absent \in StoreRow'
    BY <1>1, NeverType DEF IType, StoreType, StoreRow, Absent
  <2> QED BY <2>1 DEF Tick, StoreType
<1>4. OtherType'
  <2>1. \A w \in Worker : served[w] \in ServedRow'
    BY <1>1 DEF IType, OtherType, ServedRow
  <2>2. served' \in [Worker -> ServedRow']
    BY <2>1 DEF Tick, IType, OtherType
  <2>3. reported' \in [Error -> 0..MaxReport]
    BY BoundAssumption DEF Tick, IType, OtherType
  <2> QED BY <1>1, <2>2, <2>3 DEF Tick, IType, OtherType
<1> QED BY <1>2, <1>3, <1>4 DEF IType

LEMMA CrashType ==
  ASSUME IType, NEW w \in Worker, Crash(w)
  PROVE  IType'
<1>1. JobsType'
  BY EndJob DEF Crash
<1>2. crashes' \in 0..MaxCrash
  BY BoundAssumption DEF Crash, IType, OtherType
<1> QED BY <1>1, <1>2, StoreKept DEF Crash, IType, OtherType, ServedRow

LEMMA StepType == IType /\ [Next]_vars => IType'
<1> SUFFICES ASSUME IType, [Next]_vars PROVE IType'
  OBVIOUS
<1>1. CASE UNCHANGED vars
  BY <1>1, StoreKept, JobsKept, OtherKept DEF vars, IType
<1> QED BY <1>1, GetType, FailType, SizeType, QueryType, SetType, ExpireType, SetFeedType,
           MarkType, ReportType, TickType, CrashType DEF Next

\* Redis, the workers and the history have their types, and what a worker has
\* in hand belongs to what it does.
THEOREM TypeCorrect == Spec => []TypeOK
<1>1. Init => IType
  BY InitType
<1>2. IType /\ [Next]_vars => IType'
  BY StepType
<1>3. IType => TypeOK
  BY ITypeGivesType
<1> QED BY <1>1, <1>2, <1>3, PTL DEF Spec

-----------------------------------------------------------------------------
(* How old copies get. *)

Expiring(w, k) == job[w].pc = "expire" /\ job[w].key = k

\* A copy without a lifetime is about to get one.
LifetimesAreSet ==
    \A k \in Copy : Live(k) =>
      \/ store[k].expires <= store[k].made + Lifetime + 2
      \/ \E w \in Worker : Expiring(w, k)
\* Who is about to set it stored the copy or has seen it replaced by one that
\* is not much older than its own request.
ReplacedInTime ==
    \A w \in Worker, k \in Copy :
      Expiring(w, k) /\ Live(k) => job[w].since <= store[k].made + 1

IFresh == Fresh /\ LifetimesAreSet /\ ReplacedInTime

LEMMA InitFresh == Init => IFresh
<1> SUFFICES ASSUME Init PROVE IFresh
  OBVIOUS
<1>1. \A k \in Copy : ~ Live(k)
  BY DEF Init, Live, Absent, Key
<1>2. \A w \in Worker : served[w].at = 0 /\ served[w].made = 0
  BY DEF Init, Nothing
<1> QED BY <1>1, <1>2, BoundAssumption DEF IFresh, Fresh, LifetimesAreSet, ReplacedInTime

\* The numbers an inequality is about.
LEMMA Numbers ==
  ASSUME IType
  PROVE  /\ time \in Nat /\ Lifetime \in Nat /\ Lifetime > 0
         /\ \A k \in Copy : k \in Key /\ store[k].made \in Nat /\ store[k].expires \in Nat
         /\ \A w \in Worker : /\ job[w].made \in Nat /\ job[w].since \in Nat
                              /\ served[w].made \in Nat /\ served[w].at \in Nat
                              /\ job[w].made <= time
BY BoundAssumption DEF IType, JobsType, StoreType, OtherType, StoreRow, JobRow, ServedRow, Key

\* A copy that can be served is young enough.
LEMMA LiveIsFresh ==
  ASSUME IType, IFresh, NEW k \in Copy, Live(k)
  PROVE  time <= store[k].made + Lifetime + 1
<1>1. CASE store[k].expires <= store[k].made + Lifetime + 2
  BY <1>1, Numbers DEF Live
<1>2. ASSUME NEW w \in Worker, Expiring(w, k)
      PROVE  time <= store[k].made + Lifetime + 1
  <2>1. job[w].since <= store[k].made + 1
    BY <1>2 DEF IFresh, ReplacedInTime
  <2>2. time <= job[w].since + 1
    BY <1>2, StoringFacts DEF Expiring
  <2> QED BY <2>1, <2>2, Numbers
<1> QED BY <1>1, <1>2 DEF IFresh, LifetimesAreSet

\* A step that serves one answer that is young enough.
LEMMA ServedFresh ==
  ASSUME IType, IFresh, NEW w \in Worker, NEW made \in 0..time, Serve(w, made),
         time <= made + Lifetime + 1
  PROVE  Fresh'
<1>1. \A v \in Worker :
        served'[v] = IF v = w THEN [made |-> made, at |-> time] ELSE served[v]
  BY DEF Serve, IType, OtherType
<1> QED BY <1>1 DEF IFresh, Fresh

LEMMA ServedKept == ASSUME IFresh, served' = served PROVE Fresh'
BY DEF IFresh, Fresh

\* A step that leaves the copies alone and neither begins nor ends an EXPIRE.
LEMMA CopiesKept ==
  ASSUME IType, IFresh, Fresh', time' = time,
         \A k \in Copy : store'[k] = store[k],
         \A w \in Worker : \/ job'[w] = job[w]
                           \/ job[w].pc # "expire" /\ job'[w].pc # "expire"
  PROVE  IFresh'
<1>1. \A k \in Copy : Live(k)' <=> Live(k)
  BY DEF Live
<1>2. \A w \in Worker, k \in Copy : Expiring(w, k)' <=> Expiring(w, k)
  BY DEF Expiring
<1>3. \A w \in Worker, k \in Copy : Expiring(w, k) => job'[w] = job[w]
  BY DEF Expiring
<1>4. LifetimesAreSet'
  BY <1>1, <1>2 DEF IFresh, LifetimesAreSet
<1>5. ReplacedInTime'
  BY <1>1, <1>2, <1>3 DEF IFresh, ReplacedInTime
<1> QED BY <1>4, <1>5 DEF IFresh

\* A request that is at work began no earlier than one tick ago.
LEMMA BusySince ==
  ASSUME IType, NEW w \in Worker, job[w].pc \in {"set", "expire"}
  PROVE  time <= job[w].since + 1 /\ job[w].since <= job[w].made /\ job[w].made <= time
         /\ job[w].made \in 0..time
BY StoringFacts, Numbers

LEMMA SetFresh ==
  ASSUME IType, IFresh, NEW w \in Worker, Set(w)
  PROVE  IFresh'
<1>0. job[w].pc = "set" /\ job[w].key \in Copy /\ job[w].key \in Key
  BY StoringFacts DEF Set
<1>1. \A l \in Key : store'[l] =
           IF l = job[w].key THEN [made |-> job[w].made, expires |-> Never] ELSE store[l]
  BY SetType
<1>2. \A v \in Worker : job'[v] = IF v = w THEN [job[w] EXCEPT !.pc = "expire"] ELSE job[v]
  BY <1>0, GotoJob DEF Set
<1>3. time' = time /\ served' = served
  BY DEF Set
<1>4. job'[w].pc = "expire" /\ job'[w].key = job[w].key /\ job'[w].since = job[w].since
  BY <1>2 DEF IType, JobsType, JobRow
<1>5. LifetimesAreSet'
  <2> SUFFICES ASSUME NEW k \in Copy, Live(k)'
               PROVE  \/ store'[k].expires <= store'[k].made + Lifetime + 2
                      \/ \E v \in Worker : Expiring(v, k)'
    BY DEF LifetimesAreSet
  <2>1. CASE k = job[w].key
    BY <1>4, <2>1 DEF Expiring
  <2>2. CASE k # job[w].key
    <3>1. store'[k] = store[k] /\ Live(k)
      BY <1>1, <1>3, <2>2 DEF Live, Key
    <3>2. \A v \in Worker : Expiring(v, k) => Expiring(v, k)'
      BY <1>0, <1>2 DEF Expiring
    <3> QED BY <3>1, <3>2 DEF IFresh, LifetimesAreSet
  <2> QED BY <2>1, <2>2
<1>6. ReplacedInTime'
  <2> SUFFICES ASSUME NEW v \in Worker, NEW k \in Copy, Expiring(v, k)', Live(k)'
               PROVE  job'[v].since <= store'[k].made + 1
    BY DEF ReplacedInTime
  <2>1. CASE k = job[w].key
    <3>1. store'[k].made = job[w].made
      BY <1>0, <1>1, <2>1
    <3>2. job'[v].since \in Nat /\ job'[v].since <= time
      <4>1. IType'
        BY SetType
      <4> QED BY <1>3, <4>1, BoundAssumption DEF IType, JobsType, JobRow, OtherType
    <3>3. time <= job[w].since + 1 /\ job[w].since <= job[w].made
      BY <1>0, BusySince
    <3> QED BY <3>1, <3>2, <3>3, Numbers
  <2>2. CASE k # job[w].key
    <3>1. v # w
      BY <1>4, <2>2 DEF Expiring
    <3>2. store'[k] = store[k] /\ Live(k)
      BY <1>1, <1>3, <2>2 DEF Live, Key
    <3>3. job'[v] = job[v] /\ Expiring(v, k)
      BY <1>2, <3>1 DEF Expiring
    <3> QED BY <3>2, <3>3 DEF IFresh, ReplacedInTime
  <2> QED BY <2>1, <2>2
<1> QED BY <1>3, <1>5, <1>6, ServedKept DEF IFresh

\* A copy gets its lifetime: by EXPIRE, or by the SET of a feed.
LEMMA LifetimeFresh ==
  ASSUME IType, IFresh, NEW w \in Worker, Expire(w) \/ SetFeed(w)
  PROVE  IFresh'
<1>0. job[w].pc \in {"set", "expire"} /\ time' = time
  BY DEF Expire, SetFeed
<1>1. \A v \in Worker : job'[v] = IF v = w THEN Idle ELSE job[v]
  BY <1>0, EndJob DEF Expire, SetFeed
<1>2. Fresh'
  BY <1>0, BusySince, ServedFresh, Numbers DEF Expire, SetFeed
<1>3. \A k \in Copy \ {job[w].key} : store'[k] = store[k]
  BY ExpireType, SetFeedType DEF Key
<1>4. ASSUME NEW k \in Copy, k = job[w].key, Live(k)'
      PROVE  /\ store'[k].expires <= store'[k].made + Lifetime + 2
             /\ time <= store'[k].made + 1 \/ (Live(k) /\ store'[k].made = store[k].made)
  <2>1. k \in Key
    BY DEF Key
  <2>2. CASE SetFeed(w)
    <3>1. store'[k] = [made |-> job[w].made, expires |-> time + Lifetime]
      BY <1>4, <2>1, <2>2, SetFeedType
    <3> QED BY <1>0, <3>1, BusySince, Numbers
  <2>3. CASE Expire(w)
    <3>1. Live(k) /\ store'[k] = [store[k] EXCEPT !.expires = time + Lifetime]
      BY <1>0, <1>4, <2>1, <2>3, ExpireType DEF Live
    <3>2. store'[k].made = store[k].made /\ store'[k].expires = time + Lifetime
      BY <2>1, <3>1 DEF IType, StoreType, StoreRow
    <3>3. job[w].since <= store[k].made + 1
      BY <1>4, <2>3, <3>1 DEF IFresh, ReplacedInTime, Expiring, Expire
    <3>4. time <= job[w].since + 1
      BY <1>0, BusySince
    <3> QED BY <3>1, <3>2, <3>3, <3>4, Numbers
  <2> QED BY <2>2, <2>3
<1>5. \A v \in Worker, k \in Copy : Expiring(v, k)' => v # w /\ Expiring(v, k) /\ job'[v] = job[v]
  BY <1>1, IdleType DEF Expiring, IType, OtherType
<1>6. LifetimesAreSet'
  <2> SUFFICES ASSUME NEW k \in Copy, Live(k)', k # job[w].key
               PROVE  \/ store'[k].expires <= store'[k].made + Lifetime + 2
                      \/ \E v \in Worker : Expiring(v, k)'
    BY <1>4 DEF LifetimesAreSet
  <2>1. store'[k] = store[k] /\ Live(k)
    BY <1>0, <1>3 DEF Live
  <2>2. \A v \in Worker : Expiring(v, k) => Expiring(v, k)'
    BY <1>1 DEF Expiring
  <2> QED BY <2>1, <2>2 DEF IFresh, LifetimesAreSet
<1>7. ReplacedInTime'
  <2> SUFFICES ASSUME NEW v \in Worker, NEW k \in Copy, Expiring(v, k)', Live(k)'
               PROVE  job'[v].since <= store'[k].made + 1
    BY DEF ReplacedInTime
  <2>1. v # w /\ Expiring(v, k) /\ job'[v] = job[v] /\ job[v].since \in Nat
    BY <1>5, Numbers
  <2>2. CASE k # job[w].key
    <3>1. store'[k] = store[k] /\ Live(k)
      BY <1>0, <1>3, <2>2 DEF Live
    <3> QED BY <2>1, <3>1 DEF IFresh, ReplacedInTime
  <2>3. CASE k = job[w].key
    <3>1. job[v].since <= time
      BY BoundAssumption DEF IType, JobsType, JobRow, OtherType
    <3>2. CASE Live(k) /\ store'[k].made = store[k].made
      BY <2>1, <3>2 DEF IFresh, ReplacedInTime
    <3>3. CASE time <= store'[k].made + 1
      <4>1. store'[k].made \in Nat
        <5>1. IType'
          BY ExpireType, SetFeedType
        <5> QED BY <1>0, <5>1, BoundAssumption DEF IType, StoreType, StoreRow, OtherType, Key
      <4> QED BY <2>1, <3>1, <3>3, <4>1, Numbers
    <3> QED BY <1>4, <2>3, <3>2, <3>3
  <2> QED BY <2>2, <2>3
<1> QED BY <1>2, <1>6, <1>7 DEF IFresh

\* Steps that store no copy.
LEMMA ReadingFresh ==
  ASSUME IType, IFresh, NEW w \in Worker,
         \/ \E k \in Copy : Get(w, k)
         \/ \E e \in Error : Fail(w, e)
         \/ Size(w) \/ Query(w) \/ Mark(w) \/ Report(w)
  PROVE  IFresh'
<1>1. time' = time
  BY DEF Get, Fail, Size, Query, Mark, Report
<1>2. \A k \in Copy : store'[k] = store[k]
  <2>1. CASE Mark(w)
    <3>1. job[w].key \in Error
      BY <2>1, StoringFacts DEF Mark
    <3> QED BY <2>1, <3>1, MarkType, KeyAssumption DEF Key
  <2>2. CASE ~ Mark(w)
    BY <2>2 DEF Get, Fail, Size, Query, Report
  <2> QED BY <2>1, <2>2
<1>3. \A v \in Worker : v # w => job'[v] = job[v]
  BY DEF Get, Fail, Size, Query, Mark, Report, Goto, End, IType, JobsType
<1>4. job'[w] = job[w] \/ (job[w].pc # "expire" /\ job'[w].pc # "expire")
  <2>1. CASE \E k \in Copy : Get(w, k)
    BY <2>1 DEF Get, IType, JobsType
  <2>2. CASE \E e \in Error : Fail(w, e)
    BY <2>2 DEF Fail, IType, JobsType
  <2>3. CASE Size(w)
    BY <2>3, EndJob, GotoJob, IdleType DEF Size, IType, OtherType, JobsType, JobRow
  <2>4. CASE Query(w)
    BY <2>4 DEF Query, IType, JobsType, JobRow
  <2>5. CASE Mark(w)
    BY <2>5, GotoJob DEF Mark, IType, JobsType, JobRow
  <2>6. CASE Report(w)
    BY <2>6, EndJob, IdleType DEF Report, IType, OtherType
  <2> QED BY <2>1, <2>2, <2>3, <2>4, <2>5, <2>6
<1>5. Fresh'
  <2>1. CASE \E k \in Copy : Get(w, k) /\ Live(k)
    <3>1. PICK k \in Copy : Get(w, k) /\ Live(k)
      BY <2>1
    <3>2. store[k].made \in 0..time
      BY DEF IType, StoreType, StoreRow, Key
    <3>3. Serve(w, store[k].made)
      BY <3>1 DEF Get
    <3> QED BY <3>1, <3>2, <3>3, LiveIsFresh, ServedFresh
  <2>2. CASE Size(w)
    <3>1. time \in 0..time /\ time <= time + Lifetime + 1
      BY Numbers
    <3> QED BY <2>2, <3>1, ServedFresh, ServedKept DEF Size
  <2>3. CASE served' = served
    BY <2>3, ServedKept
  <2> QED BY <2>1, <2>2, <2>3 DEF Get, Fail, Query, Mark, Report
<1> QED BY <1>1, <1>2, <1>3, <1>4, <1>5, CopiesKept

LEMMA TickFresh ==
  ASSUME IType, IFresh, Tick
  PROVE  IFresh'
<1>1. time' = time + 1 /\ job' = job /\ served' = served
  BY DEF Tick
<1>2. \A k \in Copy : store'[k] = IF store[k].expires > time' THEN store[k] ELSE Absent
  BY DEF Tick, Key
<1>3. \A k \in Copy : Live(k)' => Live(k) /\ store'[k] = store[k]
  BY <1>1, <1>2, Numbers DEF Live, Absent
<1>4. LifetimesAreSet'
  BY <1>1, <1>3 DEF IFresh, LifetimesAreSet, Expiring
<1>5. ReplacedInTime'
  BY <1>1, <1>3 DEF IFresh, ReplacedInTime, Expiring
<1> QED BY <1>1, <1>4, <1>5, ServedKept DEF IFresh

LEMMA StepFresh ==
  ASSUME MaxCrash = 0
  PROVE  IType /\ IFresh /\ [Next]_vars => IFresh'
<1> SUFFICES ASSUME IType, IFresh, [Next]_vars PROVE IFresh'
  OBVIOUS
<1>1. CASE UNCHANGED vars
  BY <1>1 DEF vars, IFresh, Fresh, LifetimesAreSet, ReplacedInTime, Expiring, Live
<1>2. ASSUME NEW w \in Worker, Crash(w) PROVE FALSE
  BY <1>2 DEF Crash, IType, OtherType
<1> QED BY <1>1, <1>2, ReadingFresh, SetFresh, LifetimeFresh, TickFresh DEF Next

\* Unless a worker is killed between SET and EXPIRE, nothing that is served is
\* older than its lifetime and the tick of a request, however many workers
\* store a copy at once and set each other's lifetimes.
THEOREM ServedAreFresh ==
  ASSUME MaxCrash = 0
  PROVE  Spec => []Fresh
<1>1. Init => IType /\ IFresh
  BY InitType, InitFresh
<1>2. IType /\ IFresh /\ [Next]_vars => IType' /\ IFresh'
  BY StepType, StepFresh
<1>3. IFresh => Fresh
  BY DEF IFresh
<1> QED BY <1>1, <1>2, <1>3, PTL DEF Spec

-----------------------------------------------------------------------------
(* How often an error is reported. *)

Waiting(e) == {w \in Worker : job[w].key = e}

\* While an error is marked nobody joins those who are to report it, and the
\* mark outlives each of them.
IReported ==
    /\ \A e \in Error : /\ reported[e] + Cardinality(Waiting(e)) <= Cardinality(Worker)
                        /\ ~ Live(e) => reported[e] = 0
    /\ \A w \in Worker : job[w].pc = "report" => store[job[w].key].expires >= job[w].since + 2

LEMMA WorkerSets ==
  ASSUME NEW S, NEW T, S \subseteq T, T \subseteq Worker
  PROVE  /\ IsFiniteSet(S) /\ Cardinality(S) \in Nat /\ Cardinality(T) \in Nat
         /\ Cardinality(S) <= Cardinality(T) /\ Cardinality(T) <= Cardinality(Worker)
         /\ Cardinality(Worker) \in Nat
<1>1. IsFiniteSet(T) /\ Cardinality(T) <= Cardinality(Worker)
  BY KeyAssumption, FS_Subset
<1>2. IsFiniteSet(S) /\ Cardinality(S) <= Cardinality(T)
  BY <1>1, FS_Subset
<1> QED BY <1>1, <1>2, KeyAssumption, FS_CardinalityType

LEMMA ReportNumbers ==
  ASSUME IType
  PROVE  \A e \in Error : /\ reported[e] \in Nat /\ e \in Key /\ store[e].expires \in Nat
BY BoundAssumption, NeverType DEF IType, OtherType, StoreType, StoreRow, Key

LEMMA InitReported == Init => IReported
<1> SUFFICES ASSUME Init PROVE IReported
  OBVIOUS
<1>1. \A w \in Worker : job[w] = Idle /\ Idle.pc = "idle"
  BY DEF Init, Idle
<1>2. ASSUME NEW e \in Error
      PROVE  reported[e] = 0 /\ Cardinality(Waiting(e)) <= Cardinality(Worker)
                             /\ Cardinality(Waiting(e)) \in Nat
  <2>1. Waiting(e) \subseteq Worker
    BY DEF Waiting
  <2> QED BY <2>1, WorkerSets DEF Init
<1> QED BY <1>1, <1>2 DEF IReported

\* A step that is not about errors, or ends a worker.
LEMMA ErrorsKept ==
  ASSUME IType, IReported, time' = time, reported' = reported,
         \A e \in Error : store'[e] = store[e],
         \A w \in Worker : /\ job'[w].key \in Error => job'[w].key = job[w].key
                           /\ job'[w].pc = "report" => job'[w] = job[w]
  PROVE  IReported'
<1>1. ASSUME NEW e \in Error
      PROVE  /\ reported'[e] + Cardinality(Waiting(e)') <= Cardinality(Worker)
             /\ ~ Live(e)' => reported'[e] = 0
  <2>1. Waiting(e)' \subseteq Waiting(e) /\ Waiting(e) \subseteq Worker
    BY DEF Waiting
  <2>2. Cardinality(Waiting(e)') <= Cardinality(Waiting(e))
    BY <2>1, WorkerSets
  <2>3. Cardinality(Waiting(e)') \in Nat /\ Cardinality(Waiting(e)) \in Nat
        /\ Cardinality(Worker) \in Nat
    BY <2>1, WorkerSets
  <2>4. reported[e] + Cardinality(Waiting(e)) <= Cardinality(Worker) /\ reported[e] \in Nat
    BY ReportNumbers DEF IReported
  <2> QED BY <2>2, <2>3, <2>4 DEF IReported, Live
<1>2. ASSUME NEW w \in Worker, job'[w].pc = "report"
      PROVE  store'[job'[w].key].expires >= job'[w].since + 2
  <2>1. job[w].key \in Error
    BY <1>2, StoringFacts
  <2> QED BY <1>2, <2>1 DEF IReported
<1> QED BY <1>1, <1>2 DEF IReported

LEMMA CopyingReported ==
  ASSUME IType, IReported, NEW w \in Worker,
         \/ \E k \in Copy : Get(w, k)
         \/ Size(w) \/ Query(w) \/ Set(w) \/ Expire(w) \/ SetFeed(w) \/ Crash(w)
  PROVE  IReported'
<1>1. time' = time /\ reported' = reported
  BY DEF Get, Size, Query, Set, Expire, SetFeed, Crash
<1>2. \A e \in Error : store'[e] = store[e]
  <2>1. CASE Set(w) \/ Expire(w) \/ SetFeed(w)
    <3>1. job[w].key \in Copy
      BY <2>1, StoringFacts DEF Set, Expire, SetFeed
    <3> QED BY <2>1, <3>1, SetType, ExpireType, SetFeedType, KeyAssumption DEF Key
  <2>2. CASE ~ (Set(w) \/ Expire(w) \/ SetFeed(w))
    BY <2>2 DEF Get, Size, Query, Crash
  <2> QED BY <2>1, <2>2
<1>3. \A v \in Worker : v # w => job'[v] = job[v]
  BY DEF Get, Size, Query, Set, Expire, SetFeed, Crash, Goto, End, IType, JobsType
<1>4. /\ job'[w].key \in Error => job'[w].key = job[w].key
      /\ job'[w].pc = "report" => job'[w] = job[w]
  <2>1. CASE End(w)
    <3>1. job'[w] = Idle /\ Idle.key = NoKey
      BY <2>1 DEF End, IType, JobsType, Idle
    <3> QED BY <3>1, IdleType, KeyAssumption DEF IType, OtherType, Key
  <2>2. ASSUME NEW k \in Copy, Get(w, k)
        PROVE  /\ job'[w].key \in Error => job'[w].key = job[w].key
               /\ job'[w].pc = "report" => job'[w] = job[w]
    BY <2>2, KeyAssumption DEF Get, IType, JobsType
  <2>3. CASE Query(w) \/ Goto(w, "query") \/ Goto(w, "expire")
    BY <2>3 DEF Query, Goto, IType, JobsType, JobRow
  <2> QED BY <2>1, <2>2, <2>3 DEF Size, Set, Expire, SetFeed, Crash
<1> QED BY <1>1, <1>2, <1>3, <1>4, ErrorsKept

LEMMA FailReported ==
  ASSUME IType, IReported, NEW w \in Worker, NEW e \in Error, Fail(w, e)
  PROVE  IReported'
<1>1. job' = [job EXCEPT ![w] = [pc |-> "mark", key |-> e, made |-> 0, since |-> time]]
      /\ UNCHANGED <<time, store, reported>> /\ ~ Live(e)
  BY DEF Fail
<1>2. \A v \in Worker : job'[v] = IF v = w THEN [pc |-> "mark", key |-> e, made |-> 0, since |-> time]
                                  ELSE job[v]
  BY <1>1 DEF IType, JobsType
<1>3. ASSUME NEW d \in Error
      PROVE  /\ reported'[d] + Cardinality(Waiting(d)') <= Cardinality(Worker)
             /\ ~ Live(d)' => reported'[d] = 0
  <2>1. Waiting(d)' \subseteq Worker
    BY DEF Waiting
  <2>2. Cardinality(Waiting(d)') <= Cardinality(Worker) /\ Cardinality(Waiting(d)') \in Nat
        /\ Cardinality(Worker) \in Nat
    BY <2>1, WorkerSets
  <2>3. CASE d = e
    BY <1>1, <2>2, <2>3 DEF IReported, Live
  <2>4. CASE d # e
    <3>1. Waiting(d)' \subseteq Waiting(d) /\ Waiting(d) \subseteq Worker
      BY <1>2, <2>4 DEF Waiting
    <3>2. Cardinality(Waiting(d)') <= Cardinality(Waiting(d)) /\ Cardinality(Waiting(d)) \in Nat
      BY <3>1, WorkerSets
    <3> QED BY <1>1, <2>2, <3>2, ReportNumbers DEF IReported, Live
  <2> QED BY <2>3, <2>4
<1>4. \A v \in Worker : job'[v].pc = "report" => store'[job'[v].key].expires >= job'[v].since + 2
  BY <1>1, <1>2 DEF IReported
<1> QED BY <1>3, <1>4 DEF IReported

LEMMA MarkReported ==
  ASSUME IType, IReported, NEW w \in Worker, Mark(w)
  PROVE  IReported'
<1>1. job[w].pc = "mark" /\ UNCHANGED <<time, reported>>
  BY DEF Mark
<1>2. PICK e \in Error : e = job[w].key
  BY <1>1, StoringFacts
<1>3. \A l \in Key : store'[l] =
           IF l = e THEN [made |-> time, expires |-> time + MarkLifetime] ELSE store[l]
  BY <1>2, MarkType
<1>4. \A v \in Worker : job'[v] = IF v = w THEN [job[w] EXCEPT !.pc = "report"] ELSE job[v]
  BY <1>1, GotoJob DEF Mark
<1>5. \A v \in Worker : job'[v].key = job[v].key /\ job'[v].since = job[v].since
                        /\ job[v].since \in Nat /\ job[v].since <= time
  BY <1>4, BoundAssumption DEF IType, JobsType, JobRow, OtherType
<1>6. ASSUME NEW d \in Error
      PROVE  /\ reported'[d] + Cardinality(Waiting(d)') <= Cardinality(Worker)
             /\ ~ Live(d)' => reported'[d] = 0
  <2>1. Waiting(d)' = Waiting(d)
    BY <1>5 DEF Waiting
  <2>2. ~ Live(d)' => ~ Live(d)
    BY <1>1, <1>3, Numbers, BoundAssumption DEF Live, Key
  <2> QED BY <1>1, <2>1, <2>2 DEF IReported
<1>7. ASSUME NEW v \in Worker, job'[v].pc = "report"
      PROVE  store'[job'[v].key].expires >= job'[v].since + 2
  <2>1. CASE job[v].key = e
    BY <1>3, <1>5, <2>1, Numbers, BoundAssumption DEF Key
  <2>2. CASE job[v].key # e
    <3>1. v # w /\ job[v].pc = "report"
      BY <1>2, <1>4, <1>7, <2>2
    <3>2. job[v].key \in Key
      BY <3>1, StoringFacts
    <3> QED BY <1>3, <1>5, <2>2, <3>1, <3>2 DEF IReported
  <2> QED BY <2>1, <2>2
<1> QED BY <1>6, <1>7 DEF IReported

LEMMA ReportReported ==
  ASSUME IType, IReported, NEW w \in Worker, Report(w)
  PROVE  IReported'
<1>1. job[w].pc = "report" /\ UNCHANGED <<time, store>>
  BY DEF Report
<1>2. PICK e \in Error : e = job[w].key
  BY <1>1, StoringFacts
<1>3. \A v \in Worker : job'[v] = IF v = w THEN Idle ELSE job[v]
  BY <1>1, EndJob DEF Report
<1>4. \A d \in Error : reported'[d] = reported[d] \/ (d = e /\ reported'[d] = reported[d] + 1)
  BY <1>2 DEF Report, IType, OtherType
<1>5. Live(e)
  <2>1. store[e].expires >= job[w].since + 2 /\ time <= job[w].since + 1
    BY <1>1, <1>2, StoringFacts DEF IReported
  <2> QED BY <2>1, Numbers, ReportNumbers DEF Live
<1>6. ASSUME NEW d \in Error
      PROVE  /\ reported'[d] + Cardinality(Waiting(d)') <= Cardinality(Worker)
             /\ ~ Live(d)' => reported'[d] = 0
  <2>1. Waiting(d)' = Waiting(d) \ {w} /\ Waiting(d) \subseteq Worker
    <3>1. Idle.key \notin Error
      BY KeyAssumption DEF Idle, Key
    <3> QED BY <1>3, <3>1 DEF Waiting
  <2>2. IsFiniteSet(Waiting(d)) /\ Cardinality(Waiting(d)) \in Nat /\ Cardinality(Worker) \in Nat
    BY <2>1, WorkerSets
  <2>3. Cardinality(Waiting(d)') =
          IF w \in Waiting(d) THEN Cardinality(Waiting(d)) - 1 ELSE Cardinality(Waiting(d))
    BY <2>1, <2>2, FS_RemoveElement
  <2>4. reported[d] + Cardinality(Waiting(d)) <= Cardinality(Worker) /\ reported[d] \in Nat
    BY ReportNumbers DEF IReported
  <2>5. d = e => w \in Waiting(d)
    BY <1>2 DEF Waiting
  <2>6. reported'[d] + Cardinality(Waiting(d)') <= Cardinality(Worker)
    BY <1>4, <2>2, <2>3, <2>4, <2>5
  <2>7. ~ Live(d)' => reported'[d] = 0
    BY <1>1, <1>4, <1>5 DEF IReported, Live
  <2> QED BY <2>6, <2>7
<1>7. \A v \in Worker : job'[v].pc = "report" => store'[job'[v].key].expires >= job'[v].since + 2
  BY <1>1, <1>3, IdleType DEF IReported, IType, OtherType
<1> QED BY <1>6, <1>7 DEF IReported

LEMMA TickReported ==
  ASSUME IType, IReported, Tick
  PROVE  IReported'
<1>1. time' = time + 1 /\ job' = job
      /\ \A w \in Worker : job[w].pc # "idle" => job[w].since = time
  BY DEF Tick
<1>2. \A e \in Error : /\ store'[e] = IF store[e].expires > time' THEN store[e] ELSE Absent
                       /\ reported'[e] = IF store[e].expires > time' THEN reported[e] ELSE 0
  BY DEF Tick, Key
<1>3. ASSUME NEW e \in Error
      PROVE  /\ reported'[e] + Cardinality(Waiting(e)') <= Cardinality(Worker)
             /\ ~ Live(e)' => reported'[e] = 0
  <2>1. Waiting(e)' = Waiting(e) /\ Waiting(e) \subseteq Worker
    BY <1>1 DEF Waiting
  <2>2. Cardinality(Waiting(e)) \in Nat /\ Cardinality(Worker) \in Nat
    BY <2>1, WorkerSets
  <2> QED BY <1>2, <2>1, <2>2, ReportNumbers DEF IReported, Live
<1>4. ASSUME NEW w \in Worker, job'[w].pc = "report"
      PROVE  store'[job'[w].key].expires >= job'[w].since + 2
  <2>1. job[w].key \in Error /\ job[w].since = time
    BY <1>1, <1>4, StoringFacts
  <2>2. store[job[w].key].expires >= time + 2
    BY <1>1, <1>4, <2>1 DEF IReported
  <2>3. store'[job[w].key] = store[job[w].key]
    BY <1>1, <1>2, <2>1, <2>2, Numbers, ReportNumbers
  <2> QED BY <1>1, <2>1, <2>2, <2>3
<1> QED BY <1>3, <1>4 DEF IReported

LEMMA StepReported == IType /\ IReported /\ [Next]_vars => IReported'
<1> SUFFICES ASSUME IType, IReported, [Next]_vars PROVE IReported'
  OBVIOUS
<1>1. CASE UNCHANGED vars
  BY <1>1, ErrorsKept DEF vars
<1> QED BY <1>1, CopyingReported, FailReported, MarkReported, ReportReported, TickReported DEF Next

\* However often an error comes up while it is marked, no more reports of it
\* are made than there are workers.
THEOREM ErrorsAreReportedOnce == Spec => []ReportedOnce
<1>1. Init => IType /\ IReported
  BY InitType, InitReported
<1>2. IType /\ IReported /\ [Next]_vars => IType' /\ IReported'
  BY StepType, StepReported
<1>3. IType /\ IReported => ReportedOnce
  <2> SUFFICES ASSUME IType, IReported, NEW e \in Error PROVE reported[e] <= Cardinality(Worker)
    BY DEF ReportedOnce
  <2>1. Waiting(e) \subseteq Worker
    BY DEF Waiting
  <2>2. Cardinality(Waiting(e)) \in Nat /\ Cardinality(Worker) \in Nat
    BY <2>1, WorkerSets
  <2> QED BY <2>2, ReportNumbers DEF IReported
<1> QED BY <1>1, <1>2, <1>3, PTL DEF Spec

-----------------------------------------------------------------------------
(* How many search results there are. *)

Results == {k \in ListKey : Live(k)}
\* Workers that have found room for one.
Storing == {w \in Worker : job[w].pc \in {"query", "set"} /\ job[w].key \in ListKey}

IBounded == Cardinality(Results) + Cardinality(Storing) <= MaxEntries + Cardinality(Worker)

LEMMA ResultSets ==
  ASSUME NEW S, NEW T, S \subseteq T, T \subseteq Key
  PROVE  /\ IsFiniteSet(S) /\ IsFiniteSet(T)
         /\ Cardinality(S) \in Nat /\ Cardinality(T) \in Nat /\ Cardinality(S) <= Cardinality(T)
<1>1. IsFiniteSet(T)
  BY KeyAssumption, FS_Subset
<1>2. IsFiniteSet(S) /\ Cardinality(S) <= Cardinality(T)
  BY <1>1, FS_Subset
<1> QED BY <1>1, <1>2, FS_CardinalityType

LEMMA BoundNumbers ==
  /\ Cardinality(Results) \in Nat /\ Cardinality(Storing) \in Nat
  /\ Cardinality(Worker) \in Nat /\ MaxEntries \in Nat /\ IsFiniteSet(Storing)
  /\ Results \subseteq Key /\ Storing \subseteq Worker
  /\ Cardinality(Storing) <= Cardinality(Worker)
<1>1. Results \subseteq Key /\ Storing \subseteq Worker
  BY DEF Results, Storing, Key, Copy
<1> QED BY <1>1, ResultSets, WorkerSets, BoundAssumption

LEMMA InitBounded == Init => IBounded
<1> SUFFICES ASSUME Init PROVE IBounded
  OBVIOUS
<1>1. Results = {}
  BY DEF Init, Results, Live, Absent, Key, Copy
<1> QED BY <1>1, BoundNumbers, FS_EmptySet DEF IBounded

\* A step after which there are neither more results nor more workers that
\* store one.
LEMMA FewerKeepBound ==
  ASSUME IBounded, Results' \subseteq Results, Storing' \subseteq Storing
  PROVE  IBounded'
<1>1. /\ Cardinality(Results') <= Cardinality(Results) /\ Cardinality(Results') \in Nat
      /\ Cardinality(Storing') <= Cardinality(Storing) /\ Cardinality(Storing') \in Nat
  BY BoundNumbers, ResultSets, WorkerSets
<1> QED BY <1>1, BoundNumbers DEF IBounded

LEMMA SizeBounded ==
  ASSUME IType, IBounded, NEW w \in Worker, Size(w)
  PROVE  IBounded'
<1>1. Results' = Results
  BY DEF Size, Results, Live
<1>2. CASE Cardinality({k \in Key : Live(k)}) > MaxEntries
  <2>1. \A v \in Worker : job'[v] = IF v = w THEN Idle ELSE job[v]
    BY <1>2, EndJob DEF Size
  <2>2. Storing' \subseteq Storing
    BY <2>1, IdleType DEF Storing, IType, OtherType
  <2> QED BY <1>1, <2>2, FewerKeepBound
<1>3. CASE ~ (Cardinality({k \in Key : Live(k)}) > MaxEntries)
  <2> DEFINE live == {k \in Key : Live(k)}
  <2>1. Results \subseteq live /\ live \subseteq Key
    BY DEF Results, Key, Copy
  <2>2. Cardinality(Results) <= Cardinality(live) /\ Cardinality(live) \in Nat
    BY <2>1, ResultSets
  <2>3. Cardinality(Results) <= MaxEntries
    <3>1. ~ (Cardinality(live) > MaxEntries)
      BY <1>3
    <3> HIDE DEF live
    <3> QED BY <2>2, <3>1, BoundNumbers
  <2>4. Storing' \subseteq Worker
    BY DEF Storing
  <2>5. Cardinality(Storing') <= Cardinality(Worker) /\ Cardinality(Storing') \in Nat
    BY <2>4, WorkerSets
  <2> QED BY <1>1, <2>3, <2>5, BoundNumbers DEF IBounded
<1> QED BY <1>2, <1>3

\* The SET of a result takes its worker away from those who are to store one.
LEMMA SetBounded ==
  ASSUME IType, IBounded, NEW w \in Worker, Set(w), job[w].key \in ListKey
  PROVE  IBounded'
<1>1. \A v \in Worker : job'[v] = IF v = w THEN [job[w] EXCEPT !.pc = "expire"] ELSE job[v]
  BY GotoJob DEF Set
<1>2. Storing' = Storing \ {w} /\ w \in Storing
  BY <1>1 DEF Storing, Set, IType, JobsType, JobRow
<1>3. Cardinality(Storing') = Cardinality(Storing) - 1
  BY <1>2, BoundNumbers, FS_RemoveElement
<1>4. Results' \subseteq Results \cup {job[w].key}
  BY SetType DEF Set, Results, Live, Key, Copy
<1>5. Results \cup {job[w].key} \subseteq Key
  BY BoundNumbers DEF Key, Copy
<1>6. /\ Cardinality(Results') \in Nat
      /\ Cardinality(Results') <= Cardinality(Results \cup {job[w].key})
  BY <1>4, <1>5, ResultSets
<1>7. IsFiniteSet(Results)
  BY BoundNumbers, ResultSets
<1>8. /\ Cardinality(Results \cup {job[w].key}) <= Cardinality(Results) + 1
      /\ Cardinality(Results \cup {job[w].key}) \in Nat
  <2> DEFINE k == job[w].key
  <2> HIDE DEF k
  <2>1. Cardinality(Results \cup {k}) = IF k \in Results THEN Cardinality(Results)
                                                      ELSE Cardinality(Results) + 1
    BY <1>7, FS_AddElement
  <2>2. Cardinality(Results) \in Nat
    BY BoundNumbers
  <2>3. /\ Cardinality(Results \cup {k}) <= Cardinality(Results) + 1
        /\ Cardinality(Results \cup {k}) \in Nat
    BY <2>1, <2>2
  <2> QED BY <2>3 DEF k
<1> QED BY <1>3, <1>6, <1>8, BoundNumbers DEF IBounded

LEMMA OthersBounded ==
  ASSUME IType, IBounded, NEW w \in Worker,
         \/ \E k \in Copy : Get(w, k)
         \/ \E e \in Error : Fail(w, e)
         \/ Query(w) \/ (Set(w) /\ job[w].key \notin ListKey) \/ Expire(w) \/ SetFeed(w)
         \/ Mark(w) \/ Report(w) \/ Crash(w)
  PROVE  IBounded'
<1>1. \A v \in Worker : v # w => job'[v] = job[v]
  BY DEF Get, Fail, Query, Set, Expire, SetFeed, Mark, Report, Crash, Goto, End, IType, JobsType
<1>2. w \in Storing' => w \in Storing
  <2>1. ASSUME NEW k \in Copy, Get(w, k), w \in Storing' PROVE w \in Storing
    <3>1. CASE Live(k)
      BY <2>1, <3>1 DEF Get, Storing
    <3>2. CASE ~ Live(k)
      <4>1. job'[w] = [pc |-> IF k \in ListKey THEN "size" ELSE "query",
                       key |-> k, made |-> 0, since |-> time]
        BY <2>1, <3>2 DEF Get, IType, JobsType
      <4> QED BY <2>1, <4>1 DEF Storing
    <3> QED BY <3>1, <3>2
  <2>2. ASSUME NEW e \in Error, Fail(w, e) PROVE w \notin Storing'
    <3>1. job'[w] = [pc |-> "mark", key |-> e, made |-> 0, since |-> time]
      BY <2>2 DEF Fail, IType, JobsType
    <3> QED BY <3>1 DEF Storing
  <2>3. CASE End(w)
    BY <2>3, IdleType DEF End, Storing, IType, JobsType, OtherType
  <2>4. CASE Query(w)
    BY <2>4 DEF Query, Storing, IType, JobsType, JobRow
  <2>5. CASE Goto(w, "expire") \/ Goto(w, "report")
    BY <2>5 DEF Goto, Storing, IType, JobsType, JobRow
  <2> QED BY <2>1, <2>2, <2>3, <2>4, <2>5 DEF Set, Expire, SetFeed, Mark, Report, Crash
<1>3. Storing' \subseteq Storing
  BY <1>1, <1>2 DEF Storing
<1>4. \A k \in ListKey : Live(k)' => Live(k)
  <2>1. time' = time /\ \A k \in ListKey : k \in Key
    BY DEF Get, Fail, Query, Set, Expire, SetFeed, Mark, Report, Crash, Key, Copy
  <2>2. CASE Set(w) /\ job[w].key \notin ListKey
    BY <2>1, <2>2, SetType DEF Live
  <2>3. CASE Expire(w)
    BY <2>1, <2>3, ExpireType DEF Live
  <2>4. CASE SetFeed(w)
    <3>1. job[w].key \notin ListKey
      BY <2>4, KeyAssumption DEF SetFeed
    <3> QED BY <2>1, <2>4, <3>1, SetFeedType DEF Live
  <2>5. CASE Mark(w)
    <3>1. job[w].key \notin ListKey
      BY <2>5, StoringFacts, KeyAssumption DEF Mark, Copy
    <3> QED BY <2>1, <2>5, <3>1, MarkType DEF Live
  <2>6. CASE store' = store
    BY <2>1, <2>6 DEF Live
  <2> QED BY <2>2, <2>3, <2>4, <2>5, <2>6 DEF Get, Fail, Query, Report, Crash
<1>5. Results' \subseteq Results
  BY <1>4 DEF Results
<1> QED BY <1>3, <1>5, FewerKeepBound

LEMMA TickBounded ==
  ASSUME IType, IBounded, Tick
  PROVE  IBounded'
<1>1. \A k \in ListKey : Live(k)' => Live(k)
  <2>1. time' = time + 1 /\ \A k \in ListKey : k \in Copy /\ k \in Key
    BY DEF Tick, Key, Copy
  <2>2. \A k \in ListKey : store'[k] = IF store[k].expires > time' THEN store[k] ELSE Absent
    BY <2>1 DEF Tick
  <2> QED BY <2>1, <2>2, Numbers DEF Live, Absent
<1>2. Storing' = Storing /\ Results' \subseteq Results
  BY <1>1 DEF Tick, Storing, Results
<1> QED BY <1>2, FewerKeepBound

LEMMA StepBounded == IType /\ IBounded /\ [Next]_vars => IBounded'
<1> SUFFICES ASSUME IType, IBounded, [Next]_vars PROVE IBounded'
  OBVIOUS
<1>1. CASE UNCHANGED vars
  <2>1. Results' = Results /\ Storing' = Storing
    BY <1>1 DEF vars, Results, Storing, Live
  <2> QED BY <2>1, FewerKeepBound
<1> QED BY <1>1, SizeBounded, SetBounded, OthersBounded, TickBounded DEF Next

\* Workers that ask for the size at the same time exceed the maximum by no
\* more than one result each.
THEOREM ResultsStayBounded == Spec => []ResultsAreBounded
<1>1. Init => IType /\ IBounded
  BY InitType, InitBounded
<1>2. IType /\ IBounded /\ [Next]_vars => IType' /\ IBounded'
  BY StepType, StepBounded
<1>3. IBounded => ResultsAreBounded
  BY BoundNumbers DEF IBounded, ResultsAreBounded, Results
<1> QED BY <1>1, <1>2, <1>3, PTL DEF Spec

-----------------------------------------------------------------------------
(* RateLimit: histories and numbers of workers                             *)

\* A history that grows with time and says nothing yet of later ticks.
Grows(h, now) ==
    /\ h \in [0..Rate!Last -> Nat]
    /\ \A s, t \in 0..Rate!Last : s <= t => h[s] <= h[t]
    /\ \A t \in 0..Rate!Last : t > now => h[t] = h[Rate!Last]

Since(h, t) == h[Rate!Last] - h[t]
Plus(h, now) == [t \in 0..Rate!Last |-> IF t > now THEN h[t] + 1 ELSE h[t]]
Before(t) == IF t > 0 THEN t - 1 ELSE 0

Sane == Rate!WorkerAssumption /\ Rate!LimitAssumption /\ Rate!BoundAssumption

LEMMA WorkersFinite ==
  ASSUME Sane
  PROVE  IsFiniteSet(Worker) /\ Worker # {}
BY DEF Sane, Rate!WorkerAssumption, Rate!IsFiniteSet, IsFiniteSet

LEMMA TicksType ==
  ASSUME Sane
  PROVE  Rate!Last \in Nat /\ Rate!Last = MaxTime + 1 /\ MaxTime \in Nat /\ MaxAsk \in Nat
  BY DEF Rate!Last, Sane, Rate!BoundAssumption

LEMMA GrowsByOne ==
  ASSUME Sane, NEW now \in 0..MaxTime, NEW h, Grows(h, now), NEW k, k = Plus(h, now)
  PROVE  /\ Grows(k, now) /\ k[Rate!Last] = h[Rate!Last] + 1
         /\ \A t \in 0..Rate!Last : k[t] = IF t > now THEN h[t] + 1 ELSE h[t]
         /\ \A t \in 0..now : Since(k, t) = Since(h, t) + 1
<1>1. now < Rate!Last /\ Rate!Last \in 0..Rate!Last /\ now \in Nat
  BY TicksType
<1>2. \A t \in 0..Rate!Last : k[t] = (IF t > now THEN h[t] + 1 ELSE h[t]) /\ h[t] \in Nat
  BY DEF Plus, Grows
<1>3. k[Rate!Last] = h[Rate!Last] + 1
  BY <1>1, <1>2
<1>4. k \in [0..Rate!Last -> Nat]
  BY <1>2 DEF Plus
<1>5. \A s, t \in 0..Rate!Last : s <= t => k[s] <= k[t]
  <2> SUFFICES ASSUME NEW s \in 0..Rate!Last, NEW t \in 0..Rate!Last, s <= t PROVE k[s] <= k[t]
    OBVIOUS
  <2>1. h[s] <= h[t] /\ (s > now => t > now)
    BY <1>1, TicksType DEF Grows
  <2> QED
    BY <1>2, <2>1
<1>6. \A t \in 0..Rate!Last : t > now => k[t] = k[Rate!Last]
  BY <1>2, <1>3 DEF Grows
<1>7. \A t \in 0..now : Since(k, t) = Since(h, t) + 1
  <2> SUFFICES ASSUME NEW t \in 0..now PROVE Since(k, t) = Since(h, t) + 1
    OBVIOUS
  <2>1. t \in 0..Rate!Last /\ ~ (t > now)
    BY <1>1, TicksType
  <2>2. k[t] = h[t] /\ h[t] \in Nat /\ h[Rate!Last] \in Nat
    BY <1>1, <1>2, <2>1
  <2> QED
    BY <1>3, <2>2 DEF Since
<1> QED
  BY <1>2, <1>3, <1>4, <1>5, <1>6, <1>7 DEF Grows

LEMMA GrowsLater ==
  ASSUME Sane, NEW now \in 0..MaxTime, NEW h, Grows(h, now)
  PROVE  Grows(h, now + 1)
  BY TicksType DEF Grows

\* What a stretch of ticks has, and that an earlier stretch has no less.
LEMMA SinceType ==
  ASSUME Sane, NEW now \in 0..MaxTime, NEW h, Grows(h, now)
  PROVE  /\ \A t \in 0..Rate!Last : Since(h, t) \in Nat
         /\ \A s, t \in 0..Rate!Last : s <= t => Since(h, t) <= Since(h, s)
         /\ \A t \in 0..Rate!Last : t > now => Since(h, t) = 0
         /\ \A t \in 0..Rate!Last : Rate!During(h, t, now) = Since(h, t)
<1>1. now < Rate!Last /\ Rate!Last \in 0..Rate!Last /\ now \in Nat
  BY TicksType
<1>2. \A t \in 0..Rate!Last : h[t] \in Nat /\ h[t] <= h[Rate!Last]
  BY <1>1, TicksType DEF Grows
<1>3. \A s, t \in 0..Rate!Last : s <= t => h[s] <= h[t]
  BY DEF Grows
<1>4. \A t \in 0..Rate!Last : Since(h, t) \in Nat
  BY <1>1, <1>2 DEF Since
<1>5. \A s, t \in 0..Rate!Last : s <= t => Since(h, t) <= Since(h, s)
  BY <1>1, <1>2, <1>3 DEF Since
<1>6. \A t \in 0..Rate!Last : t > now => Since(h, t) = 0
  BY <1>1, <1>2 DEF Since, Grows
<1>7. h[IF now < MaxTime THEN now + 1 ELSE Rate!Last] = h[Rate!Last]
  BY <1>1, TicksType DEF Grows
<1> QED
  BY <1>4, <1>5, <1>6, <1>7 DEF Rate!During, Since

\* Workers that do one of P and began at one of N.
Doing(j, P, N) == {w \in Worker : j[w].pc \in P /\ j[w].now \in N}
Number(j, P, N) == Cardinality(Doing(j, P, N))

LEMMA NumberType ==
  ASSUME Sane, NEW j, NEW P, NEW N
  PROVE  /\ Number(j, P, N) \in 0..Cardinality(Worker) /\ IsFiniteSet(Doing(j, P, N))
         /\ Cardinality(Worker) \in Nat
<1>1. Doing(j, P, N) \subseteq Worker
  BY DEF Doing
<1>2. /\ IsFiniteSet(Doing(j, P, N)) /\ Cardinality(Doing(j, P, N)) \in Nat
      /\ Cardinality(Worker) \in Nat /\ Cardinality(Doing(j, P, N)) <= Cardinality(Worker)
  BY <1>1, WorkersFinite, FS_Subset, FS_CardinalityType
<1> QED
  BY <1>2 DEF Number

LEMMA NumberZero ==
  ASSUME Sane, NEW j, NEW P, NEW N
  PROVE  Number(j, P, N) = 0 <=> \A w \in Worker : ~ (j[w].pc \in P /\ j[w].now \in N)
<1>1. Number(j, P, N) = 0 <=> Doing(j, P, N) = {}
  BY NumberType, FS_EmptySet DEF Number
<1> QED
  BY <1>1 DEF Doing

LEMMA NumberMonotone ==
  ASSUME Sane, NEW j, NEW k, NEW P, NEW Q, NEW M, NEW N,
         \A w \in Worker : j[w].pc \in P /\ j[w].now \in M => k[w].pc \in Q /\ k[w].now \in N
  PROVE  Number(j, P, M) <= Number(k, Q, N)
<1>1. Doing(j, P, M) \subseteq Doing(k, Q, N)
  BY DEF Doing
<1> QED
  BY <1>1, NumberType, FS_Subset DEF Number

LEMMA NumberTogether ==
  ASSUME Sane, NEW j, NEW P, NEW Q, NEW N, P \cap Q = {}
  PROVE  Number(j, P \cup Q, N) = Number(j, P, N) + Number(j, Q, N)
<1>1. Doing(j, P \cup Q, N) = Doing(j, P, N) \cup Doing(j, Q, N)
  BY DEF Doing
<1>2. Doing(j, P, N) \cap Doing(j, Q, N) = {}
  BY DEF Doing
<1>3. Cardinality(Doing(j, P, N) \cap Doing(j, Q, N)) = 0
  BY <1>2, FS_EmptySet
<1>4. Cardinality(Doing(j, P \cup Q, N))
        = Cardinality(Doing(j, P, N)) + Cardinality(Doing(j, Q, N))
          - Cardinality(Doing(j, P, N) \cap Doing(j, Q, N))
  BY <1>1, NumberType, FS_Union
<1> QED
  BY <1>3, <1>4, NumberType DEF Number

LEMMA NumberBecomes ==
  ASSUME Sane, NEW j, NEW k, NEW w \in Worker, \A v \in Worker \ {w} : k[v] = j[v], NEW P, NEW N
  PROVE  Number(k, P, N) + (IF j[w].pc \in P /\ j[w].now \in N THEN 1 ELSE 0)
           = Number(j, P, N) + (IF k[w].pc \in P /\ k[w].now \in N THEN 1 ELSE 0)
<1> DEFINE A == Doing(j, P, N)
           B == Doing(k, P, N)
<1>2. /\ IsFiniteSet(A) /\ IsFiniteSet(B) /\ Cardinality(A) \in Nat /\ Cardinality(B) \in Nat
      /\ Cardinality(A) = Number(j, P, N) /\ Cardinality(B) = Number(k, P, N)
  BY NumberType DEF Number
<1>3. w \in A <=> j[w].pc \in P /\ j[w].now \in N
  BY DEF Doing
<1>4. w \in B <=> k[w].pc \in P /\ k[w].now \in N
  BY DEF Doing
<1>5. A \ {w} = B \ {w}
  BY DEF Doing
<1> HIDE DEF A, B
<1>6. w \in A => Cardinality(A \ {w}) = Cardinality(A) - 1
  BY <1>2, FS_RemoveElement
<1>7. w \notin A => A \ {w} = A
  OBVIOUS
<1>8. w \in B => Cardinality(B \ {w}) = Cardinality(B) - 1
  BY <1>2, FS_RemoveElement
<1>9. w \notin B => B \ {w} = B
  OBVIOUS
<1>10. Cardinality(A) = Cardinality(A \ {w}) + (IF w \in A THEN 1 ELSE 0)
  BY <1>2, <1>6, <1>7
<1>11. Cardinality(B) = Cardinality(B \ {w}) + (IF w \in B THEN 1 ELSE 0)
  BY <1>2, <1>8, <1>9
<1>12. Cardinality(A \ {w}) = Cardinality(B \ {w}) /\ Cardinality(A \ {w}) \in Nat
  BY <1>2, <1>5, FS_RemoveElement, FS_CardinalityType
<1>13. Cardinality(B) + (IF w \in A THEN 1 ELSE 0) = Cardinality(A) + (IF w \in B THEN 1 ELSE 0)
  BY <1>10, <1>11, <1>12
<1> QED
  BY <1>2, <1>3, <1>4, <1>13

LEMMA NumberPlus ==
  ASSUME Sane, NEW j, NEW k, NEW w \in Worker, \A v \in Worker \ {w} : k[v] = j[v], NEW P, NEW N,
         ~ (j[w].pc \in P /\ j[w].now \in N), k[w].pc \in P, k[w].now \in N
  PROVE  Number(k, P, N) = Number(j, P, N) + 1
<1>1. Number(k, P, N) + (IF j[w].pc \in P /\ j[w].now \in N THEN 1 ELSE 0)
        = Number(j, P, N) + (IF k[w].pc \in P /\ k[w].now \in N THEN 1 ELSE 0)
  BY NumberBecomes
<1> QED
  BY <1>1, NumberType

LEMMA NumberMinus ==
  ASSUME Sane, NEW j, NEW k, NEW w \in Worker, \A v \in Worker \ {w} : k[v] = j[v], NEW P, NEW N,
         j[w].pc \in P, j[w].now \in N, ~ (k[w].pc \in P /\ k[w].now \in N)
  PROVE  Number(k, P, N) + 1 = Number(j, P, N)
<1>1. Number(k, P, N) + (IF j[w].pc \in P /\ j[w].now \in N THEN 1 ELSE 0)
        = Number(j, P, N) + (IF k[w].pc \in P /\ k[w].now \in N THEN 1 ELSE 0)
  BY NumberBecomes
<1> QED
  BY <1>1, NumberType

LEMMA NumberStays ==
  ASSUME Sane, NEW j, NEW k, NEW w \in Worker, \A v \in Worker \ {w} : k[v] = j[v], NEW P, NEW N,
         j[w].pc \in P, k[w].pc \in P, k[w].now = j[w].now
  PROVE  Number(k, P, N) = Number(j, P, N)
<1>1. Doing(k, P, N) = Doing(j, P, N)
  BY DEF Doing
<1> QED
  BY <1>1 DEF Number

LEMMA NumberApart ==
  ASSUME Sane, NEW j, NEW k, NEW w \in Worker, \A v \in Worker \ {w} : k[v] = j[v], NEW P, NEW N,
         j[w].pc \notin P, k[w].pc \notin P
  PROVE  Number(k, P, N) = Number(j, P, N)
<1>1. Doing(k, P, N) = Doing(j, P, N)
  BY DEF Doing
<1> QED
  BY <1>1 DEF Number

\* The same for a step of one worker.
OthersRest(w) == \A v \in Worker \ {w} : jobs'[v] = jobs[v]

LEMMA StepPlus ==
  ASSUME Sane, NEW w \in Worker, OthersRest(w), NEW P, NEW N,
         ~ (jobs[w].pc \in P /\ jobs[w].now \in N), jobs'[w].pc \in P, jobs'[w].now \in N
  PROVE  Number(jobs', P, N) = Number(jobs, P, N) + 1
BY NumberPlus DEF OthersRest

LEMMA StepMinus ==
  ASSUME Sane, NEW w \in Worker, OthersRest(w), NEW P, NEW N,
         jobs[w].pc \in P, jobs[w].now \in N, ~ (jobs'[w].pc \in P /\ jobs'[w].now \in N)
  PROVE  Number(jobs', P, N) + 1 = Number(jobs, P, N)
BY NumberMinus DEF OthersRest

LEMMA StepStays ==
  ASSUME Sane, NEW w \in Worker, OthersRest(w), NEW P, NEW N,
         jobs[w].pc \in P, jobs'[w].pc \in P, jobs'[w].now = jobs[w].now
  PROVE  Number(jobs', P, N) = Number(jobs, P, N)
BY NumberStays DEF OthersRest

LEMMA StepApart ==
  ASSUME Sane, NEW w \in Worker, OthersRest(w), NEW P, NEW N,
         jobs[w].pc \notin P, jobs'[w].pc \notin P
  PROVE  Number(jobs', P, N) = Number(jobs, P, N)
<1>1. Doing(jobs', P, N) = Doing(jobs, P, N)
  BY DEF Doing, OthersRest
<1> QED
  BY <1>1 DEF Number

-----------------------------------------------------------------------------
(* What the requests leave in the histories.                               *)

Ticks == 0..MaxTime
ModePc == IF Redis THEN {"idle", "start", "increase", "answer"}
          ELSE {"idle", "select", "delete", "read", "write", "answer"}
Begun == {"start", "increase", "select", "delete", "read", "write", "answer"}
Uncounted == {"increase", "select", "delete", "read", "write"}
LimitRow == [start : Ticks, requests : 0..Rate!MaxCount]
LimitJob == [pc : ModePc, now : Ticks, record : LimitRow]

JobsTyped ==
    /\ jobs \in [Worker -> LimitJob]
    /\ \A w \in Worker : jobs[w].pc \in Begun => jobs[w].now = clock \/ jobs[w].now + 1 = clock

\* No more requests are under way than have begun in this tick and the last one.
HistoryOK ==
    /\ clock \in Ticks /\ Grows(asked, clock) /\ Grows(passed, clock)
    /\ \A t \in 0..Rate!Last : asked[t] <= t * MaxAsk
    /\ passed[Rate!Last] + Number(jobs, Begun, Ticks) <= asked[Rate!Last]
    /\ inWindow \in 0..passed[Rate!Last]
    /\ Number(jobs, Begun, {clock}) <= Since(asked, clock)
    /\ Number(jobs, Begun, Ticks) <= Since(asked, Before(clock))

Begins(w, q) ==
    /\ jobs[w].pc = "idle" /\ q.pc \in Begun /\ q.now = clock
    /\ jobs' = [jobs EXCEPT ![w] = q] /\ asked' = Plus(asked, clock)
    /\ Rate!During(asked, clock, clock) < MaxAsk
    /\ UNCHANGED <<clock, passed, inWindow>>

GoesOn(w, q) ==
    /\ jobs[w].pc \in Begun /\ q.pc \in Begun /\ q.now = jobs[w].now
    /\ jobs' = [jobs EXCEPT ![w] = q]
    /\ UNCHANGED <<clock, asked, passed>>

Ends(w) ==
    /\ jobs[w].pc \in Begun /\ jobs' = [jobs EXCEPT ![w] = Rate!Idle]
    /\ \/ passed' = Plus(passed, clock) /\ inWindow' = inWindow + 1
       \/ UNCHANGED <<passed, inWindow>>
    /\ UNCHANGED <<clock, asked>>

LEMMA TimesType ==
  ASSUME Sane, NEW s \in Nat, NEW t \in Nat, s <= t
  PROVE  s * MaxAsk \in Nat /\ s * MaxAsk <= t * MaxAsk /\ (s + 1) * MaxAsk = s * MaxAsk + MaxAsk
<1>1. MaxAsk \in Nat
  BY TicksType
<1>2. t = s + (t - s) /\ t - s \in Nat
  OBVIOUS
<1>3. (s + (t - s)) * MaxAsk = s * MaxAsk + (t - s) * MaxAsk
  BY <1>1, <1>2
<1>4. s * MaxAsk \in Nat /\ (t - s) * MaxAsk \in Nat
  BY <1>1, <1>2
<1> QED
  BY <1>1, <1>2, <1>3, <1>4

LEMMA BeginsKeeps ==
  ASSUME Sane, JobsTyped, HistoryOK, NEW w \in Worker, NEW q, Begins(w, q)
  PROVE  HistoryOK'
<1>1. /\ clock \in Ticks /\ Grows(asked, clock) /\ Grows(passed, clock)
      /\ \A t \in 0..Rate!Last : asked[t] <= t * MaxAsk
      /\ clock' = clock /\ passed' = passed /\ inWindow' = inWindow
  BY DEF HistoryOK, Begins
<1>2. clock \in 0..MaxTime /\ asked' = Plus(asked, clock)
  BY <1>1 DEF Ticks, Begins
<1>3. /\ Grows(asked', clock) /\ asked'[Rate!Last] = asked[Rate!Last] + 1
      /\ \A t \in 0..Rate!Last : asked'[t] = IF t > clock THEN asked[t] + 1 ELSE asked[t]
      /\ \A t \in 0..clock : Since(asked', t) = Since(asked, t) + 1
  BY <1>1, <1>2, GrowsByOne
<1>4. \A t \in 0..Rate!Last : Since(asked, t) \in Nat /\ Rate!During(asked, t, clock) = Since(asked, t)
  BY <1>1, <1>2, SinceType
<1>5. /\ Number(jobs', Begun, Ticks) = Number(jobs, Begun, Ticks) + 1
      /\ Number(jobs', Begun, {clock}) = Number(jobs, Begun, {clock}) + 1
  <2>1. jobs'[w] = q /\ \A v \in Worker \ {w} : jobs'[v] = jobs[v]
    BY DEF JobsTyped, Begins
  <2>2. ~ (jobs[w].pc \in Begun) /\ q.pc \in Begun /\ q.now = clock
    BY DEF Begins, Begun
  <2>3. OthersRest(w)
    BY <2>1 DEF OthersRest
  <2>4. Number(jobs', Begun, Ticks) = Number(jobs, Begun, Ticks) + 1
    BY <1>1, <2>1, <2>2, <2>3, StepPlus
  <2>5. Number(jobs', Begun, {clock}) = Number(jobs, Begun, {clock}) + 1
    BY <2>1, <2>2, <2>3, StepPlus
  <2> QED
    BY <2>4, <2>5
<1>6. \A t \in 0..Rate!Last : asked'[t] <= t * MaxAsk
  <2> SUFFICES ASSUME NEW t \in 0..Rate!Last PROVE asked'[t] <= t * MaxAsk
    OBVIOUS
  <2>1. CASE t > clock
    <3>1. /\ asked[t] = asked[Rate!Last] /\ clock \in 0..Rate!Last /\ clock \in Nat /\ t \in Nat
          /\ Rate!Last \in 0..Rate!Last
      BY <1>1, <1>2, <2>1, TicksType DEF Grows
    <3>2. asked[Rate!Last] - asked[clock] < MaxAsk
      BY <1>4, <3>1 DEF Begins, Since
    <3>3. asked[clock] <= clock * MaxAsk /\ asked[clock] \in Nat /\ asked[Rate!Last] \in Nat
      BY <1>1, <3>1 DEF Grows
    <3>4. (clock + 1) * MaxAsk = clock * MaxAsk + MaxAsk /\ clock * MaxAsk \in Nat
      BY <3>1, TimesType
    <3>5. (clock + 1) * MaxAsk <= t * MaxAsk /\ (clock + 1) * MaxAsk \in Nat /\ t * MaxAsk \in Nat
      BY <2>1, <3>1, TimesType
    <3> HIDE DEF Rate!Last
    <3>6. asked'[t] = asked[Rate!Last] + 1
      BY <1>3, <2>1, <3>1
    <3> QED
      BY <3>2, <3>3, <3>4, <3>5, <3>6, TicksType
  <2>2. CASE ~ (t > clock)
    BY <1>1, <1>3, <2>2
  <2> QED
    BY <2>1, <2>2
<1>7. /\ Before(clock) \in 0..clock /\ clock \in 0..clock /\ clock \in 0..Rate!Last
      /\ Before(clock) \in 0..Rate!Last
  BY <1>2, TicksType DEF Before
<1>8. /\ Since(asked', clock) = Since(asked, clock) + 1
      /\ Since(asked', Before(clock)) = Since(asked, Before(clock)) + 1
      /\ Since(asked, clock) \in Nat /\ Since(asked, Before(clock)) \in Nat
  BY <1>3, <1>4, <1>7
<1>9. /\ Number(jobs, Begun, Ticks) \in Nat /\ Number(jobs, Begun, {clock}) \in Nat
      /\ asked[Rate!Last] \in Nat /\ passed[Rate!Last] \in Nat
  BY <1>1, NumberType, TicksType DEF Grows
<1>10. /\ passed[Rate!Last] + Number(jobs, Begun, Ticks) <= asked[Rate!Last]
       /\ inWindow \in 0..passed[Rate!Last]
       /\ Number(jobs, Begun, {clock}) <= Since(asked, clock)
       /\ Number(jobs, Begun, Ticks) <= Since(asked, Before(clock))
  BY DEF HistoryOK
<1>11. passed[Rate!Last] + Number(jobs', Begun, Ticks) <= asked'[Rate!Last]
  BY <1>3, <1>5, <1>9, <1>10
<1>12. /\ Number(jobs', Begun, {clock}) <= Since(asked', clock)
       /\ Number(jobs', Begun, Ticks) <= Since(asked', Before(clock))
  BY <1>5, <1>8, <1>9, <1>10
<1> QED
  BY <1>1, <1>3, <1>6, <1>10, <1>11, <1>12 DEF HistoryOK

\* What a worker has begun is in the history.
LEMMA BegunIsAsked ==
  ASSUME Sane, JobsTyped, HistoryOK, NEW w \in Worker, jobs[w].pc \in Begun
  PROVE  /\ jobs[w].now \in 0..clock /\ Number(jobs, Begun, Ticks) >= 1
         /\ Since(asked, jobs[w].now) >= 1
<1>1. clock \in 0..MaxTime /\ Grows(asked, clock) /\ jobs[w].now \in Ticks
  BY DEF JobsTyped, HistoryOK, Ticks, LimitJob
<1>2. clock \in Nat /\ jobs[w].now \in Nat
  BY <1>1, TicksType DEF Ticks
<1>3. jobs[w].now = clock \/ jobs[w].now + 1 = clock
  BY DEF JobsTyped
<1>4. Number(jobs, Begun, Ticks) # 0 /\ Number(jobs, Begun, Ticks) \in Nat
  BY <1>1, NumberZero, NumberType
<1>5. CASE jobs[w].now = clock
  <2>1. Number(jobs, Begun, {clock}) # 0 /\ Number(jobs, Begun, {clock}) \in Nat
    BY <1>5, NumberZero, NumberType
  <2>2. Since(asked, clock) \in Nat /\ Number(jobs, Begun, {clock}) <= Since(asked, clock)
    BY <1>1, TicksType, SinceType DEF HistoryOK
  <2> QED
    BY <1>2, <1>4, <1>5, <2>1, <2>2
<1>6. CASE jobs[w].now + 1 = clock
  <2>1. jobs[w].now = Before(clock)
    BY <1>2, <1>6 DEF Before
  <2>2. /\ Since(asked, jobs[w].now) \in Nat
        /\ Number(jobs, Begun, Ticks) <= Since(asked, jobs[w].now)
    BY <1>1, <1>2, <2>1, TicksType, SinceType DEF HistoryOK, Ticks
  <2> QED
    BY <1>2, <1>4, <1>6, <2>2
<1> QED
  BY <1>3, <1>5, <1>6

LEMMA GoesOnKeeps ==
  ASSUME Sane, JobsTyped, HistoryOK, NEW w \in Worker, NEW q, GoesOn(w, q), inWindow' \in {0, inWindow}
  PROVE  HistoryOK'
<1>1. jobs'[w] = q /\ \A v \in Worker \ {w} : jobs'[v] = jobs[v]
  BY DEF JobsTyped, GoesOn
<1>2. /\ Number(jobs', Begun, Ticks) = Number(jobs, Begun, Ticks)
      /\ Number(jobs', Begun, {clock}) = Number(jobs, Begun, {clock})
  <2>1. /\ jobs'[w].pc \in Begun /\ jobs[w].pc \in Begun /\ jobs'[w].now = jobs[w].now
    BY <1>1 DEF GoesOn
  <2>2. OthersRest(w)
    BY <1>1 DEF OthersRest
  <2>3. Number(jobs', Begun, Ticks) = Number(jobs, Begun, Ticks)
    BY <2>1, <2>2, StepStays
  <2>4. Number(jobs', Begun, {clock}) = Number(jobs, Begun, {clock})
    BY <2>1, <2>2, StepStays
  <2> QED
    BY <2>3, <2>4
<1>3. passed[Rate!Last] \in Nat
  BY TicksType DEF HistoryOK, Grows
<1>4. inWindow' \in 0..passed[Rate!Last]
  BY <1>3 DEF HistoryOK
<1> QED
  BY <1>2, <1>4 DEF HistoryOK, GoesOn

LEMMA EndsKeeps ==
  ASSUME Sane, JobsTyped, HistoryOK, NEW w \in Worker, Ends(w)
  PROVE  HistoryOK'
<1>1. jobs'[w] = Rate!Idle /\ \A v \in Worker \ {w} : jobs'[v] = jobs[v]
  BY DEF JobsTyped, Ends
<1>2. Rate!Idle.pc \notin Begun /\ jobs[w].pc \in Begun /\ jobs[w].now \in Ticks
  BY DEF Rate!Idle, Begun, Ends, JobsTyped, LimitJob
<1>3. Number(jobs', Begun, Ticks) + 1 = Number(jobs, Begun, Ticks)
  <2>1. OthersRest(w)
    BY <1>1 DEF OthersRest
  <2> QED
    BY <1>1, <1>2, <2>1, StepMinus
<1>4. Number(jobs', Begun, {clock}) <= Number(jobs, Begun, {clock})
  <2>1. \A v \in Worker : jobs'[v].pc \in Begun /\ jobs'[v].now \in {clock}
                            => jobs[v].pc \in Begun /\ jobs[v].now \in {clock}
    BY <1>1, <1>2
  <2> QED
    BY <2>1, NumberMonotone
<1>5. /\ Number(jobs, Begun, Ticks) \in Nat /\ Number(jobs, Begun, {clock}) \in Nat
      /\ Number(jobs', Begun, Ticks) \in Nat /\ Number(jobs', Begun, {clock}) \in Nat
  BY NumberType
<1>6. /\ clock \in 0..MaxTime /\ Grows(asked, clock) /\ Grows(passed, clock)
      /\ passed[Rate!Last] + Number(jobs, Begun, Ticks) <= asked[Rate!Last]
      /\ inWindow \in 0..passed[Rate!Last]
      /\ Number(jobs, Begun, {clock}) <= Since(asked, clock)
      /\ Number(jobs, Begun, Ticks) <= Since(asked, Before(clock))
  BY DEF HistoryOK, Ticks
<1>7. passed[Rate!Last] \in Nat /\ asked[Rate!Last] \in Nat
  BY <1>6, TicksType DEF Grows
<1>8. clock \in 0..Rate!Last /\ Before(clock) \in 0..Rate!Last
  BY <1>6, TicksType DEF Before
<1>9. Since(asked, clock) \in Nat /\ Since(asked, Before(clock)) \in Nat
  BY <1>6, <1>8, SinceType
<1>10. /\ Number(jobs', Begun, {clock}) <= Since(asked, clock)
       /\ Number(jobs', Begun, Ticks) <= Since(asked, Before(clock))
  BY <1>3, <1>4, <1>5, <1>6, <1>9
<1>11. CASE passed' = Plus(passed, clock) /\ inWindow' = inWindow + 1
  <2>1. Grows(passed', clock) /\ passed'[Rate!Last] = passed[Rate!Last] + 1
    BY <1>6, <1>11, GrowsByOne
  <2>2. /\ passed'[Rate!Last] + Number(jobs', Begun, Ticks) <= asked[Rate!Last]
        /\ inWindow' \in 0..passed'[Rate!Last]
    BY <1>3, <1>5, <1>6, <1>7, <1>11, <2>1
  <2> QED
    BY <1>6, <1>10, <2>1, <2>2 DEF HistoryOK, Ends
<1>12. CASE UNCHANGED <<passed, inWindow>>
  <2>1. passed[Rate!Last] + Number(jobs', Begun, Ticks) <= asked[Rate!Last]
    BY <1>3, <1>5, <1>6, <1>7
  <2> QED
    BY <1>6, <1>10, <1>12, <2>1 DEF HistoryOK, Ends
<1> QED
  BY <1>11, <1>12 DEF Ends

LEMMA TickKeeps ==
  ASSUME Sane, JobsTyped, HistoryOK, Rate!Tick
  PROVE  /\ HistoryOK' /\ clock' = clock + 1
         /\ \A w \in Worker : jobs[w].pc \in Begun => jobs[w].now = clock
<1>1. /\ clock \in 0..MaxTime /\ clock < MaxTime /\ clock' = clock + 1
      /\ \A w \in Worker : jobs[w].pc # "idle" => jobs[w].now = clock
      /\ jobs' = jobs /\ asked' = asked /\ passed' = passed /\ inWindow' = inWindow
  BY DEF Rate!Tick, HistoryOK, Ticks, Rate!history
<1>2. /\ clock + 1 \in 0..MaxTime /\ clock + 1 \in 0..Rate!Last /\ Before(clock + 1) = clock
      /\ clock \in 0..Rate!Last
  BY <1>1, TicksType DEF Before
<1>3. /\ Grows(asked, clock) /\ Grows(passed, clock)
      /\ Grows(asked, clock + 1) /\ Grows(passed, clock + 1)
  BY <1>1, GrowsLater DEF HistoryOK
<1>4. \A w \in Worker : jobs[w].pc \in Begun => jobs[w].now = clock
  BY <1>1 DEF Begun
<1>5. Number(jobs, Begun, {clock + 1}) = 0
  <2>1. \A w \in Worker : ~ (jobs[w].pc \in Begun /\ jobs[w].now \in {clock + 1})
    BY <1>1, <1>4, TicksType
  <2> QED
    BY <2>1, NumberZero
<1>6. Number(jobs, Begun, Ticks) <= Number(jobs, Begun, {clock})
  <2>1. \A w \in Worker : jobs[w].pc \in Begun /\ jobs[w].now \in Ticks
                            => jobs[w].pc \in Begun /\ jobs[w].now \in {clock}
    BY <1>4
  <2> QED
    BY <2>1, NumberMonotone
<1>7. Since(asked, clock + 1) \in Nat /\ Since(asked, clock) \in Nat
  BY <1>1, <1>2, <1>3, SinceType
<1>8. /\ Number(jobs, Begun, {clock + 1}) <= Since(asked, clock + 1)
      /\ Number(jobs, Begun, Ticks) <= Since(asked, Before(clock + 1))
  BY <1>2, <1>5, <1>6, <1>7, NumberType DEF HistoryOK
<1>9. HistoryOK'
  BY <1>1, <1>2, <1>3, <1>8 DEF HistoryOK, Ticks
<1> QED
  BY <1>1, <1>4, <1>9

LEMMA LimitInit ==
  ASSUME Sane, Rate!Init
  PROVE  JobsTyped /\ HistoryOK
<1>1. /\ clock = 0 /\ jobs = [w \in Worker |-> Rate!Idle] /\ inWindow = 0
      /\ asked = [t \in 0..Rate!Last |-> 0] /\ passed = [t \in 0..Rate!Last |-> 0]
  BY DEF Rate!Init
<1>2. 0 \in Ticks /\ Rate!Idle.pc = "idle" /\ Rate!Idle \in LimitJob
  <2>1. 0 \in Ticks /\ 0 \in 0..Rate!MaxCount
    BY TicksType DEF Ticks, Rate!MaxCount
  <2> QED
    BY <2>1 DEF Rate!Idle, LimitJob, LimitRow, ModePc, Rate!NoRow
<1>3. JobsTyped
  BY <1>1, <1>2 DEF JobsTyped, Begun
<1>4. Grows(asked, clock) /\ Grows(passed, clock) /\ asked[Rate!Last] = 0 /\ passed[Rate!Last] = 0
  BY <1>1, TicksType DEF Grows
<1>5. \A w \in Worker : jobs[w].pc \notin Begun
  BY <1>1, <1>2 DEF Begun
<1>6. Number(jobs, Begun, Ticks) = 0 /\ Number(jobs, Begun, {clock}) = 0
  BY <1>5, NumberZero
<1>7. Before(clock) = 0 /\ Since(asked, 0) = 0 /\ \A t \in 0..Rate!Last : asked[t] <= t * MaxAsk
  <2>1. \A t \in 0..Rate!Last : t * MaxAsk \in Nat /\ asked[t] = 0
    BY <1>1, TicksType, TimesType
  <2> QED
    BY <1>1, <2>1, TicksType DEF Before, Since
<1> QED
  BY <1>1, <1>2, <1>3, <1>4, <1>6, <1>7 DEF HistoryOK

-----------------------------------------------------------------------------
(* The limit in Redis                                                      *)

\* When the count began: with the window, or anew when both have expired.
Era == IF Rate!Live(window) THEN window.expires - Window ELSE window.expires

RedisOK ==
    /\ row = Rate!NoRow
    /\ window \in [value : Ticks, expires : 0..Rate!Never]
    /\ count \in [value : Nat, expires : 0..Rate!Never]
    /\ count.value + Number(jobs, {"increase"}, Ticks) <= asked[Rate!Last]
    /\ Rate!Live(window) =>
         /\ count.expires = window.expires /\ count.value >= 1
         /\ Window <= window.expires /\ window.expires <= clock + Window
         /\ window.expires <= window.value + Window + 1
    /\ Rate!Live(count) => count.value + Number(jobs, {"increase"}, Ticks) <= Since(asked, Before(Era))
    /\ \A w \in Worker :
         /\ jobs[w].pc = "start" /\ Rate!Live(window) => jobs[w].now + Window <= window.expires
         /\ jobs[w].pc \in {"increase", "answer"} /\ ~ Rate!Live(window) => jobs[w].now < window.expires

Entered(pc) == [Rate!Idle EXCEPT !.pc = pc, !.now = clock]

LEMMA WindowType ==
  ASSUME Sane
  PROVE  /\ Window \in Nat /\ Window > 0 /\ Limit \in Nat /\ Rate!Never \in Nat
         /\ Rate!Never = MaxTime + Window + 1
         /\ 0 \in Ticks /\ Rate!NoRow \in LimitRow /\ Rate!Idle \in LimitJob
<1>1. 0 \in Ticks /\ 0 \in 0..Rate!MaxCount
  BY TicksType DEF Ticks, Rate!MaxCount
<1>2. Rate!NoRow \in LimitRow
  BY <1>1 DEF Rate!NoRow, LimitRow
<1>3. Rate!Idle \in LimitJob
  BY <1>1, <1>2 DEF Rate!Idle, LimitJob, ModePc
<1> QED
  BY <1>1, <1>2, <1>3, TicksType DEF Sane, Rate!LimitAssumption, Rate!Never

LEMMA JobBecomes ==
  ASSUME JobsTyped, NEW w \in Worker, NEW q \in LimitJob, jobs' = [jobs EXCEPT ![w] = q], clock' = clock,
         q.pc \in Begun => q.now = clock \/ q.now + 1 = clock
  PROVE  /\ JobsTyped'
         /\ jobs'[w] = q /\ \A v \in Worker \ {w} : jobs'[v] = jobs[v]
  BY DEF JobsTyped

LEMMA EnteredType ==
  ASSUME Sane, clock \in Ticks, NEW p \in ModePc, NEW q, q = Entered(p)
  PROVE  q \in LimitJob /\ q.pc = p /\ q.now = clock
  BY WindowType DEF Entered, Rate!Idle, LimitJob

LEMMA NextType ==
  ASSUME NEW j \in LimitJob, NEW p \in ModePc, NEW q, q = [j EXCEPT !.pc = p]
  PROVE  q \in LimitJob /\ q.pc = p /\ q.now = j.now /\ q.record = j.record
  BY DEF LimitJob

LEMMA EraType ==
  ASSUME Sane, HistoryOK, RedisOK
  PROVE  Era \in 0..clock /\ Before(Era) \in 0..clock /\ clock \in Nat
<1>1. clock \in Nat /\ window.expires \in Nat
  BY TicksType, WindowType DEF HistoryOK, RedisOK, Ticks
<1>2. Era \in 0..clock
  BY <1>1, WindowType DEF Era, RedisOK, Rate!Live
<1> QED
  BY <1>1, <1>2 DEF Before

\* GetWindow.
LEMMA GetWindowBecomes ==
  ASSUME Sane, JobsTyped, HistoryOK, RedisOK, Redis, NEW w \in Worker, Rate!GetWindow(w)
  PROVE  /\ UNCHANGED <<window, count, row>>
         /\ \E q : /\ Begins(w, q) /\ q \in LimitJob
                   /\ q.pc = IF Rate!Live(window) THEN "increase" ELSE "start"
<1> DEFINE p == IF ~ Rate!Live(window) \/ window.value + Window < clock THEN "start" ELSE "increase"
           q == Entered(p)
<1>1. clock \in Ticks /\ clock \in Nat
  BY TicksType DEF HistoryOK, Ticks
<1>2. p = IF Rate!Live(window) THEN "increase" ELSE "start"
  <2>1. window.value \in Nat /\ window.expires \in Nat
    BY TicksType, WindowType DEF RedisOK, Ticks
  <2>2. Rate!Live(window) => ~ (window.value + Window < clock)
    BY <1>1, <2>1, WindowType DEF Rate!Live, RedisOK
  <2> QED
    BY <2>2
<1>3. p \in ModePc /\ p \in Begun
  BY <1>2 DEF ModePc, Begun
<1>4. /\ jobs[w].pc = "idle" /\ Rate!During(asked, clock, clock) < MaxAsk
      /\ jobs' = [jobs EXCEPT ![w] = q] /\ asked' = Rate!OneMore(asked)
      /\ UNCHANGED <<clock, passed, inWindow, window, count, row>>
  BY DEF Rate!GetWindow, Rate!Ask, Rate!At, Entered
<1> HIDE DEF p
<1>5. q \in LimitJob /\ q.pc = p /\ q.now = clock
  BY <1>1, <1>3, EnteredType
<1>6. Begins(w, q)
  BY <1>3, <1>4, <1>5 DEF Begins, Rate!OneMore, Plus
<1> QED
  BY <1>2, <1>4, <1>5, <1>6

LEMMA GetWindowKeeps ==
  ASSUME Sane, JobsTyped, HistoryOK, RedisOK, Redis, NEW w \in Worker, Rate!GetWindow(w)
  PROVE  JobsTyped' /\ HistoryOK' /\ RedisOK'
<1>1. PICK q : Begins(w, q) /\ q \in LimitJob /\ q.pc = IF Rate!Live(window) THEN "increase" ELSE "start"
  BY GetWindowBecomes
<1>2. UNCHANGED <<window, count, row>>
  BY GetWindowBecomes
<1>3. /\ jobs[w].pc = "idle" /\ q.now = clock /\ jobs' = [jobs EXCEPT ![w] = q]
      /\ asked' = Plus(asked, clock)
      /\ clock' = clock
  BY <1>1 DEF Begins
<1>4. JobsTyped' /\ jobs'[w] = q /\ \A v \in Worker \ {w} : jobs'[v] = jobs[v]
  BY <1>1, <1>3, JobBecomes
<1>5. HistoryOK'
  BY <1>1, BeginsKeeps
<1>6. clock \in 0..MaxTime /\ Grows(asked, clock) /\ Era \in 0..clock /\ Before(Era) \in 0..clock
  BY EraType DEF HistoryOK, Ticks
<1>7. /\ asked'[Rate!Last] = asked[Rate!Last] + 1 /\ asked[Rate!Last] \in Nat
      /\ Since(asked', Before(Era)) = Since(asked, Before(Era)) + 1
      /\ Since(asked, Before(Era)) \in Nat
  <2>1. Before(Era) \in 0..Rate!Last
    BY <1>6, TicksType
  <2>2. asked[Rate!Last] \in Nat
    BY <1>6, TicksType DEF Grows
  <2>3. Since(asked, Before(Era)) \in Nat
    BY <1>6, <2>1, SinceType
  <2>4. /\ asked'[Rate!Last] = asked[Rate!Last] + 1
        /\ \A t \in 0..clock : Since(asked', t) = Since(asked, t) + 1
    BY <1>3, <1>6, GrowsByOne
  <2> QED
    BY <1>6, <2>2, <2>3, <2>4
<1>8. /\ Number(jobs', {"increase"}, Ticks) <= Number(jobs, {"increase"}, Ticks) + 1
      /\ Number(jobs', {"increase"}, Ticks) \in Nat /\ Number(jobs, {"increase"}, Ticks) \in Nat
  <2>1. jobs[w].pc \notin {"increase"} /\ q.now \in Ticks
    BY <1>3 DEF HistoryOK
  <2>2. CASE q.pc = "increase"
    <3>1. OthersRest(w)
      BY <1>4 DEF OthersRest
    <3> QED
      BY <1>4, <2>1, <2>2, <3>1, StepPlus, NumberType
  <2>3. CASE q.pc # "increase"
    <3>1. Number(jobs', {"increase"}, Ticks) = Number(jobs, {"increase"}, Ticks)
      BY <1>4, <2>1, <2>3, NumberApart
    <3> QED
      BY <3>1, NumberType
  <2> QED
    BY <2>2, <2>3
<1>9. Era' = Era /\ Rate!Live(window)' = Rate!Live(window) /\ Rate!Live(count)' = Rate!Live(count)
  BY <1>2, <1>3 DEF Era, Rate!Live
<1>10. count.value \in Nat
  BY DEF RedisOK
<1>11. count'.value + Number(jobs', {"increase"}, Ticks) <= asked'[Rate!Last]
  BY <1>2, <1>7, <1>8, <1>10 DEF RedisOK
<1>12. Rate!Live(count)' => count'.value + Number(jobs', {"increase"}, Ticks) <= Since(asked', Before(Era)')
  <2>1. Before(Era)' = Before(Era)
    BY <1>9 DEF Before
  <2> QED
    BY <1>2, <1>7, <1>8, <1>9, <1>10, <2>1 DEF RedisOK
<1>13. \A v \in Worker :
         /\ jobs'[v].pc = "start" /\ Rate!Live(window) => jobs'[v].now + Window <= window.expires
         /\ jobs'[v].pc \in {"increase", "answer"} /\ ~ Rate!Live(window) => jobs'[v].now < window.expires
  BY <1>1, <1>4 DEF RedisOK
<1> QED
  BY <1>2, <1>3, <1>4, <1>5, <1>9, <1>11, <1>12, <1>13 DEF RedisOK

\* StartWindow.
LEMMA StartWindowKeeps ==
  ASSUME Sane, JobsTyped, HistoryOK, RedisOK, Redis, NEW w \in Worker, Rate!StartWindow(w)
  PROVE  JobsTyped' /\ HistoryOK' /\ RedisOK'
<1> DEFINE q == [jobs[w] EXCEPT !.pc = "answer"]
<1>1. /\ jobs[w].pc = "start" /\ clock' = clock /\ row' = row /\ asked' = asked /\ passed' = passed
      /\ window' = [value |-> jobs[w].now, expires |-> clock + Window]
      /\ count' = [value |-> 1, expires |-> clock + Window]
      /\ inWindow' = 0 /\ jobs' = [jobs EXCEPT ![w] = q]
  BY DEF Rate!StartWindow, Rate!At, Rate!Goto, JobsTyped
<1>2. jobs[w] \in LimitJob /\ "answer" \in ModePc
  BY DEF JobsTyped, ModePc
<1>3. q \in LimitJob /\ q.pc = "answer" /\ q.now = jobs[w].now
  BY <1>2, NextType
<1> HIDE DEF q
<1>4. jobs[w].pc \in Begun /\ q.pc \in Begun
  BY <1>1, <1>3 DEF Begun
<1>5. jobs[w].now = clock \/ jobs[w].now + 1 = clock
  BY <1>4 DEF JobsTyped
<1>6. JobsTyped' /\ jobs'[w] = q /\ \A v \in Worker \ {w} : jobs'[v] = jobs[v]
  BY <1>1, <1>3, <1>5, JobBecomes
<1>7. HistoryOK'
  <2>1. GoesOn(w, q)
    BY <1>1, <1>3, <1>4 DEF GoesOn
  <2> QED
    BY <1>1, <2>1, GoesOnKeeps
<1>8. /\ clock \in 0..MaxTime /\ clock \in Nat /\ jobs[w].now \in Ticks /\ jobs[w].now \in Nat
      /\ Grows(asked, clock)
  BY <1>2, TicksType DEF HistoryOK, Ticks, LimitJob
<1>9. Number(jobs', {"increase"}, Ticks) = Number(jobs, {"increase"}, Ticks)
  <2>1. jobs[w].pc \notin {"increase"} /\ jobs'[w].pc \notin {"increase"}
    BY <1>1, <1>3, <1>6
  <2> QED
    BY <1>6, <2>1, NumberApart
<1>10. 1 + Number(jobs, {"increase"}, Ticks) <= Number(jobs, Begun, Ticks)
  <2>1. Number(jobs, {"start"} \cup {"increase"}, Ticks)
          = Number(jobs, {"start"}, Ticks) + Number(jobs, {"increase"}, Ticks)
    BY NumberTogether
  <2>2. Number(jobs, {"start"}, Ticks) # 0
    BY <1>1, <1>8, NumberZero
  <2>3. Number(jobs, {"start"} \cup {"increase"}, Ticks) <= Number(jobs, Begun, Ticks)
    <3>1. \A v \in Worker : jobs[v].pc \in {"start"} \cup {"increase"} /\ jobs[v].now \in Ticks
                              => jobs[v].pc \in Begun /\ jobs[v].now \in Ticks
      BY DEF Begun
    <3> QED
      BY <3>1, NumberMonotone
  <2> QED
    BY <2>1, <2>2, <2>3, NumberType
<1>11. /\ Number(jobs, Begun, Ticks) <= Since(asked, Before(clock))
       /\ Since(asked, Before(clock)) <= asked[Rate!Last]
       /\ asked[Rate!Last] \in Nat /\ Since(asked, Before(clock)) \in Nat
  <2>1. Before(clock) \in 0..Rate!Last
    BY <1>8, TicksType DEF Before
  <2>2. /\ Since(asked, Before(clock)) \in Nat /\ asked[Before(clock)] \in Nat
        /\ asked[Rate!Last] \in Nat
    BY <1>8, <2>1, TicksType, SinceType DEF Grows
  <2> QED
    BY <2>2 DEF HistoryOK, Since
<1>12. /\ 1 + Number(jobs', {"increase"}, Ticks) <= Since(asked, Before(clock))
       /\ 1 + Number(jobs', {"increase"}, Ticks) <= asked[Rate!Last]
  BY <1>9, <1>10, <1>11, NumberType
<1>13. Rate!Live(window)' /\ Era' = clock /\ Before(Era)' = Before(clock)
  <2>1. window'.expires = clock + Window /\ clock' = clock
    BY <1>1
  <2>2. Rate!Live(window)' /\ Era' = clock
    BY <1>8, <2>1, WindowType DEF Rate!Live, Era
  <2> QED
    BY <2>2 DEF Before
<1>14. /\ window' \in [value : Ticks, expires : 0..Rate!Never]
       /\ count' \in [value : Nat, expires : 0..Rate!Never]
  <2>1. clock + Window \in 0..Rate!Never
    BY <1>8, TicksType, WindowType
  <2> QED
    BY <1>1, <1>8, <2>1
<1>15. \A v \in Worker : jobs'[v].pc = "start" => jobs'[v].now + Window <= clock + Window
  <2> SUFFICES ASSUME NEW v \in Worker, jobs'[v].pc = "start" PROVE jobs'[v].now + Window <= clock + Window
    OBVIOUS
  <2>1. v # w /\ jobs'[v] = jobs[v]
    BY <1>3, <1>6
  <2>2. jobs[v].now \in Ticks /\ (jobs[v].now = clock \/ jobs[v].now + 1 = clock)
    BY <2>1 DEF JobsTyped, Begun, LimitJob
  <2> QED
    BY <1>8, <2>1, <2>2, TicksType, WindowType DEF Ticks
<1>16. /\ count'.value = 1 /\ count'.expires = window'.expires /\ window'.expires = clock + Window
       /\ window'.value = jobs[w].now
  BY <1>1
<1>17. Window <= clock + Window /\ clock + Window <= jobs[w].now + Window + 1
  BY <1>5, <1>8, WindowType
<1>18. row' = Rate!NoRow
  BY <1>1 DEF RedisOK
<1> QED
  BY <1>1, <1>6, <1>7, <1>12, <1>13, <1>14, <1>15, <1>16, <1>17, <1>18 DEF RedisOK

\* Increase.
LEMMA IncreaseBecomes ==
  ASSUME Sane, JobsTyped, HistoryOK, RedisOK, Redis, NEW w \in Worker, Rate!Increase(w)
  PROVE  /\ UNCHANGED <<clock, window, row, asked, passed, inWindow>>
         /\ count' = IF Rate!Live(count) THEN [count EXCEPT !.value = @ + 1]
                     ELSE [value |-> 1, expires |-> Rate!Never]
         /\ jobs[w].pc = "increase" /\ jobs[w].now \in Ticks
         /\ \E q \in LimitJob : /\ q.pc = "answer" /\ q.now = jobs[w].now
                                /\ jobs' = [jobs EXCEPT ![w] = q]
<1> DEFINE q == [jobs[w] EXCEPT !.pc = "answer"]
<1>1. /\ UNCHANGED <<clock, window, row, asked, passed, inWindow>>
      /\ count' = IF Rate!Live(count) THEN [count EXCEPT !.value = @ + 1]
                  ELSE [value |-> 1, expires |-> Rate!Never]
      /\ jobs[w].pc = "increase" /\ jobs' = [jobs EXCEPT ![w] = q]
  BY DEF Rate!Increase, Rate!At, Rate!Goto, Rate!history, JobsTyped
<1>2. jobs[w] \in LimitJob /\ "answer" \in ModePc /\ jobs[w].now \in Ticks
  BY DEF JobsTyped, ModePc, LimitJob
<1>3. q \in LimitJob /\ q.pc = "answer" /\ q.now = jobs[w].now
  BY <1>2, NextType
<1> QED
  BY <1>1, <1>2, <1>3

LEMMA IncreaseKeeps ==
  ASSUME Sane, JobsTyped, HistoryOK, RedisOK, Redis, NEW w \in Worker, Rate!Increase(w)
  PROVE  JobsTyped' /\ HistoryOK' /\ RedisOK'
<1>1. PICK q \in LimitJob : /\ q.pc = "answer" /\ q.now = jobs[w].now
                            /\ jobs' = [jobs EXCEPT ![w] = q]
  BY IncreaseBecomes
<1>2. /\ UNCHANGED <<clock, window, row, asked, passed, inWindow>>
      /\ count' = IF Rate!Live(count) THEN [count EXCEPT !.value = @ + 1]
                  ELSE [value |-> 1, expires |-> Rate!Never]
      /\ jobs[w].pc = "increase" /\ jobs[w].now \in Ticks
  BY IncreaseBecomes
<1>3. jobs[w].pc \in Begun /\ q.pc \in Begun
  BY <1>1, <1>2 DEF Begun
<1>4. jobs[w].now = clock \/ jobs[w].now + 1 = clock
  BY <1>3 DEF JobsTyped
<1>5. JobsTyped' /\ jobs'[w] = q /\ \A v \in Worker \ {w} : jobs'[v] = jobs[v]
  BY <1>1, <1>2, <1>4, JobBecomes
<1>6. HistoryOK'
  <2>1. GoesOn(w, q)
    BY <1>1, <1>2, <1>3 DEF GoesOn
  <2> QED
    BY <1>2, <2>1, GoesOnKeeps
<1>7. /\ clock \in 0..MaxTime /\ clock \in Nat /\ Grows(asked, clock) /\ jobs[w].now \in Nat
      /\ window.expires \in Nat /\ count.value \in Nat /\ count.expires \in 0..Rate!Never
  BY <1>2, TicksType, WindowType DEF HistoryOK, RedisOK, Ticks
<1>8. Number(jobs', {"increase"}, Ticks) + 1 = Number(jobs, {"increase"}, Ticks)
  <2>1. jobs[w].pc \in {"increase"} /\ jobs'[w].pc \notin {"increase"}
    BY <1>1, <1>2, <1>5
  <2>2. OthersRest(w)
    BY <1>5 DEF OthersRest
  <2> QED
    BY <1>2, <2>1, <2>2, StepMinus
<1>9. Rate!Live(window)' = Rate!Live(window) /\ Era' = Era /\ Before(Era)' = Before(Era)
  BY <1>2 DEF Era, Rate!Live, Before
<1>10. \A v \in Worker :
         /\ jobs'[v].pc = "start" /\ Rate!Live(window) => jobs'[v].now + Window <= window.expires
         /\ jobs'[v].pc \in {"increase", "answer"} /\ ~ Rate!Live(window) => jobs'[v].now < window.expires
  BY <1>1, <1>2, <1>5 DEF RedisOK
<1>11. CASE Rate!Live(count)
  <2>1. /\ count'.value = count.value + 1 /\ count'.expires = count.expires
        /\ count' \in [value : Nat, expires : 0..Rate!Never]
    BY <1>2, <1>11 DEF RedisOK
  <2>2. count'.value + Number(jobs', {"increase"}, Ticks) = count.value + Number(jobs, {"increase"}, Ticks)
    BY <1>7, <1>8, <2>1, NumberType
  <2>3. Rate!Live(count)'
    BY <1>2, <1>11, <2>1 DEF Rate!Live
  <2> QED
    BY <1>2, <1>5, <1>6, <1>9, <1>10, <1>11, <2>1, <2>2, <1>7 DEF RedisOK
<1>12. CASE ~ Rate!Live(count)
  <2>1. /\ count'.value = 1 /\ count'.expires = Rate!Never
        /\ count' \in [value : Nat, expires : 0..Rate!Never]
    BY <1>2, <1>12, WindowType
  <2>2. ~ Rate!Live(window)
    BY <1>12 DEF RedisOK, Rate!Live
  <2>3. jobs[w].now < window.expires /\ ~ (window.expires > clock)
    BY <1>2, <2>2 DEF RedisOK, Rate!Live
  <2>4. Era = clock /\ Before(Era) = Before(clock)
    BY <1>4, <1>7, <2>2, <2>3 DEF Era, Before
  <2>5. Number(jobs, {"increase"}, Ticks) <= Number(jobs, Begun, Ticks)
    <3>1. \A v \in Worker : jobs[v].pc \in {"increase"} /\ jobs[v].now \in Ticks
                              => jobs[v].pc \in Begun /\ jobs[v].now \in Ticks
      BY DEF Begun
    <3> QED
      BY <3>1, NumberMonotone
  <2>6. /\ Number(jobs, Begun, Ticks) <= Since(asked, Before(clock))
        /\ Since(asked, Before(clock)) <= asked[Rate!Last]
        /\ asked[Rate!Last] \in Nat /\ Since(asked, Before(clock)) \in Nat
    <3>1. Before(clock) \in 0..Rate!Last
      BY <1>7, TicksType DEF Before
    <3>2. /\ Since(asked, Before(clock)) \in Nat /\ asked[Before(clock)] \in Nat
          /\ asked[Rate!Last] \in Nat
      BY <1>7, <3>1, TicksType, SinceType DEF Grows
    <3> QED
      BY <3>2 DEF HistoryOK, Since
  <2>7. /\ count'.value + Number(jobs', {"increase"}, Ticks) <= Since(asked, Before(Era))
        /\ count'.value + Number(jobs', {"increase"}, Ticks) <= asked[Rate!Last]
    BY <1>8, <2>1, <2>4, <2>5, <2>6, NumberType
  <2> QED
    BY <1>2, <1>5, <1>6, <1>9, <1>10, <2>1, <2>2, <2>7 DEF RedisOK
<1> QED
  BY <1>11, <1>12

\* AnswerRedis.
LEMMA RepliesBecome ==
  ASSUME JobsTyped, NEW w \in Worker, NEW a, Rate!Reply(w, a), jobs[w].pc = "answer" \/ jobs[w].pc = "write",
         clock' = clock
  PROVE  /\ Ends(w) /\ asked' = asked /\ jobs' = [jobs EXCEPT ![w] = Rate!Idle]
         /\ IF a = "passed" THEN passed' = Plus(passed, clock) /\ inWindow' = inWindow + 1
            ELSE passed' = passed /\ inWindow' = inWindow
         /\ answer' = [answer EXCEPT ![w] = a]
<1>1. /\ jobs' = [jobs EXCEPT ![w] = Rate!Idle] /\ asked' = asked
      /\ IF a = "passed" THEN passed' = Plus(passed, clock) /\ inWindow' = inWindow + 1
         ELSE passed' = passed /\ inWindow' = inWindow
      /\ answer' = [answer EXCEPT ![w] = a]
  BY DEF Rate!Reply, Rate!OneMore, Plus
<1>2. jobs[w].pc \in Begun
  BY DEF Begun
<1> QED
  BY <1>1, <1>2 DEF Ends

LEMMA AnswerRedisBecomes ==
  ASSUME JobsTyped, NEW w \in Worker, Rate!AnswerRedis(w)
  PROVE  /\ UNCHANGED <<clock, window, count, row>> /\ jobs[w].pc = "answer"
         /\ Ends(w) /\ asked' = asked /\ jobs' = [jobs EXCEPT ![w] = Rate!Idle]
         /\ \E a \in {"passed", "refused", "failed"} :
              /\ IF a = "passed" THEN passed' = Plus(passed, clock) /\ inWindow' = inWindow + 1
                 ELSE passed' = passed /\ inWindow' = inWindow
              /\ answer' = [answer EXCEPT ![w] = a]
              /\ a = "passed" => Rate!Live(count) /\ ~ (count.value > Limit)
              /\ a = "refused" => Rate!Live(count) /\ count.value > Limit
<1>1. /\ UNCHANGED <<clock, window, count, row>> /\ jobs[w].pc = "answer"
      /\ IF Rate!Live(count) THEN Rate!Check(w, count.value) ELSE Rate!Reply(w, "failed")
  BY DEF Rate!AnswerRedis, Rate!At
<1>2. CASE Rate!Live(count) /\ count.value > Limit
  <2>1. Rate!Reply(w, "refused")
    BY <1>1, <1>2 DEF Rate!Check
  <2> QED
    BY <1>1, <1>2, <2>1, RepliesBecome
<1>3. CASE Rate!Live(count) /\ ~ (count.value > Limit)
  <2>1. Rate!Reply(w, "passed")
    BY <1>1, <1>3 DEF Rate!Check
  <2> QED
    BY <1>1, <1>3, <2>1, RepliesBecome
<1>4. CASE ~ Rate!Live(count)
  <2>1. Rate!Reply(w, "failed")
    BY <1>1, <1>4
  <2> QED
    BY <1>1, <1>4, <2>1, RepliesBecome
<1> QED
  BY <1>2, <1>3, <1>4

LEMMA AnswerRedisKeeps ==
  ASSUME Sane, JobsTyped, HistoryOK, RedisOK, Redis, NEW w \in Worker, Rate!AnswerRedis(w)
  PROVE  JobsTyped' /\ HistoryOK' /\ RedisOK'
<1>1. /\ UNCHANGED <<clock, window, count, row>> /\ jobs[w].pc = "answer"
      /\ Ends(w) /\ asked' = asked /\ jobs' = [jobs EXCEPT ![w] = Rate!Idle]
  BY AnswerRedisBecomes
<1>2. Rate!Idle \in LimitJob /\ Rate!Idle.pc = "idle" /\ Rate!Idle.pc \notin Begun
  BY WindowType DEF Rate!Idle, Begun
<1>3. JobsTyped' /\ jobs'[w] = Rate!Idle /\ \A v \in Worker \ {w} : jobs'[v] = jobs[v]
  BY <1>1, <1>2, JobBecomes
<1>4. HistoryOK'
  BY <1>1, EndsKeeps
<1>5. Number(jobs', {"increase"}, Ticks) = Number(jobs, {"increase"}, Ticks)
  <2>1. jobs[w].pc \notin {"increase"} /\ jobs'[w].pc \notin {"increase"}
    BY <1>1, <1>2, <1>3
  <2> QED
    BY <1>3, <2>1, NumberApart
<1>6. /\ Rate!Live(window)' = Rate!Live(window) /\ Rate!Live(count)' = Rate!Live(count)
      /\ Before(Era)' = Before(Era)
  BY <1>1 DEF Era, Rate!Live, Before
<1>7. \A v \in Worker :
         /\ jobs'[v].pc = "start" /\ Rate!Live(window) => jobs'[v].now + Window <= window.expires
         /\ jobs'[v].pc \in {"increase", "answer"} /\ ~ Rate!Live(window) => jobs'[v].now < window.expires
  BY <1>2, <1>3 DEF RedisOK
<1> QED
  BY <1>1, <1>3, <1>4, <1>5, <1>6, <1>7 DEF RedisOK

LEMMA TickRedis ==
  ASSUME Sane, JobsTyped, HistoryOK, RedisOK, Redis, Rate!Tick
  PROVE  JobsTyped' /\ HistoryOK' /\ RedisOK'
<1>1. /\ HistoryOK' /\ clock' = clock + 1
      /\ \A w \in Worker : jobs[w].pc \in Begun => jobs[w].now = clock
  BY TickKeeps
<1>2. UNCHANGED <<window, count, row, jobs, asked>>
  BY DEF Rate!Tick, Rate!history
<1>3. JobsTyped'
  BY <1>1, <1>2 DEF JobsTyped
<1>4. /\ clock \in Nat /\ window.expires \in Nat /\ count.expires \in Nat /\ window.value \in Nat
      /\ Window \in Nat
  BY TicksType, WindowType DEF HistoryOK, RedisOK, Ticks
<1>5. Rate!Live(window)' => Rate!Live(window)
  BY <1>1, <1>2, <1>4 DEF Rate!Live
<1>6. Rate!Live(window) /\ ~ Rate!Live(window)' => window.expires = clock + 1
  BY <1>1, <1>2, <1>4 DEF Rate!Live
<1>7. Rate!Live(count)' => Rate!Live(count)
  BY <1>1, <1>2, <1>4 DEF Rate!Live
<1>8. Rate!Live(count)' => Rate!Live(window)' = Rate!Live(window)
  <2>1. Rate!Live(window) /\ ~ Rate!Live(window)' => count.expires = clock + 1
    BY <1>6 DEF RedisOK
  <2> QED
    BY <1>1, <1>2, <1>4, <1>5, <2>1 DEF Rate!Live
<1>9. Rate!Live(count)' => Before(Era)' = Before(Era)
  BY <1>2, <1>8 DEF Era, Before
<1>10. Number(jobs', {"increase"}, Ticks) = Number(jobs, {"increase"}, Ticks)
  BY <1>2
<1>11. \A v \in Worker : jobs[v].pc \in {"increase", "answer"} /\ ~ Rate!Live(window)'
        => jobs[v].now < window.expires
  <2> SUFFICES ASSUME NEW v \in Worker, jobs[v].pc \in {"increase", "answer"}, ~ Rate!Live(window)'
               PROVE jobs[v].now < window.expires
    OBVIOUS
  <2>1. jobs[v].now = clock
    BY <1>1 DEF Begun
  <2> QED
    BY <1>4, <1>6, <2>1 DEF RedisOK
<1>12. \A v \in Worker : jobs[v].pc = "start" /\ Rate!Live(window)'
        => jobs[v].now + Window <= window.expires
  BY <1>5 DEF RedisOK
<1>13. Rate!Live(window)' =>
         /\ count.expires = window.expires /\ count.value >= 1
         /\ Window <= window.expires /\ window.expires <= clock + 1 + Window
         /\ window.expires <= window.value + Window + 1
  BY <1>4, <1>5 DEF RedisOK
<1>14. Rate!Live(count)' => count.value + Number(jobs, {"increase"}, Ticks) <= Since(asked, Before(Era)')
  BY <1>7, <1>9 DEF RedisOK
<1>15. /\ row' = Rate!NoRow /\ window' \in [value : Ticks, expires : 0..Rate!Never]
       /\ count' \in [value : Nat, expires : 0..Rate!Never]
       /\ count'.value + Number(jobs', {"increase"}, Ticks) <= asked'[Rate!Last]
  BY <1>2, <1>10 DEF RedisOK
<1> QED
  BY <1>1, <1>2, <1>3, <1>10, <1>11, <1>12, <1>13, <1>14, <1>15 DEF RedisOK

LEMMA InitRedis ==
  ASSUME Sane, Redis, Rate!Init
  PROVE  RedisOK
<1>1. /\ clock = 0 /\ window = Rate!Absent /\ count = Rate!Absent /\ row = Rate!NoRow
      /\ jobs = [w \in Worker |-> Rate!Idle] /\ asked = [t \in 0..Rate!Last |-> 0]
  BY DEF Rate!Init
<1>2. /\ window \in [value : Ticks, expires : 0..Rate!Never]
      /\ count \in [value : Nat, expires : 0..Rate!Never]
  BY <1>1, WindowType DEF Rate!Absent
<1>3. ~ Rate!Live(window) /\ ~ Rate!Live(count)
  BY <1>1 DEF Rate!Live, Rate!Absent
<1>4. \A w \in Worker : jobs[w].pc = "idle"
  BY <1>1 DEF Rate!Idle
<1>5. Number(jobs, {"increase"}, Ticks) = 0
  BY <1>4, NumberZero
<1>6. count.value + Number(jobs, {"increase"}, Ticks) <= asked[Rate!Last]
  BY <1>1, <1>5, TicksType DEF Rate!Absent
<1> QED
  BY <1>1, <1>2, <1>3, <1>4, <1>6 DEF RedisOK

\* A refusal has its reason.
LEMMA AnswerRedisReason ==
  ASSUME Sane, JobsTyped, HistoryOK, RedisOK, Redis, NEW w \in Worker, Rate!AnswerRedis(w),
         Rate!Live(count), count.value > Limit
  PROVE  Rate!During(asked, IF clock > Window + 1 THEN clock - Window - 1 ELSE 0, clock) > Limit
<1> DEFINE from == IF clock > Window + 1 THEN clock - Window - 1 ELSE 0
<1>1. /\ clock \in 0..MaxTime /\ clock \in Nat /\ Grows(asked, clock) /\ window.expires \in Nat
      /\ count.value \in Nat /\ Window \in Nat /\ Limit \in Nat
  BY TicksType, WindowType DEF HistoryOK, RedisOK, Ticks
<1>2. jobs[w].pc = "answer" /\ jobs[w].now \in Nat /\ (jobs[w].now = clock \/ jobs[w].now + 1 = clock)
  BY TicksType DEF Rate!AnswerRedis, Rate!At, JobsTyped, LimitJob, Begun, Ticks
<1>3. Era + Window >= clock /\ Era \in 0..clock
  <2>1. CASE Rate!Live(window)
    BY <1>1, <2>1, EraType DEF Era, Rate!Live, RedisOK
  <2>2. CASE ~ Rate!Live(window)
    <3>1. jobs[w].now < window.expires
      BY <1>2, <2>2 DEF RedisOK
    <3> QED
      BY <1>1, <1>2, <2>2, <3>1, EraType DEF Era
  <2> QED
    BY <2>1, <2>2
<1>4. from \in 0..Rate!Last /\ Before(Era) \in 0..Rate!Last /\ from <= Before(Era)
  BY <1>1, <1>3, TicksType DEF Before
<1>5. /\ Since(asked, Before(Era)) <= Since(asked, from)
      /\ Rate!During(asked, from, clock) = Since(asked, from)
      /\ Since(asked, Before(Era)) \in Nat /\ Since(asked, from) \in Nat
  BY <1>1, <1>4, SinceType
<1>6. count.value <= Since(asked, Before(Era))
  <2>1. Number(jobs, {"increase"}, Ticks) \in Nat
    BY NumberType
  <2> QED
    BY <1>1, <1>5, <2>1 DEF RedisOK
<1> QED
  BY <1>1, <1>5, <1>6

-----------------------------------------------------------------------------
(* How many requests are let through, in Redis                             *)

Workers == Cardinality(Worker)
Most == (1 + Workers) * Limit + Workers * Workers

\* What s workers can still let through that are about to begin a window: in the
\* window of each the limit, and the requests of workers that are counted already.
\* Not all are, for those that are about to begin it are not.
Starts(s) == s * Limit + (IF s = Workers THEN Workers - 1 ELSE s) * (Workers - 1)

\* What is left of a count.
Left(c, a) == IF c > Limit THEN 0 ELSE Limit - c + a

\* There is room in a stretch that ends at e and in which d were let through:
\* with a window that lives until x, or one that has expired.
Room(d, e, live, x, c, a, s, i) ==
    IF live THEN /\ d + Left(c, a) + Starts(s) <= Most
                 /\ s = 0 /\ x < e => d + Left(c, a) + Workers + Starts(Workers) <= Most
    ELSE d + i + a + Starts(Workers) <= Most

LEMMA TimesMonotone ==
  ASSUME NEW m \in Nat, NEW n \in Nat, NEW k \in Nat, m <= n
  PROVE  m * k \in Nat /\ m * k <= n * k
<1>1. n - m \in Nat /\ n = m + (n - m)
  OBVIOUS
<1>2. (m + (n - m)) * k = m * k + (n - m) * k
  BY <1>1
<1>3. m * k \in Nat /\ (n - m) * k \in Nat
  BY <1>1
<1> QED
  BY <1>1, <1>2, <1>3

LEMMA WorkersType ==
  ASSUME Sane
  PROVE  Workers \in Nat /\ Workers >= 1 /\ Limit \in Nat /\ Most \in Nat
<1>1. IsFiniteSet(Worker) /\ Worker # {} /\ Limit \in Nat
  BY WorkersFinite DEF Sane, Rate!LimitAssumption
<1>2. Workers \in Nat /\ Workers # 0
  BY <1>1, FS_CardinalityType, FS_EmptySet DEF Workers
<1>3. (1 + Workers) * Limit \in Nat /\ Workers * Workers \in Nat
  BY <1>1, <1>2
<1> QED
  BY <1>1, <1>2, <1>3 DEF Most

LEMMA StartsType ==
  ASSUME Sane, NEW s \in 0..Workers
  PROVE  /\ Starts(s) \in Nat /\ Starts(s) <= Starts(Workers) /\ Starts(0) = 0
         /\ s > 0 => Starts(s - 1) + Limit + (Workers - s) <= Starts(s)
         /\ Limit + (Workers - 1) + Workers + Starts(Workers) = Most
<1> DEFINE V == Workers - 1
           n == IF s = Workers THEN V ELSE s
<1>1. /\ Workers \in Nat /\ Limit \in Nat /\ V \in Nat /\ s \in Nat /\ n \in Nat /\ n <= V
      /\ s <= Workers
  BY WorkersType
<1>2. s * Limit \in Nat /\ s * Limit <= Workers * Limit /\ n * V \in Nat /\ n * V <= V * V
      /\ Workers * Limit \in Nat /\ V * V \in Nat
  BY <1>1, TimesMonotone
<1>3. Starts(s) = s * Limit + n * V
  BY DEF Starts
<1>4. Starts(Workers) = Workers * Limit + V * V
  BY DEF Starts
<1>5. Starts(0) = 0
  <2>1. 0 * Limit = 0 /\ 0 * V = 0
    BY <1>1
  <2>2. CASE Workers = 0
    BY <2>2, WorkersType
  <2> QED
    BY <2>1, <2>2 DEF Starts
<1>6. Limit + V + Workers + Starts(Workers) = Most
  <2>1. (1 + Workers) * Limit = Limit + Workers * Limit
    BY <1>1
  <2>2. Workers * Workers = V * V + V + Workers
    <3>1. Workers = V + 1
      BY <1>1
    <3>2. (V + 1) * (V + 1) = V * V + V + (V + 1)
      BY <1>1
    <3> QED
      BY <3>1, <3>2
  <2>3. Workers * Workers \in Nat /\ (1 + Workers) * Limit \in Nat
    BY <1>1
  <2> HIDE DEF V
  <2> QED
    BY <1>1, <1>2, <1>4, <2>1, <2>2, <2>3 DEF Most
<1>7. s > 0 => Starts(s - 1) + Limit + (Workers - s) <= Starts(s)
  <2> SUFFICES ASSUME s > 0 PROVE Starts(s - 1) + Limit + (Workers - s) <= Starts(s)
    OBVIOUS
  <2>1. s - 1 \in Nat /\ s - 1 # Workers
    BY <1>1
  <2>2. Starts(s - 1) = (s - 1) * Limit + (s - 1) * V
    BY <2>1 DEF Starts
  <2>3. (s - 1) * Limit = s * Limit - Limit
    BY <1>1
  <2>4. (s - 1) * V + (Workers - s) <= n * V
    <3>1. CASE s = Workers
      BY <1>1, <1>2, <3>1
    <3>2. CASE s # Workers
      <4>1. (s - 1) * V = s * V - V /\ s * V \in Nat /\ n = s
        BY <1>1, <3>2
      <4>2. Workers - s <= V
        BY <1>1
      <4> HIDE DEF V, n
      <4> QED
        BY <1>1, <4>1, <4>2
    <3> QED
      BY <3>1, <3>2
  <2>5. (s - 1) * V \in Nat
    BY <1>1, <2>1
  <2> HIDE DEF V, n
  <2> QED
    BY <1>1, <1>2, <1>3, <2>2, <2>3, <2>4, <2>5
<1> HIDE DEF n
<1>8. Starts(s) \in Nat /\ Starts(s) <= Starts(Workers)
  BY <1>2, <1>3, <1>4
<1> QED
  BY <1>5, <1>6, <1>7, <1>8

LEMMA LeftType ==
  ASSUME Sane, NEW c \in Nat, NEW a \in Nat
  PROVE  Left(c, a) \in Nat
  BY WorkersType DEF Left

LEMMA RoomForWindow ==
  ASSUME Sane, NEW d \in Nat, NEW e \in Nat, NEW live \in BOOLEAN, NEW x \in Nat, NEW c \in Nat,
         NEW a \in Nat, NEW s \in 1..Workers, NEW i \in Nat, a + s <= Workers,
         Room(d, e, live, x, c, a, s, i), NEW y \in Nat, e <= y
  PROVE  Room(d, e, TRUE, y, 1, a + 1, s - 1, i)
<1>1. /\ Workers \in Nat /\ Limit \in Nat /\ Most \in Nat /\ s - 1 \in 0..Workers
      /\ s \in 0..Workers
      /\ s \in Nat
  BY WorkersType
<1>2. /\ Starts(s) \in Nat /\ Starts(s) <= Starts(Workers) /\ Starts(s - 1) \in Nat
      /\ Starts(s - 1) + Limit + (Workers - s) <= Starts(s)
  BY <1>1, StartsType
<1>3. Starts(Workers) \in Nat /\ Left(c, a) \in Nat
  BY <1>1, StartsType, LeftType
<1>4. d + Starts(s) <= Most
  BY <1>1, <1>2, <1>3 DEF Room
<1>5. Left(1, a + 1) <= Limit + a /\ Left(1, a + 1) \in Nat
  BY <1>1 DEF Left
<1>6. d + Left(1, a + 1) + Starts(s - 1) <= Most
  BY <1>1, <1>2, <1>4, <1>5
<1> QED
  BY <1>6 DEF Room

LEMMA RoomForCount ==
  ASSUME Sane, NEW d \in Nat, NEW e \in Nat, NEW live \in BOOLEAN, NEW x \in Nat, NEW c \in Nat,
         NEW a \in Nat, NEW s \in 0..Workers, NEW i \in Nat,
         Room(d, e, live, x, c, a, s, i + 1), NEW n, live => n = c + 1
  PROVE  Room(d, e, live, x, n, a + 1, s, i)
<1>1. /\ Workers \in Nat /\ Limit \in Nat /\ Most \in Nat /\ Starts(s) \in Nat
      /\ Starts(Workers) \in Nat
  BY WorkersType, StartsType
<1>2. Left(c + 1, a + 1) <= Left(c, a) /\ Left(c, a) \in Nat /\ Left(c + 1, a + 1) \in Nat
  BY <1>1 DEF Left
<1>3. CASE live
  BY <1>1, <1>2, <1>3 DEF Room
<1>4. CASE ~ live
  BY <1>1, <1>4 DEF Room
<1> QED
  BY <1>3, <1>4

LEMMA RoomForAnswer ==
  ASSUME Sane, NEW d \in Nat, NEW e \in Nat, NEW live \in BOOLEAN, NEW x \in Nat, NEW c \in Nat,
         NEW a \in Nat, NEW s \in 0..Workers, NEW i \in Nat,
         Room(d, e, live, x, c, a + 1, s, i)
  PROVE  /\ Room(d, e, live, x, c, a, s, i)
         /\ ~ (c > Limit) => Room(d + 1, e, live, x, c, a, s, i)
<1>1. /\ Workers \in Nat /\ Limit \in Nat /\ Most \in Nat /\ Starts(s) \in Nat
      /\ Starts(Workers) \in Nat
  BY WorkersType, StartsType
<1>2. /\ Left(c, a) <= Left(c, a + 1) /\ Left(c, a) \in Nat /\ Left(c, a + 1) \in Nat
      /\ ~ (c > Limit) => Left(c, a) + 1 = Left(c, a + 1)
  BY <1>1 DEF Left
<1>3. CASE live
  BY <1>1, <1>2, <1>3 DEF Room
<1>4. CASE ~ live
  BY <1>1, <1>4 DEF Room
<1> QED
  BY <1>3, <1>4

LEMMA RoomAtExpiry ==
  ASSUME Sane, NEW d \in Nat, NEW e \in Nat, NEW x \in Nat, x < e, NEW c \in Nat,
         NEW a \in Nat, NEW i \in Nat, a + i <= Workers, Room(d, e, TRUE, x, c, a, 0, i)
  PROVE  Room(d, e, FALSE, x, c, a, 0, i)
<1>1. Workers \in Nat /\ Most \in Nat /\ Starts(Workers) \in Nat /\ Left(c, a) \in Nat
  <2>1. Workers \in Nat /\ Most \in Nat /\ Workers \in 0..Workers
    BY WorkersType
  <2> QED
    BY <2>1, StartsType, LeftType
<1>2. d + Left(c, a) + Workers + Starts(Workers) <= Most
  BY DEF Room
<1> QED
  BY <1>1, <1>2 DEF Room

LEMMA RoomAtFirst ==
  ASSUME Sane, NEW e \in Nat, NEW live \in BOOLEAN, NEW x \in Nat, NEW c \in Nat, live => c >= 1,
         NEW a \in Nat, NEW s \in 0..Workers, NEW i \in Nat, a + i <= Workers
  PROVE  Room(0, e, live, x, c, a, s, i)
<1>1. /\ Workers \in Nat /\ Workers >= 1 /\ Limit \in Nat /\ Most \in Nat
      /\ Starts(s) \in Nat /\ Starts(Workers) \in Nat
      /\ Starts(s) <= Starts(Workers) /\ Limit + (Workers - 1) + Workers + Starts(Workers) = Most
  BY WorkersType, StartsType
<1>2. CASE live
  <2>1. Left(c, a) <= Limit + (Workers - 1) /\ Left(c, a) \in Nat
    BY <1>1, <1>2 DEF Left
  <2> QED
    BY <1>1, <1>2, <2>1 DEF Room
<1>3. CASE ~ live
  BY <1>1, <1>3 DEF Room
<1> QED
  BY <1>2, <1>3

RoomIn(t) == Room(Since(passed, t), t + Window, Rate!Live(window), window.expires, count.value,
                  Number(jobs, {"answer"}, Ticks), Number(jobs, {"start"}, Ticks),
                  Number(jobs, {"increase"}, Ticks))

\* In each stretch that is over no more were let through, and in each that is not
\* there is room.
PassesOK == \A t \in 0..clock :
    /\ t + Window <= clock => Rate!During(passed, t, t + Window - 1) <= Most
    /\ clock < t + Window => RoomIn(t)

LEMMA DoingType ==
  ASSUME Sane
  PROVE  /\ Number(jobs, {"answer"}, Ticks) \in Nat /\ Number(jobs, {"start"}, Ticks) \in 0..Workers
         /\ Number(jobs, {"increase"}, Ticks) \in Nat
         /\ Number(jobs, {"answer"}, Ticks) + Number(jobs, {"start"}, Ticks) <= Workers
         /\ Number(jobs, {"answer"}, Ticks) + Number(jobs, {"increase"}, Ticks) <= Workers
<1>1. Number(jobs, {"answer"} \cup {"start"}, Ticks)
        = Number(jobs, {"answer"}, Ticks) + Number(jobs, {"start"}, Ticks)
  BY NumberTogether
<1>2. Number(jobs, {"answer"} \cup {"increase"}, Ticks)
        = Number(jobs, {"answer"}, Ticks) + Number(jobs, {"increase"}, Ticks)
  BY NumberTogether
<1>3. /\ Number(jobs, {"answer"} \cup {"start"}, Ticks) <= Workers
      /\ Number(jobs, {"answer"} \cup {"increase"}, Ticks) <= Workers
      /\ Workers \in Nat
  BY NumberType DEF Workers
<1>4. /\ Number(jobs, {"answer"}, Ticks) \in Nat /\ Number(jobs, {"start"}, Ticks) \in 0..Workers
      /\ Number(jobs, {"increase"}, Ticks) \in Nat
  BY NumberType DEF Workers
<1> QED
  BY <1>1, <1>2, <1>3, <1>4

\* What is over stays as it is.
LEMMA OverStays ==
  ASSUME Sane, clock \in 0..MaxTime, Grows(passed, clock),
         passed' = passed \/ passed' = Plus(passed, clock),
         NEW t \in 0..clock, t + Window <= clock
  PROVE  Rate!During(passed', t, t + Window - 1) = Rate!During(passed, t, t + Window - 1)
<1>1. Window \in Nat /\ Window > 0 /\ clock \in Nat /\ t \in Nat
  BY TicksType, WindowType
<1>2. /\ t + Window - 1 < MaxTime /\ t + Window - 1 + 1 = t + Window /\ t + Window \in 0..Rate!Last
      /\ t \in 0..Rate!Last
      /\ ~ (t + Window > clock) /\ ~ (t > clock)
  BY <1>1, TicksType
<1>3. passed'[t + Window] = passed[t + Window] /\ passed'[t] = passed[t]
  <2>1. CASE passed' = passed
    BY <2>1
  <2>2. CASE passed' = Plus(passed, clock)
    BY <1>2, <2>2 DEF Plus
  <2> QED
    BY <2>1, <2>2
<1> QED
  BY <1>2, <1>3 DEF Rate!During

\* Where nothing is let through, a stretch has room if it still fits.
LEMMA SamePasses ==
  ASSUME Sane, HistoryOK, PassesOK, clock' = clock, passed' = passed,
         \A t \in 0..clock : clock < t + Window /\ RoomIn(t) => RoomIn(t)'
  PROVE  PassesOK'
<1>1. clock \in 0..MaxTime /\ Grows(passed, clock)
  BY DEF HistoryOK, Ticks
<1>2. \A t \in 0..clock : t + Window <= clock
        => Rate!During(passed', t, t + Window - 1) = Rate!During(passed, t, t + Window - 1)
  BY <1>1, OverStays
<1> QED
  BY <1>2 DEF PassesOK

LEMMA RoomTypes ==
  ASSUME Sane, HistoryOK, RedisOK, NEW t \in 0..clock
  PROVE  /\ Since(passed, t) \in Nat /\ t + Window \in Nat /\ Rate!Live(window) \in BOOLEAN
         /\ window.expires \in Nat /\ count.value \in Nat /\ clock \in Nat /\ clock + Window \in Nat
         /\ t + Window <= clock + Window
<1>1. clock \in 0..MaxTime /\ Grows(passed, clock) /\ clock \in Nat
  BY TicksType DEF HistoryOK, Ticks
<1>2. t \in 0..Rate!Last /\ t \in Nat /\ Window \in Nat
  BY <1>1, TicksType, WindowType
<1>3. Since(passed, t) \in Nat
  BY <1>1, <1>2, SinceType
<1>4. window.expires \in Nat /\ count.value \in Nat
  BY WindowType DEF RedisOK
<1> QED
  BY <1>1, <1>2, <1>3, <1>4 DEF Rate!Live

LEMMA GetWindowPasses ==
  ASSUME Sane, JobsTyped, HistoryOK, RedisOK, PassesOK, Redis, NEW w \in Worker, Rate!GetWindow(w)
  PROVE  PassesOK'
<1>1. PICK q : Begins(w, q) /\ q \in LimitJob /\ q.pc = IF Rate!Live(window) THEN "increase" ELSE "start"
  BY GetWindowBecomes
<1>2. UNCHANGED <<window, count, row>>
  BY GetWindowBecomes
<1>3. /\ jobs[w].pc = "idle" /\ clock' = clock /\ passed' = passed
      /\ jobs'[w] = q /\ \A v \in Worker \ {w} : jobs'[v] = jobs[v]
  BY <1>1 DEF Begins, JobsTyped
<1>4. Number(jobs', {"answer"}, Ticks) = Number(jobs, {"answer"}, Ticks)
  <2>1. jobs[w].pc \notin {"answer"} /\ jobs'[w].pc \notin {"answer"}
    BY <1>1, <1>3
  <2> QED
    BY <1>3, <2>1, NumberApart
<1>5. Rate!Live(window)' = Rate!Live(window)
  BY <1>2, <1>3 DEF Rate!Live
<1>6. CASE Rate!Live(window)
  <2>1. Number(jobs', {"start"}, Ticks) = Number(jobs, {"start"}, Ticks)
    <3>1. jobs[w].pc \notin {"start"} /\ jobs'[w].pc \notin {"start"}
      BY <1>1, <1>3, <1>6
    <3> QED
      BY <1>3, <3>1, NumberApart
  <2>2. \A t \in 0..clock : RoomIn(t) => RoomIn(t)'
    BY <1>2, <1>3, <1>4, <1>5, <1>6, <2>1 DEF RoomIn, Room
  <2> QED
    BY <1>3, <2>2, SamePasses
<1>7. CASE ~ Rate!Live(window)
  <2>1. Number(jobs', {"increase"}, Ticks) = Number(jobs, {"increase"}, Ticks)
    <3>1. jobs[w].pc \notin {"increase"} /\ jobs'[w].pc \notin {"increase"}
      BY <1>1, <1>3, <1>7
    <3>2. OthersRest(w)
      BY <1>3 DEF OthersRest
    <3> QED
      BY <3>1, <3>2, StepApart
  <2>2. \A t \in 0..clock : RoomIn(t) => RoomIn(t)'
    BY <1>2, <1>3, <1>4, <1>5, <1>7, <2>1 DEF RoomIn, Room
  <2> QED
    BY <1>3, <2>2, SamePasses
<1> QED
  BY <1>6, <1>7

LEMMA StartWindowPasses ==
  ASSUME Sane, JobsTyped, HistoryOK, RedisOK, PassesOK, Redis, NEW w \in Worker, Rate!StartWindow(w)
  PROVE  PassesOK'
<1> DEFINE q == [jobs[w] EXCEPT !.pc = "answer"]
<1>1. /\ jobs[w].pc = "start" /\ clock' = clock /\ passed' = passed
      /\ window'.expires = clock + Window /\ count'.value = 1
      /\ jobs'[w] = q /\ \A v \in Worker \ {w} : jobs'[v] = jobs[v]
  BY DEF Rate!StartWindow, Rate!At, Rate!Goto, JobsTyped
<1>2. jobs[w] \in LimitJob /\ "answer" \in ModePc
  BY DEF JobsTyped, ModePc
<1>3. jobs'[w].pc = "answer" /\ jobs'[w].now = jobs[w].now /\ jobs[w].now \in Ticks
  BY <1>1, <1>2, NextType DEF LimitJob
<1> HIDE DEF q
<1>4. Number(jobs', {"answer"}, Ticks) = Number(jobs, {"answer"}, Ticks) + 1
  <2>1. /\ ~ (jobs[w].pc \in {"answer"} /\ jobs[w].now \in Ticks)
        /\ jobs'[w].pc \in {"answer"} /\ jobs'[w].now \in Ticks
    BY <1>1, <1>3
  <2>2. \A v \in Worker \ {w} : jobs'[v] = jobs[v]
    BY <1>1
  <2>3. jobs'[w].pc \in {"answer"} /\ jobs'[w].now \in Ticks
    BY <2>1
  <2>4. ~ (jobs[w].pc \in {"answer"} /\ jobs[w].now \in Ticks)
    BY <2>1
  <2> QED
    BY <2>2, <2>3, <2>4, NumberPlus
<1>5. Number(jobs', {"start"}, Ticks) + 1 = Number(jobs, {"start"}, Ticks)
  <2>1. jobs[w].pc \in {"start"} /\ jobs[w].now \in Ticks /\ jobs'[w].pc \notin {"start"}
    BY <1>1, <1>3
  <2> QED
    BY <1>1, <2>1, NumberMinus
<1>6. Number(jobs', {"increase"}, Ticks) = Number(jobs, {"increase"}, Ticks)
  <2>1. jobs[w].pc \notin {"increase"} /\ jobs'[w].pc \notin {"increase"}
    BY <1>1, <1>3
  <2>2. OthersRest(w)
    BY <1>1 DEF OthersRest
  <2> QED
    BY <2>1, <2>2, StepApart
<1>7. Rate!Live(window)'
  <2>1. clock + Window > clock
    BY TicksType, WindowType DEF HistoryOK, Ticks
  <2> QED
    BY <1>1, <2>1 DEF Rate!Live
<1>8. /\ Number(jobs, {"answer"}, Ticks) \in Nat /\ Number(jobs, {"start"}, Ticks) \in 1..Workers
      /\ Number(jobs, {"increase"}, Ticks) \in Nat
      /\ Number(jobs, {"answer"}, Ticks) + Number(jobs, {"start"}, Ticks) <= Workers
      /\ Number(jobs', {"start"}, Ticks) = Number(jobs, {"start"}, Ticks) - 1
  <2>1. Number(jobs', {"start"}, Ticks) \in Nat /\ Workers \in Nat
    BY NumberType, WorkersType
  <2> QED
    BY <1>5, <2>1, DoingType
<1>9. ASSUME NEW t \in 0..clock, RoomIn(t) PROVE RoomIn(t)'
  <2> DEFINE d == Since(passed, t)
             a == Number(jobs, {"answer"}, Ticks)
             s == Number(jobs, {"start"}, Ticks)
             i == Number(jobs, {"increase"}, Ticks)
  <2>1. /\ d \in Nat /\ t + Window \in Nat /\ Rate!Live(window) \in BOOLEAN
        /\ window.expires \in Nat /\ count.value \in Nat /\ clock + Window \in Nat
        /\ t + Window <= clock + Window
    BY <1>9, RoomTypes
  <2>2. Room(d, t + Window, Rate!Live(window), window.expires, count.value, a, s, i)
    BY <1>9 DEF RoomIn
  <2>3. a \in Nat /\ s \in 1..Workers /\ i \in Nat /\ a + s <= Workers
    BY <1>8
  <2> HIDE DEF d, a, s, i
  <2>4. Room(d, t + Window, TRUE, clock + Window, 1, a + 1, s - 1, i)
    BY <2>1, <2>2, <2>3, RoomForWindow
  <2>5. d' = d
    BY <1>1 DEF d, Since
  <2> QED
    BY <1>1, <1>4, <1>6, <1>7, <1>8, <2>4, <2>5 DEF RoomIn, d, a, s, i
<1> QED
  BY <1>1, <1>9, SamePasses

LEMMA IncreasePasses ==
  ASSUME Sane, JobsTyped, HistoryOK, RedisOK, PassesOK, Redis, NEW w \in Worker, Rate!Increase(w)
  PROVE  PassesOK'
<1>1. PICK q \in LimitJob : /\ q.pc = "answer" /\ q.now = jobs[w].now
                            /\ jobs' = [jobs EXCEPT ![w] = q]
  BY IncreaseBecomes
<1>2. /\ UNCHANGED <<clock, window, row, asked, passed, inWindow>>
      /\ count' = IF Rate!Live(count) THEN [count EXCEPT !.value = @ + 1]
                  ELSE [value |-> 1, expires |-> Rate!Never]
      /\ jobs[w].pc = "increase" /\ jobs[w].now \in Ticks
  BY IncreaseBecomes
<1>3. jobs'[w] = q /\ \A v \in Worker \ {w} : jobs'[v] = jobs[v]
  BY <1>1 DEF JobsTyped
<1>4. Number(jobs', {"answer"}, Ticks) = Number(jobs, {"answer"}, Ticks) + 1
  <2>1. /\ ~ (jobs[w].pc \in {"answer"} /\ jobs[w].now \in Ticks)
        /\ jobs'[w].pc \in {"answer"} /\ jobs'[w].now \in Ticks
    BY <1>1, <1>2, <1>3
  <2>2. OthersRest(w)
    BY <1>3 DEF OthersRest
  <2> QED
    BY <2>1, <2>2, StepPlus
<1>5. Number(jobs', {"increase"}, Ticks) + 1 = Number(jobs, {"increase"}, Ticks)
  <2>1. /\ jobs[w].pc \in {"increase"} /\ jobs[w].now \in Ticks
        /\ ~ (jobs'[w].pc \in {"increase"} /\ jobs'[w].now \in Ticks)
    BY <1>1, <1>2, <1>3
  <2>2. OthersRest(w)
    BY <1>3 DEF OthersRest
  <2> QED
    BY <2>1, <2>2, StepMinus
<1>6. Number(jobs', {"start"}, Ticks) = Number(jobs, {"start"}, Ticks)
  <2>1. jobs[w].pc \notin {"start"} /\ jobs'[w].pc \notin {"start"}
    BY <1>1, <1>2, <1>3
  <2> QED
    BY <1>3, <2>1, NumberApart
<1>7. Rate!Live(window)' = Rate!Live(window)
  BY <1>2 DEF Rate!Live
<1>8. Rate!Live(window) => count'.value = count.value + 1
  <2>1. Rate!Live(window) => Rate!Live(count)
    BY DEF RedisOK, Rate!Live
  <2> QED
    BY <1>2, <2>1 DEF RedisOK
<1>9. ASSUME NEW t \in 0..clock, RoomIn(t) PROVE RoomIn(t)'
  <2> DEFINE d == Since(passed, t)
             a == Number(jobs, {"answer"}, Ticks)
             s == Number(jobs, {"start"}, Ticks)
             i == Number(jobs', {"increase"}, Ticks)
             n == count'.value
  <2>1. /\ d \in Nat /\ t + Window \in Nat /\ Rate!Live(window) \in BOOLEAN
        /\ window.expires \in Nat /\ count.value \in Nat
    BY <1>9, RoomTypes
  <2>2. Room(d, t + Window, Rate!Live(window), window.expires, count.value, a, s, i + 1)
    BY <1>5, <1>9 DEF RoomIn
  <2>3. a \in Nat /\ s \in 0..Workers /\ i \in Nat
    BY DoingType, NumberType
  <2>4. Rate!Live(window) => n = count.value + 1
    BY <1>8
  <2> HIDE DEF d, a, s, i, n
  <2>5. Room(d, t + Window, Rate!Live(window), window.expires, n, a + 1, s, i)
    BY <2>1, <2>2, <2>3, <2>4, RoomForCount
  <2>6. d' = d
    BY <1>2 DEF d, Since
  <2> QED
    BY <1>2, <1>4, <1>6, <1>7, <2>5, <2>6 DEF RoomIn, d, a, s, i, n
<1> QED
  BY <1>2, <1>9, SamePasses

LEMMA AnswerRedisPasses ==
  ASSUME Sane, JobsTyped, HistoryOK, RedisOK, PassesOK, Redis, NEW w \in Worker, Rate!AnswerRedis(w)
  PROVE  PassesOK'
<1>1. PICK a \in {"passed", "refused", "failed"} :
         /\ IF a = "passed" THEN passed' = Plus(passed, clock) /\ inWindow' = inWindow + 1
            ELSE passed' = passed /\ inWindow' = inWindow
         /\ answer' = [answer EXCEPT ![w] = a]
         /\ a = "passed" => Rate!Live(count) /\ ~ (count.value > Limit)
         /\ a = "refused" => Rate!Live(count) /\ count.value > Limit
  BY AnswerRedisBecomes
<1>2. /\ UNCHANGED <<clock, window, count, row>> /\ jobs[w].pc = "answer"
      /\ jobs' = [jobs EXCEPT ![w] = Rate!Idle]
  BY AnswerRedisBecomes DEF Ends
<1>3. jobs'[w] = Rate!Idle /\ \A v \in Worker \ {w} : jobs'[v] = jobs[v]
  BY <1>2 DEF JobsTyped
<1>4. Rate!Idle.pc = "idle" /\ jobs[w].now \in Ticks
  BY DEF Rate!Idle, JobsTyped, LimitJob
<1>5. Number(jobs', {"answer"}, Ticks) + 1 = Number(jobs, {"answer"}, Ticks)
  <2>1. /\ jobs[w].pc \in {"answer"} /\ jobs[w].now \in Ticks
        /\ ~ (jobs'[w].pc \in {"answer"} /\ jobs'[w].now \in Ticks)
    BY <1>2, <1>3, <1>4
  <2>2. OthersRest(w)
    BY <1>3 DEF OthersRest
  <2> QED
    BY <2>1, <2>2, StepMinus
<1>6. Number(jobs', {"start"}, Ticks) = Number(jobs, {"start"}, Ticks)
  <2>1. jobs[w].pc \notin {"start"} /\ jobs'[w].pc \notin {"start"}
    BY <1>2, <1>3, <1>4
  <2> QED
    BY <1>3, <2>1, NumberApart
<1>7. Number(jobs', {"increase"}, Ticks) = Number(jobs, {"increase"}, Ticks)
  <2>1. jobs[w].pc \notin {"increase"} /\ jobs'[w].pc \notin {"increase"}
    BY <1>2, <1>3, <1>4
  <2> QED
    BY <1>3, <2>1, NumberApart
<1>8. Rate!Live(window)' = Rate!Live(window) /\ clock' = clock
  BY <1>2 DEF Rate!Live
<1>9. clock \in 0..MaxTime /\ Grows(passed, clock)
  BY DEF HistoryOK, Ticks
<1>10. ASSUME NEW t \in 0..clock, RoomIn(t) PROVE RoomIn(t)'
  <2> DEFINE d == Since(passed, t)
             b == Number(jobs', {"answer"}, Ticks)
             s == Number(jobs, {"start"}, Ticks)
             i == Number(jobs, {"increase"}, Ticks)
  <2>1. /\ d \in Nat /\ t + Window \in Nat /\ Rate!Live(window) \in BOOLEAN
        /\ window.expires \in Nat /\ count.value \in Nat
    BY <1>10, RoomTypes
  <2>2. Room(d, t + Window, Rate!Live(window), window.expires, count.value, b + 1, s, i)
    BY <1>5, <1>10 DEF RoomIn
  <2>3. b \in Nat /\ s \in 0..Workers /\ i \in Nat
    BY DoingType, NumberType
  <2>4. CASE a = "passed"
    <3>1. Since(passed', t) = Since(passed, t) + 1
      BY <1>1, <1>9, <2>4, GrowsByOne
    <3>2. ~ (count.value > Limit)
      BY <1>1, <2>4
    <3> HIDE DEF d, b, s, i
    <3>3. Room(d + 1, t + Window, Rate!Live(window), window.expires, count.value, b, s, i)
      BY <2>1, <2>2, <2>3, <3>2, RoomForAnswer
    <3> QED
      BY <1>2, <1>6, <1>7, <1>8, <3>1, <3>3 DEF RoomIn, d, b, s, i
  <2>5. CASE a # "passed"
    <3>1. Since(passed', t) = Since(passed, t)
      BY <1>1, <2>5 DEF Since
    <3> HIDE DEF d, b, s, i
    <3>2. Room(d, t + Window, Rate!Live(window), window.expires, count.value, b, s, i)
      BY <2>1, <2>2, <2>3, RoomForAnswer
    <3> QED
      BY <1>2, <1>6, <1>7, <1>8, <3>1, <3>2 DEF RoomIn, d, b, s, i
  <2> QED
    BY <2>4, <2>5
<1>11. \A t \in 0..clock : t + Window <= clock
         => Rate!During(passed', t, t + Window - 1) = Rate!During(passed, t, t + Window - 1)
  <2>1. passed' = passed \/ passed' = Plus(passed, clock)
    BY <1>1
  <2> QED
    BY <1>9, <2>1, OverStays
<1> QED
  BY <1>8, <1>10, <1>11 DEF PassesOK

\* Where there is room no more were let through.
LEMMA RoomFits ==
  ASSUME Sane, HistoryOK, RedisOK, NEW t \in 0..clock, RoomIn(t)
  PROVE  Since(passed, t) <= Most
<1> DEFINE d == Since(passed, t)
           a == Number(jobs, {"answer"}, Ticks)
           s == Number(jobs, {"start"}, Ticks)
           i == Number(jobs, {"increase"}, Ticks)
           l == Left(count.value, a)
<1>1. d \in Nat /\ a \in Nat /\ s \in 0..Workers /\ i \in Nat /\ l \in Nat
  BY RoomTypes, DoingType, LeftType
<1>2. Starts(s) \in Nat /\ Starts(Workers) \in Nat /\ Most \in Nat
  <2>1. Workers \in 0..Workers
    BY WorkersType
  <2> QED
    BY <1>1, <2>1, StartsType, WorkersType
<1>3. d + l + Starts(s) <= Most \/ d + i + a + Starts(Workers) <= Most
  BY DEF RoomIn, Room
<1>4. d <= Most
  <2> HIDE DEF d, a, s, i, l
  <2> QED
    BY <1>1, <1>2, <1>3
<1> QED
  BY <1>4

LEMMA TickPasses ==
  ASSUME Sane, JobsTyped, HistoryOK, RedisOK, PassesOK, Redis, Rate!Tick
  PROVE  PassesOK'
<1>1. /\ HistoryOK' /\ RedisOK' /\ clock' = clock + 1
      /\ \A w \in Worker : jobs[w].pc \in Begun => jobs[w].now = clock
  BY TickKeeps, TickRedis
<1>2. UNCHANGED <<window, count, row, jobs, asked, passed>>
  BY DEF Rate!Tick, Rate!history
<1>3. /\ clock \in 0..MaxTime /\ clock \in Nat /\ clock + 1 \in 0..MaxTime /\ Grows(passed, clock)
      /\ window.expires \in Nat /\ Window \in Nat /\ Window > 0 /\ count.value \in Nat
  BY <1>1, TicksType, WindowType DEF HistoryOK, RedisOK, Ticks
<1>4. (Rate!Live(window)' <=> window.expires > clock + 1) /\ (Rate!Live(window) <=> window.expires > clock)
  BY <1>1, <1>2 DEF Rate!Live
<1>5. ASSUME NEW t \in 0..clock, t + Window <= clock
      PROVE  Rate!During(passed, t, t + Window - 1) <= Most
  BY <1>5 DEF PassesOK
<1>6. ASSUME NEW t \in 0..clock, clock < t + Window, t + Window <= clock + 1
      PROVE  Rate!During(passed, t, t + Window - 1) <= Most
  <2>1. t + Window - 1 = clock /\ t \in 0..Rate!Last
    BY <1>3, <1>6, TicksType
  <2>2. Rate!During(passed, t, clock) = Since(passed, t)
    BY <1>3, <2>1, SinceType
  <2>3. RoomIn(t)
    BY <1>6 DEF PassesOK
  <2> QED
    BY <2>1, <2>2, <2>3, RoomFits
<1>7. ASSUME NEW t \in 0..clock, clock + 1 < t + Window
      PROVE  RoomIn(t)'
  <2>1. RoomIn(t)
    BY <1>3, <1>7 DEF PassesOK
  <2>2. CASE window.expires # clock + 1
    <3>1. Rate!Live(window)' = Rate!Live(window)
      <4>1. (window.expires > clock + 1) = (window.expires > clock)
        BY <1>3, <2>2
      <4> QED
        BY <1>1, <1>2, <4>1 DEF Rate!Live
    <3> QED
      BY <1>2, <2>1, <3>1 DEF RoomIn, Since
  <2>3. CASE window.expires = clock + 1
    <3>1. Rate!Live(window) = TRUE /\ Rate!Live(window)' = FALSE /\ window.expires = clock + 1
      <4>1. (window.expires > clock) = TRUE /\ (window.expires > clock + 1) = FALSE
        BY <1>3, <2>3
      <4> QED
        BY <1>1, <1>2, <2>3, <4>1 DEF Rate!Live
    <3>2. Number(jobs, {"start"}, Ticks) = 0
      <4>1. \A v \in Worker : ~ (jobs[v].pc \in {"start"} /\ jobs[v].now \in Ticks)
        <5> SUFFICES ASSUME NEW v \in Worker, jobs[v].pc = "start" PROVE FALSE
          OBVIOUS
        <5>1. jobs[v].now = clock /\ jobs[v].now + Window <= window.expires
          BY <1>1, <3>1 DEF RedisOK, Begun
        <5> QED
          BY <1>3, <1>7, <3>1, <5>1
      <4> QED
        BY <4>1, NumberZero
    <3> DEFINE d == Since(passed, t)
               a == Number(jobs, {"answer"}, Ticks)
               i == Number(jobs, {"increase"}, Ticks)
    <3>3. d \in Nat /\ t + Window \in Nat /\ a \in Nat /\ i \in Nat /\ a + i <= Workers
      BY RoomTypes, DoingType
    <3>4. Room(d, t + Window, TRUE, window.expires, count.value, a, 0, i)
      BY <2>1, <3>1, <3>2 DEF RoomIn
    <3>5. window.expires < t + Window
      BY <1>7, <3>1
    <3> HIDE DEF d, a, i
    <3>6. Room(d, t + Window, FALSE, window.expires, count.value, a, 0, i)
      BY <1>3, <3>3, <3>4, <3>5, RoomAtExpiry
    <3> QED
      BY <1>2, <3>1, <3>2, <3>6 DEF RoomIn, Since, d, a, i
  <2> QED
    BY <2>2, <2>3
<1>8. ASSUME NEW t \in Nat, t = clock + 1
      PROVE  RoomIn(t)'
  <2> DEFINE a == Number(jobs, {"answer"}, Ticks)
             s == Number(jobs, {"start"}, Ticks)
             i == Number(jobs, {"increase"}, Ticks)
             l == Rate!Live(window)'
  <2>1. a \in Nat /\ s \in 0..Workers /\ i \in Nat /\ a + i <= Workers
    BY DoingType
  <2>2. Since(passed, t) = 0
    BY <1>3, <1>8, TicksType, SinceType
  <2>3. l \in BOOLEAN /\ (l => count.value >= 1) /\ t + Window \in Nat
    BY <1>1, <1>2, <1>3, <1>8 DEF RedisOK, Rate!Live
  <2> HIDE DEF a, s, i, l
  <2>4. Room(0, t + Window, l, window.expires, count.value, a, s, i)
    BY <1>3, <2>1, <2>3, RoomAtFirst
  <2> QED
    BY <1>1, <1>2, <2>2, <2>4 DEF RoomIn, Since, a, s, i, l
<1>9. ASSUME NEW t \in 0..clock + 1
      PROVE  /\ t + Window <= clock + 1 => Rate!During(passed, t, t + Window - 1) <= Most
             /\ clock + 1 < t + Window => RoomIn(t)'
  <2>1. CASE t \in 0..clock
    <3>1. ASSUME t + Window <= clock + 1 PROVE Rate!During(passed, t, t + Window - 1) <= Most
      <4>1. t + Window <= clock \/ clock < t + Window
        BY <1>3, <2>1
      <4> QED
        BY <1>5, <1>6, <2>1, <3>1, <4>1
    <3> QED
      BY <1>7, <2>1, <3>1
  <2>2. CASE t \notin 0..clock
    <3>1. t \in Nat /\ t = clock + 1 /\ ~ (t + Window <= clock + 1)
      BY <1>3, <2>2
    <3> QED
      BY <1>8, <3>1
  <2> QED
    BY <2>1, <2>2
<1> QED
  BY <1>1, <1>2, <1>9 DEF PassesOK

LEMMA InitPasses ==
  ASSUME Sane, Redis, Rate!Init
  PROVE  PassesOK
<1>1. JobsTyped /\ HistoryOK /\ RedisOK
  BY LimitInit, InitRedis
<1>2. clock = 0 /\ window = Rate!Absent /\ count = Rate!Absent /\ passed = [t \in 0..Rate!Last |-> 0]
  BY DEF Rate!Init
<1>3. Since(passed, 0) = 0
  BY <1>2, TicksType DEF Since
<1>4. Rate!Live(window) = FALSE /\ window.expires = 0 /\ count.value = 0
  <2>1. (0 > 0) = FALSE
    OBVIOUS
  <2> QED
    BY <1>2, <2>1 DEF Rate!Live, Rate!Absent
<1> DEFINE a == Number(jobs, {"answer"}, Ticks)
           s == Number(jobs, {"start"}, Ticks)
           i == Number(jobs, {"increase"}, Ticks)
<1>5. a \in Nat /\ s \in 0..Workers /\ i \in Nat /\ a + i <= Workers /\ 0 + Window \in Nat
  BY DoingType, WindowType
<1> HIDE DEF a, s, i
<1>6. Room(0, 0 + Window, FALSE, 0, 0, a, s, i)
  BY <1>5, RoomAtFirst
<1>7. RoomIn(0)
  BY <1>3, <1>4, <1>6 DEF RoomIn, a, s, i
<1>8. \A t \in 0..clock : t = 0 /\ ~ (t + Window <= clock)
  BY <1>2, WindowType
<1> QED
  BY <1>7, <1>8 DEF PassesOK

\* What is let through in stretches that are over and in those that are not.
LEMMA StretchesBound ==
  ASSUME Sane, HistoryOK,
         \A t \in 0..clock : /\ t + Window <= clock => Rate!During(passed, t, t + Window - 1) <= Most
                             /\ clock < t + Window => Since(passed, t) <= Most
  PROVE  Rate!PassesAreBounded
<1>1. /\ clock \in 0..MaxTime /\ clock \in Nat /\ Grows(passed, clock) /\ Window \in Nat
      /\ Window > 0
      /\ Rate!Last \in Nat /\ Rate!Last = MaxTime + 1 /\ MaxTime \in Nat
  BY TicksType, WindowType DEF HistoryOK, Ticks
<1>2. Most \in Nat
  BY WorkersType
<1> SUFFICES ASSUME NEW t \in 0..MaxTime
             PROVE  Rate!During(passed, t, t + Window - 1) <= Most
  <2>1. Rate!Cardinality(Worker) = Workers
    BY DEF Rate!Cardinality, Cardinality, Workers
  <2> QED
    BY <2>1 DEF Rate!PassesAreBounded, Most
<1> DEFINE e == IF t + Window - 1 < MaxTime THEN t + Window - 1 + 1 ELSE Rate!Last
<1>3. e \in 0..Rate!Last /\ t \in 0..Rate!Last
  BY <1>1
<1>4. /\ Rate!During(passed, t, t + Window - 1) = passed[e] - passed[t]
      /\ passed[e] <= passed[Rate!Last]
      /\ passed[e] \in Nat /\ passed[Rate!Last] \in Nat /\ passed[t] \in Nat
  BY <1>1, <1>3 DEF Rate!During, Grows
<1> HIDE DEF e
<1>5. Rate!During(passed, t, t + Window - 1) <= Since(passed, t) /\ Since(passed, t) \in Nat
  <2> DEFINE n == passed[Rate!Last]
             m == passed[e]
             k == passed[t]
  <2>1. m - k <= n - k
    <3>1. m <= n /\ m \in Nat /\ n \in Nat /\ k \in Nat
      BY <1>4
    <3> HIDE DEF m, n, k
    <3> QED
      BY <3>1
  <2>2. Since(passed, t) \in Nat
    BY <1>1, <1>3, SinceType
  <2> QED
    BY <1>4, <2>1, <2>2 DEF Since
<1>6. Since(passed, t) <= Most => Rate!During(passed, t, t + Window - 1) <= Most
  BY <1>2, <1>4, <1>5
<1>7. CASE t > clock
  <2>1. Since(passed, t) = 0
    BY <1>1, <1>3, <1>7, SinceType
  <2> QED
    BY <1>2, <1>6, <2>1
<1>8. CASE t <= clock
  <2>1. t \in 0..clock /\ (t + Window <= clock \/ clock < t + Window)
    BY <1>1, <1>8
  <2> QED
    BY <1>6, <2>1
<1> QED
  BY <1>1, <1>7, <1>8

LEMMA PassesOKBounds ==
  ASSUME Sane, HistoryOK, RedisOK, PassesOK
  PROVE  Rate!PassesAreBounded
<1>1. \A t \in 0..clock : /\ t + Window <= clock => Rate!During(passed, t, t + Window - 1) <= Most
                          /\ clock < t + Window => Since(passed, t) <= Most
  BY RoomFits DEF PassesOK
<1> QED
  BY <1>1, StretchesBound

-----------------------------------------------------------------------------
(* The limit in the table                                                  *)

\* No row, and nothing that a worker is about to write, counts more than was asked.
TableOK ==
    /\ window = Rate!Absent /\ count = Rate!Absent /\ row \in LimitRow
    /\ row.requests + Number(jobs, Uncounted, Ticks) <= asked[Rate!Last]
    /\ \A w \in Worker : jobs[w].pc = "write" =>
         jobs[w].record.requests + Number(jobs, Uncounted, Ticks) <= asked[Rate!Last]

\* A worker that is alone: what it has read is what there is, and its row is one of
\* the last window.
Alone == \A v, w \in Worker : v = w
AloneOK ==
    /\ Rate!Exists(row) => /\ row.start <= clock
                           /\ row.requests + Number(jobs, Uncounted, Ticks) <= Since(asked, row.start)
                           /\ inWindow + Number(jobs, {"answer"}, Ticks) <= row.requests
    /\ inWindow <= Limit
    /\ \A w \in Worker :
         /\ jobs[w].pc = "write" => jobs[w].record = row
         /\ jobs[w].pc \in {"read", "write", "answer"} /\ Rate!Exists(row) => jobs[w].now <= row.start + Window
         /\ jobs[w].pc = "delete" => Rate!Exists(row) /\ row.start + Window < jobs[w].now
         /\ jobs[w].pc \in Begun => Since(passed, jobs[w].now + 1) = 0

AloneIn(t) ==
    IF Rate!Exists(row) THEN /\ Since(passed, t) <= Limit + inWindow
                             /\ t > row.start => Since(passed, t) <= inWindow
    ELSE Since(passed, t) <= inWindow
AlonePasses == \A t \in 0..clock :
    /\ t + Window <= clock => Rate!During(passed, t, t + Window - 1) <= Most
    /\ clock < t + Window => AloneIn(t)

LEMMA CountType ==
  ASSUME Sane, HistoryOK
  PROVE  /\ asked[Rate!Last] \in 0..Rate!MaxCount /\ Rate!MaxCount \in Nat
         /\ \A t \in 0..Rate!Last : asked[t] \in 0..Rate!MaxCount /\ passed[t] \in 0..Rate!MaxCount
         /\ inWindow \in 0..Rate!MaxCount /\ asked[0] = 0
<1>1. /\ Grows(asked, clock) /\ Grows(passed, clock) /\ asked[Rate!Last] <= Rate!Last * MaxAsk
      /\ passed[Rate!Last] + Number(jobs, Begun, Ticks) <= asked[Rate!Last]
      /\ inWindow \in 0..passed[Rate!Last]
      /\ asked[0] <= 0 * MaxAsk
  BY TicksType DEF HistoryOK
<1>2. Rate!Last * MaxAsk \in Nat /\ 0 * MaxAsk = 0 /\ Rate!MaxCount = Rate!Last * MaxAsk
  BY TicksType DEF Rate!MaxCount
<1>3. \A t \in 0..Rate!Last : /\ asked[t] \in Nat /\ asked[t] <= asked[Rate!Last]
                              /\ passed[t] \in Nat /\ passed[t] <= passed[Rate!Last]
  BY <1>1, TicksType DEF Grows
<1>4. asked[Rate!Last] \in Nat /\ passed[Rate!Last] \in Nat /\ asked[0] \in Nat
  BY <1>3, TicksType
<1>5. passed[Rate!Last] <= asked[Rate!Last]
  BY <1>1, <1>4, NumberType
<1> QED
  BY <1>1, <1>2, <1>3, <1>4, <1>5

LEMMA TableTypes ==
  ASSUME Sane, HistoryOK, TableOK, NEW P
  PROVE  /\ row.requests \in 0..Rate!MaxCount /\ row.start \in Ticks /\ row.start \in Nat
         /\ row.requests \in Nat
         /\ Number(jobs, P, Ticks) \in Nat /\ Number(jobs', P, Ticks) \in Nat
         /\ asked[Rate!Last] \in Nat /\ asked[Rate!Last] <= Rate!MaxCount /\ Rate!MaxCount \in Nat
         /\ clock \in 0..MaxTime /\ clock \in Nat /\ Grows(asked, clock) /\ Grows(passed, clock)
<1>1. row.requests \in 0..Rate!MaxCount /\ row.start \in Ticks
  BY DEF TableOK, LimitRow
<1>2. Rate!MaxCount \in Nat /\ asked[Rate!Last] \in 0..Rate!MaxCount
  BY CountType
<1> QED
  BY <1>1, <1>2, NumberType, TicksType DEF HistoryOK, Ticks

\* Start.
LEMMA StartBecomes ==
  ASSUME Sane, JobsTyped, HistoryOK, ~ Redis, NEW w \in Worker, Rate!Start(w)
  PROVE  /\ UNCHANGED <<window, count, row>>
         /\ \E q : Begins(w, q) /\ q \in LimitJob /\ q.pc = "select"
<1> DEFINE q == Entered("select")
<1>1. clock \in Ticks /\ "select" \in ModePc /\ "select" \in Begun
  BY DEF HistoryOK, ModePc, Begun
<1>2. /\ jobs[w].pc = "idle" /\ Rate!During(asked, clock, clock) < MaxAsk
      /\ jobs' = [jobs EXCEPT ![w] = q] /\ asked' = Rate!OneMore(asked)
      /\ UNCHANGED <<clock, passed, inWindow, window, count, row>>
  BY DEF Rate!Start, Rate!Ask, Rate!At, Entered
<1>3. q \in LimitJob /\ q.pc = "select" /\ q.now = clock
  BY <1>1, EnteredType
<1> HIDE DEF q
<1>4. Begins(w, q)
  BY <1>1, <1>2, <1>3 DEF Begins, Rate!OneMore, Plus
<1> QED
  BY <1>2, <1>3, <1>4

LEMMA StartKeeps ==
  ASSUME Sane, JobsTyped, HistoryOK, TableOK, ~ Redis, NEW w \in Worker, Rate!Start(w)
  PROVE  JobsTyped' /\ HistoryOK' /\ TableOK'
<1>1. PICK q : Begins(w, q) /\ q \in LimitJob /\ q.pc = "select"
  BY StartBecomes
<1>2. UNCHANGED <<window, count, row>>
  BY StartBecomes
<1>3. /\ jobs[w].pc = "idle" /\ q.now = clock /\ jobs' = [jobs EXCEPT ![w] = q]
      /\ asked' = Plus(asked, clock)
      /\ clock' = clock
  BY <1>1 DEF Begins
<1>4. JobsTyped' /\ jobs'[w] = q /\ \A v \in Worker \ {w} : jobs'[v] = jobs[v]
  BY <1>1, <1>3, JobBecomes
<1>5. HistoryOK'
  BY <1>1, BeginsKeeps
<1>6. clock \in 0..MaxTime /\ clock \in Ticks /\ Grows(asked, clock)
  BY DEF HistoryOK, Ticks
<1>7. asked'[Rate!Last] = asked[Rate!Last] + 1
  BY <1>3, <1>6, GrowsByOne
<1>8. Number(jobs', Uncounted, Ticks) = Number(jobs, Uncounted, Ticks) + 1
  <2>1. ~ (jobs[w].pc \in Uncounted /\ jobs[w].now \in Ticks)
    BY <1>3 DEF Uncounted
  <2>2. jobs'[w].pc \in Uncounted /\ jobs'[w].now \in Ticks /\ \A v \in Worker \ {w} : jobs'[v] = jobs[v]
    BY <1>1, <1>3, <1>4, <1>6 DEF Uncounted
  <2> QED
    BY <2>1, <2>2, NumberPlus
<1>9. /\ row.requests \in Nat /\ Number(jobs, Uncounted, Ticks) \in Nat /\ asked[Rate!Last] \in Nat
  BY TableTypes
<1>10. row'.requests + Number(jobs', Uncounted, Ticks) <= asked'[Rate!Last]
  BY <1>2, <1>7, <1>8, <1>9 DEF TableOK
<1>11. ASSUME NEW v \in Worker, jobs'[v].pc = "write"
       PROVE  jobs'[v].record.requests + Number(jobs', Uncounted, Ticks) <= asked'[Rate!Last]
  <2>1. v # w /\ jobs'[v] = jobs[v]
    BY <1>1, <1>4, <1>11
  <2>2. jobs[v].record.requests \in Nat
    BY CountType DEF JobsTyped, LimitJob, LimitRow
  <2>3. jobs[v].record.requests + Number(jobs, Uncounted, Ticks) <= asked[Rate!Last]
    BY <1>11, <2>1 DEF TableOK
  <2> QED
    BY <1>7, <1>8, <1>9, <2>1, <2>2, <2>3
<1> QED
  BY <1>2, <1>4, <1>5, <1>10, <1>11 DEF TableOK

\* Select, Delete and Read: the row stays or goes, and a worker goes on.
Looks(w, q) ==
    /\ jobs[w].pc \in {"select", "delete", "read"}
    /\ q \in LimitJob /\ q.pc \in {"delete", "read", "write"} /\ q.now = jobs[w].now
    /\ q.pc = "write" => q.record = row
    /\ jobs' = [jobs EXCEPT ![w] = q] /\ row' \in {row, Rate!NoRow}
    /\ UNCHANGED <<clock, window, count, asked, passed, inWindow>>

LEMMA SelectBecomes ==
  ASSUME Sane, JobsTyped, ~ Redis, NEW w \in Worker, Rate!Select(w)
  PROVE  /\ row' = row /\ jobs[w].pc = "select"
         /\ \E q : /\ Looks(w, q)
                   /\ q.pc = IF Rate!Exists(row) /\ row.start + Window < jobs[w].now THEN "delete" ELSE "read"
<1> DEFINE p == IF Rate!Exists(row) /\ row.start + Window < jobs[w].now THEN "delete" ELSE "read"
           q == [jobs[w] EXCEPT !.pc = p]
<1>1. p \in {"delete", "read"} /\ p \in ModePc
  BY DEF ModePc
<1>2. /\ jobs[w].pc = "select" /\ jobs[w] \in LimitJob /\ jobs' = [jobs EXCEPT ![w] = q]
      /\ UNCHANGED <<clock, window, count, row, asked, passed, inWindow>>
  BY DEF Rate!Select, Rate!At, Rate!Goto, Rate!history, JobsTyped
<1> HIDE DEF p
<1>3. q \in LimitJob /\ q.pc = p /\ q.now = jobs[w].now
  BY <1>1, <1>2, NextType
<1> HIDE DEF q
<1>4. Looks(w, q)
  BY <1>1, <1>2, <1>3 DEF Looks
<1> QED
  BY <1>2, <1>3, <1>4 DEF p

LEMMA DeleteBecomes ==
  ASSUME Sane, JobsTyped, ~ Redis, NEW w \in Worker, Rate!Delete(w)
  PROVE  /\ row' = Rate!NoRow /\ jobs[w].pc = "delete"
         /\ \E q : Looks(w, q) /\ q.pc = "read"
<1> DEFINE q == [jobs[w] EXCEPT !.pc = "read"]
<1>1. /\ jobs[w].pc = "delete" /\ jobs[w] \in LimitJob /\ jobs' = [jobs EXCEPT ![w] = q]
      /\ row' = Rate!NoRow /\ UNCHANGED <<clock, window, count, asked, passed, inWindow>>
  BY DEF Rate!Delete, Rate!At, Rate!Goto, Rate!history, JobsTyped
<1>2. "read" \in ModePc
  BY DEF ModePc
<1>3. q \in LimitJob /\ q.pc = "read" /\ q.now = jobs[w].now
  BY <1>1, <1>2, NextType
<1> HIDE DEF q
<1>4. Looks(w, q)
  BY <1>1, <1>3 DEF Looks
<1> QED
  BY <1>1, <1>3, <1>4

LEMMA ReadBecomes ==
  ASSUME Sane, JobsTyped, TableOK, ~ Redis, NEW w \in Worker, Rate!Read(w)
  PROVE  /\ row' = row /\ jobs[w].pc = "read"
         /\ \E q : Looks(w, q) /\ q.pc = "write"
<1> DEFINE q == [jobs[w] EXCEPT !.pc = "write", !.record = row]
<1>1. /\ jobs[w].pc = "read" /\ jobs[w] \in LimitJob /\ jobs' = [jobs EXCEPT ![w] = q]
      /\ UNCHANGED <<row, clock, window, count, asked, passed, inWindow>>
  BY DEF Rate!Read, Rate!At, Rate!history, JobsTyped
<1>2. "write" \in ModePc /\ row \in LimitRow
  BY DEF ModePc, TableOK
<1>3. q \in LimitJob /\ q.pc = "write" /\ q.now = jobs[w].now /\ q.record = row
  BY <1>1, <1>2 DEF LimitJob
<1> HIDE DEF q
<1>4. Looks(w, q)
  BY <1>1, <1>3 DEF Looks
<1> QED
  BY <1>1, <1>3, <1>4

LEMMA LooksKeeps ==
  ASSUME Sane, JobsTyped, HistoryOK, TableOK, NEW w \in Worker, NEW q, Looks(w, q)
  PROVE  /\ JobsTyped' /\ HistoryOK' /\ TableOK'
         /\ jobs'[w] = q /\ \A v \in Worker \ {w} : jobs'[v] = jobs[v]
         /\ Number(jobs', Uncounted, Ticks) = Number(jobs, Uncounted, Ticks)
         /\ Number(jobs', {"answer"}, Ticks) = Number(jobs, {"answer"}, Ticks)
<1>1. /\ jobs[w].pc \in Begun /\ q.pc \in Begun /\ q.now = jobs[w].now /\ q \in LimitJob
      /\ jobs' = [jobs EXCEPT ![w] = q] /\ clock' = clock
  BY DEF Looks, Begun
<1>2. JobsTyped' /\ jobs'[w] = q /\ \A v \in Worker \ {w} : jobs'[v] = jobs[v]
  <2>1. q.now = clock \/ q.now + 1 = clock
    BY <1>1 DEF JobsTyped
  <2> QED
    BY <1>1, <2>1, JobBecomes
<1>3. HistoryOK'
  <2>1. GoesOn(w, q) /\ inWindow' \in {0, inWindow}
    BY <1>1 DEF GoesOn, Looks
  <2> QED
    BY <2>1, GoesOnKeeps
<1>4. Number(jobs', Uncounted, Ticks) = Number(jobs, Uncounted, Ticks)
  <2>1. /\ jobs'[w].pc \in Uncounted /\ jobs[w].pc \in Uncounted /\ jobs'[w].now = jobs[w].now
    BY <1>1, <1>2 DEF Looks, Uncounted
  <2>2. \A v \in Worker \ {w} : jobs'[v] = jobs[v]
    BY <1>2
  <2> QED
    BY <2>1, <2>2, NumberStays
<1>5. Number(jobs', {"answer"}, Ticks) = Number(jobs, {"answer"}, Ticks)
  <2>1. jobs[w].pc \notin {"answer"} /\ jobs'[w].pc \notin {"answer"}
    BY <1>2 DEF Looks
  <2> QED
    BY <1>2, <2>1, NumberApart
<1>6. /\ row.requests \in Nat /\ Number(jobs, Uncounted, Ticks) \in Nat /\ asked[Rate!Last] \in Nat
      /\ Rate!NoRow \in LimitRow
  BY TableTypes, WindowType
<1>7. row' \in LimitRow /\ row'.requests + Number(jobs', Uncounted, Ticks) <= asked[Rate!Last]
  <2>1. CASE row' = row
    BY <1>4, <2>1 DEF TableOK
  <2>2. CASE row' = Rate!NoRow
    <3>1. row'.requests = 0 /\ row' \in LimitRow
      BY <1>6, <2>2 DEF Rate!NoRow
    <3> QED
      BY <1>4, <1>6, <3>1 DEF TableOK
  <2> QED
    BY <2>1, <2>2 DEF Looks
<1>8. ASSUME NEW v \in Worker, jobs'[v].pc = "write"
      PROVE  jobs'[v].record.requests + Number(jobs', Uncounted, Ticks) <= asked[Rate!Last]
  <2>1. CASE v = w
    BY <1>2, <1>4, <1>8, <2>1 DEF TableOK, Looks
  <2>2. CASE v # w
    BY <1>2, <1>4, <1>8, <2>2 DEF TableOK
  <2> QED
    BY <2>1, <2>2
<1> QED
  BY <1>2, <1>3, <1>4, <1>5, <1>7, <1>8 DEF TableOK, Looks

\* Write.
LEMMA WriteBecomes ==
  ASSUME Sane, JobsTyped, ~ Redis, NEW w \in Worker, Rate!Write(w)
  PROVE  /\ UNCHANGED <<clock, window, count, asked, passed>> /\ jobs[w].pc = "write"
         /\ jobs[w] \in LimitJob /\ jobs[w].now \in Ticks
         /\ \/ /\ \E q \in LimitJob : GoesOn(w, q) /\ q.pc = "answer"
               /\ \/ /\ Rate!Exists(jobs[w].record) /\ Rate!Exists(row) /\ inWindow' = inWindow
                     /\ row' = [row EXCEPT !.requests = jobs[w].record.requests + 1]
                  \/ /\ ~ Rate!Exists(jobs[w].record) /\ ~ Rate!Exists(row) /\ inWindow' = 0
                     /\ row' = [start |-> jobs[w].now, requests |-> 1]
            \/ /\ Rate!Exists(jobs[w].record) # Rate!Exists(row)
               /\ Ends(w) /\ row' = row /\ inWindow' = inWindow
<1> DEFINE q == [jobs[w] EXCEPT !.pc = "answer"]
<1>1. /\ UNCHANGED <<clock, window, count>> /\ jobs[w].pc = "write"
      /\ jobs[w] \in LimitJob /\ jobs[w].now \in Ticks /\ "answer" \in ModePc
  BY DEF Rate!Write, Rate!At, JobsTyped, LimitJob, ModePc
<1>2. q \in LimitJob /\ q.pc = "answer" /\ q.now = jobs[w].now
  BY <1>1, NextType
<1>3. CASE /\ jobs' = [jobs EXCEPT ![w] = q] /\ UNCHANGED <<asked, passed>>
           /\ \/ /\ Rate!Exists(jobs[w].record) /\ Rate!Exists(row) /\ inWindow' = inWindow
                 /\ row' = [row EXCEPT !.requests = jobs[w].record.requests + 1]
              \/ /\ ~ Rate!Exists(jobs[w].record) /\ ~ Rate!Exists(row) /\ inWindow' = 0
                 /\ row' = [start |-> jobs[w].now, requests |-> 1]
  <2> HIDE DEF q
  <2>1. GoesOn(w, q)
    BY <1>1, <1>2, <1>3 DEF GoesOn, Begun
  <2> QED
    BY <1>1, <1>2, <1>3, <2>1
<1>4. CASE Rate!Exists(jobs[w].record) # Rate!Exists(row) /\ Rate!Reply(w, "failed") /\ row' = row
  <2>1. Ends(w) /\ asked' = asked /\ passed' = passed /\ inWindow' = inWindow
    BY <1>1, <1>4, RepliesBecome
  <2> QED
    BY <1>1, <1>4, <2>1
<1>5. \/ /\ jobs' = [jobs EXCEPT ![w] = q] /\ UNCHANGED <<asked, passed>>
         /\ \/ /\ Rate!Exists(jobs[w].record) /\ Rate!Exists(row) /\ inWindow' = inWindow
               /\ row' = [row EXCEPT !.requests = jobs[w].record.requests + 1]
            \/ /\ ~ Rate!Exists(jobs[w].record) /\ ~ Rate!Exists(row) /\ inWindow' = 0
               /\ row' = [start |-> jobs[w].now, requests |-> 1]
      \/ Rate!Exists(jobs[w].record) # Rate!Exists(row) /\ Rate!Reply(w, "failed") /\ row' = row
  BY DEF Rate!Write, Rate!Goto, Rate!history
<1> QED
  BY <1>3, <1>4, <1>5

\* Both ways of writing count the request: one that is less to come.
LEMMA WriteCounts ==
  ASSUME Sane, JobsTyped, HistoryOK, TableOK, ~ Redis, NEW w \in Worker, Rate!Write(w),
         NEW q \in LimitJob, GoesOn(w, q), q.pc = "answer"
  PROVE  /\ JobsTyped' /\ HistoryOK' /\ jobs'[w] = q /\ \A v \in Worker \ {w} : jobs'[v] = jobs[v]
         /\ Number(jobs', Uncounted, Ticks) + 1 = Number(jobs, Uncounted, Ticks)
         /\ Number(jobs', {"answer"}, Ticks) = Number(jobs, {"answer"}, Ticks) + 1
<1>1. /\ jobs[w].pc = "write" /\ jobs[w].now \in Ticks /\ jobs' = [jobs EXCEPT ![w] = q]
      /\ q.now = jobs[w].now /\ clock' = clock /\ jobs[w].pc \in Begun /\ q.pc \in Begun
      /\ inWindow' \in {0, inWindow}
  BY WriteBecomes DEF GoesOn
<1>2. JobsTyped' /\ jobs'[w] = q /\ \A v \in Worker \ {w} : jobs'[v] = jobs[v]
  <2>1. q.now = clock \/ q.now + 1 = clock
    BY <1>1 DEF JobsTyped
  <2> QED
    BY <1>1, <2>1, JobBecomes
<1>3. HistoryOK'
  BY <1>1, GoesOnKeeps
<1>4. \A v \in Worker \ {w} : jobs'[v] = jobs[v]
  BY <1>2
<1>5. Number(jobs', Uncounted, Ticks) + 1 = Number(jobs, Uncounted, Ticks)
  <2>1. /\ jobs[w].pc \in Uncounted /\ jobs[w].now \in Ticks
        /\ ~ (jobs'[w].pc \in Uncounted /\ jobs'[w].now \in Ticks)
    BY <1>1, <1>2 DEF Uncounted
  <2> QED
    BY <1>4, <2>1, NumberMinus
<1>6. Number(jobs', {"answer"}, Ticks) = Number(jobs, {"answer"}, Ticks) + 1
  <2>1. ~ (jobs[w].pc \in {"answer"} /\ jobs[w].now \in Ticks)
    BY <1>1
  <2>2. jobs'[w].pc \in {"answer"} /\ jobs'[w].now \in Ticks
    BY <1>1, <1>2
  <2> QED
    BY <1>4, <2>1, <2>2, NumberPlus
<1> QED
  BY <1>2, <1>3, <1>5, <1>6

\* A worker that answers, or fails.
LEMMA EndsCounts ==
  ASSUME Sane, JobsTyped, HistoryOK, TableOK, NEW w \in Worker, Ends(w), UNCHANGED <<window, count, row>>
  PROVE  /\ JobsTyped' /\ HistoryOK' /\ TableOK'
         /\ jobs'[w] = Rate!Idle /\ \A v \in Worker \ {w} : jobs'[v] = jobs[v]
         /\ Number(jobs', Uncounted, Ticks) <= Number(jobs, Uncounted, Ticks)
         /\ Number(jobs', {"answer"}, Ticks) <= Number(jobs, {"answer"}, Ticks)
<1>1. Rate!Idle \in LimitJob /\ Rate!Idle.pc = "idle" /\ Rate!Idle.pc \notin Begun
  BY WindowType DEF Rate!Idle, Begun
<1>2. JobsTyped' /\ jobs'[w] = Rate!Idle /\ \A v \in Worker \ {w} : jobs'[v] = jobs[v]
  BY <1>1, JobBecomes DEF Ends
<1>3. HistoryOK'
  BY EndsKeeps
<1>4. Number(jobs', Uncounted, Ticks) <= Number(jobs, Uncounted, Ticks)
  <2>1. \A v \in Worker : jobs'[v].pc \in Uncounted /\ jobs'[v].now \in Ticks
                            => jobs[v].pc \in Uncounted /\ jobs[v].now \in Ticks
    BY <1>1, <1>2 DEF Uncounted
  <2> QED
    BY <2>1, NumberMonotone
<1>5. Number(jobs', {"answer"}, Ticks) <= Number(jobs, {"answer"}, Ticks)
  <2>1. \A v \in Worker : jobs'[v].pc \in {"answer"} /\ jobs'[v].now \in Ticks
                            => jobs[v].pc \in {"answer"} /\ jobs[v].now \in Ticks
    BY <1>1, <1>2
  <2> QED
    BY <2>1, NumberMonotone
<1>6. /\ row.requests \in Nat /\ Number(jobs, Uncounted, Ticks) \in Nat /\ asked[Rate!Last] \in Nat
      /\ Number(jobs', Uncounted, Ticks) \in Nat
  BY TableTypes
<1>7. row.requests + Number(jobs', Uncounted, Ticks) <= asked[Rate!Last]
  BY <1>4, <1>6 DEF TableOK
<1>8. ASSUME NEW v \in Worker, jobs'[v].pc = "write"
      PROVE  jobs'[v].record.requests + Number(jobs', Uncounted, Ticks) <= asked[Rate!Last]
  <2>1. v # w /\ jobs'[v] = jobs[v]
    BY <1>1, <1>2, <1>8
  <2>2. jobs[v].record.requests \in Nat
    BY CountType DEF JobsTyped, LimitJob, LimitRow
  <2>3. jobs[v].record.requests + Number(jobs, Uncounted, Ticks) <= asked[Rate!Last]
    BY <1>8, <2>1 DEF TableOK
  <2> QED
    BY <1>4, <1>6, <2>1, <2>2, <2>3
<1> QED
  BY <1>2, <1>3, <1>4, <1>5, <1>7, <1>8 DEF TableOK, Ends

LEMMA WriteKeeps ==
  ASSUME Sane, JobsTyped, HistoryOK, TableOK, ~ Redis, NEW w \in Worker, Rate!Write(w)
  PROVE  JobsTyped' /\ HistoryOK' /\ TableOK'
<1>1. /\ UNCHANGED <<clock, window, count, asked, passed>> /\ jobs[w].pc = "write"
      /\ jobs[w].now \in Ticks
      /\ jobs[w] \in LimitJob
  BY WriteBecomes
<1>2. ASSUME NEW q \in LimitJob, GoesOn(w, q), q.pc = "answer",
             \/ /\ Rate!Exists(jobs[w].record) /\ Rate!Exists(row) /\ inWindow' = inWindow
                /\ row' = [row EXCEPT !.requests = jobs[w].record.requests + 1]
             \/ /\ ~ Rate!Exists(jobs[w].record) /\ ~ Rate!Exists(row) /\ inWindow' = 0
                /\ row' = [start |-> jobs[w].now, requests |-> 1]
      PROVE  JobsTyped' /\ HistoryOK' /\ TableOK'
  <2>1. /\ JobsTyped' /\ HistoryOK' /\ jobs'[w] = q /\ \A v \in Worker \ {w} : jobs'[v] = jobs[v]
        /\ Number(jobs', Uncounted, Ticks) + 1 = Number(jobs, Uncounted, Ticks)
    BY <1>2, WriteCounts
  <2>2. /\ row.requests \in Nat /\ asked[Rate!Last] \in Nat /\ asked[Rate!Last] <= Rate!MaxCount
        /\ Number(jobs', Uncounted, Ticks) \in Nat /\ Rate!MaxCount \in Nat /\ row.start \in Ticks
    BY TableTypes
  <2>3. /\ jobs[w].record.requests \in Nat
        /\ jobs[w].record.requests + Number(jobs, Uncounted, Ticks) <= asked[Rate!Last]
        /\ row.requests + Number(jobs, Uncounted, Ticks) <= asked[Rate!Last]
    BY <1>1, CountType DEF TableOK, LimitJob, LimitRow
  <2>4. /\ row'.requests + Number(jobs', Uncounted, Ticks) <= asked[Rate!Last]
        /\ row'.requests \in Nat /\ row'.start \in Ticks
        /\ row' = [start |-> row'.start, requests |-> row'.requests]
    <3>1. CASE row' = [row EXCEPT !.requests = jobs[w].record.requests + 1]
      <4>1. row'.requests = jobs[w].record.requests + 1 /\ row'.start = row.start
            /\ row' = [start |-> row'.start, requests |-> row'.requests]
        BY <3>1 DEF TableOK, LimitRow
      <4> QED
        BY <2>1, <2>2, <2>3, <4>1
    <3>2. CASE row' = [start |-> jobs[w].now, requests |-> 1]
      BY <1>1, <2>1, <2>2, <2>3, <3>2
    <3> QED
      BY <1>2, <3>1, <3>2
  <2>5. row' \in LimitRow
    <3>1. row'.requests \in 0..Rate!MaxCount
      BY <2>2, <2>4
    <3> QED
      BY <2>4, <3>1 DEF LimitRow
  <2>6. ASSUME NEW v \in Worker, jobs'[v].pc = "write"
        PROVE  jobs'[v].record.requests + Number(jobs', Uncounted, Ticks) <= asked[Rate!Last]
    <3>1. v # w /\ jobs'[v] = jobs[v]
      BY <1>2, <2>1, <2>6
    <3>2. jobs[v].record.requests \in Nat
      BY CountType DEF JobsTyped, LimitJob, LimitRow
    <3>3. jobs[v].record.requests + Number(jobs, Uncounted, Ticks) <= asked[Rate!Last]
      BY <2>6, <3>1 DEF TableOK
    <3> QED
      BY <2>1, <2>2, <3>1, <3>2, <3>3
  <2> QED
    BY <1>1, <2>1, <2>4, <2>5, <2>6 DEF TableOK
<1>3. ASSUME Ends(w), row' = row
      PROVE  JobsTyped' /\ HistoryOK' /\ TableOK'
  BY <1>1, <1>3, EndsCounts
<1> QED
  BY <1>2, <1>3, WriteBecomes

\* AnswerTable.
LEMMA AnswerTableBecomes ==
  ASSUME JobsTyped, NEW w \in Worker, Rate!AnswerTable(w)
  PROVE  /\ UNCHANGED <<clock, window, count, row>> /\ jobs[w].pc = "answer"
         /\ Ends(w) /\ asked' = asked /\ jobs' = [jobs EXCEPT ![w] = Rate!Idle]
         /\ \E a \in {"passed", "refused", "failed"} :
              /\ IF a = "passed" THEN passed' = Plus(passed, clock) /\ inWindow' = inWindow + 1
                 ELSE passed' = passed /\ inWindow' = inWindow
              /\ answer' = [answer EXCEPT ![w] = a]
              /\ a = "passed" => Rate!Exists(row) /\ ~ (row.requests > Limit)
              /\ a = "refused" => Rate!Exists(row) /\ row.requests > Limit
<1>1. /\ UNCHANGED <<clock, window, count, row>> /\ jobs[w].pc = "answer"
      /\ IF Rate!Exists(row) THEN Rate!Check(w, row.requests) ELSE Rate!Reply(w, "failed")
  BY DEF Rate!AnswerTable, Rate!At
<1>2. CASE Rate!Exists(row) /\ row.requests > Limit
  <2>1. Rate!Reply(w, "refused")
    BY <1>1, <1>2 DEF Rate!Check
  <2> QED
    BY <1>1, <1>2, <2>1, RepliesBecome
<1>3. CASE Rate!Exists(row) /\ ~ (row.requests > Limit)
  <2>1. Rate!Reply(w, "passed")
    BY <1>1, <1>3 DEF Rate!Check
  <2> QED
    BY <1>1, <1>3, <2>1, RepliesBecome
<1>4. CASE ~ Rate!Exists(row)
  <2>1. Rate!Reply(w, "failed")
    BY <1>1, <1>4
  <2> QED
    BY <1>1, <1>4, <2>1, RepliesBecome
<1> QED
  BY <1>2, <1>3, <1>4

LEMMA AnswerTableKeeps ==
  ASSUME Sane, JobsTyped, HistoryOK, TableOK, NEW w \in Worker, Rate!AnswerTable(w)
  PROVE  JobsTyped' /\ HistoryOK' /\ TableOK'
<1>1. Ends(w) /\ UNCHANGED <<window, count, row>>
  BY AnswerTableBecomes
<1> QED
  BY <1>1, EndsCounts

LEMMA TickTable ==
  ASSUME Sane, JobsTyped, HistoryOK, TableOK, Rate!Tick
  PROVE  JobsTyped' /\ HistoryOK' /\ TableOK'
<1>1. /\ HistoryOK' /\ clock' = clock + 1
      /\ \A w \in Worker : jobs[w].pc \in Begun => jobs[w].now = clock
  BY TickKeeps
<1>2. UNCHANGED <<window, count, row, jobs, asked>>
  BY DEF Rate!Tick, Rate!history
<1>3. JobsTyped'
  BY <1>1, <1>2 DEF JobsTyped
<1>4. TableOK'
  BY <1>2 DEF TableOK
<1> QED
  BY <1>1, <1>3, <1>4

LEMMA InitTable ==
  ASSUME Sane, Rate!Init
  PROVE  TableOK
<1>1. /\ window = Rate!Absent /\ count = Rate!Absent /\ row = Rate!NoRow
      /\ jobs = [w \in Worker |-> Rate!Idle] /\ asked = [t \in 0..Rate!Last |-> 0]
  BY DEF Rate!Init
<1>2. \A w \in Worker : jobs[w].pc = "idle"
  BY <1>1 DEF Rate!Idle
<1>3. Number(jobs, Uncounted, Ticks) = 0
  <2>1. \A w \in Worker : ~ (jobs[w].pc \in Uncounted /\ jobs[w].now \in Ticks)
    BY <1>2 DEF Uncounted
  <2> QED
    BY <2>1, NumberZero
<1>4. row \in LimitRow /\ row.requests = 0 /\ asked[Rate!Last] = 0
  BY <1>1, WindowType, TicksType DEF Rate!NoRow
<1> QED
  BY <1>1, <1>2, <1>3, <1>4 DEF TableOK

\* A refusal has its reason, however many workers there are.
LEMMA AnswerTableEver ==
  ASSUME Sane, HistoryOK, TableOK, row.requests > Limit
  PROVE  Rate!During(asked, 0, clock) > Limit
<1>1. /\ row.requests \in Nat /\ Number(jobs, Uncounted, Ticks) \in Nat /\ asked[Rate!Last] \in Nat
      /\ clock \in 0..MaxTime /\ Grows(asked, clock) /\ Limit \in Nat /\ 0 \in 0..Rate!Last
  BY TableTypes, TicksType, WindowType
<1>2. Rate!During(asked, 0, clock) = Since(asked, 0)
  BY <1>1, SinceType
<1>3. asked[0] = 0
  BY CountType
<1>4. row.requests + Number(jobs, Uncounted, Ticks) <= asked[Rate!Last]
  BY DEF TableOK
<1> QED
  BY <1>1, <1>2, <1>3, <1>4 DEF Since

-----------------------------------------------------------------------------
(* A worker that is alone at the table                                     *)

\* Where nothing is let through, a stretch is bounded if it still fits.
LEMMA SameAlone ==
  ASSUME Sane, HistoryOK, AlonePasses, clock' = clock, passed' = passed,
         \A t \in 0..clock : clock < t + Window /\ AloneIn(t) => AloneIn(t)'
  PROVE  AlonePasses'
<1>1. clock \in 0..MaxTime /\ Grows(passed, clock)
  BY DEF HistoryOK, Ticks
<1>2. \A t \in 0..clock : t + Window <= clock
        => Rate!During(passed', t, t + Window - 1) = Rate!During(passed, t, t + Window - 1)
  BY <1>1, OverStays
<1> QED
  BY <1>2 DEF AlonePasses

LEMMA StartAlone ==
  ASSUME Sane, JobsTyped, HistoryOK, TableOK, Alone, AloneOK, AlonePasses, ~ Redis,
         NEW w \in Worker, Rate!Start(w)
  PROVE  AloneOK' /\ AlonePasses'
<1>1. PICK q : Begins(w, q) /\ q \in LimitJob /\ q.pc = "select"
  BY StartBecomes
<1>2. UNCHANGED <<window, count, row>>
  BY StartBecomes
<1>3. /\ jobs[w].pc = "idle" /\ q.now = clock /\ asked' = Plus(asked, clock)
      /\ clock' = clock /\ passed' = passed /\ inWindow' = inWindow
      /\ jobs'[w] = q /\ \A v \in Worker \ {w} : jobs'[v] = jobs[v]
  BY <1>1 DEF Begins, JobsTyped
<1>4. \A v \in Worker : v = w
  BY DEF Alone
<1>5. /\ clock \in 0..MaxTime /\ clock \in Nat /\ clock \in Ticks /\ Grows(asked, clock)
      /\ Grows(passed, clock)
      /\ row.requests \in Nat /\ row.start \in Nat
      /\ Number(jobs, Uncounted, Ticks) \in Nat /\ clock + 1 \in 0..Rate!Last
  <2>1. /\ clock \in 0..MaxTime /\ clock \in Nat /\ Grows(asked, clock) /\ Grows(passed, clock)
        /\ row.requests \in Nat /\ row.start \in Nat /\ Number(jobs, Uncounted, Ticks) \in Nat
    BY TableTypes
  <2>2. clock + 1 \in 0..Rate!Last /\ clock \in Ticks
    BY <2>1, TicksType DEF Ticks
  <2> QED
    BY <2>1, <2>2
<1>6. Number(jobs', Uncounted, Ticks) = Number(jobs, Uncounted, Ticks) + 1
  <2>1. ~ (jobs[w].pc \in Uncounted /\ jobs[w].now \in Ticks)
    BY <1>3 DEF Uncounted
  <2>2. jobs'[w].pc \in Uncounted /\ jobs'[w].now \in Ticks /\ \A v \in Worker \ {w} : jobs'[v] = jobs[v]
    BY <1>1, <1>3, <1>5 DEF Uncounted
  <2> QED
    BY <2>1, <2>2, NumberPlus
<1>7. Number(jobs', {"answer"}, Ticks) = Number(jobs, {"answer"}, Ticks)
  <2>1. jobs[w].pc \notin {"answer"} /\ jobs'[w].pc \notin {"answer"}
    BY <1>1, <1>3
  <2> QED
    BY <1>3, <2>1, NumberApart
<1>8. Rate!Exists(row) => row.requests + Number(jobs', Uncounted, Ticks) <= Since(asked', row.start)
  <2> SUFFICES ASSUME Rate!Exists(row)
               PROVE  row.requests + Number(jobs', Uncounted, Ticks) <= Since(asked', row.start)
    OBVIOUS
  <2>1. row.start \in 0..clock /\ row.start \in 0..Rate!Last
    BY <1>5, TicksType DEF AloneOK
  <2>2. Since(asked', row.start) = Since(asked, row.start) + 1 /\ Since(asked, row.start) \in Nat
    BY <1>3, <1>5, <2>1, GrowsByOne, SinceType
  <2>3. row.requests + Number(jobs, Uncounted, Ticks) <= Since(asked, row.start)
    BY DEF AloneOK
  <2> QED
    BY <1>5, <1>6, <2>2, <2>3
<1>9. Since(passed, q.now + 1) = 0
  BY <1>3, <1>5, SinceType
<1>10. AloneOK'
  BY <1>1, <1>2, <1>3, <1>4, <1>7, <1>8, <1>9 DEF AloneOK, Rate!Exists, Since
<1>11. \A t \in 0..clock : AloneIn(t) => AloneIn(t)'
  BY <1>2, <1>3 DEF AloneIn, Rate!Exists, Since
<1> QED
  BY <1>3, <1>10, <1>11, SameAlone

LEMMA LooksAlone ==
  ASSUME Sane, JobsTyped, HistoryOK, TableOK, Alone, AloneOK, AlonePasses, ~ Redis,
         NEW w \in Worker, Rate!Select(w) \/ Rate!Delete(w) \/ Rate!Read(w)
  PROVE  AloneOK' /\ AlonePasses'
<1>1. \A v \in Worker : v = w
  BY DEF Alone
<1>2. ASSUME NEW q, Looks(w, q), row' = row,
             q.pc \in {"read", "write"} /\ Rate!Exists(row) => jobs[w].now <= row.start + Window,
             q.pc = "delete" => Rate!Exists(row) /\ row.start + Window < jobs[w].now
      PROVE  AloneOK' /\ AlonePasses'
  <2>1. /\ jobs'[w] = q
        /\ Number(jobs', Uncounted, Ticks) = Number(jobs, Uncounted, Ticks)
        /\ Number(jobs', {"answer"}, Ticks) = Number(jobs, {"answer"}, Ticks)
    BY <1>2, LooksKeeps
  <2>2. /\ q.pc \in {"delete", "read", "write"} /\ q.now = jobs[w].now /\ (q.pc = "write" => q.record = row)
        /\ UNCHANGED <<clock, asked, passed, inWindow>> /\ jobs[w].pc \in Begun
    BY <1>2 DEF Looks, Begun
  <2>3. Since(passed, jobs[w].now + 1) = 0
    BY <2>2 DEF AloneOK
  <2>4. AloneOK'
    BY <1>1, <1>2, <2>1, <2>2, <2>3 DEF AloneOK, Rate!Exists, Since
  <2>5. \A t \in 0..clock : AloneIn(t) => AloneIn(t)'
    BY <1>2, <2>2 DEF AloneIn, Rate!Exists, Since
  <2> QED
    BY <2>2, <2>4, <2>5, SameAlone
<1>3. CASE Rate!Select(w)
  <2>1. PICK q : /\ Looks(w, q)
                 /\ q.pc = IF Rate!Exists(row) /\ row.start + Window < jobs[w].now THEN "delete" ELSE "read"
    BY <1>3, SelectBecomes
  <2>2. row' = row
    BY <1>3, SelectBecomes
  <2>3. /\ row.start \in Nat /\ jobs[w].now \in Nat /\ Window \in Nat
    BY TableTypes, TicksType, WindowType DEF JobsTyped, LimitJob, Ticks
  <2>4. q.pc \in {"read", "write"} /\ Rate!Exists(row) => jobs[w].now <= row.start + Window
    BY <2>1, <2>3
  <2>5. q.pc = "delete" => Rate!Exists(row) /\ row.start + Window < jobs[w].now
    BY <2>1
  <2> QED
    BY <1>2, <2>1, <2>2, <2>4, <2>5
<1>4. CASE Rate!Read(w)
  <2>1. PICK q : Looks(w, q) /\ q.pc = "write"
    BY <1>4, ReadBecomes
  <2>2. row' = row /\ jobs[w].pc = "read"
    BY <1>4, ReadBecomes
  <2>3. Rate!Exists(row) => jobs[w].now <= row.start + Window
    BY <2>2 DEF AloneOK
  <2> QED
    BY <1>2, <2>1, <2>2, <2>3
<1>5. CASE Rate!Delete(w)
  <2>1. PICK q : Looks(w, q) /\ q.pc = "read"
    BY <1>5, DeleteBecomes
  <2>2. row' = Rate!NoRow /\ jobs[w].pc = "delete"
    BY <1>5, DeleteBecomes
  <2>3. jobs'[w] = q
    BY <2>1, LooksKeeps
  <2>4. q.now = jobs[w].now /\ UNCHANGED <<clock, asked, passed, inWindow>> /\ jobs[w].pc \in Begun
    BY <2>1, <2>2 DEF Looks, Begun
  <2>5. ~ Rate!Exists(row')
    BY <2>2 DEF Rate!Exists, Rate!NoRow
  <2>6. Since(passed, jobs[w].now + 1) = 0
    BY <2>4 DEF AloneOK
  <2>7. AloneOK'
    BY <1>1, <2>1, <2>3, <2>4, <2>5, <2>6 DEF AloneOK, Rate!Exists, Since
  <2>8. ASSUME NEW t \in 0..clock, clock < t + Window, AloneIn(t) PROVE AloneIn(t)'
    <3>1. /\ Rate!Exists(row) /\ row.start + Window < jobs[w].now
      BY <2>2 DEF AloneOK
    <3>2. jobs[w].now <= clock
      BY <2>4, BegunIsAsked
    <3>3. /\ row.start \in Nat /\ jobs[w].now \in Nat /\ Window \in Nat /\ clock \in Nat
          /\ t \in Nat
      <4>1. clock \in Nat /\ row.start \in Nat /\ Window \in Nat
        BY TableTypes, WindowType
      <4>2. jobs[w].now \in Nat
        BY TicksType DEF JobsTyped, LimitJob, Ticks
      <4> QED
        BY <4>1, <4>2
    <3>4. t > row.start
      BY <2>8, <3>1, <3>2, <3>3
    <3>5. Since(passed, t) <= inWindow
      BY <2>8, <3>1, <3>4 DEF AloneIn
    <3> QED
      BY <2>4, <2>5, <3>5 DEF AloneIn, Rate!Exists, Since
  <2> QED
    BY <2>4, <2>7, <2>8, SameAlone
<1> QED
  BY <1>3, <1>4, <1>5

LEMMA WriteAlone ==
  ASSUME Sane, JobsTyped, HistoryOK, TableOK, Alone, AloneOK, AlonePasses, ~ Redis,
         NEW w \in Worker, Rate!Write(w)
  PROVE  AloneOK' /\ AlonePasses'
<1>1. \A v \in Worker : v = w
  BY DEF Alone
<1>2. /\ UNCHANGED <<clock, window, count, asked, passed>> /\ jobs[w].pc = "write"
      /\ jobs[w] \in LimitJob /\ jobs[w].now \in Ticks
  BY WriteBecomes
<1>3. jobs[w].record = row /\ jobs[w].pc \in Begun /\ Since(passed, jobs[w].now + 1) = 0
  BY <1>2 DEF AloneOK, Begun
<1>4. PICK q \in LimitJob : GoesOn(w, q) /\ q.pc = "answer"
  BY <1>3, WriteBecomes
<1>5. \/ /\ Rate!Exists(row) /\ inWindow' = inWindow /\ row' = [row EXCEPT !.requests = row.requests + 1]
      \/ /\ ~ Rate!Exists(row) /\ inWindow' = 0 /\ row' = [start |-> jobs[w].now, requests |-> 1]
  BY <1>3, WriteBecomes
<1>6. /\ HistoryOK' /\ jobs'[w] = q
      /\ Number(jobs', Uncounted, Ticks) + 1 = Number(jobs, Uncounted, Ticks)
      /\ Number(jobs', {"answer"}, Ticks) = Number(jobs, {"answer"}, Ticks) + 1
  BY <1>4, WriteCounts
<1>7. q.now = jobs[w].now /\ q.pc = "answer"
  BY <1>4 DEF GoesOn
<1>8. /\ row.requests \in Nat /\ row.start \in Nat /\ Window \in Nat /\ Limit \in Nat
      /\ inWindow \in Nat
      /\ jobs[w].now \in Nat /\ clock \in Nat /\ clock \in 0..MaxTime /\ Grows(asked, clock)
      /\ Grows(passed, clock)
      /\ Number(jobs', Uncounted, Ticks) \in Nat /\ Number(jobs', {"answer"}, Ticks) \in Nat
      /\ Number(jobs, Uncounted, Ticks) \in Nat /\ Number(jobs, {"answer"}, Ticks) \in Nat
  BY <1>2, TableTypes, TicksType, WindowType, CountType DEF Ticks
<1>9. CASE /\ Rate!Exists(row) /\ inWindow' = inWindow /\ row' = [row EXCEPT !.requests = row.requests + 1]
  <2>1. row'.requests = row.requests + 1 /\ row'.start = row.start
    BY <1>9 DEF TableOK, LimitRow
  <2>2. Rate!Exists(row)' /\ Rate!Exists(row)
    BY <1>8, <1>9, <2>1 DEF Rate!Exists
  <2>3. /\ row.start <= clock
        /\ row.requests + Number(jobs, Uncounted, Ticks) <= Since(asked, row.start)
        /\ inWindow + Number(jobs, {"answer"}, Ticks) <= row.requests
    BY <2>2 DEF AloneOK
  <2>4. /\ row'.requests + Number(jobs', Uncounted, Ticks) <= Since(asked, row.start)
        /\ inWindow + Number(jobs', {"answer"}, Ticks) <= row'.requests
    <3>1. row'.requests + Number(jobs', Uncounted, Ticks) = row.requests + Number(jobs, Uncounted, Ticks)
      BY <1>6, <1>8, <2>1
    <3>2. inWindow + Number(jobs', {"answer"}, Ticks) <= row.requests + 1
      BY <1>6, <1>8, <2>3
    <3> QED
      BY <2>1, <2>3, <3>1, <3>2
  <2>5. jobs[w].now <= row.start + Window
    BY <1>2, <2>2 DEF AloneOK
  <2>6. AloneOK'
    BY <1>1, <1>2, <1>3, <1>6, <1>7, <1>9, <2>1, <2>3, <2>4, <2>5 DEF AloneOK, Since
  <2>7. \A t \in 0..clock : AloneIn(t) => AloneIn(t)'
    BY <1>2, <1>9, <2>1, <2>2 DEF AloneIn, Since
  <2> QED
    BY <1>2, <2>6, <2>7, SameAlone
<1>10. CASE /\ ~ Rate!Exists(row) /\ inWindow' = 0 /\ row' = [start |-> jobs[w].now, requests |-> 1]
  <2>1. row'.requests = 1 /\ row'.start = jobs[w].now
    BY <1>10
  <2>2. Rate!Exists(row)'
    BY <2>1 DEF Rate!Exists
  <2>3. jobs[w].now \in 0..clock /\ Since(asked, jobs[w].now) >= 1
    BY <1>3, BegunIsAsked
  <2>4. Number(jobs', Uncounted, Ticks) = 0
    <3>1. \A v \in Worker : ~ (jobs'[v].pc \in Uncounted /\ jobs'[v].now \in Ticks)
      BY <1>1, <1>6, <1>7 DEF Uncounted
    <3> QED
      BY <3>1, NumberZero
  <2>5. Number(jobs, {"answer"}, Ticks) = 0
    <3>1. \A v \in Worker : ~ (jobs[v].pc \in {"answer"} /\ jobs[v].now \in Ticks)
      BY <1>1, <1>2
    <3> QED
      BY <3>1, NumberZero
  <2>6. jobs[w].now + 1 \in 0..Rate!Last /\ jobs[w].now \in 0..Rate!Last
    BY <1>8, <2>3, TicksType
  <2>7. /\ row'.requests + Number(jobs', Uncounted, Ticks) <= Since(asked, row'.start)
        /\ inWindow' + Number(jobs', {"answer"}, Ticks) <= row'.requests
        /\ row'.start <= clock /\ jobs[w].now <= row'.start + Window
    <3>1. Since(asked, jobs[w].now) \in Nat
      BY <1>8, <2>6, SinceType
    <3> QED
      BY <1>6, <1>8, <1>10, <2>1, <2>3, <2>4, <2>5, <3>1
  <2>8. AloneOK'
    BY <1>1, <1>2, <1>3, <1>6, <1>7, <1>8, <1>10, <2>7 DEF AloneOK, Since
  <2>9. ASSUME NEW t \in 0..clock, AloneIn(t) PROVE AloneIn(t)'
    <3>1. Since(passed, t) <= inWindow /\ inWindow <= Limit
      BY <1>10, <2>9 DEF AloneIn, AloneOK
    <3>2. t \in 0..Rate!Last /\ t \in Nat
      BY <1>8, TicksType
    <3>3. Since(passed, t) \in Nat /\ (t > jobs[w].now => Since(passed, t) = 0)
      <4>1. t > jobs[w].now => jobs[w].now + 1 <= t
        BY <1>8, <3>2
      <4>2. /\ Since(passed, t) \in Nat
            /\ jobs[w].now + 1 <= t => Since(passed, t) <= Since(passed, jobs[w].now + 1)
        BY <1>8, <2>6, <3>2, SinceType
      <4> QED
        BY <1>3, <4>1, <4>2
    <3>4. Since(passed, t) <= Limit + inWindow' /\ (t > row'.start => Since(passed, t) <= inWindow')
      BY <1>8, <1>10, <2>1, <3>1, <3>3
    <3> QED
      BY <1>2, <2>2, <3>4 DEF AloneIn, Since
  <2> QED
    BY <1>2, <2>8, <2>9, SameAlone
<1> QED
  BY <1>5, <1>9, <1>10

LEMMA AnswerAlone ==
  ASSUME Sane, JobsTyped, HistoryOK, TableOK, Alone, AloneOK, AlonePasses, ~ Redis,
         NEW w \in Worker, Rate!AnswerTable(w)
  PROVE  AloneOK' /\ AlonePasses'
<1>1. \A v \in Worker : v = w
  BY DEF Alone
<1>2. /\ UNCHANGED <<clock, window, count, row>> /\ jobs[w].pc = "answer" /\ asked' = asked
      /\ Ends(w) /\ Rate!Idle.pc = "idle" /\ Rate!Idle.pc \notin Begun
  BY AnswerTableBecomes DEF Rate!Idle, Begun
<1>3. PICK a \in {"passed", "refused", "failed"} :
         /\ IF a = "passed" THEN passed' = Plus(passed, clock) /\ inWindow' = inWindow + 1
            ELSE passed' = passed /\ inWindow' = inWindow
         /\ answer' = [answer EXCEPT ![w] = a]
         /\ a = "passed" => Rate!Exists(row) /\ ~ (row.requests > Limit)
         /\ a = "refused" => Rate!Exists(row) /\ row.requests > Limit
  BY AnswerTableBecomes
<1>4. /\ jobs'[w] = Rate!Idle
      /\ Number(jobs', Uncounted, Ticks) <= Number(jobs, Uncounted, Ticks)
      /\ Number(jobs', {"answer"}, Ticks) <= Number(jobs, {"answer"}, Ticks)
  BY <1>2, EndsCounts
<1>5. /\ row.requests \in Nat /\ row.start \in Nat /\ Limit \in Nat /\ inWindow \in Nat
      /\ clock \in Nat /\ clock \in 0..MaxTime /\ Grows(asked, clock) /\ Grows(passed, clock)
      /\ Number(jobs', Uncounted, Ticks) \in Nat /\ Number(jobs', {"answer"}, Ticks) \in Nat
      /\ Number(jobs, Uncounted, Ticks) \in Nat /\ Number(jobs, {"answer"}, Ticks) \in Nat
  BY TableTypes, WindowType, CountType
<1>6. Number(jobs', {"answer"}, Ticks) + 1 <= Number(jobs, {"answer"}, Ticks)
  <2>1. Number(jobs', {"answer"}, Ticks) = 0
    <3>1. \A v \in Worker : ~ (jobs'[v].pc \in {"answer"} /\ jobs'[v].now \in Ticks)
      BY <1>1, <1>2, <1>4
    <3> QED
      BY <3>1, NumberZero
  <2>2. Number(jobs, {"answer"}, Ticks) # 0
    <3>1. jobs[w].pc \in {"answer"} /\ jobs[w].now \in Ticks
      BY <1>2 DEF JobsTyped, LimitJob
    <3> QED
      BY <3>1, NumberZero
  <2> QED
    BY <1>5, <2>1, <2>2
<1>7. Rate!Exists(row) => /\ row.start <= clock
                          /\ row.requests + Number(jobs', Uncounted, Ticks) <= Since(asked, row.start)
                          /\ inWindow + 1 + Number(jobs', {"answer"}, Ticks) <= row.requests
  <2> SUFFICES ASSUME Rate!Exists(row)
               PROVE  /\ row.start <= clock
                      /\ row.requests + Number(jobs', Uncounted, Ticks) <= Since(asked, row.start)
                      /\ inWindow + 1 + Number(jobs', {"answer"}, Ticks) <= row.requests
    OBVIOUS
  <2>1. /\ row.start <= clock
        /\ row.requests + Number(jobs, Uncounted, Ticks) <= Since(asked, row.start)
        /\ inWindow + Number(jobs, {"answer"}, Ticks) <= row.requests
    BY DEF AloneOK
  <2>2. row.start \in 0..Rate!Last
    BY <1>5, <2>1, TicksType
  <2>3. Since(asked, row.start) \in Nat
    BY <1>5, <2>2, SinceType
  <2> QED
    BY <1>4, <1>5, <1>6, <2>1, <2>3
<1>8. inWindow <= Limit
  BY DEF AloneOK
<1>9. CASE a = "passed"
  <2>1. /\ passed' = Plus(passed, clock) /\ inWindow' = inWindow + 1 /\ Rate!Exists(row)
        /\ row.requests <= Limit
    BY <1>3, <1>5, <1>9
  <2>2. inWindow' <= Limit /\ inWindow' + Number(jobs', {"answer"}, Ticks) <= row.requests
    BY <1>5, <1>7, <2>1
  <2>3. AloneOK'
    BY <1>1, <1>2, <1>4, <1>7, <2>1, <2>2 DEF AloneOK, Rate!Exists, Since
  <2>4. ASSUME NEW t \in 0..clock, AloneIn(t) PROVE AloneIn(t)'
    <3>1. Since(passed', t) = Since(passed, t) + 1 /\ Since(passed, t) \in Nat
      <4>1. t \in 0..Rate!Last
        BY <1>5, TicksType
      <4> QED
        BY <1>5, <2>1, <4>1, GrowsByOne, SinceType
    <3>2. Since(passed, t) <= Limit + inWindow /\ (t > row.start => Since(passed, t) <= inWindow)
      BY <2>1, <2>4 DEF AloneIn
    <3>3. Since(passed', t) <= Limit + inWindow' /\ (t > row.start => Since(passed', t) <= inWindow')
      BY <1>5, <2>1, <3>1, <3>2
    <3> QED
      BY <1>2, <2>1, <3>3 DEF AloneIn, Rate!Exists, Since
  <2>5. \A t \in 0..clock : t + Window <= clock
          => Rate!During(passed', t, t + Window - 1) = Rate!During(passed, t, t + Window - 1)
    BY <1>5, <2>1, OverStays
  <2>6. AlonePasses'
    BY <1>2, <2>4, <2>5 DEF AlonePasses
  <2> QED
    BY <2>3, <2>6
<1>10. CASE a # "passed"
  <2>1. passed' = passed /\ inWindow' = inWindow
    BY <1>3, <1>10
  <2>2. Rate!Exists(row) => inWindow + Number(jobs', {"answer"}, Ticks) <= row.requests
    BY <1>5, <1>7
  <2>3. AloneOK'
    BY <1>1, <1>2, <1>4, <1>7, <1>8, <2>1, <2>2 DEF AloneOK, Rate!Exists, Since
  <2>4. \A t \in 0..clock : AloneIn(t) => AloneIn(t)'
    BY <1>2, <2>1 DEF AloneIn, Rate!Exists, Since
  <2> QED
    BY <1>2, <2>1, <2>3, <2>4, SameAlone
<1> QED
  BY <1>9, <1>10

LEMMA TickAlone ==
  ASSUME Sane, JobsTyped, HistoryOK, TableOK, Alone, AloneOK, AlonePasses, Rate!Tick
  PROVE  AloneOK' /\ AlonePasses'
<1>1. clock' = clock + 1
  BY TickKeeps
<1>2. UNCHANGED <<window, count, row, jobs, asked, passed, inWindow>>
  BY DEF Rate!Tick, Rate!history
<1>3. /\ clock \in 0..MaxTime /\ clock \in Nat /\ Grows(passed, clock) /\ row.start \in Nat
      /\ Window \in Nat /\ Window > 0 /\ Limit \in Nat /\ inWindow \in Nat
      /\ clock + 1 \in 0..Rate!Last
  BY TableTypes, TicksType, WindowType, CountType
<1>4. AloneOK'
  <2>1. row.start <= clock => row.start <= clock + 1
    BY <1>3
  <2> QED
    BY <1>1, <1>2, <2>1 DEF AloneOK, Rate!Exists, Since
<1>5. inWindow <= Limit /\ Limit + Limit <= Most /\ Most \in Nat
  <2>1. Workers \in Nat /\ Workers >= 1 /\ Most \in Nat /\ 1 + Workers \in Nat
    BY WorkersType
  <2>2. 2 * Limit <= (1 + Workers) * Limit /\ (1 + Workers) * Limit \in Nat
    BY <1>3, <2>1, TimesMonotone
  <2>3. Workers * Workers \in Nat
    BY <2>1
  <2>4. Limit + Limit <= (1 + Workers) * Limit
    BY <1>3, <2>2
  <2>5. (1 + Workers) * Limit <= Most
    BY <2>2, <2>3 DEF Most
  <2>6. inWindow <= Limit
    BY DEF AloneOK
  <2> QED
    BY <1>3, <2>1, <2>2, <2>4, <2>5, <2>6
<1>6. ASSUME NEW t \in 0..clock, t + Window <= clock + 1
      PROVE  Rate!During(passed, t, t + Window - 1) <= Most
  <2>1. CASE t + Window <= clock
    BY <2>1 DEF AlonePasses
  <2>2. CASE clock < t + Window
    <3>1. t + Window - 1 = clock /\ t \in 0..Rate!Last
      BY <1>3, <1>6, <2>2, TicksType
    <3>2. Rate!During(passed, t, clock) = Since(passed, t) /\ Since(passed, t) \in Nat
      BY <1>3, <3>1, SinceType
    <3>3. AloneIn(t)
      BY <2>2 DEF AlonePasses
    <3>4. Since(passed, t) <= Limit + inWindow \/ Since(passed, t) <= inWindow
      BY <3>3 DEF AloneIn
    <3>5. Since(passed, t) <= Most
      BY <1>3, <1>5, <3>2, <3>4
    <3> QED
      BY <3>1, <3>2, <3>5
  <2> QED
    BY <1>3, <2>1, <2>2
<1>7. ASSUME NEW t \in 0..clock + 1, clock + 1 < t + Window
      PROVE  AloneIn(t)'
  <2>1. CASE t \in 0..clock
    <3>1. AloneIn(t)
      BY <1>3, <1>7, <2>1 DEF AlonePasses
    <3> QED
      BY <1>2, <3>1 DEF AloneIn, Rate!Exists, Since
  <2>2. CASE t \notin 0..clock
    <3>1. t \in 0..Rate!Last /\ t > clock
      BY <1>3, <2>2
    <3>2. Since(passed, t) = 0
      BY <1>3, <3>1, SinceType
    <3>3. Since(passed, t) <= Limit + inWindow /\ Since(passed, t) <= inWindow
      BY <1>3, <3>2
    <3> QED
      BY <1>2, <3>3 DEF AloneIn, Rate!Exists, Since
  <2> QED
    BY <2>1, <2>2
<1>8. \A t \in 0..clock + 1 : t + Window <= clock + 1 => t \in 0..clock
  BY <1>3
<1>9. AlonePasses'
  BY <1>1, <1>2, <1>6, <1>7, <1>8 DEF AlonePasses
<1> QED
  BY <1>4, <1>9

LEMMA InitAlone ==
  ASSUME Sane, Rate!Init
  PROVE  AloneOK /\ AlonePasses
<1>1. /\ clock = 0 /\ row = Rate!NoRow /\ jobs = [w \in Worker |-> Rate!Idle] /\ inWindow = 0
      /\ passed = [t \in 0..Rate!Last |-> 0]
  BY DEF Rate!Init
<1>2. ~ Rate!Exists(row) /\ \A w \in Worker : jobs[w].pc = "idle"
  BY <1>1 DEF Rate!Exists, Rate!NoRow, Rate!Idle
<1>3. AloneOK
  BY <1>1, <1>2, WindowType DEF AloneOK, Begun
<1>4. Since(passed, 0) = 0 /\ \A t \in 0..clock : t = 0 /\ ~ (t + Window <= clock)
  BY <1>1, TicksType, WindowType DEF Since
<1>5. AlonePasses
  BY <1>1, <1>2, <1>4 DEF AlonePasses, AloneIn
<1> QED
  BY <1>3, <1>5

LEMMA AlonePassesBound ==
  ASSUME Sane, HistoryOK, TableOK, AloneOK, AlonePasses
  PROVE  Rate!PassesAreBounded
<1>1. /\ clock \in 0..MaxTime /\ clock \in Nat /\ Grows(passed, clock) /\ Limit \in Nat
      /\ inWindow \in Nat
  BY TableTypes, WindowType, CountType
<1>2. /\ Workers \in Nat /\ Workers >= 1 /\ Most \in Nat /\ 1 + Workers \in Nat
      /\ Workers * Workers \in Nat
  <2>1. Workers \in Nat /\ Workers >= 1 /\ Most \in Nat
    BY WorkersType
  <2> QED
    BY <2>1
<1>3. 2 * Limit <= (1 + Workers) * Limit /\ (1 + Workers) * Limit \in Nat
  BY <1>1, <1>2, TimesMonotone
<1>4. Limit + Limit <= (1 + Workers) * Limit /\ (1 + Workers) * Limit <= Most
  <2>1. (1 + Workers) * Limit <= Most
    BY <1>2, <1>3 DEF Most
  <2> QED
    BY <1>1, <1>3, <2>1
<1>5. ASSUME NEW t \in 0..clock, clock < t + Window PROVE Since(passed, t) <= Most
  <2>1. Since(passed, t) \in Nat
    <3>1. t \in 0..Rate!Last
      BY <1>1, TicksType
    <3> QED
      BY <1>1, <3>1, SinceType
  <2>2. AloneIn(t)
    BY <1>5 DEF AlonePasses
  <2>3. Since(passed, t) <= Limit + inWindow \/ Since(passed, t) <= inWindow
    BY <2>2 DEF AloneIn
  <2>4. inWindow <= Limit
    BY DEF AloneOK
  <2> QED
    BY <1>1, <1>2, <1>3, <1>4, <2>1, <2>3, <2>4
<1>6. \A t \in 0..clock : /\ t + Window <= clock => Rate!During(passed, t, t + Window - 1) <= Most
                          /\ clock < t + Window => Since(passed, t) <= Most
  BY <1>5 DEF AlonePasses
<1> QED
  BY <1>6, StretchesBound

\* A refusal has its reason in the time of a window and a request.
LEMMA AnswerTableReason ==
  ASSUME Sane, JobsTyped, HistoryOK, TableOK, AloneOK, NEW w \in Worker, Rate!AnswerTable(w),
         Rate!Exists(row), row.requests > Limit
  PROVE  Rate!During(asked, IF clock > Window + 1 THEN clock - Window - 1 ELSE 0, clock) > Limit
<1> DEFINE from == IF clock > Window + 1 THEN clock - Window - 1 ELSE 0
<1>1. /\ clock \in 0..MaxTime /\ clock \in Nat /\ Grows(asked, clock) /\ row.start \in Nat
      /\ row.requests \in Nat
      /\ Number(jobs, Uncounted, Ticks) \in Nat /\ Window \in Nat /\ Limit \in Nat
  BY TableTypes, WindowType
<1>2. jobs[w].pc = "answer" /\ jobs[w].now \in Nat /\ (jobs[w].now = clock \/ jobs[w].now + 1 = clock)
  BY TicksType DEF Rate!AnswerTable, Rate!At, JobsTyped, LimitJob, Begun, Ticks
<1>3. /\ row.start <= clock
      /\ row.requests + Number(jobs, Uncounted, Ticks) <= Since(asked, row.start)
      /\ jobs[w].now <= row.start + Window
  BY <1>2 DEF AloneOK
<1>4. from \in 0..Rate!Last /\ row.start \in 0..Rate!Last /\ from <= row.start
  BY <1>1, <1>2, <1>3, TicksType
<1>5. /\ Since(asked, row.start) <= Since(asked, from)
      /\ Rate!During(asked, from, clock) = Since(asked, from)
      /\ Since(asked, row.start) \in Nat /\ Since(asked, from) \in Nat
  BY <1>1, <1>4, SinceType
<1> QED
  BY <1>1, <1>3, <1>5

-----------------------------------------------------------------------------
(* The limit: its invariant and what it promises                           *)

Answered == answer \in [Worker -> {"none", "passed", "refused", "failed"}]
LimitInv ==
    /\ JobsTyped /\ HistoryOK /\ Answered
    /\ Redis => RedisOK /\ PassesOK
    /\ ~ Redis => TableOK
    /\ ~ Redis /\ Alone => AloneOK /\ AlonePasses

LEMMA LimitInvInit ==
  ASSUME Sane, Rate!Init
  PROVE  LimitInv
<1>1. Redis \in BOOLEAN
  BY DEF Sane, Rate!LimitAssumption
<1>2. Answered
  BY DEF Rate!Init, Answered
<1> QED
  BY <1>1, <1>2, LimitInit, InitRedis, InitPasses, InitTable, InitAlone DEF LimitInv

\* Which steps there are in which mode.
LEMMA LimitSteps ==
  ASSUME Sane, JobsTyped, Rate!Next, ~ Rate!Tick
  PROVE  \E w \in Worker :
           \/ Redis /\ (Rate!GetWindow(w) \/ Rate!StartWindow(w) \/ Rate!Increase(w) \/ Rate!AnswerRedis(w))
           \/ ~ Redis /\ (Rate!Start(w) \/ Rate!Select(w) \/ Rate!Delete(w)
                          \/ Rate!Read(w) \/ Rate!Write(w) \/ Rate!AnswerTable(w))
<1>1. PICK w \in Worker : \/ Rate!GetWindow(w) \/ Rate!StartWindow(w) \/ Rate!Increase(w) \/ Rate!AnswerRedis(w)
                          \/ Rate!Start(w) \/ Rate!Select(w) \/ Rate!Delete(w)
                          \/ Rate!Read(w) \/ Rate!Write(w) \/ Rate!AnswerTable(w)
  BY DEF Rate!Next
<1>2. jobs[w].pc \in ModePc
  BY DEF JobsTyped, LimitJob
<1>3. Rate!GetWindow(w) \/ Rate!StartWindow(w) \/ Rate!Increase(w) \/ Rate!AnswerRedis(w) => Redis
  BY <1>2 DEF Rate!GetWindow, Rate!StartWindow, Rate!Increase, Rate!AnswerRedis, Rate!At, ModePc
<1>4. Rate!Start(w) \/ Rate!Select(w) \/ Rate!Delete(w) \/ Rate!Read(w) \/ Rate!Write(w)
      \/ Rate!AnswerTable(w) => ~ Redis
  BY <1>2
     DEF Rate!Start, Rate!Select, Rate!Delete, Rate!Read, Rate!Write, Rate!AnswerTable, Rate!At,
         ModePc
<1> QED
  BY <1>1, <1>3, <1>4

LEMMA AnsweredNext ==
  ASSUME JobsTyped, Answered, [Rate!Next]_(Rate!vars)
  PROVE  Answered'
<1>1. ASSUME NEW w \in Worker, NEW a \in {"none", "passed", "refused", "failed"},
             answer' = [answer EXCEPT ![w] = a]
      PROVE  Answered'
  BY <1>1 DEF Answered
<1>2. ASSUME answer' = answer PROVE Answered'
  BY <1>2 DEF Answered
<1>3. ASSUME NEW w \in Worker, Rate!AnswerRedis(w) PROVE Answered'
  BY <1>1, <1>3, AnswerRedisBecomes
<1>4. ASSUME NEW w \in Worker, Rate!AnswerTable(w) PROVE Answered'
  BY <1>1, <1>4, AnswerTableBecomes
<1>5. ASSUME NEW w \in Worker, Rate!GetWindow(w) \/ Rate!Start(w) PROVE Answered'
  BY <1>1, <1>5 DEF Rate!GetWindow, Rate!Start, Rate!Ask
<1>6. ASSUME NEW w \in Worker, Rate!Write(w) PROVE Answered'
  BY <1>1, <1>2, <1>6 DEF Rate!Write, Rate!Reply
<1>7. ASSUME NEW w \in Worker,
             Rate!StartWindow(w) \/ Rate!Increase(w) \/ Rate!Select(w) \/ Rate!Delete(w) \/ Rate!Read(w)
      PROVE  Answered'
  BY <1>2, <1>7 DEF Rate!StartWindow, Rate!Increase, Rate!Select, Rate!Delete, Rate!Read
<1>8. CASE Rate!Tick
  BY <1>2, <1>8 DEF Rate!Tick
<1>9. CASE UNCHANGED Rate!vars
  BY <1>2, <1>9 DEF Rate!vars
<1> QED
  BY <1>3, <1>4, <1>5, <1>6, <1>7, <1>8, <1>9 DEF Rate!Next

LEMMA LimitSame ==
  ASSUME LimitInv, UNCHANGED Rate!vars
  PROVE  LimitInv'
<1>1. UNCHANGED <<clock, window, count, row, jobs, answer, asked, passed, inWindow>>
  BY DEF Rate!vars
<1>2. Rate!Live(window)' = Rate!Live(window) /\ Rate!Live(count)' = Rate!Live(count) /\ Era' = Era
  BY <1>1 DEF Rate!Live, Era
<1>3. JobsTyped' /\ Answered'
  BY <1>1 DEF LimitInv, JobsTyped, Answered
<1>4. HistoryOK'
  BY <1>1 DEF LimitInv, HistoryOK
<1>5. Redis => RedisOK'
  BY <1>1, <1>2 DEF LimitInv, RedisOK
<1>6. Redis => PassesOK'
  BY <1>1, <1>2 DEF LimitInv, PassesOK, RoomIn
<1>7. ~ Redis => TableOK'
  BY <1>1 DEF LimitInv, TableOK
<1>8. ~ Redis /\ Alone => AloneOK' /\ AlonePasses'
  BY <1>1 DEF LimitInv, AloneOK, AlonePasses, AloneIn
<1> QED
  BY <1>3, <1>4, <1>5, <1>6, <1>7, <1>8 DEF LimitInv, Alone

LEMMA LimitInvNext ==
  ASSUME Sane, LimitInv, [Rate!Next]_(Rate!vars)
  PROVE  LimitInv'
<1>1. JobsTyped /\ HistoryOK /\ Answered /\ Answered' /\ Redis \in BOOLEAN
  BY AnsweredNext DEF LimitInv, Sane, Rate!LimitAssumption
<1>2. ASSUME Redis, JobsTyped', HistoryOK', RedisOK', PassesOK' PROVE LimitInv'
  BY <1>1, <1>2 DEF LimitInv
<1>3. ASSUME ~ Redis, JobsTyped', HistoryOK', TableOK', Alone => AloneOK' /\ AlonePasses' PROVE LimitInv'
  BY <1>1, <1>3 DEF LimitInv, Alone
<1>4. CASE UNCHANGED Rate!vars
  BY <1>4, LimitSame
<1>5. CASE Rate!Tick
  <2>1. CASE Redis
    BY <1>1, <1>2, <1>5, <2>1, TickRedis, TickPasses DEF LimitInv
  <2>2. CASE ~ Redis
    <3>1. JobsTyped' /\ HistoryOK' /\ TableOK'
      BY <1>1, <1>5, <2>2, TickTable DEF LimitInv
    <3>2. Alone => AloneOK' /\ AlonePasses'
      BY <1>1, <1>5, <2>2, TickAlone DEF LimitInv
    <3> QED
      BY <1>3, <2>2, <3>1, <3>2
  <2> QED
    BY <2>1, <2>2
<1>6. CASE Rate!Next /\ ~ Rate!Tick
  <2>1. PICK w \in Worker :
           \/ Redis /\ (Rate!GetWindow(w) \/ Rate!StartWindow(w) \/ Rate!Increase(w) \/ Rate!AnswerRedis(w))
           \/ ~ Redis /\ (Rate!Start(w) \/ Rate!Select(w) \/ Rate!Delete(w)
                          \/ Rate!Read(w) \/ Rate!Write(w) \/ Rate!AnswerTable(w))
    BY <1>1, <1>6, LimitSteps
  <2>2. CASE Redis
    <3>1. RedisOK /\ PassesOK
      BY <2>2 DEF LimitInv
    <3>2. CASE Rate!GetWindow(w)
      BY <1>1, <1>2, <2>2, <3>1, <3>2, GetWindowKeeps, GetWindowPasses
    <3>3. CASE Rate!StartWindow(w)
      BY <1>1, <1>2, <2>2, <3>1, <3>3, StartWindowKeeps, StartWindowPasses
    <3>4. CASE Rate!Increase(w)
      BY <1>1, <1>2, <2>2, <3>1, <3>4, IncreaseKeeps, IncreasePasses
    <3>5. CASE Rate!AnswerRedis(w)
      BY <1>1, <1>2, <2>2, <3>1, <3>5, AnswerRedisKeeps, AnswerRedisPasses
    <3> QED
      BY <2>1, <2>2, <3>2, <3>3, <3>4, <3>5
  <2>3. CASE ~ Redis
    <3>1. TableOK /\ (Alone => AloneOK /\ AlonePasses)
      BY <2>3 DEF LimitInv
    <3>2. CASE Rate!Start(w)
      <4>1. JobsTyped' /\ HistoryOK' /\ TableOK'
        BY <1>1, <2>3, <3>1, <3>2, StartKeeps
      <4>2. Alone => AloneOK' /\ AlonePasses'
        BY <1>1, <2>3, <3>1, <3>2, StartAlone
      <4> QED
        BY <1>3, <2>3, <4>1, <4>2
    <3>3. CASE Rate!Select(w) \/ Rate!Delete(w) \/ Rate!Read(w)
      <4>1. \E q : Looks(w, q)
        BY <1>1, <2>3, <3>1, <3>3, SelectBecomes, DeleteBecomes, ReadBecomes
      <4>2. JobsTyped' /\ HistoryOK' /\ TableOK'
        BY <1>1, <3>1, <4>1, LooksKeeps
      <4>3. Alone => AloneOK' /\ AlonePasses'
        BY <1>1, <2>3, <3>1, <3>3, LooksAlone
      <4> QED
        BY <1>3, <2>3, <4>2, <4>3
    <3>4. CASE Rate!Write(w)
      <4>1. JobsTyped' /\ HistoryOK' /\ TableOK'
        BY <1>1, <2>3, <3>1, <3>4, WriteKeeps
      <4>2. Alone => AloneOK' /\ AlonePasses'
        BY <1>1, <2>3, <3>1, <3>4, WriteAlone
      <4> QED
        BY <1>3, <2>3, <4>1, <4>2
    <3>5. CASE Rate!AnswerTable(w)
      <4>1. JobsTyped' /\ HistoryOK' /\ TableOK'
        BY <1>1, <3>1, <3>5, AnswerTableKeeps
      <4>2. Alone => AloneOK' /\ AlonePasses'
        BY <1>1, <2>3, <3>1, <3>5, AnswerAlone
      <4> QED
        BY <1>3, <2>3, <4>1, <4>2
    <3> QED
      BY <2>1, <2>3, <3>2, <3>3, <3>4, <3>5
  <2> QED
    BY <2>2, <2>3
<1> QED
  BY <1>4, <1>5, <1>6

LEMMA LimitInvAlways ==
  ASSUME Sane
  PROVE  Rate!Spec => []LimitInv
<1>1. Rate!Init => LimitInv
  BY LimitInvInit
<1>2. LimitInv /\ [Rate!Next]_(Rate!vars) => LimitInv'
  BY LimitInvNext
<1> QED
  BY <1>1, <1>2, PTL DEF Rate!Spec

\* What it says of types.
LEMMA LimitInvTypes ==
  ASSUME Sane, LimitInv
  PROVE  Rate!TypeOK
<1>1. JobsTyped /\ HistoryOK /\ Redis \in BOOLEAN
  BY DEF LimitInv, Sane, Rate!LimitAssumption
<1>2. /\ asked[Rate!Last] \in 0..Rate!MaxCount /\ Rate!MaxCount \in Nat
      /\ inWindow \in 0..Rate!MaxCount
      /\ \A t \in 0..Rate!Last : asked[t] \in 0..Rate!MaxCount /\ passed[t] \in 0..Rate!MaxCount
  BY <1>1, CountType
<1>3. asked \in [0..Rate!Last -> 0..Rate!MaxCount] /\ passed \in [0..Rate!Last -> 0..Rate!MaxCount]
  BY <1>1, <1>2 DEF HistoryOK, Grows
<1>4. clock \in 0..MaxTime /\ clock \in Nat
  BY <1>1, TicksType DEF HistoryOK, Ticks
<1>5. /\ window \in [value : 0..MaxTime, expires : 0..Rate!Never]
      /\ count \in [value : 0..Rate!MaxCount, expires : 0..Rate!Never]
      /\ row \in [start : 0..MaxTime, requests : 0..Rate!MaxCount]
      /\ Redis => row = Rate!NoRow
      /\ ~ Redis => window = Rate!Absent /\ count = Rate!Absent
  <2>1. CASE Redis
    <3>1. RedisOK
      BY <2>1 DEF LimitInv
    <3>2. count.value \in 0..Rate!MaxCount
      BY <1>2, <3>1, NumberType DEF RedisOK
    <3> QED
      BY <2>1, <3>1, <3>2, WindowType DEF RedisOK, LimitRow, Ticks
  <2>2. CASE ~ Redis
    <3>1. TableOK
      BY <2>2 DEF LimitInv
    <3> QED
      BY <1>2, <2>2, <3>1, WindowType DEF TableOK, Rate!Absent, LimitRow, Ticks
  <2> QED
    BY <1>1, <2>1, <2>2
<1>6. ASSUME NEW w \in Worker
      PROVE  /\ jobs[w] \in [pc : {"idle", "start", "increase", "select", "delete",
                                   "read", "write", "answer"},
                            now : 0..MaxTime, record : [start : 0..MaxTime, requests : 0..Rate!MaxCount]]
             /\ jobs[w].pc # "idle" => clock - jobs[w].now \in 0..1
  <2>1. jobs[w] \in LimitJob /\ jobs[w].now \in Ticks /\ jobs[w].now \in Nat
    BY <1>1, TicksType DEF JobsTyped, LimitJob, Ticks
  <2>2. ModePc \subseteq {"idle", "start", "increase", "select", "delete", "read", "write", "answer"}
    BY DEF ModePc
  <2>3. jobs[w].pc # "idle" => jobs[w].now = clock \/ jobs[w].now + 1 = clock
    BY <1>1, <2>1, <2>2 DEF JobsTyped, LimitJob, Begun
  <2>4. jobs[w].pc # "idle" => clock - jobs[w].now \in 0..1
    BY <1>4, <2>1, <2>3
  <2> QED
    BY <2>1, <2>2, <2>4 DEF LimitJob, LimitRow, Ticks
<1> QED
  BY <1>2, <1>3, <1>4, <1>5, <1>6 DEF Rate!TypeOK, LimitInv, Answered

\* What a refusal says of the requests.
LEMMA RefusalComes ==
  ASSUME Sane, LimitInv, [Rate!Next]_(Rate!vars),
         NEW w \in Worker, answer[w] # "refused", answer'[w] = "refused"
  PROVE  \/ Redis /\ Rate!AnswerRedis(w) /\ Rate!Live(count) /\ count.value > Limit
         \/ ~ Redis /\ Rate!AnswerTable(w) /\ Rate!Exists(row) /\ row.requests > Limit
<1>1. JobsTyped /\ Answered
  BY DEF LimitInv
<1>2. ASSUME NEW v \in Worker, NEW a, answer' = [answer EXCEPT ![v] = a]
      PROVE  v = w /\ a = "refused"
  BY <1>1, <1>2 DEF Answered
<1>3. answer' # answer
  OBVIOUS
<1>4. Rate!Next /\ ~ Rate!Tick
  BY <1>3 DEF Rate!vars, Rate!Tick
<1>5. PICK v \in Worker :
         \/ Redis /\ (Rate!GetWindow(v) \/ Rate!StartWindow(v) \/ Rate!Increase(v) \/ Rate!AnswerRedis(v))
         \/ ~ Redis /\ (Rate!Start(v) \/ Rate!Select(v) \/ Rate!Delete(v)
                        \/ Rate!Read(v) \/ Rate!Write(v) \/ Rate!AnswerTable(v))
  BY <1>1, <1>4, LimitSteps
<1>6. ~ (Rate!StartWindow(v) \/ Rate!Increase(v) \/ Rate!Select(v) \/ Rate!Delete(v) \/ Rate!Read(v))
  BY <1>3 DEF Rate!StartWindow, Rate!Increase, Rate!Select, Rate!Delete, Rate!Read
<1>7. ~ (Rate!GetWindow(v) \/ Rate!Start(v))
  <2>1. Rate!GetWindow(v) \/ Rate!Start(v) => answer' = [answer EXCEPT ![v] = "none"]
    BY DEF Rate!GetWindow, Rate!Start, Rate!Ask
  <2> QED
    BY <1>2, <2>1
<1>8. ~ Rate!Write(v)
  <2>1. Rate!Write(v) => answer' = answer \/ answer' = [answer EXCEPT ![v] = "failed"]
    BY DEF Rate!Write, Rate!Reply
  <2> QED
    BY <1>2, <1>3, <2>1
<1>9. CASE Redis /\ Rate!AnswerRedis(v)
  <2>1. PICK a : /\ answer' = [answer EXCEPT ![v] = a]
                 /\ a = "refused" => Rate!Live(count) /\ count.value > Limit
    BY <1>1, <1>9, AnswerRedisBecomes
  <2> QED
    BY <1>2, <1>9, <2>1
<1>10. CASE ~ Redis /\ Rate!AnswerTable(v)
  <2>1. PICK a : /\ answer' = [answer EXCEPT ![v] = a]
                 /\ a = "refused" => Rate!Exists(row) /\ row.requests > Limit
    BY <1>1, <1>10, AnswerTableBecomes
  <2> QED
    BY <1>2, <1>10, <2>1
<1> QED
  BY <1>5, <1>6, <1>7, <1>8, <1>9, <1>10

LEMMA RefusalHasReason ==
  ASSUME Sane, LimitInv, [Rate!Next]_(Rate!vars), Redis \/ Alone
  PROVE  Rate!StepRefusesForAReason
<1> SUFFICES ASSUME NEW w \in Worker, answer[w] # "refused", answer'[w] = "refused"
             PROVE  Rate!During(asked, IF clock > Window + 1 THEN clock - Window - 1 ELSE 0, clock) > Limit
  BY DEF Rate!StepRefusesForAReason
<1>1. JobsTyped /\ HistoryOK
  BY DEF LimitInv
<1>2. CASE Redis /\ Rate!AnswerRedis(w) /\ Rate!Live(count) /\ count.value > Limit
  BY <1>1, <1>2, AnswerRedisReason DEF LimitInv
<1>3. CASE ~ Redis /\ Rate!AnswerTable(w) /\ Rate!Exists(row) /\ row.requests > Limit
  BY <1>1, <1>3, AnswerTableReason DEF LimitInv
<1> QED
  BY <1>2, <1>3, RefusalComes

LEMMA RefusalIsNotEarly ==
  ASSUME Sane, LimitInv, [Rate!Next]_(Rate!vars)
  PROVE  Rate!StepRefusesNobodyEarly
<1> SUFFICES ASSUME NEW w \in Worker, answer[w] # "refused", answer'[w] = "refused"
             PROVE  Rate!During(asked, 0, clock) > Limit
  BY DEF Rate!StepRefusesNobodyEarly
<1>1. JobsTyped /\ HistoryOK /\ clock \in 0..MaxTime /\ clock \in Nat /\ Grows(asked, clock)
  BY TicksType DEF LimitInv, HistoryOK, Ticks
<1>2. CASE Redis /\ Rate!AnswerRedis(w) /\ Rate!Live(count) /\ count.value > Limit
  <2> DEFINE from == IF clock > Window + 1 THEN clock - Window - 1 ELSE 0
  <2>1. Rate!During(asked, from, clock) > Limit
    BY <1>1, <1>2, AnswerRedisReason DEF LimitInv
  <2>2. from \in 0..Rate!Last /\ 0 \in 0..Rate!Last /\ 0 <= from /\ Limit \in Nat
    BY <1>1, TicksType, WindowType
  <2> HIDE DEF from
  <2>3. /\ Rate!During(asked, from, clock) = Since(asked, from)
        /\ Rate!During(asked, 0, clock) = Since(asked, 0)
        /\ Since(asked, from) <= Since(asked, 0)
        /\ Since(asked, from) \in Nat /\ Since(asked, 0) \in Nat
    BY <1>1, <2>2, SinceType
  <2> QED
    BY <2>1, <2>2, <2>3
<1>3. CASE ~ Redis /\ Rate!AnswerTable(w) /\ Rate!Exists(row) /\ row.requests > Limit
  BY <1>1, <1>3, AnswerTableEver DEF LimitInv
<1> QED
  BY <1>2, <1>3, RefusalComes

LEMMA LimitInvPasses ==
  ASSUME Sane, LimitInv, Redis \/ Alone
  PROVE  Rate!PassesAreBounded
<1>1. CASE Redis
  BY <1>1, PassesOKBounds DEF LimitInv
<1>2. CASE ~ Redis /\ Alone
  BY <1>2, AlonePassesBound DEF LimitInv
<1> QED
  BY <1>1, <1>2

\* In any stretch of time as long as a window no more requests are let through
\* than in one window, and in one more for each worker that can begin it anew, and
\* those that are counted in one window and checked in another: in Redis for any
\* number of workers, in the table for one.  Nothing leaves its type, in Redis or
\* in the table (check_ratelimit, update_ratelimit).
THEOREM PassesStayBounded ==
  ASSUME Rate!WorkerAssumption, Rate!LimitAssumption, Rate!BoundAssumption
  PROVE  /\ Rate!Spec => []Rate!TypeOK
         /\ Redis \/ (\A v, w \in Worker : v = w) => (Rate!Spec => []Rate!PassesAreBounded)
<1>1. Sane
  BY DEF Sane
<1>2. LimitInv => Rate!TypeOK
  BY <1>1, LimitInvTypes
<1>3. Rate!Spec => []LimitInv
  BY <1>1, LimitInvAlways
<1>4. Rate!Spec => []Rate!TypeOK
  BY <1>2, <1>3, PTL
<1>5. ASSUME Redis \/ (\A v, w \in Worker : v = w)
      PROVE  Rate!Spec => []Rate!PassesAreBounded
  <2>1. LimitInv => Rate!PassesAreBounded
    BY <1>1, <1>5, LimitInvPasses DEF Alone
  <2> QED
    BY <1>3, <2>1, PTL
<1> QED
  BY <1>4, <1>5

\* A request is refused only if there were too many in the time of a window and of
\* one request: in Redis for any number of workers, in the table for one
\* (check_ratelimit).
THEOREM RefusalsHaveReasons ==
  ASSUME Rate!WorkerAssumption, Rate!LimitAssumption, Rate!BoundAssumption,
         Redis \/ (\A v, w \in Worker : v = w)
  PROVE  Rate!Spec => [][Rate!StepRefusesForAReason]_(Rate!vars)
<1>1. Sane
  BY DEF Sane
<1>2. LimitInv /\ [Rate!Next]_(Rate!vars) => Rate!StepRefusesForAReason
  BY <1>1, RefusalHasReason DEF Alone
<1>3. Rate!Spec => []LimitInv
  BY <1>1, LimitInvAlways
<1>4. Rate!Spec => [][Rate!Next]_(Rate!vars)
  BY PTL DEF Rate!Spec
<1> QED
  BY <1>2, <1>3, <1>4, PTL

\* A request is refused only if there ever were too many, for any number of workers
\* in Redis and in the table (check_ratelimit).
THEOREM NobodyIsRefusedEarly ==
  ASSUME Rate!WorkerAssumption, Rate!LimitAssumption, Rate!BoundAssumption
  PROVE  Rate!Spec => [][Rate!StepRefusesNobodyEarly]_(Rate!vars)
<1>1. Sane
  BY DEF Sane
<1>2. LimitInv /\ [Rate!Next]_(Rate!vars) => Rate!StepRefusesNobodyEarly
  BY <1>1, RefusalIsNotEarly
<1>3. Rate!Spec => []LimitInv
  BY <1>1, LimitInvAlways
<1>4. Rate!Spec => [][Rate!Next]_(Rate!vars)
  BY PTL DEF Rate!Spec
<1> QED
  BY <1>2, <1>3, <1>4, PTL
=============================================================================
