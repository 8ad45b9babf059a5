----------------------------- MODULE RedisCache -----------------------------
(***************************************************************************)
(* What aurweb keeps in Redis: counts, search results, the latest packages *)
(* and feeds, which are copies of the database for some time; and marks of *)
(* the errors that were reported.                                          *)
(*                                                                         *)
(* Several workers serve requests.  Each command of Redis is atomic and so *)
(* is a transaction; a GET, the query and a SET are not.  A copy is told   *)
(* by the time of its query.  A request takes at most one tick of the      *)
(* clock, unless its worker is killed.                                     *)
(*                                                                         *)
(* An operator whose name ends in _Bug is the definition that follows it,  *)
(* with a mistake that the properties at the end have to catch.  Nothing   *)
(* uses it.                                                                *)
(***************************************************************************)
EXTENDS Naturals, FiniteSets

CONSTANTS
    Worker,
    CountKey, ListKey, FeedKey,  \* db_count_cache or updated_packages, db_query_cache, lambda_cache
    Error,        \* tracebacks
    NoKey,
    Lifetime,     \* of a copy, in ticks
    MarkLifetime, \* of the mark of an error
    MaxEntries,   \* max_search_entries
    MaxTime,      \* bound
    MaxReport,    \* bound: reports of an error
    MaxCrash      \* bound: workers that are killed

Copy == CountKey \cup ListKey \cup FeedKey
Key == Copy \cup Error

ASSUME KeyAssumption ==
    /\ CountKey \cap ListKey = {} /\ (CountKey \cup ListKey) \cap FeedKey = {}
    /\ Copy \cap Error = {} /\ NoKey \notin Key
    /\ IsFiniteSet(Worker) /\ IsFiniteSet(Key)
\* A mark outlives the request that makes it.
ASSUME BoundAssumption ==
    /\ Lifetime \in Nat \ {0} /\ MarkLifetime \in Nat \ {0, 1} /\ MaxEntries \in Nat
    /\ MaxTime \in Nat /\ MaxReport \in Nat /\ MaxCrash \in Nat

VARIABLES
    time,
    store,    \* of a key: the time of its query and the time when it expires
    job,      \* of a worker
    served,   \* history: what a worker answered last, and when
    reported, \* history: of an error, how often it was reported while it was marked
    crashes

vars == <<time, store, job, served, reported, crashes>>

Never == MaxTime + Lifetime + MarkLifetime + 1
Absent == [made |-> 0, expires |-> 0]
Idle == [pc |-> "idle", key |-> NoKey, made |-> 0, since |-> 0]
Nothing == [made |-> 0, at |-> 0]

Live(k) == store[k].expires > time

TypeOK ==
    /\ time \in 0..MaxTime
    /\ \A k \in Key : store[k] \in [made : 0..time, expires : 0..Never]
    /\ \A w \in Worker :
         /\ job[w] \in [pc : {"idle", "size", "query", "set", "expire", "mark", "report"},
                        key : Key \cup {NoKey}, made : 0..time, since : 0..time]
         /\ served[w] \in [made : 0..time, at : 0..time]
         /\ job[w].pc = "idle" <=> job[w].key = NoKey
         /\ job[w].pc \in {"mark", "report"} => job[w].key \in Error
    /\ reported \in [Error -> 0..MaxReport] /\ crashes \in 0..MaxCrash

Init ==
    /\ time = 0
    /\ store = [k \in Key |-> Absent]
    /\ job = [w \in Worker |-> Idle]
    /\ served = [w \in Worker |-> Nothing]
    /\ reported = [e \in Error |-> 0]
    /\ crashes = 0

End(w) == job' = [job EXCEPT ![w] = Idle]
Goto(w, pc) == job' = [job EXCEPT ![w].pc = pc]
Serve(w, made) == served' = [served EXCEPT ![w] = [made |-> made, at |-> time]]

-----------------------------------------------------------------------------
(* Copies *)

\* The GET that all of them start with.
Get(w, k) ==
    /\ job[w].pc = "idle"
    /\ IF Live(k) THEN Serve(w, store[k].made) /\ UNCHANGED job
       ELSE /\ job' = [job EXCEPT ![w] = [pc |-> IF k \in ListKey THEN "size" ELSE "query",
                                          key |-> k, made |-> 0, since |-> time]]
            /\ UNCHANGED served
    /\ UNCHANGED <<time, store, reported, crashes>>

Size_Bug(w) == \* however many there are
    /\ job[w].pc = "size"
    /\ Goto(w, "query")
    /\ UNCHANGED <<time, store, served, reported, crashes>>

\* db_query_cache: with too many entries, of whatever kind, the result is not
\* stored.
Size(w) ==
    /\ job[w].pc = "size"
    /\ IF Cardinality({k \in Key : Live(k)}) > MaxEntries
       THEN End(w) /\ Serve(w, time)
       ELSE Goto(w, "query") /\ UNCHANGED served
    /\ UNCHANGED <<time, store, reported, crashes>>

Query(w) ==
    /\ job[w].pc = "query"
    /\ job' = [job EXCEPT ![w].pc = "set", ![w].made = time]
    /\ UNCHANGED <<time, store, served, reported, crashes>>

\* A SET without a lifetime takes away that of the key.
Set(w) == LET k == job[w].key IN
    /\ job[w].pc = "set" /\ k \notin FeedKey
    /\ store' = [store EXCEPT ![k] = [made |-> job[w].made, expires |-> Never]]
    /\ Goto(w, "expire")
    /\ UNCHANGED <<time, served, reported, crashes>>

Expire(w) == LET k == job[w].key IN
    /\ job[w].pc = "expire"
    /\ store' = [store EXCEPT ![k] = IF Live(k) THEN [@ EXCEPT !.expires = time + Lifetime] ELSE @]
    /\ End(w) /\ Serve(w, job[w].made)
    /\ UNCHANGED <<time, reported, crashes>>

SetFeed_Bug(w) == LET k == job[w].key IN \* without a lifetime
    /\ job[w].pc = "set" /\ k \in FeedKey
    /\ store' = [store EXCEPT ![k] = [made |-> job[w].made, expires |-> Never]]
    /\ End(w) /\ Serve(w, job[w].made)
    /\ UNCHANGED <<time, reported, crashes>>

\* lambda_cache: one SET with a lifetime
SetFeed(w) == LET k == job[w].key IN
    /\ job[w].pc = "set" /\ k \in FeedKey
    /\ store' = [store EXCEPT ![k] = [made |-> job[w].made, expires |-> time + Lifetime]]
    /\ End(w) /\ Serve(w, job[w].made)
    /\ UNCHANGED <<time, reported, crashes>>

-----------------------------------------------------------------------------
(* Errors *)

\* internal_server_error: an error that is marked is not reported.
Fail(w, e) ==
    /\ job[w].pc = "idle" /\ ~ Live(e)
    /\ job' = [job EXCEPT ![w] = [pc |-> "mark", key |-> e, made |-> 0, since |-> time]]
    /\ UNCHANGED <<time, store, served, reported, crashes>>

Mark_Bug(w) == \* for as long as a copy lives
    /\ job[w].pc = "mark"
    /\ store' = [store EXCEPT ![job[w].key] = [made |-> time, expires |-> time]]
    /\ Goto(w, "report")
    /\ UNCHANGED <<time, served, reported, crashes>>

\* One transaction of Redis, before the report is sent.
Mark(w) ==
    /\ job[w].pc = "mark"
    /\ store' = [store EXCEPT ![job[w].key] = [made |-> time, expires |-> time + MarkLifetime]]
    /\ Goto(w, "report")
    /\ UNCHANGED <<time, served, reported, crashes>>

\* The issue is created, or it is refused and that is logged.
Report(w) ==
    /\ job[w].pc = "report" /\ reported[job[w].key] < MaxReport
    /\ \/ reported' = [reported EXCEPT ![job[w].key] = @ + 1]
       \/ UNCHANGED reported
    /\ End(w)
    /\ UNCHANGED <<time, store, served, crashes>>

-----------------------------------------------------------------------------
(* Time, and workers that are killed *)

Tick ==
    /\ time < MaxTime /\ \A w \in Worker : job[w].pc # "idle" => job[w].since = time
    /\ time' = time + 1
    /\ store' = [k \in Key |-> IF store[k].expires > time' THEN store[k] ELSE Absent]
    /\ reported' = [e \in Error |-> IF store[e].expires > time' THEN reported[e] ELSE 0]
    /\ UNCHANGED <<job, served, crashes>>

Crash(w) ==
    /\ job[w].pc # "idle" /\ crashes < MaxCrash
    /\ crashes' = crashes + 1 /\ End(w)
    /\ UNCHANGED <<time, store, served, reported>>

Next ==
    \/ Tick
    \/ \E w \in Worker :
         \/ \E k \in Copy : Get(w, k)
         \/ \E e \in Error : Fail(w, e)
         \/ Size(w) \/ Query(w) \/ Set(w) \/ Expire(w) \/ SetFeed(w)
         \/ Mark(w) \/ Report(w) \/ Crash(w)

Spec == Init /\ [][Next]_vars

-----------------------------------------------------------------------------
(* Properties.                                                             *)

\* A copy that is served is not older than its lifetime and the tick of a
\* request, however many workers store it at once and set each other's lifetime
\* (expiry_time_search).
Fresh == \A w \in Worker : served[w].at <= served[w].made + Lifetime + 1

\* However many workers ask for the size at once, each adds one result to
\* what is allowed (max_search_entries).
ResultsAreBounded ==
    Cardinality({k \in ListKey : Live(k)}) <= MaxEntries + Cardinality(Worker)

\* There are no more search results than the configuration allows
\* (max_search_entries).
MaximumIsKept == Cardinality({k \in ListKey : Live(k)}) <= MaxEntries

\* Each worker that met an error before it was marked reports it, and then it
\* is not reported again for a day (internal_server_error).
ReportedOnce == \A e \in Error : reported[e] <= Cardinality(Worker)

\* An error that is marked was reported or is about to be
\* (internal_server_error).
MarkedIsReported == \A e \in Error : Live(e) =>
    reported[e] > 0 \/ \E w \in Worker : job[w].key = e
=============================================================================
