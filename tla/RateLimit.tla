----------------------------- MODULE RateLimit ------------------------------
(***************************************************************************)
(* How the requests of one address to the RPC interface are limited: by a  *)
(* window and a count in Redis, or by a row of ApiRateLimit.               *)
(*                                                                         *)
(* A worker answers one request at a time.  A step is one transaction of   *)
(* Redis or of the database, or one of the two statements of the           *)
(* transaction that deletes old rows.  A request takes at most one tick of *)
(* the clock.                                                              *)
(*                                                                         *)
(* An operator whose name ends in _Bug is the definition that follows it,  *)
(* with a mistake that the properties at the end have to catch.  Nothing   *)
(* uses it.                                                                *)
(***************************************************************************)
EXTENDS Naturals, FiniteSets

CONSTANTS
    Worker,
    Redis,        \* whether the cache is used: option "cache"
    Limit,        \* request_limit
    Window,       \* window_length, in ticks
    MaxTime,      \* bound
    MaxAsk        \* bound: requests in one tick

\* Assumptions about the constants, which MCRedis makes for its instances.
WorkerAssumption == IsFiniteSet(Worker) /\ Worker # {}
LimitAssumption == Redis \in BOOLEAN /\ Limit \in Nat /\ Window \in Nat \ {0}
BoundAssumption == MaxTime \in Nat /\ MaxAsk \in Nat

VARIABLES
    time,
    window,   \* Redis: the key ratelimit-ws, with the time when it expires
    count,    \* Redis: the key ratelimit
    row,      \* the row of the address in ApiRateLimit
    job,      \* of a worker
    answer,   \* the last one of a worker
    asked,    \* history: requests that began before a tick
    passed,   \* history: requests that were let through before a tick
    inWindow  \* history: of these, how many since the window began

vars == <<time, window, count, row, job, answer, asked, passed, inWindow>>
history == <<asked, passed, inWindow>>

Never == MaxTime + Window + 1
Last == MaxTime + 1
MaxCount == Last * MaxAsk
Absent == [value |-> 0, expires |-> 0]
NoRow == [start |-> 0, requests |-> 0]
Idle == [pc |-> "idle", now |-> 0, record |-> NoRow]

Live(key) == key.expires > time
Exists(r) == r.requests > 0

\* One more in this tick, and those of the ticks from one to another.
OneMore(h) == [t \in 0..Last |-> IF t > time THEN h[t] + 1 ELSE h[t]]
During(h, from, to) == h[IF to < MaxTime THEN to + 1 ELSE Last] - h[from]

TypeOK ==
    /\ time \in 0..MaxTime
    /\ window \in [value : 0..MaxTime, expires : 0..Never]
    /\ count \in [value : 0..MaxCount, expires : 0..Never]
    /\ row \in [start : 0..MaxTime, requests : 0..MaxCount]
    /\ \A w \in Worker :
         /\ job[w] \in [pc : {"idle", "start", "increase", "select", "delete", "read", "write", "answer"},
                        now : 0..MaxTime, record : [start : 0..MaxTime, requests : 0..MaxCount]]
         /\ job[w].pc # "idle" => time - job[w].now \in 0..1
    /\ answer \in [Worker -> {"none", "passed", "refused", "failed"}]
    /\ asked \in [0..Last -> 0..MaxCount]
    /\ passed \in [0..Last -> 0..MaxCount]
    /\ inWindow \in 0..MaxCount
    /\ Redis => row = NoRow
    /\ ~ Redis => window = Absent /\ count = Absent

Init ==
    /\ time = 0
    /\ window = Absent /\ count = Absent /\ row = NoRow
    /\ job = [w \in Worker |-> Idle]
    /\ answer = [w \in Worker |-> "none"]
    /\ asked = [t \in 0..Last |-> 0]
    /\ passed = [t \in 0..Last |-> 0]
    /\ inWindow = 0

At(w, pc) == job[w].pc = pc
Goto(w, pc) == job' = [job EXCEPT ![w].pc = pc]

\* The answer, and an error that no handler catches.
Reply(w, a) ==
    /\ job' = [job EXCEPT ![w] = Idle]
    /\ answer' = [answer EXCEPT ![w] = a]
    /\ IF a = "passed" THEN passed' = OneMore(passed) /\ inWindow' = inWindow + 1
       ELSE UNCHANGED <<passed, inWindow>>
    /\ UNCHANGED asked

\* check_ratelimit: the value in Redis, or the record.
Check(w, requests) == Reply(w, IF requests > Limit THEN "refused" ELSE "passed")

Ask(w, pc) ==
    /\ At(w, "idle") /\ During(asked, time, time) < MaxAsk
    /\ job' = [job EXCEPT ![w] = [Idle EXCEPT !.pc = pc, !.now = time]]
    /\ answer' = [answer EXCEPT ![w] = "none"]
    /\ asked' = OneMore(asked)
    /\ UNCHANGED <<time, window, count, row, passed, inWindow>>

-----------------------------------------------------------------------------
(* In Redis *)

\* The GET of the window decides.
GetWindow(w) ==
    /\ Redis
    /\ Ask(w, IF ~ Live(window) \/ window.value + Window < time THEN "start" ELSE "increase")

StartWindow_Bug(w) == \* and the request is counted once more
    /\ At(w, "start")
    /\ window' = [value |-> job[w].now, expires |-> time + Window]
    /\ count' = [value |-> 1, expires |-> time + Window]
    /\ inWindow' = 0 /\ Goto(w, "increase")
    /\ UNCHANGED <<time, row, answer, asked, passed>>

\* Two SETs and their EXPIREs, in one transaction.
StartWindow(w) ==
    /\ At(w, "start")
    /\ window' = [value |-> job[w].now, expires |-> time + Window]
    /\ count' = [value |-> 1, expires |-> time + Window]
    /\ inWindow' = 0 /\ Goto(w, "answer")
    /\ UNCHANGED <<time, row, answer, asked, passed>>

Increase_Bug(w) == \* like the first request of a window
    /\ At(w, "increase")
    /\ count' = [value |-> 1, expires |-> time + Window]
    /\ Goto(w, "answer")
    /\ UNCHANGED <<time, window, row, answer, history>>

\* INCR creates a key that has expired, without a lifetime.
Increase(w) ==
    /\ At(w, "increase")
    /\ count' = IF Live(count) THEN [count EXCEPT !.value = @ + 1] ELSE [value |-> 1, expires |-> Never]
    /\ Goto(w, "answer")
    /\ UNCHANGED <<time, window, row, answer, history>>

\* The GET of the count.  When it has expired there is no record to use.
AnswerRedis(w) ==
    /\ Redis /\ At(w, "answer")
    /\ IF Live(count) THEN Check(w, count.value) ELSE Reply(w, "failed")
    /\ UNCHANGED <<time, window, count, row>>

-----------------------------------------------------------------------------
(* In the database *)

\* The transaction that deletes the old rows: the query, and the deletion by
\* address.
Start(w) == ~ Redis /\ Ask(w, "select")

Select(w) ==
    /\ At(w, "select")
    /\ Goto(w, IF Exists(row) /\ row.start + Window < job[w].now THEN "delete" ELSE "read")
    /\ UNCHANGED <<time, window, count, row, answer, history>>

Delete(w) ==
    /\ At(w, "delete")
    /\ row' = NoRow
    /\ Goto(w, "read")
    /\ UNCHANGED <<time, window, count, answer, history>>

Read(w) ==
    /\ At(w, "read")
    /\ job' = [job EXCEPT ![w].pc = "write", ![w].record = row]
    /\ UNCHANGED <<time, window, count, row, answer, history>>

\* retry_create.  A duplicate address is an error, and so is an UPDATE of a row
\* that is gone.  The number was read before.
Write(w) == LET r == job[w].record IN
    /\ At(w, "write")
    /\ \/ /\ Exists(r) /\ Exists(row)
          /\ row' = [row EXCEPT !.requests = r.requests + 1]
          /\ Goto(w, "answer") /\ UNCHANGED <<answer, history>>
       \/ /\ ~ Exists(r) /\ ~ Exists(row)
          /\ row' = [start |-> job[w].now, requests |-> 1]
          /\ inWindow' = 0 /\ Goto(w, "answer") /\ UNCHANGED <<answer, asked, passed>>
       \/ /\ Exists(r) # Exists(row)
          /\ Reply(w, "failed") /\ UNCHANGED row
    /\ UNCHANGED <<time, window, count>>

\* After the commit the record is read again.
AnswerTable(w) ==
    /\ ~ Redis /\ At(w, "answer")
    /\ IF Exists(row) THEN Check(w, row.requests) ELSE Reply(w, "failed")
    /\ UNCHANGED <<time, window, count, row>>

-----------------------------------------------------------------------------
Tick ==
    /\ time < MaxTime /\ \A w \in Worker : job[w].pc # "idle" => job[w].now = time
    /\ time' = time + 1
    /\ UNCHANGED <<window, count, row, job, answer, history>>

Next ==
    \/ Tick
    \/ \E w \in Worker :
         \/ GetWindow(w) \/ StartWindow(w) \/ Increase(w) \/ AnswerRedis(w)
         \/ Start(w) \/ Select(w) \/ Delete(w) \/ Read(w) \/ Write(w) \/ AnswerTable(w)

Spec == Init /\ [][Next]_vars

-----------------------------------------------------------------------------
(* Properties.                                                             *)

\* In any stretch of time as long as a window no more requests are let through
\* than in one window, and in one more for each worker that can begin it anew;
\* and those that were counted in one window and checked in another, which are
\* no more than the square of the number of workers (update_ratelimit).
PassesAreBounded == LET workers == Cardinality(Worker) IN
    \A t \in 0..MaxTime :
        During(passed, t, t + Window - 1) <= (1 + workers) * Limit + workers * workers

\* A request is refused only if there were too many in the time of a window
\* and of one request (check_ratelimit).  Two workers on the table may write what
\* they have read before the row was replaced; StepRefusesNobodyEarly remains.
StepRefusesForAReason == \A w \in Worker : answer[w] # "refused" /\ answer'[w] = "refused" =>
    During(asked, IF time > Window + 1 THEN time - Window - 1 ELSE 0, time) > Limit

\* A request is refused only if there ever were too many (check_ratelimit).
StepRefusesNobodyEarly == \A w \in Worker : answer[w] # "refused" /\ answer'[w] = "refused" =>
    During(asked, 0, time) > Limit

\* No more requests are let through in a window than the limit
\* (check_ratelimit).
LimitIsKept == inWindow <= Limit

\* Every request is let through or refused (check_ratelimit).
EveryoneIsAnswered == \A w \in Worker : answer[w] # "failed"
=============================================================================
