------------------------------ MODULE MCRedis -------------------------------
(***************************************************************************)
(* Small instances, for TLC, of what aurweb keeps in Redis: RedisCache and *)
(* RateLimit.  They share no keys, so that a behaviour explores one of     *)
(* them while the other rests.                                             *)
(***************************************************************************)
EXTENDS RedisCache, TLC

CONSTANT w0      \* a worker that is alone

VARIABLES
    setting,
    clock, window, count, row, jobs, answer, asked, passed, inWindow   \* RateLimit

limit == <<clock, window, count, row, jobs, answer, asked, passed, inWindow>>

\* A window lasts two ticks.
LimitRedis == INSTANCE RateLimit WITH
    time <- clock, job <- jobs,
    Redis <- TRUE, Limit <- 1, Window <- 2, MaxTime <- 3, MaxAsk <- 3
LimitTable == INSTANCE RateLimit WITH
    time <- clock, job <- jobs, Worker <- {w0},
    Redis <- FALSE, Limit <- 1, Window <- 2, MaxTime <- 5, MaxAsk <- 3
LimitTableRace == INSTANCE RateLimit WITH
    time <- clock, job <- jobs,
    Redis <- FALSE, Limit <- 1, Window <- 1, MaxTime <- 4, MaxAsk <- 2

ASSUME ConstantsAssumption ==
    /\ LimitRedis!WorkerAssumption /\ LimitRedis!LimitAssumption /\ LimitRedis!BoundAssumption
    /\ LimitTable!WorkerAssumption /\ LimitTable!LimitAssumption /\ LimitTable!BoundAssumption
    /\ LimitTableRace!LimitAssumption /\ LimitTableRace!BoundAssumption

Off == {}

LimitOff ==
    /\ clock = Off /\ window = Off /\ count = Off /\ row = Off /\ jobs = Off
    /\ answer = Off /\ asked = Off /\ passed = Off /\ inWindow = Off

SettingInit ==
    /\ Init
    /\ \/ setting \in {"copies", "results", "errors"} /\ LimitOff
       \/ setting = "redis" /\ LimitRedis!Init
       \/ setting = "table" /\ LimitTable!Init
       \/ setting = "table race" /\ LimitTableRace!Init

\* The keys that are used, the end of time and the workers that are killed.
Within(keys, end, killed) ==
    /\ \A w \in Worker : job[w].key \in keys \cup {NoKey}
    /\ time <= end /\ crashes <= killed

OneResult == CHOOSE k \in ListKey : TRUE

SettingNext ==
    /\ UNCHANGED setting
    /\ \/ /\ Next /\ UNCHANGED limit
          /\ \/ setting = "copies" /\ Within(CountKey \cup {OneResult} \cup FeedKey, 4, 0)'
             \/ setting = "results" /\ Within(CountKey \cup ListKey, 2, 0)'
             \/ setting = "errors" /\ Within(Error, 6, 1)'
       \/ /\ UNCHANGED vars
          /\ \/ setting = "redis" /\ LimitRedis!Next
             \/ setting = "table" /\ LimitTable!Next
             \/ setting = "table race" /\ LimitTableRace!Next

SettingSpec == SettingInit /\ [][SettingNext]_<<vars, setting, limit>>

Symmetry == Permutations(Worker)

-----------------------------------------------------------------------------
(* The properties of RateLimit, with its type invariant, in its settings.  *)

\* In any stretch of time as long as a window no more requests are let through
\* than in one window, in one more for each worker, and by the workers that race
\* (update_ratelimit).
PassesAreBounded ==
    /\ setting = "redis" => LimitRedis!TypeOK /\ LimitRedis!PassesAreBounded
    /\ setting = "table" => LimitTable!TypeOK /\ LimitTable!PassesAreBounded
    /\ setting = "table race" => LimitTableRace!TypeOK

\* A request is refused only if there were too many lately, or ever if workers
\* race on the table (check_ratelimit).
RefusedForAReason ==
    [][/\ setting = "redis" => LimitRedis!StepRefusesForAReason
       /\ setting = "table" => LimitTable!StepRefusesForAReason
       /\ setting = "table race" => LimitTableRace!StepRefusesNobodyEarly]_limit
=============================================================================
