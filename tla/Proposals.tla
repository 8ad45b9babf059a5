------------------------------ MODULE Proposals ------------------------------
(***************************************************************************)
(* Proposals of the Package Maintainers: submitting one, voting on it, its *)
(* outcome, and the cron job aurweb-votereminder.                          *)
(*                                                                         *)
(* The handlers read in autocommit mode and write in one transaction at    *)
(* the end; the actions are cut there.  Time is a clock that both the      *)
(* handlers and cron read.                                                 *)
(*                                                                         *)
(* An operator whose name ends in _Bug is the definition that follows it,  *)
(* with a mistake that the properties at the end have to catch.  Nothing   *)
(* uses it.                                                                *)
(***************************************************************************)
EXTENDS Naturals, FiniteSets, FiniteSetsExt

CONSTANTS
    Pm,          \* accounts of type Package Maintainer
    Suspended,   \* those of them that are suspended
    Name,        \* usernames
    Others,      \* those of accounts that are not Package Maintainers
    ProposalId,  \* rows VoteInfo can have (a bound)
    NoProposal,  \* a row that has not been inserted
    Removed,     \* a row that was deleted; its ID is not given again
    Worker,      \* web workers
    Nobody,      \* the account an idle worker is at work for
    Duration,    \* ADDVOTE_SPECIFICS: how long a type of proposal runs
    Quorum,      \* and its quorum in hundredths
    RangeStart,  \* votereminder.range_start
    RangeEnd,    \* votereminder.range_end
    Gap,         \* how long cron may wait between two runs
    MaxTime,     \* where the clock stops (a bound)
    Ops,         \* the handlers that run in this instance
    Faults       \* "crash"

ProposalType == DOMAIN Duration
Decision     == {"Yes", "No", "Abstain"}

ASSUME SuspendedAssumption == IsFiniteSet(Pm) /\ Suspended \subseteq Pm
ASSUME OthersAssumption == Others \subseteq Name
ASSUME TypesAssumption ==
    /\ "bylaws" \in ProposalType /\ DOMAIN Quorum = ProposalType
    /\ \A t \in ProposalType : Duration[t] \in Nat \ {0} /\ Quorum[t] \in 0..99

\* Some run of cron falls into the window before the end of any proposal, and
\* no proposal is in the window already when it is submitted.
ASSUME WindowAssumption ==
    /\ MaxTime \in Nat /\ RangeStart \in Nat /\ RangeEnd \in Nat /\ Gap \in Nat \ {0}
    /\ RangeStart + Gap <= RangeEnd + 1
    /\ \A t \in ProposalType : RangeEnd < Duration[t]

Time == 0..MaxTime

VoteInfo ==
    [type : ProposalType, User : Name, Submitter : Pm, End : Nat,
     tally : [Decision -> Nat], ActiveUsers : Nat]

\* The ID of a row that was deleted is told from one that was never given.
ASSUME NoProposalAssumption ==
    NoProposal # Removed /\ {NoProposal, Removed} \cap VoteInfo = {}

VARIABLES
    here,        \* accounts that exist
    username,    \* Users.Username
    inactivity,  \* Users.InactivityTS: NULL, 0 or a time
    voteinfo,    \* VoteInfo
    votes,       \* Votes: how many rows a user has for a proposal (no key)
    now,         \* the clock
    job,         \* the handlers that are running
    remind,      \* votereminder: the proposals a run has still to go through
    lastRun,     \* when it last started
    reminded,    \* history: who has been reminded of a proposal
    about        \* history: whose username a proposal named when submitted

accounts == <<here, username, inactivity>>
cron     == <<remind, lastRun, reminded>>
vars     == <<accounts, voteinfo, votes, now, job, cron, about>>

Proposals == {p \in ProposalId : voteinfo[p] \notin {NoProposal, Removed}}

IdleJob == [pc |-> "idle", user |-> Nobody, proposal |-> 0, seen |-> 0,
            decision |-> "Abstain", type |-> "bylaws", name |-> Nobody, end |-> 0]

TypeOK ==
    /\ here \subseteq Pm
    /\ username \in [Pm -> Name \ Others]
    /\ inactivity \in [Pm -> {"null", "active", "inactive"}]
    /\ voteinfo \in [ProposalId -> VoteInfo \cup {NoProposal, Removed}]
    /\ votes \in [ProposalId -> [Pm -> Nat]]
    /\ \A p \in ProposalId, u \in Pm :
         votes[p][u] # 0 => p \in Proposals /\ u \in here
    /\ now \in Time /\ lastRun \in 0..now
    /\ job \in [Worker -> [pc : {"idle", "ballot", "propose"}, user : Pm \cup {Nobody},
                           proposal : ProposalId \cup {0}, seen : Nat,
                           decision : Decision, type : ProposalType,
                           name : Name \cup {Nobody}, end : Nat]]
    /\ remind \subseteq ProposalId
    /\ reminded \in [ProposalId -> SUBSET Pm]
    /\ about \in [ProposalId -> SUBSET Pm]

Init ==
    /\ here = Pm
    /\ username \in [Pm -> Name \ Others]
    /\ \A u, v \in Pm : username[u] = username[v] => u = v
    /\ inactivity \in [Pm -> {"null", "active", "inactive"}]
    /\ voteinfo = [p \in ProposalId |-> NoProposal]
    /\ votes = [p \in ProposalId |-> [u \in Pm |-> 0]]
    /\ now = 0 /\ lastRun = 0
    /\ job = [w \in Worker |-> IdleJob]
    /\ remind = {}
    /\ reminded = [p \in ProposalId |-> {}]
    /\ about = [p \in ProposalId |-> {}]

-----------------------------------------------------------------------------
(* What the rows say. *)

\* VoteInfo.is_running
IsRunning(p) == voteinfo[p].End > now

\* VoteInfo.total_votes
TotalVotes(p) == MapThenSumSet(LAMBDA d : voteinfo[p].tally[d], Decision)

\* render_proposal: a majority of the active users, or a quorum of them and
\* more Yes than No.
Accepted(p) ==
    LET v == voteinfo[p]
    IN  \/ 2 * v.tally["Yes"] > v.ActiveUsers
        \/ /\ v.ActiveUsers # 0
           /\ 100 * TotalVotes(p) > Quorum[v.type] * v.ActiveUsers
           /\ v.tally["Yes"] > v.tally["No"]

\* An account that can have a session and the credential PM_VOTE.
CanAct(u) == u \in here \ Suspended

Idle(w) == job[w].pc = "idle"

End(w) == job' = [job EXCEPT ![w] = IdleJob]

-----------------------------------------------------------------------------
(* package_maintainer_proposal_post *)

MayVote_Bug(u, p) == username[u] # voteinfo[p].User \* one may vote again

MayVote(u, p) ==
    /\ username[u] # voteinfo[p].User
    /\ votes[p][u] = 0

\* The proposal is read, with its counters, and no one looks at its End.
BallotStart(w, u, p, d) ==
    /\ "vote" \in Ops
    /\ Idle(w) /\ CanAct(u) /\ p \in Proposals /\ MayVote(u, p)
    /\ job' = [job EXCEPT ![w] =
                 [IdleJob EXCEPT !.pc = "ballot", !.user = u, !.proposal = p,
                                 !.decision = d, !.seen = voteinfo[p].tally[d]]]
    /\ UNCHANGED <<accounts, voteinfo, votes, now, cron, about>>

\* The counter is written as what was read, plus one.  A row that is gone is
\* an exception.
Ballot(w) ==
    LET j == job[w]
    IN  /\ j.pc = "ballot"
        /\ IF j.proposal \in Proposals /\ j.user \in here
           THEN /\ voteinfo' = [voteinfo EXCEPT ![j.proposal].tally[j.decision] =
                                  j.seen + 1]
                /\ votes' = [votes EXCEPT ![j.proposal][j.user] = @ + 1]
           ELSE UNCHANGED <<voteinfo, votes>>
        /\ End(w)
        /\ UNCHANGED <<accounts, now, cron, about>>

-----------------------------------------------------------------------------
(* package_maintainer_addvote_post *)

Running(name) == {p \in Proposals : voteinfo[p].User = name /\ IsRunning(p)}

MayPropose_Bug(type, name) == \* only proposals of the same type are counted
    \/ type = "bylaws"
    \/ /\ name \in Others \cup {username[u] : u \in here}
       /\ \A p \in Running(name) : voteinfo[p].type # type

\* No check for "bylaws": the form may name anyone with it.
MayPropose(type, name) ==
    \/ type = "bylaws"
    \/ /\ name \in Others \cup {username[u] : u \in here}
       /\ Running(name) = {}

ProposeStart(w, u, type, name) ==
    /\ "propose" \in Ops
    /\ Idle(w) /\ CanAct(u) /\ MayPropose(type, name)
    /\ job' = [job EXCEPT ![w] =
                 [IdleJob EXCEPT !.pc = "propose", !.user = u, !.type = type,
                                 !.name = name, !.end = now + Duration[type]]]
    /\ UNCHANGED <<accounts, voteinfo, votes, now, cron, about>>

\* The "active_pms" counted in the transaction: InactivityTS IS NOT NULL.
CountedActive == {u \in here \ Suspended : inactivity[u] # "null"}

Propose(w) ==
    LET j == job[w]
    IN  /\ j.pc = "propose"
        /\ \/ j.user \in here
              /\ \E p \in ProposalId :
                   /\ voteinfo[p] = NoProposal
                   /\ \A q \in ProposalId : q < p => voteinfo[q] # NoProposal
                   /\ voteinfo' = [voteinfo EXCEPT ![p] =
                        [type |-> j.type, User |-> j.name, Submitter |-> j.user,
                         End |-> j.end, tally |-> [d \in Decision |-> 0],
                         ActiveUsers |-> Cardinality(CountedActive)]]
                   /\ about' = [about EXCEPT ![p] = {u \in Pm : username[u] = j.name}]
           \/ j.user \notin here /\ UNCHANGED <<voteinfo, about>>
        /\ End(w)
        /\ UNCHANGED <<accounts, votes, now, cron>>

-----------------------------------------------------------------------------
(* Accounts: the owner changes the username, or the account is deleted, with *)
(* its rows in Votes and the proposals it has submitted.                     *)

Rename(u, name) ==
    /\ "rename" \in Ops
    /\ CanAct(u) /\ name \notin Others
    /\ \A v \in Pm : username[v] # name
    /\ username' = [username EXCEPT ![u] = name]
    /\ UNCHANGED <<here, inactivity, voteinfo, votes, now, job, cron, about>>

DeleteAccount(u) ==
    LET gone == {p \in Proposals : voteinfo[p].Submitter = u}
    IN  /\ "leave" \in Ops
        /\ u \in here
        /\ here' = here \ {u}
        /\ voteinfo' = [p \in ProposalId |-> IF p \in gone THEN Removed ELSE voteinfo[p]]
        /\ votes' = [p \in ProposalId |->
                       [v \in Pm |-> IF p \in gone \/ v = u THEN 0 ELSE votes[p][v]]]
        /\ UNCHANGED <<username, inactivity, now, job, cron, about>>

-----------------------------------------------------------------------------
(* aurweb-votereminder *)

DueForReminder_Bug(p) == voteinfo[p].End = now + RangeEnd \* the first day only

DueForReminder(p) ==
    /\ now + RangeStart <= voteinfo[p].End
    /\ voteinfo[p].End <= now + RangeEnd

RemindRead ==
    /\ "remind" \in Ops
    /\ remind = {} /\ lastRun < now
    /\ lastRun' = now
    /\ remind' = {p \in Proposals : DueForReminder(p)}
    /\ UNCHANGED <<accounts, voteinfo, votes, now, job, reminded, about>>

\* VoteReminderNotification: every Package Maintainer without a row in Votes.
Recipients(p) == {u \in here \ Suspended : votes[p][u] = 0}

Remind(p) ==
    /\ p \in remind
    /\ remind' = remind \ {p}
    /\ reminded' = [reminded EXCEPT ![p] = @ \cup Recipients(p)]
    /\ UNCHANGED <<accounts, voteinfo, votes, now, job, lastRun, about>>

\* Cron runs at least every Gap.  A tick is hours: handlers and the run of
\* cron are over before the next one.
Tick ==
    /\ now < MaxTime
    /\ \A w \in Worker : Idle(w)
    /\ "remind" \in Ops => remind = {} /\ now + 1 <= lastRun + Gap
    /\ now' = now + 1
    /\ UNCHANGED <<accounts, voteinfo, votes, job, cron, about>>

Crash(w) ==
    /\ "crash" \in Faults /\ ~Idle(w)
    /\ End(w)
    /\ UNCHANGED <<accounts, voteinfo, votes, now, cron, about>>

Next ==
    \/ \E w \in Worker :
         \/ Ballot(w) \/ Propose(w) \/ Crash(w)
         \/ \E u \in Pm :
              \/ \E p \in ProposalId, d \in Decision : BallotStart(w, u, p, d)
              \/ \E t \in ProposalType, n \in Name : ProposeStart(w, u, t, n)
    \/ \E u \in Pm : DeleteAccount(u) \/ \E n \in Name : Rename(u, n)
    \/ RemindRead \/ Tick
    \/ \E p \in ProposalId : Remind(p)

Spec == Init /\ [][Next]_vars

-----------------------------------------------------------------------------
(* Properties. *)

E == INSTANCE Election WITH
       Elector  <- Pm, Proposal <- ProposalId,
       electors <- here,
       cast     <- [p \in ProposalId |-> {u \in Pm : votes[p][u] # 0}],
       tally    <- [p \in ProposalId |->
                      IF p \in Proposals THEN voteinfo[p].tally
                      ELSE [d \in Decision |-> 0]]

\* Every ballot is counted, once, and nobody casts two: the handlers, with
\* their counter read before and written after, implement Election as long
\* as one works at a time.
ElectionSpec == E!Spec

\* The running proposals that name an account, of the types that the check for
\* running proposals is made for.
RunningAbout(name) == {p \in Running(name) : voteinfo[p].type # "bylaws"}

\* However proposals of all types are submitted at once, the check, which is
\* made before the transaction that inserts (addvote_post), lets no more of them
\* run about one username than there are workers; in particular no more than
\* one if forms are handled one after the other.
RunningAreBounded == \A name \in Name : Cardinality(RunningAbout(name)) <= Cardinality(Worker)

\* A username has one running proposal at most ("already has proposal running
\* for them", addvote_post): what the check promises, and keeps while forms are
\* handled one after the other.
OneRunningProposal ==
    \A p, q \in Proposals :
      p # q /\ IsRunning(p) /\ IsRunning(q) /\ voteinfo[p].User = voteinfo[q].User
      => "bylaws" \in {voteinfo[p].type, voteinfo[q].type}

\* When voting is over, every Package Maintainer who can vote has voted or
\* has had a reminder, although votereminder only looks at a window of time
\* from cron runs that may be Gap apart.
EveryoneIsReminded ==
    \A p \in Proposals : voteinfo[p].End < now =>
      \A u \in here \ Suspended : u \in reminded[p] \/ votes[p][u] # 0

\* The outcome that the page shows after the end of the vote is final.
OutcomeIsFinal ==
    [][\A p \in Proposals :
         ~IsRunning(p) /\ p \in Proposals' => Accepted(p)' = Accepted(p)]_vars

\* Nobody has a ballot on a proposal that was about them: the username that
\* the proposal names is compared with the one the voter has now.
NobodyVotesAboutThemselves ==
    \A p \in Proposals : \A u \in about[p] : votes[p][u] = 0

\* ActiveUsers of a new proposal is the number of Package Maintainers who
\* are active, as the page that lists the proposals counts them.
ActiveUsersAreActive ==
    [][\A p \in Proposals' \ Proposals :
         voteinfo'[p].ActiveUsers =
           Cardinality({u \in here : inactivity[u] \in {"null", "active"}})]_vars
=============================================================================
