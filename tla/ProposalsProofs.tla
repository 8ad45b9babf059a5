--------------------------- MODULE ProposalsProofs ---------------------------
(***************************************************************************)
(* Proofs about Proposals: its variables keep their types, everybody is    *)
(* reminded in time whatever runs at the same time, no more proposals run  *)
(* about one username than there are workers, and with one worker it       *)
(* implements Election and a username has one running proposal at most.    *)
(***************************************************************************)
EXTENDS Proposals, FiniteSetTheorems, TLAPS

\* The parts of TypeOK.
AccountsType ==
    /\ here \subseteq Pm
    /\ username \in [Pm -> Name \ Others]
    /\ inactivity \in [Pm -> {"null", "active", "inactive"}]
RowsType ==
    /\ voteinfo \in [ProposalId -> VoteInfo \cup {NoProposal, Removed}]
    /\ votes \in [ProposalId -> [Pm -> Nat]]
    /\ \A p \in ProposalId, u \in Pm :
         votes[p][u] # 0 => p \in Proposals /\ u \in here
JobType == job \in [Worker -> [pc : {"idle", "ballot", "propose"}, user : Pm \cup {Nobody},
                           proposal : ProposalId \cup {0}, seen : Nat,
                           decision : Decision, type : ProposalType,
                           name : Name \cup {Nobody}, end : Nat]]
OtherType ==
    /\ now \in Time /\ lastRun \in 0..now
    /\ remind \subseteq ProposalId
    /\ reminded \in [ProposalId -> SUBSET Pm]
    /\ about \in [ProposalId -> SUBSET Pm]

\* A handler that is at work knows whom and what it works for.
BusyType == \A w \in Worker :
    /\ job[w].pc # "idle" => job[w].user \in Pm
    /\ job[w].pc = "ballot" => job[w].proposal \in ProposalId
    /\ job[w].pc = "propose" => job[w].name \in Name

\* What every step keeps.
IType == AccountsType /\ RowsType /\ JobType /\ OtherType /\ BusyType

LEMMA ITypeGivesType == IType => TypeOK
  BY DEF IType, TypeOK, AccountsType, RowsType, JobType, OtherType

\* An idle worker's job.
LEMMA IdleJobType == IdleJob \in [pc : {"idle", "ballot", "propose"}, user : Pm \cup {Nobody},
                           proposal : ProposalId \cup {0}, seen : Nat,
                           decision : Decision, type : ProposalType,
                           name : Name \cup {Nobody}, end : Nat]
  BY TypesAssumption DEF IdleJob, Decision

LEMMA EndKeeps ==
  ASSUME JobType, BusyType, NEW w \in Worker, End(w)
  PROVE  JobType' /\ BusyType'
<1>1. JobType'
  BY IdleJobType DEF JobType, End
<1>2. \A v \in Worker : job'[v] = job[v] \/ job'[v] = IdleJob
  BY DEF JobType, End
<1>3. BusyType'
  BY <1>2 DEF BusyType, IdleJob
<1> QED BY <1>1, <1>3

LEMMA InitType == Init => IType
<1> SUFFICES ASSUME Init PROVE IType
  OBVIOUS
<1>1. AccountsType
  BY DEF Init, AccountsType
<1>2. RowsType
  BY DEF Init, RowsType
<1>3. JobType
  BY IdleJobType DEF Init, JobType
<1>4. OtherType
  BY WindowAssumption DEF Init, OtherType, Time
<1>5. BusyType
  BY DEF Init, BusyType, IdleJob
<1> QED BY <1>1, <1>2, <1>3, <1>4, <1>5 DEF IType

LEMMA BallotStartType ==
  ASSUME IType, NEW w \in Worker, NEW u \in Pm, NEW p \in ProposalId, NEW d \in Decision,
         BallotStart(w, u, p, d)
  PROVE  IType'
<1> USE DEF IType
<1>1. voteinfo[p] \in VoteInfo
  BY DEF BallotStart, Proposals, RowsType
<1>2. voteinfo[p].tally[d] \in Nat
  BY <1>1 DEF VoteInfo
<1> DEFINE j == [IdleJob EXCEPT !.pc = "ballot", !.user = u, !.proposal = p,
                                !.decision = d, !.seen = voteinfo[p].tally[d]]
<1>3. JobType'
  BY <1>2, IdleJobType DEF BallotStart, JobType, IdleJob
<1>4. BusyType'
  BY DEF BallotStart, BusyType, JobType, IdleJob
<1>5. AccountsType' /\ RowsType' /\ OtherType'
  BY DEF BallotStart, AccountsType, RowsType, OtherType, accounts, cron, Proposals
<1> QED BY <1>3, <1>4, <1>5

LEMMA BallotType ==
  ASSUME IType, NEW w \in Worker, Ballot(w)
  PROVE  IType'
<1> USE DEF IType
<1>1. JobType' /\ BusyType'
  BY EndKeeps DEF Ballot
<1>2. AccountsType' /\ OtherType'
  BY DEF Ballot, AccountsType, OtherType, accounts, cron
<1>3. RowsType'
  <2>1. CASE job[w].proposal \in Proposals /\ job[w].user \in here
    <3> DEFINE p == job[w].proposal
               u == job[w].user
               d == job[w].decision
    <3>1. p \in ProposalId /\ u \in Pm /\ d \in Decision /\ job[w].seen \in Nat
      BY <2>1 DEF Proposals, AccountsType, JobType
    <3>2. voteinfo[p] \in VoteInfo
      BY <2>1 DEF Proposals, RowsType
    <3>3. voteinfo' = [voteinfo EXCEPT ![p] = [voteinfo[p] EXCEPT !.tally = [voteinfo[p].tally EXCEPT ![d] = job[w].seen + 1]]]
      BY <2>1 DEF Ballot
    <3>4. [voteinfo[p] EXCEPT !.tally = [voteinfo[p].tally EXCEPT ![d] = job[w].seen + 1]] \in VoteInfo
      BY <3>1, <3>2 DEF VoteInfo
    <3>5. voteinfo' \in [ProposalId -> VoteInfo \cup {NoProposal, Removed}]
      BY <3>3, <3>4 DEF RowsType
    <3>6. votes' = [votes EXCEPT ![p] = [votes[p] EXCEPT ![u] = votes[p][u] + 1]]
      BY <2>1 DEF Ballot
    <3>7. votes' \in [ProposalId -> [Pm -> Nat]]
      BY <3>1, <3>6 DEF RowsType
    <3>8. Proposals' = Proposals
      BY <3>2, <3>3, <3>4, NoProposalAssumption DEF RowsType, Proposals
    <3>9. \A q \in ProposalId, v \in Pm : votes'[q][v] # 0 => q \in Proposals' /\ v \in here'
      BY <2>1, <3>1, <3>6, <3>8 DEF RowsType, Ballot, accounts
    <3> QED BY <3>5, <3>7, <3>9 DEF RowsType
  <2>2. CASE ~ (job[w].proposal \in Proposals /\ job[w].user \in here)
    BY <2>2 DEF Ballot, RowsType, accounts, Proposals
  <2> QED BY <2>1, <2>2
<1> QED BY <1>1, <1>2, <1>3

LEMMA ProposeStartType ==
  ASSUME IType, NEW w \in Worker, NEW u \in Pm, NEW t \in ProposalType, NEW n \in Name,
         ProposeStart(w, u, t, n)
  PROVE  IType'
<1> USE DEF IType
<1>1. now + Duration[t] \in Nat
  BY TypesAssumption, WindowAssumption DEF OtherType, Time
<1>2. JobType'
  BY <1>1, IdleJobType DEF ProposeStart, JobType, IdleJob
<1>3. BusyType'
  BY DEF ProposeStart, BusyType, JobType, IdleJob
<1>4. AccountsType' /\ RowsType' /\ OtherType'
  BY DEF ProposeStart, AccountsType, RowsType, OtherType, accounts, cron, Proposals
<1> QED BY <1>2, <1>3, <1>4

LEMMA ProposeType ==
  ASSUME IType, NEW w \in Worker, Propose(w)
  PROVE  IType'
<1> USE DEF IType
<1>1. JobType' /\ BusyType'
  BY EndKeeps DEF Propose
<1>2. AccountsType'
  BY DEF Propose, AccountsType, accounts
<1>3. RowsType' /\ OtherType'
  <2>1. CASE voteinfo' = voteinfo /\ about' = about
    BY <2>1 DEF Propose, RowsType, OtherType, accounts, cron, Proposals
  <2>2. CASE ~ (voteinfo' = voteinfo /\ about' = about)
    <3> DEFINE row == [type |-> job[w].type, User |-> job[w].name, Submitter |-> job[w].user,
                       End |-> job[w].end, tally |-> [d \in Decision |-> 0],
                       ActiveUsers |-> Cardinality(CountedActive)]
    <3>1. PICK p \in ProposalId :
            /\ voteinfo[p] = NoProposal
            /\ voteinfo' = [voteinfo EXCEPT ![p] = row]
            /\ about' = [about EXCEPT ![p] = {u \in Pm : username[u] = job[w].name}]
      BY <2>2 DEF Propose
    <3>2. Cardinality(CountedActive) \in Nat
      <4>1. CountedActive \subseteq Pm
        BY DEF CountedActive, AccountsType
      <4> QED BY <4>1, SuspendedAssumption, FS_Subset, FS_CardinalityType
    <3>3. row \in VoteInfo
      BY <3>2 DEF VoteInfo, Propose, BusyType, JobType
    <3>4. voteinfo' \in [ProposalId -> VoteInfo \cup {NoProposal, Removed}]
      BY <3>1, <3>3 DEF RowsType
    <3>5. Proposals \subseteq Proposals'
      BY <3>1, <3>3, NoProposalAssumption DEF RowsType, Proposals
    <3>6. RowsType'
      BY <3>4, <3>5 DEF RowsType, Propose, accounts
    <3>7. OtherType'
      BY <3>1 DEF OtherType, Propose, cron
    <3> QED BY <3>6, <3>7
  <2> QED BY <2>1, <2>2
<1> QED BY <1>1, <1>2, <1>3

LEMMA AccountStepType ==
  ASSUME IType, NEW u \in Pm, DeleteAccount(u) \/ \E n \in Name : Rename(u, n)
  PROVE  IType'
<1> USE DEF IType
<1>1. CASE DeleteAccount(u)
  <2>1. AccountsType' /\ JobType' /\ BusyType' /\ OtherType'
    BY <1>1 DEF DeleteAccount, AccountsType, JobType, BusyType, OtherType, cron
  <2> DEFINE gone == {p \in Proposals : voteinfo[p].Submitter = u}
  <2>2. /\ voteinfo' = [p \in ProposalId |-> IF p \in gone THEN Removed ELSE voteinfo[p]]
        /\ votes' = [p \in ProposalId |->
                       [v \in Pm |-> IF p \in gone \/ v = u THEN 0 ELSE votes[p][v]]]
        /\ here' = here \ {u}
    BY <1>1 DEF DeleteAccount
  <2>3. \A p \in ProposalId : p \in Proposals /\ p \notin gone => p \in Proposals'
    BY <2>2 DEF Proposals
  <2>4. \A p \in ProposalId, v \in Pm : votes'[p][v] # 0 => votes[p][v] # 0 /\ p \notin gone /\ v # u
    BY <2>2 DEF RowsType
  <2>5. RowsType'
    BY <2>2, <2>3, <2>4 DEF RowsType
  <2> QED BY <2>1, <2>5
<1>2. ASSUME NEW n \in Name, Rename(u, n)
      PROVE  IType'
  <2>1. n \in Name \ Others
    BY <1>2 DEF Rename
  <2>2. AccountsType'
    BY <1>2, <2>1 DEF Rename, AccountsType
  <2>3. RowsType'
    BY <1>2 DEF Rename, RowsType, Proposals
  <2>4. JobType' /\ BusyType' /\ OtherType'
    BY <1>2 DEF Rename, JobType, BusyType, OtherType, cron
  <2> QED BY <2>2, <2>3, <2>4
<1> QED BY <1>1, <1>2

LEMMA CronStepType ==
  ASSUME IType, RemindRead \/ Tick \/ \E p \in ProposalId : Remind(p)
  PROVE  IType'
<1> USE DEF IType
<1>1. AccountsType' /\ RowsType' /\ JobType' /\ BusyType'
  BY DEF RemindRead, Tick, Remind, accounts, AccountsType, RowsType, JobType, BusyType, Proposals
<1>2. CASE RemindRead
  BY <1>1, <1>2, WindowAssumption DEF RemindRead, OtherType, Time, Proposals
<1>3. CASE Tick
  BY <1>1, <1>3, WindowAssumption DEF Tick, OtherType, Time, cron
<1>4. ASSUME NEW p \in ProposalId, Remind(p)
      PROVE  OtherType'
  <2>1. Recipients(p) \subseteq Pm
    BY DEF Recipients, AccountsType
  <2> QED BY <1>4, <2>1 DEF Remind, OtherType
<1> QED BY <1>1, <1>2, <1>3, <1>4

LEMMA CrashType ==
  ASSUME IType, NEW w \in Worker, Crash(w)
  PROVE  IType'
<1> USE DEF IType
<1>1. JobType' /\ BusyType'
  BY EndKeeps DEF Crash
<1>2. AccountsType' /\ RowsType' /\ OtherType'
  BY DEF Crash, AccountsType, RowsType, OtherType, accounts, cron, Proposals
<1> QED BY <1>1, <1>2

LEMMA StutterType ==
  ASSUME IType, UNCHANGED vars
  PROVE  IType'
BY DEF IType, AccountsType, RowsType, JobType, OtherType, BusyType, vars, accounts, cron, Proposals

LEMMA StepType == IType /\ [Next]_vars => IType'
<1> SUFFICES ASSUME IType, [Next]_vars PROVE IType'
  OBVIOUS
<1>1. ASSUME NEW w \in Worker, Ballot(w) \/ Propose(w) \/ Crash(w)
      PROVE  IType'
  BY <1>1, BallotType, ProposeType, CrashType
<1>2. ASSUME NEW w \in Worker, NEW u \in Pm, NEW p \in ProposalId, NEW d \in Decision,
             BallotStart(w, u, p, d)
      PROVE  IType'
  BY <1>2, BallotStartType
<1>3. ASSUME NEW w \in Worker, NEW u \in Pm, NEW t \in ProposalType, NEW n \in Name,
             ProposeStart(w, u, t, n)
      PROVE  IType'
  BY <1>3, ProposeStartType
<1>4. ASSUME NEW u \in Pm, DeleteAccount(u) \/ \E n \in Name : Rename(u, n)
      PROVE  IType'
  BY <1>4, AccountStepType
<1>5. CASE RemindRead \/ Tick \/ \E p \in ProposalId : Remind(p)
  BY <1>5, CronStepType
<1>6. CASE UNCHANGED vars
  BY <1>6, StutterType
<1> QED BY <1>1, <1>2, <1>3, <1>4, <1>5, <1>6 DEF Next

\* The rows of proposals and ballots, the jobs of the handlers and the state of
\* the cron job keep their types, and a ballot belongs to a proposal and to an
\* account that exist (VoteInfo and Votes).
THEOREM TypeCorrect == Spec => []TypeOK
<1>1. Init => IType
  BY InitType
<1>2. IType /\ [Next]_vars => IType'
  BY StepType
<1>3. IType => TypeOK
  BY ITypeGivesType
<1> QED BY <1>1, <1>2, <1>3, PTL DEF Spec

-----------------------------------------------------------------------------
(* Proposals implements Election while one handler works at a time: what it *)
(* has read of a proposal is still so when it writes.                       *)

Counted == [p \in ProposalId |-> {u \in Pm : votes[p][u] # 0}]
Tallies == [p \in ProposalId |-> IF p \in Proposals THEN voteinfo[p].tally ELSE [d \in Decision |-> 0]]

ReadIsRight == \A w \in Worker : job[w].pc = "ballot" /\ job[w].proposal \in Proposals =>
    /\ job[w].seen = voteinfo[job[w].proposal].tally[job[w].decision]
    /\ votes[job[w].proposal][job[w].user] = 0

LEMMA StepReads ==
  ASSUME \A v, w \in Worker : v = w, IType, ReadIsRight, [Next]_vars
  PROVE  ReadIsRight'
<1> USE DEF IType
<1>1. ASSUME NEW w \in Worker, End(w)
      PROVE  ReadIsRight'
  <2>1. \A v \in Worker : job'[v].pc = "idle"
    BY <1>1 DEF End, IdleJob, JobType
  <2> QED BY <2>1 DEF ReadIsRight
<1>2. ASSUME NEW w \in Worker, NEW u \in Pm, NEW p \in ProposalId, NEW d \in Decision,
             BallotStart(w, u, p, d)
      PROVE  ReadIsRight'
  <2>1. /\ voteinfo' = voteinfo /\ votes' = votes /\ Proposals' = Proposals
        /\ votes[p][u] = 0
    BY <1>2 DEF BallotStart, MayVote, Proposals
  <2>2. /\ job'[w].proposal = p /\ job'[w].user = u /\ job'[w].decision = d
        /\ job'[w].seen = voteinfo[p].tally[d]
    BY <1>2 DEF BallotStart, JobType, IdleJob
  <2> QED BY <2>1, <2>2 DEF ReadIsRight
<1>3. ASSUME NEW w \in Worker, NEW u \in Pm, NEW t \in ProposalType, NEW n \in Name,
             ProposeStart(w, u, t, n)
      PROVE  ReadIsRight'
  <2>1. \A v \in Worker : job'[v].pc = "propose"
    BY <1>3 DEF ProposeStart, IdleJob, JobType
  <2> QED BY <2>1 DEF ReadIsRight
<1>4. ASSUME NEW u \in Pm, DeleteAccount(u)
      PROVE  ReadIsRight'
  <2>1. \A p \in Proposals' : p \in Proposals /\ voteinfo'[p] = voteinfo[p]
    BY <1>4 DEF DeleteAccount, Proposals
  <2>2. \A p \in ProposalId, v \in Pm : votes[p][v] = 0 => votes'[p][v] = 0
    BY <1>4 DEF DeleteAccount
  <2>3. job' = job
    BY <1>4 DEF DeleteAccount
  <2> QED BY <2>1, <2>2, <2>3 DEF ReadIsRight, BusyType
<1>5. CASE UNCHANGED <<voteinfo, votes, job>>
  BY <1>5 DEF ReadIsRight, Proposals
<1> QED
  BY <1>1, <1>2, <1>3, <1>4, <1>5
  DEF Next, vars, Ballot, Propose, Crash, Rename, RemindRead, Tick, Remind, accounts, cron

LEMMA Unseen ==
  ASSUME here' = here, Counted' = Counted, Tallies' = Tallies
  PROVE  UNCHANGED E!vars
BY DEF E!vars, Counted, Tallies

LEMMA InitImplements == Init => E!Init
<1> SUFFICES ASSUME Init PROVE E!Init
  OBVIOUS
<1>1. Counted = [p \in ProposalId |-> {}]
  BY DEF Init, Counted
<1>2. Tallies = [p \in ProposalId |-> [d \in Decision |-> 0]]
  BY DEF Init, Tallies, Proposals
<1> QED BY <1>1, <1>2 DEF Init, E!Init, E!NoBallots, Counted, Tallies

LEMMA BallotImplements ==
  ASSUME IType, ReadIsRight, NEW w \in Worker, Ballot(w)
  PROVE  E!Next \/ UNCHANGED E!vars
<1> USE DEF IType
<1>1. CASE job[w].proposal \in Proposals /\ job[w].user \in here
  <2>1. PICK p \in ProposalId, u \in Pm, d \in Decision :
          p = job[w].proposal /\ u = job[w].user /\ d = job[w].decision
    BY <1>1 DEF Proposals, AccountsType, JobType
  <2>2. voteinfo[p] \in VoteInfo
    BY <1>1, <2>1 DEF Proposals, RowsType
  <2>3. job[w].seen = voteinfo[p].tally[d] /\ votes[p][u] = 0
    BY <1>1, <2>1 DEF Ballot, ReadIsRight
  <2> DEFINE row == [voteinfo[p] EXCEPT !.tally = [voteinfo[p].tally EXCEPT ![d] = voteinfo[p].tally[d] + 1]]
  <2>4. voteinfo' = [voteinfo EXCEPT ![p] = row]
    BY <1>1, <2>1, <2>3 DEF Ballot
  <2>5. row \in VoteInfo /\ row.tally = [voteinfo[p].tally EXCEPT ![d] = voteinfo[p].tally[d] + 1]
    BY <2>1, <2>2 DEF VoteInfo
  <2>6. Proposals' = Proposals
    BY <1>1, <2>1, <2>4, <2>5, NoProposalAssumption DEF RowsType, Proposals
  <2>7. Tallies' = [Tallies EXCEPT ![p] = [Tallies[p] EXCEPT ![d] = Tallies[p][d] + 1]]
    BY <1>1, <2>1, <2>4, <2>5, <2>6 DEF Tallies, RowsType
  <2>8. votes' = [votes EXCEPT ![p] = [votes[p] EXCEPT ![u] = 1]]
    BY <1>1, <2>1, <2>3 DEF Ballot
  <2>9. Counted' = [Counted EXCEPT ![p] = Counted[p] \cup {u}]
    <3>1. \A q \in ProposalId, v \in Pm :
            votes'[q][v] # 0 <=> votes[q][v] # 0 \/ (q = p /\ v = u)
      BY <2>1, <2>8 DEF RowsType
    <3>2. Counted' = [q \in ProposalId |-> {v \in Pm : votes'[q][v] # 0}]
      BY DEF Counted
    <3>3. ASSUME NEW q \in ProposalId
          PROVE  {v \in Pm : votes'[q][v] # 0}
                   = IF q = p THEN Counted[q] \cup {u} ELSE Counted[q]
      BY <2>1, <3>1 DEF Counted
    <3>4. Counted' = [q \in ProposalId |-> IF q = p THEN Counted[q] \cup {u} ELSE Counted[q]]
      BY <3>2, <3>3
    <3> QED BY <2>1, <3>4 DEF Counted
  <2>10. u \in here \ Counted[p] /\ here' = here
    BY <1>1, <2>1, <2>3 DEF Counted, Ballot, accounts
  <2>11. E!Cast(u, p, d)
    BY <2>7, <2>9, <2>10 DEF E!Cast, Counted, Tallies
  <2> QED BY <2>1, <2>11 DEF E!Next
<1>2. CASE ~ (job[w].proposal \in Proposals /\ job[w].user \in here)
  <2>1. here' = here /\ Counted' = Counted /\ Tallies' = Tallies
    BY <1>2 DEF Ballot, accounts, Counted, Tallies, Proposals
  <2> QED BY <2>1, Unseen
<1> QED BY <1>1, <1>2

LEMMA ProposeImplements ==
  ASSUME IType, NEW w \in Worker, Propose(w)
  PROVE  UNCHANGED E!vars
<1> USE DEF IType
<1>1. here' = here /\ Counted' = Counted
  BY DEF Propose, accounts, Counted
<1>2. CASE voteinfo' = voteinfo
  BY <1>1, <1>2, Unseen DEF Tallies, Proposals
<1>3. CASE voteinfo' # voteinfo
  <2> DEFINE row == [type |-> job[w].type, User |-> job[w].name, Submitter |-> job[w].user,
                     End |-> job[w].end, tally |-> [d \in Decision |-> 0],
                     ActiveUsers |-> Cardinality(CountedActive)]
  <2>1. PICK p \in ProposalId :
          voteinfo[p] = NoProposal /\ voteinfo' = [voteinfo EXCEPT ![p] = row]
    BY <1>3 DEF Propose
  <2>2. Tallies' = Tallies
    BY <2>1 DEF Tallies, Proposals, RowsType
  <2> QED BY <1>1, <2>2, Unseen
<1> QED BY <1>2, <1>3

LEMMA DeleteImplements ==
  ASSUME IType, NEW u \in Pm, DeleteAccount(u)
  PROVE  E!Next
<1> USE DEF IType
<1>1. PICK gone \in SUBSET ProposalId : gone = {p \in Proposals : voteinfo[p].Submitter = u}
  BY DEF Proposals
<1>2. /\ u \in here /\ here' = here \ {u}
      /\ voteinfo' = [p \in ProposalId |-> IF p \in gone THEN Removed ELSE voteinfo[p]]
      /\ votes' = [p \in ProposalId |->
                     [v \in Pm |-> IF p \in gone \/ v = u THEN 0 ELSE votes[p][v]]]
  BY <1>1 DEF DeleteAccount
<1>3. Counted' = [p \in ProposalId |-> IF p \in gone THEN {} ELSE Counted[p] \ {u}]
  <2>1. \A p \in ProposalId, v \in Pm :
          votes'[p][v] # 0 <=> votes[p][v] # 0 /\ p \notin gone /\ v # u
    BY <1>2
  <2> QED BY <2>1 DEF Counted
<1>4. \A p \in ProposalId : p \in Proposals' <=> p \in Proposals /\ p \notin gone
  BY <1>2 DEF Proposals
<1>5. Tallies' = [p \in ProposalId |-> IF p \in gone THEN [d \in Decision |-> 0] ELSE Tallies[p]]
  BY <1>2, <1>4 DEF Tallies
<1>6. E!Leave(u, gone)
  BY <1>2, <1>3, <1>5 DEF E!Leave, E!NoBallots, Counted, Tallies
<1> QED BY <1>1, <1>6 DEF E!Next

LEMMA StepImplements ==
  ASSUME IType, ReadIsRight, [Next]_vars
  PROVE  E!Next \/ UNCHANGED E!vars
<1>1. ASSUME NEW w \in Worker, Ballot(w)
      PROVE  E!Next \/ UNCHANGED E!vars
  BY <1>1, BallotImplements
<1>2. ASSUME NEW w \in Worker, Propose(w)
      PROVE  UNCHANGED E!vars
  BY <1>2, ProposeImplements
<1>3. ASSUME NEW u \in Pm, DeleteAccount(u)
      PROVE  E!Next
  BY <1>3, DeleteImplements
<1>4. CASE UNCHANGED <<here, voteinfo, votes>>
  BY <1>4, Unseen DEF Counted, Tallies, Proposals
<1> QED
  BY <1>1, <1>2, <1>3, <1>4
  DEF Next, vars, BallotStart, ProposeStart, Crash, Rename, RemindRead, Tick, Remind, accounts, cron

\* While one handler works at a time every ballot is counted once and nobody
\* casts two, whatever accounts and proposals are deleted meanwhile
\* (package_maintainer_proposal_post).
THEOREM ImplementsElection ==
  ASSUME \A v, w \in Worker : v = w
  PROVE  Spec => ElectionSpec
<1>1. Init => IType /\ ReadIsRight
  <2>1. Init => ReadIsRight
    BY DEF Init, ReadIsRight, IdleJob
  <2> QED BY <2>1, InitType
<1>2. IType /\ ReadIsRight /\ [Next]_vars => IType' /\ ReadIsRight'
  BY StepType, StepReads
<1>3. Init => E!Init
  BY InitImplements
<1>4. IType /\ ReadIsRight /\ [Next]_vars => [E!Next]_(E!vars)
  BY StepImplements
<1> QED BY <1>1, <1>2, <1>3, <1>4, PTL DEF Spec, ElectionSpec, E!Spec

-----------------------------------------------------------------------------
(* What is written in VoteInfo stays, but for the counters. *)

SameVote(p) ==
    /\ voteinfo'[p].type = voteinfo[p].type
    /\ voteinfo'[p].User = voteinfo[p].User
    /\ voteinfo'[p].End = voteinfo[p].End

Submitted(w, p) ==
    /\ Propose(w) /\ p \notin Proposals
    /\ voteinfo'[p].type = job[w].type
    /\ voteinfo'[p].User = job[w].name
    /\ voteinfo'[p].End = job[w].end

LEMMA BallotRows ==
  ASSUME IType, NEW w \in Worker, Ballot(w)
  PROVE  /\ Proposals' = Proposals
         /\ \A p \in Proposals : SameVote(p)
<1> DEFINE p == job[w].proposal
           row == [voteinfo[p] EXCEPT !.tally[job[w].decision] = job[w].seen + 1]
<1>1. CASE p \in Proposals /\ job[w].user \in here
  <2>1. voteinfo \in [ProposalId -> VoteInfo \cup {NoProposal, Removed}] /\ p \in ProposalId
    BY <1>1 DEF IType, RowsType, Proposals
  <2>2. voteinfo[p] \in VoteInfo
    BY <1>1, <2>1 DEF Proposals
  <2>3. /\ row \notin {NoProposal, Removed}
        /\ row.type = voteinfo[p].type /\ row.User = voteinfo[p].User
        /\ row.End = voteinfo[p].End
    <3>1. job[w].seen + 1 \in Nat
      BY DEF IType, JobType
    <3>2. row \in VoteInfo
      BY <2>2, <3>1 DEF VoteInfo
    <3>3. row.type = voteinfo[p].type /\ row.User = voteinfo[p].User /\ row.End = voteinfo[p].End
      BY <2>2 DEF VoteInfo
    <3>4. QED
      BY <3>2, <3>3, NoProposalAssumption
  <2>4. voteinfo' = [voteinfo EXCEPT ![p] = row]
    BY <1>1 DEF Ballot
  <2> HIDE DEF row
  <2>5. QED
    BY <1>1, <2>1, <2>3, <2>4 DEF Proposals, SameVote
<1>2. CASE ~(p \in Proposals /\ job[w].user \in here)
  BY <1>2 DEF Ballot, Proposals, SameVote
<1>3. QED
  BY <1>1, <1>2

LEMMA ProposeRows ==
  ASSUME IType, NEW w \in Worker, Propose(w), NEW p \in Proposals'
  PROVE  (p \in Proposals /\ SameVote(p)) \/ Submitted(w, p)
<1>1. CASE UNCHANGED voteinfo
  BY <1>1 DEF Proposals, SameVote
<1>2. CASE ~UNCHANGED voteinfo
  <2> DEFINE row == [type |-> job[w].type, User |-> job[w].name, Submitter |-> job[w].user,
                     End |-> job[w].end, tally |-> [d \in Decision |-> 0],
                     ActiveUsers |-> Cardinality(CountedActive)]
  <2>1. PICK q \in ProposalId : /\ voteinfo[q] = NoProposal
                                /\ voteinfo' = [voteinfo EXCEPT ![q] = row]
    BY <1>2 DEF Propose
  <2>2. row.type = job[w].type /\ row.User = job[w].name /\ row.End = job[w].end
    OBVIOUS
  <2> HIDE DEF row
  <2>3. p \in ProposalId /\ voteinfo \in [ProposalId -> VoteInfo \cup {NoProposal, Removed}]
    BY DEF Proposals, IType, RowsType
  <2>4. CASE p = q
    BY <2>1, <2>2, <2>3, <2>4 DEF Submitted, Proposals
  <2>5. CASE p # q
    BY <2>1, <2>3, <2>5 DEF Proposals, SameVote
  <2>6. QED
    BY <2>4, <2>5
<1>3. QED
  BY <1>1, <1>2

LEMMA DeleteRows ==
  ASSUME IType, NEW u \in Pm, DeleteAccount(u), NEW p \in Proposals'
  PROVE  /\ p \in Proposals /\ voteinfo'[p] = voteinfo[p] /\ SameVote(p)
         /\ \A v \in Pm \ {u} : votes'[p][v] = votes[p][v]
<1> DEFINE gone == {q \in Proposals : voteinfo[q].Submitter = u}
<1>1. /\ voteinfo' = [q \in ProposalId |-> IF q \in gone THEN Removed ELSE voteinfo[q]]
      /\ votes' = [q \in ProposalId |->
                     [v \in Pm |-> IF q \in gone \/ v = u THEN 0 ELSE votes[q][v]]]
  BY DEF DeleteAccount
<1>2. p \in ProposalId /\ voteinfo'[p] # Removed /\ voteinfo'[p] # NoProposal
  BY DEF Proposals
<1> HIDE DEF gone
<1>3. p \notin gone /\ voteinfo'[p] = voteinfo[p]
  BY <1>1, <1>2
<1>4. QED
  BY <1>1, <1>2, <1>3 DEF Proposals, SameVote

LEMMA RowStep ==
  ASSUME IType, [Next]_vars, NEW p \in Proposals'
  PROVE  (p \in Proposals /\ SameVote(p)) \/ \E w \in Worker : Submitted(w, p)
<1>1. CASE UNCHANGED voteinfo
  BY <1>1 DEF Proposals, SameVote
<1>2. QED
  BY <1>1, BallotRows, ProposeRows, DeleteRows
     DEF Next, vars, BallotStart, ProposeStart, Crash, Rename, RemindRead, Tick, Remind

\* A transaction inserts one row at most.
LEMMA OneRow ==
  ASSUME IType, NEW w \in Worker, Propose(w),
         NEW p \in Proposals' \ Proposals, NEW q \in Proposals' \ Proposals
  PROVE  p = q
<1>1. CASE UNCHANGED voteinfo
  BY <1>1 DEF Proposals
<1>2. CASE ~UNCHANGED voteinfo
  <2> DEFINE row == [type |-> job[w].type, User |-> job[w].name, Submitter |-> job[w].user,
                     End |-> job[w].end, tally |-> [d \in Decision |-> 0],
                     ActiveUsers |-> Cardinality(CountedActive)]
  <2>1. PICK r \in ProposalId : voteinfo' = [voteinfo EXCEPT ![r] = row]
    BY <1>2 DEF Propose
  <2> HIDE DEF row
  <2>2. QED
    BY <2>1 DEF Proposals, IType, RowsType
<1>3. QED
  BY <1>1, <1>2

LEMMA ClockStep ==
  ASSUME IType, [Next]_vars
  PROVE  /\ now \in Nat /\ now' \in Nat /\ now <= now'
         /\ now' # now => Tick
<1>1. now \in Nat
  BY WindowAssumption DEF IType, OtherType, Time
<1>2. CASE Tick
  BY <1>1, <1>2 DEF Tick
<1>3. CASE UNCHANGED now
  BY <1>1, <1>3
<1>4. QED
  BY <1>2, <1>3 DEF Next, vars, Ballot, Propose, BallotStart, ProposeStart, Crash, Rename,
                    DeleteAccount, RemindRead, Tick, Remind

-----------------------------------------------------------------------------
(* No more running proposals for a username than workers. *)

\* The handlers that have made the check for a proposal about n.
Pending(n) == {w \in Worker : job[w].pc = "propose" /\ job[w].name = n /\ job[w].type # "bylaws"}

\* While a proposal about n runs no handler passes the check, so that those to
\* come are of handlers that had passed it before.
Bounded(n) ==
    /\ IsFiniteSet(RunningAbout(n))
    /\ \/ RunningAbout(n) = {}
       \/ Cardinality(RunningAbout(n)) + Cardinality(Pending(n)) <= Cardinality(Worker)

LEMMA StillRunning ==
  ASSUME IType, [Next]_vars, NEW p \in Proposals, p \in Proposals', SameVote(p), IsRunning(p)'
  PROVE  IsRunning(p)
<1>1. voteinfo[p].End \in Nat
  BY NoProposalAssumption DEF IType, RowsType, Proposals, VoteInfo
<1>2. now \in Nat /\ now' \in Nat /\ now <= now' /\ voteinfo'[p].End > now'
  BY ClockStep DEF IsRunning
<1>3. QED
  BY <1>1, <1>2 DEF SameVote, IsRunning

\* A running proposal was running before the step, or it is a handler's that
\* had made the check.
LEMMA RunningBefore ==
  ASSUME IType, [Next]_vars, NEW n \in Name, NEW p \in RunningAbout(n)'
  PROVE  p \in RunningAbout(n) \/ \E w \in Pending(n) : Submitted(w, p)
<1>1. p \in Proposals' /\ voteinfo'[p].User = n /\ voteinfo'[p].type # "bylaws" /\ IsRunning(p)'
  BY DEF RunningAbout, Running
<1>2. CASE p \in Proposals /\ SameVote(p)
  <2>1. IsRunning(p)
    BY <1>1, <1>2, StillRunning
  <2>2. QED
    BY <1>1, <1>2, <2>1 DEF SameVote, RunningAbout, Running
<1>3. ASSUME NEW w \in Worker, Submitted(w, p)
      PROVE  w \in Pending(n)
  BY <1>1, <1>3 DEF Submitted, Propose, Pending
<1>4. QED
  BY <1>1, <1>2, <1>3, RowStep

\* The handlers that have made the check are those of before, but for one that
\* makes it now and found no proposal.
LEMMA PendingBefore ==
  ASSUME IType, [Next]_vars, NEW n \in Name
  PROVE  Pending(n)' \subseteq Pending(n) \/ RunningAbout(n)' = {}
<1> USE DEF IType
<1>1. CASE UNCHANGED job
  BY <1>1 DEF Pending
<1>2. ASSUME NEW v \in Worker, End(v)
      PROVE  Pending(n)' \subseteq Pending(n)
  BY <1>2 DEF End, IdleJob, JobType, Pending
<1>3. ASSUME NEW v \in Worker, NEW u \in Pm, NEW q \in ProposalId, NEW d \in Decision,
             BallotStart(v, u, q, d)
      PROVE  Pending(n)' \subseteq Pending(n)
  BY <1>3 DEF BallotStart, IdleJob, JobType, Pending
<1>4. ASSUME NEW v \in Worker, NEW u \in Pm, NEW t \in ProposalType, NEW m \in Name,
             ProposeStart(v, u, t, m)
      PROVE  Pending(n)' \subseteq Pending(n) \/ RunningAbout(n)' = {}
  <2>1. /\ job'[v].type = t /\ job'[v].name = m /\ MayPropose(t, m)
        /\ \A w \in Worker \ {v} : job'[w] = job[w]
    BY <1>4 DEF ProposeStart, IdleJob, JobType
  <2>2. CASE m = n /\ t # "bylaws"
    <3>1. Running(n) = {}
      BY <2>1, <2>2 DEF MayPropose
    <3>2. UNCHANGED <<voteinfo, now>>
      BY <1>4 DEF ProposeStart
    <3>3. QED
      BY <3>1, <3>2 DEF RunningAbout, Running, Proposals, IsRunning
  <2>3. CASE ~ (m = n /\ t # "bylaws")
    BY <2>1, <2>3 DEF Pending
  <2>4. QED
    BY <2>2, <2>3
<1>5. QED
  BY <1>1, <1>2, <1>3, <1>4
     DEF Next, vars, Ballot, Propose, Crash, Rename, DeleteAccount, RemindRead, Tick, Remind

LEMMA StepRunning ==
  ASSUME IsFiniteSet(Worker), IType, [Next]_vars, NEW n \in Name, Bounded(n)
  PROVE  Bounded(n)'
<1> DEFINE R == RunningAbout(n)
           P == Pending(n)
<1>1. /\ IsFiniteSet(R) /\ Cardinality(R) \in Nat
      /\ IsFiniteSet(P) /\ Cardinality(P) \in Nat /\ Cardinality(P) <= Cardinality(Worker)
      /\ Cardinality(Worker) \in Nat
  <2>1. P \in SUBSET Worker
    BY DEF Pending
  <2>2. QED
    BY <2>1, FS_Subset, FS_CardinalityType DEF Bounded
<1>2. CASE R' = {}
  BY <1>2, FS_EmptySet DEF Bounded
<1>3. CASE R' # {} /\ R' \subseteq R
  <2>1. P' \subseteq P
    BY <1>3, PendingBefore
  <2>2. /\ IsFiniteSet(R') /\ Cardinality(R') \in Nat /\ Cardinality(R') <= Cardinality(R)
        /\ Cardinality(P') \in Nat /\ Cardinality(P') <= Cardinality(P)
    BY <1>1, <1>3, <2>1, FS_Subset, FS_CardinalityType
  <2>3. Cardinality(R) + Cardinality(P) <= Cardinality(Worker)
    BY <1>3 DEF Bounded
  <2> HIDE DEF R, P
  <2>4. Cardinality(R') + Cardinality(P') <= Cardinality(Worker)
    BY <1>1, <2>2, <2>3
  <2>5. QED
    BY <2>2, <2>4 DEF Bounded, R, P
<1>4. CASE ~ (R' \subseteq R)
  <2>1. PICK p \in R' \ R : TRUE
    BY <1>4
  <2>2. PICK w \in P : Submitted(w, p)
    BY <2>1, RunningBefore
  <2>3. w \in Worker /\ Propose(w)
    BY <2>2 DEF Submitted, Pending
  <2>4. R' \subseteq R \cup {p}
    <3> SUFFICES ASSUME NEW q \in R', q \notin R PROVE q = p
      OBVIOUS
    <3>1. PICK v \in P : Submitted(v, q)
      BY RunningBefore
    <3>2. p \in Proposals' \ Proposals /\ q \in Proposals' \ Proposals
      BY <2>1, <2>2, <3>1 DEF Submitted, RunningAbout, Running
    <3>3. QED
      BY <2>3, <3>2, OneRow
  <2>5. P' \subseteq P \ {w}
    <3>1. P' \subseteq P
      BY <2>1, PendingBefore
    <3>2. job'[w].pc = "idle"
      BY <2>3 DEF Propose, End, IdleJob, IType, JobType
    <3>3. QED
      BY <3>1, <3>2 DEF Pending
  <2>6. /\ IsFiniteSet(R \cup {p}) /\ Cardinality(R \cup {p}) = Cardinality(R) + 1
        /\ IsFiniteSet(P \ {w}) /\ Cardinality(P \ {w}) = Cardinality(P) - 1
    BY <1>1, <2>1, <2>2, FS_AddElement, FS_RemoveElement
  <2>7. /\ IsFiniteSet(R') /\ Cardinality(R') \in Nat /\ Cardinality(R') <= Cardinality(R) + 1
        /\ Cardinality(P') \in Nat /\ Cardinality(P') <= Cardinality(P) - 1
    BY <2>4, <2>5, <2>6, FS_Subset, FS_CardinalityType
  <2>8. R = {} => Cardinality(R) = 0
    BY FS_EmptySet
  <2>9. R = {} \/ Cardinality(R) + Cardinality(P) <= Cardinality(Worker)
    BY DEF Bounded
  <2> HIDE DEF R, P
  <2>10. Cardinality(R') + Cardinality(P') <= Cardinality(Worker)
    BY <1>1, <2>7, <2>8, <2>9
  <2>11. QED
    BY <2>7, <2>10 DEF Bounded, R, P
<1>5. QED
  BY <1>2, <1>3, <1>4

LEMMA InitRunning ==
  ASSUME Init, NEW n \in Name
  PROVE  Bounded(n)
<1>1. RunningAbout(n) = {}
  BY DEF Init, RunningAbout, Running, Proposals
<1>2. QED
  BY <1>1, FS_EmptySet DEF Bounded

LEMMA BoundedIsFew ==
  ASSUME IsFiniteSet(Worker), NEW n \in Name, Bounded(n)
  PROVE  Cardinality(RunningAbout(n)) <= Cardinality(Worker)
<1>1. /\ Cardinality(RunningAbout(n)) \in Nat /\ Cardinality(Worker) \in Nat
      /\ Cardinality(Pending(n)) \in Nat
  <2>1. Pending(n) \in SUBSET Worker
    BY DEF Pending
  <2>2. QED
    BY <2>1, FS_Subset, FS_CardinalityType DEF Bounded
<1>2. RunningAbout(n) = {} => Cardinality(RunningAbout(n)) = 0
  BY FS_EmptySet
<1>3. QED
  BY <1>1, <1>2 DEF Bounded

\* However many forms are handled at once, no more proposals run about one
\* username than there are workers: the check for a running one and the
\* transaction that inserts are apart (package_maintainer_addvote_post).
THEOREM RunningStayBounded ==
  ASSUME IsFiniteSet(Worker)
  PROVE  Spec => []RunningAreBounded
<1> DEFINE Inv == \A n \in Name : Bounded(n)
<1>1. Init => IType /\ Inv
  BY InitType, InitRunning
<1>2. IType /\ Inv /\ [Next]_vars => IType' /\ Inv'
  BY StepType, StepRunning
<1>3. Inv => RunningAreBounded
  BY BoundedIsFew DEF RunningAreBounded
<1> HIDE DEF Inv
<1>4. QED
  BY <1>1, <1>2, <1>3, PTL DEF Spec

\* While one handler works at a time no username has two proposals running,
\* however types are mixed and proposals follow each other; only "bylaws" may
\* name anyone.
THEOREM OneRunning ==
  ASSUME \A v, w \in Worker : v = w
  PROVE  Spec => []OneRunningProposal
<1> DEFINE Inv == \A n \in Name : Bounded(n)
<1>1. IsFiniteSet(Worker) /\ Cardinality(Worker) \in {0, 1}
  <2>1. CASE Worker = {}
    BY <2>1, FS_EmptySet
  <2>2. CASE Worker # {}
    <3>1. PICK w \in Worker : TRUE
      BY <2>2
    <3>2. Worker = {w}
      BY <3>1
    <3>3. QED
      BY <3>2, FS_Singleton
  <2>3. QED
    BY <2>1, <2>2
<1>2. Init => IType /\ Inv
  BY InitType, InitRunning
<1>3. IType /\ Inv /\ [Next]_vars => IType' /\ Inv'
  BY <1>1, StepType, StepRunning
<1>4. IType /\ Inv => OneRunningProposal
  <2> SUFFICES ASSUME IType, Inv, NEW p \in Proposals, NEW q \in Proposals, p # q,
                      IsRunning(p), IsRunning(q), voteinfo[p].User = voteinfo[q].User,
                      voteinfo[p].type # "bylaws", voteinfo[q].type # "bylaws"
               PROVE  FALSE
    BY DEF OneRunningProposal
  <2> DEFINE n == voteinfo[p].User
  <2>1. n \in Name
    BY NoProposalAssumption DEF IType, RowsType, Proposals, VoteInfo
  <2>2. {p, q} \in SUBSET RunningAbout(n)
    BY DEF RunningAbout, Running
  <2> HIDE DEF n
  <2>3. IsFiniteSet(RunningAbout(n)) /\ Cardinality(RunningAbout(n)) <= Cardinality(Worker)
    BY <1>1, <2>1, BoundedIsFew DEF Bounded
  <2>4. Cardinality({p} \cup {q}) = 2
    <3>1. IsFiniteSet({p}) /\ Cardinality({p}) = 1 /\ q \notin {p}
      BY FS_Singleton
    <3>2. Cardinality({p} \cup {q}) = Cardinality({p}) + 1
      BY <3>1, FS_AddElement
    <3>3. QED
      BY <3>1, <3>2
  <2>5. {p, q} = {p} \cup {q} /\ Cardinality({p, q}) <= Cardinality(RunningAbout(n))
    BY <2>2, <2>3, FS_Subset
  <2>6. Cardinality(RunningAbout(n)) \in Nat
    BY <2>3, FS_CardinalityType
  <2>7. QED
    BY <1>1, <2>3, <2>4, <2>5, <2>6
<1> HIDE DEF Inv
<1>5. QED
  BY <1>2, <1>3, <1>4, PTL DEF Spec

-----------------------------------------------------------------------------
(* Reminders.  A proposal is in one of three states: the run of cron has it *)
(* on its list, everybody has been reminded of it or has voted, or the last *)
(* moment of the next run comes before its window closes.                   *)

Covered(p) == \A u \in here \ Suspended : u \in reminded[p] \/ votes[p][u] # 0
NotYet(p)  == lastRun + Gap + RangeStart <= voteinfo[p].End

NoneIsMissed == \A p \in Proposals : p \in remind \/ Covered(p) \/ NotYet(p)

CronIsOnTime ==
    /\ now <= lastRun + Gap
    /\ \A p \in remind : voteinfo[p] # NoProposal /\ (p \in Proposals => now <= voteinfo[p].End)
    /\ \A w \in Worker : job[w].pc = "propose" => now + RangeEnd < job[w].end

\* The numbers that are compared.
LEMMA Times ==
  ASSUME IType
  PROVE  /\ now \in Nat /\ lastRun \in Nat /\ Gap \in Nat /\ RangeStart \in Nat /\ RangeEnd \in Nat
         /\ RangeStart + Gap <= RangeEnd + 1
         /\ \A p \in Proposals : voteinfo[p].End \in Nat
         /\ \A w \in Worker : job[w].end \in Nat
<1>1. \A p \in Proposals : voteinfo[p].End \in Nat
  BY NoProposalAssumption DEF IType, RowsType, Proposals, VoteInfo
<1>2. \A w \in Worker : job[w].end \in Nat
  BY DEF IType, JobType
<1>3. QED
  BY <1>1, <1>2, WindowAssumption DEF IType, OtherType, Time

LEMMA CronStepReminds ==
  ASSUME IType, NoneIsMissed, CronIsOnTime, RemindRead
  PROVE  NoneIsMissed' /\ CronIsOnTime'
<1>1. UNCHANGED <<here, voteinfo, votes, reminded, now, job>> /\ Proposals' = Proposals
  BY DEF RemindRead, Proposals, accounts
<1>2. remind = {} /\ lastRun' = now /\ remind' = {p \in Proposals : DueForReminder(p)}
  BY DEF RemindRead
<1>3. ASSUME NEW p \in Proposals, p \notin remind', ~Covered(p)
      PROVE  NotYet(p)'
  <2>1. lastRun + Gap + RangeStart <= voteinfo[p].End
    BY <1>2, <1>3 DEF NoneIsMissed, NotYet
  <2>2. ~(now + RangeStart <= voteinfo[p].End /\ voteinfo[p].End <= now + RangeEnd)
    BY <1>2, <1>3 DEF DueForReminder
  <2>3. now + Gap + RangeStart <= voteinfo[p].End
    BY <2>1, <2>2, Times DEF CronIsOnTime
  <2>4. QED
    BY <1>1, <1>2, <2>3 DEF NotYet
<1>4. NoneIsMissed'
  BY <1>1, <1>3 DEF NoneIsMissed, Covered
<1>5. CronIsOnTime'
  <2>1. \A p \in remind' : p \in Proposals /\ now <= voteinfo[p].End
    BY <1>2, Times DEF DueForReminder
  <2>2. \A p \in Proposals : voteinfo[p] # NoProposal
    BY DEF Proposals
  <2>3. now <= now + Gap
    BY Times
  <2>4. QED
    BY <1>1, <1>2, <2>1, <2>2, <2>3 DEF CronIsOnTime
<1>6. QED
  BY <1>4, <1>5

LEMMA RemindReminds ==
  ASSUME IType, NoneIsMissed, CronIsOnTime, NEW p \in ProposalId, Remind(p)
  PROVE  NoneIsMissed' /\ CronIsOnTime'
<1>1. UNCHANGED <<here, voteinfo, votes, lastRun, now, job>> /\ Proposals' = Proposals
  BY DEF Remind, Proposals, accounts
<1>2. remind' = remind \ {p} /\ reminded' = [reminded EXCEPT ![p] = @ \cup Recipients(p)]
  BY DEF Remind
<1>3. reminded \in [ProposalId -> SUBSET Pm]
  BY DEF IType, OtherType
<1>4. \A q \in ProposalId : Covered(q) => Covered(q)'
  BY <1>1, <1>2, <1>3 DEF Covered
<1>5. p \in Proposals => Covered(p)'
  BY <1>1, <1>2, <1>3 DEF Covered, Recipients
<1>6. NoneIsMissed'
  BY <1>1, <1>2, <1>4, <1>5 DEF NoneIsMissed, NotYet, Proposals
<1>7. CronIsOnTime'
  BY <1>1, <1>2 DEF CronIsOnTime
<1>8. QED
  BY <1>6, <1>7

LEMMA TickReminds ==
  ASSUME "remind" \in Ops, IType, NoneIsMissed, CronIsOnTime, Tick
  PROVE  NoneIsMissed' /\ CronIsOnTime'
<1>1. /\ UNCHANGED <<here, voteinfo, votes, reminded, lastRun, remind, job>>
      /\ Proposals' = Proposals
  BY DEF Tick, Proposals, accounts, cron
<1>2. remind = {} /\ now' <= lastRun + Gap /\ \A w \in Worker : job[w].pc = "idle"
  BY DEF Tick, Idle
<1>3. NoneIsMissed'
  BY <1>1 DEF NoneIsMissed, NotYet, Covered
<1>4. CronIsOnTime'
  BY <1>1, <1>2 DEF CronIsOnTime
<1>5. QED
  BY <1>3, <1>4

\* The handlers: a proposal is submitted before its window opens, and ballots
\* are taken away only together with the account or with the proposal.
LEMMA HandlerReminds ==
  ASSUME IType, IType', NoneIsMissed, [Next]_vars, UNCHANGED <<cron, now>>, CronIsOnTime,
         \A p \in Proposals', u \in here' :
           /\ u \in here
           /\ p \in Proposals /\ votes[p][u] # 0 => votes'[p][u] # 0
  PROVE  NoneIsMissed'
<1> SUFFICES ASSUME NEW p \in Proposals'
             PROVE  p \in remind' \/ Covered(p)' \/ NotYet(p)'
  BY DEF NoneIsMissed
<1>1. CASE p \in Proposals /\ SameVote(p)
  <2>1. Covered(p) => Covered(p)'
    BY <1>1 DEF Covered, cron
  <2>2. NotYet(p) => NotYet(p)'
    BY <1>1 DEF NotYet, SameVote, cron
  <2>3. QED
    BY <1>1, <2>1, <2>2 DEF NoneIsMissed, cron
<1>2. ASSUME NEW w \in Worker, Submitted(w, p)
      PROVE  NotYet(p)'
  <2>1. now + RangeEnd < job[w].end /\ voteinfo'[p].End = job[w].end
    BY <1>2 DEF Submitted, Propose, CronIsOnTime
  <2>2. lastRun <= now
    BY DEF IType, OtherType, Time
  <2>3. lastRun + Gap + RangeStart <= voteinfo'[p].End
    BY <2>1, <2>2, Times
  <2>4. QED
    BY <2>3 DEF NotYet, cron
<1>3. QED
  BY <1>1, <1>2, RowStep

LEMMA BallotsStay ==
  ASSUME IType, IType', [Next]_vars, NEW p \in Proposals', NEW u \in here'
  PROVE  /\ u \in here
         /\ p \in Proposals /\ votes[p][u] # 0 => votes'[p][u] # 0
<1>1. p \in ProposalId /\ u \in Pm
  BY DEF IType, AccountsType, Proposals
<1>2. CASE UNCHANGED <<here, votes>>
  BY <1>2
<1>3. ASSUME NEW v \in Pm, DeleteAccount(v)
      PROVE  u \in here /\ votes'[p][u] = votes[p][u]
  <2>1. u \in here /\ u # v
    BY <1>3 DEF DeleteAccount
  <2>2. QED
    BY <1>1, <1>3, <2>1, DeleteRows
<1>4. ASSUME NEW w \in Worker, Ballot(w)
      PROVE  u \in here /\ (votes[p][u] # 0 => votes'[p][u] # 0)
  <2>1. here' = here
    BY <1>4 DEF Ballot, accounts
  <2>2. CASE UNCHANGED votes
    BY <2>1, <2>2
  <2>3. CASE ~UNCHANGED votes
    <3> DEFINE q == job[w].proposal
               v == job[w].user
    <3>1. q \in ProposalId /\ v \in Pm
      BY <1>4 DEF Ballot, IType, BusyType
    <3>2. votes' = [votes EXCEPT ![q] = [votes[q] EXCEPT ![v] = votes[q][v] + 1]]
      BY <1>4, <2>3 DEF Ballot
    <3>3. votes \in [ProposalId -> [Pm -> Nat]]
      BY DEF IType, RowsType
    <3> HIDE DEF q, v
    <3>4. votes'[p][u] = votes[p][u] \/ votes'[p][u] = votes[p][u] + 1
      BY <1>1, <3>1, <3>2, <3>3
    <3>5. QED
      BY <1>1, <2>1, <3>3, <3>4
  <2>4. QED
    BY <2>2, <2>3
<1>5. QED
  BY <1>2, <1>3, <1>4
     DEF Next, vars, Propose, BallotStart, ProposeStart, Crash, Rename, RemindRead, Tick, Remind,
         accounts

LEMMA HandlerIsOnTime ==
  ASSUME IType, [Next]_vars, UNCHANGED <<cron, now>>, CronIsOnTime
  PROVE  CronIsOnTime'
<1>1. now' <= lastRun' + Gap
  BY DEF CronIsOnTime, cron
<1>2. ASSUME NEW p \in remind'
      PROVE  voteinfo'[p] # NoProposal /\ (p \in Proposals' => now' <= voteinfo'[p].End)
  <2>1. p \in remind /\ p \in ProposalId
    BY <1>2 DEF IType, OtherType, cron
  <2>2. voteinfo'[p] # NoProposal
    <3>1. CASE UNCHANGED voteinfo
      BY <2>1, <3>1 DEF CronIsOnTime
    <3>2. ASSUME NEW v \in Pm, DeleteAccount(v)
          PROVE  voteinfo'[p] # NoProposal
      <4>1. voteinfo'[p] \in {voteinfo[p], Removed} /\ (voteinfo'[p] = Removed => p \in Proposals \/ voteinfo[p] = Removed)
        BY <2>1, <3>2 DEF DeleteAccount
      <4>2. QED
        BY <2>1, <4>1, NoProposalAssumption DEF CronIsOnTime, Proposals
    <3>3. ASSUME NEW w \in Worker, Ballot(w)
          PROVE  voteinfo'[p] # NoProposal
      <4>1. Proposals' = Proposals
        BY <3>3, BallotRows
      <4>2. CASE p \in Proposals
        BY <4>1, <4>2 DEF Proposals
      <4>3. CASE p \notin Proposals
        <5>1. voteinfo'[p] = voteinfo[p]
          BY <2>1, <3>3, <4>3 DEF Ballot, IType, RowsType
        <5>2. QED
          BY <2>1, <5>1 DEF CronIsOnTime
      <4>4. QED
        BY <4>2, <4>3
    <3>4. ASSUME NEW w \in Worker, Propose(w), ~UNCHANGED voteinfo
          PROVE  voteinfo'[p] # NoProposal
      <4> DEFINE row == [type |-> job[w].type, User |-> job[w].name, Submitter |-> job[w].user,
                         End |-> job[w].end, tally |-> [d \in Decision |-> 0],
                         ActiveUsers |-> Cardinality(CountedActive)]
      <4>1. PICK q \in ProposalId : voteinfo[q] = NoProposal /\ voteinfo' = [voteinfo EXCEPT ![q] = row]
        BY <3>4 DEF Propose
      <4> HIDE DEF row
      <4>2. q # p
        BY <2>1, <4>1, NoProposalAssumption DEF CronIsOnTime, Proposals
      <4>3. QED
        BY <2>1, <4>1, <4>2 DEF CronIsOnTime
    <3>5. QED
      BY <3>1, <3>2, <3>3, <3>4
         DEF Next, vars, BallotStart, ProposeStart, Crash, Rename, RemindRead, Tick, Remind
  <2>3. ASSUME p \in Proposals'
        PROVE  now' <= voteinfo'[p].End
    <3>1. p \in Proposals /\ SameVote(p)
      <4>1. ASSUME NEW w \in Worker, Submitted(w, p)
            PROVE  voteinfo[p] = Removed
        BY <2>1, <4>1 DEF Submitted, CronIsOnTime, Proposals
      <4>2. ASSUME NEW w \in Worker, Submitted(w, p)
            PROVE  FALSE
        <5>1. voteinfo[p] = Removed /\ voteinfo'[p] # Removed /\ Propose(w)
          BY <2>3, <4>1, <4>2 DEF Submitted, Proposals
        <5>2. PICK q \in ProposalId : voteinfo[q] = NoProposal /\ \A r \in ProposalId \ {q} : voteinfo'[r] = voteinfo[r]
          BY <5>1 DEF Propose, IType, RowsType
        <5>3. QED
          BY <2>1, <5>1, <5>2 DEF CronIsOnTime
      <4>3. QED
        BY <2>3, <4>2, RowStep
    <3>2. QED
      BY <2>1, <3>1 DEF CronIsOnTime, SameVote
  <2>4. QED
    BY <2>2, <2>3
<1>3. ASSUME NEW w \in Worker, job'[w].pc = "propose"
      PROVE  now' + RangeEnd < job'[w].end
  <2>1. CASE job'[w] = job[w]
    BY <1>3, <2>1 DEF CronIsOnTime
  <2>2. CASE job'[w] # job[w]
    <3>1. \A v \in Worker : End(v) => job'[w] \in {job[w], IdleJob}
      BY DEF End, IType, JobType
    <3>2. PICK v \in Worker, u \in Pm, t \in ProposalType, n \in Name : ProposeStart(v, u, t, n)
      <4>1. ~UNCHANGED job /\ \A v \in Worker : ~End(v)
        BY <1>3, <2>2, <3>1 DEF IdleJob
      <4>2. \A v \in Worker, u \in Pm, p \in ProposalId, d \in Decision : ~BallotStart(v, u, p, d)
        <5> SUFFICES ASSUME NEW v \in Worker, NEW u \in Pm, NEW p \in ProposalId,
                            NEW d \in Decision, BallotStart(v, u, p, d)
                     PROVE  FALSE
          OBVIOUS
        <5>1. job'[v].pc = "ballot" /\ (w # v => job'[w] = job[w])
          BY DEF BallotStart, IdleJob, IType, JobType
        <5>2. QED
          BY <1>3, <2>2, <5>1
      <4>3. QED
        BY <4>1, <4>2
           DEF Next, vars, Ballot, Propose, Crash, Rename, DeleteAccount, RemindRead, Tick, Remind
    <3>3. job'[w].end = now + Duration[t]
      BY <2>2, <3>2 DEF ProposeStart, IdleJob, IType, JobType
    <3>4. Duration[t] \in Nat /\ RangeEnd < Duration[t]
      BY TypesAssumption, WindowAssumption
    <3>5. QED
      BY <3>3, <3>4, Times
  <2>3. QED
    BY <2>1, <2>2
<1>4. QED
  BY <1>1, <1>2, <1>3 DEF CronIsOnTime

LEMMA StepReminds ==
  ASSUME "remind" \in Ops, IType, IType', NoneIsMissed, CronIsOnTime, [Next]_vars
  PROVE  NoneIsMissed' /\ CronIsOnTime'
<1>1. CASE UNCHANGED <<cron, now>>
  BY <1>1, HandlerReminds, BallotsStay, HandlerIsOnTime
<1>2. CASE ~UNCHANGED <<cron, now>>
  BY <1>2, CronStepReminds, RemindReminds, TickReminds
     DEF Next, vars, Ballot, Propose, BallotStart, ProposeStart, Crash, Rename, DeleteAccount
<1>3. QED
  BY <1>1, <1>2

LEMMA ReminderIsInTime ==
  ASSUME IType, NoneIsMissed, CronIsOnTime
  PROVE  EveryoneIsReminded
<1> SUFFICES ASSUME NEW p \in Proposals, voteinfo[p].End < now
             PROVE  Covered(p)
  BY DEF EveryoneIsReminded, Covered
<1>1. p \notin remind
  BY Times DEF CronIsOnTime
<1>2. ~NotYet(p)
  BY Times DEF NotYet, CronIsOnTime
<1>3. QED
  BY <1>1, <1>2 DEF NoneIsMissed

\* Where cron runs at least every Gap, everybody who can vote has voted or has
\* had a reminder when voting is over, whatever handlers run at the same time
\* and whatever accounts are deleted (votereminder).
THEOREM RemindersReachEveryone ==
  ASSUME "remind" \in Ops
  PROVE  Spec => []EveryoneIsReminded
<1>1. Init => IType /\ NoneIsMissed /\ CronIsOnTime
  <2>1. Init => Proposals = {} /\ now = 0 /\ lastRun = 0 /\ remind = {}
                /\ \A w \in Worker : job[w].pc = "idle"
    BY DEF Init, Proposals, IdleJob
  <2>2. Init => NoneIsMissed /\ CronIsOnTime
    BY <2>1, WindowAssumption DEF NoneIsMissed, CronIsOnTime
  <2>3. QED
    BY <2>2, InitType
<1>2. IType /\ NoneIsMissed /\ CronIsOnTime /\ [Next]_vars
        => IType' /\ NoneIsMissed' /\ CronIsOnTime'
  BY StepType, StepReminds
<1>3. IType /\ NoneIsMissed /\ CronIsOnTime => EveryoneIsReminded
  BY ReminderIsInTime
<1>4. QED
  BY <1>1, <1>2, <1>3, PTL DEF Spec
=============================================================================
