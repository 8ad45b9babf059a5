---------------------------- MODULE MCProposals ----------------------------
(***************************************************************************)
(* Small instances of Proposals for TLC.  A behaviour has a setting: an    *)
(* election, with crashes and accounts that are deleted, while one worker  *)
(* works at a time or two do; proposals that two workers submit while      *)
(* others run, or one while an account changes its name; or the reminders  *)
(* of cron while time passes.                                              *)
(***************************************************************************)
EXTENDS Proposals, TLC

CONSTANTS t1, t2, t3, n1, n2, n3, n4, n5,
          Setting      \* the settings that a run explores

VARIABLE setting

\* Two types of proposal that name a user, and one that does not.
MCDuration == [t \in {"add_pm", "remove_pm", "bylaws"} |-> 3]
MCQuorum == [t \in DOMAIN MCDuration |-> IF t = "add_pm" THEN 66 ELSE 75]
ShortDuration == [t \in DOMAIN MCDuration |-> IF t = "remove_pm" THEN 1 ELSE 2]
TwoTypes == [t \in {"add_pm", "bylaws"} |-> 3]

\* VoteInfo.ID
MCRows == 1..3

Elections == INSTANCE Proposals WITH
    Duration <- TwoTypes, MaxTime <- 0, Ops <- {"vote", "propose", "leave"},
    Faults <- {"crash"}, Name <- {n1, n2, n3}
Follow == INSTANCE Proposals WITH
    Duration <- ShortDuration, RangeEnd <- 0, Gap <- 1, MaxTime <- 2,
    Ops <- {"propose", "leave"}, Faults <- {}, Name <- {n1, n5}, Others <- {n5}
Renamed == INSTANCE Proposals WITH
    Duration <- ShortDuration, RangeEnd <- 0, Gap <- 1, MaxTime <- 2,
    Ops <- {"propose", "leave", "rename"}, Faults <- {}, Name <- {n1, n4, n5}, Others <- {n5}
Reminders == INSTANCE Proposals WITH
    Duration <- TwoTypes, Gap <- 3, MaxTime <- 6, Ops <- {"vote", "propose", "leave", "remind"},
    Faults <- {}, Name <- {n1, n2}

\* Everybody is active, with the usernames that come first.
SettingInit ==
    /\ setting \in Setting
    /\ Init
    /\ inactivity = [u \in Pm |-> "active"]
    /\ username[t1] = n1 /\ username[t2] = n2 /\ username[t3] = n3

OneAtATime == Cardinality({w \in Worker : ~Idle(w)}) <= 1

\* The rows that are used, and the accounts that act or are deleted.
Within(rows, users) ==
    /\ {p \in ProposalId : voteinfo[p] # NoProposal} \subseteq rows
    /\ Pm \ here \subseteq users
    /\ \A w \in Worker : job[w].user \in users \cup {Nobody}

SettingNext ==
    /\ setting' = setting
    /\ \/ setting = "election" /\ Elections!Next /\ Within({1}, Pm)' /\ OneAtATime'
       \/ setting = "two ballots" /\ Elections!Next /\ Within({1}, Pm)'
       \/ setting = "follow" /\ Follow!Next /\ Within(ProposalId, {t1})'
       \/ setting = "renamed" /\ Renamed!Next /\ Within({1, 2}, {t1})' /\ OneAtATime'
       \/ setting = "reminders" /\ Reminders!Next /\ Within({1}, {t1, t2})' /\ OneAtATime'

SettingSpec == SettingInit /\ [][SettingNext]_<<vars, setting>>

\* No more proposals run about one username than there are workers, and only one
\* if one handler works at a time (the check of addvote_post, made before the
\* transaction that inserts).
RunningAreFew ==
    /\ RunningAreBounded
    /\ setting \in {"renamed", "reminders"} => OneRunningProposal

\* Where cron runs: when voting is over, every Package Maintainer who can vote
\* has voted or has had a reminder (votereminder).
RemindersReach == setting = "reminders" => EveryoneIsReminded

WorkerSymmetry == Permutations(Worker)
=============================================================================
