------------------------------- MODULE MCCron -------------------------------
(***************************************************************************)
(* Small instances, for TLC, of what cron starts: aurweb-git-archive,      *)
(* aurweb-mkpkglists, aurweb-aurblup, aurweb-accountmaint, and             *)
(* aurweb-popupdate and aurweb-requestmaint beside the handlers that they  *)
(* clean up after.  They share no tables here, so that a behaviour         *)
(* explores one of them, in one of the settings below; the variables of    *)
(* the others stay Off, and those of GitArchive in their initial state.    *)
(* Components that call a variable alike (run, job, crashes) have it in    *)
(* common, under the names process, job and killed.                        *)
(***************************************************************************)
EXTENDS GitArchive

CONSTANT NoReq

\* The spec "metadata": two files, from three queries.
MCOutput == <<"pkgname.json", "pkgbase.json">>

\* The third version says again what the first one said.
MCValue == <<1, 2, 1>>

VARIABLES
    setting,
    process, database, killed,                                 \* of several
    tmp, dst, content, sha,                                    \* Archives
    mirror, table, changes, fails, forgotten,                  \* Providers
    config, row, sinceRun, sinceMail, past,                    \* AccountMaint
    exists, job,                                               \* the two below
    rows, NumVotes, fresh, started, refused,                   \* Votes
    maintainer, comaints, flagged, young, req, sweep, held, everAccepted
                                                               \* PackageRequests

archive   == <<tmp, dst, content, sha, database, killed>>
providers == <<mirror, table, changes, fails, forgotten>>
accounts  == <<config, row, sinceRun, sinceMail, past>>
votes     == <<rows, NumVotes, fresh, started, refused>>
requests  == <<maintainer, comaints, flagged, young, req, sweep, held, everAccepted>>

all == <<setting, vars, process, archive, providers, accounts, exists, job, votes, requests>>

Off == {}

ArchiveOff   == /\ tmp = Off /\ dst = Off /\ content = Off /\ sha = Off
                /\ database = Off /\ killed = Off
ProvidersOff == mirror = Off /\ table = Off /\ changes = Off /\ fails = Off /\ forgotten = Off
AccountsOff  == config = Off /\ row = Off /\ sinceRun = Off /\ sinceMail = Off /\ past = Off
VotesOff     == rows = Off /\ NumVotes = Off /\ fresh = Off /\ started = Off /\ refused = Off
RequestsOff  == /\ maintainer = Off /\ comaints = Off /\ flagged = Off /\ young = Off
                /\ req = Off /\ sweep = Off /\ held = Off /\ everAccepted = Off

-----------------------------------------------------------------------------
Archive(MaxKills) == INSTANCE Archives WITH
    run <- process, version <- database, crashes <- killed,
    Names <- <<"packages", "meta", "pkgbase", "users", "meta-ext">>,
    Others <- <<"pkgbase", "users">>,
    File <- {"f1", "f2", "f3"}, NoFile <- "none", MaxVersion <- 3, MaxCrash <- MaxKills

ProvidersAlone == INSTANCE Providers WITH
    run <- process, Provider <- {"p1", "p2"}, SyncDbs <- <<"core", "extra", "multilib">>,
    NoRepo <- "none", MaxChange <- 3, MaxFail <- 1
ProvidersCross == INSTANCE Providers WITH
    run <- process, Provider <- {"p1", "p2"}, SyncDbs <- <<"core", "extra">>,
    NoRepo <- "none", Run <- {"r1", "r2"}, MaxChange <- 1, MaxFail <- 1

Options(lifetime, warning, ttl, gap) ==
    [lifetime |-> lifetime, warning |-> warning, ttl |-> ttl, gap |-> gap]

\* config.defaults, with two weeks, one week and a day scaled down.
Default == {Options(4, 2, 1, 1)}

\* The smallest configurations the script accepts, with the longest gaps, and
\* those it refuses.
Configs == {Options(5, 3, 2, 2), Options(4, 3, 2, 2), Options(4, 2, 1, 1),
            Options(3, 3, 2, 2), Options(5, 2, 2, 2), Options(3, 2, 5, 2)}

Warnings == INSTANCE AccountMaint WITH
    run <- process, User <- {"u1"}, Elevated <- {}, Config <- Configs, BatchSize <- 1,
    Ops <- {"register", "verify", "suspend", "content"}, Faults <- {}
Mails == INSTANCE AccountMaint WITH
    run <- process, User <- {"u1"}, Elevated <- {}, Config <- Configs, BatchSize <- 1,
    Ops <- {"register", "login", "verify", "change email", "suspend", "content"},
    Faults <- {"crash", "lost"}
TwoUsers == INSTANCE AccountMaint WITH
    run <- process, User <- {"u1", "u2"}, Elevated <- {}, Config <- Default, BatchSize <- 1,
    Ops <- {"register", "verify", "suspend", "content"}, Faults <- {}

Counts == INSTANCE Votes WITH
    User <- {"u1", "u2"}, Base <- {"a"}, NoBase <- "none", Worker <- {"w1", "w2"},
    Op <- {"add", "remove", "sshVote", "sshUnvote", "crash"}, MaxOps <- 4

Requests == INSTANCE PackageRequests WITH
    User <- {"pm", "u1"}, Elevated <- {"pm"}, Base <- {"b"}, ReqId <- {"q1", "q2"},
    Worker <- {"w1"}, Nobody <- "nobody", NoBase <- "none",
    Ops <- {"adoption", "adopt", "close", "sweep"}, Faults <- {"crash"}

ASSUME ConstantsAssumption ==
    /\ Archive(2)!NamesAssumption /\ Archive(2)!FileAssumption /\ Archive(2)!BoundAssumption
    /\ ProvidersAlone!RepoAssumption /\ ProvidersAlone!BoundAssumption
    /\ ProvidersCross!RepoAssumption /\ ProvidersCross!BoundAssumption
    /\ Mails!ConfigAssumption /\ Mails!ElevatedAssumption /\ Mails!BatchAssumption
    /\ TwoUsers!ConfigAssumption /\ TwoUsers!BatchAssumption
    /\ Counts!OpAssumption

-----------------------------------------------------------------------------
InitOf(s) ==
    \/ /\ ProvidersOff /\ AccountsOff /\ exists = Off /\ job = Off /\ VotesOff /\ RequestsOff
       /\ \/ s = "git-archive" /\ process = Off /\ ArchiveOff
          \/ s = "mkpkglists" /\ Archive(0)!Init
          \/ s = "mkpkglists killed" /\ Archive(2)!Init
    \/ /\ ArchiveOff /\ AccountsOff /\ exists = Off /\ job = Off /\ VotesOff /\ RequestsOff
       /\ \/ s = "aurblup" /\ ProvidersAlone!Init
          \/ s = "aurblup crossed" /\ ProvidersCross!Init
    \/ /\ ArchiveOff /\ ProvidersOff /\ exists = Off /\ job = Off /\ VotesOff /\ RequestsOff
       /\ \/ s = "warnings" /\ Warnings!Init
          \/ s = "mails" /\ Mails!Init
          \/ s = "abandoned" /\ TwoUsers!Init
    \/ /\ process = Off /\ ArchiveOff /\ ProvidersOff /\ AccountsOff
       /\ \/ s = "popupdate" /\ RequestsOff /\ Counts!Init
          \/ /\ s = "requestmaint" /\ VotesOff /\ Requests!Init
             /\ maintainer = [b \in {"b"} |-> "nobody"] /\ comaints = [b \in {"b"} |-> {}]
             /\ young = {}

MCInit ==
    /\ setting \in {"git-archive", "mkpkglists", "mkpkglists killed", "aurblup", "aurblup crossed",
                    "warnings", "mails", "abandoned", "popupdate", "requestmaint"}
    /\ Init
    /\ InitOf(setting)

GitArchiveOnly == UNCHANGED <<setting, process, archive, providers, accounts, exists, job, votes, requests>>
ArchiveOnly    == UNCHANGED <<setting, vars, providers, accounts, exists, job, votes, requests>>
ProvidersOnly  == UNCHANGED <<setting, vars, archive, accounts, exists, job, votes, requests>>
AccountsOnly   == UNCHANGED <<setting, vars, archive, providers, exists, job, votes, requests>>
VotesOnly      == UNCHANGED <<setting, vars, process, archive, providers, accounts, requests>>
RequestsOnly   == UNCHANGED <<setting, vars, process, archive, providers, accounts, votes>>

MCNext ==
    \/ setting = "git-archive" /\ Next /\ GitArchiveOnly
    \/ /\ ArchiveOnly
       /\ \/ setting = "mkpkglists" /\ Archive(0)!Next
          \/ setting = "mkpkglists killed" /\ Archive(2)!Next
    \/ /\ ProvidersOnly
       /\ \/ setting = "aurblup" /\ ProvidersAlone!Next
          \/ setting = "aurblup crossed" /\ ProvidersCross!Next
    \/ /\ AccountsOnly
       /\ \/ setting = "warnings" /\ Warnings!Next
          \/ setting = "mails" /\ Mails!Next
          \/ setting = "abandoned" /\ TwoUsers!Next
    \/ setting = "popupdate" /\ Counts!Next /\ VotesOnly
    \/ setting = "requestmaint" /\ Requests!Next /\ RequestsOnly

-----------------------------------------------------------------------------
(* Cron starts each script again and again, and the operating system runs  *)
(* it: what a process does is the step of a script or of a handler.  A     *)
(* fair action here is that of the setting.                                *)

ScriptStep(r) ==
    \/ setting = "git-archive" /\ r \in Run /\ Step(r) /\ GitArchiveOnly
    \/ setting = "mkpkglists killed" /\ r \in Run /\ Archive(2)!Step(r) /\ ArchiveOnly
    \/ setting = "aurblup crossed" /\ ProvidersCross!Step(r) /\ ProvidersOnly
    \/ setting = "abandoned" /\ r \in Run /\ TwoUsers!Cron(r) /\ AccountsOnly
    \/ setting = "requestmaint" /\ r \in Run /\ Requests!SweepRead /\ RequestsOnly

\* Handlers run to their end or are cut off.
HandlerStep(w) == setting = "popupdate" /\ Counts!Step(w) /\ VotesOnly

\* PopularityUpdated falls behind the interval.
CountAges == setting = "popupdate" /\ Counts!Age("a") /\ VotesOnly

\* Time passes although the runs of aurweb-accountmaint follow each other
\* closely, aurweb-popupdate finds a moment between handlers, and not every run
\* of aurweb-requestmaint dies before its commit.
Sometimes ==
    \/ setting = "abandoned" /\ TwoUsers!Tick /\ AccountsOnly
    \/ setting = "popupdate" /\ Counts!Cron /\ VotesOnly
    \/ setting = "requestmaint" /\ Requests!SweepWrite /\ RequestsOnly

Fairness ==
    /\ \A r \in {"r1", "r2"} : WF_all(ScriptStep(r))
    /\ \A w \in {"w1", "w2"} : WF_all(HandlerStep(w))
    /\ WF_all(CountAges)
    /\ SF_all(Sometimes)

MCSpec == MCInit /\ [][MCNext]_all /\ Fairness

-----------------------------------------------------------------------------
(* The properties of the components, each in the settings that keep it and *)
(* with the type invariant of its component; those of GitArchive are       *)
(* checked as they stand.                                                  *)

\* When no run of mkpkglists is under way, the archives are of one snapshot and
\* each checksum is that of the archive it is next to.  Whatever was killed, an
\* archive was written to its end.
ArchivesAreRight ==
    /\ setting = "mkpkglists" => Archive(0)!OneSnapshot /\ Archive(0)!ChecksumIsRight
    /\ setting = "mkpkglists killed" => Archive(2)!TypeOK /\ Archive(2)!ArchivesAreWhole

\* A run of aurblup during which the repositories do not change leaves the
\* table as they are.
RunIsRight == [][setting = "aurblup" => ProvidersAlone!TypeOK /\ ProvidersAlone!StepIsRight]_all

\* No account is deleted that has not been sent a reminder first, unless it has
\* been suspended, whatever the configuration that check_config accepts; and it
\* is mailed once per token TTL, whatever is lost or killed (_warn).
RemindersAreFair ==
    [][/\ setting = "warnings" => Warnings!StepSparesTheUnwarned
       /\ setting = "mails" => Mails!TypeOK /\ Mails!StepMailsOncePerTtl]_all

\* Whatever runs were killed, have failed or crossed each other: the last commit
\* (git_archive.main) and the archives with their checksums (mkpkglists) come to
\* be of the last version of the database, the table of providers (aurblup) as
\* the repositories are, and the counts of votes right (popupdate).
Recovers ==
    <>[](/\ setting = "git-archive" => UpToDate
         /\ setting = "mkpkglists killed" => Archive(2)!UpToDate
         /\ setting = "aurblup crossed" => ProvidersCross!Right
         /\ setting = "popupdate" => Counts!CountsAreRight)

\* An account that nobody verifies or uses does not stay for ever (accountmaint),
\* and an adoption request whose idle time has run out does not stay pending
\* (requestmaint).
NothingWaitsForever ==
    /\ \A u \in {"u1", "u2"} : []<>(setting = "abandoned" => ~ TwoUsers!Abandoned(u))
    /\ \A q \in {"q1", "q2"} : []<>(setting = "requestmaint" => ~ Requests!WaitsTooLong(q))
=============================================================================
