# A verification project for aurweb

aurweb is the web application behind the Arch User Repository: a FastAPI
application with its SSH commands and git hooks, and a set of cron jobs, all
of them processes around one MySQL/MariaDB database (and a Redis cache).  This
directory holds TLA+ modules of its logic, TLC configurations that check them
on small instances, and TLAPS proofs.

- `PROJECT.json` lists the components, the runs, the mutants, the source lines
  each definition models, the findings, the hazards and the theorems.
- `M.tla` is the model of a component.  `MC*.tla` instantiate one or several
  components for TLC; `tlc -config X.cfg MCM` repeats the run X, whose module is
  in the table "Runs" below.
- `MProofs.tla` holds the proofs about M: `tlapm MProofs.tla` checks them.

The first part of this file describes the system.  Then each module has a
section: how its variables and actions correspond to the code, what is left
out, what is checked within which bounds, and what was found.  The sections
after that say what fairness is assumed, what is proved and how, and what is
not modelled.

## The system

### How it executes

The web application runs as gunicorn worker processes
(`examples/aurweb.service` starts four).  Each has one SQLAlchemy session for
everything (`db.get_session`, autocommit).  A handler never suspends between
its database operations, so that inside a process handlers run one after the
other.  Between processes they interleave wherever one of them is not inside
a transaction: a `with db.begin()` block is atomic, the reads before it are
autocommitted, and a handler has several of each.  SSH commands
(`git/serve.py`), the git update hook (`git/update.py`) and cron jobs
(`scripts/`) are processes of their own on the same tables.

`@db.retry_deadlock` repeats a function when the database reports a deadlock.
It is applied to functions that contain one transaction and to functions that
contain several, and these nest.  `@db.async_retry_deadlock` stands above
`@router.post`, which registers the undecorated function: a route's own
transactions are not repeated.

### Components

| Component | State | Operations | What makes it correct | Module |
|---|---|---|---|---|
| Package requests (`packages/requests.py`, `pkgbase/actions.py`, `routers/requests.py`, parts of `routers/pkgbase.py`) | `PackageRequests`; `PackageBases.MaintainerUID` | file, accept automatically, grant an adoption, handle (accept and reject) on disown, delete and merge, close | no action without an accepted request; nothing the handler inserted is left pending; one pending adoption request per base | PackageRequests |
| Ownership of package bases | maintainer, co-maintainers, out-of-date flag | adopt, disown (web, SSH), push, flag | a base changes hands only by those who may act on it; an orphan is granted, not taken | PackageRequests |
| requestmaint | – | reject idle adoption requests | an idle request does not stay pending | PackageRequests |
| Co-maintainers (`pkgbase/util.py`, `set-comaintainers`) | `PackageComaintainers` with priorities | add, remove, rotate, replace | priorities are 1..n; the first one inherits; no duplicates | Comaintainers |
| Votes and watchers (`popupdate.py`, vote, unvote, notify, merge) | `PackageVotes`, `PackageNotifications`, `NumVotes` | vote, unvote, watch, recount, merge | `NumVotes` agrees with the rows; a merge loses no vote | Votes |
| The page of a base (`routers/pkgbase.py`, `rendercomment.py`) | comments, keywords, flag | post, edit, render, pin; set keywords; flag | what is shown is what was written | BasePage |
| Bulk actions (`routers/packages.py`) | – | six actions on all selected bases | what is answered was done | BulkActions |
| Proposals (`routers/package_maintainer.py`, `votereminder.py`) | `VoteInfo`, `Votes` | propose, vote, remind | tallies agree with the ballots; one ballot each; one running proposal per user | Proposals, Election |
| SSH shell (`git/serve.py`) | – | dispatch, access checks | the access that is checked is the access used | GitPush and those of the tables |
| Update hook (`git/update.py`, `update_legacy.py`) | packages, refs | validate, save metadata, move refs, restore | database and refs agree; a push never displaces a maintainer | GitPush |
| Accounts and sessions (`routers/accounts.py`, `routers/auth.py`, `models/user.py`, `users/`, `routers/sso.py`) | `Users`, `Sessions`, tokens | register, edit, login, logout, reset, suspend, verify, delete | no session survives suspension; a link verifies its own address | Accounts, Addresses |
| Account maintenance (`accountmaint.py`) | – | warn, delete | nobody with content is deleted; nobody is deleted unwarned | AccountMaint |
| Rate limits (`ratelimit.py`) | Redis window and counter, or `ApiRateLimit` | count, check | no more than the limit in a window; nobody is refused without a reason | RateLimit |
| Cache (`cache.py`, `statistics.py`, `asgi.py`) | Redis values | get or compute; mark errors | values expire; an error is reported, once | RedisCache |
| Notifications (`scripts/notify.py`) | – | choose recipients, send | those concerned receive it, once | Notifications |
| aurblup (`scripts/aurblup.py`) | `OfficialProviders` | synchronise | the table is the repositories' content | Providers |
| Archives (`git_archive.py`, `mkpkglists.py`, `archives/`) | files, a git repository | write, compress, rename, commit | readers see complete files of one snapshot | Archives, GitArchive |
| Search and RPC (`rpc.py`, `packages/search.py`) | – | parse, query | – (read-only) | – |
| Application shell (`asgi.py`, `spawn.py`, `prometheus.py`, templates, feeds) | – | middleware, error pages | – | – |

### How they interact

The web handlers, the SSH shell and the hook share `PackageBases`,
`PackageComaintainers` and `PackageRequests` and write them in transactions of
their own; nothing locks a base across two of them.  git-serve decides about
access and then replaces itself with git-shell, which starts the hook later
with no more than the user's name.  Foreign keys couple the rest: deleting a
base deletes its co-maintainers, votes and comments and sets the `PackageBaseID`
of its requests to NULL; deleting a user sets maintainers to NULL and deletes
votes, co-maintainer rows and sessions.  Notifications are sent after the
transaction that caused them, by SMTP or a sendmail command.

### What is hard about it

Steps of two processes between the transactions of one handler; values read
before a transaction and used in it; a crash or a deadlock after some of a
handler's commits; the retry of a handler that has already committed; time
limits (`auto_orphan_age`, `auto_delete_age`, `request_idle_time`) that run out
between a check and its use; cron jobs over rows that change under them.
`PROJECT.json` lists each such hazard at its line, with the property that
covers it.

## PackageRequests

The core: how requests and ownership change.  One action is one transaction,
or the reads a handler makes before its next transaction.

| Variable | In the code |
|---|---|
| `exists` | the rows of `PackageBases` |
| `maintainer`, `comaints` | `MaintainerUID`; `PackageComaintainers` as a set of users |
| `flagged` | `OutOfDateTS`: NULL, set, or set at least `auto_orphan_age` ago |
| `young` | bases whose `SubmittedTS` is within `auto_delete_age` |
| `req` | the rows of `PackageRequests`; `linked` says that `PackageBaseID` is not NULL, `due` that `request_idle_time` has passed, `origin` who inserted it |
| `job` | per worker, the handler that runs: its position and its local variables (`accept`, `reject`: the lists of `handle_request`; `ids`: `accept_ids`; `seen`: the maintainer it has read) |
| `sweep` | the rows aurweb-requestmaint has read and not written yet |
| `held`, `everAccepted` | history, for the properties only |

| Actions | Code |
|---|---|
| `FileStart`, `FileCreate`, `FileAuto`, `AutoOrphan` | `POST /pkgbase/{name}/request` |
| `AdoptStart`, `AdoptSet`; `RequestAdoption`, `AdoptCreate` | `POST /pkgbase/{name}/adopt` by an elevated user; by anyone else, and `adopt` over SSH |
| `DisownStart`, `DisownRole`, `DisownOwner`, `DisownCo`, `DisownFinish` | `POST /pkgbase/{name}/disown`, `_retry_disown` |
| `DeleteStart`, `DeleteFinish`; `MergeStart`, `MergeMove`, `MergeDelete` | the delete and merge forms, `_retry_delete`, `_retry_merge` |
| `Verify`, `ReadAccept`, `ReadReject`, `CreateHandled`, `Close` | `handle_request`, in which all of them meet |
| `SshDisownStart` … `SshMaint` | `disown` over SSH, one commit per step |
| `PushStart`, `PushSave` | the access check of git-serve; the UPDATEs of `save_metadata` |
| `CloseRequest`, `SetComaintainers`, `Flag` | handlers of one transaction |
| `SweepRead`, `SweepWrite`, `SweepFail` | aurweb-requestmaint |
| `FlagAges`, `BaseAges`, `RequestDue` | time |
| `Crash`, `Deadlock` | a process or connection that dies; a deadlock and where the nested retry wrappers resume |
| `BaseGone` | a transaction on a base that was deleted meanwhile |

Abstractions.  Users, bases and requests are model values.  A base that is
deleted is gone: uploading it again makes a new row, which no old handler
refers to.  Ten retries are any number of retries, and giving up is `Crash`.
Which co-maintainer is promoted is left open, so that the properties hold for
any order of priorities.  Comments, notifications and votes are left out
(BasePage, Notifications and Votes have them), so are closure comments, except
that one exists (`CanReject`).  Accounts are neither deleted nor change their
type.  The web form for co-maintainers is
represented by its effects on the set, through `SetComaintainers`; its steps
and the priorities are in Comaintainers.

### Properties and runs

`MCPackageRequests` has seven settings, which fix initial states and handlers.

| Run | Setting | Property | Bounds |
|---|---|---|---|
| RequestsAlone | `adoption` | `TypeOK`, `OneFiledAdoption` | an orphan; 1 worker, crashes, deadlocks; nobody closes a request by hand |
| | `orphan` | `OrphaningNeedsARequest` | every initial state; 1 worker, crashes, deadlocks |
| | `tidy` | `AutogeneratedIsClosed` (as `HandledIsClosed`), `EveryClosureHasAComment` | a base of the elevated user; 1 worker, deadlocks |
| RequestsRaces | `grants` | `GrantedAdoptionWasGiven` | an orphan; 2 workers, cron |
| | `disown` | `NobodyTakesABase` | owner and co-maintainer; 2 workers, SSH, pushes, 1 request |
| | `merges`, `killed` | `RemovalIsTracked` | 3 bases, one of which is only merged into, and 2 workers; or 2 bases and a worker that is killed; requests are closed by hand |
| Cron | `requestmaint` | `WaitsTooLong` does not last (in `NothingWaitsForever`) | 1 worker, 2 requests, cron runs that die |
| RequestsRetriedDisown | `orphan` | `RetryIsNotRefused`, violated | a deadlock |

A property without a setting in front is checked in every setting of its run.

The form of a request has a field for the target of a merge, which is saved
whatever the type is (`routers/pkgbase.py:850`) and only checked for merges;
`FileStart` does the same.  In `grants` and `disown`, where nothing reads it, the
bound `NoTargetGiven` leaves it empty.

Why the bounds are enough: a property is about one base, the handler that
changes it and one that interferes, and at most two requests (the accepted one
and another that must not be); the merge needs a third base, the wrong target.
Settings with one worker say what a handler and its retries guarantee when
nobody else runs; those with two show the races.  Rows of requests, workers and
two of the three bases are symmetric.

RequestsRetriedDisown: an elevated user's disown accepts the orphan request in a
transaction of `handle_request`, then a deadlock in the last one (`actions.py:107`)
starts the handler again.  `handle_request` refuses this time, because the request
that it has accepted is not pending any more.  The base keeps its maintainer.
(`retried` marks only those attempts, which had committed their acceptance: a
deadlock before that is repeated without harm.)

## Accounts

One account's life: registered, logged in, edited, reset, suspended, deleted.

| Variable | In the code |
|---|---|
| `here`, `acc` | the rows of `Users`: `AccountTypeID`, `Suspended`, `Passwd`, whether a `ResetKey` is set |
| `session` | the one row of `Sessions` an account may have: its SID and whether it has expired (`age`) |
| `cookie`, `nextSid` | the `AURSID` cookie of a browser; `generate_unique_sid` |
| `job` | what the handler of a worker holds between its transactions: the form, the row read, the permission |
| `opened`, `kept` | history: the password a session was opened with, and whose session a change of the password has left alone |

| Actions | Code |
|---|---|
| `ExpireStart`, `Expire` | `BasicAuthBackend.authenticate`, on every request |
| `LoginStart`, `LoginRetry`, `LoginCommit`, `LoginReturn` | `login_post`, `User.login` |
| `SsoStart`, `SsoInsert`; `LogoutStart`, `Logout` | `routers/sso.py`; `logout` |
| `Register`; `ResetStart`, `ResetIssue`, `ResetCommit` | `account_register_post`; `passreset_post` in both forms |
| `EditStart`, `EditSimple`, `EditType`, `EditPassword`, `EditLogin`, `EditSuspend`, `EditEnd` | `account_edit_post`: one validation, then the list of update functions, each a transaction |
| `DeleteStart`, `Delete` | `account_delete_post` |
| `Deadlock`, `LoginDeadlock`, `Crash`, `RowGone`, `Ageing` | `retry_deadlock`, which runs one update function again; the same in `update.password` after the password is committed; a worker that dies; a row another handler has deleted; time |

Left out: SSH keys, languages and time zones, which are rows of their own that
nothing decides upon; bans, captchas and terms of service, which only refuse a
form.

Checked in the run Accounts, in four settings: `suspend` (1 worker, deadlocks; owner
and Package Maintainer, 1 password, 3 SIDs), `reset` (1 worker, 1 account, every
handler, deadlocks), `ranks` (2 workers on account forms, crashes) and `gone` (2
workers, every handler, crashes and deadlocks).  `SessionsEnd` is
`SuspendedHasNoSession` in `suspend`, `SessionKnowsPassword` in `reset`, and
`GoneHasNoSession`, with `TypeOK`, in all; `NobodyOutranks` and
`SuspensionIsLiftedByElevated` hold in all.

`update.password` commits the password and then logs its owner in again.  If it is
the login that deadlocks, the function runs again, finds the new password valid and
does neither: the session of the old password stays.  `SessionKnowsPassword`
excepts that, and passwords that somebody else has set (`kept`).

A property is about one account, the handler that changes it and one that
interferes; the editor of another account is the second user.

## Addresses

Registering an address, changing it, verifying it with a link and asking for
another link.

`row` is `Users` (address, normalised address, verified, token, its age);
`mailed` the tokens that are in a mailbox; `original` and `mintedFor` are
history.  A handler that checks, writes and mails is three actions
(`RegisterCheck`, `Register`, `Mail`; `EditCheck`, `Edit`; `ResendCheck`,
`Resend`; `VerifyRead`, `Verify`), cut where `account_register_post`,
`account_edit_post`, `account_verify` and `account_verify_resend` leave
autocommit mode.  `IndexAllows` is the unique index of `Users`, which NULL does
not take part in.  `Normal` stands for `util.normalize_email`: which ways of
writing mean one mailbox.

Checked in the run Forms: `mailboxes` (`OneAccountPerMailbox`) with 2 workers and 3
accounts, of which two shared a mailbox before the migration; `links`
(`StepVerifiesItsOwn` as `VerifiedByItsOwnLink`, `StepWaitsForCooldown` in
`NobodyIsPestered`) with 1 worker, 2 accounts and 3 addresses.

## AccountMaint

aurweb-accountmaint warns the accounts that never verified an address, then
deletes them.  What decides is how long ago things happened, so the state is
ages, each up to the largest that makes a difference.

`config` is a configuration, `row` the accounts, `sinceRun` how long ago cron
last started the script, `run` its processes, `sinceMail` and `past` history.
`Cron` is `_main` in its steps `CheckConfig`, `Start`, `Issue` (tokens, one
commit), `Build` and `Send` (mails), `Warned`, `ReadExpired` and `Delete` (one
batch each); users act between them (`Register`, `Login`, `Verify`,
`ChangeEmail`, `Suspend`, `AddContent`).  `Tick` may wait for cron no longer
than the configured gap.  `--dry-run` is left out.

Checked in the run Cron.  `warnings` (`StepSparesTheUnwarned`): 1 account and
six configurations at the limits of what `check_config` accepts, among them those
it refuses.  `mails` (`TypeOK`, `StepMailsOncePerTtl`): the same with everything
users do, crashes and lost mails; both are in `RemindersAreFair`.  `abandoned`
(`NothingWaitsForever`: an account is not `Abandoned` for ever): 2 accounts,
batches of one.

One account is enough where the accounts do not touch each other; two share a
batch.  The configurations are two weeks, one week and a day scaled down, and
the smallest that stand in the same order.

## Proposals and Election

`Election` says what a vote of the Package Maintainers promises: every ballot
of an elector is counted once and nobody casts two (`Cast`; `Leave` for an
account that is deleted).  `Proposals` is the code, and refines it:
`E == INSTANCE Election WITH` the electors that exist, who has a row in
`Votes`, and the three counters of `VoteInfo`.

`voteinfo` and `votes` are the tables (the latter has no key, so it counts
rows); `here`, `username`, `inactivity` columns of `Users`; `now` the clock;
`job` the handlers; `remind` and `lastRun` the cron job; `reminded` and `about`
history.  `BallotStart` and `ProposeStart` are the checks of the two POST
handlers, in autocommit mode; `Ballot` and `Propose` their transactions;
`RemindRead` and `Remind` are aurweb-votereminder, which mails one proposal
after the other; `Rename` and `DeleteAccount` what account handlers do
meanwhile.  The listings are read-only and left out.

Checked in the run Proposals.  `election` (the refinement `ElectionSpec`, which
holds in all settings): one handler at a time, 3 electors, crashes, accounts that
are deleted.  `follow` (`RunningAreBounded`): 2 workers that submit proposals, 3
rows, 2 ticks, an account that is deleted.  `renamed` (`OneRunningProposal`): one
handler at a time, 2 rows, 2 ticks, an account that changes its name or is deleted.
`reminders` (`EveryoneIsReminded`, as `RemindersReach`): one handler at a time, 2
electors, the longest gap between two runs.  `RunningAreFew` is the two bounds on
running proposals: as many about one username as there are workers, everywhere, and
one where one handler works at a time.  The first is what the order of check and
INSERT keeps, and `follow` does reach it; the second is what the form promises.
ProposalsTwoBallots is the refinement with two workers that also vote (setting
`two ballots`), which fails: two ballots read the same counter.

## GitPush

A push: git-auth, git-serve, git receive-pack, the hook in both versions, and
`restore`.  It changes three things in turn, each visible to all: the base and
its packages (several commits), the branch named after the base, and the
master branch in the base's namespace, which git moves after the hook.

| Variable | In the code |
|---|---|
| `base`, `nextId` | `PackageBases` with maintainer, co-maintainers, flag and watchers; its AUTO_INCREMENT |
| `package` | `Packages`, by their unique name |
| `master`, `branch` | `refs/namespaces/<base>/refs/heads/master`; `refs/heads/<base>` |
| `job` | the SSH sessions: the snapshot of git-serve, the commits git advertised, what is left to save |

| Actions | Code |
|---|---|
| `ServePush`, `ServeRestore` | `git/auth.py`, `serve`; `validate_pkgbase` |
| `Check`, `Refuse` | `update.main` up to its first write: fast-forward, the tree of every new commit, `validate_metadata`, names, blacklist |
| `Create`, `NameIsTaken` | `create_pkgbase` and the unique key |
| `SaveFirst`, `SaveNext`, `SaveFails`, `SaveLast` | `save_metadata`, one action for each of its commits |
| `UpdateBranch`, `UpdateMaster` | `main`'s `repo.create_reference`; git's own compare-and-swap |
| `Delete`, `Disown`, `Adopt`, `Crash` | what web workers do; a process that dies |

A commit is what the properties tell apart: its ancestors, what is wrong with
its tree, and the names in its `.SRCINFO`.  Dependencies, licences, groups and
sources go with the package row.  Git (`Past`, `UpdateMaster`) is external.

Checked in the run GitPush.  `alone` (`DatabaseMatchesMaster`, as `PushIsWhole`): 1
session at a time, 3 users, 2 bases that share a package name, 7 commits.  `races`: 2
sessions, 1 base, 4 commits (one the hook refuses), legacy parser, crashes.  In both,
web workers delete, disown and adopt bases between any two steps of a push, and
`HistoryIsFine`, `OnlyFastForwards` and `OnlyWritersWrite` hold.

git-serve looks at who may write when a session begins, and nobody looks again.  So
a push whose user loses access in its middle goes through; `overtaken`, a history
variable, has the sessions to which that has happened, and `OnlyWritersWrite` says
that nobody else writes without access: not who never had it, nor who lost it
before the session began.  GitPushCrash is `DatabaseMatchesMaster` with a hook that dies
between its commits: it leaves packages that no published commit has.

The commits are chosen for the cases of the hook: one that adds a package, one
with the same `.SRCINFO`, a refused tree and its repair, one with another past,
and one of another base with a package in common.

## Votes

`rows` holds `PackageVotes` and `PackageNotifications`, which are handled
alike, `NumVotes` the count beside them, `fresh` the bases popupdate leaves out
for now.  A web handler is `AddCheck` or `RemoveCheck` (the look in autocommit
mode), `Insert` or `Delete`, and `Count` (`popupdate.run_single`); an SSH
command reads its snapshot in `SshVote`, `SshUnvote` and writes to the rows of
the moment in `SshInsert`, `SshDelete`; a merge is `MergeStart`, `MergeRead`,
`MergeMove`, `MergeCount`, `MergeDelete`; `Cron` is aurweb-popupdate.
Popularity, a function of the votes and the time written with `NumVotes`, is
left out.

Checked in the run Pages: `votes` (`TypeOK`, `CountIsRight` and
`UnvoteIsNotRefused`; `StepLosesNothing` in `NothingIsLost`) with 1 worker, 6 operations, 2 users and 2 bases, web and SSH
mixed; `votes race` (`CountIsRight`) with 2 workers, 5 operations, at most one
merge at a time and no SSH unvote.  In the run Cron, `popupdate`
(`CountsAreRight` in `Recovers`) has 2 workers, 4 operations, 1 base and handlers that
are cut off.

## Comaintainers

`rows` is `PackageComaintainers`, which has no unique index, so that a user may
be in it twice; the mapper takes user and base for its key and sees them once
(`Users`, `RowsOf`).  `Form`, `Remove`, `Rotate`, `Names`, `Add`, `Insert`,
`Mail` are the web form in the transactions of `pkgbase/util.py`;
`RotateDeadlock` its retry; `Ssh`, `SshWrite` the command set-comaintainers;
`Disown…` the three roles of `_retry_disown`; `Adopt`.  `Rankings` leaves the
order of equal priorities to the database, and `Stale` is what a session
without autoflush still returns.

Checked in the run Pages with 1 worker, 3 users and 5 rows: `succession`
(`TypeOK`, `Seniority`, `RemovedAreTold`; forms, maintainers and co-maintainers who
disown, adoptions), `forms` (`SequentialPriorities`, `OneRowPerUser`; forms and SSH
lists) and `roles` (`MaintainerIsNoComaintainer`; forms, disowning in all three
roles, deadlocks).  All but
`RemovedAreTold` are in `LineOfSuccession`.

## BasePage

Comments (`Post`, `EditCheck`, `Edit`, `Delete`, `Undelete`, `Pin`), their HTML
(`Render`, `SaveRendered`: rendered outside, saved in a transaction of its
own), keywords (`KeywordsRead`, `Keywords`, `SshKeywords`) and the out-of-date
flag (`FlagCheck`, `Flag`, `SshFlag`, `Unflag`, `SshUnflag`, `Mail`).  Markdown
is a function of the text.

Checked in the run Pages: `comments` (`TypeOK`, `RenderedIsTheText`) and `others`
(`KeywordsOfOneForm`, `MailTellsTheFlag`) with 1 worker, one user of each
standing, 1 comment, 2 texts and 2 keywords; `flags` (`StepKeepsFlag`, in
`NothingIsLost`) with 2 SSH sessions.  The invariants are in `PageIsAsWritten`.

## BulkActions

`POST /packages` checks the whole form (`Submit`), then for each base looks
(`Visit`) and writes (`Write`), and answers (`Finish`).  What happens to one
base is one step here and the subject of PackageRequests, Votes and BasePage;
other processes do the same in one step (`Flag`, `Toggle`, `Grant`, `Leave`,
`Remove`).  `Columns` is what the session still holds: it is read again after
the first commit, and only net changes are written (`Set`).

Checked in the run Forms: `TypeOK`, `AnsweredAsDone`, `DeletedIsTold` and
`ErrorsStopNothing` with 1 worker, 3 forms, 6 actions and 2 bases;
`FailsForAReason` with 2 workers that have a form each, and with a form beside
steps of others.  All are in `FormIsHonest`.

## Notifications

Whom an event concerns, which queries find them, and what the transport does
with the two lists.  `Start…` is a handler, `Change` its transaction, `Make`
the queries (`MakeCc` and `MakeBcc` apart, where they are two in autocommit
mode), before the change for disowning and deleting (`MadeFirst`), after it
otherwise; `Send` is SMTP or sendmail.  Users change settings in between.  What
a mail says is left out, but for the flag in BasePage; mails of votes are in
Proposals, verification mails in Addresses and AccountMaint.

Checked in the run Forms, with users of different wishes: `events` (`TypeOK`,
`EveryoneIsTold`) has 3 users and eight events while watching changes; `settings`
(`EveryoneIsTold`, `StepSparesSuspended`) 2 users who are suspended and hide, and
commands; `hidden` (`HiddenIsNotShown`, `EveryoneIsTold`, `NobodyTwice`) 2 users
and requests on the web.  `StepSparesSuspended` is in `NobodyIsPestered`, the
others are in `EveryoneIsTold`.

## Archives and GitArchive

`Archives` is aurweb-mkpkglists: one snapshot, files under temporary names that
all runs share, a checksum next to the old archive, then the move.  A file
keeps its identity when it is moved, so `content` is of a file and `tmp`, `dst`
are names.  `GitArchive` is aurweb-git-archive: `Query` (three for the metadata,
each a snapshot), `Open` and `Write` of each file in the work tree, `Status` (which
compares last commit, index and work tree), `Add` (to the index), `Parent`,
`CommitNow`.  What a file says is what the queries it was made from returned;
`Partial` and `Torn` are files not written to the end, or by two runs at once.
`Value` is what a query returns of each version, and a later version may say the
same as an earlier one, so that a run may come back to the files of the last commit.

Checked in the run Cron.  `mkpkglists` (`OneSnapshot`, `ChecksumIsRight`): all 5
archives, 1 run at a time, 3 versions; `mkpkglists killed` (`TypeOK`,
`ArchivesAreWhole`, and `UpToDate` as a liveness property): the same with 2 kills.
`git-archive` (`FilesAgree`, `RepeatedAreOfKills`, and `UpToDate` as a
liveness property): 2 files, 3 queries, 3 versions of which the last says what the
first said, 8 commits, 2 kills.  A run that is killed between `Add` and `CommitNow`
leaves an index ahead of the branch; if the next one comes to the files of the last
commit, it commits them once more, and TLC finds that it does.
`RepeatedAreOfKills` says that this is the only way to an empty commit.  The
invariants of `Archives` are in `ArchivesAreRight`, the liveness of both in
`Recovers`.

## RedisCache

Keys with a time of expiry; a copy is told by the time of its query.  `Get`,
`Size`, `Query`, `Set`, `Expire` are the commands of `db_count_cache`,
`db_query_cache`, `updated_packages`; `SetFeed` that of `lambda_cache`; `Fail`,
`Mark`, `Report` the handler of errors in `asgi.py`.  A request lasts at most
one tick, unless its worker is killed.

Checked in the run Redis with 2 workers: `copies` (`Fresh`; one key of
each kind, 4 ticks), `results` (`ResultsAreBounded`; 4 results where 1 is allowed)
and `errors` (`ReportedOnce`; 2 errors, one worker killed, 6 ticks).

## RateLimit

One address.  With Redis: `GetWindow`, `StartWindow`, `Increase`, `AnswerRedis`
over two keys that expire on their own; with the table: `Start`, `Select`,
`Delete`, `Read`, `Write`, `AnswerTable` over one row.  `asked`, `passed` and
`inWindow` are history; the first two say for each tick how many there were before
it, so that those of a stretch of time are a difference (`During`).

Checked in the run Redis, with limit 1: `redis` (`PassesAreBounded`,
`StepRefusesForAReason` as `RefusedForAReason`; 2 workers, windows of 2 ticks, 3
ticks, 3 requests a tick), `table` (the same; 1 worker, 5 ticks) and `table race`
(`StepRefusesNobodyEarly`, in `RefusedForAReason`; 2 workers, windows of a tick, 4
ticks, 2 requests a tick); `TypeOK` in all three.

## Providers

aurweb-aurblup: `Sync` reads one repository after the other, `Compare` reads
the table, `Commit` writes the differences or `CommitFail` meets a key another
run has written.  Repositories change between the reads (`Add`, `Remove`).

Checked in the run Cron: `aurblup` (`TypeOK`, `StepIsRight`, as `RunIsRight`) with 3
repositories, 2 providers and 3 changes; `aurblup crossed` (`Right`, in
`Recovers`) with 2 runs that overlap and fail.

## Runs

Each MC module has a variable `setting`, chosen in the initial state and never
changed: it says which instance of which component a behaviour explores, with
which handlers, faults and sizes.  One run then covers several instances, and a
property holds for the settings its definition names (`setting = "x" => X!P`); a
property of the component the MC module extends stands as it is and holds in all
of them.  Properties of one kind are the conjuncts of one property of the MC
module, which also has the type invariants; the sections above say what is in
which.  `TypeOK` of Proposals, GitPush, RedisCache and GitArchive is in no run:
it is proved below.

| Run | Module | Properties | Result |
|---|---|---|---|
| RequestsAlone | MCPackageRequests | `TypeOK`, `OneFiledAdoption`, `HandledIsClosed`, `EveryClosureHasAComment`, `OrphaningNeedsARequest` | passes |
| RequestsRaces | MCPackageRequests | `GrantedAdoptionWasGiven`, `NobodyTakesABase`, `RemovalIsTracked` | passes |
| RequestsRetriedDisown | MCPackageRequests | `RetryIsNotRefused` | violated |
| Accounts | MCAccounts | `SessionsEnd`, `NobodyOutranks`, `SuspensionIsLiftedByElevated` | passes |
| Proposals | MCProposals | `RunningAreFew`, `RemindersReach`, `ElectionSpec` | passes |
| ProposalsTwoBallots | MCProposals | `ElectionSpec` | violated |
| GitPush | MCGitPush | `PushIsWhole`, `HistoryIsFine`, `OnlyWritersWrite`, `OnlyFastForwards` | passes |
| GitPushCrash | MCGitPush | `DatabaseMatchesMaster` | violated |
| Redis | MCRedis | `Fresh`, `ResultsAreBounded`, `ReportedOnce`, `PassesAreBounded`, `RefusedForAReason` | passes |
| Pages | MCPages | `CountIsRight`, `LineOfSuccession`, `RemovedAreTold`, `PageIsAsWritten`, `NothingIsLost` | passes |
| Forms | MCForms | `FormIsHonest`, `EveryoneIsTold`, `OneAccountPerMailbox`, `NobodyIsPestered`, `VerifiedByItsOwnLink` | passes |
| Cron | MCCron | `FilesAgree`, `RepeatedAreOfKills`, `ArchivesAreRight`, `RunIsRight`, `RemindersAreFair`, `Recovers`, `NothingWaitsForever` | passes |

Every property of a passing run has a mutant: an operator whose name ends in
`_Bug` is the definition after it with a plausible mistake, and the run finds
the property violated when it takes that definition's place.

The three runs that end in a violation stand for a finding each: a property that
a comment, a message, a test or a document of the repository states, and the
steps by which the code does otherwise.

### Divergences without a run

The modules also state what the repository says and the code does not keep;
these properties are in no run, or only in a setting where they do hold.  TLC
finds each of them violated within seconds on the instance in the second column
(what is not given is as in the setting that the component has above).

| Property | Instance | What the code does |
|---|---|---|
| PackageRequests `OneFiledAdoption` | 2 workers; adopt on the web and over SSH | `validate.py:50`, `serve.py:148`: the check and the INSERT are apart, two submissions at once both file a request |
| `OrphaningNeedsARequest` | 1 worker; orphan, disown, close; 3 requests | `requests.py:204`: a due request that is closed by hand between `verify_orphan_request` and the accept query is replaced by one that `handle_request` inserts (`:243`), and the base is orphaned against that |
| `EveryClosureHasAComment` | 2 workers; orphan, disown, flag | `requests.py:239`: an orphan request filed between the two queries of `handle_request` makes it fail with NotImplementedError (`:92`) |
| `OrphanIsGranted` | 1 worker; orphan, flag, push; an owner and a co-maintainer | `serve.py:474` says pushing to an orphan grants nothing; co-maintainers stay when a base is orphaned automatically (`routers/pkgbase.py:878`), and one who pushes becomes maintainer |
| Accounts `SuspendedHasNoSession` | 2 workers; login, edit | `users/update.py:162`: a login checked before the suspension commits after it, and `authenticate` does not look at `Suspended` |
| `SuspensionIsLiftedByElevated` | 2 workers; login, edit; deadlocks | `users/update.py:49`: `simple` runs again with the row read again but not the permission, and the user's own form lifts a suspension |
| `SessionKnowsPassword`, without the users in `kept` who changed their own | 1 worker; every handler; deadlocks | `users/update.py:140`: `password` runs again after the password is committed, finds it valid and leaves the session that was opened with the old one |
| `ExpiryDeletesOnlyExpired` | 2 workers; login | `auth/__init__.py:118`: the expiry check deletes by `UsersID` the session that a login has just renewed (`doc/web-auth.md:94`) |
| Addresses `StepVerifiesItsOwn` | 2 workers | `accounts.py:439`: a link followed while the address changes verifies the new one |
| `StepWaitsForCooldown` | 2 workers | `accounts.py:461`: two forms pass the cooldown ("guards against mail-bombs", `verify.py:11`) |
| AccountMaint `StepSparesTheUnwarned` | mails are lost | `accountmaint.py:144`: the token is committed before the mail, which is not sent again |
| `StepSparesTheUnwarned` | 2 accounts; register and suspend, or verify | `accountmaint.py:146`: all notifications are built from what the rows say after that commit; where one account has been suspended or verified since, the exception ends the run, and nobody it read is mailed again in the band |
| | 2 accounts, one is suspended | `:146`: it ends the run before the other's mail |
| | a login | `:107`: it keeps the account out of the warning band, not out of the deletion |
| `StepDeletesLater` | warning 3, lifetime 4, gap 2 | `:193`: the run that warns goes on to delete |
| `StepSparesAuthenticated` | a login | `:83`, `doc/maintenance.txt:86`: who logged in once is deleted when that is long ago |
| `StepSparesContent` | content | `:170`: what is posted between the query and the DELETE goes with the account |
| `StepSparesVerified` | login, verify, change email | `:126`: a verified account that changes its address is as old as its registration |
| `StepMailsOncePerTtl` | 2 runs at once | `:131`: both mail an account |
| Proposals `OneRunningProposal` | 2 workers at once | `package_maintainer.py:345`: two submissions about one user both pass (no more than workers: `RunningAreBounded`) |
| `OutcomeIsFinal` | 1 worker, 4 ticks | `:272`: the POST handler does not look at the end of the vote |
| `NobodyVotesAboutThemselves` | rename, 3 names | `:260`: a proposal names a username, and usernames change |
| `ActiveUsersAreActive` | any | `:375`: `ActiveUsers` counts the inactive and leaves out NULL (`:48` has it the other way) |
| GitPush `DatabaseMatchesMaster` | 2 sessions | `update.py:515`: the database and the branch may show the push that git refused |
| `StepIsAuthorised` (as `[][…]_vars`) | 1 session; disown or adopt | `serve.py:605`: the maintainer that git-serve has found may lose the base to a web worker before the hook replaces its packages; with 2 sessions the base may also have been created by somebody else |
| `UnchangedInfoLeavesDatabase` | a commit with the same `.SRCINFO` | `update.py:468` says the database will not be updated; the flag goes and the packages are replaced |
| Votes `CountIsRight` | 2 SSH sessions | `serve.py:449`: two sessions withdraw one vote and both subtract |
| `StepLosesNothing` | 2 workers; add, merge | `actions.py:221`: a vote between the move and the deletion of a merge is deleted with the base |
| Comaintainers `SequentialPriorities` | disown | `util.py:112`: the leaving co-maintainer still takes a number |
| `Seniority` | 2 forms at once | `util.py:182`: two co-maintainers with one priority |
| `OneRowPerUser` | 2 forms at once | `schema.py:458`: no unique index, one user twice |
| `MaintainerIsNoComaintainer` | SSH | `serve.py:206`: set-comaintainers takes the maintainer too (`util.py:177` does not) |
| `RemovedAreTold` | deadlocks | `util.py:137`: the retried function finds nobody to notify |
| | elevated | `actions.py:109`: a Package Maintainer who disowns the base of others deletes its co-maintainers, and nobody is told |
| BasePage `MailTellsTheFlag` | SSH flags | `serve.py:363`: the mail names the second user with the first one's comment |
| `KeywordsOfOneForm` | 2 forms at once | `routers/pkgbase.py:131`: neither deletes what the other inserts |
| BulkActions `DeletedIsTold` | delete, and one step of others | `routers/packages.py:454`: a base deleted elsewhere ends the form; those it deleted are neither logged nor mailed |
| `AnsweredAsDone` | unflag, and two steps of others | `:247`: the form answers that a base is unflagged that somebody has flagged anew |
| Notifications `EveryoneIsTold` | sendmail; open, close | `notify.py:88`: the hidden addresses are never given to `sendmail -t` |
| | smtp; users hide and show | `:657`: who shows the address between the two queries is in neither list |
| | open, delete, close | `:729`: a request closed after its base is gone tells nobody |
| | merge | `actions.py:227`: nobody makes the notification of `notify.py:598` |
| Archives `ChecksumIsRight` | 1 kill | `mkpkglists.py:326`: the new checksum next to the old archive (`doc/maintenance.txt:79`) |
| `ArchivesAreWhole` | 2 runs at once | `:236`: one moves the file the other still writes |
| GitArchive `FilesAgree` | 2 runs at once | `git_archive.py:101`: a commit with a file of each run |
| `RepeatedAreOfKills`, with 0 for `crashes` | 1 run, 1 kill, a version that says what an earlier one said | `git_archive.py:39`: the index that a run killed before `:74` has left counts as a change, and the files of the last commit are committed again |
| | 2 runs at once | `:74`: a run whose parent is not the last commit any more leaves such an index too |
| `DataAgree` | 3 queries, 2 versions | `metadata.py:32`: a package with the dependencies of another version |
| RedisCache `Fresh` | 1 kill | `cache.py:60`: a copy without a lifetime |
| `MaximumIsKept` | 1 worker | `cache.py:57`: `>` for `>=`, one result more than configured |
| `MarkedIsReported` | 1 worker | `asgi.py:149`: an error whose report is refused stays marked |
| RateLimit `EveryoneIsAnswered` | Redis, 2 workers | `ratelimit.py:107`: the count expires between two commands and the request fails |
| `LimitIsKept` | table, 2 workers, limit 2 | `:56`: two workers read one count, one request too many |
| `StepRefusesForAReason` | table, 2 workers, limit 2, windows of a tick | `:59`: a row that another worker has written since counts a request that began before the row's window, or (`:56`) is given the count that was read from the row before it |
| Providers `NothingIsForgotten` | 1 run, a package that moves | `aurblup.py:53`: it is found in neither repository |

## Bounds, fairness, deadlock

The constants of a setting are what its property needs: the objects it relates
(one base and two requests, one proposal and three electors, one error), the
process that changes them and one that interferes.  One worker shows what a
handler, its retries and its crashes guarantee when nobody else runs; two show
which of it survives a race.  Counters that the code does not bound (IDs,
tokens, SIDs, versions, the clock) are bounded by a constant whose comment says
so.  Symmetry is used only in runs without liveness and only for values that the
specification and its initial states treat alike.  `CHECK_DEADLOCK FALSE` stands
where the system may stop because one of those bounds is used up or everything
in it has been deleted.

Fairness is stated once, in `MCCron`, for its two liveness properties:
`Recovers` and `NothingWaitsForever`.  A fair
action there is that of the setting, so that each conjunct is the fairness of
the component at hand:

- `WF(ScriptStep(r))`: cron starts each script again and again
  (`doc/maintenance.txt`), and a run that is not killed ends.
- `WF(HandlerStep(w))`: handlers run to their end or are cut off.
- `WF(CountAges)`: a count falls behind popupdate's interval at some time.
- `SF(Sometimes)`: time passes even if runs of accountmaint follow each other
  closely (`Tick`); aurweb-popupdate finds a moment although handlers come and go
  (`Counts!Cron`); and not every run of requestmaint dies before its commit
  (`SweepWrite`).

Users owe nothing in any of them.

## Proofs

Each proof is an inductive invariant: it holds initially, every step keeps it,
and it implies the property.  There is one lemma per action, and lemmas for the
steps that many actions share.  The theorems hold for every value of the
constants that the named ASSUMEs of the module allow: sets of any size, any
number of workers, runs or sessions, unless a hypothesis is listed.

| Module | Theorem | Property | Hypothesis |
|---|---|---|---|
| PackageRequestsProofs | `TypeCorrect` | `TypeOK` | – |
| | `RemovalTracked` | `RemovalIsTracked` | – |
| | `AdoptionGiven` | `GrantedAdoptionWasGiven` | – |
| | `BaseIsNotTaken` | `NobodyTakesABase` | – |
| | `AdoptionFiledOnce` | `OneFiledAdoption` | one worker |
| | `ClosureHasAComment` | `EveryClosureHasAComment` | one worker |
| | `OrphaningIsAsked` | `OrphaningNeedsARequest` | one worker; no request is closed by hand |
| | `HandledAreClosed` | `AutogeneratedIsClosed` | one worker that is not killed; no request is closed by hand |
| AccountsProofs | `TypeCorrect` | `TypeOK` | – |
| | `RanksStay` | `NobodyOutranks` | – |
| | `GoneAreLoggedOut` | `GoneHasNoSession` | – |
| | `LiftedByElevated` | `SuspensionIsLiftedByElevated` | one worker, or no deadlocks |
| | `SessionsFollowAccounts` | `SuspendedHasNoSession`, `SessionKnowsPassword` | one worker that is not killed |
| | `AddressTypes` | Addresses `TypeOK` | – |
| | `MailboxesAreTheirs` | `OneAccountPerMailbox` | – |
| | `LinksAreTheirs` | `StepVerifiesItsOwn`, `StepWaitsForCooldown` | one worker |
| ProposalsProofs | `TypeCorrect` | `TypeOK` | – |
| | `ImplementsElection` | `ElectionSpec` | one worker |
| | `RunningStayBounded` | `RunningAreBounded` | finitely many workers |
| | `OneRunning` | `OneRunningProposal` | one worker |
| | `RemindersReachEveryone` | `EveryoneIsReminded` | cron runs as often as it should |
| GitPushProofs | `TypeCorrect` | `TypeOK` | – |
| | `HistoryStaysFine` | `HistoryIsFine` | – |
| | `MasterOnlyMovesForwards` | `OnlyFastForwards` | – |
| | `WritersWrite` | `OnlyWritersWrite` | – |
| | `PushesAreWhole` | `DatabaseMatchesMaster` | one session that is not killed |
| | `SavesAreAuthorised` | `StepIsAuthorised` | one session; web workers neither disown nor adopt |
| VotesProofs | `TypeCorrect` | `TypeOK` | one worker that is not killed |
| | `CountStaysRight` | `CountIsRight`, `UnvoteIsNotRefused` | no worker is killed; one worker, or neither merges nor unvotes over SSH |
| | `NothingIsLost` | `StepLosesNothing` | one worker |
| | `PageTypes` | BasePage `TypeOK` | – |
| | `RenderedAsWritten` | `RenderedIsTheText` | one worker |
| | `KeywordsAreOfOneForm` | `KeywordsOfOneForm` | one worker, or keywords are only set over SSH |
| | `MailsTellTheFlag` | `MailTellsTheFlag` | one worker; bases are only flagged on the web |
| | `FlagStaysAsSet` | `StepKeepsFlag` | one worker, or bases are only flagged over SSH |
| ComaintainersProofs | `TypeCorrect` | `TypeOK` | – |
| | `EachOnce` | `OneRowPerUser` | one worker |
| | `LineIsBySeniority` | `Seniority` | one worker; no set-comaintainers over SSH |
| | `PrioritiesAreSequential` | `SequentialPriorities` | one worker; neither disowning nor deadlocks |
| | `MaintainerStaysApart` | `MaintainerIsNoComaintainer` | one worker; neither adopting nor set-comaintainers over SSH |
| | `TheRemovedAreTold` | `RemovedAreTold` | one worker; no deadlocks; no Package Maintainer disowns the base of others |
| | `BulkTypes` | BulkActions `TypeOK` | – |
| | `ErrorsDoNotStop` | `ErrorsStopNothing` | – |
| | `FailuresHaveReasons` | `FailsForAReason` | – |
| | `DoneIsDone` | `AnsweredAsDone` | one worker; nobody else writes |
| | `DeletionsAreTold` | `DeletedIsTold` | one worker; nobody else writes |
| | `NotificationTypes` | Notifications `TypeOK` | – |
| | `SuspendedAreSpared` | `StepSparesSuspended` | – |
| | `OneHeaderEach` | `NobodyTwice` | nobody hides or shows an address, or it is a command |
| | `HiddenStaysHidden` | `HiddenIsNotShown` | nobody hides or shows an address |
| | `AllAreTold` | `EveryoneIsTold` | no merge; no closing of requests where bases are deleted; for requests SMTP, and as for `OneHeaderEach` |
| RedisCacheProofs | `TypeCorrect` | `TypeOK` | – |
| | `ServedAreFresh` | `Fresh` | no worker is killed |
| | `ErrorsAreReportedOnce` | `ReportedOnce` | – |
| | `ResultsStayBounded` | `ResultsAreBounded` | – |
| | `PassesStayBounded` | RateLimit `TypeOK` | – |
| | | `PassesAreBounded` | in Redis; or one worker |
| | `RefusalsHaveReasons` | `StepRefusesForAReason` | in Redis; or one worker |
| | `NobodyIsRefusedEarly` | `StepRefusesNobodyEarly` | – |
| CronProofs | `TypeCorrect` | GitArchive `TypeOK` | – |
| | `RepeatsAreOfKills` | `RepeatedAreOfKills` | one run at a time, killed or not |
| | `FilesOfOneRun` | `FilesAgree` | one run at a time |
| | `AccountTypes` | AccountMaint `TypeOK` | – |
| | `MailsOncePerTtl` | `StepMailsOncePerTtl` | one run at a time |
| | `SparesTheUnwarned` | `StepSparesTheUnwarned` | one run at a time, neither killed nor losing mails; nobody logs in; one account, or nobody is verified or suspended |
| | `ArchiveTypes` | Archives `TypeOK` | – |
| | `OneRunIsWhole` | `ArchivesAreWhole` | one run at a time, killed or not |
| | | `OneSnapshot`, `ChecksumIsRight` | one run at a time that is not killed |
| | `ProviderTypes` | Providers `TypeOK` | – |
| | `QuietRunIsRight` | `StepIsRight` | one run at a time |

"One worker" is one handler of the component at a time: its own crashes, retries
and steps of cron, time and whatever else the module lets happen in one step
still come between its transactions.

The hypotheses are needed.  The runs ProposalsTwoBallots and GitPushCrash violate
the refinement with two workers and `DatabaseMatchesMaster` with a crash, and the
table of divergences has the steps for most of the others: `OneFiledAdoption`,
`EveryClosureHasAComment`, `SuspendedHasNoSession`, `SuspensionIsLiftedByElevated`,
`OneRunningProposal`, `CountIsRight` and `StepLosesNothing` with two workers,
`OrphaningNeedsARequest` with a request closed by hand, `DatabaseMatchesMaster` with
two sessions, `StepIsAuthorised` with a web worker who disowns or adopts, `Fresh` with
a killed worker, and `FilesAgree` and `RepeatedAreOfKills` with two runs.
TLC refutes each of the five theorems for one worker of ComaintainersProofs for two
workers and forms (with successions for the last two), and each of them where one
of the operations is added that its hypothesis excludes (3 users, 4 rows).
`AutogeneratedIsClosed` and `SessionKnowsPassword` fail where a worker dies between
the transaction that inserts or sets something and the one that follows it up.
TLC refutes `StepMailsOncePerTtl` with two runs, and `StepSparesTheUnwarned` with
two runs, a killed one, a lost mail, a login (it keeps the account from being warned
and grows old after that), or two accounts of which one is verified or suspended
while the run is at work.
For two workers or two runs TLC also refutes `StepVerifiesItsOwn`,
`StepWaitsForCooldown`, `RenderedIsTheText`, `KeywordsOfOneForm` (two forms),
`MailTellsTheFlag`, `StepKeepsFlag` (two forms), `ArchivesAreWhole` and `StepIsRight`;
it refutes `ChecksumIsRight` for one run that is killed once, and `MailTellsTheFlag`
for one worker who flags over SSH.
TLC refutes `AnsweredAsDone` and `DeletedIsTold` with two workers, and with one worker
beside steps of others; `NobodyTwice` and `HiddenIsNotShown` where users of the web
hide and show their addresses; and `EveryoneIsTold` with each of what its hypothesis
excludes: a merge, a request closed when its base is gone, sendmail, and for requests
an address that is hidden or shown between two queries.
With two workers on the table TLC refutes `StepRefusesForAReason` (see the table of
divergences).

Where the theorems of several components are in one module, it instantiates the
others: AccountsProofs has Addresses as `Addr`, VotesProofs BasePage as `Page`,
ComaintainersProofs BulkActions and Notifications as `Bulk` and `Note`,
RedisCacheProofs RateLimit as `Rate`, and CronProofs AccountMaint, Archives and
Providers as `Maint`, `Arch` and `Prov`.  The variables whose names the extended
component uses are renamed (`users` and `task` for `row` and `job`, `form` for the
`job` of BulkActions; `clock` and `jobs` for `time` and `job`, as in MCRedis;
`process`, `database` and `killed` as in MCCron); those that components call alike are theirs in turn, for
each theorem is about the specification of one component.

### PackageRequests

`PackageRequestsProofs` proves:

- `TypeCorrect`: `Spec => []TypeOK`.  `TypeOK` is inductive: its clause that a
  handler that is not over has a user and a base is what makes every record
  written from a job's variables well typed.  There is one lemma per action;
  `JobUpdate` and `FinishType` carry the common case of a step that only moves
  a handler on.

- `RemovalTracked`: `Spec => RemovalIsTracked`.  The property is about the one
  step that deletes; it is not inductive, because the step that accepts the
  request is another one, and the deletion comes any number of steps of other
  handlers later.  `Tracked` says what a handler knows in between: from the
  moment `handle_request` reads its accept list to the commit that closes it,
  the list holds filed requests about the handler's base and type and, for a
  merge, its target (`Matches`); it is not empty when `close` starts; and a
  handler that is about to delete, merge or orphan has one of them among the
  accepted.  The accept query of a deletion does not look at the target, which
  such a request may have as well: nothing is said of it there.  What lets the other handlers'
  steps pass is `RowsKept`: no step removes a row of `PackageRequests` or
  changes what it is about (`DeleteKeepsRows`: deleting a base clears
  `PackageBaseID` but leaves `PackageBaseName`).  A retry resumes before the
  read or where it was (`FaultTracked`).  `DeletingStep` then says that no
  other step deletes a base.

The other theorems are about who gets a base.  `Granting` strengthens the first two
properties (`AdoptionGiven`, `BaseIsNotTaken`) by what a handler still knows of its checks when others have
moved since (`JobGrants`): that `held`, the maintainers a base has had, contains
whoever a role was looked up for, and that the author of an adoption request that
is about to be accepted is among them.  All that a step does to a row that is
there is in `Touched`, so that "what the request is about" is settled once for all
handlers.

The last four are for one worker; each says what its handler has found and
nobody else can have changed.  `AtMostOneAdoption`: while it is about to insert an
adoption request there is none.  `CommentedJob`: what `handle_request` has read to
accept is all there is of an orphan or deletion request, so that nothing is left
to reject, for which `get_closure` has no comment.  `Due`: the due request that
`verify_orphan_request` has found is still pending when the accept list is read
(`DueStays`, where "nobody closes by hand" comes in), so the list is not empty.
`HandledJob`: a request that the handler has inserted is on one of its two lists
until it is closed, and a retry finds it again.  The last does not survive a
process that dies in between, nor the base being deleted under it, which one
worker excludes.

The assumptions are the four named ASSUMEs of the module: elevated users are
users, and the three NULL values are none of the values they stand beside.

### Accounts

`IType` adds to `TypeOK` that a SID is below the next one to give out and that a
handler has an account; `IKnown` that nothing is at work on an account before it is
registered.  `RanksAreBounded` bounds the types in the table together with the
type in every form that is on its way, which is why no interleaving of forms helps
anyone up.  `FormsAreChecked`: a form that changes Suspended is an elevated user's,
compared with what was loaded; it is inductive for any number of workers, but
says nothing of the row of the moment.  That takes `NothingIsRetried` or, with
retries, `LoadedIsCurrent`, which only a single worker keeps.

Sessions are not right at every moment: `account_edit_post` sets a password in one
transaction and ends the session in another.  `ISettled` therefore says it of the
accounts nobody is at work on, and `Settling` says, for each position of a
handler, what is still to come: after `editPassword` the session may be one of the
old password until `editLogin` (and stays one if that deadlocks, which is why the
owner is in `kept` then), after a suspension it may be there until
`editSuspend`.  A handler of one account leaves the others settled.

### Addresses

The unique index is over NormalizedEmail, which is NULL for accounts from before it
was there, so it does not see those.  `IBox` says what does: a grandfathered account
has the address it always had (`Kept`); nobody else claims its mailbox (`Apart`); and
an address that a form is about to write is not that of a grandfathered account
(`Clear`).  The last is what `email_in_use` has found, and it lasts: the only step
that gives a grandfathered account another address also fills its NormalizedEmail,
so it leaves `Clear` and is under the index.  That is why there is no hypothesis on
the number of workers, although the forms look first and write later.

`IOwn` is for one worker: the token of a handler that verifies was mailed, and an
account whose address is about to be changed or mailed is not cooling.  That no two
accounts have the same token (`IAddrType`), so that a link finds one account, is
independent of it.

### Proposals implement Election

`ReadIsRight` says what makes the transaction of a ballot right: the counter
and the absence of a vote a handler has read are still those of the tables.
With a single worker no other ballot comes between; what does come between is
the deletion of an account, which takes its rows in `Votes` and, by the refinement
mapping, its elector.  Each action then maps to a `Cast`, to a `Leave`, or to
no step of Election.  Deleted accounts leave their ballots in the tallies and
take the proposals they submitted with them; both are part of `Leave`.

`RunningStayBounded` counts: while a proposal about a name runs, those that run and
the handlers that have passed the check and not inserted yet are together no more
than the workers (`Bounded`).  A handler passes the check only when none runs, and
its INSERT takes it from the one number to the other; deaths and the end of a vote
make the numbers smaller.  The proposal names a username, not an account, so that
renaming does not matter (`SameVote`: no step changes whom a row is about or when
it ends), and a proposal that was over does not run again (`StillRunning`).
`OneRunning` is the same bound where there is one worker, and two rows that run
are the same one.

`RemindersReachEveryone` is about time.  `NoneIsMissed`: every proposal is on the
list of the running cron job, or everybody who can vote has voted or been
reminded (`Covered`), or the next run comes before its window closes (`NotYet`).
`CronIsOnTime` says that the clock has not overtaken the next run and that no
window of a listed proposal has closed.  Two assumptions came out of the proof.
`WindowAssumption` is strict, `RangeEnd < Duration[t]`: a vote as short as the
window that is proposed right after a run would end one tick before the next.
The default configuration keeps it, 2 days against votes of 5 and 7 days.
And `NoProposalAssumption` tells a row that was deleted from an ID that was not
given yet.

### GitPush

`IType` strengthens `TypeOK`: an ID of `PackageBases` is given out once, every
package refers to an existing base, and a session that has written packages
knows the base's ID.  The constant bound `MaxId` is at least the number of
bases, so that the initial bases have different IDs.

`IChecked` follows a session: the commit git advertised was once the master or
branch of the base, and from the check of the hook on, every commit of the new
one's past is fine and (but for a privileged user who asked to overwrite) the
past contains the old commit's.  It is needed because the hook checks only the
commits since the advertised one: the rest are fine because the advertised one
was.  `UpdateMaster` is git's compare-and-swap against that commit, which makes
the step a fast-forward however many sessions race.

`PushesAreWhole` needs to know, at each position of the hook, how far the three
copies have got (`IWhole`).  `BasesAreRight`: a base that the session is not at work
on has the packages of its branch, which is its master.  `KnowsRefs`: the commit
advertised is still master, and from "git" on the branch is the new commit.
`KnowsPackages`: from the check to the last save no other base has taken a name
(`Open`), and while the packages are written one by one those that are written are
the new commit's and those to do are free (`Written`).  A base that is deleted
meanwhile takes all of this with it, one that is disowned or adopted none.
`FreeIsFree` and a condition in `Init` say that initial bases do not share a
package, as the unique index of `Packages` demands: without the latter the property
did not follow from the initial states.

`WritersWrite` is `IWriters`: from its beginning on, whoever is at work in a session may
write to its base or is in `overtaken`.  git-serve has seen to that at the first
step; afterwards a step that takes the access away is the one that records it.  What
the invariant excludes is a session that gets past git-serve without access, or
writes to another base than the one that git-serve has looked at.

`SavesAreAuthorised` is `StillAllowed`: what git-serve has looked up still holds when
the hook saves, unless the base is gone: no web worker changes owners here, and a
base that is deleted in between can be created again only by a session.  Adopting
and disowning are excluded because they do change owners in between.

### Votes

`Knows` is what a handler that is not disturbed still knows of what it has read:
an unvote over SSH, that its row is there; a merge, what the target has.
`mergeMove` leaves in place exactly the rows whose counterpart the target had when
it was read, and moves the rest, so that from `mergeCount` on every row of the
merged base has a counterpart in the target: that is `StepLosesNothing`, one step
before the rows are deleted.  `Apart` is when workers do not disturb each other:
one of them, or none that merges or unvotes over SSH; the others need no more than
that the base is there.

`ICounts` is `CountIsRight`.  It is inductive given `Knows`: `OneMore` and `OneLess`
are the arithmetic of `NumVotes + 1` and `- 1`, and `OneVoteEach` that votes of a
base are no more than users, by the injection from a vote to its user.  `IBounded`
needs `Right` at every SSH vote, so that two workers break the bound: one has
withdrawn a vote and not counted yet, the other adds it over SSH.  That several
workers may also merge one base at a time (setting `votes race`) is checked by TLC
only: it restricts behaviours, not the constants.

### BasePage

`PageJobOK` says what a handler holds at each position: one comment while it edits,
renders and saves, none otherwise.  Each step is of one kind (comments, keywords or
the flag), leaves the data of the others alone and the workers that do something
else (`Within`); so each of the invariants has to be looked at for the steps of one
kind only.  `IText`: the HTML to be saved is that of the text, and all comments but
the one in hand are as written.  `IKeys`: what is there, without what a form deletes
and with what it inserts, is what was submitted (`KeysOK`).  `IFlag`: a handler that
is about to flag found no flag, and there still is none.  `IMails`: a mail that is
due names a flag that was set.  `IKeys` and `IFlag` only need that nobody else is at
work when such a form is, so SSH alone may have any number of workers
(`Undisturbed`): its commands look and write in one transaction.

### Comaintainers

`Numbered` is what makes the types inductive: no priority that a handler is about
to write exceeds the rows that were inserted.  It rests on `FewUsers` (an injection
from the users in the table to the places of their rows) and `LatestIsLargest`.
`Smallest` and `Largest`, the least and the greatest element of a set of numbers,
come from the well-foundedness of < on the naturals: `LatestPriority` and `Prio`
choose an element, and without these lemmas nothing is known of it.

The rest is for one worker.  `Knows`: what a handler is about to add has no row
yet, the priority it has computed is one more than the largest, and what
set-comaintainers removes is whoever is not on its list.  `OneRowPerUser` follows,
with it `Stale` is empty (`NothingStale`), so that no rotation fails, and ranking
gives everybody exactly the number of the user (`RankedOnce`).  Then

- `SeniorityStep`: `Rankings` keeps the order, and a new row is behind all others;
- `FilledStep`: an injection of n users into 1..n leaves no number out
  (`NumberingFills`), so that the largest priority is n and the next one n + 1;
- `ApartStep`: `add_comaintainer` has compared with the maintainer, and the
  successor's row is deleted with the succession;
- `TellingStep`: whoever waits for a mail is on the list of the handler, and a
  handler that is not about to send has nobody waiting.

### BulkActions

`BulkInv` has the types, and what `DeletedIsTold` and the types need of the tables:
what was told was deleted, what was deleted is no base, a form of deletions has done
only what was deleted.  Every action of the form changes its record in one of a few
ways (`Skips`, `Writes`, `Does`, `Misses`, `Failed`, `Finished`), each with a lemma of
what it does to a record that is right (`FormOK`): what is still to do, done, missed
or an error is together what was selected.  `Local`: a write leaves the rows of the
other bases as they are.  `ErrorsStopNothing` follows from the first, `FailsForAReason`
from what `Breaks` asks for.

`Fresh`, for one worker and nobody else: the columns that the session holds are those
of the tables (`FreshColumns`), the bases still to do are there, and the user may still
do to them what the form checked (`Allowed`).  So no write breaks (`FreshBreaks`),
none is left out because the session thinks that the row says so already, and a base
that is skipped has what it was asked for (`FreshApplies`).  Two forms, or a form and
one step of somebody else, break it.

### Notifications

`Going` says what a handler in the middle of an event knows: the base exists until the
change that deletes it, which is why the mails of `MadeFirst` find somebody.
`StepSparesSuspended` needs no invariant: all queries but one leave out the suspended.
`ListsInv`: a mail about a request has no To, others neither Cc nor Bcc; Cc and Bcc
have nobody in common when nothing is hidden or shown between the two queries
(`Steady`), and Cc nobody hidden when nothing ever is.

`ReachInv` follows who is due from the event to the mail.  Before the queries they are
among those whom the event concerns in the present state (`Concerns`): a step that takes
somebody from these also takes the user from `due`, because to leave is not to be
forgotten.  Between `get_cc` and `get_bcc` they are in Cc or in what `get_bcc` will find,
and then in one of the three headers.  `RecipientsConcern` says that the queries find
all whom `Concerns` names.  SMTP gives all three lists to the server.

### RedisCache

`LifetimesAreSet` and `ReplacedInTime`: a copy without a lifetime has a worker
that is about to set it, and that worker began no later than a tick after the
copy was made, because a request lasts one tick; so even a lifetime set by
another worker's EXPIRE comes in time.  A killed worker breaks the first.
`IReported` adds to the reports of an error the workers that are about to
report it: while the mark lives nobody joins them, and the mark outlives them
(`MarkLifetime` is more than one tick).  `IBounded` adds to the stored results
the workers that have found room for one.

### RateLimit

`LimitInv` is one invariant for Redis and the table.  `HistoryOK`: a request under
way is one that was asked (`Number` counts the workers that do something), and what
is let through and what is under way together are no more than what was asked.

Refusals.  `RedisOK` bounds the count by the requests since it began (`Era`): the
window and the count expire together, so a live count without a live window was
created by an INCR after both had expired.  Who is about to increase it is counted
with it, for a request that found the window alive may come to the count of the next
one (`Increase` without a lifetime).  Requests last a tick at most, so the era began
no more than a window and a tick before the refusal.  In the table `TableOK` says
only that no number exceeds what was ever asked: what a worker has read may be
written to the row of a later window.  That is `StepRefusesNobodyEarly`; with one
worker (`AloneOK`) what was read is what there is.

Passes.  `PassesOK` says of each stretch of time that began less than a window ago
how many requests can still be let through before it ends (`Room`): what is left of
the live count for those that are counted (`Left`); for each worker that is about to
begin the window anew a whole limit, and those that were counted in the window
before and are checked in this one (`Starts`).  A worker that begins the window
cannot do so twice in a stretch, because the window it begins outlives a stretch
that is not longer; when the stretch ends later than the live window, the workers
can all begin it once more.  Hence `(1 + W) * Limit + W * W` for W workers, which is
no bound that the code promises, but the one its order of commands keeps.  With one
worker on the table a stretch meets two windows at most (`AloneIn`).

### GitArchive

`IRepeated`, for one run that may be killed: the commits that repeat the one before,
and one more if such a commit may follow (`Owed`), are no more than the kills.  It
may follow when a run has staged the files of the last commit, or when none is
staging and the index is not that of the last commit; only a kill between `Add` and
`CommitNow` brings about the latter.  `Stage` says what such a run knows: it has
found a difference, its tree is the index, and its parent the last commit.
`CommitRepeats` is the step that takes what was owed for a repeated commit.

`IProgress`, for one run: the files before the next one are written from the run's
data, whatever a killed run has left in the others.  All that, and no more, is
rewritten before the commit.

### AccountMaint

CronProofs instantiates AccountMaint and calls its runs `process`, as MCCron does.
`IMail`: a token and the reminder it came with are together as old as the TTL, so
that a row read with a token that has run out is one whose reminder is at least a
TTL old; the new token is in the database before the mail goes out.  No time passes
within a run, which is what makes one run at a time matter.

`IWarn` says where an account that waits to be warned can be.  Never mailed, it is
older than the warning by no more than the time since the last run (`AgeOK`), for
that run read it: its first token had run out by then, because `check_config` wants
the TTL below the warning (`TokenOK`), and the gap is no longer than the TTL, the
width of the band.  So it is younger than the lifetime whenever `_delete` reads.
Once mailed, its reminder stays younger than the lifetime (`ReminderOK`), because
the row is deleted at the first run after its lifetime (`DeleteOK`); a reminder
does not get so old that the model would take it for none.  That the run which read
an account also mails it is `ReadOK`, with the hypothesis that nothing ends the run
on the way.

### Archives

`ArchiveTypes` holds for any number of runs and kills.  That `Opened` finds a file is
a matter of numbers: each run has at most one file of a name open, so those and the
archive are no more than the runs and one, and a run that is about to open has none
(`FreshFile`).  That a run which has written the last of `Others` may go on with the
first of `Names` needs that there are no more of the one than of the other
(`OthersAreFewer`).

`IArch` is for one run, which may be killed: no file is written by two, no archive
is a part of one, and each name is in one of three states.  It is being written
(`Writing`): the temporary file is the one the run has open.  It is made (`IsMade`):
the temporary file holds the run's snapshot.  It is moved (`IsMoved`): archive and
checksum are of that snapshot.  A run that ends has moved all names, which is
`Snapshot`; a killed one leaves some names moved and others not, or a checksum that
is ahead of its archive, so `Snapshot` is claimed only while nothing was killed.
That the archives are whole does not depend on it, for a temporary file that a
killed run left is emptied when it is opened again.

### Providers

`IRight`, for one run: while nothing changed since it began, what it has found of a
provider is the last of the repositories read so far that has it (`LastOf`), and the
table is still as it was compared.  `OneMore` adds a repository; `LastOfAll` says
that after the last one this is the CHOOSE of `Last`.  `CommitsWhatItFound`: deleted,
created and moved rows together make the table what was found, and with one run
there are no conflicts.

### What is only model-checked

- Liveness (`Recovers`, `NothingWaitsForever`): the prover does not do it.
- Nothing is proved of what is outside the hypotheses in the table of theorems: there
  only the instances of the runs and of the divergences speak.  Inside them every
  safety property of the runs has a theorem.

## Not modelled

- Search and RPC (`rpc.py`, `packages/search.py`): read-only queries and
  argument checks, without state.  The limit on them is in RateLimit and their
  cached results are in RedisCache.
- Pages, feeds, templates, filters and translations: they show what the tables
  hold.
- Start-up, middleware, metrics, logging, configuration and the development
  supervisor `spawn.py`: I/O around the handlers.
- A process that is killed while libgit2 writes the index or a branch: it leaves a
  lock file, which every later run meets until an operator removes it.
- Markdown rendering: a function of the text, by third-party libraries.  That
  the HTML saved is of the text saved is `RenderedIsTheText`.
- Migrations, seed data, `aurweb-adduser`, `aurweb-config`: run by an operator
  with the site down.
- Test support, and `pkgmaint.py`, which does nothing.
- Of modelled components: SSH keys, bans, captchas and terms of service of
  accounts; the comments a merge moves; popularity; listings of proposals; the
  ban list and maintenance mode of git-serve; the parser of the legacy hook.
  `PROJECT.json` says so at each component.
- What a notification makes of a server that refuses it: `Notification.send`
  logs and forgets (`StepSparesTheUnwarned` with lost mails shows one consequence).
