----------------------------- MODULE MCAccounts -----------------------------
(***************************************************************************)
(* Small instances of Accounts for TLC.  A behaviour has a setting: a      *)
(* Package Maintainer and a user who are logged in, of whom one may be     *)
(* suspended or two forms may race; or one account from its registration   *)
(* to its deletion, with one handler at a time or with two.                *)
(***************************************************************************)
EXTENDS Accounts, FiniteSets, TLC

CONSTANTS pm, u1, c1, c2, p1,
          Setting      \* the settings that a run explores

VARIABLE setting

Everything == {"register", "login", "logout", "sso", "reset", "edit", "delete"}

Suspend == INSTANCE Accounts WITH
    Ops <- {"login", "sso", "edit"}, Faults <- {"deadlock"}, Secret <- {p1}
Ranks == INSTANCE Accounts WITH
    Ops <- {"edit"}, Faults <- {}, MaxSid <- 2, Secret <- {p1}
Reset == INSTANCE Accounts WITH
    Ops <- Everything, Faults <- {"deadlock"}, User <- {u1}
Gone == INSTANCE Accounts WITH
    Ops <- Everything, Faults <- {"crash", "deadlock"}, User <- {u1}, MaxSid <- 2,
    Secret <- {p1}

\* pm and u1 have logged in a while ago, from c1 and c2; or u1 is not
\* registered and nobody is logged in.
SettingInit ==
    /\ setting \in Setting
    /\ acc = [u \in User |-> [type |-> IF u \in Staff THEN 2 ELSE 1,
                              suspended |-> FALSE, passwd |-> p1, key |-> FALSE]]
    /\ job = [w \in Worker |-> IdleJob]
    /\ kept = {}
    /\ IF setting \in {"suspend", "ranks"}
       THEN /\ here = [u \in User |-> "here"]
            /\ session = [u \in User |-> [sid |-> IF u = pm THEN 1 ELSE 2, age |-> "live"]]
            /\ cookie = [b \in Browser |-> IF b = c1 THEN 1 ELSE 2]
            /\ nextSid = 3
            /\ opened = [u \in User |-> p1]
       ELSE /\ here = [u \in User |-> IF u = u1 THEN "new" ELSE "here"]
            /\ session = [u \in User |-> NoSession]
            /\ cookie = [b \in Browser |-> 0]
            /\ nextSid = 1
            /\ opened = [u \in User |-> NoPass]

OneHandler == Cardinality({w \in Worker : ~ Idle(w)}) <= 1

SettingNext ==
    /\ setting' = setting
    /\ \/ setting = "suspend" /\ Suspend!Next /\ OneHandler'
       \/ setting = "ranks" /\ Ranks!Next
       \/ setting = "reset" /\ Reset!Next /\ OneHandler'
       \/ setting = "gone" /\ Gone!Next

SettingSpec == SettingInit /\ [][SettingNext]_<<vars, setting>>

\* A session outlives neither the suspension of its account nor the deletion,
\* and after a reset whoever has one knows the new password (update.suspend,
\* account_delete_post, passreset_post).
SessionsEnd ==
    /\ TypeOK
    /\ setting = "suspend" => SuspendedHasNoSession
    /\ setting = "reset" => SessionKnowsPassword
    /\ GoneHasNoSession

WorkerSymmetry == Permutations(Worker)
=============================================================================
