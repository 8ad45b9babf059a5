------------------------- MODULE MCPackageRequests -------------------------
(***************************************************************************)
(* Small instances of PackageRequests for TLC.  All handlers at once are   *)
(* too many for one instance, so that a behaviour has a setting: the       *)
(* handlers, the faults, and the users and bases that act in it.           *)
(***************************************************************************)
EXTENDS PackageRequests, TLC

CONSTANTS pm, u1, u2, b1, b2, b3,
          Setting      \* the settings that a run explores

VARIABLE setting

\* Nobody closes a request by hand: OrphaningNeedsARequest does not survive that.
Adoption == INSTANCE PackageRequests WITH
    Ops <- {"adoption", "orphan", "adopt", "sshAdopt", "disown", "sweep"},
    Faults <- {"crash", "deadlock"}
Orphan == INSTANCE PackageRequests WITH
    Ops <- {"orphan", "disown", "flag", "comaint"}, Faults <- {"crash", "deadlock"}
Tidy == INSTANCE PackageRequests WITH
    Ops <- {"deletion", "orphan", "adoption", "adopt", "disown", "delete"},
    Faults <- {"deadlock"}
Grants == INSTANCE PackageRequests WITH
    Ops <- {"adoption", "adopt", "close", "sweep"}, Faults <- {},
    User <- {pm, u1}, Base <- {b1}
Disown == INSTANCE PackageRequests WITH
    Ops <- {"orphan", "disown", "sshDisown", "push", "flag"}, Faults <- {},
    Base <- {b1}
Merges == INSTANCE PackageRequests WITH
    Ops <- {"merge", "close"}, Faults <- {},
    User <- {pm}
Killed == INSTANCE PackageRequests WITH
    Ops <- {"deletion", "merge", "close"}, Faults <- {"crash"},
    User <- {pm}, Base <- {b2, b3}

\* Every base has this maintainer and these co-maintainers.
Owned(u, S, youth) ==
    maintainer = [b \in Base |-> u] /\ comaints = [b \in Base |-> S] /\ young = youth

SettingInit ==
    /\ setting \in Setting
    /\ Init
    /\ setting \in {"adoption", "grants"} => Owned(Nobody, {}, {})
    /\ setting = "disown" => Owned(u1, {u2}, {b1})
    /\ setting \in {"tidy", "merges", "killed"} => Owned(pm, {}, Base)

\* b1 is merged into, and never goes itself.
Stays(b) == \A w \in Worker : job'[w].base # b

\* The forms leave the field for a merge target empty.
NoTargetGiven == \A w \in Worker : job'[w].into = NoBase

SettingNext ==
    /\ setting' = setting
    /\ \/ setting = "adoption" /\ Adoption!Next
       \/ setting = "orphan" /\ Orphan!Next
       \/ setting = "tidy" /\ Tidy!Next
       \/ setting = "grants" /\ Grants!Next /\ NoTargetGiven
       \/ setting = "disown" /\ Disown!Next /\ NoTargetGiven /\ Cardinality(Filed') <= 1
       \/ setting = "merges" /\ Merges!Next /\ Stays(b1)
       \/ setting = "killed" /\ Killed!Next /\ Cardinality({w \in Worker : job'[w].pc \notin Free}) <= 1

SettingSpec == SettingInit /\ [][SettingNext]_<<vars, setting>>

\* Where no worker is killed, handle_request leaks no record.
HandledIsClosed == setting = "tidy" => AutogeneratedIsClosed

\* The rows of PackageRequests and the workers are interchangeable, and so are
\* the bases but b1.
Symmetry == Permutations(ReqId) \cup Permutations(Worker) \cup Permutations({b2, b3})
=============================================================================
