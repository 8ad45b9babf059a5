------------------------------ MODULE Election ------------------------------
(***************************************************************************)
(* What a vote of the Package Maintainers promises: every ballot of an     *)
(* elector is counted once, and nobody casts two on one proposal.          *)
(* Proposals implements it.                                                *)
(***************************************************************************)
EXTENDS Naturals

CONSTANTS Elector, Proposal, Decision

VARIABLES
    electors,   \* the electors whose accounts still exist
    cast,       \* who has cast a ballot on a proposal
    tally       \* how many ballots of each kind a proposal has

vars == <<electors, cast, tally>>

NoBallots == [d \in Decision |-> 0]

Init ==
    /\ electors = Elector
    /\ cast = [p \in Proposal |-> {}]
    /\ tally = [p \in Proposal |-> NoBallots]

Cast(u, p, d) ==
    /\ u \in electors \ cast[p]
    /\ cast' = [cast EXCEPT ![p] = @ \cup {u}]
    /\ tally' = [tally EXCEPT ![p][d] = @ + 1]
    /\ UNCHANGED electors

\* An elector's account is deleted: the ballots stay counted.  The proposals
\* the elector has submitted are gone.
Leave(u, gone) ==
    /\ u \in electors
    /\ electors' = electors \ {u}
    /\ cast' = [p \in Proposal |-> IF p \in gone THEN {} ELSE cast[p] \ {u}]
    /\ tally' = [p \in Proposal |-> IF p \in gone THEN NoBallots ELSE tally[p]]

Next ==
    \E u \in Elector :
      \/ \E p \in Proposal, d \in Decision : Cast(u, p, d)
      \/ \E gone \in SUBSET Proposal : Leave(u, gone)

Spec == Init /\ [][Next]_vars
=============================================================================
