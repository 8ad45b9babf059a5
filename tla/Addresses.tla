------------------------------ MODULE Addresses ------------------------------
(***************************************************************************)
(* The addresses of accounts: registering one, changing it, verifying it   *)
(* with a link and asking for another link.  A handler validates its form  *)
(* in autocommit mode, writes in a transaction and mails after it; the     *)
(* actions are cut there.                                                  *)
(*                                                                         *)
(* An operator whose name ends in _Bug is the definition that follows it,  *)
(* with a mistake that the properties at the end have to catch.  Nothing   *)
(* uses it.                                                                *)
(***************************************************************************)
EXTENDS Naturals, FiniteSets

CONSTANTS
    User,        \* rows of Users; an ID is not given again
    NoUser,
    Address,     \* addresses as they are written
    NoAddress,
    Normal,      \* util.normalize_email: of an address, the mailbox it means
    Null,        \* NormalizedEmail of a grandfathered account
    MaxToken,    \* verification tokens (a bound)
    Worker       \* web workers

\* Assumptions about the constants, which MCForms makes for its instances.
NormalAssumption == \A e \in Address : Normal[e] # Null
BoundAssumption == MaxToken \in Nat

VARIABLES
    row,         \* Users
    nextToken,   \* the token generate_resetkey gives next
    mailed,      \* tokens that are in some mailbox
    job,         \* what the workers do
    original,    \* history: the accounts of before the normalisation
    mintedFor    \* history: the address an account had when a token was issued

vars == <<row, nextToken, mailed, job, original, mintedFor>>

NoRow == [state |-> "none", Email |-> NoAddress, NormalizedEmail |-> Null,
          verified |-> FALSE, token |-> 0, age |-> "expired"]
Removed == [NoRow EXCEPT !.state = "removed"]
IdleJob == [pc |-> "idle", user |-> NoUser, Email |-> NoAddress, old |-> NoAddress]

Here(u)  == row[u].state = "here"
Token    == 1..MaxToken
At(w, pc) == job[w].pc = pc

TypeOK ==
    /\ row \in [User -> [state : {"none", "here", "removed"}, Email : Address \cup {NoAddress},
                         NormalizedEmail : {Normal[e] : e \in Address} \cup {Null},
                         verified : BOOLEAN, token : Token \cup {0},
                         age : {"cooling", "live", "expired"}]]
    /\ \A u \in User : Here(u) => row[u].NormalizedEmail \in {Normal[row[u].Email], Null}
    /\ \A u, v \in User : Here(u) /\ Here(v) /\ row[u].token = row[v].token =>
         u = v \/ row[u].token = 0
    /\ nextToken \in 1..MaxToken + 1
    /\ mailed \subseteq Token
    /\ job \in [Worker -> [pc : {"idle", "register", "edit", "mail", "verify", "resend"},
                           user : User \cup {NoUser}, Email : Address \cup {NoAddress},
                           old : Address \cup {NoAddress}]]
    /\ original \in [User -> Address \cup {NoAddress}]
    /\ mintedFor \in [Token -> Address \cup {NoAddress}]

\* The migration gave the mailbox to one of the accounts that shared it, and
\* NULL to the others.
Init ==
    /\ original \in [User -> Address \cup {NoAddress}]
    /\ row \in [User -> {NoRow} \cup
          [state : {"here"}, Email : Address,
           NormalizedEmail : {Normal[e] : e \in Address} \cup {Null},
           verified : {TRUE}, token : {0}, age : {"expired"}]]
    /\ \A u \in User : original[u] = row[u].Email
    /\ \A u \in User : Here(u) => row[u].NormalizedEmail \in {Normal[row[u].Email], Null}
    /\ \A u, v \in User : row[u].NormalizedEmail = row[v].NormalizedEmail =>
         u = v \/ row[u].NormalizedEmail = Null
    /\ \A u \in User : Here(u) /\ row[u].NormalizedEmail = Null =>
         \E v \in User : Here(v) /\ row[v].NormalizedEmail = Normal[row[u].Email]
    /\ nextToken = 1 /\ mailed = {}
    /\ job = [w \in Worker |-> IdleJob]
    /\ mintedFor = [t \in Token |-> NoAddress]

-----------------------------------------------------------------------------
(* Helpers *)

Goto(w, pc) == job' = [job EXCEPT ![w].pc = pc]
End(w)      == job' = [job EXCEPT ![w] = IdleJob]

\* verify.issue, for an account whose address is e.
Issue(e) ==
    /\ nextToken <= MaxToken
    /\ nextToken' = nextToken + 1
    /\ mintedFor' = [mintedFor EXCEPT ![nextToken] = e]

Issued_Bug(r) == \* the old token again, if there is one
    [r EXCEPT !.token = IF @ = 0 THEN nextToken ELSE @, !.age = "cooling"]

Issued(r) == [r EXCEPT !.token = nextToken, !.age = "cooling"]

InUse_Bug(u, e) == \* does not look at the grandfathered accounts
    \E v \in User \ {u} : Here(v) /\ row[v].NormalizedEmail = Normal[e]

\* validate.email_in_use
InUse(u, e) ==
    \E v \in User \ {u} : Here(v) /\ (\/ row[v].NormalizedEmail = Normal[e]
                                      \/ row[v].NormalizedEmail = Null /\ Normal[row[v].Email] = Normal[e])

\* The unique index on NormalizedEmail, where NULL is no value.
IndexAllows(u, e) ==
    \A v \in User \ {u} : Here(v) => row[v].NormalizedEmail # Normal[e]

\* verify.in_cooldown
InCooldown(u) == row[u].age = "cooling"

-----------------------------------------------------------------------------
(* Registration, and the form of an account *)

RegisterCheck(w) == \E u \in User, e \in Address :
    /\ At(w, "idle") /\ row[u] = NoRow
    /\ \A x \in Worker : ~ (At(x, "register") /\ job[x].user = u)
    /\ ~ InUse(u, e)
    /\ job' = [job EXCEPT ![w] = [IdleJob EXCEPT !.pc = "register", !.user = u, !.Email = e]]
    /\ UNCHANGED <<row, nextToken, mailed, original, mintedFor>>

\* The INSERT, or the IntegrityError that becomes an error of the form.
Register(w) == LET u == job[w].user
                   e == job[w].Email IN
    /\ At(w, "register")
    /\ IF IndexAllows(u, e)
       THEN /\ Issue(e)
            /\ row' = [row EXCEPT ![u] = Issued([NoRow EXCEPT !.state = "here", !.Email = e,
                                                              !.NormalizedEmail = Normal[e]])]
            /\ Goto(w, "mail")
       ELSE End(w) /\ UNCHANGED <<row, nextToken, mintedFor>>
    /\ UNCHANGED <<mailed, original>>

\* account_edit_post: keeping one's address is always allowed.
EditCheck(w) == \E u \in User, e \in Address :
    /\ At(w, "idle") /\ Here(u)
    /\ e # row[u].Email => ~ InUse(u, e) /\ ~ InCooldown(u)
    /\ job' = [job EXCEPT ![w] =
         [pc |-> "edit", user |-> u, Email |-> e, old |-> row[u].Email]]
    /\ UNCHANGED <<row, nextToken, mailed, original, mintedFor>>

\* update.simple: what has changed is what differs from the row as it was
\* read; NormalizedEmail follows Email in _sync_normalized_email.
Edit(w) == LET u == job[w].user
               e == job[w].Email IN
    /\ At(w, "edit")
    /\ IF e # job[w].old /\ Here(u) /\ IndexAllows(u, e)
       THEN /\ Issue(e)
            /\ row' = [row EXCEPT ![u] =
                 Issued([@ EXCEPT !.Email = e, !.NormalizedEmail = Normal[e], !.verified = FALSE])]
            /\ Goto(w, "mail")
       ELSE End(w) /\ UNCHANGED <<row, nextToken, mintedFor>>
    /\ UNCHANGED <<mailed, original>>

\* VerificationNotification reads the token and the address again.
Mail(w) == LET u == job[w].user IN
    /\ At(w, "mail")
    /\ mailed' = IF Here(u) /\ row[u].token # 0 THEN mailed \cup {row[u].token} ELSE mailed
    /\ End(w)
    /\ UNCHANGED <<row, nextToken, original, mintedFor>>

-----------------------------------------------------------------------------
(* Links *)

\* account_verify, for a link out of a mail.
VerifyRead(w) == \E u \in User :
    /\ At(w, "idle")
    /\ Here(u) /\ row[u].token \in mailed
    /\ ~ row[u].verified /\ row[u].age # "expired"
    /\ job' = [job EXCEPT ![w] = [IdleJob EXCEPT !.pc = "verify", !.user = u]]
    /\ UNCHANGED <<row, nextToken, mailed, original, mintedFor>>

\* Its transaction, for the row whatever its token is now.
Verify(w) == LET u == job[w].user IN
    /\ At(w, "verify")
    /\ row' = IF ~ Here(u) THEN row
              ELSE [row EXCEPT ![u].verified = TRUE, ![u].token = 0, ![u].age = "expired"]
    /\ End(w)
    /\ UNCHANGED <<nextToken, mailed, original, mintedFor>>

\* account_verify_resend
ResendCheck(w) == \E u \in User :
    /\ At(w, "idle") /\ Here(u) /\ ~ row[u].verified /\ ~ InCooldown(u)
    /\ job' = [job EXCEPT ![w] = [IdleJob EXCEPT !.pc = "resend", !.user = u]]
    /\ UNCHANGED <<row, nextToken, mailed, original, mintedFor>>

Resend(w) == LET u == job[w].user IN
    /\ At(w, "resend")
    /\ IF Here(u)
       THEN /\ Issue(row[u].Email)
            /\ row' = [row EXCEPT ![u] = Issued(@)]
            /\ Goto(w, "mail")
       ELSE End(w) /\ UNCHANGED <<row, nextToken, mintedFor>>
    /\ UNCHANGED <<mailed, original>>

\* An account is deleted, and its address is free.
Delete(u) ==
    /\ Here(u)
    /\ row' = [row EXCEPT ![u] = Removed]
    /\ UNCHANGED <<nextToken, mailed, job, original, mintedFor>>

\* The cooldown and the lifetime of a token end.
Age(u) ==
    /\ Here(u) /\ row[u].age # "expired"
    /\ row' = [row EXCEPT ![u].age = IF @ = "cooling" THEN "live" ELSE "expired"]
    /\ UNCHANGED <<nextToken, mailed, job, original, mintedFor>>

Next ==
    \/ \E w \in Worker :
         \/ RegisterCheck(w) \/ Register(w) \/ EditCheck(w) \/ Edit(w) \/ Mail(w)
         \/ VerifyRead(w) \/ Verify(w) \/ ResendCheck(w) \/ Resend(w)
    \/ \E u \in User : Delete(u) \/ Age(u)

Spec == Init /\ [][Next]_vars

-----------------------------------------------------------------------------
(* Properties. *)

\* No two accounts have the same mailbox, however it is written and whichever
\* forms are sent at once; the accounts that shared one before the addresses
\* were normalised may keep it.
OneAccountPerMailbox ==
    \A u, v \in User :
      u # v /\ Here(u) /\ Here(v) /\ Normal[row[u].Email] = Normal[row[v].Email]
        => row[u].Email = original[u] /\ row[v].Email = original[v]

\* A verified address is one for which a link was followed: changing the
\* address invalidates the verification, and links for the old address.
StepVerifiesItsOwn ==
    \A u \in User : Here(u) /\ ~ row[u].verified /\ row'[u].verified
      => row[u].token \in mailed /\ mintedFor[row[u].token] = row[u].Email

\* The cooldown guards against mail-bombs: an account gets no second token
\* while the first is cooling.
StepWaitsForCooldown ==
    \A u \in User : Here(u) /\ row[u].age = "cooling" => row'[u].token \in {row[u].token, 0}
=============================================================================
