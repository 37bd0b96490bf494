------------------------------ MODULE Accounts ------------------------------
(***************************************************************************)
(* The auth service: accounts, sessions (a refresh token and the access    *)
(* token issued with it) and the one-time links that are mailed.           *)
(*                                                                         *)
(* Handlers run up to their next await on the database, as in the events   *)
(* service.  isActive is left out: every account is created active and no  *)
(* operation changes it.  Names, phone numbers and the time of the last    *)
(* login are left out: no operation reads them.  Tokens are known by the   *)
(* number of their row: signing, hashing and decoding give it back.        *)
(***************************************************************************)
EXTENDS Integers, FiniteSets

CONSTANTS
    Emails,       \* addresses, trimmed and in lower case; one account each
    Passwords,
    Roles,
    Slots,        \* messages the service handles at once (prefetch)
    Operations,   \* the operations clients use: the workload
    MaxSessions,  \* bound: sessions ever issued
    MaxLinks,     \* bound: one-time links ever created
    MaxRequests,  \* bound: requests ever made
    MaxFailures   \* bound: crashes of the process and failing database calls

SessionIds == 1..MaxSessions
LinkIds == 1..MaxLinks

(* What the gateway sends.  bearer is the session whose access token the   *)
(* gateway checked.                                                        *)
RegisterRequests == [op : {"register"}, email : Emails, password : Passwords]
LoginRequests    == [op : {"login"}, email : Emails, password : Passwords]
ForgotRequests   == [op : {"forgot"}, email : Emails]
SessionRequests  == [op : {"refresh", "logout"}, session : SessionIds]
VerifyRequests   == [op : {"verify"}, link : LinkIds]
ResetRequests    == [op : {"reset"}, link : LinkIds, password : Passwords]
ChangeRequests   == [op : {"change"}, bearer : SessionIds, current : Passwords,
                     password : Passwords]
RoleRequests     == [op : {"setRole"}, bearer : SessionIds, email : Emails,
                     role : Roles]

Requests == {q \in RegisterRequests \cup LoginRequests \cup ForgotRequests
                     \cup SessionRequests \cup VerifyRequests \cup ResetRequests
                     \cup ChangeRequests \cup RoleRequests : q.op \in Operations}
NoRequest == [op |-> "none"]

ASSUME RolesAssumption == {"ADMIN", "ATTENDEE"} \subseteq Roles
ASSUME AccountBounds ==
    /\ MaxSessions \in Nat /\ MaxLinks \in Nat
    /\ MaxRequests \in Nat /\ MaxFailures \in Nat

-----------------------------------------------------------------------------
VARIABLES
    accounts,   \* the users table, by email
    sessions,   \* the refresh_tokens table, with the claims of the access token
    links,      \* the verification_tokens table
    mailed,     \* links whose mail was published
    calls,      \* the requests being handled, per slot
    requests,   \* requests made so far
    failures,   \* crashes and failed calls so far
    epoch,      \* history: password changes and reuse alarms of an account
    roleNr,     \* history: role changes of an account
    rotations,  \* history: how often a session was exchanged for a new one
    effects,    \* history: how often a link did what it is for
    raced,      \* history: <<"session" or "link", id>> that two handlers found
                \* usable at the same time
    cut         \* history: <<what, whom>> a handler did not get to

history == <<epoch, roleNr, rotations, effects, raced, cut>>
vars == <<accounts, sessions, links, mailed, calls, requests, failures, history>>

NoAccount == [exists |-> FALSE]
NoSession == [exists |-> FALSE]
NoLink == [exists |-> FALSE]

Account == [exists : {TRUE}, password : Passwords, role : Roles, verified : BOOLEAN]
(* A session: read and issued are the epochs in which its handler read     *)
(* what entitled it and in which it was written, roleNr the one of its     *)
(* role.  age: the access token is valid, it has expired, both have.       *)
Session == [exists : {TRUE}, owner : Emails, by : {"login", "refresh"},
            revoked : BOOLEAN, role : Roles,
            age : {"fresh", "stale", "expired"}, read : Nat, issued : Nat,
            roleNr : Nat]
Link == [exists : {TRUE}, owner : Emails, type : {"EMAIL_VERIFY", "PASSWORD_RESET"},
         used : BOOLEAN, expired : BOOLEAN]

Steps == {"idle", "start", "insert", "user", "revoke", "issue", "alarm", "link",
          "publish", "use", "verify", "password", "sweep", "changed"}

(* A request being handled, with the reads it holds.  row: the link it     *)
(* created.                                                                *)
Call == [req : Requests \cup {NoRequest}, step : Steps, read : Nat,
         role : Roles, roleNr : Nat, row : 0..MaxLinks]
Idle == [req |-> NoRequest, step |-> "idle", read |-> 0, role |-> "ATTENDEE",
         roleNr |-> 0, row |-> 0]

Cuts == {"link", "effect", "sweep"} \X (Emails \cup LinkIds)

TypeOK ==
    /\ accounts \in [Emails -> Account \cup {NoAccount}]
    /\ sessions \in [SessionIds -> Session \cup {NoSession}]
    /\ links \in [LinkIds -> Link \cup {NoLink}]
    /\ mailed \subseteq LinkIds
    /\ calls \in [Slots -> Call]
    /\ requests \in 0..MaxRequests
    /\ failures \in 0..MaxFailures
    /\ epoch \in [Emails -> Nat]
    /\ roleNr \in [Emails -> Nat]
    /\ rotations \in [SessionIds -> Nat]
    /\ effects \in [LinkIds -> Nat]
    /\ raced \subseteq ({"session"} \X SessionIds) \cup ({"link"} \X LinkIds)
    /\ cut \subseteq Cuts
-----------------------------------------------------------------------------
At(c, ops, step) == calls[c].req.op \in ops /\ calls[c].step = step
Go(c, step) == calls' = [calls EXCEPT ![c].step = step]
Answer(c) == calls' = [calls EXCEPT ![c] = Idle]

(* the account a request is about *)
Of(q) ==
    IF q.op \in {"refresh", "logout"} THEN sessions[q.session].owner
    ELSE IF q.op \in {"verify", "reset"} THEN links[q.link].owner
    ELSE IF q.op = "change" THEN sessions[q.bearer].owner
    ELSE q.email
Whom(c) == Of(calls[c].req)

Free(table) == CHOOSE i \in DOMAIN table : ~table[i].exists
HasRoom(table) == \E i \in DOMAIN table : ~table[i].exists      \* bound

(* updateMany: every session of the user not yet revoked                   *)
RevokedAll_OnlyFresh(e) ==
    [i \in SessionIds |->
        IF sessions[i].exists /\ sessions[i].owner = e /\ sessions[i].age = "fresh"
        THEN [sessions[i] EXCEPT !.revoked = TRUE] ELSE sessions[i]]
RevokedAll(e) ==
    [i \in SessionIds |->
        IF sessions[i].exists /\ sessions[i].owner = e
        THEN [sessions[i] EXCEPT !.revoked = TRUE] ELSE sessions[i]]

(* somebody else found this token usable and has not consumed it yet       *)
HeldBy(c, what, id) ==
    \E d \in Slots \ {c} :
        \/ what = "session" /\ At(d, {"refresh"}, "user") /\ calls[d].req.session = id
        \/ what = "session" /\ At(d, {"refresh"}, "revoke") /\ calls[d].req.session = id
        \/ what = "link" /\ At(d, {"verify", "reset"}, "use") /\ calls[d].req.link = id
Race(c, what, id) ==
    raced' = IF HeldBy(c, what, id) THEN raced \cup {<<what, id>>} ELSE raced

-----------------------------------------------------------------------------
(* register looks for the address, then inserts: the unique key decides    *)
(* between two at once.                                                    *)
RegisterReads(c) ==
    /\ At(c, {"register"}, "start")
    /\ IF accounts[Whom(c)].exists THEN Answer(c) ELSE Go(c, "insert")
    /\ UNCHANGED <<accounts, sessions, links, mailed, requests, failures, history>>

RegisterTaken(c) ==
    /\ At(c, {"register"}, "insert")
    /\ accounts[Whom(c)].exists
    /\ Answer(c)
    /\ UNCHANGED <<accounts, sessions, links, mailed, requests, failures, history>>

RegisterInserts(c) ==
    /\ At(c, {"register"}, "insert")
    /\ ~accounts[Whom(c)].exists
    /\ accounts' = [accounts EXCEPT ![Whom(c)] =
          [exists |-> TRUE, password |-> calls[c].req.password,
           role |-> "ATTENDEE", verified |-> FALSE]]
    /\ Go(c, "link")
    /\ UNCHANGED <<sessions, links, mailed, requests, failures, history>>

(* forgotPassword reads the account; it answers the same without one       *)
Forgot_PublishesFirst(c) ==
    /\ At(c, {"forgot"}, "start")
    /\ IF accounts[calls[c].req.email].exists THEN Go(c, "publish") ELSE Answer(c)
    /\ UNCHANGED <<accounts, sessions, links, mailed, requests, failures, history>>
Forgot(c) ==
    /\ At(c, {"forgot"}, "start")
    /\ IF accounts[calls[c].req.email].exists THEN Go(c, "link") ELSE Answer(c)
    /\ UNCHANGED <<accounts, sessions, links, mailed, requests, failures, history>>

CreateLink(c) ==
    /\ At(c, {"register", "forgot"}, "link")
    /\ HasRoom(links)
    /\ links' = [links EXCEPT ![Free(links)] =
          [exists |-> TRUE, owner |-> Whom(c), used |-> FALSE, expired |-> FALSE,
           type |-> IF calls[c].req.op = "register" THEN "EMAIL_VERIFY"
                                                    ELSE "PASSWORD_RESET"]]
    /\ calls' = [calls EXCEPT ![c] = [@ EXCEPT !.step = "publish",
                                               !.row = Free(links)]]
    /\ UNCHANGED <<accounts, sessions, mailed, requests, failures, history>>

(* user.registered and user.password_reset_requested carry the link        *)
PublishLink_NotForgot(c) ==
    /\ At(c, {"register", "forgot"}, "publish")
    /\ mailed' = IF calls[c].req.op = "forgot" THEN mailed \cup {calls[c].row} ELSE mailed
    /\ Answer(c)
    /\ UNCHANGED <<accounts, sessions, links, requests, failures, history>>
PublishLink(c) ==
    /\ At(c, {"register", "forgot"}, "publish")
    /\ mailed' = mailed \cup {calls[c].row}
    /\ Answer(c)
    /\ UNCHANGED <<accounts, sessions, links, requests, failures, history>>

-----------------------------------------------------------------------------
(* login reads the account and compares the password with the hash it read *)
Login(c) ==
    LET q == calls[c].req
        a == accounts[q.email]
    IN
    /\ At(c, {"login"}, "start")
    /\ IF a.exists /\ a.password = q.password
       THEN calls' = [calls EXCEPT ![c] =
               [@ EXCEPT !.step = "issue", !.read = epoch[q.email],
                         !.role = a.role, !.roleNr = roleNr[q.email]]]
       ELSE Answer(c)
    /\ UNCHANGED <<accounts, sessions, links, mailed, requests, failures, history>>

(* rotateRefreshToken reads the token's row.  An expired one is refused; a *)
(* revoked one is taken for stolen.                                        *)
Usable_IgnoresRevoked(i) == sessions[i].age # "expired"
Usable(i) == sessions[i].age # "expired" /\ ~sessions[i].revoked

RotateReads(c) ==
    LET i == calls[c].req.session IN
    /\ At(c, {"refresh"}, "start")
    /\ Usable(i)
    /\ calls' = [calls EXCEPT ![c] = [@ EXCEPT !.step = "user",
                                               !.read = epoch[Whom(c)]]]
    /\ Race(c, "session", i)
    /\ UNCHANGED <<accounts, sessions, links, mailed, requests, failures,
                   epoch, roleNr, rotations, effects, cut>>

RotateRefused(c) ==
    LET i == calls[c].req.session IN
    /\ At(c, {"refresh"}, "start")
    /\ ~Usable(i)
    /\ IF sessions[i].age = "expired" THEN Answer(c) ELSE Go(c, "alarm")
    /\ UNCHANGED <<accounts, sessions, links, mailed, requests, failures, history>>

(* every session of the user is signed out *)
Alarm(c) ==
    LET e == Whom(c) IN
    /\ At(c, {"refresh"}, "alarm")
    /\ sessions' = RevokedAll(e)
    /\ epoch' = [epoch EXCEPT ![e] = @ + 1]
    /\ Answer(c)
    /\ UNCHANGED <<accounts, links, mailed, requests, failures, roleNr,
                   rotations, effects, raced, cut>>

(* then the user, for the role of the new access token ...                 *)
RotateUser_OldRole(c) ==
    /\ At(c, {"refresh"}, "user")
    /\ calls' = [calls EXCEPT ![c] =
          [@ EXCEPT !.step = "revoke", !.role = sessions[calls[c].req.session].role,
                    !.roleNr = roleNr[Whom(c)]]]
    /\ UNCHANGED <<accounts, sessions, links, mailed, requests, failures, history>>
RotateUser(c) ==
    /\ At(c, {"refresh"}, "user")
    /\ calls' = [calls EXCEPT ![c] =
          [@ EXCEPT !.step = "revoke", !.role = accounts[Whom(c)].role,
                    !.roleNr = roleNr[Whom(c)]]]
    /\ UNCHANGED <<accounts, sessions, links, mailed, requests, failures, history>>

(* ... the row is revoked by its id, whatever became of it meanwhile ...   *)
RotateRevokes(c) ==
    /\ At(c, {"refresh"}, "revoke")
    /\ sessions' = [sessions EXCEPT ![calls[c].req.session].revoked = TRUE]
    /\ Go(c, "issue")
    /\ UNCHANGED <<accounts, links, mailed, requests, failures, history>>

(* ... and a new pair is issued                                            *)
IssueTokens(c) ==
    LET e == Whom(c)
        call == calls[c]
    IN
    /\ At(c, {"login", "refresh"}, "issue")
    /\ HasRoom(sessions)
    /\ sessions' = [sessions EXCEPT ![Free(sessions)] =
          [exists |-> TRUE, owner |-> e, by |-> call.req.op, revoked |-> FALSE,
           role |-> call.role,
           age |-> "fresh", read |-> call.read, issued |-> epoch[e],
           roleNr |-> call.roleNr]]
    /\ rotations' = IF call.req.op = "refresh"
                    THEN [rotations EXCEPT ![call.req.session] = @ + 1]
                    ELSE rotations
    /\ Answer(c)
    /\ UNCHANGED <<accounts, links, mailed, requests, failures, epoch, roleNr,
                   effects, raced, cut>>

Logout(c) ==
    /\ At(c, {"logout"}, "start")
    /\ sessions' = [sessions EXCEPT ![calls[c].req.session].revoked = TRUE]
    /\ Answer(c)
    /\ UNCHANGED <<accounts, links, mailed, requests, failures, history>>

-----------------------------------------------------------------------------
(* consumeVerificationToken reads the link ...                             *)
TypeFor(op) == IF op = "verify" THEN "EMAIL_VERIFY" ELSE "PASSWORD_RESET"
Valid_UsedToo(l, op) == links[l].type = TypeFor(op) /\ ~links[l].expired
Valid(l, op) ==
    links[l].type = TypeFor(op) /\ ~links[l].used /\ ~links[l].expired

ConsumeReads_MarksFirst(c) ==
    LET q == calls[c].req IN
    /\ At(c, {"verify", "reset"}, "start")
    /\ links' = [links EXCEPT ![q.link].used = TRUE]
    /\ IF Valid(q.link, q.op)
       THEN Go(c, "use") /\ Race(c, "link", q.link)
       ELSE Answer(c) /\ UNCHANGED raced
    /\ UNCHANGED <<accounts, sessions, mailed, requests, failures,
                   epoch, roleNr, rotations, effects, cut>>
ConsumeReads(c) ==
    LET q == calls[c].req IN
    /\ At(c, {"verify", "reset"}, "start")
    /\ IF Valid(q.link, q.op)
       THEN Go(c, "use") /\ Race(c, "link", q.link)
       ELSE Answer(c) /\ UNCHANGED raced
    /\ UNCHANGED <<accounts, sessions, links, mailed, requests, failures,
                   epoch, roleNr, rotations, effects, cut>>

(* ... and marks it used, by its id                                        *)
ConsumeWrites(c) ==
    /\ At(c, {"verify", "reset"}, "use")
    /\ links' = [links EXCEPT ![calls[c].req.link].used = TRUE]
    /\ Go(c, IF calls[c].req.op = "verify" THEN "verify" ELSE "password")
    /\ UNCHANGED <<accounts, sessions, mailed, requests, failures, history>>

Effect(c) == effects' = [effects EXCEPT ![calls[c].req.link] = @ + 1]

VerifyEmail(c) ==
    /\ At(c, {"verify"}, "verify")
    /\ accounts' = [accounts EXCEPT ![Whom(c)].verified = TRUE]
    /\ Effect(c)
    /\ Answer(c)
    /\ UNCHANGED <<sessions, links, mailed, requests, failures, epoch, roleNr,
                   rotations, raced, cut>>

(* changePassword compares the current password with the one it read *)
ChangeReads(c) ==
    /\ At(c, {"change"}, "start")
    /\ IF accounts[Whom(c)].password = calls[c].req.current
       THEN Go(c, "password") ELSE Answer(c)
    /\ UNCHANGED <<accounts, sessions, links, mailed, requests, failures, history>>

(* both ways to a new password write it, then sign every session out, then *)
(* announce it                                                             *)
SetPassword(c) ==
    LET e == Whom(c) IN
    /\ At(c, {"reset", "change"}, "password")
    /\ accounts' = [accounts EXCEPT ![e].password = calls[c].req.password]
    /\ epoch' = [epoch EXCEPT ![e] = @ + 1]
    /\ IF calls[c].req.op = "reset" THEN Effect(c) ELSE UNCHANGED effects
    /\ Go(c, "sweep")
    /\ UNCHANGED <<sessions, links, mailed, requests, failures, roleNr,
                   rotations, raced, cut>>

SignOut(c) ==
    LET e == Whom(c) IN
    /\ At(c, {"reset", "change"}, "sweep")
    /\ sessions' = RevokedAll(e)
    /\ cut' = cut \ {<<"sweep", e>>}
    /\ Go(c, "changed")
    /\ UNCHANGED <<accounts, links, mailed, requests, failures, epoch, roleNr,
                   rotations, effects, raced>>

AnnounceChange(c) ==
    /\ At(c, {"reset", "change"}, "changed")
    /\ Answer(c)
    /\ UNCHANGED <<accounts, sessions, links, mailed, requests, failures, history>>

SetRole(c) ==
    LET q == calls[c].req IN
    /\ At(c, {"setRole"}, "start")
    /\ IF accounts[q.email].exists
       THEN /\ accounts' = [accounts EXCEPT ![q.email].role = q.role]
            /\ roleNr' = [roleNr EXCEPT ![q.email] = @ + 1]
       ELSE UNCHANGED <<accounts, roleNr>>
    /\ Answer(c)
    /\ UNCHANGED <<sessions, links, mailed, requests, failures, epoch,
                   rotations, effects, raced, cut>>

HandlerStep(c) ==
    \/ RegisterReads(c) \/ RegisterTaken(c) \/ RegisterInserts(c)
    \/ Forgot(c) \/ CreateLink(c) \/ PublishLink(c)
    \/ Login(c) \/ RotateReads(c) \/ RotateRefused(c) \/ Alarm(c)
    \/ RotateUser(c) \/ RotateRevokes(c) \/ IssueTokens(c) \/ Logout(c)
    \/ ConsumeReads(c) \/ ConsumeWrites(c) \/ VerifyEmail(c)
    \/ ChangeReads(c) \/ SetPassword(c) \/ SignOut(c) \/ AnnounceChange(c)
    \/ SetRole(c)
-----------------------------------------------------------------------------
(* Failures: what the handlers of these slots do not get to.               *)
Undone(slots) ==
    {<<"link", Whom(c)>> : c \in {d \in slots : calls[d].step \in {"link", "publish"}}}
      \cup {<<"effect", calls[c].req.link>> :
               c \in {d \in slots : \/ At(d, {"verify"}, "verify")
                                    \/ At(d, {"reset"}, "password")}}
      \cup {<<"sweep", Whom(c)>> : c \in {d \in slots : calls[d].step = "sweep"}}

Fails == failures < MaxFailures /\ failures' = failures + 1

(* a database call fails: the request is answered with an error            *)
HandlerFails(c) ==
    /\ calls[c].step \notin {"idle", "publish", "changed"}
    /\ Fails
    /\ cut' = cut \cup Undone({c})
    /\ Answer(c)
    /\ UNCHANGED <<accounts, sessions, links, mailed, requests, epoch, roleNr,
                   rotations, effects, raced>>

(* the process dies: RabbitMQ delivers what was not acknowledged again     *)
Crash ==
    /\ Fails
    /\ cut' = cut \cup Undone(Slots)
    /\ calls' = [c \in Slots |->
                    IF calls[c].step = "idle" THEN Idle
                    ELSE [Idle EXCEPT !.req = calls[c].req, !.step = "start"]]
    /\ UNCHANGED <<accounts, sessions, links, mailed, requests, epoch, roleNr,
                   rotations, effects, raced>>

(* Time passes: the access token of a session expires, then its refresh    *)
(* token; a link expires.                                                  *)
ExpireToken(i) ==
    /\ sessions[i].exists
    /\ \/ /\ sessions[i].age = "fresh"
          /\ sessions' = [sessions EXCEPT ![i].age = "stale"]
       \/ /\ sessions[i].age = "stale"
          /\ sessions' = [sessions EXCEPT ![i].age = "expired"]
    /\ UNCHANGED <<accounts, links, mailed, calls, requests, failures, history>>

ExpireLink(l) ==
    /\ links[l].exists /\ ~links[l].expired
    /\ links' = [links EXCEPT ![l].expired = TRUE]
    /\ UNCHANGED <<accounts, sessions, mailed, calls, requests, failures, history>>
=============================================================================
