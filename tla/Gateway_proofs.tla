---------------------------- MODULE Gateway_proofs ----------------------------
(***************************************************************************)
(* Theorems about the auth service behind its gateway, for every number of *)
(* accounts, sessions, links, requests at once and failures.               *)
(***************************************************************************)
EXTENDS Gateway, TLAPS

-----------------------------------------------------------------------------
(* The inductive invariants. *)

(* The steps that each operation takes. *)
StepFits(call) ==
    /\ call.step = "idle" <=> call.req = NoRequest
    /\ call.step = "insert" => call.req.op = "register"
    /\ call.step \in {"link", "publish"} => call.req.op \in {"register", "forgot"}
    /\ call.step \in {"user", "revoke", "alarm"} => call.req.op = "refresh"
    /\ call.step = "issue" => call.req.op \in {"login", "refresh"}
    /\ call.step = "use" => call.req.op \in {"verify", "reset"}
    /\ call.step = "verify" => call.req.op = "verify"
    /\ call.step \in {"password", "sweep", "changed"} =>
          call.req.op \in {"reset", "change"}

(* What a request names was handed out, so it is in the tables.            *)
Handed(q) ==
    /\ q.op \in {"refresh", "logout"} => sessions[q.session].exists
    /\ q.op \in {"verify", "reset"} => links[q.link].exists
    /\ q.op = "change" => sessions[q.bearer].exists

(* Links and tokens are made for accounts that exist.                      *)
Entitled(call) ==
    \/ call.step \in {"link", "publish"}
    \/ call.step = "issue" /\ call.req.op = "login"
    => accounts[call.req.email].exists

(* The link that is about to be mailed is the one that was created for it. *)
Created(call) ==
    call.step = "publish" =>
        /\ call.row \in LinkIds
        /\ links[call.row].exists
        /\ links[call.row].owner = call.req.email
        /\ call.req.op = "register" => links[call.row].type = "EMAIL_VERIFY"

CallGood(call) ==
    StepFits(call) /\ Handed(call.req) /\ Entitled(call) /\ Created(call)

RowsOwned ==
    /\ \A i \in SessionIds : sessions[i].exists => accounts[sessions[i].owner].exists
    /\ \A l \in LinkIds : links[l].exists => accounts[links[l].owner].exists
    /\ \A l \in mailed : links[l].exists

Books == RowsOwned /\ \A c \in Slots : CallGood(calls[c])

(* Session i: a handler found it usable and is not done with it.           *)
Rotating(c, i) == /\ calls[c].step \in {"user", "revoke", "issue"}
                  /\ calls[c].req.op = "refresh" /\ calls[c].req.session = i

(* Without a race one handler at a time rotates a session, and none once   *)
(* it was rotated, for it is revoked before the new one is issued.         *)
Rotated(i) ==
    /\ ~sessions[i].exists => rotations[i] = 0
    /\ <<"session", i>> \notin raced =>
          /\ rotations[i] <= 1
          /\ rotations[i] = 1 => sessions[i].revoked
          /\ \A c \in Slots : Rotating(c, i) =>
                /\ rotations[i] = 0
                /\ calls[c].step = "issue" => sessions[i].revoked
                /\ \A d \in Slots : Rotating(d, i) => c = d

RotationInv == \A i \in SessionIds : Rotated(i)

(* Link l likewise: it is marked used before it does anything.             *)
Consuming(c, l) == /\ calls[c].step \in {"use", "verify", "password"}
                   /\ calls[c].req.op \in {"verify", "reset"}
                   /\ calls[c].req.link = l

Consumed(l) ==
    /\ ~links[l].exists => effects[l] = 0
    /\ <<"link", l>> \notin raced =>
          /\ effects[l] <= 1
          /\ effects[l] = 1 => links[l].used
          /\ \A c \in Slots : Consuming(c, l) =>
                /\ effects[l] = 0
                /\ calls[c].step # "use" => links[l].used
                /\ \A d \in Slots : Consuming(d, l) => c = d

LinkInv == \A l \in LinkIds : Consumed(l)

(* What a handler or a token knows of a role is not from the future, and   *)
(* what it knows of the latest change is right.                            *)
KnowsRole(nr, role, e) ==
    nr <= roleNr[e] /\ (nr = roleNr[e] => role = accounts[e].role)

RoleInv ==
    /\ \A i \in SessionIds : sessions[i].exists =>
          KnowsRole(sessions[i].roleNr, sessions[i].role, sessions[i].owner)
    /\ \A c \in Slots : calls[c].step \in {"revoke", "issue"} =>
          KnowsRole(calls[c].roleNr, calls[c].role, Whom(c))

-----------------------------------------------------------------------------
(* What requests and rows carry. *)

LEMMA RequestShape ==
    ASSUME NEW q \in Requests
    PROVE  /\ q.op \in {"register", "login", "forgot", "refresh", "logout",
                        "verify", "reset", "change", "setRole"}
           /\ q.op \in {"register", "login", "forgot", "setRole"} => q.email \in Emails
           /\ q.op \in {"register", "login", "reset", "change"} =>
                 q.password \in Passwords
           /\ q.op \in {"refresh", "logout"} => q.session \in SessionIds
           /\ q.op \in {"verify", "reset"} => q.link \in LinkIds
           /\ q.op = "change" => q.bearer \in SessionIds
           /\ q.op = "setRole" => q.role \in Roles
           /\ q # NoRequest
  BY DEF Requests, RegisterRequests, LoginRequests, ForgotRequests, SessionRequests,
         VerifyRequests, ResetRequests, ChangeRequests, RoleRequests, NoRequest

LEMMA AccountShape ==
    ASSUME TypeOK, NEW e \in Emails, accounts[e].exists
    PROVE  accounts[e] \in Account
  BY DEF TypeOK, NoAccount

LEMMA SessionShape ==
    ASSUME TypeOK, NEW i \in SessionIds, sessions[i].exists
    PROVE  sessions[i] \in Session /\ sessions[i].owner \in Emails
  <1>1. sessions[i] \in Session
    BY DEF TypeOK, NoSession
  <1> QED
    BY <1>1 DEF Session

LEMMA LinkShape ==
    ASSUME TypeOK, NEW l \in LinkIds, links[l].exists
    PROVE  links[l] \in Link /\ links[l].owner \in Emails
  <1>1. links[l] \in Link
    BY DEF TypeOK, NoLink
  <1> QED
    BY <1>1 DEF Link

LEMMA CallShape ==
    ASSUME TypeOK, NEW c \in Slots
    PROVE  /\ calls[c] \in Call /\ calls[c].req \in Requests \cup {NoRequest}
           /\ calls[c].step \in Steps /\ calls[c].read \in Nat
           /\ calls[c].role \in Roles /\ calls[c].roleNr \in Nat
           /\ calls[c].row \in 0..MaxLinks
  BY DEF TypeOK, Call

(* An operation is at work only in a slot that has a request.              *)
LEMMA AtRequest ==
    ASSUME TypeOK, NEW c \in Slots, NEW ops, NEW step, At(c, ops, step),
           "none" \notin ops
    PROVE  /\ calls[c].req \in Requests /\ calls[c].req.op \in ops
           /\ calls[c].step = step
  BY CallShape DEF At, NoRequest

(* Whoever a request under way is about has an address.                    *)
LEMMA WhomTyped ==
    ASSUME TypeOK, Books, NEW c \in Slots, calls[c].req # NoRequest
    PROVE  /\ Whom(c) \in Emails
           /\ calls[c].req.op \in {"refresh", "logout", "verify", "reset", "change"}
                 => accounts[Whom(c)].exists
           /\ calls[c].req.op \in {"register", "login", "forgot", "setRole"}
                 => Whom(c) = calls[c].req.email
  <1> DEFINE q == calls[c].req
  <1>1. q \in Requests
    BY CallShape
  <1>2. Handed(q)
    BY DEF Books, CallGood
  <1>3. CASE q.op \in {"refresh", "logout"}
    <2>1. q.session \in SessionIds /\ sessions[q.session].exists
      BY <1>1, <1>2, <1>3, RequestShape DEF Handed
    <2> QED
      BY <1>3, <2>1, SessionShape DEF Whom, Of, Books, RowsOwned
  <1>4. CASE q.op \in {"verify", "reset"}
    <2>1. q.link \in LinkIds /\ links[q.link].exists
      BY <1>1, <1>2, <1>4, RequestShape DEF Handed
    <2> QED
      BY <1>4, <2>1, LinkShape DEF Whom, Of, Books, RowsOwned
  <1>5. CASE q.op = "change"
    <2>1. q.bearer \in SessionIds /\ sessions[q.bearer].exists
      BY <1>1, <1>2, <1>5, RequestShape DEF Handed
    <2> QED
      BY <1>5, <2>1, SessionShape DEF Whom, Of, Books, RowsOwned
  <1>6. CASE q.op \in {"register", "login", "forgot", "setRole"}
    BY <1>1, <1>6, RequestShape DEF Whom, Of
  <1> QED
    BY <1>1, <1>3, <1>4, <1>5, <1>6, RequestShape

-----------------------------------------------------------------------------
(* How a slot goes on. *)
Others(c) == \A d \in Slots \ {c} : calls'[d] = calls[d]

LEMMA CallSet ==
    ASSUME TypeOK, NEW c \in Slots, NEW call \in Call,
           calls' = [calls EXCEPT ![c] = call]
    PROVE  calls' \in [Slots -> Call] /\ calls'[c] = call /\ Others(c)
  BY DEF TypeOK, Others

LEMMA GoSet ==
    ASSUME TypeOK, NEW c \in Slots, NEW step \in Steps, Go(c, step)
    PROVE  /\ calls' \in [Slots -> Call] /\ Others(c)
           /\ calls'[c] = [calls[c] EXCEPT !.step = step]
           /\ calls'[c].step = step /\ calls'[c].req = calls[c].req
  <1>1. calls' = [calls EXCEPT ![c] = [calls[c] EXCEPT !.step = step]]
    BY DEF Go
  <1>2. [calls[c] EXCEPT !.step = step] \in Call
    BY CallShape DEF Call
  <1>3. [calls[c] EXCEPT !.step = step].step = step
    BY CallShape DEF Call
  <1>4. [calls[c] EXCEPT !.step = step].req = calls[c].req
    BY CallShape DEF Call
  <1> QED
    BY <1>1, <1>2, <1>3, <1>4, CallSet

LEMMA IdleTyped == Idle \in Call
  BY RolesAssumption, AccountBounds DEF Idle, Call, Steps

LEMMA AnswerSet ==
    ASSUME TypeOK, NEW c \in Slots, Answer(c)
    PROVE  calls' \in [Slots -> Call] /\ Others(c) /\ calls'[c] = Idle
  BY IdleTyped, CallSet DEF Answer

-----------------------------------------------------------------------------
(* What a step does to the tables. *)

(* Nothing that was handed out goes away or changes its owner.             *)
Grows ==
    /\ \A e \in Emails : accounts[e].exists => accounts'[e].exists
    /\ \A i \in SessionIds : sessions[i].exists =>
          sessions'[i].exists /\ sessions'[i].owner = sessions[i].owner
    /\ \A l \in LinkIds : links[l].exists =>
          /\ links'[l].exists /\ links'[l].owner = links[l].owner
          /\ links'[l].type = links[l].type

LEMMA FreeSession ==
    ASSUME TypeOK, HasRoom(sessions)
    PROVE  Free(sessions) \in SessionIds /\ ~sessions[Free(sessions)].exists
  BY DEF TypeOK, HasRoom, Free

LEMMA FreeLink ==
    ASSUME TypeOK, HasRoom(links)
    PROVE  Free(links) \in LinkIds /\ ~links[Free(links)].exists
  BY DEF TypeOK, HasRoom, Free

(* The tables keep their types, row by row.                                *)
LEMMA AccountSet ==
    ASSUME TypeOK, NEW e \in Emails, NEW a \in Account,
           accounts' = [accounts EXCEPT ![e] = a]
    PROVE  /\ accounts' \in [Emails -> Account \cup {NoAccount}]
           /\ accounts'[e] = a
           /\ \A f \in Emails \ {e} : accounts'[f] = accounts[f]
           /\ \A f \in Emails : accounts[f].exists => accounts'[f].exists
  <1>1. a.exists
    BY DEF Account
  <1> QED
    BY <1>1 DEF TypeOK

LEMMA SessionSet ==
    ASSUME TypeOK, NEW i \in SessionIds, NEW s \in Session,
           sessions[i].exists => s.owner = sessions[i].owner,
           sessions' = [sessions EXCEPT ![i] = s]
    PROVE  /\ sessions' \in [SessionIds -> Session \cup {NoSession}]
           /\ sessions'[i] = s
           /\ \A j \in SessionIds \ {i} : sessions'[j] = sessions[j]
           /\ \A j \in SessionIds : sessions[j].exists =>
                 sessions'[j].exists /\ sessions'[j].owner = sessions[j].owner
  <1>1. s.exists
    BY DEF Session
  <1> QED
    BY <1>1 DEF TypeOK

LEMMA LinkSet ==
    ASSUME TypeOK, NEW l \in LinkIds, NEW row \in Link,
           links[l].exists => row.owner = links[l].owner /\ row.type = links[l].type,
           links' = [links EXCEPT ![l] = row]
    PROVE  /\ links' \in [LinkIds -> Link \cup {NoLink}]
           /\ links'[l] = row
           /\ \A k \in LinkIds \ {l} : links'[k] = links[k]
           /\ \A k \in LinkIds : links[k].exists =>
                 /\ links'[k].exists /\ links'[k].owner = links[k].owner
                 /\ links'[k].type = links[k].type
  <1>1. row.exists
    BY DEF Link
  <1> QED
    BY <1>1 DEF TypeOK

(* Signing a user out revokes their sessions and leaves the others alone.  *)
LEMMA RevokedAllSet ==
    ASSUME TypeOK, NEW e \in Emails, sessions' = RevokedAll(e)
    PROVE  /\ sessions' \in [SessionIds -> Session \cup {NoSession}]
           /\ \A i \in SessionIds : sessions[i].exists /\ sessions[i].owner = e =>
                 sessions'[i] = [sessions[i] EXCEPT !.revoked = TRUE]
           /\ \A i \in SessionIds : ~(sessions[i].exists /\ sessions[i].owner = e) =>
                 sessions'[i] = sessions[i]
           /\ \A i \in SessionIds :
                 sessions'[i].exists = sessions[i].exists
           /\ \A i \in SessionIds : sessions[i].exists =>
                 /\ sessions'[i].owner = sessions[i].owner
                 /\ sessions[i].revoked => sessions'[i].revoked
  <1>1. \A i \in SessionIds : sessions[i].exists /\ sessions[i].owner = e =>
           sessions'[i] = [sessions[i] EXCEPT !.revoked = TRUE]
    BY DEF RevokedAll
  <1>2. \A i \in SessionIds : ~(sessions[i].exists /\ sessions[i].owner = e) =>
           sessions'[i] = sessions[i]
    BY DEF RevokedAll
  <1>3. ASSUME NEW i \in SessionIds
        PROVE  /\ sessions'[i] \in Session \cup {NoSession}
               /\ sessions'[i].exists = sessions[i].exists
               /\ sessions[i].exists => /\ sessions'[i].owner = sessions[i].owner
                                        /\ sessions[i].revoked => sessions'[i].revoked
    <2>1. CASE sessions[i].exists /\ sessions[i].owner = e
      <3>1. sessions[i] \in Session
        BY <2>1, SessionShape
      <3>2. sessions'[i] = [sessions[i] EXCEPT !.revoked = TRUE]
        BY <1>1, <2>1
      <3> QED
        BY <3>1, <3>2 DEF Session
    <2>2. CASE ~(sessions[i].exists /\ sessions[i].owner = e)
      BY <1>2, <2>2 DEF TypeOK
    <2> QED
      BY <2>1, <2>2
  <1>4. sessions' = [i \in SessionIds |-> sessions'[i]]
    BY DEF RevokedAll
  <1>5. sessions' \in [SessionIds -> Session \cup {NoSession}]
    BY <1>3, <1>4
  <1> QED
    BY <1>1, <1>2, <1>3, <1>5

(* Steps that leave the tables alone. *)
LEMMA Quiet ==
    ASSUME TypeOK, Books, UNCHANGED <<accounts, sessions, links, mailed>>
    PROVE  Grows /\ RowsOwned'
  BY DEF Grows, Books, RowsOwned

(* Steps that make no rows of sessions and links. *)
LEMMA NoNewRows ==
    ASSUME TypeOK, Books, Grows, mailed' = mailed,
           \A i \in SessionIds : sessions'[i].exists => sessions[i].exists,
           \A l \in LinkIds : links'[l].exists => links[l].exists
    PROVE  RowsOwned'
  <1>1. \A i \in SessionIds : sessions[i].exists => sessions[i].owner \in Emails
    BY SessionShape
  <1>2. \A l \in LinkIds : links[l].exists => links[l].owner \in Emails
    BY LinkShape
  <1>3. mailed \subseteq LinkIds
    BY DEF TypeOK
  <1> QED
    BY <1>1, <1>2, <1>3 DEF Grows, Books, RowsOwned

(* A call that rests stays good while the tables grow ... *)
LEMMA StaysGood ==
    ASSUME TypeOK, Books, Grows, NEW d \in Slots, calls'[d] = calls[d]
    PROVE  CallGood(calls[d])'
  <1>1. CallGood(calls[d])
    BY DEF Books
  <1>2. calls[d].req # NoRequest => calls[d].req \in Requests
    BY CallShape
  <1>3. Handed(calls[d].req)'
    <2>1. CASE calls[d].req = NoRequest
      BY <1>1, <2>1 DEF Handed, NoRequest
    <2>2. CASE calls[d].req \in Requests
      BY <1>1, <2>2, RequestShape DEF Handed, Grows, CallGood
    <2> QED
      BY <1>2, <2>1, <2>2
  <1>4. Entitled(calls[d])'
    <2>1. \/ calls[d].step \in {"link", "publish"}
          \/ calls[d].step = "issue" /\ calls[d].req.op = "login"
          => /\ calls[d].req \in Requests
             /\ calls[d].req.op \in {"register", "forgot", "login"}
      BY <1>1, <1>2 DEF CallGood, StepFits
    <2> QED
      BY <1>1, <2>1, RequestShape DEF Entitled, Grows, CallGood
  <1>5. Created(calls[d])'
    BY <1>1 DEF Created, Grows, CallGood
  <1> QED
    BY <1>1, <1>3, <1>4, <1>5 DEF CallGood

LEMMA BooksKept ==
    ASSUME TypeOK, Books, Grows, RowsOwned', NEW c \in Slots, Others(c),
           CallGood(calls[c])'
    PROVE  Books'
  BY StaysGood DEF Others, Books

(* ... and so does one that goes on with its request ...                   *)
LEMMA GoesOn ==
    ASSUME TypeOK, Books, Grows, NEW c \in Slots, calls'[c].req = calls[c].req,
           StepFits(calls'[c]), calls'[c].step \notin {"link", "publish"},
           calls'[c].step = "issue" => calls[c].req.op # "login"
    PROVE  CallGood(calls[c])'
  <1>1. CallGood(calls[c])
    BY DEF Books
  <1>2. Handed(calls[c].req)'
    <2>1. CASE calls[c].req = NoRequest
      BY <2>1 DEF Handed, NoRequest
    <2>2. CASE calls[c].req \in Requests
      BY <1>1, <2>2, RequestShape DEF Handed, Grows, CallGood
    <2> QED
      BY <2>1, <2>2, CallShape
  <1> QED
    BY <1>2 DEF CallGood, Entitled, Created

(* ... or is over.                                                         *)
LEMMA GoodIdle ==
    ASSUME NEW c \in Slots, calls'[c] = Idle
    PROVE  CallGood(calls[c])'
  BY DEF CallGood, StepFits, Handed, Entitled, Created, Idle, NoRequest

-----------------------------------------------------------------------------
(* TypeOK and Books, action by action. *)
Kept == TypeOK' /\ Books' /\ Grows

(* The actions that only answer or take the next step.                     *)
LEMMA QuietGoes ==
    ASSUME TypeOK, Books, NEW c \in Slots, NEW step \in Steps, Go(c, step),
           calls[c].step # "idle", StepFits([calls[c] EXCEPT !.step = step]),
           step \notin {"link", "publish"},
           step = "issue" => calls[c].req.op # "login",
           UNCHANGED <<accounts, sessions, links, mailed, requests, failures, history>>
    PROVE  Kept
  <1>1. /\ calls' \in [Slots -> Call] /\ Others(c)
        /\ calls'[c] = [calls[c] EXCEPT !.step = step]
        /\ calls'[c].step = step /\ calls'[c].req = calls[c].req
    BY GoSet
  <1>2. Grows /\ RowsOwned'
    BY Quiet
  <1>3. CallGood(calls[c])'
    BY <1>1, <1>2, GoesOn
  <1>4. TypeOK'
    BY <1>1 DEF TypeOK, history
  <1> QED
    BY <1>1, <1>2, <1>3, <1>4, BooksKept DEF Kept

LEMMA QuietAnswers ==
    ASSUME TypeOK, Books, NEW c \in Slots, Answer(c),
           UNCHANGED <<accounts, sessions, links, mailed, requests, failures, history>>
    PROVE  Kept
  <1>1. calls' \in [Slots -> Call] /\ Others(c) /\ calls'[c] = Idle
    BY AnswerSet
  <1>2. Grows /\ RowsOwned'
    BY Quiet
  <1>3. TypeOK'
    BY <1>1 DEF TypeOK, history
  <1> QED
    BY <1>1, <1>2, <1>3, GoodIdle, BooksKept DEF Kept

(* What is known of a request at a step. *)
LEMMA AtStep ==
    ASSUME TypeOK, Books, NEW c \in Slots, NEW ops, NEW step, At(c, ops, step),
           "none" \notin ops
    PROVE  /\ calls[c].req \in Requests /\ calls[c].req # NoRequest
           /\ calls[c].req.op \in ops /\ calls[c].step = step /\ step # "idle"
           /\ CallGood(calls[c]) /\ Whom(c) \in Emails
  <1>1. calls[c].req \in Requests /\ calls[c].req.op \in ops /\ calls[c].step = step
    BY AtRequest
  <1>2. calls[c].req # NoRequest
    BY <1>1, RequestShape
  <1>3. CallGood(calls[c])
    BY DEF Books
  <1> QED
    BY <1>1, <1>2, <1>3, WhomTyped DEF CallGood, StepFits

(* Whoever is at a step may go on to a later one of the same operation. *)
LEMMA FitsNext ==
    ASSUME TypeOK, NEW c \in Slots, NEW step \in Steps \ {"idle"},
           calls[c].req # NoRequest,
           step = "insert" => calls[c].req.op = "register",
           step \in {"link", "publish"} => calls[c].req.op \in {"register", "forgot"},
           step \in {"user", "revoke", "alarm"} => calls[c].req.op = "refresh",
           step = "issue" => calls[c].req.op \in {"login", "refresh"},
           step = "use" => calls[c].req.op \in {"verify", "reset"},
           step = "verify" => calls[c].req.op = "verify",
           step \in {"password", "sweep", "changed"} =>
               calls[c].req.op \in {"reset", "change"}
    PROVE  StepFits([calls[c] EXCEPT !.step = step])
  <1>1. [calls[c] EXCEPT !.step = step].step = step
    BY CallShape DEF Call
  <1>2. [calls[c] EXCEPT !.step = step].req = calls[c].req
    BY CallShape DEF Call
  <1> QED
    BY <1>1, <1>2 DEF StepFits

LEMMA RegisterKeeps ==
    ASSUME TypeOK, Books, NEW c \in Slots,
           RegisterReads(c) \/ RegisterTaken(c) \/ RegisterInserts(c)
    PROVE  Kept
  <1>1. CASE RegisterReads(c)
    <2>1. /\ calls[c].req.op = "register" /\ calls[c].req # NoRequest
          /\ calls[c].step # "idle"
      BY <1>1, AtStep DEF RegisterReads
    <2>2. CASE Answer(c)
      BY <1>1, <2>2, QuietAnswers DEF RegisterReads
    <2>3. CASE Go(c, "insert")
      <3>1. StepFits([calls[c] EXCEPT !.step = "insert"])
        BY <2>1, FitsNext DEF Steps
      <3> QED
        BY <1>1, <2>1, <2>3, <3>1, QuietGoes DEF RegisterReads, Steps
    <2> QED
      BY <1>1, <2>2, <2>3 DEF RegisterReads
  <1>2. CASE RegisterTaken(c)
    BY <1>2, QuietAnswers DEF RegisterTaken
  <1>3. CASE RegisterInserts(c)
    <2> DEFINE e == Whom(c)
               a == [exists |-> TRUE, password |-> calls[c].req.password,
                     role |-> "ATTENDEE", verified |-> FALSE]
    <2>1. /\ calls[c].req \in Requests /\ calls[c].req.op = "register"
          /\ calls[c].req # NoRequest /\ e \in Emails
      BY <1>3, AtStep DEF RegisterInserts
    <2>2. a \in Account
      BY <2>1, RequestShape, RolesAssumption DEF Account
    <2>3. /\ accounts' \in [Emails -> Account \cup {NoAccount}]
          /\ accounts'[e] = a
          /\ \A f \in Emails : accounts[f].exists => accounts'[f].exists
      BY <1>3, <2>1, <2>2, AccountSet DEF RegisterInserts
    <2>4. e = calls[c].req.email
      BY <2>1, WhomTyped
    <2>5. /\ calls' \in [Slots -> Call] /\ Others(c)
          /\ calls'[c] = [calls[c] EXCEPT !.step = "link"]
          /\ calls'[c].step = "link" /\ calls'[c].req = calls[c].req
      BY <1>3, GoSet DEF RegisterInserts, Steps
    <2>6. TypeOK'
      BY <1>3, <2>3, <2>5 DEF RegisterInserts, TypeOK, history
    <2>7. Grows
      BY <1>3, <2>3 DEF RegisterInserts, Grows
    <2>8. RowsOwned'
      BY <1>3, <2>7, NoNewRows DEF RegisterInserts
    <2>9. CallGood(calls[c])'
      <3>1. StepFits(calls'[c])
        BY <2>1, <2>5, FitsNext DEF Steps
      <3> QED
        BY <2>1, <2>3, <2>4, <2>5, <3>1 DEF CallGood, Handed, Entitled, Created
    <2> QED
      BY <2>5, <2>6, <2>7, <2>8, <2>9, BooksKept DEF Kept
  <1> QED
    BY <1>1, <1>2, <1>3

LEMMA LinkKeeps ==
    ASSUME TypeOK, Books, NEW c \in Slots, Forgot(c) \/ CreateLink(c) \/ PublishLink(c)
    PROVE  Kept
  <1>1. CASE Forgot(c)
    <2>1. /\ calls[c].req \in Requests /\ calls[c].req.op = "forgot"
          /\ calls[c].req # NoRequest
      BY <1>1, AtStep DEF Forgot
    <2>2. CASE Answer(c)
      BY <1>1, <2>2, QuietAnswers DEF Forgot
    <2>3. CASE accounts[calls[c].req.email].exists /\ Go(c, "link")
      <3>1. /\ calls' \in [Slots -> Call] /\ Others(c)
            /\ calls'[c] = [calls[c] EXCEPT !.step = "link"]
            /\ calls'[c].step = "link" /\ calls'[c].req = calls[c].req
        BY <2>3, GoSet DEF Steps
      <3>2. Grows /\ RowsOwned'
        BY <1>1, Quiet DEF Forgot
      <3>3. StepFits(calls'[c])
        BY <2>1, <3>1, FitsNext DEF Steps
      <3>4. CallGood(calls[c])'
        BY <1>1, <2>1, <2>3, <3>1, <3>3
           DEF Forgot, CallGood, Handed, Entitled, Created
      <3>5. TypeOK'
        BY <1>1, <3>1 DEF Forgot, TypeOK, history
      <3> QED
        BY <3>1, <3>2, <3>4, <3>5, BooksKept DEF Kept
    <2> QED
      BY <1>1, <2>2, <2>3 DEF Forgot
  <1>2. CASE CreateLink(c)
    <2> DEFINE q == calls[c].req
               n == Free(links)
               row == [exists |-> TRUE, owner |-> Whom(c), used |-> FALSE,
                       expired |-> FALSE,
                       type |-> IF q.op = "register" THEN "EMAIL_VERIFY"
                                                     ELSE "PASSWORD_RESET"]
               call == [calls[c] EXCEPT !.step = "publish", !.row = n]
    <2>1. /\ q \in Requests /\ q.op \in {"register", "forgot"} /\ q # NoRequest
          /\ calls[c].step = "link" /\ CallGood(calls[c]) /\ Whom(c) \in Emails
      BY <1>2, AtStep DEF CreateLink
    <2>2. Whom(c) = q.email /\ accounts[q.email].exists
      BY <2>1, WhomTyped DEF CallGood, Entitled
    <2>3. n \in LinkIds /\ ~links[n].exists
      BY <1>2, FreeLink DEF CreateLink
    <2>4. row \in Link /\ row.owner = q.email
            /\ (q.op = "register" => row.type = "EMAIL_VERIFY") /\ row.exists
      BY <2>1, <2>2 DEF Link
    <2>5. links' = [links EXCEPT ![n] = row] /\ calls' = [calls EXCEPT ![c] = call]
      BY <1>2 DEF CreateLink
    <2> HIDE DEF row
    <2>6. /\ links' \in [LinkIds -> Link \cup {NoLink}] /\ links'[n] = row
          /\ \A k \in LinkIds \ {n} : links'[k] = links[k]
          /\ \A k \in LinkIds : links[k].exists =>
                /\ links'[k].exists /\ links'[k].owner = links[k].owner
                /\ links'[k].type = links[k].type
      BY <2>3, <2>4, <2>5, LinkSet
    <2>7. /\ call \in Call /\ call.step = "publish" /\ call.req = q /\ call.row = n
      <3>1. n \in 0..MaxLinks
        BY <2>3, AccountBounds DEF LinkIds
      <3> HIDE DEF n
      <3>2. calls[c] \in Call
        BY CallShape
      <3> QED
        BY <3>1, <3>2 DEF Call, Steps
    <2> HIDE DEF call
    <2>8. calls' \in [Slots -> Call] /\ calls'[c] = call /\ Others(c)
      BY <2>5, <2>7, CallSet
    <2>9. TypeOK'
      BY <1>2, <2>6, <2>8 DEF CreateLink, TypeOK, history
    <2>10. Grows
      BY <1>2, <2>6 DEF CreateLink, Grows
    <2>11. RowsOwned'
      <3>1. mailed' = mailed /\ sessions' = sessions /\ accounts' = accounts
        BY <1>2 DEF CreateLink
      <3>2. \A l \in LinkIds : links'[l].exists => accounts'[links'[l].owner].exists
        BY <2>2, <2>4, <2>6, <3>1 DEF Books, RowsOwned
      <3>3. mailed \subseteq LinkIds
        BY DEF TypeOK
      <3> QED
        BY <2>6, <3>1, <3>2, <3>3 DEF Books, RowsOwned
    <2>12. CallGood(calls[c])'
      <3>1. StepFits(calls'[c])
        BY <2>1, <2>7, <2>8 DEF StepFits
      <3>2. accounts' = accounts
        BY <1>2 DEF CreateLink
      <3> QED
        BY <2>1, <2>2, <2>3, <2>4, <2>6, <2>7, <2>8, <3>1, <3>2
           DEF CallGood, Handed, Entitled, Created
    <2> QED
      BY <2>8, <2>9, <2>10, <2>11, <2>12, BooksKept DEF Kept
  <1>3. CASE PublishLink(c)
    <2>1. /\ calls[c].step = "publish" /\ CallGood(calls[c])
      BY <1>3, AtStep DEF PublishLink
    <2>2. calls[c].row \in LinkIds /\ links[calls[c].row].exists
      BY <2>1 DEF CallGood, Created
    <2>3. calls' \in [Slots -> Call] /\ Others(c) /\ calls'[c] = Idle
      BY <1>3, AnswerSet DEF PublishLink
    <2>4. TypeOK'
      BY <1>3, <2>2, <2>3 DEF PublishLink, TypeOK, history
    <2>5. Grows
      BY <1>3 DEF PublishLink, Grows
    <2>6. RowsOwned'
      BY <1>3, <2>2 DEF PublishLink, Books, RowsOwned
    <2> QED
      BY <2>3, <2>4, <2>5, <2>6, GoodIdle, BooksKept DEF Kept
  <1> QED
    BY <1>1, <1>2, <1>3

(* A step that reads and keeps what it read with the call. *)
LEMMA QuietRemembers ==
    ASSUME TypeOK, Books, NEW c \in Slots, NEW call \in Call,
           calls' = [calls EXCEPT ![c] = call], call.req = calls[c].req,
           StepFits(call), call.step \notin {"link", "publish"},
           call.step = "issue" /\ call.req.op = "login"
               => accounts[call.req.email].exists,
           raced' \subseteq ({"session"} \X SessionIds) \cup ({"link"} \X LinkIds),
           UNCHANGED <<accounts, sessions, links, mailed, requests, failures,
                       epoch, roleNr, rotations, effects, cut>>
    PROVE  Kept
  <1>1. calls' \in [Slots -> Call] /\ calls'[c] = call /\ Others(c)
    BY CallSet
  <1>2. Grows /\ RowsOwned'
    BY Quiet
  <1>3. CallGood(calls[c])'
    <2>1. CASE call.step = "issue" /\ call.req.op = "login"
      <3>1. Handed(calls[c].req) /\ Handed(call.req)'
        BY <1>1, <2>1 DEF Books, CallGood, Handed
      <3> QED
        BY <1>1, <2>1, <3>1 DEF CallGood, Entitled, Created
    <2>2. CASE ~(call.step = "issue" /\ call.req.op = "login")
      BY <1>1, <1>2, <2>2, GoesOn
    <2> QED
      BY <2>1, <2>2
  <1>4. TypeOK'
    BY <1>1 DEF TypeOK
  <1> QED
    BY <1>1, <1>2, <1>3, <1>4, BooksKept DEF Kept

LEMMA RaceTyped ==
    ASSUME TypeOK, NEW c, NEW what, NEW id, Race(c, what, id),
           \/ what = "session" /\ id \in SessionIds
           \/ what = "link" /\ id \in LinkIds
    PROVE  raced' \subseteq ({"session"} \X SessionIds) \cup ({"link"} \X LinkIds)
  BY DEF TypeOK, Race

LEMMA LoginKeeps ==
    ASSUME TypeOK, Books, NEW c \in Slots, Login(c)
    PROVE  Kept
  <1> DEFINE q == calls[c].req
             a == accounts[q.email]
             call == [calls[c] EXCEPT !.step = "issue", !.read = epoch[q.email],
                                      !.role = a.role, !.roleNr = roleNr[q.email]]
  <1>1. /\ q \in Requests /\ q.op = "login" /\ q # NoRequest
    BY AtStep DEF Login
  <1>2. CASE Answer(c)
    BY <1>2, QuietAnswers DEF Login
  <1>3. CASE a.exists /\ calls' = [calls EXCEPT ![c] = call]
    <2>1. q.email \in Emails /\ a \in Account
      BY <1>1, <1>3, RequestShape, AccountShape
    <2>2. a.role \in Roles /\ epoch[q.email] \in Nat /\ roleNr[q.email] \in Nat
      BY <2>1 DEF TypeOK, Account
    <2>3. call \in Call /\ call.step = "issue" /\ call.req = q
      BY <2>2, CallShape DEF Call, Steps
    <2>4. StepFits(call)
      BY <1>1, <2>3 DEF StepFits
    <2>5. raced' \subseteq ({"session"} \X SessionIds) \cup ({"link"} \X LinkIds)
      BY DEF Login, TypeOK, history
    <2> HIDE DEF call
    <2> QED
      BY <1>3, <2>3, <2>4, <2>5, QuietRemembers DEF Login, history
  <1> QED
    BY <1>2, <1>3 DEF Login

LEMMA ExchangedRow ==
    ASSUME TypeOK, Books, NEW c \in Slots, NEW step, At(c, {"refresh"}, step)
    PROVE  /\ calls[c].req.session \in SessionIds
           /\ sessions[calls[c].req.session] \in Session
           /\ sessions[calls[c].req.session].exists
           /\ Whom(c) = sessions[calls[c].req.session].owner
           /\ Whom(c) \in Emails /\ accounts[Whom(c)] \in Account
  <1>1. /\ calls[c].req \in Requests /\ calls[c].req.op = "refresh"
        /\ CallGood(calls[c]) /\ calls[c].req # NoRequest
    BY AtStep
  <1>2. calls[c].req.session \in SessionIds /\ sessions[calls[c].req.session].exists
    BY <1>1, RequestShape DEF CallGood, Handed
  <1>3. accounts[Whom(c)].exists /\ Whom(c) \in Emails
    BY <1>1, WhomTyped
  <1> QED
    BY <1>1, <1>2, <1>3, SessionShape, AccountShape DEF Whom, Of

LEMMA RotateKeeps ==
    ASSUME TypeOK, Books, NEW c \in Slots,
           \/ RotateReads(c) \/ RotateRefused(c) \/ Alarm(c)
           \/ RotateUser(c) \/ RotateRevokes(c)
    PROVE  Kept
  <1> DEFINE q == calls[c].req
             i == q.session
             e == Whom(c)
  <1>0. \E step : At(c, {"refresh"}, step)
    BY DEF RotateReads, RotateRefused, Alarm, RotateUser, RotateRevokes
  <1>a. /\ q \in Requests /\ q.op = "refresh" /\ q # NoRequest /\ CallGood(calls[c])
        /\ calls[c].step # "idle"
    BY <1>0, AtStep
  <1>b. /\ i \in SessionIds /\ sessions[i] \in Session /\ sessions[i].exists
        /\ e = sessions[i].owner /\ e \in Emails /\ accounts[e] \in Account
    BY <1>0, ExchangedRow
  <1> HIDE DEF e
  <1>1. CASE RotateReads(c)
    <2> DEFINE call == [calls[c] EXCEPT !.step = "user", !.read = epoch[e]]
    <2>1. epoch[e] \in Nat
      BY <1>b DEF TypeOK
    <2>2. call \in Call /\ call.step = "user" /\ call.req = q
      BY <2>1, CallShape DEF Call, Steps
    <2>3. calls' = [calls EXCEPT ![c] = call]
      BY <1>1 DEF RotateReads, e
    <2> HIDE DEF call
    <2>4. StepFits(call)
      BY <1>a, <2>2 DEF StepFits
    <2>5. raced' \subseteq ({"session"} \X SessionIds) \cup ({"link"} \X LinkIds)
      BY <1>1, <1>b, RaceTyped DEF RotateReads
    <2> QED
      BY <1>1, <2>2, <2>3, <2>4, <2>5, QuietRemembers DEF RotateReads
  <1>2. CASE RotateRefused(c)
    <2>1. CASE Answer(c)
      BY <1>2, <2>1, QuietAnswers DEF RotateRefused
    <2>2. CASE Go(c, "alarm")
      <3>1. StepFits([calls[c] EXCEPT !.step = "alarm"])
        BY <1>a, FitsNext DEF Steps
      <3> QED
        BY <1>2, <1>a, <2>2, <3>1, QuietGoes DEF RotateRefused, Steps
    <2> QED
      BY <1>2, <2>1, <2>2 DEF RotateRefused
  <1>3. CASE Alarm(c)
    <2>1. sessions' = RevokedAll(e) /\ epoch' = [epoch EXCEPT ![e] = @ + 1]
      BY <1>3 DEF Alarm, e
    <2>2. /\ sessions' \in [SessionIds -> Session \cup {NoSession}]
          /\ \A j \in SessionIds : sessions'[j].exists = sessions[j].exists
          /\ \A j \in SessionIds : sessions[j].exists =>
                sessions'[j].owner = sessions[j].owner
      BY <1>b, <2>1, RevokedAllSet
    <2>3. epoch' \in [Emails -> Nat]
      BY <1>b, <2>1 DEF TypeOK
    <2>4. calls' \in [Slots -> Call] /\ Others(c) /\ calls'[c] = Idle
      BY <1>3, AnswerSet DEF Alarm
    <2>5. TypeOK'
      BY <1>3, <2>2, <2>3, <2>4 DEF Alarm, TypeOK
    <2>6. Grows /\ RowsOwned'
      <3>1. Grows
        BY <1>3, <2>2 DEF Alarm, Grows
      <3> QED
        BY <1>3, <2>2, <3>1, NoNewRows DEF Alarm
    <2> QED
      BY <2>4, <2>5, <2>6, GoodIdle, BooksKept DEF Kept
  <1>4. CASE RotateUser(c)
    <2> DEFINE call == [calls[c] EXCEPT !.step = "revoke", !.role = accounts[e].role,
                                        !.roleNr = roleNr[e]]
    <2>1. roleNr[e] \in Nat /\ accounts[e].role \in Roles
      BY <1>b DEF TypeOK, Account
    <2>2. call \in Call /\ call.step = "revoke" /\ call.req = q
      BY <2>1, CallShape DEF Call, Steps
    <2>3. calls' = [calls EXCEPT ![c] = call]
      BY <1>4 DEF RotateUser, e
    <2> HIDE DEF call
    <2>4. StepFits(call)
      BY <1>a, <2>2 DEF StepFits
    <2>5. raced' \subseteq ({"session"} \X SessionIds) \cup ({"link"} \X LinkIds)
      BY <1>4 DEF RotateUser, TypeOK, history
    <2> QED
      BY <1>4, <2>2, <2>3, <2>4, <2>5, QuietRemembers DEF RotateUser, history
  <1>5. CASE RotateRevokes(c)
    <2> DEFINE row == [sessions[i] EXCEPT !.revoked = TRUE]
    <2>1. row \in Session /\ row.owner = sessions[i].owner
      BY <1>b DEF Session
    <2>2. sessions' = [sessions EXCEPT ![i] = row]
      BY <1>5 DEF RotateRevokes
    <2> HIDE DEF row
    <2>3. /\ sessions' \in [SessionIds -> Session \cup {NoSession}]
          /\ \A j \in SessionIds \ {i} : sessions'[j] = sessions[j]
          /\ \A j \in SessionIds : sessions[j].exists =>
                sessions'[j].exists /\ sessions'[j].owner = sessions[j].owner
      BY <1>b, <2>1, <2>2, SessionSet
    <2>4. /\ calls' \in [Slots -> Call] /\ Others(c)
          /\ calls'[c] = [calls[c] EXCEPT !.step = "issue"]
          /\ calls'[c].step = "issue" /\ calls'[c].req = calls[c].req
      BY <1>5, GoSet DEF RotateRevokes, Steps
    <2>5. TypeOK'
      BY <1>5, <2>3, <2>4 DEF RotateRevokes, TypeOK, history
    <2>6. Grows
      BY <1>5, <2>3 DEF RotateRevokes, Grows
    <2>7. RowsOwned'
      BY <1>5, <1>b, <2>3, <2>6, NoNewRows DEF RotateRevokes
    <2>8. StepFits(calls'[c])
      BY <1>a, <2>4, FitsNext DEF Steps
    <2>9. CallGood(calls[c])'
      BY <1>a, <2>4, <2>6, <2>8, GoesOn
    <2> QED
      BY <2>4, <2>5, <2>6, <2>7, <2>9, BooksKept DEF Kept
  <1> QED
    BY <1>1, <1>2, <1>3, <1>4, <1>5

LEMMA IssueKeeps ==
    ASSUME TypeOK, Books, NEW c \in Slots, IssueTokens(c)
    PROVE  Kept
  <1> DEFINE q == calls[c].req
             e == Whom(c)
             n == Free(sessions)
             row == [exists |-> TRUE, owner |-> e, by |-> q.op, revoked |-> FALSE,
                     role |-> calls[c].role, age |-> "fresh", read |-> calls[c].read,
                     issued |-> epoch[e], roleNr |-> calls[c].roleNr]
  <1>1. /\ q \in Requests /\ q.op \in {"login", "refresh"} /\ q # NoRequest
        /\ CallGood(calls[c]) /\ e \in Emails /\ calls[c].step = "issue"
    BY AtStep DEF IssueTokens
  <1>2. accounts[e].exists
    <2>1. CASE q.op = "refresh"
      BY <1>1, <2>1, WhomTyped
    <2>2. CASE q.op = "login"
      <3>1. e = q.email
        BY <1>1, <2>2, WhomTyped
      <3> QED
        BY <1>1, <2>2, <3>1 DEF CallGood, Entitled
    <2> QED
      BY <1>1, <2>1, <2>2
  <1>3. n \in SessionIds /\ ~sessions[n].exists
    BY FreeSession DEF IssueTokens
  <1>4. sessions' = [sessions EXCEPT ![n] = row]
    BY DEF IssueTokens
  <1> HIDE DEF e
  <1>5. row \in Session /\ row.owner = e /\ row.exists
    <2>1. epoch[e] \in Nat
      BY <1>1 DEF TypeOK
    <2> QED
      BY <1>1, <2>1, CallShape DEF Session
  <1> HIDE DEF n, row
  <1>6. /\ sessions' \in [SessionIds -> Session \cup {NoSession}]
        /\ sessions'[n] = row
        /\ \A j \in SessionIds \ {n} : sessions'[j] = sessions[j]
        /\ \A j \in SessionIds : sessions[j].exists =>
              sessions'[j].exists /\ sessions'[j].owner = sessions[j].owner
    BY <1>3, <1>4, <1>5, SessionSet
  <1>7. calls' \in [Slots -> Call] /\ Others(c) /\ calls'[c] = Idle
    BY AnswerSet DEF IssueTokens
  <1>8. rotations' \in [SessionIds -> Nat]
    <2>1. q.op = "refresh" => q.session \in SessionIds
      BY <1>1, RequestShape
    <2> QED
      BY <2>1 DEF IssueTokens, TypeOK
  <1>9. TypeOK'
    BY <1>6, <1>7, <1>8 DEF IssueTokens, TypeOK
  <1>10. Grows
    BY <1>6 DEF IssueTokens, Grows
  <1>11. RowsOwned'
    <2>1. accounts' = accounts /\ links' = links /\ mailed' = mailed
      BY DEF IssueTokens
    <2>2. \A j \in SessionIds : sessions'[j].exists => accounts'[sessions'[j].owner].exists
      BY <1>2, <1>5, <1>6, <2>1 DEF Books, RowsOwned
    <2> QED
      BY <2>1, <2>2 DEF Books, RowsOwned
  <1> QED
    BY <1>7, <1>9, <1>10, <1>11, GoodIdle, BooksKept DEF Kept

(* A token that is revoked, a link that is marked, a session or link whose *)
(* time is up: the row stays whose it is.                                  *)
LEMMA RevokedRow ==
    ASSUME TypeOK, Books, NEW i \in SessionIds, sessions[i].exists,
           sessions' = [sessions EXCEPT ![i].revoked = TRUE],
           UNCHANGED <<accounts, links, mailed>>
    PROVE  /\ sessions' \in [SessionIds -> Session \cup {NoSession}]
           /\ sessions'[i] = [sessions[i] EXCEPT !.revoked = TRUE]
           /\ \A j \in SessionIds \ {i} : sessions'[j] = sessions[j]
           /\ Grows /\ RowsOwned'
  <1> DEFINE row == [sessions[i] EXCEPT !.revoked = TRUE]
  <1>1. row \in Session /\ row.owner = sessions[i].owner
    BY SessionShape DEF Session
  <1>2. sessions' = [sessions EXCEPT ![i] = row]
    OBVIOUS
  <1> HIDE DEF row
  <1>3. /\ sessions' \in [SessionIds -> Session \cup {NoSession}]
        /\ sessions'[i] = row
        /\ \A j \in SessionIds \ {i} : sessions'[j] = sessions[j]
        /\ \A j \in SessionIds : sessions[j].exists =>
              sessions'[j].exists /\ sessions'[j].owner = sessions[j].owner
    BY <1>1, <1>2, SessionSet
  <1>4. Grows
    BY <1>3 DEF Grows
  <1> QED
    BY <1>3, <1>4, NoNewRows DEF row

LEMMA MarkedRow ==
    ASSUME TypeOK, Books, NEW l \in LinkIds, links[l].exists,
           links' = [links EXCEPT ![l].used = TRUE],
           UNCHANGED <<accounts, sessions, mailed>>
    PROVE  /\ links' \in [LinkIds -> Link \cup {NoLink}]
           /\ links'[l] = [links[l] EXCEPT !.used = TRUE]
           /\ \A k \in LinkIds \ {l} : links'[k] = links[k]
           /\ Grows /\ RowsOwned'
  <1> DEFINE row == [links[l] EXCEPT !.used = TRUE]
  <1>1. row \in Link /\ row.owner = links[l].owner /\ row.type = links[l].type
    BY LinkShape DEF Link
  <1>2. links' = [links EXCEPT ![l] = row]
    OBVIOUS
  <1> HIDE DEF row
  <1>3. /\ links' \in [LinkIds -> Link \cup {NoLink}]
        /\ links'[l] = row
        /\ \A k \in LinkIds \ {l} : links'[k] = links[k]
        /\ \A k \in LinkIds : links[k].exists =>
              /\ links'[k].exists /\ links'[k].owner = links[k].owner
              /\ links'[k].type = links[k].type
    BY <1>1, <1>2, LinkSet
  <1>4. Grows
    BY <1>3 DEF Grows
  <1> QED
    BY <1>3, <1>4, NoNewRows DEF row

LEMMA LogoutKeeps ==
    ASSUME TypeOK, Books, NEW c \in Slots, Logout(c)
    PROVE  Kept
  <1>1. /\ calls[c].req \in Requests /\ calls[c].req.op = "logout" /\ CallGood(calls[c])
    BY AtStep DEF Logout
  <1>2. calls[c].req.session \in SessionIds /\ sessions[calls[c].req.session].exists
    BY <1>1, RequestShape DEF CallGood, Handed
  <1>3. /\ sessions' \in [SessionIds -> Session \cup {NoSession}]
        /\ Grows /\ RowsOwned'
    BY <1>2, RevokedRow DEF Logout
  <1>4. calls' \in [Slots -> Call] /\ Others(c) /\ calls'[c] = Idle
    BY AnswerSet DEF Logout
  <1>5. TypeOK'
    BY <1>3, <1>4 DEF Logout, TypeOK, history
  <1> QED
    BY <1>3, <1>4, <1>5, GoodIdle, BooksKept DEF Kept

(* The link that a handler consumes. *)
LEMMA ConsumedRow ==
    ASSUME TypeOK, Books, NEW c \in Slots, NEW step, NEW ops,
           At(c, ops, step), ops \subseteq {"verify", "reset"}
    PROVE  /\ calls[c].req.link \in LinkIds
           /\ links[calls[c].req.link] \in Link /\ links[calls[c].req.link].exists
           /\ Whom(c) = links[calls[c].req.link].owner
           /\ Whom(c) \in Emails /\ accounts[Whom(c)] \in Account
  <1>1. /\ calls[c].req \in Requests /\ calls[c].req.op \in {"verify", "reset"}
        /\ CallGood(calls[c]) /\ calls[c].req # NoRequest
    BY AtStep
  <1>2. calls[c].req.link \in LinkIds /\ links[calls[c].req.link].exists
    BY <1>1, RequestShape DEF CallGood, Handed
  <1>3. accounts[Whom(c)].exists /\ Whom(c) \in Emails
    BY <1>1, WhomTyped
  <1> QED
    BY <1>1, <1>2, <1>3, LinkShape, AccountShape DEF Whom, Of

LEMMA ConsumeKeeps ==
    ASSUME TypeOK, Books, NEW c \in Slots, ConsumeReads(c) \/ ConsumeWrites(c)
    PROVE  Kept
  <1> DEFINE q == calls[c].req
  <1>0. \E step : At(c, {"verify", "reset"}, step)
    BY DEF ConsumeReads, ConsumeWrites
  <1>a. /\ q \in Requests /\ q.op \in {"verify", "reset"} /\ q # NoRequest
        /\ calls[c].step # "idle"
    BY <1>0, AtStep
  <1>b. q.link \in LinkIds /\ links[q.link] \in Link /\ links[q.link].exists
    BY <1>0, ConsumedRow
  <1>1. CASE ConsumeReads(c)
    <2>1. CASE Go(c, "use") /\ Race(c, "link", q.link)
      <3> DEFINE call == [calls[c] EXCEPT !.step = "use"]
      <3>1. call \in Call /\ call.step = "use" /\ call.req = q
        BY CallShape DEF Call, Steps
      <3>2. calls' = [calls EXCEPT ![c] = call]
        BY <2>1 DEF Go
      <3> HIDE DEF call
      <3>3. StepFits(call)
        BY <1>a, <3>1 DEF StepFits
      <3>4. raced' \subseteq ({"session"} \X SessionIds) \cup ({"link"} \X LinkIds)
        BY <2>1, <1>b, RaceTyped
      <3> QED
        BY <1>1, <3>1, <3>2, <3>3, <3>4, QuietRemembers DEF ConsumeReads
    <2>2. CASE Answer(c) /\ UNCHANGED raced
      BY <1>1, <2>2, QuietAnswers DEF ConsumeReads, history
    <2> QED
      BY <1>1, <2>1, <2>2 DEF ConsumeReads
  <1>2. CASE ConsumeWrites(c)
    <2>1. /\ links' \in [LinkIds -> Link \cup {NoLink}] /\ Grows /\ RowsOwned'
      BY <1>2, <1>b, MarkedRow DEF ConsumeWrites
    <2>2. PICK step \in {"verify", "password"} :
             Go(c, step) /\ (step = "verify" <=> q.op = "verify")
      BY <1>2 DEF ConsumeWrites
    <2>3. /\ calls' \in [Slots -> Call] /\ Others(c)
          /\ calls'[c] = [calls[c] EXCEPT !.step = step]
          /\ calls'[c].step = step /\ calls'[c].req = calls[c].req
      BY <2>2, GoSet DEF Steps
    <2>4. StepFits(calls'[c])
      BY <1>a, <2>2, <2>3, FitsNext DEF Steps
    <2>5. CallGood(calls[c])'
      BY <2>1, <2>2, <2>3, <2>4, GoesOn
    <2>6. TypeOK'
      BY <1>2, <2>1, <2>3 DEF ConsumeWrites, TypeOK, history
    <2> QED
      BY <2>1, <2>3, <2>5, <2>6, BooksKept DEF Kept
  <1> QED
    BY <1>1, <1>2

LEMMA VerifyKeeps ==
    ASSUME TypeOK, Books, NEW c \in Slots, VerifyEmail(c)
    PROVE  Kept
  <1> DEFINE e == Whom(c)
             a == [accounts[e] EXCEPT !.verified = TRUE]
  <1>1. calls[c].req.link \in LinkIds /\ e \in Emails /\ accounts[e] \in Account
    BY ConsumedRow DEF VerifyEmail
  <1>2. a \in Account
    BY <1>1 DEF Account
  <1>3. accounts' = [accounts EXCEPT ![e] = a]
    BY DEF VerifyEmail
  <1> HIDE DEF e, a
  <1>4. /\ accounts' \in [Emails -> Account \cup {NoAccount}]
        /\ \A f \in Emails : accounts[f].exists => accounts'[f].exists
    BY <1>1, <1>2, <1>3, AccountSet
  <1>5. calls' \in [Slots -> Call] /\ Others(c) /\ calls'[c] = Idle
    BY AnswerSet DEF VerifyEmail
  <1>6. effects' \in [LinkIds -> Nat]
    BY <1>1 DEF VerifyEmail, Effect, TypeOK
  <1>7. TypeOK'
    BY <1>4, <1>5, <1>6 DEF VerifyEmail, TypeOK
  <1>8. Grows
    BY <1>4 DEF VerifyEmail, Grows
  <1>9. RowsOwned'
    BY <1>8, NoNewRows DEF VerifyEmail
  <1> QED
    BY <1>5, <1>7, <1>8, <1>9, GoodIdle, BooksKept DEF Kept

LEMMA PasswordKeeps ==
    ASSUME TypeOK, Books, NEW c \in Slots,
           ChangeReads(c) \/ SetPassword(c) \/ SignOut(c) \/ AnnounceChange(c)
    PROVE  Kept
  <1> DEFINE q == calls[c].req
             e == Whom(c)
  <1>0. \E step : At(c, {"reset", "change"}, step)
    BY DEF ChangeReads, SetPassword, SignOut, AnnounceChange, At
  <1>a. /\ q \in Requests /\ q.op \in {"reset", "change"} /\ q # NoRequest
        /\ calls[c].step # "idle" /\ e \in Emails
    BY <1>0, AtStep
  <1>b. accounts[e] \in Account
    BY <1>a, WhomTyped, AccountShape
  <1> HIDE DEF e
  <1>1. CASE ChangeReads(c)
    <2>1. CASE Go(c, "password")
      <3>1. StepFits([calls[c] EXCEPT !.step = "password"])
        BY <1>a, FitsNext DEF Steps
      <3> QED
        BY <1>1, <1>a, <2>1, <3>1, QuietGoes DEF ChangeReads, Steps
    <2>2. CASE Answer(c)
      BY <1>1, <2>2, QuietAnswers DEF ChangeReads
    <2> QED
      BY <1>1, <2>1, <2>2 DEF ChangeReads
  <1>2. CASE SetPassword(c)
    <2> DEFINE a == [accounts[e] EXCEPT !.password = q.password]
    <2>1. a \in Account
      BY <1>a, <1>b, RequestShape DEF Account
    <2>2. accounts' = [accounts EXCEPT ![e] = a]
      BY <1>2 DEF SetPassword, e
    <2> HIDE DEF a
    <2>3. /\ accounts' \in [Emails -> Account \cup {NoAccount}]
          /\ \A f \in Emails : accounts[f].exists => accounts'[f].exists
      BY <1>a, <2>1, <2>2, AccountSet
    <2>4. epoch' \in [Emails -> Nat]
      BY <1>2, <1>a DEF SetPassword, TypeOK, e
    <2>5. effects' \in [LinkIds -> Nat]
      BY <1>2, <1>a, RequestShape DEF SetPassword, Effect, TypeOK
    <2>6. /\ calls' \in [Slots -> Call] /\ Others(c)
          /\ calls'[c] = [calls[c] EXCEPT !.step = "sweep"]
          /\ calls'[c].step = "sweep" /\ calls'[c].req = calls[c].req
      BY <1>2, GoSet DEF SetPassword, Steps
    <2>7. TypeOK'
      BY <1>2, <2>3, <2>4, <2>5, <2>6 DEF SetPassword, TypeOK
    <2>8. Grows
      BY <1>2, <2>3 DEF SetPassword, Grows
    <2>9. RowsOwned'
      BY <1>2, <2>8, NoNewRows DEF SetPassword
    <2>10. StepFits(calls'[c])
      BY <1>a, <2>6, FitsNext DEF Steps
    <2> QED
      BY <2>6, <2>7, <2>8, <2>9, <2>10, GoesOn, BooksKept DEF Kept
  <1>3. CASE SignOut(c)
    <2>1. /\ sessions' \in [SessionIds -> Session \cup {NoSession}]
          /\ \A j \in SessionIds : sessions'[j].exists = sessions[j].exists
          /\ \A j \in SessionIds : sessions[j].exists =>
                sessions'[j].owner = sessions[j].owner
      BY <1>3, <1>a, RevokedAllSet DEF SignOut, e
    <2>2. /\ calls' \in [Slots -> Call] /\ Others(c)
          /\ calls'[c] = [calls[c] EXCEPT !.step = "changed"]
          /\ calls'[c].step = "changed" /\ calls'[c].req = calls[c].req
      BY <1>3, GoSet DEF SignOut, Steps
    <2>3. TypeOK'
      BY <1>3, <2>1, <2>2 DEF SignOut, TypeOK
    <2>4. Grows
      BY <1>3, <2>1 DEF SignOut, Grows
    <2>5. RowsOwned'
      BY <1>3, <2>1, <2>4, NoNewRows DEF SignOut
    <2>6. StepFits(calls'[c])
      BY <1>a, <2>2, FitsNext DEF Steps
    <2> QED
      BY <2>2, <2>3, <2>4, <2>5, <2>6, GoesOn, BooksKept DEF Kept
  <1>4. CASE AnnounceChange(c)
    BY <1>4, QuietAnswers DEF AnnounceChange
  <1> QED
    BY <1>1, <1>2, <1>3, <1>4

LEMMA RoleKeeps ==
    ASSUME TypeOK, Books, NEW c \in Slots, SetRole(c)
    PROVE  Kept
  <1> DEFINE q == calls[c].req
  <1>1. q \in Requests /\ q.op = "setRole"
    BY AtStep DEF SetRole
  <1>2. q.email \in Emails /\ q.role \in Roles
    BY <1>1, RequestShape
  <1>3. CASE ~accounts[q.email].exists
    BY <1>3, QuietAnswers DEF SetRole, history
  <1>4. CASE accounts[q.email].exists
    <2> DEFINE a == [accounts[q.email] EXCEPT !.role = q.role]
    <2>1. a \in Account
      BY <1>2, <1>4, AccountShape DEF Account
    <2>2. accounts' = [accounts EXCEPT ![q.email] = a]
      BY <1>4 DEF SetRole
    <2> HIDE DEF a
    <2>3. /\ accounts' \in [Emails -> Account \cup {NoAccount}]
          /\ \A f \in Emails : accounts[f].exists => accounts'[f].exists
      BY <1>2, <2>1, <2>2, AccountSet
    <2>4. roleNr' \in [Emails -> Nat]
      BY <1>2, <1>4 DEF SetRole, TypeOK
    <2>5. calls' \in [Slots -> Call] /\ Others(c) /\ calls'[c] = Idle
      BY AnswerSet DEF SetRole
    <2>6. TypeOK'
      BY <2>3, <2>4, <2>5 DEF SetRole, TypeOK
    <2>7. Grows
      BY <2>3 DEF SetRole, Grows
    <2>8. RowsOwned'
      BY <2>7, NoNewRows DEF SetRole
    <2> QED
      BY <2>5, <2>6, <2>7, <2>8, GoodIdle, BooksKept DEF Kept
  <1> QED
    BY <1>3, <1>4

(* What a failure cuts short is about somebody or some link. *)
LEMMA UndoneTyped ==
    ASSUME TypeOK, Books, NEW slots \in SUBSET Slots
    PROVE  Undone(slots) \subseteq Cuts
  <1>1. ASSUME NEW c \in slots, calls[c].step \in {"link", "publish", "sweep"}
        PROVE  Whom(c) \in Emails
    <2>1. calls[c].req # NoRequest
      BY <1>1 DEF Books, CallGood, StepFits
    <2> QED
      BY <2>1, WhomTyped
  <1>2. ASSUME NEW c \in slots, At(c, {"verify"}, "verify") \/ At(c, {"reset"}, "password")
        PROVE  calls[c].req.link \in LinkIds
    BY <1>2, ConsumedRow
  <1> QED
    BY <1>1, <1>2 DEF Undone, Cuts

LEMMA FailsTyped ==
    ASSUME TypeOK, Fails
    PROVE  failures' \in 0..MaxFailures
  BY AccountBounds DEF TypeOK, Fails

LEMMA HandlerFailsKeeps ==
    ASSUME TypeOK, Books, NEW c \in Slots, HandlerFails(c)
    PROVE  Kept
  <1>1. calls' \in [Slots -> Call] /\ Others(c) /\ calls'[c] = Idle
    BY AnswerSet DEF HandlerFails
  <1>2. cut' \subseteq Cuts /\ failures' \in 0..MaxFailures
    BY UndoneTyped, FailsTyped DEF HandlerFails, TypeOK
  <1>3. TypeOK'
    BY <1>1, <1>2 DEF HandlerFails, TypeOK
  <1>4. Grows /\ RowsOwned'
    BY Quiet DEF HandlerFails
  <1> QED
    BY <1>1, <1>3, <1>4, GoodIdle, BooksKept DEF Kept

LEMMA CrashKeeps ==
    ASSUME TypeOK, Books, Crash
    PROVE  Kept
  <1>1. ASSUME NEW c \in Slots
        PROVE  calls'[c] \in Call /\ CallGood(calls[c])'
    <2>1. CASE calls[c].step = "idle"
      <3>1. calls'[c] = Idle
        BY <2>1 DEF Crash
      <3> QED
        BY <3>1, IdleTyped, GoodIdle
    <2>2. CASE calls[c].step # "idle"
      <3>0. PICK q \in Requests : q = calls[c].req
        BY <2>2, CallShape DEF Books, CallGood, StepFits
      <3>1. calls'[c] = [Idle EXCEPT !.req = q, !.step = "start"]
        BY <2>2, <3>0 DEF Crash
      <3>2. q # NoRequest /\ Handed(q)
        BY <3>0, RequestShape DEF Books, CallGood
      <3>3. calls'[c] \in Call /\ calls'[c].req = q /\ calls'[c].step = "start"
        BY <3>1, <3>2, IdleTyped DEF Idle, Call, Steps
      <3>4. Handed(q)'
        BY <3>2 DEF Crash, Handed
      <3> QED
        BY <3>2, <3>3, <3>4 DEF CallGood, StepFits, Entitled, Created
    <2> QED
      BY <2>1, <2>2
  <1>2. calls' \in [Slots -> Call]
    BY <1>1 DEF Crash
  <1>3. cut' \subseteq Cuts /\ failures' \in 0..MaxFailures
    BY UndoneTyped, FailsTyped DEF Crash, TypeOK
  <1>4. TypeOK'
    BY <1>2, <1>3 DEF Crash, TypeOK
  <1>5. Grows /\ RowsOwned'
    BY Quiet DEF Crash
  <1> QED
    BY <1>1, <1>4, <1>5 DEF Kept, Books

LEMMA ReceiveKeeps ==
    ASSUME TypeOK, Books, NEW c \in Slots, Receive(c)
    PROVE  Kept
  <1>1. PICK q \in Requests :
           /\ Admitted(q)
           /\ calls' = [calls EXCEPT ![c] = [Idle EXCEPT !.req = q, !.step = "start"]]
    BY DEF Receive
  <1> DEFINE call == [Idle EXCEPT !.req = q, !.step = "start"]
  <1>2. call \in Call /\ call.req = q /\ call.step = "start"
    BY IdleTyped DEF Idle, Call, Steps
  <1> HIDE DEF call
  <1>3. calls' \in [Slots -> Call] /\ calls'[c] = call /\ Others(c)
    BY <1>1, <1>2, CallSet DEF call
  <1>4. Handed(q)
    BY <1>1, RequestShape DEF Admitted, CanActivate, Handed, Books, RowsOwned
  <1>5. Grows /\ RowsOwned'
    BY Quiet DEF Receive
  <1>6. CallGood(calls[c])'
    <2>1. Handed(q)'
      BY <1>4 DEF Receive, Handed
    <2>2. q # NoRequest
      BY RequestShape
    <2> QED
      BY <1>2, <1>3, <2>1, <2>2 DEF CallGood, StepFits, Entitled, Created
  <1>7. requests' \in 0..MaxRequests
    BY AccountBounds DEF Receive, TypeOK
  <1>8. TypeOK'
    BY <1>3, <1>7 DEF Receive, TypeOK, history
  <1> QED
    BY <1>3, <1>5, <1>6, <1>8, BooksKept DEF Kept

(* Time changes rows and no call. *)
LEMMA TimeKeeps ==
    ASSUME TypeOK, Books,
           \/ \E i \in SessionIds : ExpireToken(i)
           \/ \E l \in LinkIds : ExpireLink(l)
    PROVE  Kept
  <1>1. Grows /\ RowsOwned' /\ calls' = calls => Books'
    BY StaysGood DEF Books
  <1>2. ASSUME NEW i \in SessionIds, ExpireToken(i)
        PROVE  Kept
    <2>1. sessions[i] \in Session /\ sessions[i].exists
      BY <1>2, SessionShape DEF ExpireToken
    <2>2. PICK age \in {"stale", "expired"} :
             sessions' = [sessions EXCEPT ![i].age = age]
      BY <1>2 DEF ExpireToken
    <2> DEFINE row == [sessions[i] EXCEPT !.age = age]
    <2>3. row \in Session /\ row.owner = sessions[i].owner
      BY <2>1 DEF Session
    <2>4. sessions' = [sessions EXCEPT ![i] = row]
      BY <2>2
    <2> HIDE DEF row
    <2>5. /\ sessions' \in [SessionIds -> Session \cup {NoSession}]
          /\ \A j \in SessionIds \ {i} : sessions'[j] = sessions[j]
          /\ \A j \in SessionIds : sessions[j].exists =>
                sessions'[j].exists /\ sessions'[j].owner = sessions[j].owner
      BY <2>3, <2>4, SessionSet
    <2>6. TypeOK' /\ Grows
      BY <1>2, <2>5 DEF ExpireToken, TypeOK, Grows, history
    <2>7. RowsOwned'
      BY <1>2, <2>1, <2>5, <2>6, NoNewRows DEF ExpireToken
    <2> QED
      BY <1>1, <1>2, <2>6, <2>7 DEF Kept, ExpireToken
  <1>3. ASSUME NEW l \in LinkIds, ExpireLink(l)
        PROVE  Kept
    <2>1. links[l] \in Link /\ links[l].exists
      BY <1>3, LinkShape DEF ExpireLink
    <2> DEFINE row == [links[l] EXCEPT !.expired = TRUE]
    <2>3. row \in Link /\ row.owner = links[l].owner /\ row.type = links[l].type
      BY <2>1 DEF Link
    <2>4. links' = [links EXCEPT ![l] = row]
      BY <1>3 DEF ExpireLink
    <2> HIDE DEF row
    <2>5. /\ links' \in [LinkIds -> Link \cup {NoLink}]
          /\ \A k \in LinkIds \ {l} : links'[k] = links[k]
          /\ \A k \in LinkIds : links[k].exists =>
                /\ links'[k].exists /\ links'[k].owner = links[k].owner
                /\ links'[k].type = links[k].type
      BY <2>3, <2>4, LinkSet
    <2>6. TypeOK' /\ Grows
      BY <1>3, <2>5 DEF ExpireLink, TypeOK, Grows, history
    <2>7. RowsOwned'
      BY <1>3, <2>1, <2>5, <2>6, NoNewRows DEF ExpireLink
    <2> QED
      BY <1>1, <1>3, <2>6, <2>7 DEF Kept, ExpireLink
  <1> QED
    BY <1>2, <1>3

LEMMA HandlerKeeps ==
    ASSUME TypeOK, Books, NEW c \in Slots, HandlerStep(c)
    PROVE  Kept
  BY RegisterKeeps, LinkKeeps, LoginKeeps, RotateKeeps, IssueKeeps, LogoutKeeps,
     ConsumeKeeps, VerifyKeeps, PasswordKeeps, RoleKeeps DEF HandlerStep

LEMMA NextKeeps ==
    ASSUME TypeOK, Books, Next
    PROVE  Kept
  BY HandlerKeeps, HandlerFailsKeeps, ReceiveKeeps, CrashKeeps, TimeKeeps DEF Next

LEMMA AccountBooks == Spec => [](TypeOK /\ Books)
  <1>1. Init => TypeOK /\ Books
    <2> SUFFICES ASSUME Init PROVE TypeOK /\ Books
      OBVIOUS
    <2>1. accounts \in [Emails -> Account \cup {NoAccount}]
      BY DEF Init
    <2>2. calls \in [Slots -> Call] /\ \A c \in Slots : calls[c] = Idle
      BY IdleTyped DEF Init
    <2>3. TypeOK
      BY <2>1, <2>2, AccountBounds DEF Init, TypeOK
    <2>4. \A c \in Slots : CallGood(calls[c])
      BY <2>2 DEF CallGood, StepFits, Handed, Entitled, Created, Idle, NoRequest
    <2>5. RowsOwned
      BY DEF Init, RowsOwned, NoSession, NoLink
    <2> QED
      BY <2>3, <2>4, <2>5 DEF Books
  <1>2. TypeOK /\ Books /\ [Next]_vars => (TypeOK /\ Books)'
    <2> SUFFICES ASSUME TypeOK, Books, [Next]_vars
                 PROVE  TypeOK' /\ Books'
      OBVIOUS
    <2>1. CASE UNCHANGED vars
      <3>1. TypeOK' /\ calls' = calls
        BY <2>1 DEF vars, history, TypeOK
      <3>2. Grows /\ RowsOwned'
        BY <2>1, Quiet DEF vars
      <3> QED
        BY <3>1, <3>2, StaysGood DEF Books
    <2> QED
      BY <2>1, NextKeeps DEF Kept
  <1> QED
    BY <1>1, <1>2, PTL DEF Spec

(* Every reachable state of the auth service is well typed: no handler     *)
(* writes to a row that is not there, whatever was redelivered, failed or  *)
(* expired since it read it.                                               *)
THEOREM AccountsTyped == Spec => []TypeOK
  BY AccountBooks, PTL

-----------------------------------------------------------------------------
(* What the invariants below need of all steps. *)

LEMMA OneSlot ==
    ASSUME TypeOK, NEW c \in Slots,
           HandlerStep(c) \/ HandlerFails(c) \/ Receive(c)
    PROVE  Others(c)
  <1>1. Answer(c) => Others(c)
    BY AnswerSet
  <1>2. ASSUME NEW step, Go(c, step) PROVE Others(c)
    BY <1>2 DEF Go, Others, TypeOK
  <1>3. ASSUME NEW call, calls' = [calls EXCEPT ![c] = call] PROVE Others(c)
    BY <1>3 DEF Others, TypeOK
  <1>4. CASE RegisterReads(c) \/ RegisterTaken(c) \/ RegisterInserts(c)
               \/ Forgot(c) \/ CreateLink(c) \/ PublishLink(c)
    BY <1>1, <1>2, <1>3, <1>4
       DEF RegisterReads, RegisterTaken, RegisterInserts, Forgot, CreateLink, PublishLink
  <1>5. CASE Login(c) \/ RotateReads(c) \/ RotateRefused(c) \/ Alarm(c)
               \/ RotateUser(c) \/ RotateRevokes(c) \/ IssueTokens(c) \/ Logout(c)
    BY <1>1, <1>2, <1>3, <1>5
       DEF Login, RotateReads, RotateRefused, Alarm, RotateUser, RotateRevokes,
           IssueTokens, Logout
  <1>6. CASE ConsumeReads(c) \/ ConsumeWrites(c) \/ VerifyEmail(c) \/ ChangeReads(c)
               \/ SetPassword(c) \/ SignOut(c) \/ AnnounceChange(c) \/ SetRole(c)
    BY <1>1, <1>2, <1>6
       DEF ConsumeReads, ConsumeWrites, VerifyEmail, ChangeReads, SetPassword,
           SignOut, AnnounceChange, SetRole
  <1>7. CASE HandlerFails(c) \/ Receive(c)
    BY <1>1, <1>3, <1>7 DEF HandlerFails, Receive
  <1> QED
    BY <1>4, <1>5, <1>6, <1>7 DEF HandlerStep

LEMMA WhomStays ==
    ASSUME TypeOK, Books, Grows, NEW d \in Slots, calls'[d].req = calls[d].req,
           calls[d].req # NoRequest
    PROVE  Whom(d)' = Whom(d)
  <1> DEFINE q == calls[d].req
  <1>1. q \in Requests /\ Handed(q)
    BY CallShape DEF Books, CallGood
  <1> QED
    BY <1>1, RequestShape DEF Handed, Grows, Whom, Of

-----------------------------------------------------------------------------
(* SignedOut.  A password change moves the epoch on before it revokes the  *)
(* sessions, so between the two the handler owes the revocation.           *)
Owed(e) == \/ \E c \in Slots : calls[c].step = "sweep" /\ Whom(c) = e
           \/ <<"sweep", e>> \in cut

LEMMA OwedStays ==
    ASSUME TypeOK, Books, Grows, cut \subseteq cut',
           \A d \in Slots : calls[d].step = "sweep" => calls'[d] = calls[d],
           NEW e, Owed(e)
    PROVE  Owed(e)'
  <1>1. ASSUME NEW d \in Slots, calls[d].step = "sweep", Whom(d) = e
        PROVE  Owed(e)'
    <2>1. calls'[d] = calls[d] /\ calls[d].req # NoRequest
      BY <1>1 DEF Books, CallGood, StepFits
    <2>2. Whom(d)' = e
      BY <1>1, <2>1, WhomStays
    <2> QED
      BY <1>1, <2>1, <2>2 DEF Owed
  <1> QED
    BY <1>1 DEF Owed

(* Session i as SignedOut has it. *)
Stands(i) == Live(i) => \/ sessions[i].issued = epoch[sessions[i].owner]
                        \/ Owed(sessions[i].owner)

LEMMA StandsThen ==
    ASSUME NEW i \in SessionIds, NEW e, sessions'[i].owner = e,
           sessions'[i].issued = epoch'[e] \/ Owed(e)'
    PROVE  Stands(i)'
  BY DEF Stands, Owed

(* No session comes to life. *)
NoneRevived ==
    \A i \in SessionIds : Live(i)' =>
        Live(i) /\ sessions'[i].issued = sessions[i].issued

LEMMA SignedOutStays ==
    ASSUME TypeOK, Books, SignedOut, Grows, NoneRevived,
           \A e \in Emails : Owed(e) => Owed(e)',
           \A e \in Emails : epoch'[e] = epoch[e] \/ Owed(e)'
                               \/ \A i \in SessionIds : sessions[i].owner = e => ~Live(i)'
    PROVE  SignedOut'
  <1> SUFFICES ASSUME NEW i \in SessionIds, Live(i)'
               PROVE  Stands(i)'
    BY DEF SignedOut, Stands, Owed
  <1>1. Live(i) /\ sessions'[i].issued = sessions[i].issued
    BY DEF NoneRevived
  <1>2. PICK e \in Emails : e = sessions[i].owner /\ sessions'[i].owner = e
    BY <1>1, SessionShape DEF Live, Grows
  <1>3. sessions[i].issued = epoch[e] \/ Owed(e)
    BY <1>1, <1>2 DEF SignedOut, Owed
  <1>4. sessions'[i].issued = epoch'[e] \/ Owed(e)'
    BY <1>1, <1>2, <1>3
  <1> QED
    BY <1>2, <1>4, StandsThen

LEMMA SameSessions ==
    ASSUME sessions' = sessions
    PROVE  NoneRevived
  BY DEF NoneRevived, Live

LEMMA RevokedNone ==
    ASSUME TypeOK, Books, NEW e \in Emails, sessions' = RevokedAll(e)
    PROVE  /\ NoneRevived
           /\ \A i \in SessionIds : sessions[i].owner = e => ~Live(i)'
  <1> SUFFICES ASSUME NEW i \in SessionIds, Live(i)'
               PROVE  /\ Live(i) /\ sessions'[i].issued = sessions[i].issued
                      /\ sessions[i].owner # e
    BY DEF NoneRevived
  <1>1. sessions[i].exists /\ ~sessions'[i].revoked
    BY RevokedAllSet DEF Live
  <1>2. sessions[i].owner # e
    <2> SUFFICES ASSUME sessions[i].owner = e PROVE FALSE
      OBVIOUS
    <2>1. sessions'[i] = [sessions[i] EXCEPT !.revoked = TRUE]
      BY <1>1, RevokedAllSet
    <2> QED
      BY <1>1, <2>1, SessionShape DEF Session
  <1> QED
    BY <1>1, <1>2, RevokedAllSet DEF Live

LEMMA RevokedOne ==
    ASSUME TypeOK, Books, NEW i \in SessionIds, sessions[i].exists,
           sessions' = [sessions EXCEPT ![i].revoked = TRUE],
           UNCHANGED <<accounts, links, mailed>>
    PROVE  NoneRevived
  <1>1. /\ sessions'[i] = [sessions[i] EXCEPT !.revoked = TRUE]
        /\ \A j \in SessionIds \ {i} : sessions'[j] = sessions[j]
    BY RevokedRow
  <1>2. sessions'[i].revoked
    BY <1>1, SessionShape DEF Session
  <1> QED
    BY <1>1, <1>2 DEF NoneRevived, Live

LEMMA PairsDiffer ==
    ASSUME NEW what, NEW a, NEW b, a # b
    PROVE  <<what, a>> # <<what, b>>
  OBVIOUS

LEMMA HandlerSignsOut ==
    ASSUME TypeOK, Books, SignedOut, Grows, NEW c \in Slots, HandlerStep(c)
    PROVE  SignedOut'
  <1> DEFINE e == Whom(c)
  <1>0. Others(c)
    BY OneSlot
  <1>a. ASSUME calls[c].step # "sweep", cut' = cut, NEW f \in Emails, Owed(f)
        PROVE  Owed(f)'
    BY <1>0, <1>a, OwedStays DEF Others
  <1>1. CASE SignOut(c)
    <2>1. e \in Emails /\ sessions' = RevokedAll(e) /\ epoch' = epoch
      BY <1>1, AtStep DEF SignOut
    <2>2. NoneRevived /\ \A i \in SessionIds : sessions[i].owner = e => ~Live(i)'
      BY <2>1, RevokedNone
    <2>3. ASSUME NEW i \in SessionIds, Live(i)'
          PROVE  Stands(i)'
      <3>1. /\ Live(i) /\ sessions'[i].issued = sessions[i].issued
            /\ sessions[i].owner # e
        BY <2>2, <2>3 DEF NoneRevived
      <3>2. PICK f \in Emails : f = sessions[i].owner /\ sessions'[i].owner = f
        BY <3>1, SessionShape DEF Live, Grows
      <3>3. CASE sessions[i].issued = epoch[f]
        BY <2>1, <3>1, <3>2, <3>3, StandsThen
      <3>4. CASE <<"sweep", f>> \in cut
        <4>1. <<"sweep", f>> # <<"sweep", e>>
          <5>1. f # e
            BY <3>1, <3>2
          <5> QED
            BY <5>1, PairsDiffer
        <4>2. cut' = cut \ {<<"sweep", e>>}
          BY <1>1 DEF SignOut
        <4>3. Owed(f)'
          BY <3>4, <4>1, <4>2 DEF Owed
        <4> QED
          BY <3>2, <4>3, StandsThen
      <3>5. ASSUME NEW d \in Slots, calls[d].step = "sweep", Whom(d) = f
            PROVE  Owed(f)'
        <4>1. calls'[d] = calls[d] /\ calls[d].req # NoRequest
          BY <1>0, <3>1, <3>2, <3>5 DEF Others, Books, CallGood, StepFits
        <4>2. Whom(d)' = f
          BY <3>5, <4>1, WhomStays
        <4> QED
          BY <3>5, <4>1, <4>2 DEF Owed
      <3> QED
        BY <3>1, <3>2, <3>3, <3>4, <3>5, StandsThen DEF SignedOut
    <2> QED
      BY <2>3 DEF SignedOut, Stands, Owed
  <1>2. CASE SetPassword(c)
    <2>1. /\ calls[c].step = "password" /\ calls[c].req # NoRequest /\ e \in Emails
          /\ sessions' = sessions /\ cut' = cut /\ epoch' = [epoch EXCEPT ![e] = @ + 1]
      BY <1>2, AtStep DEF SetPassword
    <2>2. calls'[c].req = calls[c].req /\ calls'[c].step = "sweep"
      BY <1>2, GoSet DEF SetPassword, Steps
    <2>3. PICK f \in Emails : f = e
      BY <2>1
    <2>4. Owed(f)'
      BY <2>1, <2>2, <2>3, WhomStays DEF Owed
    <2>5. \A g \in Emails : epoch'[g] = epoch[g] \/ Owed(g)'
      BY <2>1, <2>3, <2>4 DEF TypeOK
    <2> QED
      BY <1>a, <2>1, <2>5, SameSessions, SignedOutStays
  <1>3. CASE Alarm(c)
    <2>1. /\ calls[c].step = "alarm" /\ e \in Emails /\ sessions' = RevokedAll(e)
          /\ cut' = cut /\ epoch' = [epoch EXCEPT ![e] = @ + 1]
      BY <1>3, AtStep DEF Alarm
    <2>2. NoneRevived /\ \A i \in SessionIds : sessions[i].owner = e => ~Live(i)'
      BY <2>1, RevokedNone
    <2>3. \A f \in Emails : epoch'[f] = epoch[f] \/ f = e
      BY <2>1 DEF TypeOK
    <2> QED
      BY <1>a, <2>1, <2>2, <2>3, SignedOutStays
  <1>4. CASE RotateRevokes(c) \/ Logout(c)
    <2>1. /\ calls[c].req \in Requests /\ calls[c].req.op \in {"refresh", "logout"}
          /\ CallGood(calls[c]) /\ calls[c].step \in {"start", "revoke"}
      BY <1>4, AtStep DEF RotateRevokes, Logout
    <2>2. calls[c].req.session \in SessionIds /\ sessions[calls[c].req.session].exists
      BY <2>1, RequestShape DEF CallGood, Handed
    <2>3. NoneRevived
      BY <1>4, <2>2, RevokedOne DEF RotateRevokes, Logout
    <2> QED
      BY <1>4, <1>a, <2>1, <2>3, SignedOutStays DEF RotateRevokes, Logout, history
  <1>5. CASE IssueTokens(c)
    <2> DEFINE n == Free(sessions)
               row == [exists |-> TRUE, owner |-> e, by |-> calls[c].req.op,
                       revoked |-> FALSE, role |-> calls[c].role, age |-> "fresh",
                       read |-> calls[c].read, issued |-> epoch[e],
                       roleNr |-> calls[c].roleNr]
    <2>1. /\ n \in SessionIds /\ sessions' = [sessions EXCEPT ![n] = row]
          /\ epoch' = epoch /\ cut' = cut /\ calls[c].step = "issue"
      BY <1>5, FreeSession DEF IssueTokens, At
    <2>2. row.owner = e /\ row.issued = epoch[e]
      OBVIOUS
    <2> HIDE DEF row, n
    <2>3. sessions'[n] = row /\ \A i \in SessionIds \ {n} : sessions'[i] = sessions[i]
      BY <2>1 DEF TypeOK
    <2>4. ASSUME NEW i \in SessionIds, Live(i)'
          PROVE  Stands(i)'
      <3>1. CASE i = n
        BY <2>1, <2>2, <2>3, <3>1, StandsThen
      <3>2. CASE i # n
        <4>1. sessions'[i] = sessions[i] /\ Live(i)
          BY <2>3, <2>4, <3>2 DEF Live
        <4>2. PICK f \in Emails : f = sessions[i].owner
          BY <4>1, SessionShape DEF Live
        <4>3. sessions[i].issued = epoch[f] \/ Owed(f)
          BY <4>1, <4>2 DEF SignedOut, Owed
        <4> QED
          BY <1>a, <2>1, <4>1, <4>2, <4>3, StandsThen
      <3> QED
        BY <3>1, <3>2
    <2> QED
      BY <2>4 DEF SignedOut, Stands, Owed
  <1>6. CASE RegisterReads(c) \/ RegisterTaken(c) \/ RegisterInserts(c) \/ Forgot(c)
               \/ CreateLink(c) \/ PublishLink(c) \/ Login(c)
    <2>1. /\ sessions' = sessions /\ epoch' = epoch /\ cut' = cut
          /\ calls[c].step # "sweep"
      BY <1>6 DEF RegisterReads, RegisterTaken, RegisterInserts, Forgot, CreateLink,
                  PublishLink, Login, history, At
    <2> QED
      BY <1>a, <2>1, SameSessions, SignedOutStays
  <1>7. CASE RotateReads(c) \/ RotateRefused(c) \/ RotateUser(c)
               \/ ConsumeReads(c) \/ ConsumeWrites(c) \/ VerifyEmail(c)
               \/ ChangeReads(c) \/ AnnounceChange(c) \/ SetRole(c)
    <2>1. /\ sessions' = sessions /\ epoch' = epoch /\ cut' = cut
          /\ calls[c].step # "sweep"
      BY <1>7 DEF RotateReads, RotateRefused, RotateUser, ConsumeReads, ConsumeWrites,
                  VerifyEmail, ChangeReads, AnnounceChange, SetRole, history, At
    <2> QED
      BY <1>a, <2>1, SameSessions, SignedOutStays
  <1> QED
    BY <1>1, <1>2, <1>3, <1>4, <1>5, <1>6, <1>7 DEF HandlerStep

LEMMA OwedAfterFailure ==
    ASSUME TypeOK, Books, NEW slots \in SUBSET Slots, NEW e \in Emails,
           cut' = cut \cup Undone(slots), NEW c \in slots,
           calls[c].step = "sweep", Whom(c) = e
    PROVE  Owed(e)'
  <1>1. <<"sweep", e>> \in Undone(slots)
    BY DEF Undone
  <1> QED
    BY <1>1 DEF Owed

LEMMA NextSignsOut ==
    ASSUME TypeOK, Books, SignedOut, Grows, Next
    PROVE  SignedOut'
  <1>1. ASSUME NEW c \in Slots, Receive(c)
        PROVE  SignedOut'
    <2>1. /\ sessions' = sessions /\ epoch' = epoch /\ cut' = cut
          /\ calls[c].step # "sweep" /\ Others(c)
      BY <1>1, OneSlot DEF Receive, history
    <2>2. \A e \in Emails : Owed(e) => Owed(e)'
      BY <2>1, OwedStays DEF Others
    <2> QED
      BY <2>1, <2>2, SameSessions, SignedOutStays
  <1>2. ASSUME NEW c \in Slots, HandlerFails(c)
        PROVE  SignedOut'
    <2>1. /\ sessions' = sessions /\ epoch' = epoch /\ cut' = cut \cup Undone({c})
          /\ Others(c)
      BY <1>2, OneSlot DEF HandlerFails
    <2>2. ASSUME NEW e \in Emails, Owed(e)
          PROVE  Owed(e)'
      <3>1. CASE calls[c].step = "sweep" /\ Whom(c) = e
        BY <2>1, <3>1, OwedAfterFailure
      <3>2. ASSUME NEW d \in Slots, d # c, calls[d].step = "sweep", Whom(d) = e
            PROVE  Owed(e)'
        <4>1. calls'[d] = calls[d] /\ calls[d].req # NoRequest
          BY <2>1, <3>2 DEF Others, Books, CallGood, StepFits
        <4>2. Whom(d)' = e
          BY <3>2, <4>1, WhomStays
        <4> QED
          BY <3>2, <4>1, <4>2 DEF Owed
      <3> QED
        BY <2>1, <2>2, <3>1, <3>2 DEF Owed
    <2> QED
      BY <2>1, <2>2, SameSessions, SignedOutStays
  <1>3. CASE Crash
    <2>1. sessions' = sessions /\ epoch' = epoch /\ cut' = cut \cup Undone(Slots)
      BY <1>3 DEF Crash
    <2>2. ASSUME NEW e \in Emails, Owed(e)
          PROVE  Owed(e)'
      BY <2>1, <2>2, OwedAfterFailure DEF Owed
    <2> QED
      BY <2>1, <2>2, SameSessions, SignedOutStays
  <1>4. ASSUME NEW i \in SessionIds, ExpireToken(i)
        PROVE  SignedOut'
    <2>1. epoch' = epoch /\ cut' = cut /\ calls' = calls
      BY <1>4 DEF ExpireToken, history
    <2>2. NoneRevived
      <3>1. PICK age : sessions' = [sessions EXCEPT ![i].age = age]
        BY <1>4 DEF ExpireToken
      <3>2. sessions[i] \in Session
        BY <1>4, SessionShape DEF ExpireToken
      <3>3. /\ sessions'[i] = [sessions[i] EXCEPT !.age = age]
            /\ \A j \in SessionIds \ {i} : sessions'[j] = sessions[j]
        BY <3>1 DEF TypeOK
      <3>4. /\ sessions'[i].revoked = sessions[i].revoked
            /\ sessions'[i].issued = sessions[i].issued
            /\ sessions'[i].exists = sessions[i].exists
        BY <3>2, <3>3 DEF Session
      <3> QED
        BY <3>3, <3>4 DEF NoneRevived, Live
    <2>3. \A e \in Emails : Owed(e) => Owed(e)'
      BY <2>1, OwedStays
    <2> QED
      BY <2>1, <2>2, <2>3, SignedOutStays
  <1>5. ASSUME NEW l \in LinkIds, ExpireLink(l)
        PROVE  SignedOut'
    <2>1. sessions' = sessions /\ epoch' = epoch /\ cut' = cut /\ calls' = calls
      BY <1>5 DEF ExpireLink, history
    <2>3. \A e \in Emails : Owed(e) => Owed(e)'
      BY <2>1, OwedStays
    <2> QED
      BY <2>1, <2>3, SameSessions, SignedOutStays
  <1> QED
    BY <1>1, <1>2, <1>3, <1>4, <1>5, HandlerSignsOut DEF Next

(* A password change and a reuse alarm sign out: a session that stands was *)
(* issued since, unless its handler still has to or failed to.             *)
THEOREM SessionsSignedOut == Spec => []SignedOut
  <1>1. Init => SignedOut
    BY DEF Init, SignedOut, Live, NoSession
  <1>2. TypeOK /\ Books /\ SignedOut /\ [Next]_vars => SignedOut'
    <2> SUFFICES ASSUME TypeOK, Books, SignedOut, [Next]_vars PROVE SignedOut'
      OBVIOUS
    <2>1. CASE UNCHANGED vars
      BY <2>1 DEF vars, history, SignedOut, Live, Whom, Of
    <2> QED
      BY <2>1, NextKeeps, NextSignsOut DEF Kept
  <1> QED
    BY <1>1, <1>2, AccountBooks, PTL DEF Spec

-----------------------------------------------------------------------------
(* What all steps of the handlers have in common. *)

(* A handler keeps its request until it answers it. *)
LEMMA SameRequest ==
    ASSUME TypeOK, NEW c \in Slots, HandlerStep(c)
    PROVE  calls'[c].req = calls[c].req \/ calls'[c] = Idle
  <1>1. ASSUME NEW step, Go(c, step) PROVE calls'[c].req = calls[c].req
    <2>1. calls' = [calls EXCEPT ![c] = [calls[c] EXCEPT !.step = step]]
      BY <1>1 DEF Go
    <2>2. [calls[c] EXCEPT !.step = step].req = calls[c].req
      BY CallShape DEF Call
    <2> QED
      BY <2>1, <2>2 DEF TypeOK
  <1>2. Answer(c) => calls'[c] = Idle
    BY AnswerSet
  <1>3. ASSUME Login(c) PROVE calls'[c].req = calls[c].req \/ calls'[c] = Idle
    <2> DEFINE q == calls[c].req
               a == accounts[q.email]
               call == [calls[c] EXCEPT !.step = "issue", !.read = epoch[q.email],
                                        !.role = a.role, !.roleNr = roleNr[q.email]]
    <2>1. call.req = q
      BY CallShape DEF Call
    <2> HIDE DEF call
    <2>2. calls' = [calls EXCEPT ![c] = call] => calls'[c] = call
      BY DEF TypeOK
    <2> QED
      BY <1>2, <1>3, <2>1, <2>2 DEF Login, call
  <1>4. ASSUME NEW call \in {[calls[c] EXCEPT !.step = "user", !.read = epoch[Whom(c)]],
                             [calls[c] EXCEPT !.step = "revoke",
                                              !.role = accounts[Whom(c)].role,
                                              !.roleNr = roleNr[Whom(c)]],
                             [calls[c] EXCEPT !.step = "publish",
                                              !.row = Free(links)]},
               calls' = [calls EXCEPT ![c] = call]
        PROVE  calls'[c].req = calls[c].req
    <2>1. call.req = calls[c].req
      BY <1>4, CallShape DEF Call
    <2> QED
      BY <1>4, <2>1 DEF TypeOK
  <1>5. CASE RegisterReads(c) \/ RegisterTaken(c) \/ RegisterInserts(c)
               \/ Forgot(c) \/ CreateLink(c) \/ PublishLink(c)
    BY <1>1, <1>2, <1>4, <1>5
       DEF RegisterReads, RegisterTaken, RegisterInserts, Forgot, CreateLink, PublishLink
  <1>6. CASE Login(c) \/ RotateReads(c) \/ RotateRefused(c) \/ Alarm(c)
               \/ RotateUser(c) \/ RotateRevokes(c) \/ IssueTokens(c) \/ Logout(c)
    BY <1>1, <1>2, <1>3, <1>4, <1>6
       DEF RotateReads, RotateRefused, Alarm, RotateUser, RotateRevokes,
           IssueTokens, Logout
  <1>7. CASE ConsumeReads(c) \/ ConsumeWrites(c) \/ VerifyEmail(c) \/ ChangeReads(c)
               \/ SetPassword(c) \/ SignOut(c) \/ AnnounceChange(c) \/ SetRole(c)
    BY <1>1, <1>2, <1>7
       DEF ConsumeReads, ConsumeWrites, VerifyEmail, ChangeReads, SetPassword,
           SignOut, AnnounceChange, SetRole
  <1> QED
    BY <1>5, <1>6, <1>7 DEF HandlerStep

(* A race is not forgotten. *)
LEMMA RacedGrows ==
    ASSUME NEW c \in Slots, HandlerStep(c)
    PROVE  raced \subseteq raced'
  <1>1. CASE RegisterReads(c) \/ RegisterTaken(c) \/ RegisterInserts(c)
               \/ Forgot(c) \/ CreateLink(c) \/ PublishLink(c)
               \/ Login(c) \/ RotateReads(c) \/ RotateRefused(c) \/ Alarm(c)
               \/ RotateUser(c) \/ RotateRevokes(c) \/ IssueTokens(c) \/ Logout(c)
    BY <1>1 DEF RegisterReads, RegisterTaken, RegisterInserts, Forgot, CreateLink,
                PublishLink, Login, RotateReads, RotateRefused, Alarm, RotateUser,
                RotateRevokes, IssueTokens, Logout, history, Race
  <1>2. CASE ConsumeReads(c) \/ ConsumeWrites(c) \/ VerifyEmail(c) \/ ChangeReads(c)
               \/ SetPassword(c) \/ SignOut(c) \/ AnnounceChange(c) \/ SetRole(c)
    BY <1>2 DEF ConsumeReads, ConsumeWrites, VerifyEmail, ChangeReads, SetPassword,
                SignOut, AnnounceChange, SetRole, history, Race
  <1> QED
    BY <1>1, <1>2 DEF HandlerStep

(* A revoked session stays revoked. *)
RevokedStay ==
    \A i \in SessionIds : sessions[i].exists /\ sessions[i].revoked => sessions'[i].revoked

LEMMA RevokedForGood ==
    ASSUME TypeOK, Books, NEW c \in Slots, HandlerStep(c)
    PROVE  RevokedStay
  <1>1. CASE SignOut(c) \/ Alarm(c)
    <2>1. PICK e \in Emails : sessions' = RevokedAll(e)
      BY <1>1, AtStep DEF SignOut, Alarm
    <2> QED
      BY <2>1, RevokedAllSet DEF RevokedStay
  <1>2. CASE RotateRevokes(c) \/ Logout(c)
    <2>1. /\ calls[c].req \in Requests /\ calls[c].req.op \in {"refresh", "logout"}
          /\ CallGood(calls[c])
      BY <1>2, AtStep DEF RotateRevokes, Logout
    <2>2. PICK i \in SessionIds : i = calls[c].req.session /\ sessions[i].exists
      BY <2>1, RequestShape DEF CallGood, Handed
    <2>3. /\ sessions'[i] = [sessions[i] EXCEPT !.revoked = TRUE]
          /\ \A j \in SessionIds \ {i} : sessions'[j] = sessions[j]
      BY <1>2, <2>2, RevokedRow DEF RotateRevokes, Logout
    <2>4. sessions'[i].revoked
      BY <2>2, <2>3, SessionShape DEF Session
    <2> QED
      BY <2>3, <2>4 DEF RevokedStay
  <1>3. CASE IssueTokens(c)
    <2>1. \A i \in SessionIds : sessions[i].exists => sessions'[i] = sessions[i]
      BY <1>3, FreeSession DEF IssueTokens, TypeOK
    <2> QED
      BY <2>1 DEF RevokedStay
  <1>4. CASE RegisterReads(c) \/ RegisterTaken(c) \/ RegisterInserts(c)
               \/ Forgot(c) \/ CreateLink(c) \/ PublishLink(c)
               \/ Login(c) \/ RotateReads(c) \/ RotateRefused(c) \/ RotateUser(c)
    BY <1>4 DEF RegisterReads, RegisterTaken, RegisterInserts, Forgot, CreateLink,
                PublishLink, Login, RotateReads, RotateRefused, RotateUser, RevokedStay
  <1>5. CASE ConsumeReads(c) \/ ConsumeWrites(c) \/ VerifyEmail(c) \/ ChangeReads(c)
               \/ SetPassword(c) \/ AnnounceChange(c) \/ SetRole(c)
    BY <1>5 DEF ConsumeReads, ConsumeWrites, VerifyEmail, ChangeReads, SetPassword,
                AnnounceChange, SetRole, RevokedStay
  <1> QED
    BY <1>1, <1>2, <1>3, <1>4, <1>5 DEF HandlerStep

-----------------------------------------------------------------------------
(* RotatedOnce. *)

LEMMA RotatingRow ==
    ASSUME TypeOK, Books, NEW c \in Slots, NEW i, Rotating(c, i)
    PROVE  calls[c].req \in Requests /\ i \in SessionIds /\ sessions[i].exists
  <1>1. calls[c].req \in Requests /\ Handed(calls[c].req)
    BY CallShape DEF Rotating, NoRequest, Books, CallGood
  <1> QED
    BY <1>1, RequestShape DEF Rotating, Handed

(* A step that exchanges nothing: whoever rotates the session afterwards   *)
(* did so before, and goes on to issue only what is revoked.               *)
LEMMA RotatedStays ==
    ASSUME TypeOK, Books, Grows, NEW i \in SessionIds, Rotated(i),
           rotations'[i] = rotations[i], raced \subseteq raced',
           sessions[i].exists /\ sessions[i].revoked => sessions'[i].revoked,
           \A c \in Slots : Rotating(c, i)' =>
               /\ Rotating(c, i)
               /\ calls'[c].step = "issue" =>
                     calls[c].step = "issue" \/ sessions'[i].revoked
    PROVE  Rotated(i)'
  <1>1. ~sessions'[i].exists => rotations'[i] = 0
    BY DEF Rotated, Grows
  <1> SUFFICES ASSUME <<"session", i>> \notin raced'
               PROVE  /\ rotations'[i] <= 1
                      /\ rotations'[i] = 1 => sessions'[i].revoked
                      /\ \A c \in Slots : Rotating(c, i)' =>
                            /\ rotations'[i] = 0
                            /\ calls'[c].step = "issue" => sessions'[i].revoked
                            /\ \A d \in Slots : Rotating(d, i)' => c = d
    BY <1>1 DEF Rotated
  <1>2. <<"session", i>> \notin raced
    OBVIOUS
  <1>3. rotations'[i] <= 1 /\ (rotations'[i] = 1 => sessions'[i].revoked)
    BY <1>2 DEF Rotated
  <1>4. ASSUME NEW c \in Slots, Rotating(c, i)'
        PROVE  /\ rotations'[i] = 0
               /\ calls'[c].step = "issue" => sessions'[i].revoked
               /\ \A d \in Slots : Rotating(d, i)' => c = d
    <2>1. Rotating(c, i) /\ sessions[i].exists
      BY <1>4, RotatingRow
    <2> QED
      BY <1>2, <1>4, <2>1 DEF Rotated
  <1> QED
    BY <1>3, <1>4

LEMMA HandlerRotates ==
    ASSUME TypeOK, Books, Grows, RotationInv, NEW c \in Slots, HandlerStep(c)
    PROVE  RotationInv'
  <1> SUFFICES ASSUME NEW i \in SessionIds PROVE Rotated(i)'
    BY DEF RotationInv
  <1>a. Rotated(i)
    BY DEF RotationInv
  <1>b. Others(c) /\ raced \subseteq raced' /\ RevokedStay
    BY OneSlot, RacedGrows, RevokedForGood
  <1>c. calls'[c].req = calls[c].req \/ calls'[c] = Idle
    BY SameRequest
  <1>d. \A d \in Slots \ {c} : Rotating(d, i)' <=> Rotating(d, i)
    BY <1>b DEF Others, Rotating
  <1>e. ASSUME rotations'[i] = rotations[i], ~Rotating(c, i)'
        PROVE  Rotated(i)'
    <2>1. \A d \in Slots : Rotating(d, i)' =>
             Rotating(d, i) /\ (calls'[d].step = "issue" => calls[d].step = "issue")
      BY <1>b, <1>d, <1>e DEF Others
    <2> QED
      BY <1>a, <1>b, <1>e, <2>1, RotatedStays DEF RevokedStay
  <1>f. CASE calls'[c] = Idle /\ rotations'[i] = rotations[i]
    <2>1. ~Rotating(c, i)'
      BY <1>f DEF Rotating, Idle, NoRequest
    <2> QED
      BY <1>e, <1>f, <2>1
  <1>g. CASE calls'[c].step \in Steps \ {"user", "revoke", "issue"}
               /\ rotations'[i] = rotations[i]
    <2>1. ~Rotating(c, i)'
      BY <1>g DEF Rotating
    <2> QED
      BY <1>e, <1>g, <2>1
  <1>1. CASE RegisterReads(c) \/ RegisterTaken(c) \/ RegisterInserts(c)
               \/ Forgot(c) \/ CreateLink(c) \/ PublishLink(c)
               \/ Login(c) \/ Logout(c) \/ ConsumeReads(c) \/ ConsumeWrites(c)
               \/ VerifyEmail(c) \/ ChangeReads(c) \/ SetPassword(c) \/ SignOut(c)
               \/ AnnounceChange(c) \/ SetRole(c)
    <2>1. calls[c].req.op # "refresh"
      BY <1>1 DEF RegisterReads, RegisterTaken, RegisterInserts, Forgot, CreateLink,
                  PublishLink, Login, Logout, ConsumeReads, ConsumeWrites, VerifyEmail,
                  ChangeReads, SetPassword, SignOut, AnnounceChange, SetRole, At
    <2>2. rotations' = rotations
      BY <1>1 DEF RegisterReads, RegisterTaken, RegisterInserts, Forgot, CreateLink,
                  PublishLink, Login, Logout, ConsumeReads, ConsumeWrites, VerifyEmail,
                  ChangeReads, SetPassword, SignOut, AnnounceChange, SetRole, history
    <2>3. ~Rotating(c, i)'
      BY <1>c, <2>1 DEF Rotating, Idle, NoRequest
    <2> QED
      BY <1>e, <2>2, <2>3
  <1>2. CASE RotateReads(c)
    <2> DEFINE j == calls[c].req.session
               call == [calls[c] EXCEPT !.step = "user", !.read = epoch[Whom(c)]]
    <2>1. /\ calls[c].req \in Requests /\ calls[c].req.op = "refresh"
          /\ calls[c].step = "start" /\ CallGood(calls[c])
      BY <1>2, AtStep DEF RotateReads
    <2>2. j \in SessionIds /\ sessions[j].exists /\ ~sessions[j].revoked
      BY <1>2, <2>1, RequestShape DEF CallGood, Handed, RotateReads, Usable
    <2>3. calls'[c].req.session = j /\ calls'[c].step = "user"
      <3>1. call.req = calls[c].req /\ call.step = "user"
        BY CallShape DEF Call
      <3> QED
        BY <1>2, <3>1 DEF RotateReads, TypeOK
    <2>4. sessions' = sessions /\ rotations' = rotations
      BY <1>2 DEF RotateReads
    <2>5. CASE i # j
      <3>1. ~Rotating(c, i)'
        BY <2>3, <2>5 DEF Rotating
      <3> QED
        BY <1>e, <2>4, <3>1
    <2>6. CASE i = j
      <3>1. rotations'[i] = rotations[i] /\ (~sessions'[i].exists => rotations'[i] = 0)
        BY <1>a, <2>4 DEF Rotated
      <3>2. ASSUME <<"session", i>> \notin raced'
            PROVE  /\ rotations[i] = 0
                   /\ \A d \in Slots \ {c} : ~Rotating(d, i)
        <4>1. <<"session", i>> \notin raced /\ ~HeldBy(c, "session", i)
          BY <1>2, <1>b, <2>6, <3>2 DEF RotateReads, Race
        <4>2. rotations[i] = 0
          BY <1>a, <2>2, <2>6, <4>1 DEF Rotated, TypeOK
        <4>3. ASSUME NEW d \in Slots \ {c}, Rotating(d, i)
              PROVE  FALSE
          <5>1. calls[d].step \notin {"user", "revoke"}
            BY <4>1, <4>3 DEF HeldBy, At, Rotating
          <5> QED
            BY <1>a, <2>2, <2>6, <4>1, <4>3, <5>1 DEF Rotated, Rotating
        <4> QED
          BY <4>2, <4>3
      <3> QED
        BY <1>d, <2>3, <2>4, <3>1, <3>2 DEF Rotated, Rotating
    <2> QED
      BY <2>5, <2>6
  <1>3. CASE RotateRefused(c) \/ Alarm(c)
    <2>1. rotations' = rotations
      BY <1>3 DEF RotateRefused, Alarm, history
    <2>2. calls'[c] = Idle \/ calls'[c].step = "alarm"
      BY <1>3, AnswerSet, GoSet DEF RotateRefused, Alarm, Steps
    <2> QED
      BY <1>f, <1>g, <2>1, <2>2 DEF Steps
  <1>4. CASE RotateUser(c)
    <2> DEFINE call == [calls[c] EXCEPT !.step = "revoke",
                                        !.role = accounts[Whom(c)].role,
                                        !.roleNr = roleNr[Whom(c)]]
    <2>1. calls[c].step = "user" /\ calls[c].req.op = "refresh"
      BY <1>4 DEF RotateUser, At
    <2>2. calls'[c].req = calls[c].req /\ calls'[c].step = "revoke"
      <3>1. call.req = calls[c].req /\ call.step = "revoke"
        BY CallShape DEF Call
      <3> QED
        BY <1>4, <3>1 DEF RotateUser, TypeOK
    <2>3. rotations' = rotations
      BY <1>4 DEF RotateUser, history
    <2>4. \A d \in Slots : Rotating(d, i)' =>
             Rotating(d, i) /\ (calls'[d].step = "issue" => calls[d].step = "issue")
      BY <1>b, <1>d, <2>1, <2>2 DEF Others, Rotating
    <2> QED
      BY <1>a, <1>b, <2>3, <2>4, RotatedStays DEF RevokedStay
  <1>5. CASE RotateRevokes(c)
    <2>1. /\ calls[c].step = "revoke" /\ calls[c].req.op = "refresh"
          /\ calls[c].req \in Requests /\ CallGood(calls[c])
      BY <1>5, AtStep DEF RotateRevokes
    <2>2. calls'[c].req = calls[c].req
      BY <1>5, GoSet DEF RotateRevokes, Steps
    <2>3. rotations' = rotations
      BY <1>5 DEF RotateRevokes, history
    <2>4. PICK j \in SessionIds : j = calls[c].req.session /\ sessions[j].exists
      BY <2>1, RequestShape DEF CallGood, Handed
    <2>5. sessions'[j].revoked
      <3>1. sessions'[j] = [sessions[j] EXCEPT !.revoked = TRUE]
        BY <1>5, <2>4, RevokedRow DEF RotateRevokes
      <3> QED
        BY <2>4, <3>1, SessionShape DEF Session
    <2>6. \A d \in Slots : Rotating(d, i)' =>
             /\ Rotating(d, i)
             /\ calls'[d].step = "issue" =>
                   calls[d].step = "issue" \/ sessions'[i].revoked
      BY <1>b, <1>d, <2>1, <2>2, <2>4, <2>5 DEF Others, Rotating
    <2> QED
      BY <1>a, <1>b, <2>3, <2>6, RotatedStays DEF RevokedStay
  <1>6. CASE IssueTokens(c)
    <2>1. /\ calls[c].step = "issue" /\ calls'[c] = Idle
          /\ calls[c].req \in Requests /\ calls[c].req.op \in {"login", "refresh"}
      BY <1>6, AtStep, AnswerSet DEF IssueTokens
    <2>2. ~Rotating(c, i)'
      BY <2>1 DEF Rotating, Idle, NoRequest
    <2>3. CASE ~(calls[c].req.op = "refresh" /\ calls[c].req.session = i)
      <3>1. rotations'[i] = rotations[i]
        BY <1>6, <2>1, <2>3, RequestShape DEF IssueTokens, TypeOK
      <3> QED
        BY <1>e, <2>2, <3>1
    <2>4. CASE calls[c].req.op = "refresh" /\ calls[c].req.session = i
      <3>1. Rotating(c, i) /\ sessions[i].exists
        BY <2>1, <2>4, RotatingRow DEF Rotating
      <3>2. rotations'[i] = rotations[i] + 1 /\ sessions'[i] = sessions[i]
        BY <1>6, <2>1, <2>4, <3>1, FreeSession DEF IssueTokens, TypeOK
      <3>3. ASSUME <<"session", i>> \notin raced'
            PROVE  /\ rotations[i] = 0 /\ sessions[i].revoked
                   /\ \A d \in Slots : ~Rotating(d, i)'
        <4>1. <<"session", i>> \notin raced
          BY <1>b, <3>3
        <4> QED
          BY <1>a, <1>d, <2>1, <2>2, <3>1, <4>1 DEF Rotated
      <3> QED
        BY <3>1, <3>2, <3>3 DEF Rotated
    <2> QED
      BY <2>3, <2>4
  <1> QED
    BY <1>1, <1>2, <1>3, <1>4, <1>5, <1>6 DEF HandlerStep

(* Receiving, failing and time exchange nothing either. *)
LEMMA NextRotates ==
    ASSUME TypeOK, Books, Grows, RotationInv, Next
    PROVE  RotationInv'
  <1>1. ASSUME NEW c \in Slots, HandlerStep(c) PROVE RotationInv'
    BY <1>1, HandlerRotates
  <1>2. ASSUME rotations' = rotations, raced' = raced, RevokedStay,
               \A d \in Slots : calls'[d] = calls[d]
                                  \/ calls'[d].step \in {"idle", "start"}
        PROVE  RotationInv'
    <2> SUFFICES ASSUME NEW i \in SessionIds PROVE Rotated(i)'
      BY DEF RotationInv
    <2>1. \A d \in Slots : Rotating(d, i)' =>
             Rotating(d, i) /\ (calls'[d].step = "issue" => calls[d].step = "issue")
      BY <1>2 DEF Rotating
    <2> QED
      BY <1>2, <2>1, RotatedStays DEF RotationInv, RevokedStay
  <1>3. ASSUME NEW c \in Slots, Receive(c) \/ HandlerFails(c)
        PROVE  RotationInv'
    <2>1. rotations' = rotations /\ raced' = raced /\ sessions' = sessions /\ Others(c)
      BY <1>3, OneSlot DEF Receive, HandlerFails, history
    <2>2. calls'[c].step \in {"idle", "start"}
      <3>1. CASE HandlerFails(c)
        BY <3>1, AnswerSet DEF HandlerFails, Idle
      <3>2. CASE Receive(c)
        BY <3>2 DEF Receive, TypeOK, Idle
      <3> QED
        BY <1>3, <3>1, <3>2
    <2> QED
      BY <1>2, <2>1, <2>2 DEF Others, RevokedStay
  <1>4. CASE Crash
    <2>1. rotations' = rotations /\ raced' = raced /\ sessions' = sessions
      BY <1>4 DEF Crash
    <2>2. \A d \in Slots : calls'[d].step \in {"idle", "start"}
      BY <1>4 DEF Crash, Idle
    <2> QED
      BY <1>2, <2>1, <2>2 DEF RevokedStay
  <1>5. ASSUME NEW i \in SessionIds, ExpireToken(i)
        PROVE  RotationInv'
    <2>1. rotations' = rotations /\ raced' = raced /\ calls' = calls
      BY <1>5 DEF ExpireToken, history
    <2>2. RevokedStay
      <3>1. PICK age : sessions' = [sessions EXCEPT ![i].age = age]
        BY <1>5 DEF ExpireToken
      <3>2. sessions[i] \in Session
        BY <1>5, SessionShape DEF ExpireToken
      <3>3. /\ sessions'[i] = [sessions[i] EXCEPT !.age = age]
            /\ \A j \in SessionIds \ {i} : sessions'[j] = sessions[j]
        BY <3>1 DEF TypeOK
      <3>4. sessions'[i].revoked = sessions[i].revoked
        BY <3>2, <3>3 DEF Session
      <3> QED
        BY <3>3, <3>4 DEF RevokedStay
    <2> QED
      BY <1>2, <2>1, <2>2
  <1>6. ASSUME NEW l \in LinkIds, ExpireLink(l)
        PROVE  RotationInv'
    <2>1. /\ rotations' = rotations /\ raced' = raced /\ calls' = calls
          /\ sessions' = sessions
      BY <1>6 DEF ExpireLink, history
    <2> QED
      BY <1>2, <2>1 DEF RevokedStay
  <1> QED
    BY <1>1, <1>3, <1>4, <1>5, <1>6 DEF Next

(* A refresh token is exchanged at most once, unless two handlers found it *)
(* usable before either revoked it.                                        *)
THEOREM TokensRotateOnce == Spec => []RotatedOnce
  <1>1. Init => RotationInv
    BY DEF Init, RotationInv, Rotated, Rotating, Idle, NoRequest
  <1>2. TypeOK /\ Books /\ RotationInv /\ [Next]_vars => RotationInv'
    <2> SUFFICES ASSUME TypeOK, Books, RotationInv, [Next]_vars PROVE RotationInv'
      OBVIOUS
    <2>1. CASE UNCHANGED vars
      BY <2>1 DEF vars, history, RotationInv, Rotated, Rotating
    <2> QED
      BY <2>1, NextKeeps, NextRotates DEF Kept
  <1>3. TypeOK /\ RotationInv => RotatedOnce
    BY DEF TypeOK, RotationInv, Rotated, RotatedOnce
  <1> QED
    BY <1>1, <1>2, <1>3, AccountBooks, PTL DEF Spec

-----------------------------------------------------------------------------
(* LinkWorksOnce, along the same lines. *)

LEMMA ConsumingRow ==
    ASSUME TypeOK, Books, NEW c \in Slots, NEW l, Consuming(c, l)
    PROVE  calls[c].req \in Requests /\ l \in LinkIds /\ links[l].exists
  <1>1. calls[c].req \in Requests /\ Handed(calls[c].req)
    BY CallShape DEF Consuming, NoRequest, Books, CallGood
  <1> QED
    BY <1>1, RequestShape DEF Consuming, Handed

(* A used link stays used. *)
UsedStay == \A l \in LinkIds : links[l].exists /\ links[l].used => links'[l].used

LEMMA UsedForGood ==
    ASSUME TypeOK, Books, NEW c \in Slots, HandlerStep(c)
    PROVE  UsedStay
  <1>1. CASE ConsumeWrites(c)
    <2>1. PICK l \in LinkIds : l = calls[c].req.link /\ links[l].exists
      BY <1>1, AtStep, RequestShape DEF ConsumeWrites, CallGood, Handed
    <2>2. links' = [links EXCEPT ![l].used = TRUE]
      BY <1>1, <2>1 DEF ConsumeWrites
    <2>3. /\ links'[l] = [links[l] EXCEPT !.used = TRUE]
          /\ \A k \in LinkIds \ {l} : links'[k] = links[k]
      BY <2>2 DEF TypeOK
    <2>4. links'[l].used
      BY <2>1, <2>3, LinkShape DEF Link
    <2> QED
      BY <2>3, <2>4 DEF UsedStay
  <1>2. CASE CreateLink(c)
    <2>1. \A l \in LinkIds : links[l].exists => links'[l] = links[l]
      BY <1>2, FreeLink DEF CreateLink, TypeOK
    <2> QED
      BY <2>1 DEF UsedStay
  <1>3. CASE RegisterReads(c) \/ RegisterTaken(c) \/ RegisterInserts(c)
               \/ Forgot(c) \/ PublishLink(c) \/ Login(c) \/ RotateReads(c)
               \/ RotateRefused(c) \/ Alarm(c) \/ RotateUser(c) \/ RotateRevokes(c)
               \/ IssueTokens(c) \/ Logout(c)
    BY <1>3 DEF RegisterReads, RegisterTaken, RegisterInserts, Forgot, PublishLink,
                Login, RotateReads, RotateRefused, Alarm, RotateUser, RotateRevokes,
                IssueTokens, Logout, UsedStay
  <1>4. CASE ConsumeReads(c) \/ VerifyEmail(c) \/ ChangeReads(c) \/ SetPassword(c)
               \/ SignOut(c) \/ AnnounceChange(c) \/ SetRole(c)
    BY <1>4 DEF ConsumeReads, VerifyEmail, ChangeReads, SetPassword, SignOut,
                AnnounceChange, SetRole, UsedStay
  <1> QED
    BY <1>1, <1>2, <1>3, <1>4 DEF HandlerStep

(* A link that expires changes in nothing else. *)
LEMMA ExpiredRow ==
    ASSUME TypeOK, NEW k \in LinkIds, ExpireLink(k)
    PROVE  \A l \in LinkIds : /\ links'[l].exists = links[l].exists
                              /\ links[l].exists => links'[l].used = links[l].used
  <1>1. links[k] \in Link
    BY LinkShape DEF ExpireLink
  <1>2. /\ links'[k] = [links[k] EXCEPT !.expired = TRUE]
        /\ \A l \in LinkIds \ {k} : links'[l] = links[l]
    BY DEF ExpireLink, TypeOK
  <1>3. links'[k].used = links[k].used /\ links'[k].exists = links[k].exists
    BY <1>1, <1>2 DEF Link
  <1> QED
    BY <1>2, <1>3

(* A step that does nothing with the link: whoever consumes it afterwards  *)
(* did so before, and gets past reading only when it is used.              *)
LEMMA ConsumedStays ==
    ASSUME TypeOK, Books, Grows, NEW l \in LinkIds, Consumed(l),
           effects'[l] = effects[l], raced \subseteq raced',
           links[l].exists /\ links[l].used => links'[l].used,
           \A c \in Slots : Consuming(c, l)' =>
               /\ Consuming(c, l)
               /\ calls'[c].step # "use" => calls[c].step # "use" \/ links'[l].used
    PROVE  Consumed(l)'
  <1>1. ~links'[l].exists => effects'[l] = 0
    BY DEF Consumed, Grows
  <1> SUFFICES ASSUME <<"link", l>> \notin raced'
               PROVE  /\ effects'[l] <= 1
                      /\ effects'[l] = 1 => links'[l].used
                      /\ \A c \in Slots : Consuming(c, l)' =>
                            /\ effects'[l] = 0
                            /\ calls'[c].step # "use" => links'[l].used
                            /\ \A d \in Slots : Consuming(d, l)' => c = d
    BY <1>1 DEF Consumed
  <1>2. <<"link", l>> \notin raced
    OBVIOUS
  <1>3. effects'[l] <= 1 /\ (effects'[l] = 1 => links'[l].used)
    BY <1>2 DEF Consumed
  <1>4. ASSUME NEW c \in Slots, Consuming(c, l)'
        PROVE  /\ effects'[l] = 0
               /\ calls'[c].step # "use" => links'[l].used
               /\ \A d \in Slots : Consuming(d, l)' => c = d
    <2>1. Consuming(c, l) /\ links[l].exists
      BY <1>4, ConsumingRow
    <2> QED
      BY <1>2, <1>4, <2>1 DEF Consumed
  <1> QED
    BY <1>3, <1>4

(* The link does what it is for, once. *)
LEMMA EffectCounts ==
    ASSUME TypeOK, Books, NEW c \in Slots, NEW l \in LinkIds, Consumed(l),
           calls[c].req.link = l, calls[c].req.op \in {"verify", "reset"},
           calls[c].step \in {"verify", "password"}, Effect(c), links' = links,
           raced' = raced, Others(c), calls'[c].step \in {"idle", "sweep"}
    PROVE  Consumed(l)'
  <1>1. Consuming(c, l) /\ links[l].exists
    BY ConsumingRow DEF Consuming
  <1>2. effects'[l] = effects[l] + 1
    BY DEF Effect, TypeOK
  <1>3. ASSUME <<"link", l>> \notin raced'
        PROVE  effects[l] = 0 /\ links[l].used /\ \A d \in Slots : ~Consuming(d, l)'
    BY <1>1, <1>3 DEF Consumed, Consuming, Others
  <1> QED
    BY <1>1, <1>2, <1>3 DEF Consumed

LEMMA HandlerConsumes ==
    ASSUME TypeOK, Books, Grows, LinkInv, NEW c \in Slots, HandlerStep(c)
    PROVE  LinkInv'
  <1> SUFFICES ASSUME NEW l \in LinkIds PROVE Consumed(l)'
    BY DEF LinkInv
  <1>a. Consumed(l)
    BY DEF LinkInv
  <1>b. Others(c) /\ raced \subseteq raced' /\ UsedStay
    BY OneSlot, RacedGrows, UsedForGood
  <1>c. calls'[c].req = calls[c].req \/ calls'[c] = Idle
    BY SameRequest
  <1>d. \A d \in Slots \ {c} : Consuming(d, l)' <=> Consuming(d, l)
    BY <1>b DEF Others, Consuming
  <1>e. ASSUME effects'[l] = effects[l], ~Consuming(c, l)'
        PROVE  Consumed(l)'
    <2>1. \A d \in Slots : Consuming(d, l)' =>
             Consuming(d, l) /\ (calls'[d].step # "use" => calls[d].step # "use")
      BY <1>b, <1>d, <1>e DEF Others
    <2> QED
      BY <1>a, <1>b, <1>e, <2>1, ConsumedStays DEF UsedStay
  <1>1. CASE RegisterReads(c) \/ RegisterTaken(c) \/ RegisterInserts(c)
               \/ Forgot(c) \/ CreateLink(c) \/ PublishLink(c)
               \/ Login(c) \/ RotateReads(c) \/ RotateRefused(c) \/ Alarm(c)
               \/ RotateUser(c) \/ RotateRevokes(c) \/ IssueTokens(c) \/ Logout(c)
               \/ ChangeReads(c) \/ SetRole(c)
    <2>1. calls[c].req.op \notin {"verify", "reset"}
      BY <1>1 DEF RegisterReads, RegisterTaken, RegisterInserts, Forgot, CreateLink,
                  PublishLink, Login, RotateReads, RotateRefused, Alarm, RotateUser,
                  RotateRevokes, IssueTokens, Logout, ChangeReads, SetRole, At
    <2>2. effects' = effects
      BY <1>1 DEF RegisterReads, RegisterTaken, RegisterInserts, Forgot, CreateLink,
                  PublishLink, Login, RotateReads, RotateRefused, Alarm, RotateUser,
                  RotateRevokes, IssueTokens, Logout, ChangeReads, SetRole, history
    <2>3. ~Consuming(c, l)'
      BY <1>c, <2>1 DEF Consuming, Idle, NoRequest
    <2> QED
      BY <1>e, <2>2, <2>3
  <1>2. CASE ConsumeReads(c)
    <2> DEFINE q == calls[c].req
    <2>1. /\ q \in Requests /\ q.op \in {"verify", "reset"} /\ q.link \in LinkIds
          /\ calls[c].step = "start" /\ CallGood(calls[c]) /\ links[q.link].exists
      BY <1>2, AtStep, RequestShape DEF ConsumeReads, CallGood, Handed
    <2>2. links' = links /\ effects' = effects
      BY <1>2 DEF ConsumeReads
    <2>3. CASE ~Consuming(c, l)'
      BY <1>e, <2>2, <2>3
    <2>4. CASE Consuming(c, l)'
      <3>1. /\ Go(c, "use") /\ ~links[l].used /\ q.link = l
            /\ calls'[c].step = "use" /\ Race(c, "link", l)
        <4>1. calls'[c] # Idle
          BY <2>4 DEF Consuming, Idle
        <4>2. Valid(q.link, q.op) /\ Go(c, "use") /\ Race(c, "link", q.link)
          BY <1>2, <4>1, AnswerSet DEF ConsumeReads
        <4>3. calls'[c].req = q /\ calls'[c].step = "use"
          BY <4>2, GoSet DEF Steps
        <4> QED
          BY <2>4, <4>2, <4>3 DEF Consuming, Valid
      <3>2. ASSUME <<"link", l>> \notin raced'
            PROVE  effects[l] = 0 /\ \A d \in Slots \ {c} : ~Consuming(d, l)
        <4>1. <<"link", l>> \notin raced /\ ~HeldBy(c, "link", l)
          BY <1>b, <3>1, <3>2 DEF Race
        <4>2. effects[l] = 0
          BY <1>a, <3>1, <4>1 DEF Consumed, TypeOK
        <4>3. ASSUME NEW d \in Slots \ {c}, Consuming(d, l)
              PROVE  FALSE
          <5>1. calls[d].step # "use"
            BY <4>1, <4>3 DEF HeldBy, At, Consuming
          <5> QED
            BY <1>a, <3>1, <4>1, <4>3, <5>1 DEF Consumed
        <4> QED
          BY <4>2, <4>3
      <3> QED
        BY <1>a, <1>d, <2>1, <2>2, <3>1, <3>2 DEF Consumed
    <2> QED
      BY <2>3, <2>4
  <1>3. CASE ConsumeWrites(c)
    <2>1. PICK k \in LinkIds : k = calls[c].req.link /\ links[k].exists
      BY <1>3, AtStep, RequestShape DEF ConsumeWrites, CallGood, Handed
    <2>2. links' = [links EXCEPT ![k].used = TRUE]
      BY <1>3, <2>1 DEF ConsumeWrites
    <2>3. links'[k].used
      <3>1. links'[k] = [links[k] EXCEPT !.used = TRUE]
        BY <2>2 DEF TypeOK
      <3> QED
        BY <2>1, <3>1, LinkShape DEF Link
    <2>4. calls[c].step = "use" /\ calls[c].req.op \in {"verify", "reset"}
      BY <1>3 DEF ConsumeWrites, At
    <2>5. calls'[c].req = calls[c].req
      BY <1>3, GoSet DEF ConsumeWrites, Steps
    <2>6. effects' = effects
      BY <1>3 DEF ConsumeWrites, history
    <2>7. \A d \in Slots : Consuming(d, l)' =>
             /\ Consuming(d, l)
             /\ calls'[d].step # "use" => calls[d].step # "use" \/ links'[l].used
      BY <1>b, <1>d, <2>1, <2>3, <2>4, <2>5 DEF Others, Consuming
    <2> QED
      BY <1>a, <1>b, <2>6, <2>7, ConsumedStays DEF UsedStay
  <1>4. CASE VerifyEmail(c) \/ SetPassword(c)
    <2>1. /\ calls[c].req \in Requests /\ calls[c].step \in {"verify", "password"}
          /\ calls[c].req.op \in {"verify", "reset", "change"}
      BY <1>4, AtStep DEF VerifyEmail, SetPassword
    <2>2. links' = links /\ raced' = raced
      BY <1>4 DEF VerifyEmail, SetPassword
    <2>3. calls'[c].step \in {"idle", "sweep"}
      <3>1. CASE Answer(c)
        BY <3>1, AnswerSet DEF Idle
      <3>2. CASE Go(c, "sweep")
        BY <3>2, GoSet DEF Steps
      <3> QED
        BY <1>4, <3>1, <3>2 DEF VerifyEmail, SetPassword
    <2>4. ~Consuming(c, l)'
      BY <2>3 DEF Consuming
    <2>5. CASE calls[c].req.op = "change"
      <3>1. effects' = effects
        BY <1>4, <2>5 DEF VerifyEmail, SetPassword, At
      <3> QED
        BY <1>e, <2>4, <3>1
    <2>6. CASE calls[c].req.op # "change"
      <3>1. calls[c].req.link \in LinkIds
        BY <2>1, <2>6, RequestShape
      <3>2. Effect(c)
        BY <1>4, <2>6 DEF VerifyEmail, SetPassword, At
      <3>3. CASE calls[c].req.link = l
        BY <1>a, <1>b, <2>1, <2>2, <2>3, <2>6, <3>2, <3>3, EffectCounts
      <3>4. CASE calls[c].req.link # l
        <4>1. effects'[l] = effects[l]
          BY <3>1, <3>2, <3>4 DEF Effect, TypeOK
        <4> QED
          BY <1>e, <2>4, <4>1
      <3> QED
        BY <3>3, <3>4
    <2> QED
      BY <2>5, <2>6
  <1>5. CASE SignOut(c) \/ AnnounceChange(c)
    <2>1. effects' = effects
      BY <1>5 DEF SignOut, AnnounceChange, history
    <2>2. calls'[c].step \in {"changed", "idle"}
      <3>1. CASE Answer(c)
        BY <3>1, AnswerSet DEF Idle
      <3>2. CASE Go(c, "changed")
        BY <3>2, GoSet DEF Steps
      <3> QED
        BY <1>5, <3>1, <3>2 DEF SignOut, AnnounceChange
    <2>3. ~Consuming(c, l)'
      BY <2>2 DEF Consuming
    <2> QED
      BY <1>e, <2>1, <2>3
  <1> QED
    BY <1>1, <1>2, <1>3, <1>4, <1>5 DEF HandlerStep

LEMMA NextConsumes ==
    ASSUME TypeOK, Books, Grows, LinkInv, Next
    PROVE  LinkInv'
  <1>1. ASSUME NEW c \in Slots, HandlerStep(c) PROVE LinkInv'
    BY <1>1, HandlerConsumes
  <1>2. ASSUME effects' = effects, raced' = raced, UsedStay,
               \A d \in Slots : calls'[d] = calls[d]
                                  \/ calls'[d].step \in {"idle", "start"}
        PROVE  LinkInv'
    <2> SUFFICES ASSUME NEW l \in LinkIds PROVE Consumed(l)'
      BY DEF LinkInv
    <2>1. \A d \in Slots : Consuming(d, l)' =>
             Consuming(d, l) /\ (calls'[d].step # "use" => calls[d].step # "use")
      BY <1>2 DEF Consuming
    <2> QED
      BY <1>2, <2>1, ConsumedStays DEF LinkInv, UsedStay
  <1>3. ASSUME NEW c \in Slots, Receive(c) \/ HandlerFails(c)
        PROVE  LinkInv'
    <2>1. effects' = effects /\ raced' = raced /\ links' = links /\ Others(c)
      BY <1>3, OneSlot DEF Receive, HandlerFails, history
    <2>2. calls'[c].step \in {"idle", "start"}
      <3>1. CASE HandlerFails(c)
        BY <3>1, AnswerSet DEF HandlerFails, Idle
      <3>2. CASE Receive(c)
        BY <3>2 DEF Receive, TypeOK, Idle
      <3> QED
        BY <1>3, <3>1, <3>2
    <2> QED
      BY <1>2, <2>1, <2>2 DEF Others, UsedStay
  <1>4. CASE Crash
    <2>1. effects' = effects /\ raced' = raced /\ links' = links
      BY <1>4 DEF Crash
    <2>2. \A d \in Slots : calls'[d].step \in {"idle", "start"}
      BY <1>4 DEF Crash, Idle
    <2> QED
      BY <1>2, <2>1, <2>2 DEF UsedStay
  <1>5. ASSUME NEW i \in SessionIds, ExpireToken(i)
        PROVE  LinkInv'
    <2>1. effects' = effects /\ raced' = raced /\ calls' = calls /\ links' = links
      BY <1>5 DEF ExpireToken, history
    <2> QED
      BY <1>2, <2>1 DEF UsedStay
  <1>6. ASSUME NEW l \in LinkIds, ExpireLink(l)
        PROVE  LinkInv'
    <2>1. effects' = effects /\ raced' = raced /\ calls' = calls
      BY <1>6 DEF ExpireLink, history
    <2>2. UsedStay
      BY <1>6, ExpiredRow DEF UsedStay
    <2> QED
      BY <1>2, <2>1, <2>2
  <1> QED
    BY <1>1, <1>3, <1>4, <1>5, <1>6 DEF Next

(* A link that was mailed verifies the address or sets the password once,  *)
(* unless two handlers read it before either marked it used.               *)
THEOREM LinksWorkOnce == Spec => []LinkWorksOnce
  <1>1. Init => LinkInv
    BY DEF Init, LinkInv, Consumed, Consuming, Idle, NoRequest
  <1>2. TypeOK /\ Books /\ LinkInv /\ [Next]_vars => LinkInv'
    <2> SUFFICES ASSUME TypeOK, Books, LinkInv, [Next]_vars PROVE LinkInv'
      OBVIOUS
    <2>1. CASE UNCHANGED vars
      BY <2>1 DEF vars, history, LinkInv, Consumed, Consuming
    <2> QED
      BY <2>1, NextKeeps, NextConsumes DEF Kept
  <1>3. TypeOK /\ LinkInv => LinkWorksOnce
    BY DEF TypeOK, LinkInv, Consumed, LinkWorksOnce
  <1> QED
    BY <1>1, <1>2, <1>3, AccountBooks, PTL DEF Spec

-----------------------------------------------------------------------------
(* UsedLinkWorks. *)

(* Handler c marked link l used and is about to do what it is for.         *)
AtWork(c, l) == /\ calls[c].req.op \in {"verify", "reset"}
                /\ calls[c].req.link = l
                /\ calls[c].step \in {"verify", "password"}

DoneOrDue(l) == \/ effects[l] > 0
                \/ <<"effect", l>> \in cut
                \/ \E c \in Slots : AtWork(c, l)

LEMMA TagsDiffer ==
    ASSUME NEW what, NEW else, NEW a, NEW b, what # else
    PROVE  <<what, a>> # <<else, b>>
  OBVIOUS

(* Only the end of a sweep settles something that was left undone.         *)
LEMMA CutStays ==
    ASSUME NEW c \in Slots, HandlerStep(c), NEW what, NEW x, what # "sweep",
           <<what, x>> \in cut
    PROVE  <<what, x>> \in cut'
  <1>1. CASE SignOut(c)
    <2>1. cut' = cut \ {<<"sweep", Whom(c)>>}
      BY <1>1 DEF SignOut
    <2>2. <<what, x>> # <<"sweep", Whom(c)>>
      BY TagsDiffer
    <2> QED
      BY <2>1, <2>2
  <1>2. CASE RegisterReads(c) \/ RegisterTaken(c) \/ RegisterInserts(c)
               \/ Forgot(c) \/ CreateLink(c) \/ PublishLink(c)
               \/ Login(c) \/ RotateReads(c) \/ RotateRefused(c) \/ Alarm(c)
               \/ RotateUser(c) \/ RotateRevokes(c) \/ IssueTokens(c) \/ Logout(c)
    BY <1>2 DEF RegisterReads, RegisterTaken, RegisterInserts, Forgot, CreateLink,
                PublishLink, Login, RotateReads, RotateRefused, Alarm, RotateUser,
                RotateRevokes, IssueTokens, Logout, history
  <1>3. CASE ConsumeReads(c) \/ ConsumeWrites(c) \/ VerifyEmail(c) \/ ChangeReads(c)
               \/ SetPassword(c) \/ AnnounceChange(c) \/ SetRole(c)
    BY <1>3 DEF ConsumeReads, ConsumeWrites, VerifyEmail, ChangeReads, SetPassword,
                AnnounceChange, SetRole, history
  <1> QED
    BY <1>1, <1>2, <1>3 DEF HandlerStep

(* What a link did is not undone, and a handler at work on it does it.     *)
LEMMA EffectsGrow ==
    ASSUME TypeOK, Books, NEW c \in Slots, HandlerStep(c), NEW l \in LinkIds
    PROVE  /\ effects[l] > 0 => effects'[l] > 0
           /\ AtWork(c, l) => effects'[l] > 0
  <1>1. CASE VerifyEmail(c) \/ (SetPassword(c) /\ calls[c].req.op = "reset")
    <2>1. Effect(c) /\ calls[c].req \in Requests /\ calls[c].req.op \in {"verify", "reset"}
      BY <1>1, AtStep DEF VerifyEmail, SetPassword
    <2>2. PICK k \in LinkIds : k = calls[c].req.link
      BY <2>1, RequestShape
    <2>3. effects' = [effects EXCEPT ![k] = effects[k] + 1]
      BY <2>1, <2>2 DEF Effect
    <2>4. effects[l] \in Nat /\ effects[k] \in Nat
      BY DEF TypeOK
    <2>5. effects'[k] = effects[k] + 1 /\ (l # k => effects'[l] = effects[l])
      BY <2>3 DEF TypeOK
    <2> QED
      BY <2>2, <2>4, <2>5 DEF AtWork
  <1>2. CASE SetPassword(c) /\ calls[c].req.op # "reset"
    BY <1>2 DEF SetPassword, At, AtWork
  <1>3. CASE RegisterReads(c) \/ RegisterTaken(c) \/ RegisterInserts(c)
               \/ Forgot(c) \/ CreateLink(c) \/ PublishLink(c)
               \/ Login(c) \/ RotateReads(c) \/ RotateRefused(c) \/ Alarm(c)
               \/ RotateUser(c) \/ RotateRevokes(c) \/ IssueTokens(c) \/ Logout(c)
    BY <1>3 DEF RegisterReads, RegisterTaken, RegisterInserts, Forgot, CreateLink,
                PublishLink, Login, RotateReads, RotateRefused, Alarm, RotateUser,
                RotateRevokes, IssueTokens, Logout, history, At, AtWork
  <1>4. CASE ConsumeReads(c) \/ ConsumeWrites(c) \/ ChangeReads(c) \/ SignOut(c)
               \/ AnnounceChange(c) \/ SetRole(c)
    BY <1>4 DEF ConsumeReads, ConsumeWrites, ChangeReads, SignOut, AnnounceChange,
                SetRole, history, At, AtWork
  <1> QED
    BY <1>1, <1>2, <1>3, <1>4 DEF HandlerStep

(* A link that is used was used before, or its handler has just marked it. *)
LEMMA NewlyUsed ==
    ASSUME TypeOK, Books, NEW c \in Slots, HandlerStep(c), NEW l \in LinkIds,
           links'[l].exists, links'[l].used
    PROVE  (links[l].exists /\ links[l].used) \/ AtWork(c, l)'
  <1>1. CASE ConsumeWrites(c)
    <2>1. PICK k \in LinkIds : k = calls[c].req.link /\ links[k].exists
      BY <1>1, AtStep, RequestShape DEF ConsumeWrites, CallGood, Handed
    <2>2. \A j \in LinkIds \ {k} : links'[j] = links[j]
      BY <1>1, <2>1 DEF ConsumeWrites, TypeOK
    <2>3. calls[c].req.op \in {"verify", "reset"}
      BY <1>1 DEF ConsumeWrites, At
    <2>4. calls'[c].req = calls[c].req /\ calls'[c].step \in {"verify", "password"}
      BY <1>1, GoSet DEF ConsumeWrites, Steps
    <2> QED
      BY <2>1, <2>2, <2>3, <2>4 DEF AtWork
  <1>2. CASE CreateLink(c)
    <2> DEFINE row == [exists |-> TRUE, owner |-> Whom(c), used |-> FALSE,
                       expired |-> FALSE,
                       type |-> IF calls[c].req.op = "register" THEN "EMAIL_VERIFY"
                                                                ELSE "PASSWORD_RESET"]
    <2>1. ~row.used
      OBVIOUS
    <2>2. links' = [links EXCEPT ![Free(links)] = row]
      BY <1>2 DEF CreateLink
    <2> HIDE DEF row
    <2>3. links'[l] = links[l] \/ links'[l] = row
      BY <2>2 DEF TypeOK
    <2> QED
      BY <2>1, <2>3
  <1>3. CASE RegisterReads(c) \/ RegisterTaken(c) \/ RegisterInserts(c)
               \/ Forgot(c) \/ PublishLink(c) \/ Login(c) \/ RotateReads(c)
               \/ RotateRefused(c) \/ Alarm(c) \/ RotateUser(c) \/ RotateRevokes(c)
               \/ IssueTokens(c) \/ Logout(c)
    BY <1>3 DEF RegisterReads, RegisterTaken, RegisterInserts, Forgot, PublishLink,
                Login, RotateReads, RotateRefused, Alarm, RotateUser, RotateRevokes,
                IssueTokens, Logout
  <1>4. CASE ConsumeReads(c) \/ VerifyEmail(c) \/ ChangeReads(c) \/ SetPassword(c)
               \/ SignOut(c) \/ AnnounceChange(c) \/ SetRole(c)
    BY <1>4 DEF ConsumeReads, VerifyEmail, ChangeReads, SetPassword, SignOut,
                AnnounceChange, SetRole
  <1> QED
    BY <1>1, <1>2, <1>3, <1>4 DEF HandlerStep

(* What a failure takes from a handler at work is on record.               *)
LEMMA EffectUndone ==
    ASSUME TypeOK, Books, NEW slots \in SUBSET Slots, NEW c \in slots, NEW l,
           AtWork(c, l)
    PROVE  <<"effect", l>> \in Undone(slots)
  <1>1. At(c, {"verify"}, "verify") \/ At(c, {"reset"}, "password")
    BY DEF AtWork, At, Books, CallGood, StepFits
  <1> QED
    BY <1>1 DEF AtWork, Undone

LEMMA NextUses ==
    ASSUME TypeOK, Books, UsedLinkWorks, Next
    PROVE  UsedLinkWorks'
  <1>1. SUFFICES ASSUME NEW l \in LinkIds, links'[l].exists, links'[l].used
                 PROVE  DoneOrDue(l)'
    BY DEF UsedLinkWorks, DoneOrDue, AtWork
  <1>2. links[l].exists /\ links[l].used => DoneOrDue(l)
    BY DEF UsedLinkWorks, DoneOrDue, AtWork
  <1>3. ASSUME NEW c \in Slots, HandlerStep(c)
        PROVE  DoneOrDue(l)'
    <2>1. CASE AtWork(c, l)'
      BY <2>1 DEF DoneOrDue
    <2>2. CASE DoneOrDue(l)
      <3>1. effects[l] > 0 \/ AtWork(c, l) => effects'[l] > 0
        BY <1>3, EffectsGrow
      <3>2. <<"effect", l>> \in cut => <<"effect", l>> \in cut'
        BY <1>3, CutStays
      <3>3. \A d \in Slots \ {c} : AtWork(d, l) => AtWork(d, l)'
        BY <1>3, OneSlot DEF Others, AtWork
      <3> QED
        BY <2>2, <3>1, <3>2, <3>3 DEF DoneOrDue
    <2> QED
      BY <1>1, <1>2, <1>3, <2>1, <2>2, NewlyUsed
  <1>4. ASSUME NEW slots \in SUBSET Slots, cut' = cut \cup Undone(slots),
               \A d \in Slots \ slots : calls'[d] = calls[d],
               effects' = effects, links' = links
        PROVE  DoneOrDue(l)'
    <2>1. DoneOrDue(l)
      BY <1>1, <1>2, <1>4
    <2>2. \A c \in slots : AtWork(c, l) => <<"effect", l>> \in cut'
      BY <1>4, EffectUndone
    <2>3. \A d \in Slots \ slots : AtWork(d, l) => AtWork(d, l)'
      BY <1>4 DEF AtWork
    <2> QED
      BY <1>4, <2>1, <2>2, <2>3 DEF DoneOrDue
  <1>5. ASSUME NEW c \in Slots, HandlerFails(c)
        PROVE  DoneOrDue(l)'
    <2>1. /\ cut' = cut \cup Undone({c}) /\ effects' = effects /\ links' = links
          /\ \A d \in Slots \ {c} : calls'[d] = calls[d]
      BY <1>5, OneSlot DEF HandlerFails, Others
    <2> QED
      BY <1>4, <2>1
  <1>6. CASE Crash
    <2>1. cut' = cut \cup Undone(Slots) /\ effects' = effects /\ links' = links
      BY <1>6 DEF Crash
    <2> QED
      BY <1>4, <2>1
  <1>7. ASSUME UNCHANGED <<effects, cut>>, links[l].exists, links[l].used,
               \A d \in Slots : calls[d].step # "idle" => calls'[d] = calls[d]
        PROVE  DoneOrDue(l)'
    BY <1>2, <1>7 DEF DoneOrDue, AtWork
  <1>8. ASSUME NEW c \in Slots, Receive(c)
        PROVE  DoneOrDue(l)'
    <2>1. /\ UNCHANGED <<effects, cut>> /\ links' = links
          /\ calls[c].step = "idle" /\ Others(c)
      BY <1>8, OneSlot DEF Receive, history
    <2> QED
      BY <1>1, <1>7, <2>1 DEF Others
  <1>9. ASSUME NEW i \in SessionIds, ExpireToken(i)
        PROVE  DoneOrDue(l)'
    <2>1. UNCHANGED <<effects, cut>> /\ links' = links /\ calls' = calls
      BY <1>9 DEF ExpireToken, history
    <2> QED
      BY <1>1, <1>7, <2>1
  <1>10. ASSUME NEW k \in LinkIds, ExpireLink(k)
         PROVE  DoneOrDue(l)'
    <2>1. UNCHANGED <<effects, cut>> /\ calls' = calls
      BY <1>10 DEF ExpireLink, history
    <2>2. links[l].exists /\ links[l].used
      BY <1>1, <1>10, ExpiredRow
    <2> QED
      BY <1>7, <2>1, <2>2
  <1> QED
    BY <1>3, <1>5, <1>6, <1>8, <1>9, <1>10 DEF Next

(* A link is not used up for nothing: it did what it is for, its handler   *)
(* is about to, or that handler failed between the two writes.             *)
THEOREM UsedLinksWork == Spec => []UsedLinkWorks
  <1>1. Init => UsedLinkWorks
    BY DEF Init, UsedLinkWorks, NoLink
  <1>2. TypeOK /\ Books /\ UsedLinkWorks /\ [Next]_vars => UsedLinkWorks'
    <2> SUFFICES ASSUME TypeOK, Books, UsedLinkWorks, [Next]_vars PROVE UsedLinkWorks'
      OBVIOUS
    <2>1. CASE UNCHANGED vars
      BY <2>1 DEF vars, history, UsedLinkWorks
    <2> QED
      BY <2>1, NextUses
  <1> QED
    BY <1>1, <1>2, AccountBooks, PTL DEF Spec

-----------------------------------------------------------------------------
(* AccountGetsLink. *)

(* What a handler does to an account.                                      *)
LEMMA AccountWritten ==
    ASSUME TypeOK, Books, NEW c \in Slots, HandlerStep(c), NEW e \in Emails
    PROVE  \/ accounts'[e] = accounts[e]
           \/ RegisterInserts(c) /\ Whom(c) = e /\ ~accounts[e].exists
           \/ /\ accounts[e].exists
              /\ accounts[e].verified => accounts'[e].verified
              /\ \/ accounts'[e].role = accounts[e].role
                 \/ SetRole(c) /\ calls[c].req.email = e
  <1>1. CASE VerifyEmail(c) \/ SetPassword(c)
    <2>1. Whom(c) \in Emails /\ accounts[Whom(c)].exists
      BY <1>1, AtStep, WhomTyped DEF VerifyEmail, SetPassword
    <2>2. PICK f \in Emails : f = Whom(c)
      BY <2>1
    <2>3. accounts[f] \in Account
      BY <2>1, <2>2, AccountShape
    <2>4. \/ accounts'[f] = [accounts[f] EXCEPT !.verified = TRUE]
          \/ accounts'[f] = [accounts[f] EXCEPT !.password = calls[c].req.password]
      BY <1>1, <2>2 DEF VerifyEmail, SetPassword, TypeOK
    <2>5. /\ accounts[f].verified => accounts'[f].verified
          /\ accounts'[f].role = accounts[f].role
      BY <2>3, <2>4 DEF Account
    <2>6. e # f => accounts'[e] = accounts[e]
      BY <1>1, <2>2 DEF VerifyEmail, SetPassword, TypeOK
    <2> QED
      BY <2>1, <2>2, <2>5, <2>6
  <1>2. CASE SetRole(c) /\ accounts[calls[c].req.email].exists
    <2>1. PICK f \in Emails : f = calls[c].req.email /\ accounts[f].exists
      BY <1>2, AtStep, RequestShape DEF SetRole
    <2>2. accounts[f] \in Account
      BY <2>1, AccountShape
    <2>3. accounts'[f] = [accounts[f] EXCEPT !.role = calls[c].req.role]
      BY <1>2, <2>1 DEF SetRole, TypeOK
    <2>4. accounts[f].verified => accounts'[f].verified
      BY <2>2, <2>3 DEF Account
    <2>5. e # f => accounts'[e] = accounts[e]
      BY <1>2, <2>1 DEF SetRole, TypeOK
    <2> QED
      BY <1>2, <2>1, <2>4, <2>5
  <1>3. CASE SetRole(c) /\ ~accounts[calls[c].req.email].exists
    BY <1>3 DEF SetRole
  <1>4. CASE RegisterInserts(c)
    <2>1. PICK f \in Emails : f = Whom(c) /\ ~accounts[f].exists
      BY <1>4, AtStep DEF RegisterInserts
    <2>2. e # f => accounts'[e] = accounts[e]
      BY <1>4, <2>1 DEF RegisterInserts, TypeOK
    <2> QED
      BY <1>4, <2>1, <2>2
  <1>5. CASE RegisterReads(c) \/ RegisterTaken(c) \/ Forgot(c) \/ CreateLink(c)
               \/ PublishLink(c) \/ Login(c) \/ RotateReads(c) \/ RotateRefused(c)
               \/ Alarm(c) \/ RotateUser(c) \/ RotateRevokes(c) \/ IssueTokens(c)
               \/ Logout(c)
    BY <1>5 DEF RegisterReads, RegisterTaken, Forgot, CreateLink, PublishLink, Login,
                RotateReads, RotateRefused, Alarm, RotateUser, RotateRevokes,
                IssueTokens, Logout
  <1>6. CASE ConsumeReads(c) \/ ConsumeWrites(c) \/ ChangeReads(c) \/ SignOut(c)
               \/ AnnounceChange(c)
    BY <1>6 DEF ConsumeReads, ConsumeWrites, ChangeReads, SignOut, AnnounceChange
  <1> QED
    BY <1>1, <1>2, <1>3, <1>4, <1>5, <1>6 DEF HandlerStep

(* Handler c has registered e and has yet to mail the link.                *)
Registering(c, e) == /\ calls[c].req.op = "register" /\ Whom(c) = e
                     /\ calls[c].step \in {"link", "publish"}

Welcomed(e) == \/ \E l \in mailed : links[l].owner = e /\ links[l].type = "EMAIL_VERIFY"
               \/ \E c \in Slots : Registering(c, e)
               \/ <<"link", e>> \in cut

LEMMA MailStands ==
    ASSUME TypeOK, Books, Grows, mailed \subseteq mailed', NEW e,
           \E l \in mailed : links[l].owner = e /\ links[l].type = "EMAIL_VERIFY"
    PROVE  Welcomed(e)'
  <1>1. PICK l \in mailed : links[l].owner = e /\ links[l].type = "EMAIL_VERIFY"
    OBVIOUS
  <1>2. l \in LinkIds /\ links[l].exists
    BY DEF TypeOK, Books, RowsOwned
  <1> QED
    BY <1>1, <1>2 DEF Grows, Welcomed

LEMMA RegisteringStays ==
    ASSUME TypeOK, Books, Grows, NEW d \in Slots, NEW e, Registering(d, e),
           calls'[d].req = calls[d].req, calls'[d].step \in {"link", "publish"}
    PROVE  Registering(d, e)'
  <1>1. calls[d].req # NoRequest
    BY DEF Registering, NoRequest
  <1>2. Whom(d)' = Whom(d)
    BY <1>1, WhomStays
  <1> QED
    BY <1>2 DEF Registering

(* A handler that registers someone goes on to the mail.                   *)
LEMMA GoesOnToMail ==
    ASSUME TypeOK, Books, Grows, NEW c \in Slots, HandlerStep(c), NEW e \in Emails,
           Registering(c, e)
    PROVE  Welcomed(e)'
  <1>1. calls[c].req.op = "register" /\ calls[c].step \in {"link", "publish"}
    BY DEF Registering
  <1>2. CASE CreateLink(c)
    <2> DEFINE call == [calls[c] EXCEPT !.step = "publish", !.row = Free(links)]
    <2>1. call.step = "publish" /\ call.req = calls[c].req
      BY CallShape DEF Call
    <2>2. calls' = [calls EXCEPT ![c] = call]
      BY <1>2 DEF CreateLink
    <2> HIDE DEF call
    <2>3. calls'[c].step = "publish" /\ calls'[c].req = calls[c].req
      BY <2>1, <2>2 DEF TypeOK
    <2> QED
      BY <2>3, RegisteringStays DEF Welcomed
  <1>3. CASE PublishLink(c)
    <2>1. /\ calls[c].step = "publish" /\ CallGood(calls[c])
          /\ calls[c].req # NoRequest
      BY <1>3, AtStep DEF PublishLink
    <2>2. PICK l \in LinkIds : l = calls[c].row
      BY <2>1 DEF CallGood, Created
    <2>3. links[l].owner = e /\ links[l].type = "EMAIL_VERIFY"
      BY <1>1, <2>1, <2>2, WhomTyped DEF CallGood, Created, Registering
    <2>4. l \in mailed' /\ links' = links
      BY <1>3, <2>2 DEF PublishLink
    <2> QED
      BY <2>3, <2>4 DEF Welcomed
  <1> QED
    BY <1>1, <1>2, <1>3
       DEF HandlerStep, At, RegisterReads, RegisterTaken, RegisterInserts, Forgot, Login,
           RotateReads, RotateRefused, Alarm, RotateUser, RotateRevokes, IssueTokens,
           Logout, ConsumeReads, ConsumeWrites, VerifyEmail, ChangeReads, SetPassword,
           SignOut, AnnounceChange, SetRole

LEMMA MailedGrows ==
    ASSUME NEW c \in Slots, HandlerStep(c)
    PROVE  mailed \subseteq mailed'
  <1>1. CASE RegisterReads(c) \/ RegisterTaken(c) \/ RegisterInserts(c)
               \/ Forgot(c) \/ CreateLink(c) \/ PublishLink(c)
               \/ Login(c) \/ RotateReads(c) \/ RotateRefused(c) \/ Alarm(c)
               \/ RotateUser(c) \/ RotateRevokes(c) \/ IssueTokens(c) \/ Logout(c)
    BY <1>1 DEF RegisterReads, RegisterTaken, RegisterInserts, Forgot, CreateLink,
                PublishLink, Login, RotateReads, RotateRefused, Alarm, RotateUser,
                RotateRevokes, IssueTokens, Logout
  <1>2. CASE ConsumeReads(c) \/ ConsumeWrites(c) \/ VerifyEmail(c) \/ ChangeReads(c)
               \/ SetPassword(c) \/ SignOut(c) \/ AnnounceChange(c) \/ SetRole(c)
    BY <1>2 DEF ConsumeReads, ConsumeWrites, VerifyEmail, ChangeReads, SetPassword,
                SignOut, AnnounceChange, SetRole
  <1> QED
    BY <1>1, <1>2 DEF HandlerStep

LEMMA NextWelcomes ==
    ASSUME TypeOK, Books, Grows, AccountGetsLink, Next
    PROVE  AccountGetsLink'
  <1>1. SUFFICES ASSUME NEW e \in Emails, accounts'[e].exists, ~accounts'[e].verified
                 PROVE  Welcomed(e)'
    BY DEF AccountGetsLink, Welcomed, Registering
  <1>2. accounts[e].exists /\ ~accounts[e].verified => Welcomed(e)
    BY DEF AccountGetsLink, Welcomed, Registering
  <1>3. ASSUME NEW c \in Slots, HandlerStep(c)
        PROVE  Welcomed(e)'
    <2>1. CASE RegisterInserts(c) /\ Whom(c) = e
      <3>1. calls[c].req.op = "register" /\ calls[c].req # NoRequest
        BY <2>1, AtStep DEF RegisterInserts
      <3>2. calls'[c].req = calls[c].req /\ calls'[c].step = "link"
        BY <2>1, GoSet DEF RegisterInserts, Steps
      <3>3. Whom(c)' = e
        BY <2>1, <3>1, <3>2, WhomStays
      <3> QED
        BY <3>1, <3>2, <3>3 DEF Welcomed, Registering
    <2>2. CASE Welcomed(e)
      <3>1. CASE \E l \in mailed : links[l].owner = e /\ links[l].type = "EMAIL_VERIFY"
        BY <1>3, <3>1, MailedGrows, MailStands
      <3>2. CASE <<"link", e>> \in cut
        BY <1>3, <3>2, CutStays DEF Welcomed
      <3>3. ASSUME NEW d \in Slots, Registering(d, e)
            PROVE  Welcomed(e)'
        <4>1. CASE d = c
          BY <1>3, <3>3, <4>1, GoesOnToMail
        <4>2. CASE d # c
          <5>1. calls'[d] = calls[d]
            BY <1>3, <4>2, OneSlot DEF Others
          <5>2. Registering(d, e)'
            BY <3>3, <5>1, RegisteringStays DEF Registering
          <5> QED
            BY <5>2 DEF Welcomed
        <4> QED
          BY <4>1, <4>2
      <3> QED
        BY <2>2, <3>1, <3>2, <3>3 DEF Welcomed
    <2> QED
      BY <1>1, <1>2, <1>3, <2>1, <2>2, AccountWritten
  <1>4. ASSUME NEW slots \in SUBSET Slots, cut \subseteq cut', mailed' = mailed,
               \A c \in slots : Registering(c, e) => <<"link", e>> \in cut',
               \A d \in Slots \ slots :
                   calls[d].step # "idle" => calls'[d] = calls[d],
               accounts' = accounts
        PROVE  Welcomed(e)'
    <2>1. Welcomed(e)
      BY <1>1, <1>2, <1>4
    <2>2. CASE \E l \in mailed : links[l].owner = e /\ links[l].type = "EMAIL_VERIFY"
      BY <1>4, <2>2, MailStands
    <2>3. CASE <<"link", e>> \in cut
      BY <1>4, <2>3 DEF Welcomed
    <2>4. ASSUME NEW d \in Slots \ slots, Registering(d, e)
          PROVE  Welcomed(e)'
      <3>1. calls'[d] = calls[d]
        BY <1>4, <2>4 DEF Registering
      <3>2. Registering(d, e)'
        BY <2>4, <3>1, RegisteringStays DEF Registering
      <3> QED
        BY <3>2 DEF Welcomed
    <2>5. ASSUME NEW d \in slots, Registering(d, e)
          PROVE  Welcomed(e)'
      BY <1>4, <2>5 DEF Welcomed
    <2> QED
      BY <2>1, <2>2, <2>3, <2>4, <2>5 DEF Welcomed
  <1>5. ASSUME NEW slots, NEW c \in slots, Registering(c, e),
               cut' = cut \cup Undone(slots)
        PROVE  <<"link", e>> \in cut'
    <2>1. <<"link", e>> \in Undone(slots)
      BY <1>5 DEF Registering, Undone
    <2> QED
      BY <1>5, <2>1
  <1>6. ASSUME NEW c \in Slots, HandlerFails(c)
        PROVE  Welcomed(e)'
    <2>1. /\ cut' = cut \cup Undone({c}) /\ mailed' = mailed /\ accounts' = accounts
          /\ Others(c)
      BY <1>6, OneSlot DEF HandlerFails
    <2>2. \A d \in {c} : Registering(d, e) => <<"link", e>> \in cut'
      BY <1>5, <2>1
    <2> QED
      BY <1>4, <2>1, <2>2 DEF Others
  <1>7. CASE Crash
    <2>1. cut' = cut \cup Undone(Slots) /\ mailed' = mailed /\ accounts' = accounts
      BY <1>7 DEF Crash
    <2>2. \A d \in Slots : Registering(d, e) => <<"link", e>> \in cut'
      BY <1>5, <2>1
    <2> QED
      BY <1>4, <2>1, <2>2
  <1>8. ASSUME NEW c \in Slots, Receive(c)
        PROVE  Welcomed(e)'
    <2>1. /\ cut' = cut /\ mailed' = mailed /\ accounts' = accounts
          /\ calls[c].step = "idle" /\ Others(c)
      BY <1>8, OneSlot DEF Receive, history
    <2>2. \A d \in Slots : calls[d].step # "idle" => calls'[d] = calls[d]
      BY <2>1 DEF Others
    <2>3. PICK slots \in SUBSET Slots : slots = {}
      OBVIOUS
    <2> QED
      BY <1>4, <2>1, <2>2, <2>3
  <1>9. CASE (\E i \in SessionIds : ExpireToken(i)) \/ (\E l \in LinkIds : ExpireLink(l))
    <2>1. cut' = cut /\ mailed' = mailed /\ accounts' = accounts /\ calls' = calls
      BY <1>9 DEF ExpireToken, ExpireLink, history
    <2>2. PICK slots \in SUBSET Slots : slots = {}
      OBVIOUS
    <2> QED
      BY <1>4, <2>1, <2>2
  <1> QED
    BY <1>3, <1>6, <1>7, <1>8, <1>9 DEF Next

(* Whoever has an account and has not verified the address was mailed a    *)
(* link, is about to be, or registering failed half way.                   *)
THEOREM AccountsGetLinks == Spec => []AccountGetsLink
  <1>1. Init => AccountGetsLink
    BY DEF Init, AccountGetsLink, NoAccount
  <1>2. TypeOK /\ Books /\ AccountGetsLink /\ [Next]_vars => AccountGetsLink'
    <2> SUFFICES ASSUME TypeOK, Books, AccountGetsLink, [Next]_vars
                 PROVE  AccountGetsLink'
      OBVIOUS
    <2>1. CASE UNCHANGED vars
      BY <2>1 DEF vars, history, AccountGetsLink, Whom, Of
    <2> QED
      BY <2>1, NextKeeps, NextWelcomes DEF Kept
  <1> QED
    BY <1>1, <1>2, AccountBooks, PTL DEF Spec

-----------------------------------------------------------------------------
(* RoleReachesTokens. *)

(* The role of an account changes with its number.                         *)
LEMMA RoleMoves ==
    ASSUME TypeOK, Books, NEW c \in Slots, HandlerStep(c), NEW e \in Emails,
           accounts[e].exists
    PROVE  \/ roleNr'[e] = roleNr[e] /\ accounts'[e].role = accounts[e].role
           \/ roleNr'[e] = roleNr[e] + 1
  <1>1. CASE SetRole(c)
    <2>1. PICK f \in Emails : f = calls[c].req.email
      BY <1>1, AtStep, RequestShape DEF SetRole
    <2>2. \/ accounts' = accounts /\ roleNr' = roleNr
          \/ /\ accounts' = [accounts EXCEPT ![f].role = calls[c].req.role]
             /\ roleNr' = [roleNr EXCEPT ![f] = roleNr[f] + 1]
      BY <1>1, <2>1 DEF SetRole
    <2>3. CASE e = f
      BY <2>2, <2>3 DEF TypeOK
    <2>4. CASE e # f
      BY <2>2, <2>4 DEF TypeOK
    <2> QED
      BY <2>3, <2>4
  <1>2. CASE ~SetRole(c)
    <2>1. accounts'[e].role = accounts[e].role
      BY <1>2, AccountWritten
    <2>2. roleNr' = roleNr
      <3>1. CASE RegisterReads(c) \/ RegisterTaken(c) \/ RegisterInserts(c)
                   \/ Forgot(c) \/ CreateLink(c) \/ PublishLink(c) \/ Login(c)
                   \/ RotateReads(c) \/ RotateRefused(c) \/ Alarm(c) \/ RotateUser(c)
                   \/ RotateRevokes(c) \/ IssueTokens(c) \/ Logout(c)
        BY <3>1 DEF RegisterReads, RegisterTaken, RegisterInserts, Forgot, CreateLink,
                    PublishLink, Login, RotateReads, RotateRefused, Alarm, RotateUser,
                    RotateRevokes, IssueTokens, Logout, history
      <3>2. CASE ConsumeReads(c) \/ ConsumeWrites(c) \/ VerifyEmail(c) \/ ChangeReads(c)
                   \/ SetPassword(c) \/ SignOut(c) \/ AnnounceChange(c)
        BY <3>2 DEF ConsumeReads, ConsumeWrites, VerifyEmail, ChangeReads, SetPassword,
                    SignOut, AnnounceChange, history
      <3> QED
        BY <1>2, <3>1, <3>2 DEF HandlerStep
    <2> QED
      BY <2>1, <2>2
  <1> QED
    BY <1>1, <1>2

(* What was known of a role is still known after such a step.              *)
LEMMA KnowledgeStays ==
    ASSUME TypeOK, NEW e \in Emails, NEW nr \in Nat, NEW role, KnowsRole(nr, role, e),
           \/ roleNr'[e] = roleNr[e] /\ accounts'[e].role = accounts[e].role
           \/ roleNr'[e] = roleNr[e] + 1
    PROVE  KnowsRole(nr, role, e)'
  <1>1. roleNr[e] \in Nat
    BY DEF TypeOK
  <1> QED
    BY <1>1 DEF KnowsRole

(* A handler leaves what the tokens that were handed out say, and issues   *)
(* one with what it knows.                                                 *)
LEMMA ClaimsStay ==
    ASSUME TypeOK, Books, NEW c \in Slots, HandlerStep(c), NEW i \in SessionIds,
           sessions'[i].exists
    PROVE  \/ /\ sessions[i].exists /\ sessions'[i].role = sessions[i].role
              /\ sessions'[i].roleNr = sessions[i].roleNr
           \/ /\ IssueTokens(c) /\ sessions'[i].owner = Whom(c)
              /\ sessions'[i].role = calls[c].role
              /\ sessions'[i].roleNr = calls[c].roleNr
  <1>1. CASE SignOut(c) \/ Alarm(c)
    <2>1. PICK e \in Emails : sessions' = RevokedAll(e)
      BY <1>1, AtStep DEF SignOut, Alarm
    <2>2. /\ sessions[i].exists
          /\ sessions'[i] = sessions[i]
               \/ sessions'[i] = [sessions[i] EXCEPT !.revoked = TRUE]
      BY <2>1, RevokedAllSet
    <2>3. sessions[i] \in Session
      BY <2>2, SessionShape
    <2> DEFINE row == [sessions[i] EXCEPT !.revoked = TRUE]
    <2>4. row.role = sessions[i].role /\ row.roleNr = sessions[i].roleNr
      BY <2>3 DEF Session
    <2> HIDE DEF row
    <2> QED
      BY <2>2, <2>4 DEF row
  <1>2. CASE RotateRevokes(c) \/ Logout(c)
    <2>1. /\ calls[c].req \in Requests /\ calls[c].req.op \in {"refresh", "logout"}
          /\ CallGood(calls[c])
      BY <1>2, AtStep DEF RotateRevokes, Logout
    <2>2. PICK j \in SessionIds : j = calls[c].req.session /\ sessions[j].exists
      BY <2>1, RequestShape DEF CallGood, Handed
    <2>3. /\ sessions'[j] = [sessions[j] EXCEPT !.revoked = TRUE]
          /\ \A k \in SessionIds \ {j} : sessions'[k] = sessions[k]
      BY <1>2, <2>2, RevokedRow DEF RotateRevokes, Logout
    <2>4. sessions'[j].role = sessions[j].role /\ sessions'[j].roleNr = sessions[j].roleNr
      BY <2>2, <2>3, SessionShape DEF Session
    <2> QED
      BY <2>2, <2>3, <2>4
  <1>3. CASE IssueTokens(c)
    <2> DEFINE n == Free(sessions)
               row == [exists |-> TRUE, owner |-> Whom(c), by |-> calls[c].req.op,
                       revoked |-> FALSE, role |-> calls[c].role, age |-> "fresh",
                       read |-> calls[c].read, issued |-> epoch[Whom(c)],
                       roleNr |-> calls[c].roleNr]
    <2>1. n \in SessionIds /\ sessions' = [sessions EXCEPT ![n] = row]
      BY <1>3, FreeSession DEF IssueTokens
    <2>2. /\ row.owner = Whom(c) /\ row.role = calls[c].role
          /\ row.roleNr = calls[c].roleNr
      OBVIOUS
    <2> HIDE DEF row, n
    <2>3. sessions'[n] = row /\ \A j \in SessionIds \ {n} : sessions'[j] = sessions[j]
      BY <2>1 DEF TypeOK
    <2> QED
      BY <1>3, <2>1, <2>2, <2>3
  <1>4. CASE RegisterReads(c) \/ RegisterTaken(c) \/ RegisterInserts(c)
               \/ Forgot(c) \/ CreateLink(c) \/ PublishLink(c)
               \/ Login(c) \/ RotateReads(c) \/ RotateRefused(c) \/ RotateUser(c)
    BY <1>4 DEF RegisterReads, RegisterTaken, RegisterInserts, Forgot, CreateLink,
                PublishLink, Login, RotateReads, RotateRefused, RotateUser
  <1>5. CASE ConsumeReads(c) \/ ConsumeWrites(c) \/ VerifyEmail(c) \/ ChangeReads(c)
               \/ SetPassword(c) \/ AnnounceChange(c) \/ SetRole(c)
    BY <1>5 DEF ConsumeReads, ConsumeWrites, VerifyEmail, ChangeReads, SetPassword,
                AnnounceChange, SetRole
  <1> QED
    BY <1>1, <1>2, <1>3, <1>4, <1>5 DEF HandlerStep

(* Whoever rotates or issues does it for an account that exists.           *)
LEMMA KnownAccount ==
    ASSUME TypeOK, Books, NEW c \in Slots, calls[c].step \in {"revoke", "issue"}
    PROVE  /\ calls[c].req # NoRequest /\ Whom(c) \in Emails
           /\ accounts[Whom(c)].exists
  <1>1. CallGood(calls[c])
    BY DEF Books
  <1>2. calls[c].req # NoRequest /\ calls[c].req.op \in {"login", "refresh"}
    BY <1>1 DEF CallGood, StepFits
  <1>3. CASE calls[c].req.op = "refresh"
    BY <1>2, <1>3, WhomTyped
  <1>4. CASE calls[c].req.op = "login"
    <2>1. calls[c].step = "issue"
      BY <1>1, <1>4 DEF CallGood, StepFits
    <2> QED
      BY <1>1, <1>2, <1>4, <2>1, WhomTyped DEF CallGood, Entitled
  <1> QED
    BY <1>2, <1>3, <1>4

(* What the handler itself knows: it has just read it, or knew it before.  *)
LEMMA HandlerKnows ==
    ASSUME TypeOK, Books, Grows, RoleInv, NEW c \in Slots, HandlerStep(c),
           calls'[c].step \in {"revoke", "issue"}
    PROVE  KnowsRole(calls[c].roleNr, calls[c].role, Whom(c))'
  <1>1. CASE Login(c)
    <2> DEFINE q == calls[c].req
               a == accounts[q.email]
               call == [calls[c] EXCEPT !.step = "issue", !.read = epoch[q.email],
                                        !.role = a.role, !.roleNr = roleNr[q.email]]
    <2>1. q \in Requests /\ q # NoRequest /\ q.op = "login"
      BY <1>1, AtStep DEF Login
    <2>2. PICK e \in Emails : e = q.email
      BY <2>1, RequestShape
    <2>3. call.req = q /\ call.role = a.role /\ call.roleNr = roleNr[q.email]
      BY CallShape DEF Call
    <2>4. Answer(c) \/ calls' = [calls EXCEPT ![c] = call]
      BY <1>1 DEF Login
    <2>5. ~Answer(c)
      BY AnswerSet DEF Idle
    <2> HIDE DEF call
    <2>6. calls'[c] = call
      BY <2>4, <2>5 DEF TypeOK
    <2>7. Whom(c)' = e /\ accounts' = accounts /\ roleNr' = roleNr
      BY <1>1, <2>1, <2>2, <2>3, <2>6, WhomStays, WhomTyped DEF Login, history
    <2>8. roleNr[e] \in Nat
      BY DEF TypeOK
    <2> QED
      BY <2>2, <2>3, <2>6, <2>7, <2>8 DEF KnowsRole
  <1>2. CASE RotateUser(c)
    <2> DEFINE call == [calls[c] EXCEPT !.step = "revoke",
                                        !.role = accounts[Whom(c)].role,
                                        !.roleNr = roleNr[Whom(c)]]
    <2>1. calls[c].req # NoRequest /\ Whom(c) \in Emails
      BY <1>2, AtStep DEF RotateUser
    <2>2. PICK e \in Emails : e = Whom(c)
      BY <2>1
    <2>3. /\ call.req = calls[c].req /\ call.role = accounts[e].role
          /\ call.roleNr = roleNr[e]
      BY <2>2, CallShape DEF Call
    <2>4. calls' = [calls EXCEPT ![c] = call]
      BY <1>2 DEF RotateUser
    <2> HIDE DEF call
    <2>5. calls'[c] = call
      BY <2>4 DEF TypeOK
    <2>6. Whom(c)' = e /\ accounts' = accounts /\ roleNr' = roleNr
      BY <1>2, <2>1, <2>2, <2>3, <2>5, WhomStays DEF RotateUser, history
    <2>7. roleNr[e] \in Nat
      BY DEF TypeOK
    <2> QED
      BY <2>3, <2>5, <2>6, <2>7 DEF KnowsRole
  <1>3. CASE RotateRevokes(c)
    <2>1. calls[c].step = "revoke" /\ calls[c].req # NoRequest
      BY <1>3, AtStep DEF RotateRevokes
    <2>2. PICK e \in Emails : e = Whom(c)
      BY <2>1, KnownAccount
    <2>3. calls'[c] = [calls[c] EXCEPT !.step = "issue"]
      BY <1>3, GoSet DEF RotateRevokes, Steps
    <2>4. /\ calls'[c].req = calls[c].req /\ calls'[c].role = calls[c].role
          /\ calls'[c].roleNr = calls[c].roleNr
      BY <2>3, CallShape DEF Call
    <2>5. Whom(c)' = e /\ accounts' = accounts /\ roleNr' = roleNr
      BY <1>3, <2>1, <2>2, <2>4, WhomStays DEF RotateRevokes, history
    <2>6. KnowsRole(calls[c].roleNr, calls[c].role, e)
      BY <2>1, <2>2 DEF RoleInv
    <2> QED
      BY <2>4, <2>5, <2>6 DEF KnowsRole
  <1>4. ~Answer(c) /\ \A step \in Steps \ {"revoke", "issue"} : ~Go(c, step)
    <2>1. ~Answer(c)
      BY AnswerSet DEF Idle
    <2>2. ASSUME NEW step \in Steps, Go(c, step) PROVE step \in {"revoke", "issue"}
      BY <2>2, GoSet
    <2> QED
      BY <2>1, <2>2
  <1>5. ~CreateLink(c)
    <2> DEFINE call == [calls[c] EXCEPT !.step = "publish", !.row = Free(links)]
    <2>1. call.step = "publish"
      BY CallShape DEF Call
    <2> HIDE DEF call
    <2>2. calls' # [calls EXCEPT ![c] = call]
      BY <2>1 DEF TypeOK
    <2> QED
      BY <2>2 DEF CreateLink, call
  <1>6. ~RotateReads(c)
    <2> DEFINE call == [calls[c] EXCEPT !.step = "user", !.read = epoch[Whom(c)]]
    <2>1. call.step = "user"
      BY CallShape DEF Call
    <2> HIDE DEF call
    <2>2. calls' # [calls EXCEPT ![c] = call]
      BY <2>1 DEF TypeOK
    <2> QED
      BY <2>2 DEF RotateReads, call
  <1>7. ~(RegisterReads(c) \/ RegisterTaken(c) \/ RegisterInserts(c) \/ Forgot(c)
            \/ PublishLink(c) \/ RotateRefused(c) \/ Alarm(c) \/ IssueTokens(c)
            \/ Logout(c) \/ ConsumeReads(c))
    BY <1>4 DEF RegisterReads, RegisterTaken, RegisterInserts, Forgot, PublishLink,
                RotateRefused, Alarm, IssueTokens, Logout, ConsumeReads, Steps
  <1>8. ~(ConsumeWrites(c) \/ VerifyEmail(c) \/ ChangeReads(c) \/ SetPassword(c)
            \/ SignOut(c) \/ AnnounceChange(c) \/ SetRole(c))
    BY <1>4 DEF ConsumeWrites, VerifyEmail, ChangeReads, SetPassword, SignOut,
                AnnounceChange, SetRole, Steps
  <1> QED
    BY <1>1, <1>2, <1>3, <1>5, <1>6, <1>7, <1>8 DEF HandlerStep

(* Nobody hands out or changes what is known of a role but a handler.      *)
LEMMA NextKnows ==
    ASSUME TypeOK, Books, Grows, RoleInv, Next
    PROVE  RoleInv'
  <1>1. ASSUME NEW c \in Slots, HandlerStep(c)
        PROVE  RoleInv'
    <2>1. ASSUME NEW i \in SessionIds, sessions'[i].exists
          PROVE  KnowsRole(sessions[i].roleNr, sessions[i].role, sessions[i].owner)'
      <3>1. CASE /\ sessions[i].exists /\ sessions'[i].role = sessions[i].role
                 /\ sessions'[i].roleNr = sessions[i].roleNr
        <4>1. sessions[i] \in Session
          BY <3>1, SessionShape
        <4>2. PICK e \in Emails : e = sessions[i].owner /\ e = sessions'[i].owner
          BY <3>1, SessionShape DEF Grows
        <4>3. accounts[e].exists
          BY <3>1, <4>2 DEF Books, RowsOwned
        <4>4. PICK nr \in Nat : nr = sessions[i].roleNr
          BY <4>1 DEF Session
        <4>5. PICK role \in Roles : role = sessions[i].role
          BY <4>1 DEF Session
        <4>6. KnowsRole(nr, role, e)
          BY <3>1, <4>2, <4>4, <4>5 DEF RoleInv
        <4>7. KnowsRole(nr, role, e)'
          BY <1>1, <4>3, <4>6, RoleMoves, KnowledgeStays
        <4> QED
          BY <3>1, <4>2, <4>4, <4>5, <4>7 DEF KnowsRole
      <3>2. CASE /\ IssueTokens(c) /\ sessions'[i].owner = Whom(c)
                 /\ sessions'[i].role = calls[c].role
                 /\ sessions'[i].roleNr = calls[c].roleNr
        <4>1. calls[c].step = "issue" /\ accounts' = accounts /\ roleNr' = roleNr
          BY <3>2 DEF IssueTokens, At
        <4>2. KnowsRole(calls[c].roleNr, calls[c].role, Whom(c))
          BY <4>1 DEF RoleInv
        <4> QED
          BY <3>2, <4>1, <4>2 DEF KnowsRole
      <3> QED
        BY <1>1, <2>1, <3>1, <3>2, ClaimsStay
    <2>2. ASSUME NEW d \in Slots, calls'[d].step \in {"revoke", "issue"}
          PROVE  KnowsRole(calls[d].roleNr, calls[d].role, Whom(d))'
      <3>1. CASE d = c
        BY <1>1, <2>2, <3>1, HandlerKnows
      <3>2. CASE d # c
        <4>1. calls'[d] = calls[d]
          BY <1>1, <3>2, OneSlot DEF Others
        <4>2. PICK e \in Emails : e = Whom(d) /\ accounts[e].exists
          BY <2>2, <4>1, KnownAccount
        <4>3. Whom(d)' = e
          BY <2>2, <4>1, <4>2, KnownAccount, WhomStays
        <4>4. PICK nr \in Nat : nr = calls[d].roleNr
          BY CallShape
        <4>5. PICK role \in Roles : role = calls[d].role
          BY CallShape
        <4>6. KnowsRole(nr, role, e)
          BY <2>2, <4>1, <4>2, <4>4, <4>5 DEF RoleInv
        <4>7. KnowsRole(nr, role, e)'
          BY <1>1, <4>2, <4>6, RoleMoves, KnowledgeStays
        <4> QED
          BY <4>1, <4>3, <4>4, <4>5, <4>7 DEF KnowsRole
      <3> QED
        BY <3>1, <3>2
    <2> QED
      BY <2>1, <2>2 DEF RoleInv
  <1>2. ASSUME UNCHANGED <<accounts, roleNr>>,
               \A i \in SessionIds : sessions'[i].exists =>
                   /\ sessions[i].exists /\ sessions'[i].role = sessions[i].role
                   /\ sessions'[i].roleNr = sessions[i].roleNr,
               \A d \in Slots : calls'[d] = calls[d]
                                  \/ calls'[d].step \in {"idle", "start"}
        PROVE  RoleInv'
    <2>1. ASSUME NEW i \in SessionIds, sessions'[i].exists
          PROVE  KnowsRole(sessions[i].roleNr, sessions[i].role, sessions[i].owner)'
      BY <1>2, <2>1 DEF RoleInv, Grows, KnowsRole
    <2>2. ASSUME NEW d \in Slots, calls'[d].step \in {"revoke", "issue"}
          PROVE  KnowsRole(calls[d].roleNr, calls[d].role, Whom(d))'
      <3>1. calls'[d] = calls[d]
        BY <1>2, <2>2
      <3>2. Whom(d)' = Whom(d)
        BY <2>2, <3>1, KnownAccount, WhomStays
      <3> QED
        BY <1>2, <2>2, <3>1, <3>2 DEF RoleInv, KnowsRole
    <2> QED
      BY <2>1, <2>2 DEF RoleInv
  <1>3. ASSUME NEW c \in Slots, Receive(c) \/ HandlerFails(c)
        PROVE  RoleInv'
    <2>1. UNCHANGED <<accounts, roleNr, sessions>> /\ Others(c)
      BY <1>3, OneSlot DEF Receive, HandlerFails, history
    <2>2. calls'[c].step \in {"idle", "start"}
      <3>1. CASE HandlerFails(c)
        BY <3>1, AnswerSet DEF HandlerFails, Idle
      <3>2. CASE Receive(c)
        BY <3>2 DEF Receive, TypeOK, Idle
      <3> QED
        BY <1>3, <3>1, <3>2
    <2> QED
      BY <1>2, <2>1, <2>2 DEF Others
  <1>4. CASE Crash
    <2>1. UNCHANGED <<accounts, roleNr, sessions>>
      BY <1>4 DEF Crash
    <2>2. \A d \in Slots : calls'[d].step \in {"idle", "start"}
      BY <1>4 DEF Crash, Idle
    <2> QED
      BY <1>2, <2>1, <2>2
  <1>5. ASSUME NEW i \in SessionIds, ExpireToken(i)
        PROVE  RoleInv'
    <2>1. UNCHANGED <<accounts, roleNr, calls>>
      BY <1>5 DEF ExpireToken, history
    <2>2. PICK age : sessions' = [sessions EXCEPT ![i].age = age]
      BY <1>5 DEF ExpireToken
    <2>3. sessions[i] \in Session /\ sessions[i].exists
      BY <1>5, SessionShape DEF ExpireToken
    <2>4. /\ sessions'[i] = [sessions[i] EXCEPT !.age = age]
          /\ \A j \in SessionIds \ {i} : sessions'[j] = sessions[j]
      BY <2>2 DEF TypeOK
    <2>5. /\ sessions'[i].role = sessions[i].role
          /\ sessions'[i].roleNr = sessions[i].roleNr
      BY <2>3, <2>4 DEF Session
    <2> QED
      BY <1>2, <2>1, <2>3, <2>4, <2>5
  <1>6. ASSUME NEW l \in LinkIds, ExpireLink(l)
        PROVE  RoleInv'
    <2>1. UNCHANGED <<accounts, roleNr, calls, sessions>>
      BY <1>6 DEF ExpireLink, history
    <2> QED
      BY <1>2, <2>1
  <1> QED
    BY <1>1, <1>3, <1>4, <1>5, <1>6 DEF Next

(* A token issued since the last change of its owner's role says the role  *)
(* the owner has.                                                          *)
THEOREM RolesReachTokens == Spec => []RoleReachesTokens
  <1>1. Init => RoleInv
    BY DEF Init, RoleInv, Idle, NoSession
  <1>2. TypeOK /\ Books /\ RoleInv /\ [Next]_vars => RoleInv'
    <2> SUFFICES ASSUME TypeOK, Books, RoleInv, [Next]_vars PROVE RoleInv'
      OBVIOUS
    <2>1. CASE UNCHANGED vars
      BY <2>1 DEF vars, history, RoleInv, KnowsRole, Whom, Of
    <2> QED
      BY <2>1, NextKeeps, NextKnows DEF Kept
  <1>3. RoleInv => RoleReachesTokens
    BY DEF RoleInv, KnowsRole, RoleReachesTokens
  <1> QED
    BY <1>1, <1>2, <1>3, AccountBooks, PTL DEF Spec

=============================================================================
