------------------------------- MODULE Gateway -------------------------------
(***************************************************************************)
(* The gateway in front of the auth service.  Its guards verify the        *)
(* signature of the bearer's access token and compare the role in its      *)
(* claims; they ask nobody whether the session still stands.               *)
(***************************************************************************)
EXTENDS Accounts

(* JwtAuthGuard: the token has not expired.  Whether its session was       *)
(* revoked, or its owner's role changed, does not enter.                   *)
CanActivate(i) == sessions[i].exists /\ sessions[i].age = "fresh"

(* RolesGuard: @Roles(UserRole.ADMIN) *)
HasRole(i, roles) == sessions[i].role \in roles

(* Requests that can be made: with a token or link that was handed out, to *)
(* a route the guards let the bearer through to.                           *)
Admitted(q) ==
    CASE q.op \in {"register", "login", "forgot"} -> TRUE
      [] q.op \in {"refresh", "logout"} -> sessions[q.session].exists
      [] q.op \in {"verify", "reset"}   -> q.link \in mailed
      [] q.op = "change"  -> CanActivate(q.bearer)
      [] q.op = "setRole" -> CanActivate(q.bearer) /\ HasRole(q.bearer, {"ADMIN"})

Receive(c) ==
    /\ calls[c].step = "idle"
    /\ requests < MaxRequests
    /\ requests' = requests + 1
    /\ \E q \in Requests :
          /\ Admitted(q)
          /\ calls' = [calls EXCEPT ![c] = [Idle EXCEPT !.req = q, !.step = "start"]]
    /\ UNCHANGED <<accounts, sessions, links, mailed, failures, history>>

(* No account yet, or one of any role from earlier. *)
Init ==
    /\ accounts \in [Emails -> {NoAccount} \cup
          {a \in Account : a.verified /\ a.password = CHOOSE p \in Passwords : TRUE}]
    /\ sessions = [i \in SessionIds |-> NoSession]
    /\ links = [l \in LinkIds |-> NoLink]
    /\ mailed = {}
    /\ calls = [c \in Slots |-> Idle]
    /\ requests = 0 /\ failures = 0
    /\ epoch = [e \in Emails |-> 0] /\ roleNr = [e \in Emails |-> 0]
    /\ rotations = [i \in SessionIds |-> 0]
    /\ effects = [l \in LinkIds |-> 0]
    /\ raced = {} /\ cut = {}

Next == \/ \E c \in Slots : Receive(c) \/ HandlerStep(c) \/ HandlerFails(c)
        \/ Crash
        \/ \E i \in SessionIds : ExpireToken(i)
        \/ \E l \in LinkIds : ExpireLink(l)

Spec == Init /\ [][Next]_vars
-----------------------------------------------------------------------------
(***************************************************************************)
(* Safety.                                                                 *)
(***************************************************************************)
Live(i) == sessions[i].exists /\ ~sessions[i].revoked

(* Every session that stands was issued since the last password change or  *)
(* reuse alarm of its owner, unless the handler that changed the password  *)
(* has yet to sign sessions out, or failed before it could.                *)
SignedOut ==
    \A i \in SessionIds : Live(i) =>
        LET e == sessions[i].owner IN
        \/ sessions[i].issued = epoch[e]
        \/ \E c \in Slots : calls[c].step = "sweep" /\ Whom(c) = e
        \/ <<"sweep", e>> \in cut

(* A refresh token is exchanged once, unless two handlers read it before   *)
(* either revoked it.                                                      *)
RotatedOnce ==
    \A i \in SessionIds : rotations[i] > 1 => <<"session", i>> \in raced

(* A one-time link does once what it is for, unless two handlers read it   *)
(* before either marked it.                                                *)
LinkWorksOnce ==
    \A l \in LinkIds : effects[l] > 1 => <<"link", l>> \in raced

(* A link that is used up has done what it is for, or its handler is about *)
(* to do it, unless that failed in between: then nobody can try again.     *)
UsedLinkWorks ==
    \A l \in LinkIds : links[l].exists /\ links[l].used =>
        \/ effects[l] > 0
        \/ <<"effect", l>> \in cut
        \/ \E c \in Slots : /\ calls[c].req.op \in {"verify", "reset"}
                            /\ calls[c].req.link = l
                            /\ calls[c].step \in {"verify", "password"}

(* Whoever has an account was mailed a link to verify the address, or is   *)
(* about to be, unless registering failed half way: it is refused from     *)
(* then on.                                                                *)
AccountGetsLink ==
    \A e \in Emails : accounts[e].exists /\ ~accounts[e].verified =>
        \/ \E l \in mailed : links[l].owner = e /\ links[l].type = "EMAIL_VERIFY"
        \/ \E c \in Slots : calls[c].req.op = "register" /\ Whom(c) = e
                              /\ calls[c].step \in {"link", "publish"}
        \/ <<"link", e>> \in cut

(* A token whose handler read the account after its last role change says  *)
(* the role it has: a change of role reaches every session with its next   *)
(* rotation.                                                               *)
RoleReachesTokens ==
    \A i \in SessionIds :
        sessions[i].exists /\ sessions[i].roleNr = roleNr[sessions[i].owner]
        => sessions[i].role = accounts[sessions[i].owner].role

(***************************************************************************)
(* What a comment in the source says of the service, and a run refutes.    *)
(***************************************************************************)

(* "Every session for that user is killed" when a revoked token is         *)
(* presented, "a password change signs out every existing session": when   *)
(* nothing is under way, no session goes on by a rotation that was read as *)
(* good before that.                                                       *)
AllSignedOut ==
    (\A c \in Slots : calls[c].step = "idle") =>
        \A i \in SessionIds :
            Live(i) /\ sessions[i].by = "refresh"
            => sessions[i].read = epoch[sessions[i].owner]
=============================================================================
