------------------------------- MODULE Mailbox -------------------------------
(***************************************************************************)
(* What the notification service promises to whoever publishes a fact:     *)
(* each recipient gets an entry, or has opted out, before the fact counts  *)
(* as handled, and an entry once made stays.  Only a fact dropped with an  *)
(* error leaves recipients out.                                            *)
(***************************************************************************)
CONSTANTS Facts, Users

Entries == {r \in Facts \X Users : r[2] \in r[1].to}

VARIABLES
    phase,    \* of each fact: "unsent", "published", "handled", "dropped"
    entry     \* of each recipient of a fact: "none", "skipped", "written"

mailbox == <<phase, entry>>

Init == /\ phase = [f \in Facts |-> "unsent"]
        /\ entry = [r \in Entries |-> "none"]

Publish(f) ==
    /\ phase[f] = "unsent"
    /\ phase' = [phase EXCEPT ![f] = "published"]
    /\ UNCHANGED entry

(* a recipient is written to, possibly after an opt-out was taken back and *)
(* the fact delivered again                                                *)
Write(r) ==
    /\ phase[r[1]] = "published"
    /\ entry[r] # "written"
    /\ entry' = [entry EXCEPT ![r] = "written"]
    /\ UNCHANGED phase

Skip(r) ==
    /\ phase[r[1]] = "published"
    /\ entry[r] = "none"
    /\ entry' = [entry EXCEPT ![r] = "skipped"]
    /\ UNCHANGED phase

Handle(f) ==
    /\ phase[f] = "published"
    /\ \A r \in Entries : r[1] = f => entry[r] # "none"
    /\ phase' = [phase EXCEPT ![f] = "handled"]
    /\ UNCHANGED entry

Drop(f) ==
    /\ phase[f] = "published"
    /\ phase' = [phase EXCEPT ![f] = "dropped"]
    /\ UNCHANGED entry

Next == \/ \E f \in Facts : Publish(f) \/ Handle(f) \/ Drop(f)
        \/ \E r \in Entries : Write(r) \/ Skip(r)

Spec == Init /\ [][Next]_mailbox
=============================================================================
