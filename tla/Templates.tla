------------------------------ MODULE Templates ------------------------------
(***************************************************************************)
(* TemplatesService: the wording of messages.  An organiser edits the      *)
(* stored template of a key and channel; the delivery worker renders from  *)
(* it, or from the default in the code, through a cache of compiled        *)
(* templates that is keyed by the template key alone.                      *)
(*                                                                         *)
(* Subject and body are cached and forgotten together: one entry per key.  *)
(* Only the locale 'en' is ever rendered, so there is one.                 *)
(***************************************************************************)
EXTENDS Integers, FiniteSets

CONSTANTS
    Keys,        \* template keys
    Channels,    \* delivery channels, "EMAIL" among them
    Contents,    \* wordings
    Missing,     \* no wording: no active stored template, no default, not compiled
    Defaults     \* DEFAULT_TEMPLATES: a wording for some of the keys

ASSUME ContentsAssumption == Missing \notin Contents
ASSUME ChannelsAssumption == "EMAIL" \in Channels
ASSUME DefaultsAssumption == Defaults \in [Keys -> Contents \cup {Missing}]

VARIABLES
    stored,      \* the active stored template of a key and channel
    compiled,    \* the compiled copy of each key
    strayed      \* history: keys whose copy comes from another channel than
                 \* EMAIL, or from a read that an edit overtook

wording == <<stored, compiled, strayed>>

TemplatesTypeOK ==
    /\ stored \in [Keys \X Channels -> Contents \cup {Missing}]
    /\ compiled \in [Keys -> Contents \cup {Missing}]
    /\ strayed \subseteq Keys

TemplatesInit ==
    /\ stored = [k \in Keys \X Channels |-> Missing]
    /\ compiled = [k \in Keys |-> Missing]
    /\ strayed = {}

(* render reads the stored template, and falls back on the default; with   *)
(* neither it fails: TEMPLATE_NOT_FOUND                                    *)
Source(key, channel) ==
    IF stored[<<key, channel>>] # Missing THEN stored[<<key, channel>>]
                                      ELSE Defaults[key]

(* ... then compiles what it read, unless there is a copy already.  What   *)
(* it read may be the wording of another channel, or one that an edit has  *)
(* overtaken since.                                                        *)
Compiled(key, source) ==
    IF compiled[key] # Missing THEN compiled[key] ELSE source

Compile(key, channel, source, overtaken) ==
    /\ compiled' = [compiled EXCEPT ![key] = Compiled(key, source)]
    /\ strayed' = IF compiled[key] = Missing
                     /\ (channel # "EMAIL" \/ overtaken)
                  THEN strayed \cup {key} ELSE strayed
    /\ UNCHANGED stored

(* upsert writes the row first; an inactive template counts for nothing ...*)
StoreTemplate(key, channel, content) ==
    /\ stored' = [stored EXCEPT ![<<key, channel>>] = content]
    /\ UNCHANGED <<compiled, strayed>>

(* ... and then forgets the compiled copy                                  *)
Forget_Keeps(key) == UNCHANGED wording
Forget(key) ==
    /\ compiled' = [compiled EXCEPT ![key] = Missing]
    /\ strayed' = strayed \ {key}
    /\ UNCHANGED stored

(* the copies live in the process *)
ForgetAll ==
    /\ compiled' = [k \in Keys |-> Missing]
    /\ strayed' = {}
    /\ UNCHANGED stored
=============================================================================
