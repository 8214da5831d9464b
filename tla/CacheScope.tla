----------------------------- MODULE CacheScope -----------------------------
(***************************************************************************)
(* What the job manager promises about the cache directory of an editing   *)
(* session, without jobs, queues, flags or timers.                         *)
(*                                                                         *)
(* Runners write into a scope and readers read from it.  Files appear only *)
(* while someone writes there.  A scope is taken away as a whole, only     *)
(* while nobody uses it, and nobody uses it until that is over.            *)
(***************************************************************************)
CONSTANTS Scopes, Files, Users

VARIABLES
    writing,    \* the users that may be writing into a scope
    reading,    \* the users that hold a read lease on a scope
    content,    \* the files of a scope
    detached    \* scopes being removed

vars == <<writing, reading, content, detached>>

Unused(s) == writing[s] = {} /\ reading[s] = {}

TypeOK ==
    /\ writing \in [Scopes -> SUBSET Users]
    /\ reading \in [Scopes -> SUBSET Users]
    /\ content \in [Scopes -> SUBSET Files]
    /\ detached \in SUBSET Scopes

Init ==
    /\ writing = [s \in Scopes |-> {}]
    /\ reading = [s \in Scopes |-> {}]
    /\ content \in [Scopes -> SUBSET Files]
    /\ detached = {}

\* Users come and go, but none enters a scope that is detached.
ComeAndGo ==
    /\ writing' \in [Scopes -> SUBSET Users]
    /\ reading' \in [Scopes -> SUBSET Users]
    /\ \A s \in detached : writing'[s] = {} /\ reading'[s] = {}
    /\ UNCHANGED <<content, detached>>

Write(s, f) ==
    /\ writing[s] # {}
    /\ content' = [content EXCEPT ![s] = @ \cup {f}]
    /\ UNCHANGED <<writing, reading, detached>>

RemoveOne(s, f) ==
    /\ content' = [content EXCEPT ![s] = @ \ {f}]
    /\ UNCHANGED <<writing, reading, detached>>

Detach(s) ==
    /\ s \notin detached /\ Unused(s)
    /\ content' = [content EXCEPT ![s] = {}]
    /\ detached' = detached \cup {s}
    /\ UNCHANGED <<writing, reading>>

Reattach(s) ==
    /\ s \in detached
    /\ detached' = detached \ {s}
    /\ UNCHANGED <<writing, reading, content>>

\* The process dies: its users are gone, the files stay.
Die ==
    /\ writing' = [s \in Scopes |-> {}]
    /\ reading' = [s \in Scopes |-> {}]
    /\ detached' = {}
    /\ UNCHANGED content

Next ==
    \/ ComeAndGo
    \/ \E s \in Scopes : Detach(s) \/ Reattach(s)
    \/ \E s \in Scopes, f \in Files : Write(s, f) \/ RemoveOne(s, f)
    \/ Die

Spec == Init /\ [][Next]_vars
=============================================================================
