----------------------------- MODULE SavedWork ------------------------------
(* What editing promises about each project: there is one version the user   *)
(* last saved. Work in progress is durable too, but when an edit ends the    *)
(* current version is the saved one: either it is kept as it is, or the work *)
(* goes back to what was saved.                                              *)
CONSTANTS Projects, Versions, None

VARIABLES
    saved,    \* what the user last saved
    current,  \* what is on disk
    open      \* projects with an edit under way

vars == <<saved, current, open>>

Contents == Versions \cup {None}

Init ==
    /\ saved \in [Projects -> Contents]
    /\ current = saved
    /\ open = {}

Open(p) ==
    /\ p \notin open
    /\ open' = open \cup {p}
    /\ UNCHANGED <<saved, current>>

Work(p) ==
    /\ p \in open
    /\ \E v \in Versions : current' = [current EXCEPT ![p] = v]
    /\ UNCHANGED <<saved, open>>

Save(p) ==
    /\ p \in open
    /\ \E v \in Versions : /\ saved' = [saved EXCEPT ![p] = v]
                           /\ current' = [current EXCEPT ![p] = v]
    /\ UNCHANGED open

\* The edit ends with what it has saved and nothing else.
End(p) ==
    /\ p \in open
    /\ open' = open \ {p}
    /\ current' = [current EXCEPT ![p] = saved[p]]
    /\ UNCHANGED saved

Delete(ps) ==
    /\ saved' = [p \in Projects |-> IF p \in ps THEN None ELSE saved[p]]
    /\ current' = [p \in Projects |-> IF p \in ps THEN None ELSE current[p]]
    /\ open' = open \ ps

Next ==
    \/ \E p \in Projects : Open(p) \/ Work(p) \/ Save(p) \/ End(p)
    \/ \E ps \in SUBSET Projects : Delete(ps)

Spec == Init /\ [][Next]_vars
=============================================================================
