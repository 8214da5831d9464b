--------------------------- MODULE ExclusiveLease ---------------------------
(* What the job lease of a materialization promises: a holder whose process  *)
(* runs keeps the lease for the whole window since its last beat. Only a     *)
(* lease that is free, expired or left by a dead process changes hands.      *)
EXTENDS Integers

CONSTANTS Jobs, None, Window

VARIABLES
    holder,  \* the job the lease names
    beat,    \* when it last renewed it
    now,     \* the boot clock
    alive    \* the jobs whose process has not died

vars == <<holder, beat, now, alive>>

Held ==
    /\ holder \in alive
    /\ beat <= now /\ now - beat <= Window

Init == holder = None /\ beat = 0 /\ now = 0 /\ alive = Jobs

Take(j) ==
    /\ ~Held /\ j \in alive
    /\ holder' = j /\ beat' \in 0..now
    /\ UNCHANGED <<now, alive>>

Renew ==
    /\ holder \in alive
    /\ beat' \in beat..now
    /\ UNCHANGED <<holder, now, alive>>

Release(j) ==
    /\ holder = j /\ j \in alive
    /\ holder' = None /\ beat' = 0 /\ UNCHANGED <<now, alive>>

Pass == now' = now + 1 /\ UNCHANGED <<holder, beat, alive>>

Die == alive' \in SUBSET alive /\ UNCHANGED <<holder, beat, now>>

\* The clock starts again, nobody who held the lease survives, and renewals
\* that had not reached the disk are lost.
Reboot ==
    /\ now' = 0 /\ alive' \in SUBSET (alive \ {holder})
    /\ beat' \in 0..beat /\ UNCHANGED holder

Next ==
    \/ \E j \in Jobs : Take(j) \/ Release(j)
    \/ Renew \/ Pass \/ Die \/ Reboot

Spec == Init /\ [][Next]_vars
=============================================================================
