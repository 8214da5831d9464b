---------------------- MODULE RuntimeRecoveryProperties ----------------------
(* What the recovery of the local engine must guarantee.                      *)
EXTENDS RuntimeRecovery

\* Every variable stays within its type.
TypeOK ==
    /\ gateway \in {"up", "none"}
    /\ retirement \in {"none", "pending", "rejected"}
    /\ task \in {"none", "quiescing", "waiting", "restarting", "closing"}
    /\ consecutiveFailures \in Nat
    /\ stable \in BOOLEAN
    /\ circuitOpen \in BOOLEAN
    /\ stopping \in {"no", "awaiting", "quiescing", "done"}
    /\ terminal \in {"pending", "failure", "null"}

\* No engine is published while the handlers of an earlier one may still use
\* the same cache and port, also when its retirement was rejected.
OneEngine == retirement # "none" => gateway = "none"

\* An open circuit and a finished stop leave no engine behind, nor a recovery
\* that could still start one.
EndLeavesNoEngine ==
    circuitOpen \/ stopping \in {"quiescing", "done"} =>
        gateway = "none" /\ task \notin {"quiescing", "waiting", "restarting"}

\* The controller never asks for a restart that restartGateway would refuse.
RestartIsAdmitted == task = "restarting" => gateway = "none" /\ retirement = "none"

\* The inductive invariant: a recovery has unpublished the engine, and goes on
\* only once it is retired; the circuit is closed and stop has not got past it.
RecoveryInvariant ==
    /\ TypeOK
    /\ OneEngine
    /\ EndLeavesNoEngine
    /\ task # "none" => gateway = "none"
    /\ task \in {"waiting", "restarting"} => retirement = "none"
    /\ stopping \in {"quiescing", "done"} => task = "none"

-----------------------------------------------------------------------------
\* shutdown has a deadline, the backoff a timer, and listening answers; the
\* gateway need not fail, the user need not quit, but main ends the process
\* once terminalFailure is told.
Fairness ==
    /\ WF_vars(\E outcome \in {"none", "rejected"} : RetirementSettles(outcome))
    /\ WF_vars(RecoveryStep)
    /\ WF_vars(StopStep)
    /\ WF_vars(terminal = "failure" /\ Stop)
    /\ WF_vars(StableResetPasses)

FairSpec == Spec /\ Fairness

\* A failure that persists does not lead to an unbounded restart loop: if no
\* gateway serves any more, the circuit opens or the process is told to stop.
PersistentFailureEnds ==
    <>[](gateway # "up") => <>(circuitOpen \/ stopped)

=============================================================================
