--------------------------- MODULE RuntimeRecovery ---------------------------
(***************************************************************************)
(* The desktop shell keeps one local engine ("gateway") alive in its own    *)
(* process: createDesktopRuntimeRecoveryController decides when it is       *)
(* retired and restarted, startDesktopRuntime owns the instance, and main   *)
(* ends the process when the controller gives up.                           *)
(*                                                                          *)
(* Promise continuations that follow one another without waiting for the    *)
(* outside are one step.  Time is kept only as far as the code asks: whether *)
(* stableResetMs have passed since healthySince.                            *)
(***************************************************************************)
EXTENDS Naturals

CONSTANT Retries    \* restartDelaysMs.length

VARIABLES
    gateway,              \* currentGateway: "up", or "none" for null
    retirement,           \* retiringGateway: "none", "pending" or "rejected"
    task,                 \* recoveryTask: "none" or what it awaits
    consecutiveFailures,
    stable,               \* stableResetMs have passed since healthySince
    circuitOpen,
    stopping,             \* stop(): "no", "awaiting" the task, "quiescing", "done"
    terminal              \* terminalFailure: "pending", "failure" or "null"

vars == <<gateway, retirement, task, consecutiveFailures, stable, circuitOpen,
          stopping, terminal>>

stopped == stopping # "no"

Init ==
    /\ gateway = "up"
    /\ retirement = "none"
    /\ task = "none"
    /\ consecutiveFailures = 0
    /\ stable = FALSE
    /\ circuitOpen = FALSE
    /\ stopping = "no"
    /\ terminal = "pending"

\* quiesceGateway: the instance is unpublished and its monitor detached at
\* once, and its shutdown awaited; a retirement that is pending, or was
\* rejected, is the answer to every later call.
Quiesce ==
    /\ gateway' = "none"
    /\ retirement' = IF retirement = "none" /\ gateway = "up" THEN "pending"
                                                              ELSE retirement

\* reportFailure, up to the first await of the recovery, or of openCircuit.
Report ==
    LET failures == IF stable THEN 1 ELSE consecutiveFailures + 1 IN
    /\ consecutiveFailures' = failures
    /\ circuitOpen' = (failures > Retries)
    /\ task' = IF failures > Retries THEN "closing" ELSE "quiescing"
    /\ Quiesce
    /\ UNCHANGED <<stable, stopping, terminal>>

\* The server emits error, or closes by itself; reports that come while a
\* recovery runs, or after the end, are ignored.
GatewayFails ==
    /\ gateway = "up"
    /\ task = "none" /\ ~circuitOpen /\ ~stopped
    /\ Report

\* shutdown() of the retired instance settles; it rejects when a job or a
\* handler outlasts the deadline.
RetirementSettles(outcome) ==
    /\ retirement = "pending"
    /\ retirement' = outcome
    /\ UNCHANGED <<gateway, task, consecutiveFailures, stable, circuitOpen,
                   stopping, terminal>>

\* The recovery ends without an error, or its nextFailure is dropped.
TaskEnds ==
    /\ task' = "none"
    /\ UNCHANGED <<gateway, retirement, consecutiveFailures, stable,
                   circuitOpen, stopping, terminal>>

\* The recovery ends with an error, which is the next failure reported.
NextFailure == IF stopped \/ circuitOpen THEN TaskEnds ELSE Report

TaskGoesOn(next) ==
    /\ task' = next
    /\ UNCHANGED <<gateway, retirement, consecutiveFailures, stable,
                   circuitOpen, stopping, terminal>>

QuiesceFulfilled ==
    /\ task = "quiescing" /\ retirement = "none"
    /\ IF stopped \/ circuitOpen THEN TaskEnds ELSE TaskGoesOn("waiting")

QuiesceRejected ==
    /\ task = "quiescing" /\ retirement = "rejected"
    /\ NextFailure

\* The backoff timer fires, or stop cancels the delay.
DelayEnds ==
    /\ task = "waiting"
    /\ IF stopped \/ circuitOpen THEN TaskEnds ELSE TaskGoesOn("restarting")

\* startGateway listens and the instance is published; a stop that came
\* meanwhile is still waiting for this task.
RestartSucceeds ==
    /\ task = "restarting"
    /\ gateway = "none" /\ retirement = "none"
    /\ gateway' = "up"
    /\ stable' = FALSE
    /\ task' = "none"
    /\ UNCHANGED <<retirement, consecutiveFailures, circuitOpen, stopping,
                   terminal>>

\* The port is taken or the candidate does not become ready; it is shut down.
RestartFails ==
    /\ task = "restarting"
    /\ NextFailure

SettleTerminalOnce(value) ==
    terminal' = IF terminal = "pending" THEN value ELSE terminal

\* openCircuit has retired the last instance, or failed to.
CircuitCloses ==
    /\ task = "closing" /\ retirement # "pending"
    /\ task' = "none"
    /\ SettleTerminalOnce("failure")
    /\ UNCHANGED <<gateway, retirement, consecutiveFailures, stable,
                   circuitOpen, stopping>>

\* requestTermination: the user quits, a signal comes, an update is installed,
\* or terminalFailure has told main that the circuit is open.
Stop ==
    /\ ~stopped
    /\ stopping' = "awaiting"
    /\ UNCHANGED <<gateway, retirement, task, consecutiveFailures, stable,
                   circuitOpen, terminal>>

StopQuiesces ==
    /\ stopping = "awaiting" /\ task = "none"
    /\ stopping' = "quiescing"
    /\ Quiesce
    /\ UNCHANGED <<task, consecutiveFailures, stable, circuitOpen, terminal>>

\* The process exits, whether or not the last retirement was rejected.
StopEnds ==
    /\ stopping = "quiescing" /\ retirement # "pending"
    /\ stopping' = "done"
    /\ SettleTerminalOnce("null")
    /\ UNCHANGED <<gateway, retirement, task, consecutiveFailures, stable,
                   circuitOpen>>

\* The clock passes healthySince + stableResetMs, whatever the gateway does.
StableResetPasses ==
    /\ ~stable
    /\ stable' = TRUE
    /\ UNCHANGED <<gateway, retirement, task, consecutiveFailures, circuitOpen,
                   stopping, terminal>>

RecoveryStep ==
    \/ QuiesceFulfilled \/ QuiesceRejected \/ DelayEnds
    \/ RestartSucceeds \/ RestartFails \/ CircuitCloses

StopStep == StopQuiesces \/ StopEnds

Next ==
    \/ GatewayFails
    \/ \E outcome \in {"none", "rejected"} : RetirementSettles(outcome)
    \/ RecoveryStep
    \/ Stop
    \/ StopStep
    \/ StableResetPasses

Spec == Init /\ [][Next]_vars
==============================================================================
