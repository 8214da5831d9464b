------------------------ MODULE RuntimeRecoveryProofs ------------------------
(* For every number of retries: one engine at a time, and none after the end. *)
EXTENDS RuntimeRecoveryProperties, TLAPS

USE DEF RecoveryInvariant, TypeOK, OneEngine, EndLeavesNoEngine, stopped

\* The engine runs, nothing is retired and no recovery is under way.
LEMMA InitInvariant == Init => RecoveryInvariant
<1>1. Init => TypeOK
  <2>1. Init => consecutiveFailures \in Nat
    BY DEF Init
  <2> QED
    BY <2>1, Zenon DEF Init
<1>2. Init => EndLeavesNoEngine
  BY Zenon DEF Init
<1> QED
  BY <1>1, <1>2 DEF Init

\* A failure reported while nothing is being restarted unpublishes the engine.
LEMMA ReportPreserves ==
    ASSUME RecoveryInvariant, ~stopped, ~circuitOpen, Report
    PROVE  RecoveryInvariant'
BY DEF Report, Quiesce

\* Ending the recovery, or going on with it after the engine is retired.
LEMMA TaskPreserves ==
    ASSUME RecoveryInvariant,
           \/ TaskEnds
           \/ /\ TaskGoesOn("waiting") \/ TaskGoesOn("restarting")
              /\ task # "none" /\ retirement = "none"
              /\ ~stopped /\ ~circuitOpen
    PROVE  RecoveryInvariant'
BY DEF TaskEnds, TaskGoesOn

\* Every step of the recovery preserves the invariant.
LEMMA RecoveryPreserves ==
    ASSUME RecoveryInvariant, RecoveryStep
    PROVE  RecoveryInvariant'
<1>1. CASE QuiesceFulfilled
  BY <1>1, TaskPreserves DEF QuiesceFulfilled
<1>2. CASE QuiesceRejected
  BY <1>2, TaskPreserves, ReportPreserves DEF QuiesceRejected, NextFailure
<1>3. CASE DelayEnds
  BY <1>3, TaskPreserves DEF DelayEnds
<1>4. CASE RestartSucceeds
  BY <1>4 DEF RestartSucceeds
<1>5. CASE RestartFails
  BY <1>5, TaskPreserves, ReportPreserves DEF RestartFails, NextFailure
<1>6. CASE CircuitCloses
  BY <1>6 DEF CircuitCloses, SettleTerminalOnce
<1> QED
  BY <1>1, <1>2, <1>3, <1>4, <1>5, <1>6 DEF RecoveryStep

\* So does every step of the gateway, of stop and of the clock.
LEMMA NextPreserves ==
    ASSUME RecoveryInvariant, [Next]_vars
    PROVE  RecoveryInvariant'
<1>1. CASE GatewayFails
  BY <1>1, ReportPreserves DEF GatewayFails
<1>2. CASE \E outcome \in {"none", "rejected"} : RetirementSettles(outcome)
  BY <1>2 DEF RetirementSettles
<1>3. CASE RecoveryStep
  BY <1>3, RecoveryPreserves
<1>4. CASE Stop
  BY <1>4 DEF Stop
<1>5. CASE StopStep
  BY <1>5 DEF StopStep, StopQuiesces, StopEnds, Quiesce, SettleTerminalOnce
<1>6. CASE StableResetPasses
  BY <1>6 DEF StableResetPasses
<1>7. CASE UNCHANGED vars
  BY <1>7 DEF vars
<1> QED
  BY <1>1, <1>2, <1>3, <1>4, <1>5, <1>6, <1>7 DEF Next

\* The invariant of the recovery holds in every reachable state.
THEOREM RecoveryInvariantHolds == Spec => []RecoveryInvariant
<1> USE DEF RecoveryInvariant
<1> QED
  BY InitInvariant, NextPreserves, PTL DEF Spec

\* The handlers of two engines never share the cache and the port, whatever
\* fails, in restarting as in retiring.
THEOREM OneEngineAtATime == Spec => []OneEngine
<1>1. RecoveryInvariant => OneEngine
  OBVIOUS
<1> QED
  BY RecoveryInvariantHolds, <1>1, PTL

\* Once the circuit is open, or stop has got past the recovery it waited for,
\* no engine runs and none will be started.
THEOREM NoEngineAfterTheEnd == Spec => []EndLeavesNoEngine
<1>1. RecoveryInvariant => EndLeavesNoEngine
  OBVIOUS
<1> QED
  BY RecoveryInvariantHolds, <1>1, PTL

\* restartGateway's own check never fails: a restart comes after a retirement
\* that has succeeded.
THEOREM RestartsAreAdmitted == Spec => []RestartIsAdmitted
<1>1. RecoveryInvariant => RestartIsAdmitted
  BY DEF RestartIsAdmitted
<1> QED
  BY RecoveryInvariantHolds, <1>1, PTL
=============================================================================
