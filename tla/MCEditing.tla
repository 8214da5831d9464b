----------------------------- MODULE MCEditing ------------------------------
(* Small instances of EditingSession. *)
EXTENDS EditingProperties, TLC

CONSTANTS t1, t2, p1

MCTimes == {1, 2}
OneTime == {1}
TabSymmetry == Permutations(Tabs)
=============================================================================
