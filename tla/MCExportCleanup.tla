-------------------------- MODULE MCExportCleanup --------------------------
(* Two tabs, of which one ends the edit of the project by exporting it.      *)
EXTENDS ExportCleanupProperties, TLC

CONSTANTS t1, t2

TabSymmetry == Permutations(Tabs)
=============================================================================
