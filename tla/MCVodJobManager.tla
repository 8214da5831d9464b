-------------------------- MODULE MCVodJobManager --------------------------
(* Small instances of the job manager for TLC. *)
EXTENDS VodJobProperties, TLC

\* Two requests of one editing session and one of another.
ThreeIds == {"a", "b", "z"}
ThreeOwners == [i \in ThreeIds |-> IF i = "z" THEN "c2" ELSE "c1"]
\* The other session's request resolves to a file of the first.
TwoFiles == {"a", "b"}
CollidingFile == [i \in ThreeIds |-> IF i = "z" THEN "a" ELSE i]
FileOwners == [f \in TwoFiles |-> "c1"]

\* Each request resolves to a file of its own.
OwnFile == [i \in ThreeIds |-> i]

\* Two requests of one session that differ only in their policy share a file.
TwoIds == {"a", "b"}
OneOwner == [i \in TwoIds |-> "c1"]
SharedFile == [i \in TwoIds |-> "a"]

OneScope == [f \in {"a"} |-> "c1"]

ObjectSymmetry == Permutations(Objs) \cup Permutations(Readers)
=============================================================================
