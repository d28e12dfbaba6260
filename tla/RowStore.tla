------------------------------ MODULE RowStore ------------------------------
(***************************************************************************)
(* What a signal sub-partition promises about the rows on disk, with no    *)
(* files, tasks or crashes in it.  Rows enter in the groups a flush writes *)
(* and stay.  The one way out is damage: a row that could not be read when *)
(* its file was merged may be dropped afterwards.                          *)
(***************************************************************************)
CONSTANT Row

VARIABLES
  stored,   \* rows a restart finds
  damaged   \* rows that a compaction failed to read

vars == <<stored, damaged>>

Init == stored = {} /\ damaged = {}

\* A flush completes: all of its rows at once, each of them for the first time.
Persist(R) ==
  /\ R \cap stored = {}
  /\ stored' = stored \cup R
  /\ UNCHANGED damaged

\* A read error during compaction.
Damage(R) ==
  /\ R \subseteq stored
  /\ damaged' = damaged \cup R
  /\ UNCHANGED stored

\* The files that held damaged rows are removed.
Drop(R) ==
  /\ R \subseteq damaged
  /\ stored' = stored \ R
  /\ UNCHANGED damaged

Next == \E R \in SUBSET Row : Persist(R) \/ Damage(R) \/ Drop(R)

Spec == Init /\ [][Next]_vars
=============================================================================
