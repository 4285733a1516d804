---------------------- MODULE AttachedDatabaseAbstract ----------------------
(***************************************************************************)
(* What the attachment lifecycle promises, without the construction paths, *)
(* the catalog and storage steps or the exception handling: a database is  *)
(* opened once and closed once; while open it may hold one file path, which *)
(* no other database holds, and it gives the path up when it closes; the   *)
(* shutdown checkpoint is taken at most once, in the step that closes it.  *)
(***************************************************************************)
EXTENDS Naturals

CONSTANTS
  Dbs,     \* databases
  Paths,   \* file paths
  NoDb     \* the owner of a free path

ASSUME NoDb \notin Dbs

VARIABLES
  state,        \* state[d] \in {"unborn", "open", "closed"}
  owner,        \* owner[p]: the open database holding path p, or NoDb
  checkpoints   \* checkpoints[d]: shutdown checkpoints of d

vars == <<state, owner, checkpoints>>

Init ==
  /\ state = [d \in Dbs |-> "unborn"]
  /\ owner = [p \in Paths |-> NoDb]
  /\ checkpoints = [d \in Dbs |-> 0]

FreePaths == {p \in Paths : owner[p] = NoDb}

\* d opens, holding a free path or none.
Open(d) ==
  /\ state[d] = "unborn"
  /\ state' = [state EXCEPT ![d] = "open"]
  /\ \/ UNCHANGED owner
     \/ \E p \in FreePaths : owner' = [owner EXCEPT ![p] = d]
  /\ UNCHANGED checkpoints

\* d closes, gives up its path and is checkpointed at most once.
Shut(d) ==
  /\ state[d] = "open"
  /\ state' = [state EXCEPT ![d] = "closed"]
  /\ owner' = [p \in Paths |-> IF owner[p] = d THEN NoDb ELSE owner[p]]
  /\ checkpoints' \in {[checkpoints EXCEPT ![d] = n] : n \in {0, 1}}

Next == \E d \in Dbs : Open(d) \/ Shut(d)

Spec == Init /\ [][Next]_vars
=============================================================================
