------------------------- MODULE MCAttachedDatabase -------------------------
(* Model-checking instance of AttachedDatabase: two object slots (model  *)
(* values, symmetric), one file path (so a path can be released and        *)
(* re-attached by another object), one allowed and one unknown option key. *)
EXTENDS AttachedDatabase, TLC

CONSTANTS d1, d2, NoDb

MCDbs == {d1, d2}
MCPaths == {"p1"}
MCOptionKeys == {"block_size", "unknown_key"}
MCNativeOptions == {"block_size"}

DbSymmetry == Permutations(MCDbs)

(* Refinement mapping onto AttachedDatabaseAbstract: an object is open    *)
(* from its constructor until its first Close, the owner of a path is the *)
(* open object the registry holds it for, and the shutdown checkpoints are the  *)
(* CreateCheckpoint calls of Close.                                        *)
AbsState ==
  [d \in MCDbs |-> IF db[d].life = "unborn" THEN "unborn"
                  ELSE IF db[d].closed THEN "closed" ELSE "open"]
\* The objects registered under p, the open one first.
RegisteredUnder(p) == {d \in MCDbs : db[d].registered /\ db[d].path = p}
AbsOwner ==
  [p \in MCPaths |->
     IF p \notin registry \/ RegisteredUnder(p) = {} THEN NoDb
     ELSE IF RegisteredUnder(p) \cap PathOwners # {}
          THEN CHOOSE d \in RegisteredUnder(p) \cap PathOwners : TRUE
          ELSE CHOOSE d \in RegisteredUnder(p) : TRUE]

Abs == INSTANCE AttachedDatabaseAbstract
         WITH Dbs <- MCDbs, Paths <- MCPaths, state <- AbsState,
              owner <- AbsOwner, checkpoints <- ckpt

(* The lifecycle implements the abstract one: every step of the code is  *)
(* an Open, a Shut or a stutter of it.  Close's first call releases the   *)
(* path and checkpoints at most once (lines 239-266); constructors take   *)
(* only a free path; nothing reopens a closed database.                    *)
AbsSpec == Abs!Spec
=============================================================================
