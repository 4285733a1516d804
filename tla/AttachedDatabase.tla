-------------------------- MODULE AttachedDatabase --------------------------
(***************************************************************************)
(* The lifecycle of AttachedDatabase objects (src/main/attached_database.cpp)*)
(* inside one database instance.                                           *)
(*                                                                         *)
(* Each element of Dbs is one AttachedDatabase object slot.  An object is  *)
(* built by one of the three constructors, initialized, finalized, may be  *)
(* detached, and is closed explicitly and/or by its destructor.  The       *)
(* environment is the DatabaseManager (not under src/, modelled from the   *)
(* spec): it keeps the set of file paths in use (EraseDatabasePath is the  *)
(* only registry call the code makes), the set of serving databases, and   *)
(* the session's exception state, which Close reads through                *)
(* Exception::UncaughtException().                                         *)
(***************************************************************************)
EXTENDS Naturals, FiniteSets

CONSTANTS
  Dbs,            \* AttachedDatabase object slots
  Paths,          \* file paths a database can be attached from
  MemPath,        \* IN_MEMORY_PATH
  NoPath,         \* no path (object not yet built)
  OptionKeys,     \* option keys left in AttachOptions::options
  NativeOptions,  \* the allow-list of the native constructor
  CallCap,        \* counters of storage calls saturate at this value
  CatalogThrows   \* an extension catalog's InMemory()/GetDBPath() may throw

ASSUME MemPath \notin Paths /\ NoPath \notin Paths \cup {MemPath}
ASSUME NativeOptions \subseteq OptionKeys
ASSUME CallCap \in Nat /\ CallCap >= 2
ASSUME CatalogThrows \in BOOLEAN

VARIABLES
  db,         \* db[d]: the fields of AttachedDatabase object d
  attached,   \* DatabaseManager: databases that serve queries
  registry,   \* DatabaseManager: paths of attached files
  uncaught,   \* an exception is propagating through the session
  ckpt,       \* ckpt[d]: StorageManager::CreateCheckpoint calls by d
  flushed,    \* flushed[d]: Allocator::FlushAll calls by d's Close
  config,     \* checkpoint_on_shutdown and Allocator::SupportsFlush()
  terminated  \* std::terminate was called: the process is gone

vars == <<db, attached, registry, uncaught, ckpt, flushed, config, terminated>>

DbTypes == {"SYSTEM", "TEMP", "READ_ONLY", "READ_WRITE"}
AccessModes == {"READ_ONLY", "READ_WRITE"}

DbRecord ==
  [life: {"unborn", "live", "gone"},
   type: DbTypes \cup {"NONE"},
   catalog: {"none", "duck", "ext"},   \* DuckCatalog or an extension's
   catMem: BOOLEAN,                    \* an extension catalog's InMemory()
   storage: {"none", "mem", "file"},   \* no storage, or its InMemory()
   stoReadOnly: BOOLEAN,               \* storage opened read-only
   path: Paths \cup {MemPath, NoPath},
   catState: {"new", "init", "loaded", "detached"},
   stoState: {"none", "new", "init", "failed"},
   closed: BOOLEAN,                    \* is_closed
   closedUnwinding: BOOLEAN,           \* history: uncaught when closed
   initial: BOOLEAN,                   \* is_initial_database
   parent: BOOLEAN,                    \* parent_catalog set
   extension: BOOLEAN,                 \* storage_extension set
   registered: BOOLEAN]                \* its path was put in registry

Unborn ==
  [life |-> "unborn", type |-> "NONE", catalog |-> "none", catMem |-> FALSE,
   storage |-> "none", stoReadOnly |-> FALSE, path |-> NoPath,
   catState |-> "new", stoState |-> "none", closed |-> FALSE,
   closedUnwinding |-> FALSE, initial |-> FALSE, parent |-> FALSE,
   extension |-> FALSE, registered |-> FALSE]

Capped(n) == IF n > CallCap THEN CallCap ELSE n

(***************************************************************************)
(* Helpers of the code and of its collaborators.                           *)
(***************************************************************************)

\* IsSystem(): type == SYSTEM_DATABASE.
IsSystem(x) == x.type = "SYSTEM"

\* SingleFileStorageManager: in memory iff its path is IN_MEMORY_PATH.
StorageOver(p) == IF p = MemPath THEN "mem" ELSE "file"

\* Catalog::InMemory(): a DuckCatalog asks its storage; an extension
\* catalog answers for itself.
CatalogInMemory(x) ==
  IF x.catalog = "duck" THEN x.storage # "file" ELSE x.catMem

\* The native constructor's loop: every key CIEquals an allowed one.
NativeOptionsValid(keys) == keys \subseteq NativeOptions

\* Close, line 244: deregister the path unless system or in memory.
ErasesPath(x) == ~IsSystem(x) /\ ~CatalogInMemory(x)

\* Mutant: Close without the is_closed guard.
AlreadyClosedNoGuard(x) == FALSE

\* Close, line 239: the idempotence guard.
AlreadyClosed(x) == x.closed

\* Mutant: the unwinding check of line 248 moved before the erase.
RegistryAfterCloseUnwindFirst(x) ==
  IF ErasesPath(x) /\ ~uncaught THEN registry \ {x.path} ELSE registry

\* Close, lines 244-253: the registry after the erase; the erase comes
\* before the unwinding check, so it also happens during an unwind.
RegistryAfterClose(x) ==
  IF ErasesPath(x) THEN registry \ {x.path} ELSE registry

\* Close, lines 248-253: the storage steps are reached only when no
\* exception is propagating and the database has storage.
ReachesStorageSteps(x) == ~uncaught /\ x.storage # "none"

\* Close, lines 258-265: checkpoint a file-backed storage when
\* checkpoint_on_shutdown is set.
Checkpoints(x) ==
  /\ ReachesStorageSteps(x)
  /\ x.storage = "file"
  /\ config.checkpoint_on_shutdown

\* Close, lines 258-271: the flush, skipped by the early return at line
\* 261 (a file-backed storage with checkpoint_on_shutdown off).
Flushes(x) ==
  /\ ReachesStorageSteps(x)
  /\ ~(x.storage = "file" /\ ~config.checkpoint_on_shutdown)
  /\ config.supports_flush

\* Close, lines 244-246: the calls into an extension catalog run outside
\* the try block, after is_closed was set.
EraseThrows(x) == CatalogThrows /\ ~IsSystem(x) /\ x.catalog = "ext"

\* Mutant: the catch (...) of line 267 dropped.
CheckpointEscapes(fails) == uncaught \/ fails

\* Close, lines 257-268: an exception of CreateCheckpoint is swallowed.
AfterCheckpoint(fails) == uncaught

(***************************************************************************)
(* Close() on object d, leaving its life as 'life' (the destructor also    *)
(* ends the object).  Either the erase step throws out of Close, or Close  *)
(* runs on, and a checkpoint it attempts may throw.  An exception leaving  *)
(* the destructor, which is noexcept, calls std::terminate.                *)
(***************************************************************************)
CloseBody(d, life) ==
  LET x == db[d] IN
  IF AlreadyClosed(x)
  THEN /\ db' = [db EXCEPT ![d].life = life]
       /\ UNCHANGED <<registry, ckpt, flushed, uncaught, terminated>>
  ELSE /\ db' = [db EXCEPT ![d].life = life, ![d].closed = TRUE,
                           ![d].closedUnwinding = uncaught]
       /\ \/ /\ EraseThrows(x)
             /\ IF life = "gone"
                THEN terminated' = TRUE /\ UNCHANGED uncaught
                ELSE uncaught' = TRUE /\ UNCHANGED terminated
             /\ UNCHANGED <<registry, ckpt, flushed>>
          \/ /\ registry' = RegistryAfterClose(x)
             /\ \E fails \in BOOLEAN :
                  /\ fails => Checkpoints(x)
                  /\ uncaught' = AfterCheckpoint(fails)
             /\ ckpt' = IF Checkpoints(x)
                        THEN [ckpt EXCEPT ![d] = Capped(@ + 1)] ELSE ckpt
             /\ flushed' = IF Flushes(x)
                           THEN [flushed EXCEPT ![d] = Capped(@ + 1)]
                           ELSE flushed
             /\ UNCHANGED terminated

(***************************************************************************)
(* Constructors.  A constructor that throws leaves no object: C++ runs no  *)
(* destructor, so Close is never called for it.                            *)
(***************************************************************************)

\* AttachedDatabase(db, type): the system or temp database.
AttachedDatabaseInternal(d, t) ==
  /\ ~uncaught
  /\ db[d].life = "unborn"
  /\ db' = [db EXCEPT ![d] =
              [Unborn EXCEPT !.life = "live", !.type = t, !.catalog = "duck",
                 !.storage = IF t = "TEMP" THEN "mem" ELSE "none",
                 !.stoState = IF t = "TEMP" THEN "new" ELSE "none",
                 !.path = MemPath]]
  /\ UNCHANGED <<attached, registry, uncaught, ckpt, flushed, config, terminated>>

\* The DatabaseManager refuses a path already in its registry before
\* anything is built.
PathFree(p) == p \notin registry

\* Mutant: the in-memory path is recorded too.
RegistryAfterAttachAnyPath(x) ==
  IF ~CatalogInMemory(x) THEN registry \cup {x.path} ELSE registry

\* The DatabaseManager records the file path of a database whose catalog
\* is not in memory.
Registers(x) == ~CatalogInMemory(x) /\ x.path \in Paths
Register(x) == [x EXCEPT !.registered = Registers(x)]
RegistryAfterAttach(x) ==
  IF Registers(x) THEN registry \cup {x.path} ELSE registry

\* AttachedDatabase(db, catalog, name, path, options): a key outside the
\* allow-list throws a BinderException.
AttachNativeRejected(d, p, keys) ==
  /\ ~uncaught
  /\ db[d].life = "unborn"
  /\ PathFree(p)
  /\ ~NativeOptionsValid(keys)
  /\ uncaught' = TRUE
  /\ UNCHANGED <<db, attached, registry, ckpt, flushed, config, terminated>>

AttachedDatabaseNative(d, p, mode, keys) ==
  /\ ~uncaught
  /\ db[d].life = "unborn"
  /\ PathFree(p)
  /\ NativeOptionsValid(keys)
  /\ LET x == [Unborn EXCEPT !.life = "live", !.type = mode,
                 !.catalog = "duck", !.storage = StorageOver(p),
                 !.stoReadOnly = (mode = "READ_ONLY"), !.stoState = "new",
                 !.path = p, !.parent = TRUE]
     IN /\ db' = [db EXCEPT ![d] = Register(x)]
        /\ registry' = RegistryAfterAttach(x)
  /\ UNCHANGED <<attached, uncaught, ckpt, flushed, config, terminated>>

\* AttachedDatabase(db, catalog, storage_extension, context, name, info,
\* options): attach returns no catalog, or create_transaction_manager
\* returns no transaction manager; both throw an InternalException.
AttachExtensionFails(d, p) ==
  /\ ~uncaught
  /\ db[d].life = "unborn"
  /\ PathFree(p)
  /\ uncaught' = TRUE
  /\ UNCHANGED <<db, attached, registry, ckpt, flushed, config, terminated>>

\* The extension returns catalog 'cat' (in memory or not when it is its
\* own); a DuckCatalog gets a SingleFileStorageManager over info.path.
AttachedDatabaseExtension(d, p, mode, cat, mem) ==
  /\ ~uncaught
  /\ db[d].life = "unborn"
  /\ PathFree(p)
  /\ LET x == [Unborn EXCEPT !.life = "live", !.type = mode,
                 !.catalog = cat, !.catMem = (cat = "ext" /\ mem),
                 !.storage = IF cat = "duck" THEN StorageOver(p) ELSE "none",
                 !.stoReadOnly = (cat = "duck" /\ mode = "READ_ONLY"),
                 !.stoState = IF cat = "duck" THEN "new" ELSE "none",
                 !.path = p, !.parent = TRUE, !.extension = TRUE]
     IN /\ db' = [db EXCEPT ![d] = Register(x)]
        /\ registry' = RegistryAfterAttach(x)
  /\ UNCHANGED <<attached, uncaught, ckpt, flushed, config, terminated>>

(***************************************************************************)
(* Lifecycle operations.                                                   *)
(***************************************************************************)

\* Initialize: catalog->Initialize(IsSystem()), then storage->Initialize.
Initialize(d) ==
  /\ ~uncaught
  /\ db[d].life = "live" /\ ~db[d].closed
  /\ db[d].catState = "new"
  /\ db' = [db EXCEPT ![d].catState = "init",
                      ![d].stoState = IF @ = "new" THEN "init" ELSE @]
  /\ UNCHANGED <<attached, registry, uncaught, ckpt, flushed, config, terminated>>

\* storage->Initialize throws after the catalog was initialized.
InitializeFails(d) ==
  /\ ~uncaught
  /\ db[d].life = "live" /\ ~db[d].closed
  /\ db[d].catState = "new"
  /\ db[d].stoState = "new"
  /\ db' = [db EXCEPT ![d].catState = "init", ![d].stoState = "failed"]
  /\ uncaught' = TRUE
  /\ UNCHANGED <<attached, registry, ckpt, flushed, config, terminated>>

\* FinalizeLoad: catalog->FinalizeLoad; the DatabaseManager then serves a
\* user attachment (one with a parent catalog).
FinalizeLoad(d) ==
  /\ ~uncaught
  /\ db[d].life = "live" /\ ~db[d].closed
  /\ db[d].catState = "init"
  /\ db' = [db EXCEPT ![d].catState = "loaded"]
  /\ attached' = IF db[d].parent THEN attached \cup {d} ELSE attached
  /\ UNCHANGED <<registry, uncaught, ckpt, flushed, config, terminated>>

\* SetInitialDatabase: is_initial_database = true.
SetInitialDatabase(d) ==
  /\ ~uncaught
  /\ db[d].life = "live"
  /\ ~db[d].initial
  /\ db' = [db EXCEPT ![d].initial = TRUE]
  /\ UNCHANGED <<attached, registry, uncaught, ckpt, flushed, config, terminated>>

\* SetReadOnlyDatabase: type = READ_ONLY_DATABASE, on a user attachment.
SetReadOnlyDatabase(d) ==
  /\ ~uncaught
  /\ db[d].life = "live" /\ db[d].parent
  /\ db[d].type # "READ_ONLY"
  /\ db' = [db EXCEPT ![d].type = "READ_ONLY"]
  /\ UNCHANGED <<attached, registry, uncaught, ckpt, flushed, config, terminated>>

\* DETACH: the DatabaseManager drops d and calls OnDetach, which forwards
\* to catalog->OnDetach (the catalog is never null on a live object).
OnDetach(d) ==
  /\ ~uncaught
  /\ d \in attached
  /\ attached' = attached \ {d}
  /\ db' = [db EXCEPT ![d].catState = "detached"]
  /\ UNCHANGED <<registry, uncaught, ckpt, flushed, config, terminated>>

\* An explicit Close() of a database no longer served.
Close(d) ==
  /\ ~uncaught
  /\ db[d].life = "live" /\ d \notin attached
  /\ CloseBody(d, "live")
  /\ UNCHANGED <<attached, config>>

\* ~AttachedDatabase(): Close(), possibly while an exception unwinds.
Destroy(d) ==
  /\ db[d].life = "live" /\ d \notin attached
  /\ CloseBody(d, "gone")
  /\ UNCHANGED <<attached, config>>

\* An error starts propagating through the session, and is caught.
Throw ==
  /\ ~uncaught
  /\ uncaught' = TRUE
  /\ UNCHANGED <<db, attached, registry, ckpt, flushed, config, terminated>>

Catch ==
  /\ uncaught
  /\ uncaught' = FALSE
  /\ UNCHANGED <<db, attached, registry, ckpt, flushed, config, terminated>>

(***************************************************************************)
(* Specification.                                                          *)
(***************************************************************************)
Init ==
  /\ db = [d \in Dbs |-> Unborn]
  /\ attached = {}
  /\ registry = {}
  /\ uncaught = FALSE
  /\ ckpt = [d \in Dbs |-> 0]
  /\ flushed = [d \in Dbs |-> 0]
  /\ config \in [checkpoint_on_shutdown: BOOLEAN, supports_flush: BOOLEAN]
  /\ terminated = FALSE

AttachPaths == Paths \cup {MemPath}

\* A terminated process takes no further step.
Next ==
  /\ ~terminated
  /\ \/ \E d \in Dbs, t \in {"SYSTEM", "TEMP"} : AttachedDatabaseInternal(d, t)
     \/ \E d \in Dbs, p \in AttachPaths, keys \in SUBSET OptionKeys :
          AttachNativeRejected(d, p, keys)
     \/ \E d \in Dbs, p \in AttachPaths, m \in AccessModes,
           keys \in SUBSET OptionKeys : AttachedDatabaseNative(d, p, m, keys)
     \/ \E d \in Dbs, p \in AttachPaths : AttachExtensionFails(d, p)
     \/ \E d \in Dbs, p \in AttachPaths, m \in AccessModes,
           cat \in {"duck", "ext"}, mem \in BOOLEAN :
          AttachedDatabaseExtension(d, p, m, cat, mem)
     \/ \E d \in Dbs :
          \/ Initialize(d) \/ InitializeFails(d) \/ FinalizeLoad(d)
          \/ SetInitialDatabase(d) \/ SetReadOnlyDatabase(d)
          \/ OnDetach(d) \/ Close(d) \/ Destroy(d)
     \/ Throw
     \/ Catch

Spec == Init /\ [][Next]_vars

(***************************************************************************)
(* Properties.                                                             *)
(***************************************************************************)

TypeOK ==
  /\ db \in [Dbs -> DbRecord]
  /\ attached \subseteq Dbs
  /\ registry \subseteq Paths
  /\ uncaught \in BOOLEAN
  /\ ckpt \in [Dbs -> 0..CallCap]
  /\ flushed \in [Dbs -> 0..CallCap]
  /\ config \in [checkpoint_on_shutdown: BOOLEAN, supports_flush: BOOLEAN]
  /\ terminated \in BOOLEAN

\* The databases that hold a path in the registry: registered at attach
\* and not yet closed.
PathOwners == {d \in Dbs : db[d].registered /\ ~db[d].closed}

(* The registry of attached paths is exactly the set of paths of open     *)
(* registered databases, and no path has two open owners.  Close erases    *)
(* the path (line 245) before it looks at the unwinding exception, and     *)
(* only on its first call, so neither a destructor run during an unwind   *)
(* nor a second Close after the path was re-attached may break this.      *)
RegistryMatchesOpenDatabases ==
  /\ registry = {db[d].path : d \in PathOwners}
  /\ \A d1, d2 \in PathOwners : d1 # d2 => db[d1].path # db[d2].path

(* Every closed database was checkpointed exactly as often as its first   *)
(* Close called for: once when that Close ran outside an unwind on a      *)
(* file-backed storage with checkpoint_on_shutdown set, never otherwise   *)
(* (Close, lines 239-266, called by DETACH, shutdown and the destructor). *)
ShutdownCheckpointExactlyOnce ==
  \A d \in Dbs :
    ckpt[d] = IF /\ db[d].closed /\ ~db[d].closedUnwinding
                 /\ db[d].storage = "file" /\ config.checkpoint_on_shutdown
              THEN 1 ELSE 0

(* Close never lets an exception out: the checkpoint's exceptions are     *)
(* swallowed by the catch (...) at line 267, also when the storage's       *)
(* Initialize had thrown before.  An escape from the destructor would end *)
(* the process (std::terminate), one from DETACH would leave the database *)
(* closed but half torn down.                                              *)
CloseNeverThrows ==
  [][\A d \in Dbs : (~db[d].closed /\ db'[d].closed) => (uncaught' = uncaught)]_vars

(* Spec 4.2, Close step 6: every Close that gets past the unwinding and   *)
(* no-storage checks flushes the allocator when it supports flushing.     *)
(* The early return at line 261 skips the flush when                      *)
(* checkpoint_on_shutdown is off.                                         *)
FlushAfterStorageClose ==
  \A d \in Dbs :
    (/\ db[d].closed /\ ~db[d].closedUnwinding /\ db[d].storage # "none"
     /\ config.supports_flush) => flushed[d] >= 1

(* Spec 8: a read-only attachment has its storage opened read-only.       *)
(* SetReadOnlyDatabase (line 227) changes the type of a database whose    *)
(* storage was already opened read-write.                                 *)
ReadOnlyMeansReadOnlyStorage ==
  \A d \in Dbs :
    (db[d].life = "live" /\ db[d].storage # "none" /\ db[d].type = "READ_ONLY")
      => db[d].stoReadOnly
=============================================================================
