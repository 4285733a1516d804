# TLA+ models of the DuckDB attached-database subsystem and its neighbours

This directory holds TLA+ models of the code under `src/`. It has the
modules, the TLC configurations that check them, and `PROJECT.json`, which
records the components, the runs, the mutants, the line map, the findings and
the hazards. All paths below are relative to `src/src/duckdb/src/`.

## 1. Inventory

### Components

| Component | Source | State it keeps | Operations |
|---|---|---|---|
| **AttachedDatabase** | `main/attached_database.cpp` 70-273 | `type`, `catalog`, `storage`, `transaction_manager`, `parent_catalog`, `storage_extension`, `internal`, `is_initial_database`, `is_closed` | three constructors, destructor, `Initialize`, `FinalizeLoad`, `OnDetach`, `Close`, `SetInitialDatabase`, `SetReadOnlyDatabase`, accessors, `NameIsReserved`, `ExtractDatabaseName` |
| **AttachOptions** | `main/attached_database.cpp` 20-64 | `access_mode`, `db_type`, `default_table`, `options` | the constructor from configuration and the constructor from an `AttachInfo` (the option loop) |
| DatabaseManager (not in `src/`) | spec §2, §6 | the registry of attached paths, the set of attached databases | attach, detach, `EraseDatabasePath`, shutdown |
| Catalog / StorageManager / TransactionManager / StorageExtension (not in `src/`) | spec §3, §6 | their own data | `Initialize`, `FinalizeLoad`, `OnDetach`, `InMemory`, `GetDBPath`, `CreateCheckpoint`, `attach`, `create_transaction_manager` |
| read_text / read_blob | `function/table/read_file.cpp` | bind data: file list; global state: `current_file_idx`, `column_ids`, `requires_file_open` | Bind, InitGlobal, Execute (chunked, batched reads), Progress, Cardinality |
| ExpressionHeuristics | `optimizer/expression_heuristics.cpp` | none (pure) | `Cost` over expressions and table filters, `ReorderExpressions`, `GetInitialOrder` |
| ExtraTypeInfo | `common/extra_type_info.cpp` | `type`, `alias`, `extension_info`, and the subclass fields | constructors, `Equals`/`EqualsInternal` of every subclass, `Copy`, `DeepCopy`, `operator=`, destructor; for ENUM `DictType`, `CreateType`, `GetPos`, `Serialize`, `Deserialize` |
| NumericLimits | `include/duckdb/common/limits.hpp` | constants | `Minimum`, `Maximum`, `IsSigned`, `IsIntegral`, `Digits`, with the `hugeint_t`/`uhugeint_t` specializations |

### How the parts interact

The binder builds an `AttachOptions` from the statement's option list. The
DatabaseManager picks a constructor from it: the native constructor when
`db_type` is empty, the extension constructor when a storage extension is
named. The constructor builds the catalog, then the storage, then the
transaction manager, and throws if an option or an extension result is wrong.
The DatabaseManager then calls `Initialize`, which initializes the catalog and
then the storage, and after that `FinalizeLoad`. On DETACH the manager calls
`OnDetach`. `Close` runs explicitly and again from the destructor. `Close`
erases the database's path from the manager's registry, and then, unless an
exception is propagating, checkpoints the storage and flushes the allocator.
Everything runs in one session thread at a time. The spec (§5) makes the
caller responsible for quiescing queries before `Close`. The only state shared
between databases is the manager's path registry and the "an exception is
propagating" flag that `Close` reads, which is per thread and so belongs to
the session thread.

### What makes it hard

* **Close is called more than once.** DETACH or shutdown calls it, and so does
  the destructor. Between the two calls another database may attach the same
  file.
* **Close during unwinding.** The destructor can run while an exception
  propagates: after a failed `storage->Initialize`, or when the last reference
  to a detached database drops inside an unrelated error. Close still erases
  the path, but it skips the checkpoint and the flush.
* **Partial construction.** A constructor that throws runs no destructor. The
  extension constructor can throw after it has built a catalog and a storage.
* **Early returns inside `try`.** The `return` at line 261 also skips the
  allocator flush.
* **Option order.** Contradictory mode keys are resolved by position. Keys are
  matched case-sensitively by the parser but case-insensitively by the native
  allow-list.
* read_file: a file's size can change between `GetFileSize` and the batched
  reads. A read can be short or hit EOF. The size limit is an inclusive
  uint32 bound. Progress divides by zero for an empty file list.
* ExpressionHeuristics: the sort is unstable, and reordering must be refused
  if any expression can throw.

### What makes each part correct

* AttachedDatabase: the path registry always equals the set of paths of open,
  registered databases, with no path owned twice. A closed database was
  checkpointed exactly once if its first Close ran outside an unwind on
  file-backed storage with `checkpoint_on_shutdown`, and never otherwise. A
  READ_ONLY database has read-only storage. The flush happens whenever the
  storage steps are reached (spec §4.2).
* AttachOptions: the last mode key wins (spec §8). Every unrecognized key
  reaches the allow-list with its last value. Recognized keys never leak into
  `options`.
* read_file: every file is emitted once and in order. Content length equals
  the file size, or an error is raised. Every scan ends. The progress
  reported between calls is the share of files returned.
* ExpressionHeuristics: the result is a permutation, it is sorted by cost, and
  it is the identity when anything can throw.
* ExtraTypeInfo: equality is reflexive and symmetric (and transitivity is
  known not to hold). Every copy, deep or not, is equal to its source. An
  ENUM's index type holds every position, and a serialized ENUM reads back
  with the same index type.
* NumericLimits: the extremes are the two's-complement ones, and `Digits()`
  is the digit count of `Maximum()`.

## 2. Plan

Modules, in the order they are built. The most important behaviour comes
first.

1. `AttachedDatabase` + `MCAttachedDatabase` (**done**). This is the object
   lifecycle over several object slots sharing the manager's path registry
   and the exception state.
2. `AttachOptions` + `MCAttachOptions` (**done**). This is the option loop
   stepped one entry at a time, followed by the native allow-list check, and
   checked against reference definitions.
3. `AttachedDatabaseAbstract` (**done**), an abstract lifecycle per
   database (`unborn -> open -> closed`, at most one shutdown checkpoint,
   path held while open), with `AttachedDatabase` shown to implement it
   through `INSTANCE ... WITH` a refinement mapping, checked as a PROPERTY.
   `NameIsReserved` and `ExtractDatabaseName` were modelled and dropped:
   their one property restated line 175 (see §6).
4. `ReadFile` + `MCReadFile` (**done**). This covers Execute's chunk loop over a small
   file list, the batched read loop with short reads, EOF and files that
   change size, the uint32 limit (scaled, with the bound named), the
   NOT_IMPLEMENTED/CONVERSION fallbacks, and progress. Properties: each file
   once and in order, content complete or an error, progress within bounds.
   Liveness: Execute eventually drains the list, under weak fairness of
   Execute, since the scan calls it until it returns zero rows.
5. `ExpressionHeuristics` + `MCExpressionHeuristics` (**done**). This has `Cost` as a RECURSIVE operator over
   expression trees of depth 2, and `ReorderExpressions`/`GetInitialOrder`
   checked against a sorted-permutation reference. Because the sort is
   unstable, the model allows every tie order.
6. `TypeInfoEquality` + `MCTypeInfoEquality` (**done**). This covers `ExtensionTypeInfo::Equals` and
   `ExtraTypeInfo::Equals` over small records, with algebraic properties
   (one violation run for transitivity if it proves to matter to a caller).
   Built as an object model instead: copy construction and copy assignment
   are what the code actually gets wrong. Transitivity is reached but not
   claimed (see the hazards).

7. `NumericLimits` (**done**): the limits as exact numbers in base-256
   limbs, since the 64- and 128-bit extremes are beyond TLC's integers.
   `EnumTypeInfo` + `MCEnumTypeInfo` (**done**): the ENUM dictionary, using
   those limits, over sizes at every tier boundary.
8. A fault model for Close (**done**): `CreateCheckpoint` may throw, and an
   extension catalog's `InMemory()`/`GetDBPath()` may throw (a constant,
   so that the passing run keeps the collaborators well behaved and a
   separate run shows what the code does when they are not).

Still open: the progress value of `read_file` (see §6).

## 3. Modules and how they correspond to the code

### AttachedDatabase (`main/attached_database.cpp`)

* **State.** `db[d]` is one object. It records which constructor built it,
  `type`, the catalog kind (`duck` or `ext`) and an extension catalog's
  `InMemory()`, the storage (`none`, `mem` or `file`) and whether it was opened
  read-only, the catalog and storage initialization state, `is_closed`,
  `is_initial_database`, `parent_catalog` and `storage_extension`.
  `closedUnwinding` is a history field: it is the exception state at the first
  Close. The manager side has `attached` (the databases serving queries) and
  `registry` (the set of attached paths). `uncaught` is
  `Exception::UncaughtException()`. `ckpt[d]` and `flushed[d]` count the
  `CreateCheckpoint` and `FlushAll` calls made by `d`, saturating at
  `CallCap`. `config` holds `checkpoint_on_shutdown` and
  `Allocator::SupportsFlush()`, both chosen in `Init`.
* **Actions.**
  * `AttachedDatabaseInternal`: lines 70-84.
  * `AttachNativeRejected` and `AttachedDatabaseNative`: lines 86-119.
  * `AttachExtensionFails` and `AttachedDatabaseExtension`: lines 121-147.
  * `Initialize` and `InitializeFails`: lines 180-189. The storage's
    `Initialize` can throw.
  * `FinalizeLoad`, `SetInitialDatabase`, `SetReadOnlyDatabase` and
    `OnDetach`: each models its method.
  * `Close`: lines 237-273.
  * `Destroy`: the destructor, lines 149-151. It may run while `uncaught`
    holds. The destructor is noexcept: when the extension catalog throws
    inside its `Close`, the process calls `std::terminate`. `terminated`
    records that, and `Next` takes no step after it.
  * `Throw` and `Catch`: the session's exception state.
* **Close.** `CloseBody` follows the code's steps in order:
  1. the guard (`AlreadyClosed`);
  2. the erase (`RegistryAfterClose`, `ErasesPath`);
  3. the unwinding and no-storage returns (`ReachesStorageSteps`);
  4. the checkpoint (`Checkpoints`);
  5. the flush, including the return at line 261 (`Flushes`).

  Two faults are modelled. `CreateCheckpoint` may throw (a choice in every
  Close that checkpoints); the `catch (...)` of line 267 swallows it
  (`AfterCheckpoint`). An extension catalog's `InMemory()` or `GetDBPath()`
  may throw (`EraseThrows`, when the constant `CatalogThrows` is TRUE);
  those calls are outside the `try`, so the exception leaves Close after
  `is_closed` was set and before the path is erased.
* **Manager assumptions** (spec-modelled). An attach is refused when its path
  is already in the registry. A successful construction records the path when
  the catalog is not in memory. A database serves queries after
  `FinalizeLoad` until DETACH. Only a database that is not serving can be
  closed or destroyed.

### AttachedDatabaseAbstract and the refinement

`AttachedDatabaseAbstract` says what the lifecycle promises and nothing
about how: each database goes `unborn -> open -> closed`; while open it may
hold one path that no other database holds; it gives the path up in the
step that closes it, and takes at most one shutdown checkpoint in that
step. `MCAttachedDatabase` maps the detailed state onto it: `AbsState` from
the constructor and the first Close, `AbsOwner` from the manager's
`registry` (so a path left in the registry by a closed database is a
mapping the abstract spec cannot take), and `checkpoints` from `ckpt`.
`AbsSpec == Abs!Spec` is checked as a PROPERTY in `attached_lifecycle`.

### AttachOptions (`main/attached_database.cpp` 20-64, 95-112)

`info` is the option list, and `pos` is the loop index. `result` is the
`AttachOptions` being built. `ParseStep` is the loop body, with case-sensitive
key matching, overwriting `options[key]`, and `continue` on every recognized
key. `ParseEntryCastFails` is the `DefaultCastAs(BOOLEAN)` exception.
`NativeAccepts` and `NativeRejects` are the native constructor's loop, using
`CIEquals` through `Lower`. The boolean cast is modelled by what it does:
"true" and "false" convert, and any other string throws.

### ReadFile (`function/table/read_file.cpp` 53-261)

`pc` is where Execute is: `bind`, `init`, `scan` (a call of Execute), `row`
(a file of the chunk), `col` (a projected column), `read` (the batched read
loop), or the final `done` (an empty chunk) or `error`. `idx` is
`current_file_idx`, `count` is `output_count`, `out` and `ci` are the loop
indices, and `remaining`/`written` are the read loop's counters. `fh` is the
open handle together with what the file system reports when it is opened:
the size `GetFileSize` returns, the bytes actually present (one fewer or one
more: the file changed after the size was read), and whether the size,
UTF-8 and last-modified time can be had. `Observed` fixes what no projected
column reads. `OutputCount` keeps the idx_t subtraction modulo
`2^IdxWidth`. `rows` is the output so far, kept for the properties.
`ReadFileProgress` and `ReadFileCardinality` are operators over the state,
since neither changes it. The progress is a record with a `type` field:
`nan` for the empty glob (0.0 / 0.0), otherwise the fraction
`current_file_idx / files.size()`.

### FileContentRead (`function/table/read_file.cpp` 109-118, 157-198)

The content column once more, with the numbers at their real width (limb
numbers of `NumericLimits`). `size` is what `GetFileSize` reports and
`avail` what the file holds (one byte fewer or more). `ContentBegin` is
`AssertMaxFileSize` against the exact `uint32_t` maximum and the
`UnsafeNumericCast<int64_t>` (`ToInt64`, two's complement modulo 2^64).
`ReadBatch` reads `MinValue(remaining_bytes, 100 MiB)` at offset
`file_size - remaining_bytes` and gets what is asked for and present, one
byte less, or nothing (the EOF exception). `AfterRead` subtracts what
was read from `remaining_bytes` as a signed `int64_t`, so a read of more
than remains would leave it negative and end the loop.

### ExpressionHeuristics (`optimizer/expression_heuristics.cpp`)

Expressions are records with an `id`, a class, a return type, the children
in visiting order and the `CanThrow` answer. `Cost` and `FilterCost` are
RECURSIVE operators transcribing every overload. `ReorderExpressions` and
`GetInitialOrder` return the *set* of orders `std::sort` may produce, because
the sort is unstable. `VisitFilter`/`VisitExpression`/`VisitList` are the
pass over a LogicalFilter: reorder the filter's list, then visit each
expression, reordering every conjunction's children (VisitReplace) before
visiting them. The state machine has one step: the pass over an input drawn
from the MC module's pool.

### TypeInfoEquality (`common/extra_type_info.cpp` 16-490)

`obj` maps three slots to ExtraTypeInfo objects: kind, alias, the optional
extension info with the slot that owns it (its address, so that line 18's
pointer test is exact), and a payload record holding the subclass fields
of its kind (`Fields[kind]`: width and scale, child type, child list,
function name and types, user type name with catalog and schema, enum
size and values, target type and cast score, constant value). Every
subclass `EqualsInternal` is an operator over those fields, dispatched by
`EqualsInternal`; a `LogicalType` field is a value compared with `=`.
`ConstructorAccepts` is the check of the DECIMAL and INTEGER_LITERAL
constructors. The actions are the constructors, the copy constructor (with
every `Copy` that is `make_shared_ptr<X>(*this)`), `Rebuild` (the
`DeepCopy` overrides of LIST, STRUCT, ARRAY and ANY, and ENUM's `Copy`,
which build from the fields alone), copy assignment between objects of one
class, and the destructor. `copies`, `rebuilt` and `assigns` remember which
pairs should be copies of each other until either changes.

### NumericLimits (`include/duckdb/common/limits.hpp`)

The 64- and 128-bit extremes do not fit TLC's 32-bit integers, so a number
is its little-endian sequence of base-256 limbs with no trailing zero
(zero is `<<>>`), and a signed number a record of sign and magnitude.
Addition, subtraction, multiplication, comparison and `2^n`/`10^n` on
limbs are operators (`10^n` by squaring, to keep the recursion shallow).
`Minimum`/`Maximum` are the two's-complement extremes by width;
`HugeintMinimum` etc. are the `{upper, lower}` pairs of lines 41-67, and
`HugeValue` their value; `Digits` is the table of lines 55-127. The
variable `query` holds the answers of the last `NumericLimits<T>` a caller
instantiated, and `Query(T)` is that instantiation; the `enum_dict` run
interleaves it with the ENUM steps (`AskLimits`).

### EnumTypeInfo (`common/extra_type_info.cpp` 290-423)

One ENUM type of size `size`: `CreateType` (with `DictType`'s exception
for sizes beyond `uint32_t`), `Serialize` (which writes `values_count`),
`Deserialize` (which re-derives the index type and casts the count with
`NumericCast<uint32_t>`) and `GetPos`. Strings are abstracted to their
positions; the dictionary stores each position as the index type `T`, so
`TemplatedGetPos` answers the position modulo `2^bits(T)`. `GetPos` probes
the first and last string and every size in `Sizes` below the enum's.

## 4. Runs

| Run | Config | Expect | What it shows |
|---|---|---|---|
| `attached_lifecycle` | `MCAttachedDatabase.cfg` | pass | `RegistryMatchesOpenDatabases` and `ShutdownCheckpointExactlyOnce` hold over every interleaving of two objects' lifecycles on one path: attach, failed init, detach, close, destroy in and out of unwinds, re-attach, with checkpoints that may throw. Close never lets an exception out (`CloseNeverThrows`), and the lifecycle refines `AttachedDatabaseAbstract` (`AbsSpec`). |
| `close_catalog_throws` | `MCAttachedDatabase_catalog.cfg` | violation | An extension catalog whose `InMemory()`/`GetDBPath()` throws in Close (lines 244-246, outside the `try`): the database is closed, its path stays in the registry, and every later Close returns at line 239. |
| `close_flush` | `MCAttachedDatabase_flush.cfg` | violation | Attach a file database with `checkpoint_on_shutdown` off, then close it: `FlushAll` never runs (line 261), contrary to spec §4.2 step 6. |
| `readonly_downgrade` | `MCAttachedDatabase_readonly.cfg` | violation | Attach read-write, then `SetReadOnlyDatabase`: the type is READ_ONLY but the storage is writable (line 227). |
| `attach_options` | `MCAttachOptions.cfg` | pass | For all 40,000 option lists of up to 3 entries: the last mode key wins, and unknown keys pass through with their last value. |
| `read_file_scan` | `MCReadFile.cfg` | pass | Scans of 0-3 files in chunks of 2 over five projections, with shrinking and growing files, short reads, oversized files and failing metadata. The cursor never passes the list, files come out once and in order, content cells have exactly the reported size, no column reads a null handle, and every scan ends (liveness). Between calls, the progress is the share of files returned (1 when done), and the rows stay within `max_cardinality`. |
| `content_full_width` | `MCFileContentRead.cfg` | pass | For reported sizes 0, 1, 100 MiB, 100 MiB + 1, 2^32 - 1, 2^32, 2^63 and 2^64 - 1, and files a byte shorter or longer: a finished cell holds exactly the reported size. 2,662 states. |
| `expression_reorder` | `MCExpressionHeuristics.cfg` | pass | Every filter of 1-3 distinct conditions from an 11-expression pool, and every 1-3 table filter set. Lists holding a throwing condition keep their order at every level, other lists end cheapest first, and `GetInitialOrder` is a cost-sorted permutation of positions. |
| `type_info_copy` | `MCTypeInfoEquality.cfg` | pass | Over all eleven kinds: each extension info has one owner; every live object equals itself, NULL modifiers included; `Equals` is symmetric within a kind; a copy compares like its source against every object and against `nullptr`. |
| `type_info_deepcopy` | `MCTypeInfoEquality_deepcopy.cfg` | violation | `DeepCopy` of an aliased LIST (line 209) loses the alias and compares unequal to its source. |
| `enum_dict` | `MCEnumTypeInfo.cfg` | pass | For sizes 0, 1, 2, 255, 256, 65535, 65536, 2^32-1, 2^32, 2^32+1 and 2^64-1: `GetPos` returns exact positions, a created ENUM deserializes into the same index type, and every `NumericLimits<T>` query (the integer types, `hugeint_t`, `uhugeint_t`) answers the two's-complement extremes of T's width, with `Digits()` equal to the maximum's digit count. 1,441 states. |
| `type_info_assign` | `MCTypeInfoEquality_assign.cfg` | violation | After `a = b` with `b` lacking an extension info, `a` keeps its old one (line 96). Then `a.Equals(nullptr)` differs from `b.Equals(nullptr)`. |

Every property of a passing run has a mutant in `PROJECT.json`, and TLC finds
each mutant's violation:

* Close without the `is_closed` guard.
* The unwinding check moved before the erase.
* A manager that records `:memory:`.
* The read-write branch copied from the read-only one.
* `options.insert` instead of `options[]`.
* The `type` branch without `continue`.
* `read_file`: the cursor advanced by a whole vector; `output_count` one
  short; `output_count` without the `MinValue`; `remaining_bytes` reduced by
  what was asked for instead of what was read; the file opened only for the
  content column; the zero-read EOF check dropped (the loop then spins, so
  only the liveness property catches it); the progress computed as the
  share of files still to read.
* FileContentRead: the size limit taken from `uint64_t` (a size of 2^63
  then casts to a negative count and yields an empty cell); the
  `MinValue` of the batch size dropped (a file that grew is then read
  past the reported size). Both break `ContentLengthIsSize`.
* ExpressionHeuristics: the CanThrow loop stopping before the last
  expression; filters reordered only from three conditions; `filter_index`
  never advanced, or advanced before it is recorded.
* ExtraTypeInfo: the extension info not copied; the source's pointer shared
  instead of `make_uniq`; the both-NULL `continue` dropped; a property key
  missing from the other info not counted as a difference.
* Close: the `catch (...)` of line 267 dropped; the unwind check moved
  before the erase (breaks the refinement).
* ENUM and limits: a `uint64_t` tier instead of the exception; the first
  tier compared with `uint16_t`'s maximum; `NumericCast<uint16_t>` in
  Deserialize; `uint64_t` given `int64_t`'s 19 digits; the lower limb of
  the `hugeint_t` maximum taken from `int64_t`.

### Bounds and why they are enough

* **`attached_lifecycle`.** It uses two object slots, one file path plus
  `:memory:`, and two option keys (one allowed, one not). One path and two
  slots are the smallest setting in which a second database can re-attach a
  path that the first one released. That is the setting in which a
  non-idempotent Close, or a leaked path, shows. Slots are model values
  under symmetry. There are 2.5M distinct states, checked in about 60 s.
  Three slots did not finish in 30 minutes.
* **`attach_options`.** It uses lists of up to three entries over nine keys
  and three values. That covers every pair of contradictory mode keys in
  both orders with a third entry around them, repeated unknown keys, and the
  upper-case variants of an allowed key and of a mode key.

* **`read_file_scan`.** It uses up to three files against a vector of two,
  so a full chunk and a partial chunk both happen, as does the empty file
  list. Sizes run from 0 to one past the scaled size limit (3), and the read
  batch is 2, so a file takes up to two batches and short reads split them.
  The available bytes differ from the reported size by one either way.
  There are 280k distinct states, checked in about 50 s.
* **`content_full_width`.** The sizes are the boundaries of each check:
  one batch and one past it (a short last batch), the `uint32_t` maximum
  (admitted, read in 41 batches) and one past it (refused), and the first
  sizes the `int64_t` cast turns negative. A file one byte short reaches
  the EOF exception; one byte long shows the read is still cut at the
  reported size. Liveness of the same loop is checked by `read_file_scan`
  at small width (a fair run here would take minutes for nothing new).
* **`expression_reorder`.** The pool has equal-cost pairs (`i = 1` and
  `i + 1`), casts and UDFs that can throw, an AND conjunction of three
  non-throwing conditions, an OR holding a thrower, and a CASE holding a
  conjunction. So reordering happens two levels deep, and both a parent and
  a child decide CanThrow.
* **`type_info_copy`.** It uses three objects (a copy, its source and a
  third to compare them with), all eleven kinds with two field records
  each (differing in one field, e.g. a USER pair differing only in schema,
  which `Equals` ignores), and extension infos with a NULL modifier,
  differing modifier lengths, clashing properties and none at all.
* **`enum_dict`.** The sizes sit on both sides of every tier (`uint8_t`,
  `uint16_t`, `uint32_t`) and include the largest `idx_t`. A size one
  past a tier is the only place an off-by-one shows; `GetPos` probes the
  last position and each boundary below the size, which is where a
  narrow index type would wrap.

### Fairness

Only `read_file_scan` checks liveness. It assumes weak fairness of the
whole next-state relation. The executor keeps calling Execute until it
returns an empty chunk, and Execute's loops run in one thread with no
waiting. Every AttachedDatabase operation is driven by the user or the
manager, and none is obliged to happen, so no fairness is assumed there.
`AbsSpec` is a safety property (the abstract spec has no fairness). The
ENUM model is a sequence of calls that may stop anywhere; in `enum_dict`
a limits query is always possible. `content_full_width` sets
`CHECK_DEADLOCK FALSE` because a finished or failed content cell has no
further step.

## 5. Findings

* **spec_code_divergence (line 261).** Close skips `Allocator::FlushAll`
  when `checkpoint_on_shutdown` is off, because the `return` is inside the
  `try`. Spec §4.2 lists the flush as a step after the checkpoint step, not
  as part of it.
* **spec_gap (line 227).** `SetReadOnlyDatabase` leaves the storage opened
  read-write. Spec §8 expects a read-only attachment to have read-only
  storage, and §4.2 does not say what the downgrade does to storage.
* **code_bug (extra_type_info.cpp line 96).** `ExtraTypeInfo::operator=`
  copies `extension_info` only when the source has one. An assigned-to
  object keeps stale modifiers and properties. The copy constructor gets
  this right.
* **spec_code_divergence (line 244).** Close calls the catalog's
  `InMemory()` and `GetDBPath()` outside its `try`, after setting
  `is_closed`. If an extension catalog throws there, the path is never
  erased and every later Close returns at once: the file stays attached
  for the life of the instance. Spec §4.2 says Close must not throw.
* **code_bug (extra_type_info.cpp line 209).** The `DeepCopy` overrides of
  LIST, STRUCT, ARRAY and ANY, and `EnumTypeInfo::Copy`, build from the
  fields alone and drop `alias` and `extension_info`. A deep copy of an
  aliased type compares unequal to its source.
* **Noted, not run.** Spec §3 says "storage is non-null iff the catalog is
  native-backed". The SYSTEM database has a DuckCatalog and no storage
  (lines 76-81), as spec §4.1 itself says. The model follows the code.

## 6. Not modelled, and why

* Catalog, storage, WAL and transaction internals are outside `src/` and
  outside the spec's scope. They are reduced to what `AttachedDatabase`
  observes.
* Concurrent queries against an open database: the spec puts quiescence
  before `Close` on the caller, and no code here takes a lock.
* `GetStorageManager`, `GetCatalog`, `GetTransactionManager`,
  `ParentCatalog` and `IsTemporary`/`IsReadOnly` change no state. Their only
  effect is the `InternalException` of `GetStorageManager` on the system
  database, which is the caller's bug.
* `EraseDatabasePath` throwing inside Close is not modelled (the manager
  is outside `src/`); the catalog's throwing is (`CatalogThrows`).
* `EnumTypeInfoTemplated` lives in a header that is not in the tree; its
  dictionary is modelled only by what `TemplatedGetPos` reads from it. The
  Serialize/Deserialize of the other ExtraTypeInfo subclasses is
  field-by-field I/O and changes no state the properties tell apart.
  `LogicalType` is a value compared with `=`; its own `DeepCopy` is the
  identity on values.
* `ExtraTypeInfo::Equals` is not transitive (line 22 lets an info without
  an extension equal one whose extension has no modifiers and no
  properties); nothing in `src/` relies on transitivity, so no property
  states it.
* The value of `ReadFileProgress` for an empty glob is NaN (0.0 / 0.0), a
  state the model reaches. The table-function progress contract lives
  outside `src/`, so `ProgressMatchesRows` only judges non-empty globs.
* Concurrent Execute calls on one `read_file` scan: the function keeps the
  default of one scan thread.
* `NumericLimits<float>`/`<double>` extremes: TLC has no reals. ReadFile
  uses `NumericLimits<uint32_t>::Maximum()` scaled down to `MaxFileSize`;
  the exact bound is checked by `content_full_width`.
* `AttachedDatabase::NameIsReserved` and `ExtractDatabaseName` (lines
  169-178) are pure string helpers: the stem of the path, with `_db`
  appended when it is `main`, `temp` or `system`. A model of them could
  only state that the suffixed name is not reserved, which restates line
  175 and needs no model checker. The DatabaseManager that uses the name
  is outside `src/`.
