------------------------------ MODULE ReadFile ------------------------------
(***************************************************************************)
(* The read_text / read_blob table function (src/function/table/           *)
(* read_file.cpp): bind, global-state initialization and the Execute loop, *)
(* which the scan calls until it returns an empty chunk.                   *)
(*                                                                         *)
(* Execute's nested loops are taken one step at a time: a row (one file),  *)
(* a projected column of that row, and one batch of the content read loop. *)
(* A file's properties are what the file system reports when the file is   *)
(* opened: the size GetFileSize returns, the bytes actually there (the file *)
(* may have shrunk or grown since), whether the size, the content's UTF-8  *)
(* and the last-modified time can be obtained.  Sizes are scaled down:     *)
(* VectorSize stands for STANDARD_VECTOR_SIZE, ReadBatch for the 100MB     *)
(* batch, MaxFileSize for NumericLimits<uint32_t>::Maximum().              *)
(***************************************************************************)
EXTENDS Naturals, Sequences, Functions

CONSTANTS
  MaxFiles,      \* largest file list the glob returns
  MaxSize,       \* largest file size
  VectorSize,    \* STANDARD_VECTOR_SIZE
  ReadBatch,     \* MAX_READ_SIZE
  MaxFileSize,   \* NumericLimits<uint32_t>::Maximum()
  Projections,   \* column_ids lists the planner may push down
  IdxWidth       \* bits of idx_t

ASSUME VectorSize >= 1 /\ ReadBatch >= 1 /\ MaxFileSize < MaxSize

VARIABLES
  op,         \* ReadTextOperation or ReadBlobOperation
  nfiles,     \* bind_data.files.size()
  cols,       \* state.column_ids
  reqOpen,    \* state.requires_file_open
  idx,        \* state.current_file_idx
  pc,         \* where Execute is
  count,      \* output_count of the chunk
  out,        \* out_idx
  ci,         \* col_idx
  fh,         \* the open file handle and what its file really is
  remaining,  \* remaining_bytes of the content read loop
  written,    \* bytes copied into the content string so far
  row,        \* the row being filled
  rows        \* rows emitted, in order

vars == <<op, nfiles, cols, reqOpen, idx, pc, count, out, ci, fh,
          remaining, written, row, rows>>

ROWID == "rowid"
Columns == {"name", "content", "size", "last_modified", ROWID}
LastModOutcomes == {"ok", "conversion", "not_implemented", "io_error"}
NoHandle == [open |-> FALSE, size |-> 0, avail |-> 0, sizeOk |-> FALSE,
             utf8 |-> TRUE, lastmod |-> "ok"]
Handles == [open: BOOLEAN, size: 0..MaxSize, avail: 0..(MaxSize + 1),
            sizeOk: BOOLEAN, utf8: BOOLEAN, lastmod: LastModOutcomes]
\* A content cell: a string of len bytes, NULL, or not projected.
Cells == [kind: {"value", "NULL", "absent"}, len: 0..MaxSize]
Absent == [kind |-> "absent", len |-> 0]
Rows == [file: Nat, size: 0..MaxSize, content: Cells]

MinOf(a, b) == IF a < b THEN a ELSE b

(***************************************************************************)
(* Bind and global state.                                                  *)
(***************************************************************************)
Init ==
  /\ op \in {"text", "blob"}
  /\ nfiles = 0 /\ cols = <<>> /\ reqOpen = FALSE /\ idx = 0
  /\ pc = "bind"
  /\ count = 0 /\ out = 0 /\ ci = 1 /\ fh = NoHandle
  /\ remaining = 0 /\ written = 0
  /\ row = [file |-> 0, size |-> 0, content |-> Absent]
  /\ rows = <<>>

\* ReadFileBind: the glob may match no file (ALLOW_EMPTY).
ReadFileBind ==
  /\ pc = "bind"
  /\ nfiles' \in 0..MaxFiles
  /\ pc' = "init"
  /\ UNCHANGED <<op, cols, reqOpen, idx, count, out, ci, fh, remaining,
                 written, row, rows>>

\* Mutant: the file opened only for the content column.
RequiresFileOpenContentOnly(c) == \E i \in 1..Len(c) : c[i] = "content"

\* Lines 95-101: the file is opened for every column but the name and
\* the row id.
RequiresFileOpen(c) == \E i \in 1..Len(c) : c[i] \notin {"name", ROWID}

\* ReadFileInitGlobal.
ReadFileInitGlobal ==
  /\ pc = "init"
  /\ \E c \in Projections :
       /\ cols' = c
       /\ reqOpen' = RequiresFileOpen(c)
  /\ idx' = 0
  /\ pc' = "scan"
  /\ UNCHANGED <<op, nfiles, count, out, ci, fh, remaining, written, row, rows>>

(***************************************************************************)
(* Execute.                                                                *)
(***************************************************************************)

\* Mutant: the MinValue with the vector size dropped.
OutputCountNoMin == (nfiles - idx) % (2^IdxWidth)

\* Mutant: the count one short, as with files.size() - current_file_idx - 1.
OutputCountOffByOne == MinOf(VectorSize, (nfiles - idx - 1) % (2^IdxWidth))

\* Line 126: MinValue(STANDARD_VECTOR_SIZE, files.size() - current_file_idx)
\* in idx_t arithmetic.
OutputCount == MinOf(VectorSize, (nfiles - idx) % (2^IdxWidth))

\* Lines 121-126: a call of Execute; an empty chunk ends the scan.
ExecuteBegin ==
  /\ pc = "scan"
  /\ count' = OutputCount
  /\ out' = 0
  /\ pc' = IF OutputCount = 0 THEN "done" ELSE "row"
  /\ UNCHANGED <<op, nfiles, cols, reqOpen, idx, ci, fh, remaining, written,
                 row, rows>>

\* What the projected columns cannot observe of a file is fixed to its
\* value in NoHandle; it changes no step of Execute.
Observed(h) ==
  /\ "content" \notin Range(cols) =>
        h.size = 0 /\ h.avail = 0 /\ h.utf8
  /\ "content" \notin Range(cols) /\ "size" \notin Range(cols) => ~h.sizeOk
  /\ "last_modified" \notin Range(cols) => h.lastmod = "ok"
  /\ op = "blob" => h.utf8

\* Lines 131-142: the next file of the chunk, opened when needed.
RowBegin ==
  /\ pc = "row"
  /\ out < count
  /\ \E h \in Handles :
       /\ h.open = reqOpen
       /\ h.avail \in {h.size - 1, h.size, h.size + 1}
       /\ Observed(h)
       /\ fh' = IF reqOpen THEN h ELSE NoHandle
  /\ row' = [file |-> idx + out + 1, size |-> fh'.size, content |-> Absent]
  /\ ci' = 1
  /\ pc' = "col"
  /\ UNCHANGED <<op, nfiles, cols, reqOpen, idx, count, out, remaining,
                 written, rows>>

\* fs.OpenFile throws (the file went away after the glob).
RowOpenFails ==
  /\ pc = "row"
  /\ out < count
  /\ reqOpen
  /\ pc' = "error"
  /\ UNCHANGED <<op, nfiles, cols, reqOpen, idx, count, out, ci, fh,
                 remaining, written, row, rows>>

\* Mutant: the cursor moved by a whole vector.
AdvanceByVector(i, c) == i + VectorSize

\* Line 239: current_file_idx += output_count.
Advance(i, c) == i + c

\* Lines 239-240: the chunk is returned with output_count rows.
ChunkEnd ==
  /\ pc = "row"
  /\ out = count
  /\ idx' = Advance(idx, count)
  /\ pc' = "scan"
  /\ UNCHANGED <<op, nfiles, cols, reqOpen, count, out, ci, fh, remaining,
                 written, row, rows>>

\* The row is complete after its last column.
RowEnd ==
  /\ pc = "col"
  /\ ci > Len(cols)
  /\ rows' = Append(rows, row)
  /\ out' = out + 1
  /\ pc' = "row"
  /\ UNCHANGED <<op, nfiles, cols, reqOpen, idx, count, ci, fh, remaining,
                 written, row>>

Column == cols[ci]

\* The value a non-content column gets, or "error" when the exception
\* propagates: NOT_IMPLEMENTED becomes NULL (lines 228-234), a CONVERSION
\* error of the last-modified time becomes NULL (lines 213-219).
ColumnOutcome(c, h) ==
  CASE c \in {"name", ROWID} -> "value"
    [] c = "size"            -> IF h.sizeOk THEN "value" ELSE "NULL"
    [] c = "last_modified"   ->
         CASE h.lastmod = "ok"              -> "value"
           [] h.lastmod = "conversion"      -> "NULL"
           [] h.lastmod = "not_implemented" -> "NULL"
           [] OTHER                         -> "error"

\* Lines 147-156, 200-221: a column other than the content.
ColumnStep ==
  /\ pc = "col"
  /\ ci <= Len(cols)
  /\ Column # "content"
  /\ ColumnOutcome(Column, fh) # "error"
  /\ ci' = ci + 1
  /\ UNCHANGED <<op, nfiles, cols, reqOpen, idx, pc, count, out, fh,
                 remaining, written, row, rows>>

ColumnFails ==
  /\ pc = "col"
  /\ ci <= Len(cols)
  /\ Column # "content"
  /\ ColumnOutcome(Column, fh) = "error"
  /\ pc' = "error"
  /\ UNCHANGED <<op, nfiles, cols, reqOpen, idx, count, out, ci, fh,
                 remaining, written, row, rows>>

\* Lines 109-118: AssertMaxFileSize.
WithinMaxFileSize(size) == size <= MaxFileSize

\* Lines 157-164: the content column: GetFileSize, the size check, and the
\* read loop set up.  GetFileSize not implemented makes the cell NULL.
ContentBegin ==
  /\ pc = "col"
  /\ ci <= Len(cols)
  /\ Column = "content"
  /\ IF ~fh.sizeOk
     THEN /\ row' = [row EXCEPT !.content = [kind |-> "NULL", len |-> 0]]
          /\ ci' = ci + 1
          /\ UNCHANGED <<pc, remaining, written>>
     ELSE /\ WithinMaxFileSize(fh.size)
          /\ remaining' = fh.size
          /\ written' = 0
          /\ pc' = "read"
          /\ UNCHANGED <<row, ci>>
  /\ UNCHANGED <<op, nfiles, cols, reqOpen, idx, count, out, fh, rows>>

ContentTooLarge ==
  /\ pc = "col"
  /\ ci <= Len(cols)
  /\ Column = "content"
  /\ fh.sizeOk
  /\ ~WithinMaxFileSize(fh.size)
  /\ pc' = "error"
  /\ UNCHANGED <<op, nfiles, cols, reqOpen, idx, count, out, ci, fh,
                 remaining, written, row, rows>>

\* Mutant: the EOF check dropped.
ReadHitsEOFNever(a) == FALSE

\* Lines 186-190: a read returning no byte is an unexpected EOF.
ReadHitsEOF(a) == a = 0

\* Lines 169-191: one batch.  A read returns between one byte and the
\* batch while bytes remain in the file, and nothing at its end.
ReadAmounts ==
  LET want == MinOf(remaining, ReadBatch)
      left == fh.avail - written
  IN IF left <= 0 THEN {0} ELSE 1..MinOf(want, left)

\* Mutant: the remaining count reduced by what was asked for.
AfterReadWholeBatch(r, a) == r - MinOf(r, ReadBatch)

\* Line 191: remaining_bytes -= actually_read.
AfterRead(r, a) == r - a

ReadBatchStep ==
  /\ pc = "read"
  /\ remaining > 0
  /\ \E a \in ReadAmounts :
       IF ReadHitsEOF(a)
       THEN /\ pc' = "error"
            /\ UNCHANGED <<remaining, written>>
       ELSE /\ remaining' = AfterRead(remaining, a)
            /\ written' = written + a
            /\ UNCHANGED pc
  /\ UNCHANGED <<op, nfiles, cols, reqOpen, idx, count, out, ci, fh, row, rows>>

\* Lines 11-39: ReadBlobOperation::VERIFY accepts anything,
\* ReadTextOperation::VERIFY only content Utf8Proc finds valid.
VERIFY(o, h) == o = "blob" \/ h.utf8

\* Lines 194-198: Finalize, then VERIFY.
ContentEnd ==
  /\ pc = "read"
  /\ remaining = 0
  /\ IF ~VERIFY(op, fh)
     THEN /\ pc' = "error"
          /\ UNCHANGED <<row, ci>>
     ELSE /\ row' = [row EXCEPT !.content = [kind |-> "value", len |-> written]]
          /\ ci' = ci + 1
          /\ pc' = "col"
  /\ UNCHANGED <<op, nfiles, cols, reqOpen, idx, count, out, fh, remaining,
                 written, rows>>

Next ==
  \/ ReadFileBind \/ ReadFileInitGlobal
  \/ ExecuteBegin \/ RowBegin \/ RowOpenFails \/ ChunkEnd \/ RowEnd
  \/ ColumnStep \/ ColumnFails \/ ContentBegin \/ ContentTooLarge
  \/ ReadBatchStep \/ ContentEnd

\* The scan keeps calling Execute until it returns an empty chunk, and
\* Execute runs its loops to the end.
Spec == Init /\ [][Next]_vars /\ WF_vars(Next)

(***************************************************************************)
(* What the scan reports without changing state.                           *)
(***************************************************************************)
\* Lines 252-261: ReadFileCardinality, exact: the number of bound files.
ReadFileCardinality == [max |-> nfiles, estimated |-> nfiles]

\* Mutant: the share of files still to read.
ReadFileProgressRemaining ==
  IF nfiles = 0 THEN [type |-> "nan"]
  ELSE [type |-> "ratio", num |-> nfiles - idx, den |-> nfiles]

\* Lines 246-250: current_file_idx / files.size() in double arithmetic;
\* 0.0 / 0.0 is NaN for an empty glob.
ReadFileProgress ==
  IF nfiles = 0 THEN [type |-> "nan"]
  ELSE [type |-> "ratio", num |-> idx, den |-> nfiles]

(***************************************************************************)
(* Properties.                                                             *)
(***************************************************************************)
TypeOK ==
  /\ op \in {"text", "blob"}
  /\ nfiles \in 0..MaxFiles
  /\ cols \in Projections \cup {<<>>}
  /\ reqOpen \in BOOLEAN
  /\ idx \in Nat
  /\ pc \in {"bind", "init", "scan", "row", "col", "read", "done", "error"}
  /\ count \in 0..VectorSize /\ out \in 0..VectorSize
  /\ fh \in Handles
  /\ remaining \in 0..MaxSize /\ written \in 0..MaxSize
  /\ row \in Rows
  /\ rows \in Seq(Rows)

(* current_file_idx never passes the number of files, so the idx_t        *)
(* subtraction of line 126 never wraps around and line 131 never indexes  *)
(* past the file list.                                                    *)
CursorWithinList == idx <= nfiles

(* The scan emits the files in bind order, each exactly once: row i is    *)
(* file i, and a finished scan has emitted every file.                    *)
EachFileOnceInOrder ==
  /\ \A i \in 1..Len(rows) : rows[i].file = i
  /\ pc = "done" => Len(rows) = nfiles

(* A content cell that is not NULL holds exactly as many bytes as         *)
(* GetFileSize reported, however the reads were split (lines 164-192).    *)
ContentComplete ==
  \A i \in 1..Len(rows) :
    rows[i].content.kind = "value" => rows[i].content.len = rows[i].size

(* A column that reads the file is only ever evaluated with an open       *)
(* handle: InitGlobal's requires_file_open agrees with the columns        *)
(* Execute dereferences file_handle for (lines 95-101 and 136-142).       *)
HandleOpenWhenNeeded ==
  (pc \in {"col", "read"} /\ ci <= Len(cols) /\ cols[ci] \notin {"name", ROWID})
    => fh.open

(* Every scan ends: it returns an empty chunk or raises an error.         *)
ScanTerminates == <>(pc \in {"done", "error"})

(* Between two calls of Execute, the progress table_scan_progress reports *)
(* is the share of files whose rows the scan has returned, a fraction in  *)
(* [0, 1] that is 1 when the scan is done, and the rows never exceed the  *)
(* max_cardinality ReadFileCardinality promised.  The empty glob, where   *)
(* the progress is NaN, is excluded (lines 239, 246-261).                 *)
ProgressMatchesRows ==
  /\ Len(rows) <= ReadFileCardinality.max
  /\ pc \in {"scan", "done"} /\ ReadFileProgress.type = "ratio" =>
       /\ ReadFileProgress.num = Len(rows)
       /\ ReadFileProgress.num <= ReadFileProgress.den
       /\ pc = "done" => ReadFileProgress.num = ReadFileProgress.den
=============================================================================
