--------------------------- MODULE FileContentRead ---------------------------
(***************************************************************************)
(* The content column of read_text / read_blob at full width               *)
(* (src/function/table/read_file.cpp, lines 109-118 and 157-191): the     *)
(* idx_t size GetFileSize reports, AssertMaxFileSize's inclusive uint32_t *)
(* bound, the UnsafeNumericCast to int64_t, and the read loop in batches   *)
(* of MAX_READ_SIZE = 100 MiB writing at offset file_size - remaining.    *)
(* ReadFile checks the same loop with small numbers and every column;     *)
(* here the numbers are exact (limb numbers of NumericLimits), so the     *)
(* limit, the cast and the batch arithmetic meet their real boundaries.   *)
(* The file may have changed after GetFileSize: it holds one byte fewer  *)
(* or more than reported.  A read returns what is asked for and present,  *)
(* or one byte less (a short read), and nothing at the end of the file.   *)
(***************************************************************************)
EXTENDS NumericLimits

CONSTANT FileSizes   \* the sizes GetFileSize may report

VARIABLES
  size,     \* file_size_raw
  avail,    \* the bytes the file really holds
  pc,       \* "open", "read", "done" or "error"
  rem,      \* remaining_bytes, a signed int64_t
  written   \* bytes copied into the content string so far

contentVars == <<size, avail, pc, rem, written, query>>

MAX_READ_SIZE == Nat2L(100 * 1024 * 1024)

\* UnsafeNumericCast<int64_t> of an idx_t: two's complement modulo 2^64.
ToInt64(n) ==
  IF LLess(n, Pow2(63)) THEN Pos(n) ELSE Neg(LSub(Pow2(64), n))

Positive(v) == ~v.neg /\ v.mag # <<>>

\* Mutant: the limit taken from uint64_t.
AssertMaxFileSizeUint64(n) == LLeq(n, Maximum("uint64_t").mag)

\* Lines 109-118: AssertMaxFileSize throws when file_size > the maximum.
AssertMaxFileSize(n) == LLeq(n, Maximum("uint32_t").mag)

\* Lines 185-189: a read of nothing is an unexpected EOF.
ReadHitsEOF(got) == got = <<>>

\* Mutant: the MinValue dropped.
BytesToReadWhole(r) == MAX_READ_SIZE

\* Line 169: MinValue<int64_t>(remaining_bytes, MAX_READ_SIZE).
BytesToRead(r) == IF LLess(r, MAX_READ_SIZE) THEN r ELSE MAX_READ_SIZE

Init ==
  /\ size \in FileSizes
  /\ avail \in {size, LAdd(size, <<1>>)} \cup
               (IF size = <<>> THEN {} ELSE {LSub(size, <<1>>)})
  /\ pc = "open"
  /\ rem = Pos(<<>>) /\ written = <<>>
  /\ LimitsInit

\* Lines 158-164: the size check, the casts and EmptyString(file_size_raw).
ContentBegin ==
  /\ pc = "open"
  /\ IF AssertMaxFileSize(size)
     THEN pc' = "read" /\ rem' = ToInt64(size)
     ELSE pc' = "error" /\ UNCHANGED rem
  /\ UNCHANGED <<size, avail, written>>

\* Line 191: remaining_bytes -= actually_read, in int64_t; the result is
\* negative when more was read than remained.
AfterRead(r, got) ==
  IF LLeq(got, r.mag) THEN Pos(LSub(r.mag, got)) ELSE Neg(LSub(got, r.mag))

\* What a read of n bytes at the current position can return.
ReadAmounts(n) ==
  LET left == IF LLess(written, avail) THEN LSub(avail, written) ELSE <<>>
      take == IF LLess(n, left) THEN n ELSE left
  IN {take} \cup (IF LLess(<<1>>, take) THEN {LSub(take, <<1>>)} ELSE {})

\* Lines 168-191: one batch, by the remote or the local read.
ReadBatch ==
  /\ pc = "read" /\ Positive(rem)
  /\ \E got \in ReadAmounts(BytesToRead(rem.mag)) :
       IF ReadHitsEOF(got)
       THEN pc' = "error" /\ UNCHANGED <<rem, written>>
       ELSE /\ rem' = AfterRead(rem, got)
            /\ written' = LAdd(written, got)
            /\ UNCHANGED pc
  /\ UNCHANGED <<size, avail>>

\* Lines 167, 193-197: the loop ends; the string is finalized.
ContentEnd ==
  /\ pc = "read" /\ ~Positive(rem)
  /\ pc' = "done"
  /\ UNCHANGED <<size, avail, rem, written>>

ContentNext == (ContentBegin \/ ReadBatch \/ ContentEnd) /\ UNCHANGED query

ContentSpec == Init /\ [][ContentNext]_contentVars

(***************************************************************************)
(* Properties.                                                             *)
(***************************************************************************)
(* A content cell that is finished holds exactly file_size bytes: every    *)
(* size AssertMaxFileSize admits survives the cast to int64_t, and the     *)
(* batches add up to it, at the uint32_t limit and one batch either side. *)
ContentLengthIsSize == pc = "done" => written = size
=============================================================================
