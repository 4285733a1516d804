------------------------- MODULE MCFileContentRead -------------------------
(* File sizes around one batch, around the uint32_t limit, and beyond      *)
(* int64_t.                                                                 *)
EXTENDS FileContentRead

MCFileSizes ==
  {<<>>, <<1>>, MAX_READ_SIZE, LAdd(MAX_READ_SIZE, <<1>>),
   LSub(Pow2(32), <<1>>), Pow2(32), Pow2(63), LSub(Pow2(64), <<1>>)}
=============================================================================
