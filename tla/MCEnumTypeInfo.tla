--------------------------- MODULE MCEnumTypeInfo ---------------------------
(* Model-checking instance of EnumTypeInfo: enum sizes at both sides of   *)
(* every tier of DictType, up to the largest idx_t.                        *)
EXTENDS EnumTypeInfo

MCSizes ==
  {Nat2L(n) : n \in {0, 1, 2, 255, 256, 65535, 65536}} \cup
  {LSub(Pow2(32), <<1>>), Pow2(32), MulAdd(Pow2(32), 1, 1),
   LSub(Pow2(64), <<1>>)}
=============================================================================
