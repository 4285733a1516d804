------------------------ MODULE MCExpressionHeuristics ------------------------
EXTENDS ExpressionHeuristics

\* A node; it can throw when it does itself or a child can (the default
\* Expression::CanThrow).
N(id, cls, type, etype, name, kids, own) ==
  [id |-> id, cls |-> cls, type |-> type, etype |-> etype, name |-> name,
   kids |-> kids, throws |-> own \/ \E i \in 1..Len(kids) : kids[i].throws]

Col(id, t)   == N(id, "COLUMN_REF", t, "", "", <<>>, FALSE)
Const(id, t) == N(id, "CONSTANT", t, "", "", <<>>, FALSE)
Param(id, t) == N(id, "PARAMETER", t, "", "", <<>>, FALSE)

\* Conditions over an INTEGER column i, a VARCHAR column s, a DOUBLE
\* column d: equal costs, casts that can throw, nested conjunctions with
\* and without a throwing child.
EqI    == N(1, "COMPARISON", "BOOLEAN", "", "", <<Col(20, "INTEGER"), Const(21, "INTEGER")>>, FALSE)
PlusI  == N(2, "FUNCTION", "BOOLEAN", "", "+", <<Col(20, "INTEGER"), Const(21, "INTEGER")>>, FALSE)
LikeS  == N(3, "FUNCTION", "BOOLEAN", "", "~~", <<Col(22, "VARCHAR"), Const(23, "VARCHAR")>>, FALSE)
CastS  == N(4, "CAST", "INTEGER", "", "", <<Col(22, "VARCHAR")>>, TRUE)
NullD  == N(5, "OPERATOR", "BOOLEAN", "IS_NULL", "", <<Col(24, "DOUBLE")>>, FALSE)
InI    == N(6, "OPERATOR", "BOOLEAN", "IN", "", <<Col(20, "INTEGER"), Const(21, "INTEGER"), Param(25, "INTEGER")>>, FALSE)
Betw   == N(7, "BETWEEN", "BOOLEAN", "", "", <<Col(20, "INTEGER"), Const(21, "INTEGER"), Const(26, "INTEGER")>>, FALSE)
Udf    == N(8, "FUNCTION", "BOOLEAN", "", "my_udf", <<Col(24, "DOUBLE")>>, TRUE)
AndOk  == N(9, "CONJUNCTION", "BOOLEAN", "AND", "", <<LikeS, NullD, PlusI>>, FALSE)
OrThr  == N(10, "CONJUNCTION", "BOOLEAN", "OR", "", <<InI, Udf>>, FALSE)
CaseE  == N(11, "CASE", "BOOLEAN", "", "", <<EqI, AndOk, Const(27, "BOOLEAN")>>, FALSE)

Pool == {EqI, PlusI, LikeS, CastS, NullD, InI, Betw, Udf, AndOk, OrThr, CaseE}

\* Filters of one to three distinct conditions.
MCFilterLists == {l \in SeqOf(Pool, 3) : l # <<>> /\ IsInjective(l)}

F(ftype, ctype, kids) == [ftype |-> ftype, ctype |-> ctype, kids |-> kids]
ConstI == F("CONSTANT_COMPARISON", "INTEGER", <<>>)
ConstS == F("CONSTANT_COMPARISON", "VARCHAR", <<>>)
IsNull == F("IS_NULL", "", <<>>)
Dyn    == F("DYNAMIC_FILTER", "", <<>>)
AndF   == F("CONJUNCTION_AND", "", <<ConstI, IsNull>>)
Struct == F("STRUCT_EXTRACT", "", <<ConstS>>)

\* Filter sets of up to three columns.
MCTableFilters ==
  {l \in SeqOf({ConstI, ConstS, IsNull, Dyn, AndF, Struct}, 3) : l # <<>>}
=============================================================================
