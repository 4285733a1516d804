-------------------------- MODULE ExpressionHeuristics --------------------------
(***************************************************************************)
(* The optimizer pass that reorders filter conditions cheapest first       *)
(* (src/optimizer/expression_heuristics.cpp): the cost model over bound    *)
(* expressions and table filters, ReorderExpressions with its CanThrow     *)
(* early return, the pass over a filter operator and the conjunctions in   *)
(* it, and GetInitialOrder over a table's pushed-down filters.             *)
(*                                                                         *)
(* An expression is a record; kids holds its children in the order the     *)
(* code visits them (a CASE's when/then pairs then its else; a BETWEEN's   *)
(* input, lower, upper), throws is what Expression::CanThrow() answers for *)
(* it, and id names the node so that a result can be matched to its input. *)
(* std::sort is not stable: a reordering is any order sorted by cost.      *)
(***************************************************************************)
EXTENDS Naturals, Sequences, SequencesExt, Functions

CONSTANTS
  FilterLists,   \* condition lists of a LogicalFilter the pass may meet
  TableFilters   \* TableFilterSet contents, in the map's iteration order

VARIABLES
  job,      \* "filter": a LogicalFilter; "table": a TableFilterSet
  exprs,    \* the filter's expressions before the pass
  result,   \* ... and after it
  filters,  \* the table filters
  order,    \* GetInitialOrder's permutation
  done

vars == <<job, exprs, result, filters, order, done>>

(***************************************************************************)
(* Cost model.                                                             *)
(***************************************************************************)
\* Lines 157-168: per physical type; BLOB is stored as VARCHAR.
PhysicalCost(type, multiplier) ==
  CASE type \in {"VARCHAR", "BLOB"} -> 5 * multiplier
    [] type = "DOUBLE"              -> 2 * multiplier
    [] OTHER                        -> 1 * multiplier

\* Lines 117-122.
FunctionCosts ==
  [f \in {"+", "-", "&", "#", ">>", "<<", "abs"} |-> 5] @@
  [f \in {"*", "%"} |-> 10] @@ [f \in {"/"} |-> 15] @@
  [f \in {"date_part", "year"} |-> 20] @@ [f \in {"round"} |-> 100] @@
  [f \in {"~~", "!~~", "regexp_matches", "||"} |-> 200]

\* Lines 84-99: a cast from or to VARCHAR or BLOB costs 200, another
\* changing cast 5.
CastCost(to, from) ==
  CASE to = from                                 -> 0
    [] {to, from} \cap {"VARCHAR", "BLOB"} # {} -> 200
    [] OTHER                                     -> 5

\* Lines 137-155.
OperatorCost(e) ==
  CASE e.etype \in {"IS_NULL", "IS_NOT_NULL"} -> 5
    [] e.etype \in {"IN", "NOT_IN"}           -> (Len(e.kids) - 1) * 100
    [] e.etype = "NOT"                         -> 10
    [] OTHER                                   -> 1000

\* Lines 69-223: Cost(Expression &) and the ExpressionCost overloads.
RECURSIVE Cost(_)
Cost(e) ==
  LET kids == FoldSeq(LAMBDA k, acc : Cost(k) + acc, 0, e.kids)
  IN CASE e.cls = "CASE"        -> kids
       [] e.cls = "BETWEEN"     -> kids + 10
       [] e.cls = "CAST"        -> kids + CastCost(e.type, e.kids[1].type)
       [] e.cls = "COMPARISON"  -> kids + 5
       [] e.cls = "CONJUNCTION" -> kids + 5
       [] e.cls = "FUNCTION"    ->
            kids + IF e.name \in DOMAIN FunctionCosts
                   THEN FunctionCosts[e.name] ELSE 1000
       [] e.cls = "OPERATOR"    -> kids + OperatorCost(e)
       [] e.cls \in {"COLUMN_REF", "REF"}      -> PhysicalCost(e.type, 8)
       [] e.cls \in {"CONSTANT", "PARAMETER"}  -> PhysicalCost(e.type, 1)
       [] OTHER                 -> 1000

\* Lines 225-260: Cost(TableFilter &).
RECURSIVE FilterCost(_)
FilterCost(f) ==
  LET kids == FoldSeq(LAMBDA k, acc : FilterCost(k) + acc, 0, f.kids)
  IN CASE f.ftype \in {"DYNAMIC_FILTER", "OPTIONAL_FILTER"}   -> 0
       [] f.ftype \in {"CONJUNCTION_OR", "CONJUNCTION_AND"} -> 5 + kids
       [] f.ftype = "CONSTANT_COMPARISON" -> PhysicalCost(f.ctype, 1)
       [] f.ftype \in {"IS_NULL", "IS_NOT_NULL"}            -> 5
       [] f.ftype = "STRUCT_EXTRACT"      -> kids
       [] OTHER                           -> 1000

(***************************************************************************)
(* Reordering.                                                             *)
(***************************************************************************)
\* Lines 62-66: the orders std::sort may leave items of these costs in.
SortedOrders(costs) ==
  {p \in Bijection(DOMAIN costs, DOMAIN costs) :
     IsSorted([i \in DOMAIN costs |-> costs[p[i]]], LAMBDA a, b : a <= b)}

\* Mutant: the CanThrow loop stopping before the last expression.
AnyCanThrowButLast(es) == \E i \in 1..(Len(es) - 1) : es[i].throws

\* Lines 47-52.
AnyCanThrow(es) == \E i \in 1..Len(es) : es[i].throws

\* Lines 34-67: ReorderExpressions, as the set of lists it may produce.
ReorderExpressions(es) ==
  IF AnyCanThrow(es) THEN {es}
  ELSE {[i \in 1..Len(es) |-> es[p[i]]] :
          p \in SortedOrders([i \in 1..Len(es) |-> Cost(es[i])])}

\* The visitor (LogicalOperatorVisitor, not under src/) calls VisitReplace
\* on a conjunction, then visits the children the call left in place.
RECURSIVE VisitExpression(_), VisitList(_)
\* Lines 28-32.
VisitExpression(e) ==
  LET lists == IF e.cls = "CONJUNCTION" THEN ReorderExpressions(e.kids)
               ELSE {e.kids}
  IN UNION {{[e EXCEPT !.kids = k] : k \in VisitList(l)} : l \in lists}
VisitList(s) ==
  IF s = <<>> THEN {<<>>}
  ELSE {<<h>> \o t : h \in VisitExpression(Head(s)), t \in VisitList(Tail(s))}

\* Mutant: only filters of three or more conditions reordered.
ReordersFilterFromThree(es) == Len(es) > 2

\* Line 18.
ReordersFilter(es) == Len(es) > 1

\* Lines 15-26: VisitOperator on a LogicalFilter.
VisitFilter(es) ==
  UNION {VisitList(l) :
           l \in IF ReordersFilter(es) THEN ReorderExpressions(es) ELSE {es}}

\* Mutant: filter_index incremented before it is recorded.
FilterIndexIncrementedFirst(i) == i

\* Mutant: filter_index never incremented.
FilterIndexNotAdvanced(i) == 0

\* Lines 275-281: the index recorded for the i-th filter of the map.
FilterIndex(i) == i - 1

\* Lines 262-290.
GetInitialOrder(fs) ==
  {[k \in 1..Len(fs) |-> FilterIndex(p[k])] :
     p \in SortedOrders([i \in 1..Len(fs) |-> FilterCost(fs[i])])}

(***************************************************************************)
(* The pass.                                                               *)
(***************************************************************************)
Init ==
  /\ done = FALSE
  /\ result = <<>> /\ order = <<>>
  /\ \/ job = "filter" /\ exprs \in FilterLists /\ filters = <<>>
     \/ job = "table" /\ filters \in TableFilters /\ exprs = <<>>

\* Lines 10-13: Rewrite of a plan holding the filter.
Rewrite ==
  /\ job = "filter" /\ ~done
  /\ result' \in VisitFilter(exprs)
  /\ done' = TRUE
  /\ UNCHANGED <<job, exprs, filters, order>>

InitialOrder ==
  /\ job = "table" /\ ~done
  /\ order' \in GetInitialOrder(filters)
  /\ done' = TRUE
  /\ UNCHANGED <<job, exprs, result, filters>>

Next == Rewrite \/ InitialOrder

Spec == Init /\ [][Next]_vars

(***************************************************************************)
(* Properties.                                                             *)
(***************************************************************************)
Classes == {"CASE", "BETWEEN", "CAST", "COMPARISON", "CONJUNCTION",
            "FUNCTION", "OPERATOR", "COLUMN_REF", "REF", "CONSTANT",
            "PARAMETER"}

\* A well-formed expression tree.
RECURSIVE IsExpr(_)
IsExpr(e) ==
  /\ DOMAIN e = {"id", "cls", "type", "etype", "name", "kids", "throws"}
  /\ e.id \in Nat /\ e.cls \in Classes /\ e.throws \in BOOLEAN
  /\ \A i \in 1..Len(e.kids) : IsExpr(e.kids[i])

TypeOK ==
  /\ job \in {"filter", "table"}
  /\ exprs \in FilterLists \cup {<<>>}
  /\ filters \in TableFilters \cup {<<>>}
  /\ \A i \in 1..Len(result) : IsExpr(result[i])
  /\ order \in Seq(0..(Len(filters) - 1))
  /\ done \in BOOLEAN

Ids(l) == [i \in 1..Len(l) |-> l[i].id]

\* The lists of the input and the result that hold the same conditions:
\* the filter's list, then the children of nodes with the same id.  The
\* flag says whether the pass is meant to reorder the list.
RECURSIVE ListPairs(_, _, _)
ListPairs(li, lo, r) ==
  {<<li, lo, r>>} \cup
  UNION {ListPairs(li[i].kids, lo[j].kids, li[i].cls = "CONJUNCTION") :
           <<i, j>> \in {<<i, j>> \in (1..Len(li)) \X (1..Len(lo)) :
                           li[i].id = lo[j].id}}

Pairs == ListPairs(exprs, result, Len(exprs) > 1)

(* A list of conditions that holds one that can throw is evaluated in the *)
(* order the user wrote it, at every level, and so is every list the pass *)
(* does not reorder (ReorderExpressions' CanThrow return, lines 47-52,    *)
(* through the visit of nested conjunctions).                             *)
ThrowingListsKeepOrder ==
  done /\ job = "filter" =>
    \A t \in Pairs :
      (~t[3] \/ \E i \in 1..Len(t[1]) : t[1][i].throws) => Ids(t[2]) = Ids(t[1])

(* Every other conjunction, and a filter of two or more conditions, ends  *)
(* up holding the same conditions cheapest first.                         *)
ReorderableListsCheapestFirst ==
  done /\ job = "filter" =>
    \A t \in Pairs :
      (t[3] /\ \A i \in 1..Len(t[1]) : ~t[1][i].throws) =>
        /\ Range(Ids(t[2])) = Range(Ids(t[1])) /\ Len(t[2]) = Len(t[1])
        /\ IsSorted([i \in 1..Len(t[2]) |-> Cost(t[2][i])], LAMBDA a, b : a <= b)

(* GetInitialOrder returns each position of the filter map exactly once, *)
(* the cheapest filter's first.                                           *)
InitialOrderSortedPermutation ==
  done /\ job = "table" =>
    /\ order \in Bijection(1..Len(filters), 0..(Len(filters) - 1))
    /\ IsSorted([k \in 1..Len(order) |-> FilterCost(filters[order[k] + 1])],
                LAMBDA a, b : a <= b)
=============================================================================
