------------------------- MODULE MCTypeInfoEquality -------------------------
EXTENDS TypeInfoEquality, TLC

CONSTANTS s1, s2, s3

MCSlots == {s1, s2, s3}

\* A modifier Value: its type, whether it is NULL, and its value.
V(type, isnull, v) == [type |-> type, isnull |-> isnull, v |-> v]

\* Extension infos: one modifier and a property; a NULL modifier and no
\* property; two modifiers and the same property with another value; no
\* modifier and no property.
MCExtInfos ==
  { [mods |-> <<V("INTEGER", FALSE, 1)>>, props |-> [k \in {"k"} |-> 1]],
    [mods |-> <<V("INTEGER", TRUE, 0)>>, props |-> [k \in {} |-> 0]],
    [mods |-> <<V("INTEGER", FALSE, 1), V("VARCHAR", FALSE, 2)>>,
     props |-> [k \in {"k"} |-> 2]],
    [mods |-> <<>>, props |-> [k \in {} |-> 0]] }

\* Subclass fields, two records per kind that its EqualsInternal tells
\* apart (a USER pair that differs only in the schema, which it ignores).
MCFields ==
  [k \in {"INVALID", "GENERIC", "STRING"} |-> {<<>>}] @@
  [k \in {"DECIMAL"} |-> {[width |-> 4, scale |-> 2], [width |-> 4, scale |-> 1]}] @@
  [k \in {"LIST"} |-> {[child_type |-> "INTEGER"], [child_type |-> "VARCHAR"]}] @@
  [k \in {"STRUCT"} |-> {[child_types |-> <<<<"a", "INTEGER">>>>],
                          [child_types |-> <<<<"b", "INTEGER">>>>]}] @@
  [k \in {"AGGREGATE_STATE"} |->
     {[function_name |-> f, return_type |-> "BIGINT",
       bound_argument_types |-> <<"INTEGER">>] : f \in {"sum", "min"}}] @@
  [k \in {"USER"} |->
     {[catalog |-> "", schema |-> sc, user_type_name |-> "t",
       user_type_modifiers |-> <<>>] : sc \in {"s1", "s2"}}] @@
  [k \in {"ENUM"} |-> {[dict_size |-> 2, values |-> <<"x", "y">>],
                        [dict_size |-> 2, values |-> <<"y", "x">>]}] @@
  [k \in {"ARRAY"} |-> {[child_type |-> "INTEGER", size |-> n] : n \in {2, 3}}] @@
  [k \in {"ANY"} |-> {[target_type |-> "INTEGER", cast_score |-> n] : n \in {0, 1}}] @@
  [k \in {"INTEGER_LITERAL"} |->
     {[constant_value |-> V("INTEGER", n, 7)] : n \in BOOLEAN}]

SlotSymmetry == Permutations(MCSlots)
=============================================================================
