---------------------------- MODULE TypeInfoEquality ----------------------------
(***************************************************************************)
(* ExtraTypeInfo objects and their subclasses                              *)
(* (src/common/extra_type_info.cpp): construction, copy construction      *)
(* (Copy, DeepCopy), the Copy/DeepCopy overrides that rebuild an info from *)
(* its fields, copy assignment and destruction over a few object slots,    *)
(* with ExtraTypeInfo::Equals, ExtensionTypeInfo::Equals and every         *)
(* EqualsInternal override as operators.                                   *)
(*                                                                         *)
(* An object has a kind (ExtraTypeInfoType), an alias, an optional        *)
(* extension info (a sequence of length 0 or 1 of the info and the slot    *)
(* whose unique_ptr owns it, which is its address) and a payload: the      *)
(* record of its subclass's fields (a DECIMAL's width and scale, a USER    *)
(* type's catalog, schema, name and modifiers, ...).  A LogicalType field  *)
(* (a child type) is a value compared with =.                              *)
(***************************************************************************)
EXTENDS Naturals, Sequences

CONSTANTS
  Slots,     \* objects
  Kinds,     \* ExtraTypeInfoType values
  Aliases,   \* alias strings, "" for none
  ExtInfos,  \* ExtensionTypeInfo contents: [mods: Seq(Value), props]
  Fields     \* Fields[k]: the subclass field records of kind k

VARIABLES
  obj,       \* obj[s]: the object in slot s, or Dead
  copies,    \* pairs {s, t}: one was copy-constructed from the other
  rebuilt,   \* pairs {s, t}: s was rebuilt from t's fields
  assigns    \* pairs {s, t}: s was assigned from t

vars == <<obj, copies, rebuilt, assigns>>

Dead == [live |-> FALSE, kind |-> "INVALID", alias |-> "", ext |-> <<>>,
         payload |-> <<>>]
Exts == {<<>>} \cup {<<[info |-> e, owner |-> o]>> : e \in ExtInfos, o \in Slots}
Infos == UNION {[live: {TRUE}, kind: {k}, alias: Aliases, ext: Exts,
                 payload: Fields[k]] : k \in Kinds}

MinOf(a, b) == IF a < b THEN a ELSE b

(***************************************************************************)
(* Equality.                                                               *)
(***************************************************************************)
\* Value::operator== (outside this file).  Equals only calls it on two
\* non-NULL values (lines 42-49); on a NULL it would throw rather than
\* answer, and a throw is taken as "not equal", since Equals then returns
\* no true either.
ValueEq(a, b) == ~a.isnull /\ ~b.isnull /\ a.v = b.v

\* Mutant: the both-NULL continue (lines 42-45) dropped.
ModifierEqualNullsUnchecked(a, b) ==
  a.type = b.type /\ a.isnull = b.isnull /\ ValueEq(a, b)

\* Lines 35-54: one modifier of the common prefix.
ModifierEqual(a, b) ==
  /\ a.type = b.type
  /\ \/ a.isnull /\ b.isnull
     \/ a.isnull = b.isnull /\ ValueEq(a, b)

\* Line 18: lhs.get() == rhs.get().
SamePointer(l, r) ==
  \/ l = <<>> /\ r = <<>>
  \/ l # <<>> /\ r # <<>> /\ l[1].owner = r[1].owner

\* Mutant: a property missing on the right makes the infos unequal.
ExtEqualsMissingKeyUnequal(l, r) ==
  \/ SamePointer(l, r)
  \/ l = <<>> \/ r = <<>>
  \/ LET lm == l[1].info.mods
         rm == r[1].info.mods
         lp == l[1].info.props
         rp == r[1].info.props
     IN /\ \A i \in 1..MinOf(Len(lm), Len(rm)) : ModifierEqual(lm[i], rm[i])
        /\ \A k \in DOMAIN lp : k \in DOMAIN rp /\ lp[k] = rp[k]

\* Lines 16-75: ExtensionTypeInfo::Equals.  An absent side compares equal
\* to anything.
ExtEquals(l, r) ==
  \/ SamePointer(l, r)
  \/ l = <<>> \/ r = <<>>
  \/ LET lm == l[1].info.mods
         rm == r[1].info.mods
         lp == l[1].info.props
         rp == r[1].info.props
     IN /\ \A i \in 1..MinOf(Len(lm), Len(rm)) : ModifierEqual(lm[i], rm[i])
        /\ \A k \in DOMAIN lp \cap DOMAIN rp : lp[k] = rp[k]

Lenient == {"INVALID", "STRING", "GENERIC"}

\* Lines 162-165.
DecimalEquals(a, b) == a.width = b.width /\ a.scale = b.scale

\* Lines 200-203, 433-436: the child LogicalType (and the array size).
ListEquals(a, b) == a.child_type = b.child_type
ArrayEquals(a, b) == a.child_type = b.child_type /\ a.size = b.size

\* Lines 223-226: the child list, names and types, in order.
StructEquals(a, b) == a.child_types = b.child_types

\* Lines 250-255.
AggregateStateEquals(a, b) ==
  /\ a.function_name = b.function_name /\ a.return_type = b.return_type
  /\ a.bound_argument_types = b.bound_argument_types

\* Lines 281-284: the name alone; catalog, schema and modifiers are not
\* compared.
UserEquals(a, b) == a.user_type_name = b.user_type_name

\* Lines 387-407: the size, then the first dict_size strings in order
\* (dict_type is VECTOR_DICT for every object the constructor builds).
EnumEquals(a, b) ==
  /\ a.dict_size = b.dict_size
  /\ \A i \in 1..a.dict_size : a.values[i] = b.values[i]

\* Lines 456-459.
AnyEquals(a, b) == a.target_type = b.target_type /\ a.cast_score = b.cast_score

\* Lines 482-485: Value::operator== on a value that is never NULL.
IntegerLiteralEquals(a, b) == ValueEq(a.constant_value, b.constant_value)

\* The EqualsInternal override of x's class; STRING's (lines 181-184)
\* and ExtraTypeInfo's own (lines 146-149) answer true.
EqualsInternal(x, y) ==
  LET a == x.payload
      b == y.payload
  IN CASE x.kind = "DECIMAL"         -> DecimalEquals(a, b)
       [] x.kind = "LIST"            -> ListEquals(a, b)
       [] x.kind = "STRUCT"          -> StructEquals(a, b)
       [] x.kind = "AGGREGATE_STATE" -> AggregateStateEquals(a, b)
       [] x.kind = "USER"            -> UserEquals(a, b)
       [] x.kind = "ENUM"            -> EnumEquals(a, b)
       [] x.kind = "ARRAY"           -> ArrayEquals(a, b)
       [] x.kind = "ANY"             -> AnyEquals(a, b)
       [] x.kind = "INTEGER_LITERAL" -> IntegerLiteralEquals(a, b)
       [] OTHER                      -> TRUE

\* Lines 110-144: x.Equals(&y).
InfoEquals(x, y) ==
  IF x.kind \in Lenient
  THEN x.alias = y.alias /\ ExtEquals(x.ext, y.ext)
  ELSE /\ x.kind = y.kind /\ x.alias = y.alias
       /\ ExtEquals(x.ext, y.ext)
       /\ EqualsInternal(x, y)

\* Lines 111-122, 131-133: x.Equals(nullptr).
InfoEqualsNull(x) == x.kind \in Lenient /\ x.alias = "" /\ x.ext = <<>>

(***************************************************************************)
(* Operations.                                                             *)
(***************************************************************************)
Init ==
  /\ obj = [s \in Slots |-> Dead]
  /\ copies = {} /\ rebuilt = {} /\ assigns = {}

\* Forget the pairs a changed slot belonged to.
Touch(pairs, s) == {p \in pairs : s \notin p}

\* Lines 157-160: the D_ASSERT of DecimalTypeInfo's constructor.
DecimalAccepts(p) == p.width >= p.scale

\* Lines 475-480: IntegerLiteralTypeInfo throws on a NULL value.
IntegerLiteralAccepts(p) == ~p.constant_value.isnull

\* What the subclass constructors check.
ConstructorAccepts(x) ==
  /\ x.kind = "DECIMAL" => DecimalAccepts(x.payload)
  /\ x.kind = "INTEGER_LITERAL" => IntegerLiteralAccepts(x.payload)

\* Lines 80-83 and the subclass constructors, with the extension info a
\* LogicalType attaches to a fresh info.
Construct(s) ==
  /\ ~obj[s].live
  /\ \E x \in Infos :
       /\ ConstructorAccepts(x)
       /\ x.ext # <<>> => x.ext[1].owner = s
       /\ obj' = [obj EXCEPT ![s] = x]
  /\ copies' = Touch(copies, s) /\ rebuilt' = Touch(rebuilt, s)
  /\ assigns' = Touch(assigns, s)

\* Mutant: the extension info not copied.
CopyExtDropped(e, s) == <<>>

\* Mutant: the source's pointer taken over instead of make_uniq.
CopyExtShared(e, s) == e

\* Lines 88-90, 96-98: make_uniq<ExtensionTypeInfo>(*other.extension_info),
\* a new info owned by s.
CopyExt(e, s) == IF e = <<>> THEN <<>> ELSE <<[e[1] EXCEPT !.owner = s]>>

\* EnumTypeInfo::Copy (lines 419-423) overrides the copy below.
CopiedWhole(k) == k # "ENUM"

\* Lines 87-91 and 102-108, and every Copy() that is
\* make_shared_ptr<X>(*this) (lines 167-169, 186-188, 205-207, 228-230,
\* 257-259, 286-288, 438-440, 461-463, 487-489): the copy constructor.
CopyConstruct(s, t) ==
  /\ ~obj[s].live /\ obj[t].live /\ CopiedWhole(obj[t].kind)
  /\ obj' = [obj EXCEPT ![s] = [obj[t] EXCEPT !.ext = CopyExt(obj[t].ext, s)]]
  /\ copies' = Touch(copies, s) \cup {{s, t}}
  /\ rebuilt' = Touch(rebuilt, s) /\ assigns' = Touch(assigns, s)

\* The overrides that build a new info from the subclass fields alone:
\* DeepCopy of LIST, STRUCT, ARRAY and ANY (lines 209-211, 232-238,
\* 442-444, 465-467) and Copy of ENUM (lines 419-423, reached by DeepCopy
\* too).  The constructor they call leaves alias and extension info empty.
RebuiltKinds == {"LIST", "STRUCT", "ARRAY", "ANY", "ENUM"}

Rebuild(s, t) ==
  /\ ~obj[s].live /\ obj[t].live /\ obj[t].kind \in RebuiltKinds
  /\ obj' = [obj EXCEPT ![s] = [obj[t] EXCEPT !.alias = "", !.ext = <<>>]]
  /\ rebuilt' = Touch(rebuilt, s) \cup {{s, t}}
  /\ copies' = Touch(copies, s) /\ assigns' = Touch(assigns, s)

\* Lines 93-100: copy assignment between objects of one class (whose
\* implicit operator= copies the subclass fields after calling this one);
\* the extension info is replaced only when the source has one.
Assign(s, t) ==
  /\ obj[s].live /\ obj[t].live /\ s # t /\ obj[s].kind = obj[t].kind
  /\ obj' = [obj EXCEPT ![s] = [obj[s] EXCEPT !.kind = obj[t].kind,
                                  !.alias = obj[t].alias,
                                  !.payload = obj[t].payload,
                                  !.ext = IF obj[t].ext # <<>>
                                          THEN CopyExt(obj[t].ext, s)
                                          ELSE obj[s].ext]]
  /\ copies' = Touch(copies, s) /\ rebuilt' = Touch(rebuilt, s)
  /\ assigns' = Touch(assigns, s) \cup {{s, t}}

\* Lines 84-85.
Destroy(s) ==
  /\ obj[s].live
  /\ obj' = [obj EXCEPT ![s] = Dead]
  /\ copies' = Touch(copies, s) /\ rebuilt' = Touch(rebuilt, s)
  /\ assigns' = Touch(assigns, s)

Next ==
  \E s, t \in Slots :
    \/ Construct(s) \/ CopyConstruct(s, t) \/ Rebuild(s, t)
    \/ Assign(s, t) \/ Destroy(s)

Spec == Init /\ [][Next]_vars

(***************************************************************************)
(* Properties.                                                             *)
(***************************************************************************)
TypeOK ==
  /\ obj \in [Slots -> Infos \cup {Dead}]
  \* each unique_ptr<ExtensionTypeInfo> owns its own info
  /\ \A s \in Slots : obj[s].ext # <<>> => obj[s].ext[1].owner = s
  /\ copies \subseteq SUBSET Slots /\ rebuilt \subseteq SUBSET Slots
  /\ assigns \subseteq SUBSET Slots

Live == {s \in Slots : obj[s].live}

\* Two live objects no Equals call can tell apart, from either side or
\* against the absent info.
Indistinguishable(s, t) ==
  /\ InfoEquals(obj[s], obj[t]) /\ InfoEquals(obj[t], obj[s])
  /\ InfoEqualsNull(obj[s]) = InfoEqualsNull(obj[t])
  /\ \A u \in Live :
       /\ InfoEquals(obj[s], obj[u]) = InfoEquals(obj[t], obj[u])
       /\ InfoEquals(obj[u], obj[s]) = InfoEquals(obj[u], obj[t])

\* The object with its extension info's address left out.
Content(x) == [x EXCEPT !.ext = IF x.ext = <<>> THEN <<>> ELSE <<x.ext[1].info>>]

(* Two distinct objects holding the same kind, alias, extension info and  *)
(* subclass fields compare equal, modifiers that are NULL on both sides   *)
(* included (ExtensionTypeInfo::Equals, lines 33-55).                     *)
EqualObjectsCompareEqual ==
  \A s, t \in Live :
    Content(obj[s]) = Content(obj[t]) => InfoEquals(obj[s], obj[t])

(* Equals gives the same answer from either side for two infos of one    *)
(* kind: ExtensionTypeInfo::Equals compares only the common prefix of the *)
(* modifiers and the properties present on both sides (lines 30-72), and  *)
(* every EqualsInternal override compares its fields both ways alike.     *)
EqualsSymmetric ==
  \A s, t \in Live :
    obj[s].kind = obj[t].kind =>
      (InfoEquals(obj[s], obj[t]) = InfoEquals(obj[t], obj[s]))

(* An object made by the copy constructor (Copy, DeepCopy) cannot be told *)
(* apart from its source by Equals as long as neither changes.            *)
CopyIndistinguishable ==
  \A p \in copies : \A s, t \in p : Indistinguishable(s, t)

(* A deep copy cannot be told apart from its source by Equals as long as *)
(* neither changes: DeepCopy is a copy (and so is ENUM's Copy).           *)
DeepCopyIndistinguishable ==
  \A p \in rebuilt : \A s, t \in p : Indistinguishable(s, t)

(* After a = b, a and b cannot be told apart by Equals as long as neither *)
(* changes: copy assignment yields a copy (operator=, lines 93-100).      *)
AssignIndistinguishable ==
  \A p \in assigns : \A s, t \in p : Indistinguishable(s, t)
=============================================================================
