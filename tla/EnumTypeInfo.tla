---------------------------- MODULE EnumTypeInfo ----------------------------
(***************************************************************************)
(* One ENUM type of a given size (src/common/extra_type_info.cpp, lines    *)
(* 290-423): CreateType picks the index type with DictType, the type is    *)
(* serialized (values_count, then the strings), deserialized again, and    *)
(* EnumType::GetPos looks keys up in the dictionary of either copy.        *)
(*                                                                         *)
(* The dictionary is a string_map_t<T> of the index type T (line 344): the *)
(* position of the i-th string is stored as a T, i.e. modulo 2^bits.  The  *)
(* strings are abstracted to their positions, and sizes and positions are  *)
(* limb numbers of NumericLimits, since an idx_t size reaches 2^64.        *)
(***************************************************************************)
EXTENDS NumericLimits

CONSTANT Sizes   \* the enum sizes CreateType may be called with

VARIABLES
  size,     \* the size passed to CreateType
  phase,    \* "new", "created", "failed", "serialized", "deserialized",
            \* "rejected"
  phys,     \* the physical index type of the created type
  stored,   \* values_count written by Serialize
  dphys,    \* the physical index type of the deserialized type
  probe     \* the last GetPos: key position (or absent) and its answer

enumVars == <<size, phase, phys, stored, dphys, probe>>
vars == <<size, phase, phys, stored, dphys, probe, query>>

IndexBytes == [UINT8 |-> 1, UINT16 |-> 2, UINT32 |-> 4]
NoProbe == [found |-> FALSE, pos |-> <<>>, answer |-> <<>>]

(***************************************************************************)
(* Operators.                                                              *)
(***************************************************************************)

\* Mutant: the first tier compared with uint16_t's maximum.
DictTypeUint16First(n) ==
  CASE LLeq(n, Maximum("uint16_t").mag) -> "UINT8"
    [] LLeq(n, Maximum("uint32_t").mag) -> "UINT32"
    [] OTHER                            -> "THROW"

\* Mutant: a uint64_t tier instead of the exception.
DictTypeUint64Tier(n) ==
  CASE LLeq(n, Maximum("uint8_t").mag)  -> "UINT8"
    [] LLeq(n, Maximum("uint16_t").mag) -> "UINT16"
    [] LLeq(n, Maximum("uint32_t").mag) -> "UINT32"
    [] OTHER                            -> "UINT64"

\* Lines 293-303: the narrowest unsigned type whose maximum is >= n.
DictType(n) ==
  CASE LLeq(n, Maximum("uint8_t").mag)  -> "UINT8"
    [] LLeq(n, Maximum("uint16_t").mag) -> "UINT16"
    [] LLeq(n, Maximum("uint32_t").mag) -> "UINT32"
    [] OTHER                            -> "THROW"

\* Mutant: NumericCast<uint16_t>.
CastFitsUint16(n) == LLeq(n, Maximum("uint16_t").mag)

\* Lines 376-380: NumericCast<uint32_t>(values_count) throws when the
\* count does not fit.
CastFits(n) == LLeq(n, Maximum("uint32_t").mag)

\* The positions a key lookup probes: the first and the last string, and
\* every tier boundary below the size.
Probes(n) ==
  IF n = <<>> THEN {}
  ELSE {<<>>, LSub(n, <<1>>)} \cup {p \in Sizes : LLess(p, n)}

\* Lines 343-350: TemplatedGetPos finds the key and returns the T stored
\* for it.
TemplatedGetPos(i, t) == Low(i, IndexBytes[t])

(***************************************************************************)
(* Actions.                                                                *)
(***************************************************************************)
Init ==
  /\ size \in Sizes
  /\ phase = "new"
  /\ phys = "NONE" /\ dphys = "NONE"
  /\ stored = <<>>
  /\ probe = NoProbe
  /\ LimitsInit

\* Lines 322-341: CreateType; DictType throws an InternalException for a
\* size beyond uint32_t.
CreateType ==
  /\ phase = "new"
  /\ IF DictType(size) = "THROW"
     THEN phase' = "failed" /\ UNCHANGED phys
     ELSE phase' = "created" /\ phys' = DictType(size)
  /\ UNCHANGED <<size, stored, dphys, probe, query>>

\* Lines 409-417: Serialize writes dict_size as values_count.
Serialize ==
  /\ phase = "created"
  /\ phase' = "serialized" /\ stored' = size
  /\ UNCHANGED <<size, phys, dphys, probe, query>>

\* Lines 371-384: Deserialize.
Deserialize ==
  /\ phase = "serialized"
  /\ LET t == DictType(stored) IN
       IF t = "THROW" \/ ~CastFits(stored)
       THEN phase' = "rejected" /\ UNCHANGED dphys
       ELSE phase' = "deserialized" /\ dphys' = t
  /\ UNCHANGED <<size, phys, stored, probe, query>>

\* Lines 352-364: EnumType::GetPos on the created or the deserialized
\* type, for the key at position i or for a key not in the enum (-1).
GetPos ==
  /\ phase \in {"created", "serialized", "deserialized"}
  /\ LET t == IF phase = "deserialized" THEN dphys ELSE phys IN
       \/ \E i \in Probes(size) :
            probe' = [found |-> TRUE, pos |-> i, answer |-> TemplatedGetPos(i, t)]
       \/ probe' = NoProbe
  /\ UNCHANGED <<size, phase, phys, stored, dphys, query>>

\* A caller instantiates NumericLimits<T>, between any two enum steps.
AskLimits ==
  /\ \E T \in LimitTypes : Query(T)
  /\ UNCHANGED enumVars

Next == CreateType \/ Serialize \/ Deserialize \/ GetPos \/ AskLimits

Spec == Init /\ [][Next]_vars

(***************************************************************************)
(* Properties.                                                             *)
(***************************************************************************)
TypeOK ==
  /\ size \in Sizes
  /\ phase \in {"new", "created", "failed", "serialized", "deserialized",
                "rejected"}
  /\ phys \in {"NONE"} \cup DOMAIN IndexBytes
  /\ dphys \in {"NONE"} \cup DOMAIN IndexBytes
  /\ probe.found \in BOOLEAN
  /\ query.type \in {"none"} \cup LimitTypes

(* The index type DictType picks holds every position of the enum: GetPos *)
(* of the i-th string returns i (the string_map_t<T> stores positions as  *)
(* T, so a tier too narrow for the size would wrap them around).          *)
PositionsExact == probe.found => probe.answer = probe.pos

(* An enum CreateType accepted deserializes without error into the same  *)
(* index type: DictType's uint32_t tier and the NumericCast<uint32_t> of  *)
(* Deserialize accept the same counts.                                    *)
DeserializeRestoresType ==
  phase \in {"deserialized", "rejected"} =>
    phase = "deserialized" /\ dphys = phys
=============================================================================
