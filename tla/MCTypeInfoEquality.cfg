\* Three objects, so that a copy and its source can also be compared with
\* a third; the lenient kinds of ExtraTypeInfo::Equals and the subclasses.
CONSTANTS
  s1 = s1
  s2 = s2
  s3 = s3
  Slots <- MCSlots
  ExtInfos <- MCExtInfos
  Fields <- MCFields
  Kinds = {"GENERIC", "STRING", "DECIMAL", "LIST", "STRUCT", "AGGREGATE_STATE",
           "USER", "ENUM", "ARRAY", "ANY", "INTEGER_LITERAL"}
  Aliases = {"", "a"}
SPECIFICATION Spec
SYMMETRY SlotSymmetry
INVARIANTS
  TypeOK
  EqualObjectsCompareEqual
  EqualsSymmetric
  CopyIndistinguishable
