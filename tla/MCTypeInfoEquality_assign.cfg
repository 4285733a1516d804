\* Three objects, so that a copy and its source can also be compared with
\* a third; kinds from both branches of ExtraTypeInfo::Equals.
CONSTANTS
  s1 = s1
  s2 = s2
  s3 = s3
  Slots <- MCSlots
  ExtInfos <- MCExtInfos
  Fields <- MCFields
  Kinds = {"GENERIC", "STRING", "DECIMAL"}
  Aliases = {"", "a"}
SPECIFICATION Spec
INVARIANT
  AssignIndistinguishable
