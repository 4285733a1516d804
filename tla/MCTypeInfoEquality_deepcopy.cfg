\* Three objects, so that a copy and its source can also be compared with
\* a third; the kinds whose Copy or DeepCopy rebuilds the info.
CONSTANTS
  s1 = s1
  s2 = s2
  s3 = s3
  Slots <- MCSlots
  ExtInfos <- MCExtInfos
  Fields <- MCFields
  Kinds = {"LIST", "ENUM"}
  Aliases = {"", "a"}
SPECIFICATION Spec
INVARIANT
  DeepCopyIndistinguishable
