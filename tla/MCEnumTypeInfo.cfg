\* Every enum size around the uint8_t, uint16_t and uint32_t limits.
CONSTANTS
  Sizes <- MCSizes
SPECIFICATION Spec
INVARIANTS
  TypeOK
  PositionsExact
  DeserializeRestoresType
  DigitsMatchMaximum
  HugeLimbsAreExtremes
