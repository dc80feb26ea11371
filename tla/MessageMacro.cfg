SPECIFICATION Spec
CONSTANTS
  Impl <- AnyImpl
INVARIANTS
  PlainCompiles
  ArgumentsFit
  MarkedOnce
