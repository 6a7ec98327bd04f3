\* Every request with string lengths around the limits of 32 and 64 bytes, and
\* messages up to and beyond the documented maximum.
SPECIFICATION Spec
CONSTANTS
  EMQ_DEFAULT_REQUEST_SIZE = 4096
  EMQ_MAX_REQUEST_SIZE = 2147483647
  EMQ_MAX_MSG_SIZE = 2047
  U32 = 4096
  StrLens = {0, 31, 32, 63, 64}
  MsgSizes = {0, 1, 2047, 4000, 4095}
INVARIANTS
  TypeOK
  FieldsFit
  Announced
  NeverReallocated
