SPECIFICATION Spec
CONSTANTS
  kCheapPrepend = 2
  kInitialSize = 2
  ExtraSize = 2
  IntSizes = {1, 2}
  Bytes = {10, 13}
  MaxWrite = 2
  MaxSize = 6
PROPERTY ImplementsByteQueue
