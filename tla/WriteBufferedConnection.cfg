CONSTANTS
  write_buffer_limit = 4
  MaxWrite = 10
  MaxBytes = 14
SPECIFICATION LiveSpec
INVARIANTS
  TypeOK
  BufferAssertions
PROPERTIES
  ImplementsByteStream
  CallsReturn
CHECK_DEADLOCK FALSE
