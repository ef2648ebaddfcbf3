SPECIFICATION Spec
CONSTANTS
  Slots = 1
  Kinds = {"tuple", "procbin", "heap_sub_binary"}
  max_gen_gcs = 2
  MaxObjects = 3
  MaxGcs = 3
  MaxMessages = 1
CHECK_DEADLOCK FALSE
INVARIANTS
  ReferencesAreSound
  TenuredAreMature
  CountedAreLinked
PROPERTIES
  CollectionIsInvisible
