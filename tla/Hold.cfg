SPECIFICATION Spec
CONSTANTS
  PhoneDirs <- Ways
  Budgets <- Phones
  MaxGoroutines = 2
  WatchRounds = 1
INVARIANTS
  TypeOK
  MusicOnlyInHold
PROPERTIES
  AudioComesBack
  EntryEnds
CHECK_DEADLOCK FALSE
