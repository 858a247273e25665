SPECIFICATION NtfsSpec
CONSTANTS
  NoRecord = NoRecord
  MFT_RECORD_USER = 1
  Volumes <- MCVolumes
CHECK_DEADLOCK FALSE
INVARIANTS
  RecordsAreFound
  StreamsBelongToFile
  StreamsAreComplete
  FilesAreInOrder
