SPECIFICATION FairSpec
CONSTANTS
  f1 = f1 f2 = f2
  main = main
  good = good bad = bad
  frn1 = frn1
  None = None
  FileObject = {f1, f2}
  ClientFileObject = {}
  Stream = {main}
  FileId = {frn1}
  IdOf <- Single
  CacheSupported = TRUE
  Content = {good, bad}
  Infectious = {bad}
  SizeOf <- InRange
  HS_MIN_FILE_SCAN_SIZE = 2
  HS_MAX_FILE_SCAN_SIZE = 4
  OpenKind = {"Ordinary", "Prefetch", "Skipped"}
  InfoClass = {"EndOfFile", "Allocation"}
  FsControlCode = {"SetZeroData", "Other"}
  SectionKind = {"Execute", "Other"}
INVARIANTS
  ScanLockExclusive
  InfectedIsScanned
  TrustedStreamIsClean
  ConsequencesWereReported
PROPERTIES
  MappedImageIsClean
  ScanLockIsReleased
