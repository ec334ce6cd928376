CONSTANTS
  Files = {"json", "bin"}
  Handles = {h1, h2}
  Regions = {r1}
  Objects = {"mmap", "sink"}
  PageSize = 4096
  invalid_handle = invalid_handle
  Null = Null
  Closed = Closed
  Snapshots <- AnySnapshot
  Exports <- AnyExports
  MaxYears = 2
  MaxCalls = 2
SPECIFICATION Spec
INVARIANTS
  TypeOK
  WriterStaysMapped
  ReportedIsReadable
  TornFilesEndBlank
  NothingStaysMapped
PROPERTY ExportsReturn
CHECK_DEADLOCK FALSE
