SPECIFICATION FairSpec
CONSTANTS
  Doc = d
  Jobs = {p, q}
  Exports = {e}
  node = node
  Nodes = {api, node}
  ApiNode = api
  Workers = {v, w}
  NodeOf <- OneNode
  Deleters = {admin, beat}
  Expiry = beat
  NoJob = NoJob
  NoExport = NoExport
  Allowed <- Spendable
  Budget = 2
CHECK_DEADLOCK FALSE
INVARIANTS
  StorageTypeOK
  OriginalsStay
  RunsKeepTheirCopies
  DeletedFilesAreGone
  OrphansCameLate
PROPERTIES
  DiskFreed
  ExportsExpire
