SPECIFICATION LibrarySpec
CONSTANTS
  u = u n = n f = f
  Uploads = {u}
  Receipts = {n}
  Files = {f}
  Chunks = 2
  Tries = 2
  Content <- MCContent
  LibraryCases <- MCLibraryCases
INVARIANTS LibraryTypeOK StoredIsReadable QuotaKept
PROPERTIES TombstonesStay ReceiptArchived
CHECK_DEADLOCK FALSE
