\* One request; a handler module answers with status 42.
CONSTANTS
  Requests = {r1}
  Replies = {200}
  NoStatus = NoStatus
  Empty = Empty
  Cut = Cut
  NameFits = TRUE
  WasmStatuses = {42}
  FileStatuses = {200, 404}
SPECIFICATION Spec
INVARIANT ResponseWellFormed
