\* Two requests of any protocols, one of which may abort the process under the
\* other; 42 is a status no response builder takes. No symmetry: liveness.
CONSTANTS
  Requests = {r1, r2}
  Replies = {200, 503}
  NoStatus = NoStatus
  Empty = Empty
  Cut = Cut
  NameFits = TRUE
  WasmStatuses = {42, 201}
  FileStatuses = {200, 404}
SPECIFICATION FairSpec
INVARIANTS TypeOK LoggedOnce OneAnswer LogTellsAnswer StatusTellsCause
PROPERTIES UpstreamBounded IsExchange
