SPECIFICATION PartsSpec
CONSTANTS
  PartsChecked = {"patch", "memory", "previews", "reader", "queue", "connection", "authoring",
                  "list", "table", "walk", "wrap", "grid", "html", "paint", "staging"}
  Looks = {p, b}
  Cost <- MCCost
  Documents <- MCDocuments
  MaxCancelled = 2
  ClientIds = {1, 2, 3, 4}
  MaxNotes = 7
  Bufs = {b1, b2}
  MaxPreviews = 1
  PreviewBudgets <- MCPreviews
  Limit = 1
  MaxStream = 5
  Requests = 4
  Room = 1
  PipeRoom = 1
  MaxHead = 4
  Chunk = 2
  MaxBody = 3
  Backlog = 1
  Peers <- MCPeers
  Drafts <- MCDrafts
  Sayings = {"", "a", "b", "c", "d", "e", "t"}
  AuthoringBudgets <- MCAuthoring
  ListDrafts <- MCLists
  TableDrafts <- MCTables
  MaxDepth = 4
  Documented <- MCWalks
  Paragraphs <- MCParagraphs
  WrapColumns = {0, 1, 2, 3}
  Grids <- MCGrids
  GridColumns = {0, 10, 13, 19, 23, 26}
  HtmlDepth = 4
  HtmlDocuments <- MCPages
  Labels = {"a", "b"}
  RawBlocks <- MCRawBlocks
  RawInlines <- MCRawSpans
  Painters = {r1, r2}
  Fences <- MCFences
  MaxLookups = 6
  MemoBudget = 4
  MaxKept = 1
  Galleries <- MCGalleries
  Size <- MCSize
  MaxAssets = 2
  MaxStaged = 2
  StagingBudgets <- MCStaging
INVARIANTS
  PatchTypeOK
  InSync
  HalvesAgree
  EveryServerIsHeld
  TablesAgree
  RecordsAreLines
  NothingLostQuietly
  AnswersWhatWasAsked
  FoldsAreRight
  CountsUp
  SquaresUp
  RowsKnowTheirBlocks
  WrapsAsWritten
  DrawsEvenly
  OneElementEach
  PageHangsTogether
  MemoIsSound
  RoundsEndOnce
PROPERTIES
  OnlyTheOldestIsEvicted
  GoesBackOnlyByALateOne
  ShiftsAsAsked
  OpensWithItsPictures
CHECK_DEADLOCK FALSE
