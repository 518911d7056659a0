SPECIFICATION MCSpec
CONSTANTS
  Foci = {"uploads", "admin", "thumbs"}
  MaxTaps <- MCTaps
  None = None
  Other = Other
  Uploads = {1, 2, 3}
  Length <- MCLength
  Names = {1, 2}
  MaxItems = 2
  Size <- MCSize
  Tasks = {1, 2}
  uploadConcurrency = 1
  uploadMaxAttempts = 2
  Paths <- MCPaths
  Dirs <- MCDirs
  Order <- MCOrder
  PageSize = 1
  Slots = {1, 2}
  Readers = {1, 2}
  LogoutOnce = TRUE
  Entries = {1, 2, 3, 4}
  Folders = {1}
  Images = {2, 3}
  Viewable = {2, 3}
  Filters = {{1, 2, 3, 4}, {1}, {2, 3}}
  Columns = 2
  Files = {"f", "g"}
  NoFile = "none"
  MaxRev = 2
  TrashIds = {1, 2}
  TrashCalls = {1, 2}
  Requests = {1, 2}
  MaxJobs = 2
  c1 = c1
  c2 = c2
  c3 = c3
  Cards = {c1, c2, c3}
  Model <- MCModel
  Renderable = {"f"}
  WebGL = TRUE
  Models = {"a", "b", "u"}
  Supported = {"a", "b"}
  Revisit = FALSE
  Queries = {"q", "r"}
  Blank = ""
  Shots = {"f", "g", "h"}
  Photos = {"f", "g"}
  NoShot = "none"
  SearchCalls = {1, 2, 3}
PROPERTIES
  UploadVerdict JobEndShown EveryCardAnswered
CHECK_DEADLOCK FALSE
