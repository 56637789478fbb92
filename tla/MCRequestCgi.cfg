CONSTANTS
  NUL = "NUL"
  LF = "LF"
  Blank = " "
  GET = "G"
  POST = "P"
  Others <- MCOthers
  BufSize = 8
  MethodSize = 3
  UrlSize = 4
  EnvSize = 3
  EnvName = 1
  Base <- MCBase
  Index <- MCIndex
  Alias <- MCAlias
  AliasPath <- MCAliasPath
  MimeTypes <- MCMimeTypes
  Name <- MCName
  Digit <- MCDigit
  RequestLines <- MCRequestLines
  Headers <- MCHeaders
  MaxHeaders = 2
SPECIFICATION Spec
INVARIANTS CgiTypeRuns
CHECK_DEADLOCK FALSE
