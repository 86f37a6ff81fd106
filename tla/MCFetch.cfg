CONSTANTS
  Url <- UrlDef
  Code <- CodeDef
  Redirect <- RedirectDef
  Unset = 9000
  Gets = 3
  LeasePolls = 3
  TokenPolls = 3
SPECIFICATION Spec
INVARIANTS TypeOK ChildrenClosed NoLateWrite PageIsGenuine
PROPERTY FetchEnds
