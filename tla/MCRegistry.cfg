SPECIFICATION Spec
CONSTANTS
  NONE = NONE
  Skipped = {"node_modules", ".git"}
  Mandatory = {"README", "LICENSE"}
  Process = {"p", "q", "r"}
  Host = {"npm", "corp"}
  Npm = "npm"
  PkgName = {"a", "s", "t"}
  ScopeOf <- Scopes
  Catalog <- InCatalog
  ProjectRc <- NoLines
  Env <- NoEnv
  Worlds <- WorldsIn
  Tarball <- Tarballs
  AgeLimit = FALSE
  MaxAge = 1
  Retries = 1
  MaxClock = 1
  MaxLost = 2
  MaxKills = 1
  MaxPolls = 2
  MaxOtp = 1
   
PROPERTY Ends
CHECK_DEADLOCK FALSE
