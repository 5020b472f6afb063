SPECIFICATION QuerySpec
CONSTANTS
  Directory <- Directories
  Question <- Questions
  Advisory <- Advisories
  MaxPaths = 1
  NONE = NONE
  MEMBER = MEMBER
  ERROR = ERROR
INVARIANTS GraphKept AuditRight  WhyAll
CHECK_DEADLOCK FALSE
