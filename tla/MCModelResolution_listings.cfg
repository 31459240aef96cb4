SPECIFICATION Spec
CONSTANTS
  none = none
  None = none
  Requests <- McRequests
  Aliases <- McAliases
  RepoSpecs <- McRepoSpecs
  RepoName <- McRepoName
  Trees <- McTrees
INVARIANT SelectionRight
CHECK_DEADLOCK FALSE
