\* A pipeline may have a stage called clone.
SPECIFICATION Spec
CONSTANTS
  Name <- MCName
  Small <- MCSmall
  Repo <- MCRepo
  GitHub = "hub"
  Branch = {"main", "topic"}
  Main = "main"
  Pipeline = {"p"}
  StageName = {"build", "test", "lint", "clone"}
  Known <- MCKnown
  Definition <- MCDefinition
  Request <- MCRequest
  None = None
  Failed = Failed
  UserStep = UserStep
  Depth = 2
  MaxCommits = 3
  MaxSent = 1
  MaxRequests = 1
INVARIANTS
  StageNamesUnique
