SPECIFICATION RequestsSpec
CONSTANTS
  Types <- MCTypes
  Directives <- MCDirectives
  Implements <- MCImplements
  RootTypes <- MCRootTypes
  Families <- MCFamilies
  MaxUsize = 63
  q = q
  deep = deep
  bad = bad
  wrong = wrong
  sub = sub
  subs = subs
  n1 = n1
  n2 = n2
  f1 = f1
  f2 = f2
  f3 = f3
  None = None
  Empty = Empty
  Malformed = Malformed
  NReqs = 2
  Texts <- MCTexts
  Doc <- MCDoc
  Names <- MCNames
  Inputs <- MCInputs
  Chain <- MCChain
  Backend <- MCBackend
  StoreCap = 1
  MaxErrors = 1
  Fields <- MCFields
  Roots <- MCRoots
  Known <- MCKnown
  MaxEvents = 2
CHECK_DEADLOCK FALSE
INVARIANTS CyclesFound VariablesTraced LimitsExact AcceptedRuns CacheCovers ResponseComplete
INVARIANTS RightDocument FormattedOnce OwnResponse EventErrors
PROPERTY RequestsAnswered
