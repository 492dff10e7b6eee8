\* Runs of the command line over one evidence directory, with crashes.
SPECIFICATION Spec
CONSTANTS
  None = None
  FileNames <- MCFileNames
  Argvs <- MCArgvs
  Scenarios <- MCScenarios
  Files <- MCFiles
  Manifests <- MCManifests
  Policies <- MCPolicies
  PinFiles <- MCPinFiles
  Registered <- MCRegistered
  Answers <- MCAnswers
  Environment <- MCEnvironment
  Collected <- MCCollected
  DefaultFacts = 5
  MaxFactsBound = 9
  MaxClock = 1
  MaxRuns = 2
  MaxFaults = 1
INVARIANTS NoTornFile GreenMeansAll DiscoveryExact
CHECK_DEADLOCK FALSE
