SPECIFICATION Spec
CONSTANTS
  Turns = {t1, t2}
  None = None
  JobIds = {j1, j2}
  Specs = {hourly, bad}
  BadSpecs = {bad}
  Contents = {plain}
  FencedContents = {}
  Backends = {"docker", "host"}
  e1 = e1
  Endpoints <- OneEndpoint
  ServerNames = {"mcp", "cronjob"}
  RemoteTools = {"run_command", "search"}
  Optional = {"telegram"}
  Sites <- CatalogueSites
  CommandNames <- CatalogueCommands
  HelpArguments <- CatalogueArguments
  MaxInputs = 3
  Values <- CallValues
INVARIANTS
  TypeOK
  JobsKept
  JobsScheduled
  Confined
  NothingLeftOpen
  ArgumentsSurvive
PROPERTIES
  NeighboursSpared
  CallsReturnAll
