SPECIFICATION Spec
CONSTANTS
  Turns = {t1}
  None = None
  JobIds = {j1}
  Specs = {hourly}
  BadSpecs = {}
  Contents = {plain, fenced}
  FencedContents = {fenced}
  Backends = {"host"}
  e1 = e1
  Endpoints <- OneEndpoint
  ServerNames = {"mcp"}
  RemoteTools = {"search"}
  Optional = {}
  Sites <- CatalogueSites
  CommandNames <- CatalogueCommands
  HelpArguments <- CatalogueArguments
  MaxInputs = 3
  Values <- CallValues
INVARIANTS
  PersistedIsReadable
