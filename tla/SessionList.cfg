\* Two rows and two included servers that know the same sessions.
SPECIFICATION Spec

CONSTANTS
  c1 = c1  c2 = c2  h1 = h1  h2 = h2  i1 = i1  i2 = i2  i3 = i3
  v1 = v1  v2 = v2  v3 = v3  draw = draw  adult = adult
  NoHost = NoHost  NoFilter = NoFilter  Pending = Pending  NoRow = NoRow

  Clients = {c1, c2}
  LocalClients = {c2}
  Hosts = {h1, h2}
  AddressOf <- ClientAddresses
  Resolved <- ResolvedHosts
  Ids = {i1, i2, i3}
  IdLength <- IdLengths
  Versions = {v1, v2, v3}
  WellFormedVersions = {v1, v2, v3}
  ProtocolWhitelist = {}
  AllowWellKnownPorts = FALSE
  Titles = {1, 2}
  NsfmTitles = {1}
  Subtexts = {draw, adult}
  TitlesWith <- CaseSensitive
  TitlesLike <- AnyCase
  VersionsWith <- VersionTexts
  MaxRows = 2
  Announced <- Inputs
  Asked <- Queries
  IncludeServers = 2
  Included <- ServerLists
  MergeText <- DashedNames
  HasDatabase = TRUE
  Public = TRUE

INVARIANTS
  TypeOK
  MergedAnswer
  OrderSettled
  NsfmConsent
  FiltersAgree
