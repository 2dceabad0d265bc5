\* Two intents, two changes of the registry, on either repository, with a request of
\* several steps and a thread and a message that refresh the catalog meanwhile.
SPECIFICATION Spec
CONSTANTS
  transfer = transfer
  help = help
  url1 = url1
  url2 = url2
  Absent = Absent
  NoRead = NoRead
  Codes <- TwoCodes
  Fields <- OneField
  Values <- TwoUrls
  Priorities <- Ranks
  Payloads <- TwoPayloads
  Initial <- OneOfEach
  DemoIntents <- OneDemo
  UseDemo = TRUE
  Backends = {"memory", "database"}
  Admins = {a1}
  MaxWrites = 2
INVARIANTS
  TypeOK
  RecordsAreWhole
  SnapshotIsWhole
  DispatchIsWhole
PROPERTIES
  NothingRevived
  CatalogCatchesUp
CHECK_DEADLOCK FALSE
