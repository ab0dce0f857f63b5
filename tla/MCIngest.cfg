SPECIFICATION IngestSpec
CONSTANTS
  e1 = e1
  e2 = e2
  e3 = e3
  k1 = k1
  r1 = r1
  r2 = r2
  n1 = n1
  n2 = n2
  Kinds <- MCKinds
  MaxFrames <- MCMaxFrames
  MaxTicks = 1
  CarryFrames <- MCCarryFrames
  MaxEntities = 2
  MaxPending = 2
  ReasmTtl = 1
  Datagrams <- MCDatagrams
  Radars = {r1, r2}
  Sentences <- MCSentences
  FixMaxAge = 0
  HasSite = TRUE
  ChannelFrames = 1
  Sites <- MCSites
  RecordFrames <- MCRecordFrames
  MarkingConfigs <- MCMarkings
  MaxConfigTags = 4
  SingleFrames <- MCSingleFrames
  GenericConfigs <- MCGenericConfigs
  MimTypes <- MCMimTypes
  Vocabulary <- MCVocabulary
  Languages = {"rust", "go", "python", "cpp"}
  Drafts <- MCDrafts
  Deliveries <- MCDeliveries
  GuardConfigs <- MCGuards
  KeyNames <- MCKeyNames
  MaxTags = 2
  MaxEntries = 3
INVARIANTS   MarkingIsFloor MappingGoverned SdksAlike
PROPERTIES ReportsReachParser
CHECK_DEADLOCK FALSE
