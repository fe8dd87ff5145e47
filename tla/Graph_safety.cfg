SPECIFICATION Spec
CONSTANTS
  Ids <- MC_Ids
  TextOf <- MC_TextOf
  ShortOf <- MC_ShortOf
  Names <- MC_Texts
  Domains <- MC_Domains
  Calls <- MC_Calls
  Resources <- MC_Resources
  MaxEdges = 3
  BatchEdges = 2
INVARIANTS
  GraphTypeOK
  EdgesMirror
  OrderIsSound
  CyclesNamed
  TreesAreTrees
  NoSharedResource
PROPERTIES
  RefsHold
  ImplementsSchedule
  BatchEnds
CHECK_DEADLOCK FALSE
