SPECIFICATION FairSpec
CONSTANTS
  Service = {s1, s2}
  Client = {handler, importer}
  Group = {importer}
  Syncing = {handler}
  Main = main
  MaxCallback = 3
INVARIANTS CallbackScheduled
PROPERTIES ImplementsSerial  
CHECK_DEADLOCK FALSE
