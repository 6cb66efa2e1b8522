SPECIFICATION PatientSpec
CONSTANTS
  s1 = s1
  s2 = s2
  sl1 = sl1
  sl2 = sl2
  PoolSize = 3
  Senders = {s1, s2}
  Slaves = {sl1, sl2}
  NoSlave = NoSlave
  Cyclic = {sl1}
  Partners <- Addressees
  MaxSends <- Calls
  Limits = {0}
INVARIANTS TypeOK TicketsNameOwnEntries TicketAvailable BuffersConserved
PROPERTIES ServiceSpec EveryEntryGetsATurn Drains
ACTION_CONSTRAINT Paced
