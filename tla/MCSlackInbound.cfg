SPECIFICATION Spec
CONSTANTS
  Daemon = {d1}
  NoDaemon = NoDaemon
  Receivers = {d1}
  MaxEnvelopes = 2
  MaxFaults = 2
  d1 = d1
INVARIANTS
  
  SentNeverRefused
  AckedIsDurable
PROPERTIES
  EffectSettles
  
CHECK_DEADLOCK FALSE
