SPECIFICATION RequestSpec
CONSTANTS
  CONNECT_TIMEOUT = 2
  IO_TIMEOUT = 3
  DEADLINE = 10
  MaxAddresses = 6
  HandshakeReads = 2
  RecordReads = 4
  CHUNK = 3
  Endpoints <- MCEndpoints
  Calls <- MCCalls
  Responses <- MCResponses
INVARIANTS
  CallBounded
  BodyFaithful
CHECK_DEADLOCK FALSE
