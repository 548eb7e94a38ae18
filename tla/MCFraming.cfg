CONSTANTS
  PayloadBytes <- SomeBytes
  Payloads <- SomePayloads
  MaxFrames = 2
SPECIFICATION Spec
INVARIANTS TypeOK AssertsHold MessagesAreThoseSent
PROPERTY AllHandled
CHECK_DEADLOCK FALSE
