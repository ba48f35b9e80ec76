SPECIFICATION RequestSpec
CONSTANTS
  Requests <- AllRequests
  BufferLimit = 26
  MaxChanges = 1
INVARIANTS ForwardedAsMeant AcceptedByXai DisabledStaysOut AnswerAsMeant UsageSeen
CHECK_DEADLOCK FALSE
