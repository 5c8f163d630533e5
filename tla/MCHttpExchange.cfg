CONSTANTS
  Requests <- AllRequests
  Answers <- SomeAnswers
  Registered <- OnePath
  ZippedSizes = {0, 1, 2, 3}
  Room = 29
  MaxLength = 9
  Numeral <- Decimal
SPECIFICATION ExchangeSpec
INVARIANTS
  HandledAsSent
  FoundComplete
  AnswerReadBack
CHECK_DEADLOCK FALSE
