SPECIFICATION CallableStreamSpec
CONSTANT MaxStreams = 3
INVARIANTS
  CallableStreamTypeOK
  DriverHandedOver
  SummaryAfterEnd
  StreamsApart
