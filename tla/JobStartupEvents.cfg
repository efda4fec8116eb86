\* The same instance.
SPECIFICATION FairSpec
CONSTANTS
  Definitions = 2
  BrokerBuffer = 4
  EventsBuffer = 1
PROPERTY WarmUpCaptured
