\* Two definitions; as in the code, the subscription holds all events. A single slot in eventsCh.
SPECIFICATION FairSpec
CONSTANTS
  Definitions = 2
  BrokerBuffer = 4
  EventsBuffer = 1
INVARIANTS
  EventsInOrder
PROPERTIES
  TimelySubscriberSeesJob
  CleanupEnds
