CONSTANTS
    Filters = {f1, f2}
    None = None
    MaxEvents = 2
SPECIFICATION FairEventSpec
INVARIANTS NeverClosedTwice TopicsServed
    SeenOnce PollNeverWaits NoLostConsumer
PROPERTY RequestsEnd
CHECK_DEADLOCK FALSE
