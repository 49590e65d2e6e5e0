CONSTANTS
  Calls = {c1, c2}
  Queues = {q1, q2}
SPECIFICATION FairSpec
INVARIANTS Answered Reclaimed FeaturesOutliveCalls
PROPERTIES ShutdownEnds EveryCallAnswered
