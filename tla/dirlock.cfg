SPECIFICATION FairSpec
CONSTANTS
  Stacks <- SomeStacks
  Blocking <- SomeBlocking
INVARIANTS TypeOK Exclusive QueueExact NoLostWakeup
PROPERTY AllServed
