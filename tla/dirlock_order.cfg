SPECIFICATION Spec
CONSTANTS
  Stacks <- SomeStacks
  Blocking <- SomeBlocking
INVARIANT OldestFirst
