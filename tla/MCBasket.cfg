SPECIFICATION Spec
CONSTANTS
  Capacity = 10
  MaxFruit = 12
INVARIANT BasketBounded
CHECK_DEADLOCK FALSE
