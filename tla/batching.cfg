CONSTANTS
  Limits = {0, 1, 2}
  MaxRetry = 3
SPECIFICATION Spec
PROPERTIES EveryLineSettles
