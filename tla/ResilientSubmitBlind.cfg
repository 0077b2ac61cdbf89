SPECIFICATION Spec
CONSTANTS
  MaxAttempts = 4
  MaxOutages = 5
INVARIANTS FailureWhenUnverified
