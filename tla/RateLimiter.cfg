SPECIFICATION BucketSpec
CONSTANTS
  Capacity = 2
  RefillPerSecond = 300
  MaxClock = 14
  MaxAdmitted = 5
INVARIANT AdmissionsAreLimited
PROPERTY RetryAfterIsExact
