\* One server that loses leases, crashes and restarts, and one client connection.
\* Processes end and the calls of doResolveNow are bounded: the model may stop.
CONSTANTS
  h1 = h1
  Host = {h1}
  MaxLease = 3
  MaxFaults = 2
  LateRequests = TRUE
  MaxTries = 2
  MaxResolve = 2
  MaxTrouble = 3
CHECK_DEADLOCK FALSE
SPECIFICATION Spec
INVARIANTS TypeOK HealthyIsRegistered QuietIsCurrent
PROPERTIES KeyFollowsServer AddressesFollow
