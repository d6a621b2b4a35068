\* Leases, capacity and the circuit breaker; one caller of every kind.
SPECIFICATION Spec
CONSTANTS
  a1 = a1  a2 = a2  c1 = c1  c2 = c2  c3 = c3  r1 = r1  r2 = r2
  l1 = l1  l2 = l2  l3 = l3
  Resources = {r1, r2}
  Attempts = {a1, a2}
  Callers = {c1, c2, c3}
  Leases = {l1, l2, l3}
  AttemptOf <- MCAttemptOf
  Matches <- MCMatches
  Algorithm <- MCEveryKind
  Timeouts <- MCImpatient
  InitialCapacity <- MCOne
  Capacities = {1}
  Published = {r1}
  Publishable = {r2}
  Revocable = {r1}
  Factories = {r1}
  Fallible = {r1}
  DegradeAfter <- MCOne
  DeadAfter <- MCTwo
  Cooldown <- MCOne
  MaxDelay = 1
  Stragglers = TRUE
  Never = Never  NoTimer = NoTimer  NoLease = NoLease
SYMMETRY MCSymmetry
INVARIANTS ActiveCountsLeases WithinCapacity TrackedAreHeld
PROPERTIES EndReturnsAll ImplementsLeaseTable FailuresOnlyForgivenBySuccess
