\* Waiting and backing off: wakeups, cooldowns and timeouts; no factory can fail.
SPECIFICATION FairSpec
CONSTANTS
  a1 = a1  a2 = a2  c1 = c1  c2 = c2  c3 = c3  r1 = r1  r2 = r2
  l1 = l1  l2 = l2  l3 = l3
  Resources = {r1, r2}
  Attempts = {a1, a2}
  Callers = {c1, c2, c3}
  Leases = {l1, l2}
  AttemptOf <- MCAttemptOf
  Matches <- MCMatches
  Algorithm <- MCMixed
  Timeouts <- MCImpatient
  InitialCapacity <- MCOne
  Capacities = {1}
  Published = {r1, r2}
  Publishable = {}
  Revocable = {}
  Factories = {}
  Fallible = {}
  DegradeAfter <- MCOne
  DeadAfter <- MCTwo
  Cooldown <- MCTwoOne
  MaxDelay = 1
  Stragglers = FALSE
  Never = Never  NoTimer = NoTimer  NoLease = NoLease
INVARIANTS NoLostWakeup
PROPERTIES CooldownWakesWaiters BoundedWait
