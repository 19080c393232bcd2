\* A breaker that opens on the second failure, with three concurrent requests.
CONSTANTS
    Callers = {c1, c2, c3}
    FailureThresh = 2
    Timeout = 2
    FailureWindow = 2
    MaxTime = 6
SPECIFICATION HFairSpec
INVARIANTS ClosedMeansNoBurst
PROPERTIES
    ImplementsGate ProbeReleased OpensOnlyOnBurst CoolDownRespected
