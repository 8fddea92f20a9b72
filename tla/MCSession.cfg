CONSTANTS
    RouteCount = 2
    DrainBudget = 1
    RetryMin = 1
    RetryMax = 2
    GiveUp = 2
    MaxRefusals = 1
    Snapshots = {probe, pump}
    Nobody = Nobody
    Throttled = {probe}
    Refreshed = {probe}
    Throttle = 1
    Refresh = 2
    MaxSkips = 1
    MaxTroubles = 4
SPECIFICATION Spec
INVARIANTS
    RoutesSound
    SnapshotsSound
    ConnectionSound
PROPERTIES
    PublishedInTheEnd
