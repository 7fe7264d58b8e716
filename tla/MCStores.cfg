CONSTANTS
    r1 = r1
    r2 = r2
    r3 = r3
    r4 = r4
    Calls = {r1, r2, r3, r4}
    Requests = {r1, r2, r3, r4}
    Named = {s1}
    Prompts <- MCPrompts
    MaxSessions = 2
    MaxCallsPerSession = 2
    RecentMax = 2
    Scopes = {p, q}
    CallOf <- MCCallOf
    SessionsOf <- MCSessionsOf
    Chains <- MCChains
    Low64 <- MCLow64
    Cap = 2
    PerScopeCap = 1
    Generations = 2
    Ttl = 0
    ClockMax = 1
SPECIFICATION Spec
SYMMETRY Interchangeable
INVARIANTS SessionsAreSound StoreIsExact
