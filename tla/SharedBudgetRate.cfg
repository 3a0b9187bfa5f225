SPECIFICATION Spec
CONSTANTS
    Processes = {p1, p2}
    p1 = p1
    p2 = p2
    t1 = t1
    t2 = t2
    t3 = t3
    Threads = {t1, t2, t3}
    ProcessOf <- MCProcessOf
    Burst = 2
    TicksPerToken = 2
    Floors = {0, 1}
    None = None
    ClockAtStart = 2
    MaxTicks = 2
    MaxFaults = 0
INVARIANT BurstPlusRate
