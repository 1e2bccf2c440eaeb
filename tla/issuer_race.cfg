SPECIFICATION AllSpec
CONSTANTS
    c1 = c1
    r1 = r1
    r2 = r2
    s1 = s1
    s2 = s2
    a = a
    b = b
    sa = sa
    sb = sb
    m1 = m1
    m2 = m2
    none = none
    any = any
    auto = auto
    Source = {source}
    Connection = {c1}
    Health = health
    Interval = 1
    EventsMaxNow = 2
    MaxState = 2
    MaxCommands = 3
    MaxBeats = 2
    Receiver = {r1, r2}
    Uri = {a, b}
    ClientSource = {s1, s2}
    MaxActivations = 3
    Service = {sa, sb}
    Nobody = none
    MaxServices = 2
    MaxDiscoveries = 2
    MaxFlows = 1
    MaxRestarts = 1
    Data = {"first", "second", "wrong"}
    ValidData = {"first", "second"}
    MaxRenewals = 2
    Issuer = {sa, sb}
    Used = sa
    MaxRotations = 1
    Advert <- Adverts
    MaxReplies = 2
    Monitor = {m1, m2}
    Domain = {"stream", "sync", "link"}
    ActiveDomain = {"stream"}
    OptionalDomain = {"sync"}
    Delay <- Delays
    MaxNow = 5
    MaxReports = 2
    MaxRequests = 2
    MaxDelay = 2
    Id = {i1, i2, i3}
    Wanted = {i1, i2}
    PageLimits = {0, 1, 2}
    MaxTime = 4
    Endpoint <- MadeEndpoints
    Patches <- AskedPatches
    AutoValue = auto
    Free = any
    RtpPort = 10
    GroupOf <- Groups
    MaxPatches = 3
CHECK_DEADLOCK FALSE
INVARIANT KeysFollowMetadata
