SPECIFICATION Spec
CONSTANTS
    alice = alice
    bob = bob
    t1 = t1
    admin = admin
    notifier = notifier
    index = index
    list = list
    extra = extra
    home = home
    contact = contact
    about = about
    User = {alice, bob}
    Team = {t1, t2}
    Group = {admin, staff}
    AdminGroup = admin
    Founder = alice
    Colleague = bob
    FirstTeam = t1
    Request = {r1, r2}
    RequestKind = {"setTeams", "addMember", "removeMember", "setAsAdmin", "createTeam", "deleteTeam", "saveGroup", "deleteGroup", "hasPermissions", "login"}
    Demand = {d1, d2, d3}
    MaxAccounts = 2
    MaxFailed = 5
    Secret = {s1, s2}
    Submission = {f1, f2, f3}
    Trigger = {w1, w2}
    MaxSeoRequests = 3
    Visit = {v1, v2}
    MaxForeignPushes = 1
    MaxSeoCrashes = 1
    Tracker = {notifier}
    TrackerType <- MCTrackerType
    LeadConnector <- MCLeadConnector
    Link = {l1, l2}
    Batch = {p1, p2}
    Greeting = {g1, g2}
    ChunkSize = 1
    MaxTrackRuns = 2
    MaxTrackCrashes = 1
    Text = {m1, m2}
    MaxStays = 2
    MaxRegistrationAttempts = 2
    MaxParkingCrashes = 1
    Scan = {scan1, scan2}
    Url = {home, contact, about}
    Root = root
    ContactPage = {contact}
    Sitemap = {index, list, extra}
    SitemapPlaces <- MCCandidates
    Body <- MCBody
    MaxDepth = 2
    MaxNested = 3
    MaxPages = 3
    MaxVisits = 2
    MaxHits = 1
    Errand = {e1, e2}
    Person = {ann, bea}
    Snippet = {q1, q2}
    Persistent = TRUE
    HasCredentials = TRUE
    MaxClicks = 1
    MaxRounds = 2
    LastShortRound = 0
    MaxSnippets = 1
    PageLimit = 2
    Save = {u1, u2, u3}
    Field = {name, phone}
    Signed = {u1, u2}
INVARIANTS
    AccessIsSound
    AccountsAreSound
    SecretsAreKept
    PostIsSound
    NoticesAreSound
    StaysAreSound
    ScanIsSound
    ErrandsAreSound
    ChangelogIsSound
PROPERTIES
    SettingsNotReplaced
    PostAdvances
CHECK_DEADLOCK FALSE
