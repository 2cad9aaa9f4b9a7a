SPECIFICATION Spec
CONSTANTS
    Shares = {"s1", "s2"}
    IdOf <- MCIdOf
    Ahead <- MCAhead
    Local = "L"
    InviteTTL = 2
    Skew = 1
    GrantTTL = 5
    CertLife = 3
    SnapshotTTL = 5
    StaleAfter = 2
    JobIds = {"j1", "j2"}
    MaxEntries = 2
    MaxTries = 3
    ChunkSize = 2
    IdentityKeys = {"k1", "k2", "k3"}
    Dirs = {"d1", "d2", "t1", "p"}
    ProjectDir = "p"
    PreflightTTL = 1
    MaxReceipts = 2
    Daemons = {"daemon1", "daemon2"}
    Clients = {"cli"}
    MaxSecrets = 2
    Calls = {"c1", "c2"}
    TicketTTL = 1
    SessionTTL = 3
    MaxTickets = 2
    MaxWebSessions = 2
    Setups <- MCSetups
INVARIANTS TypeOK TrustFollowsLog SecretsKept ApprovedExecution BrowserAdmission
PROPERTIES StatusCurrent PeersAuthorized TransferWhole StateFollowsRoot
CHECK_DEADLOCK FALSE
