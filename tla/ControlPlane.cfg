\* Two requests, one call of the reload endpoint, one device, one crash and
\* one edit by the operator.
CONSTANTS
    r1 = r1
    r2 = r2
    alice = alice
    bob = bob
    laptop = laptop
    base = base
    first = first
    odd = odd
    cut = cut
    reload = reload
    Empty = Empty
    Broken = Broken
    NoText = NoText
    NoDevice = NoDevice
    Requests = {r1, r2}
    Writers = {r1, r2}
    Threads = {reload}
    Users = {alice, bob}
    Admins = {alice}
    WithEmail = {alice}
    Devices = {laptop}
    OwnerOf <- MCOwnerOf
    Scenarios <- MCScenarios
    MaxElsewhere = 1
    Texts <- MCTexts
    Fragments = {cut}
    Deployed = base
    TextOf <- MCTextOf
    VersionOf <- MCVersionOf
    LastSecond = 1
    MaxEdits = 1
    MaxCrashes = 1
SPECIFICATION FairSpec
CHECK_DEADLOCK FALSE
INVARIANTS
    TypeOK
    TrustIsEvidenced
    ReloadsSettle
    EmptyByAccident
    BackupsBound
    MixedByThread
PROPERTIES
    WithdrawalSticks
    AuditNamesPolicy
    ChangesAreAuthorised
    IdentitySettles
