SPECIFICATION Spec
CONSTANTS
    Procs = {p1, p2, p3}
    Keys = {k1, k2, k3}
    EnvKeys = {k1}
    None = None
INVARIANTS
    SecretBeforeName
    IdentityIsKept
    SavedKeyStays
    LockIsHeldByAStarter
    ServedIdentitiesAreWhole
