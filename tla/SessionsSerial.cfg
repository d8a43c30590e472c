\* One request at a time: every promise about sessions.
CONSTANTS
    k1 = k1
    k2 = k2
    k3 = k3
    Token <- MCToken
    User = {eva}
    Request = {r1}
    Calls = {"login", "refresh", "logout", "active", "change", "reset"}
    MaxTime = 6
    MaxHash = 3
SPECIFICATION Spec
SYMMETRY Symmetry
INVARIANTS OneLivePerFamily ReuseEndsFamily OldPasswordIsOut SignedOutIsOut LiveIsNewer
PROPERTIES LinkWorksOnce EndedStaysEnded
