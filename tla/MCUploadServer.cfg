SPECIFICATION RaceSpec
CONSTANTS
    u1 = u1  u2 = u2  v1 = v1  c1 = c1
    p1 = p1  p2 = p2  a1 = a1  n1 = n1  h1 = h1  w1 = w1  w2 = w2
    NoConfig = NoConfig  NoHash = NoHash  NoRow = NoRow  Idle = Idle
    Names = {n1}  Hashes = {h1}
    Users = {u1, u2}
    Videos = {v1}  Configs = {c1}  Parts = {p1, p2}  Assets = {a1}
    Requests = {r1, r2, r3}
    Inputs <- RaceInputs
    Watched = {"v1", "v2"}
    Browsers = {"owner", "guest"}
    Owner = "owner"
    Passwords = {"p1", "p2"}
    Visits = {w1, w2}
    MAX_VERIFIED_HASHES = 2
    MaxHashes = 3
SYMMETRY Slots
CHECK_DEADLOCK FALSE
INVARIANTS TypeOK CompleteHasObject AnsweredIsPublished AssembledKeepsRow UnlockedCanWatch
PROPERTY ImplementsLifecycle
