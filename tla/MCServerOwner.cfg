SPECIFICATION Spec
CONSTANTS
    u1 = u1  v1 = v1  c1 = c1  c2 = c2
    p1 = p1  a1 = a1  n1 = n1  h1 = h1
    NoConfig = NoConfig  NoHash = NoHash  NoRow = NoRow  Idle = Idle
    Names = {n1}  Hashes = {h1}
    Users = {u1}
    Videos = {v1}  Configs = {c1, c2}  Parts = {p1}  Assets = {a1}
    Requests = {r1, r2}
    Inputs <- OwnerInputs
SYMMETRY Slots
INVARIANTS StaysInSnapshotBucket PasswordHasHash
