CONSTANTS
    a = a
    b = b
    root = root
    p = p
    q = q
    su = su
    r = r
    Procs = {p, q, su, r}
    Users = {a, b, root}
    uid <- MCuid
    euid <- MCeuid
    Privileged = {r}
    NoOwner = NoOwner
    Waits = TRUE
    TtProcs = {p, q, r}
    MaxTtys = 3
    MaxTinies = 2
    MaxCount = 3
    XmitSize = 3
    Wakeup = 2
    SkFiles = {p, q}
    MaxPlugs = 2
    MaxPackets = 3
    MaxUrbs = 1
SPECIFICATION OpenSpec
INVARIANTS SingleOpen Conserved HoldersAllowed SleepersNotForgotten PortsKept
