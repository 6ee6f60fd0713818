SPECIFICATION Spec
CONSTANTS
    parent = parent  child = child  box = box
    l1 = l1  l2 = l2
    c1 = c1  c2 = c2  c3 = c3
    Hosts = {box}
    Loops = {l1}
    Clients = {c1, c2}
    Users = {u}
    DependsOn <- NoDependencies
    LoopOf <- OneLoop
    NoLoop = NoLoop
    NoClient = NoClient
    MaxGen = 2
INVARIANT StaleCloseHasNoAuthority
\* The program may stop: every loop closed, or every epoch used.
CHECK_DEADLOCK FALSE
