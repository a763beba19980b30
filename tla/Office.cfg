\* A part may come to its end.
CHECK_DEADLOCK FALSE
SPECIFICATION Spec
CONSTANTS
    None = None
    Sweep = Sweep
    Sessions = {s1}
    Contracts = {k1, k2}
    Loans = {k2}
    UssdRequests = {r1, r2}
    MaxOwed = 1
    MaxLives = 2
    Fulfilments = {f1, f2}
    Mandates = {m1}
    Handlers = {h1, h2}
    People = {ann, ben}
    ApprovalRequests = {q1, q2}
    Days = 5
    Grace = 1
    ClosedDays = {3}
    Threshold = 1
    Payments = {p1, p2, p3}
    Phones = {i1}
    Branches = {b1, b2}
    Agents = {ann}
    b1 = b1
    AgentBranch <- BranchOfAgents
INVARIANTS TypeOK OneCartASession ToldSuccessIsAccounted ApprovedIsCarriedOut
    StockAgrees
PROPERTIES EveryAnswerEnds SettledIsLearnt EveryDayChargedOnce
