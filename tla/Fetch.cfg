SPECIFICATION Spec
CONSTANTS
    q1 = q1
    q2 = q2
    r1 = r1
    r2 = r2
    Users = {u1}
    Requests = {q1, q2}
    Routes = {r1, r2}
    pattern <- MCPattern
    Matches <- MCMatches
    NoRoute = NoRoute
    MaxOps = 3
INVARIANTS
    InSync
    OneAnswer
    RouteMatches
PROPERTIES
    DispatchedGoesOn
