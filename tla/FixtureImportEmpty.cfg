CONSTANTS
    a = a
    b = b
    x = x
    y = y
    P = P
    Q = Q
    early = early
    late = late
    group = group
    final = final
    None = None
    Sources = {a, b}
    Manual = {b}
    Externals = {x, y}
    Pairs = {P, Q}
    Stages = {group, final}
    Kickoffs = {early, late}
    MaxTime = 2
    Feed <- MCFeed
    Boundaries <- MCBoundaries
    Windows <- MCWindows
SPECIFICATION Spec
PROPERTY EmptyIsNoEvidence
