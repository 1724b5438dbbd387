CONSTANTS
    Values = {x, y}
    MaxSize = 4
    Garbage = Garbage
    High = 2
    Low = 2
    Flag = 4
    NextHops = {1, 2, 4}
    MaxRoutes = 3
    Bits = 4
    Buckets = 2
    MaxAdds = 3
    NumModules = 5
SPECIFICATION AnySpec
INVARIANTS TypeOK IndicesAgree FibLongestMatch RoutesLongestMatch
           GroupsArePaths OnceUnlessShortcut
PROPERTY DequeSpec
\* Tables and groups are complete.
CHECK_DEADLOCK FALSE
