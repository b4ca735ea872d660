CONSTANTS
    Exceptions = {3, 17}
    Lines = {0, 1, 8, 14}
    Addrs = {1, 2}
    Errs = {6}
    MaxDepth = 3
    MaxTraps = 4
SPECIFICATION Spec
INVARIANTS HandlerSeesCause TicksExact
PROPERTIES ContextRestored
