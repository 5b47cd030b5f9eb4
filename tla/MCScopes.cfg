CONSTANTS
    Fns <- MCFns
    Items <- MCItems
    Types <- MCTypes
    Ports <- MCPorts
    Paths <- MCPaths
SPECIFICATION Spec
INVARIANTS
    NamesResolveLexically
    BlocksKept
CHECK_DEADLOCK FALSE
