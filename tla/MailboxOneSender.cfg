SPECIFICATION Spec
CONSTANTS
    Main = main
    Workers = {}
    Null = null
INVARIANTS
    HandledOnReturn
    ShutdownStopsM4
