SPECIFICATION Spec
CONSTANTS
    Main = main
    Workers = {}
    Null = null
PROPERTIES
    ReloadsSleepingM4
