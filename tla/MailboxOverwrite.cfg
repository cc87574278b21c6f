SPECIFICATION Spec
CONSTANTS
    Main = main
    Workers = {worker}
    Null = null
PROPERTIES
    NeverOverwrites
