\* Every command line, socket buffers of a few bytes.
CONSTANTS
    Arguments <- MCArguments
    Commands <- MCCommands
    Capacity <- Sockets
    MAX_ARGS = 2
    MAX_STRING = 3
SPECIFICATION CallSpec
PROPERTIES
    ExitIsReturn
    ClientEnds
CHECK_DEADLOCK FALSE
