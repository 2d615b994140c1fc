SPECIFICATION Spec
CONSTANTS
    Setups <- MCSetups
    MaxFaults = 2
    MAX_WRITE = 7
    MAX_READ = 6
    CPLD_BITS = 39
    READ_RETRIES = 2
    FTDI_MAXRECV = 4
    FTDX_MAXSEND = 6
INVARIANT NothingOwed
PROPERTY StreamExact CallsReturn
