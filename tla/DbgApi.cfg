SPECIFICATION Spec
CONSTANTS
  Addrs <- MCAddrs
  Setups <- MCSetups
  MaxFaults = 2
  MAX_BUS_ERRORS = 1
  MaxCount = 2
INVARIANT TypeOK SuccessIsExact CleanCallSucceeds RestsClean
PROPERTY OnlyAsked
CONSTRAINT UntilHarmed
