SPECIFICATION Spec
CONSTANTS
  JSP_BUFFER_SIZE = 3
  BURST = 2
  MaxBytes = 4
  MaxLate = 1
  ClientMayLag = TRUE
INVARIANT TypeOK
PROPERTIES
  ToHwInOrder
  FromHwInOrder
  ToHwDelivered
