SPECIFICATION Spec
CONSTANTS
  HWP_MAX_WP = 2
  Addrs = {a1, a2}
  BP_MEMORY = bp_memory
  HwTypes = {bp_hardware, wp_write}
  Absent = absent
  HwpAnyTime = FALSE
INVARIANT RepeatsTakeNothing
