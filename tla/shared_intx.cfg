SPECIFICATION Spec
CONSTANTS
  Uses = {{"smbus", "xhci"}}
  Routes = {11}
INVARIANT Heard
CHECK_DEADLOCK FALSE
