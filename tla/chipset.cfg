SPECIFICATION Spec
INVARIANTS LinesServed TimersOnTime DataIntact BoardServed HostExact
PROPERTIES NestedService LinesFollowCauses
CHECK_DEADLOCK FALSE
