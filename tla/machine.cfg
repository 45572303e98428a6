SPECIFICATION Spec
INVARIANTS OwnedOnce   GuestsServed
CHECK_DEADLOCK FALSE
