SPECIFICATION Spec
INVARIANTS ServedOnceInOrder 
PROPERTIES StepsBounded
CHECK_DEADLOCK FALSE
