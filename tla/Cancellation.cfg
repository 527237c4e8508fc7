SPECIFICATION Spec
CONSTANT Calls = {c1, c2}
INVARIANT NoChildOutlivesCancel
PROPERTY NoOutputAfterCancel
PROPERTY CancelStopsCalls
CHECK_DEADLOCK FALSE
