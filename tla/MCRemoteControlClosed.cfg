SPECIFICATION Spec
CONSTANT
    MaxSockets = 3
PROPERTY
    StreamClosedIsTrue
CHECK_DEADLOCK FALSE
