CONSTANTS
    Callers = {"main", "recv"}
    MaxSends = 2
SPECIFICATION Spec
PROPERTY EverySendPacked
CHECK_DEADLOCK FALSE
