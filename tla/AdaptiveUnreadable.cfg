CONSTANTS
    danger = danger
    cause = cause
    fast = fast
    slow = slow
    quiet = quiet
    Plans <- MCCalibrations
    Steps = {1, 2}
SPECIFICATION Spec
CHECK_DEADLOCK FALSE
PROPERTIES UnreadableIsHeld
