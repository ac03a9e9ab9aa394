SPECIFICATION Spec
CONSTANTS
    Tasks = {w1, w2}
    Threads = {t1}
    Initial = 0
    MaxReleased = 1
PROPERTIES
    ServedInOrder
CHECK_DEADLOCK FALSE
