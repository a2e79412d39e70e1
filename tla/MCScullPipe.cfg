CONSTANTS
    Procs = {p1, p2, p3}
    Bytes = {x, y}
    Sizes = {2, 3}
    FirstSize = 3
SYMMETRY Alike
SPECIFICATION Spec
INVARIANTS SleepersNotForgotten BufferInUse
PROPERTY ImplementsFifo
