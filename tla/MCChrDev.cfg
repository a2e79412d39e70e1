CONSTANTS
    Procs = {p1, p2, p3}
    Bytes = {zero, one}
    Zero = zero
    Size = 3
    MaxFaults = 2
SYMMETRY Alike
SPECIFICATION Spec
INVARIANTS SleepersNotForgotten CountExact
PROPERTY FifoSteps
