SPECIFICATION Spec
CONSTANTS
    cpu1 = cpu1
    cpu2 = cpu2
    cpu3 = cpu3
    Cpu = {cpu1, cpu2, cpu3}
    Sibling <- MCSibling
    Irq = {irq1, irq2}
    Fixed = {irq2}
    Environment <- MCEnvironment
    ExecsLast = TRUE
    MaxLocks = 1
    NULL = NULL
SYMMETRY CpuSymmetry
VIEW HostView
INVARIANTS
    BenchCpuQuiet
    RestoresFound
