SPECIFICATION Spec
CONSTANTS
    thread1 = thread1
    thread2 = thread2
    thread3 = thread3
    Threads <- MCThreads
    PoolSize = 2
INVARIANTS  OneQueryPerConnection SearchIsThorough
SYMMETRY MCSymmetry
