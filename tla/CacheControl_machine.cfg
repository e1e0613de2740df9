SPECIFICATION Spec
CONSTANTS
    c1 = c1
    c2 = c2
    CPUs = {c1, c2}
    Procs = {"one", "two"}
    Fast = 3
    Slow = 1
    MaxFds = 1
    MaxLoads = 1
SYMMETRY Cores
INVARIANTS
    IndInv
    PristineOrSaid
