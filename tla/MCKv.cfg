SPECIFICATION Spec
SYMMETRY Symmetry
CONSTANTS
    Keys = {k1, k2}
    Vals = {"A1", "A2", "B1"}
    Fields = {"A", "B"}
    FieldsOf <- MCFieldsOf
    NoVal = NoVal
    Threads = {t1, t2}
    Owners = {o1, o2}
    Singletons = {s1}
    NoOwner = NoOwner
    NoThread = NoThread
    Tombstone = Tombstone
    Workloads <- MCWorkloads
    DropPanics = FALSE
    StaleRemoves = FALSE
    MaskedUpdates = FALSE
INVARIANTS
    
    Isolated
PROPERTIES
    TransactionsAtomic
