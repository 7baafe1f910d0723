SPECIFICATION Spec
CHECK_DEADLOCK FALSE
CONSTANTS
    Configs <- MCConfigs
    Slots = {1, 2, 3, 4, 5}
    Buffer = 1
    DeviceRoom = 1
INVARIANTS
    
    StreamsIntact

    
