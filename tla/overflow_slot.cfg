CONSTANTS
    opReset = opReset
    opCreateConn = opCreateConn
    opChanMap = opChanMap
    opEncrypt = opEncrypt
    opExtAdvData = opExtAdvData
    h1 = h1
    h2 = h2
    NoHandle = NoHandle
    Handles = {h1, h2}
    Opcodes = {opExtAdvData}
    Commands <- OverflowOnly
    MaxCalls = 2
SPECIFICATION Spec
CHECK_DEADLOCK FALSE
INVARIANT PendingSlotConsistent
