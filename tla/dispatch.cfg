CONSTANTS
    opReset = opReset
    opCreateConn = opCreateConn
    opChanMap = opChanMap
    opEncrypt = opEncrypt
    opExtAdvData = opExtAdvData
    h1 = h1
    h2 = h2
    NoHandle = NoHandle
    Opcodes = {opReset, opCreateConn, opChanMap}
    Handles = {h1, h2}
    Commands <- DispatchCommands
    MaxCalls = 3
SPECIFICATION FairSpec
CHECK_DEADLOCK FALSE
INVARIANT TypeOK
INVARIANT PendingSlotConsistent
INVARIANT TimerArmedIffPending
INVARIANT RepliesMatchConnection
PROPERTY EveryCallSettles
PROPERTY ImplementsCmdSlot
