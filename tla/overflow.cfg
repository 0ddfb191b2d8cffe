CONSTANTS
    opReset = opReset
    opCreateConn = opCreateConn
    opChanMap = opChanMap
    opEncrypt = opEncrypt
    opExtAdvData = opExtAdvData
    h1 = h1
    h2 = h2
    NoHandle = NoHandle
    Handles = {h1, h2}
    Opcodes = {opReset, opExtAdvData}
    Commands <- OverflowCommands
    MaxCalls = 3
SPECIFICATION FairSpec
CHECK_DEADLOCK FALSE
INVARIANT TimerArmedIffPending
PROPERTY SlotEventuallyFreed
INVARIANT PendingSlotHolder
