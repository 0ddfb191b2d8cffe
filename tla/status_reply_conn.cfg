CONSTANTS
    opReset = opReset
    opCreateConn = opCreateConn
    opChanMap = opChanMap
    opEncrypt = opEncrypt
    opExtAdvData = opExtAdvData
    h1 = h1
    h2 = h2
    NoHandle = NoHandle
    Handles = {h1, h2}
    Opcodes = {opEncrypt}
    Commands <- EncryptOnly
    MaxCalls = 1
SPECIFICATION Spec
CHECK_DEADLOCK FALSE
PROPERTY ReplyToPendingSettlesIt
