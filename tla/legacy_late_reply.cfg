CONSTANTS
    opReset = opReset
    opScanEnable = opScanEnable
    opAdvData = opAdvData
    Opcodes = {opReset}
    Commands <- LegacyResetOnly
    MaxCalls = 2
SPECIFICATION Spec
CHECK_DEADLOCK FALSE
INVARIANT ResolvedByOwnReply
