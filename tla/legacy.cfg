CONSTANTS
    opReset = opReset
    opScanEnable = opScanEnable
    opAdvData = opAdvData
    Opcodes = {opReset, opScanEnable, opAdvData}
    Commands <- LegacyCommands
    MaxCalls = 3
SPECIFICATION FairSpec
CHECK_DEADLOCK FALSE
INVARIANT LegacyTypeOK
INVARIANT TimerArmedIffPending
INVARIANT RepliesMatchOpcode
PROPERTY EveryCallSettles
INVARIANT PendingSlotHolder
