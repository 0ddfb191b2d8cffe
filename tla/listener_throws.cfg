CONSTANT Cases <- ThrowingListenerCases
INIT Init
NEXT Call
INVARIANT PacketsRouted
