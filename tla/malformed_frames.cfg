CONSTANT Cases <- MalformedCases
INIT Init
NEXT Call
INVARIANT MalformedFramesReported
