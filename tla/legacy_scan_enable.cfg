CONSTANT Cases <- ScanEnableCases
INIT Init
NEXT Call
INVARIANT EncodeRoundTrip
