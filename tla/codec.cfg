CONSTANT Cases <- PassCases
INIT Init
NEXT Call
INVARIANT CodecTypeOK
INVARIANT EncodeRoundTrip
INVARIANT DecodersReportShortfall
INVARIANT PacketsRouted
INVARIANT SupportedStatesDecoded
INVARIANT UartConfigured
INVARIANT TransportSettles
