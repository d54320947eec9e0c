\* Two stops whose follow-up goroutines interleave.
CONSTANTS
    g1 = g1  g2 = g2
    G <- MC_Slots
    ArgForms <- MC_AllForms
    MaxBp = 1
    MaxStops = 2
    RpcErrors = FALSE
SPECIFICATION Spec
INVARIANT DisplayShowsLastStop
CHECK_DEADLOCK FALSE
