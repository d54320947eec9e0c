\* Two concurrent *Delve handlers with every command and argument form,
\* two breakpoints, two stops and failing RPCs.
CONSTANTS
    g1 = g1  g2 = g2
    G <- MC_Slots
    ArgForms <- MC_AllForms
    MaxBp = 2
    MaxStops = 2
    RpcErrors = TRUE
SPECIFICATION Spec
INVARIANT TypeOK
\* A panic ends the plugin; an idle plugin waits for the user.
CHECK_DEADLOCK FALSE
