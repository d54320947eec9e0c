\* Two concurrent *Delve handlers with every command and argument form and
\* failing RPCs: does any error end the plugin?
CONSTANTS
    g1 = g1  g2 = g2
    G <- MC_Slots
    ArgForms <- MC_AllForms
    MaxBp = 2
    MaxStops = 2
    RpcErrors = TRUE
SPECIFICATION Spec
INVARIANT ErrorsNeverEndPlugin
\* A panic ends the plugin; an idle plugin waits for the user.
CHECK_DEADLOCK FALSE
