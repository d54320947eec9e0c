\* A DlvCommand and a GoIferr overlapping, failing terminal commands and
\* descriptor exhaustion, with all output of the run fitting in one pipe.
CONSTANTS
    g1 = g1  g2 = g2
    Orig = Orig
    NilFile = NilFile
    Blank = Blank  Prompt = Prompt
    G <- MC_Slots
    Kind <- MC_DlvAndIferr
    OutLens = {1}
    CallFails <- MC_CallAny
    Cap = 2
    FdLimit = 5
    MaxCalls = 3
SPECIFICATION Spec
INVARIANT TypeOK
\* The plugin waits for the user once every call has returned.
CHECK_DEADLOCK FALSE
