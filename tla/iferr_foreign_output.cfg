\* A DlvCommand overlapping a GoIferr.
CONSTANTS
    g1 = g1  g2 = g2
    Orig = Orig
    NilFile = NilFile
    Blank = Blank  Prompt = Prompt
    G <- MC_Slots
    Kind <- MC_DlvAndIferr
    OutLens = {1}
    CallFails <- MC_CallOk
    Cap = 2
    FdLimit = 16
    MaxCalls = 3
SPECIFICATION Spec
INVARIANT IferrBufferIsItsSource
\* The plugin waits for the user once every call has returned.
CHECK_DEADLOCK FALSE
