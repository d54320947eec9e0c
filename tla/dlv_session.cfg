\* Two concurrent Dlv* commands, two dlv server spawns, every command.
CONSTANTS
    g1 = g1  g2 = g2  p1 = p1  p2 = p2  f1 = f1  f2 = f2
    NoProc = NoProc  s1 = s1  NoFile = NoFile
    SrcFiles <- MC_SrcFiles
    G <- MC_TwoSlots
    Procs <- MC_TwoProcs
    Funcs <- MC_Funcs
    MaxBpId = 1
    MaxHits = 1
    Commands <- MC_AllCommands
    TermOps <- MC_AllTermOps
    ArgForms <- MC_AllForms
SPECIFICATION Spec
SYMMETRY MC_Symmetry
INVARIANT TypeOK
\* A panic ends the plugin process: nothing runs after it.
CHECK_DEADLOCK FALSE
