------------------------- MODULE MC_DelveCommands -------------------------
(* Model-checking instance of DelveCommands: the constants of the runs.    *)
EXTENDS DelveCommands, TLC

CONSTANTS g1, g2, p1, p2, f1, f2, s1

\* Two goroutines: two Dlv* commands in flight at once.
MC_TwoSlots == {g1, g2}
\* One dlv server spawn per run, or a second start that overwrites the first.
MC_OneProc  == {p1}
MC_TwoProcs == {p1, p2}
MC_Funcs    == {f1}

MC_AllCommands == {"StartServer", "StartClient", "Breakpoint", "Continue",
                   "Next", "Restart", "Detach", "Kill", "Command",
                   "FunctionList"}
\* Without Restart and the terminal: hit counts on the server only grow.
MC_NoRestart == MC_AllCommands \ {"Restart", "Command"}
MC_AllTermOps == {"break", "clear", "continue", "restart"}
MC_AllForms   == {"none", "fn", "nodot", "many"}
\* Well-formed DlvBreakpoint arguments only.
MC_FnForm     == {"fn"}

\* One source file: the first stop renames the empty pane, and a failing
\* read leaves it empty under that name.
MC_SrcFiles == {s1}

MC_Symmetry == Permutations({g1, g2})

=============================================================================
