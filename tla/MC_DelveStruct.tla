-------------------------- MODULE MC_DelveStruct --------------------------
(* Model-checking instance of DelveStruct: the constants of the runs.      *)
EXTENDS DelveStruct

CONSTANTS g1, g2

MC_Slots == {g1, g2}

\* Every form of DlvBreak arguments parseArgs distinguishes: the cursor
\* line, "pkg.Func", a failing WindowCursor, too many arguments, a name
\* without a dot, and "pkg.".
MC_AllForms == {"cursor", "dotted", "cursor_err", "many", "nodot", "emptyname"}
=============================================================================
