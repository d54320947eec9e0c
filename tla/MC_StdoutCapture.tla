------------------------- MODULE MC_StdoutCapture -------------------------
(* Model-checking instance of StdoutCapture: the constants of the runs.    *)
EXTENDS StdoutCapture, TLC

CONSTANTS g1, g2

MC_Slots == {g1, g2}
\* A DlvCommand and a GoIferr in flight together.
MC_DlvAndIferr == (g1 :> "dlvcmd" @@ g2 :> "iferr")
\* Two DlvCommands in flight together.
MC_TwoDlv      == (g1 :> "dlvcmd" @@ g2 :> "dlvcmd")
\* Two GoIferr calls in flight together.
MC_TwoIferr    == (g1 :> "iferr" @@ g2 :> "iferr")

\* Call succeeds, or may also fail.
MC_CallOk      == {FALSE}
MC_CallAny     == {FALSE, TRUE}

\* Slots running the same handler are interchangeable.
MC_SameKindSymmetry == Permutations(MC_Slots)
=============================================================================
