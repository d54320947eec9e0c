------------------------------ MODULE MC_Guru ------------------------------
(* Model-checking instance of Guru: the constants of the runs.             *)
EXTENDS Guru, TLC

CONSTANTS g1, g2, x1, x2, b1, b2, k1, k2, d1

\* Two GoGuru calls in flight at once, or one.
MC_TwoCalls == {g1, g2}
MC_OneCall  == {g1}
\* Two windows on two buffers, or one window.
MC_TwoWins  == {x1, x2}
MC_OneWin   == {x1}
MC_WinBuf   == [x \in MC_TwoWins |-> IF x = x1 THEN b1 ELSE b2]
\* Version 0 ends in an empty line, version 1 starts with one: cursors on
\* the first row, on later rows, on empty lines and mid-line all occur.
MC_Docs     == (0 :> <<1, 0>>) @@ (1 :> <<0, 2>>)
MC_Pkgs     == {k1, k2}
\* One GoBuild goroutine, with either tool.
MC_OneBuild == {d1}
MC_Tools    == {"go", "gb"}
MC_AllModes == {"definition", "referrers"}
MC_Referrers == {"referrers"}

MC_Symmetry == Permutations(MC_TwoCalls) \cup Permutations(MC_Pkgs)
MC_PkgSymmetry == Permutations(MC_Pkgs)
\* Swapping the two windows together with the buffers they show maps a
\* behaviour of guru_session to another one, and packages are
\* interchangeable: the group of both.
MC_WinBufSwaps == {[v \in {x1, x2, b1, b2} |-> v],
                   (x1 :> x2) @@ (x2 :> x1) @@ (b1 :> b2) @@ (b2 :> b1)}
MC_SessionSymmetry == {s @@ q : s \in MC_WinBufSwaps, q \in MC_PkgSymmetry}
=============================================================================
