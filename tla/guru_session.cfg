CONSTANTS
    g1 = g1  g2 = g2  x1 = x1  x2 = x2  b1 = b1  b2 = b2  k1 = k1  k2 = k2
    NoBuf = NoBuf  d1 = d1
    Bld <- MC_OneBuild
    Tools <- MC_Tools
    BuildForce = FALSE
    MaxBuilds = 1
    G <- MC_OneCall
    Wins <- MC_TwoWins
    WinBuf <- MC_WinBuf
    Docs <- MC_Docs
    MaxEdits = 1
    Pkgs <- MC_Pkgs
    Modes <- MC_AllModes
SPECIFICATION Spec
INVARIANT TypeOK
INVARIANT OffsetIsEvalOffset
SYMMETRY MC_SessionSymmetry
