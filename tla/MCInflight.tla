----------------------------- MODULE MCInflight -----------------------------
EXTENDS Inflight, TLC
CONSTANTS e1, e2
MCGrows == {<<"a", "ab">>}
MCRaised == "b" :> "!!! b"
MCInitial == <<"a", "b">>
MCSymmetry == Permutations(Editors)
=============================================================================
