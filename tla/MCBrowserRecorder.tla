------------------------- MODULE MCBrowserRecorder -------------------------
(* Small instances of BrowserRecorder for TLC. *)
EXTENDS BrowserRecorder, TLC

AllKinds == {"create", "claim", "chunk", "gap", "finalize"}

\* Tabs are interchangeable, and so are gap ids.
TabSymmetry == Permutations(Tabs) \cup Permutations(GapIds)
=============================================================================
