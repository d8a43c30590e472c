--------------------------- MODULE BrowserSessionMC ---------------------------
(* Small instances of BrowserSession: the pairs and the users are interchangeable. *)
EXTENDS BrowserSession, TLC

Symmetry == Permutations(Pair) \cup Permutations(User)
=============================================================================
