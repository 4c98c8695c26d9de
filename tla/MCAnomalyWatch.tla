--------------------------- MODULE MCAnomalyWatch ---------------------------
(* AnomalyWatch for TLC.  Requests and clients are interchangeable.        *)
EXTENDS AnomalyWatch, TLC

Symmetry == Permutations(Requests) \cup Permutations(Clients)
=============================================================================
