----------------------------- MODULE MCUserAuth -----------------------------
EXTENDS UserAuth, TLC

\* Handlers and names are interchangeable.
Symmetry == Permutations(Requests) \union Permutations(Names)
=============================================================================
