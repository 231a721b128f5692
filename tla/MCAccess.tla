------------------------------- MODULE MCAccess -------------------------------
EXTENDS Access, TLC

Symmetric == Permutations(Limiter) \cup Permutations(Request)
                \cup Permutations(User) \cup Permutations(Password)
=============================================================================
