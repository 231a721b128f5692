------------------------------- MODULE MCHub -------------------------------
EXTENDS Hub, TLC

CONSTANTS u1, u2, c1, c2

\* Two users with a connection each.
MCOwner == c1 :> u1 @@ c2 :> u2
=============================================================================
