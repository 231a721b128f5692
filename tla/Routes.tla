-------------------------------- MODULE Routes --------------------------------
(***************************************************************************)
(* Which middleware a request meets (internal/di/wire.go). The router of    *)
(* fiber walks one list, in the order of registration, and runs what        *)
(* matches; a group with handlers is an entry for every path below its      *)
(* prefix, and the prefix of both groups is "/".                            *)
(***************************************************************************)
EXTENDS Sequences, SequencesExt

Endpoints == {"register", "login", "upload", "files", "ws", "health"}

Use(handlers) == [on |-> Endpoints, handlers |-> handlers]
Route(e) == [on |-> {e}, handlers |-> <<e>>]

\* Slip: the routes of /files before the group that protects them.
RoutesBeforeGroup ==
    << Route("register"), Route("login"), Route("files"),
       Use(<<"jwt">>), Use(<<"jwt", "rate">>),
       Route("upload"), Route("ws"), Route("health") >>

\* main, top to bottom.
Stack ==
    << Route("register"), Route("login"),
       Use(<<"jwt">>), Use(<<"jwt", "rate">>),
       Route("upload"), Route("files"), Route("ws"), Route("health") >>

\* Where the route of e is in the stack.
Own(e) == SelectInSeq(Stack, LAMBDA entry : entry.on = {e})

\* The handlers a request for e runs through: those that match before e's own,
\* which does not call Next.
Chain(e) ==
    FlattenSeq([i \in 1 .. Own(e) |-> IF e \in Stack[i].on THEN Stack[i].handlers ELSE <<>>])
=============================================================================
