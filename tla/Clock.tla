--------------------------------- MODULE Clock ---------------------------------
(***************************************************************************)
(* What RateLimiter and Accounts share: the requests in flight, the user    *)
(* ids, and the time (time.Now), counted in ticks.                          *)
(***************************************************************************)
EXTENDS Integers

CONSTANTS Request, User

VARIABLE now
=============================================================================
