----------------------------- MODULE RateLimiter -----------------------------
(***************************************************************************)
(* The per-user rate limiter of the HTTP API                                *)
(* (internal/middleware/ratelimit.go) with the token bucket of              *)
(* golang.org/x/time/rate it keeps for every user.                          *)
(*                                                                          *)
(* A request fetches its user's bucket under the limiter's mutex, reads the *)
(* clock, and takes a token under the bucket's own mutex: three steps,      *)
(* between which other requests run and the clean-up loop may drop the      *)
(* entry. One tick of the clock is the smallest time told apart; a bucket   *)
(* earns one unit a tick, a request costs Cost units and a full bucket      *)
(* holds Cap, so RATE_LIMIT_RPS is 1/Cost and RATE_LIMIT_BURST is Cap/Cost. *)
(***************************************************************************)
EXTENDS Clock

CONSTANTS Limiter,  \* rate.Limiter objects
          None,     \* no object
          Cost, Cap,
          Idle,     \* the clean-up loop drops what was idle for longer
          Stall,    \* the time from get to the end of Allow at most
          Horizon   \* bound of TLC's runs: the clock stops there

\* A bucket is full again before it is dropped: 600 s against the 6 s that the
\* default values need. The configuration does not check it.
ASSUME LimiterAssumption ==
    /\ None \notin Limiter
    /\ Cost \in Nat /\ Cap \in Nat /\ Idle \in Nat /\ Stall \in Nat /\ Horizon \in Nat
    /\ Cost > 0
    /\ Cap + Stall =< Idle

VARIABLES entries,   \* entries[u]: the object of user u, if any
          lastSeen,  \* lastSeen[u]: of its entry
          bucket,    \* bucket[o]: units left at the time last
          call,      \* call[r]: where request r is in the middleware
          since,     \* history: a window opened then,
          spent,     \* spent[u]: units user u got in it,
          late      \* late[u]: how far those calls lagged their clock

window == <<since, spent, late>>
limiterVars == <<now, entries, lastSeen, bucket, call, window>>

\* began: the time of get. t: the time that was read for Allow.
NoCall == [at |-> "idle", user |-> None, lim |-> None, began |-> 0, t |-> 0]

Least(a, b) == IF a =< b THEN a ELSE b

\* Slip: a new bucket starts empty.
Empty == [units |-> 0, last |-> now]

\* NewLimiter: a full bucket.
Full == [units |-> Cap, last |-> 0]

LimiterInit ==
    /\ now = 0
    /\ entries = [u \in User |-> None]
    /\ lastSeen = [u \in User |-> 0]
    /\ bucket = [o \in Limiter |-> Full]
    /\ call = [r \in Request |-> NoCall]
    /\ since = 0
    /\ spent = [u \in User |-> 0]
    /\ late = [u \in User |-> 0]

-----------------------------------------------------------------------------
\* Slip: last is never moved, so a unit is earned again and again.
UnitsSinceStart(b, t) == Least(Cap, b.units + t)

\* Limiter.advance: what a bucket holds at time t. A time before last earns
\* nothing.
UnitsAt(b, t) == Least(Cap, b.units + (IF t < b.last THEN 0 ELSE t - b.last))

InUse(o) == (\E u \in User : entries[u] = o) \/ (\E r \in Request : call[r].lim = o)

\* Slip: only a new entry is stamped.
GetStampsNewEntries(r, u) ==
    /\ call[r].at = "idle"
    /\ \E o \in Limiter :
          /\ \/ entries[u] = o /\ UNCHANGED <<entries, lastSeen, bucket>>
             \/ /\ entries[u] = None /\ ~InUse(o)
                /\ entries' = [entries EXCEPT ![u] = o]
                /\ lastSeen' = [lastSeen EXCEPT ![u] = now]
                /\ bucket' = [bucket EXCEPT ![o] = Full]
          /\ call' = [call EXCEPT ![r] =
                [at |-> "got", user |-> u, lim |-> o, began |-> now, t |-> 0]]
    /\ UNCHANGED <<now, window>>

\* get, under the mutex.
Get(r, u) ==
    /\ call[r].at = "idle"
    /\ lastSeen' = [lastSeen EXCEPT ![u] = now]
    /\ \E o \in Limiter :
          /\ \/ entries[u] = o /\ UNCHANGED <<entries, bucket>>
             \/ /\ entries[u] = None /\ ~InUse(o)
                /\ entries' = [entries EXCEPT ![u] = o]
                /\ bucket' = [bucket EXCEPT ![o] = Full]
          /\ call' = [call EXCEPT ![r] =
                [at |-> "got", user |-> u, lim |-> o, began |-> now, t |-> 0]]
    /\ UNCHANGED <<now, window>>

\* Allow reads the clock,
ReadClock(r) ==
    /\ call[r].at = "got"
    /\ call' = [call EXCEPT ![r].at = "timed", ![r].t = now]
    /\ UNCHANGED <<now, entries, lastSeen, bucket, window>>

\* Slip: the answer of reserveN is not looked at.
GrantsAnyway(r) == call[r].at = "timed"

\* and reserveN takes the bucket's mutex: a refusal leaves the bucket alone.
Grants(r) ==
    /\ call[r].at = "timed"
    /\ UnitsAt(bucket[call[r].lim], call[r].t) >= Cost

Refuses(r) ==
    /\ call[r].at = "timed"
    /\ UnitsAt(bucket[call[r].lim], call[r].t) < Cost

Grant(r) ==
    LET c == call[r]
    IN  /\ Grants(r)
        /\ bucket' = [bucket EXCEPT ![c.lim] =
              [units |-> UnitsAt(bucket[c.lim], c.t) - Cost, last |-> c.t]]
        /\ spent' = [spent EXCEPT ![c.user] = @ + Cost]
        /\ late' = [late EXCEPT ![c.user] = @ + (now - c.t)]
        /\ call' = [call EXCEPT ![r] = NoCall]
        /\ UNCHANGED <<now, entries, lastSeen, since>>

Refuse(r) ==
    /\ Refuses(r)
    /\ call' = [call EXCEPT ![r] = NoCall]
    /\ UNCHANGED <<now, entries, lastSeen, bucket, window>>

\* One round of cleanupLoop, under the mutex. Its ticker of 5 minutes is not
\* modelled: a round may come at any time.
Stale(u) == now - lastSeen[u] > Idle

Cleanup ==
    /\ \E u \in User : entries[u] # None /\ Stale(u)
    /\ entries' = [u \in User |-> IF Stale(u) THEN None ELSE entries[u]]
    /\ UNCHANGED <<now, lastSeen, bucket, call, window>>

\* Time passes, but no request stays in the middleware for longer than Stall.
Tick ==
    /\ now < Horizon
    /\ \A r \in Request : call[r].at # "idle" => now - call[r].began < Stall
    /\ now' = now + 1
    /\ UNCHANGED <<entries, lastSeen, bucket, call, window>>

\* The observer may open a new window at any time.
OpenWindow ==
    /\ since' = now
    /\ spent' = [u \in User |-> 0]
    /\ late' = [u \in User |-> 0]
    /\ UNCHANGED <<now, entries, lastSeen, bucket, call>>

LimiterNext ==
    \/ \E r \in Request :
          \/ \E u \in User : Get(r, u)
          \/ ReadClock(r)
          \/ Grant(r)
          \/ Refuse(r)
    \/ Cleanup
    \/ Tick
    \/ OpenWindow

LimiterSpec == LimiterInit /\ [][LimiterNext]_limiterVars

-----------------------------------------------------------------------------
(* Properties. *)

Buckets == [units : 0..Cap, last : Nat]
Calls == [at : {"idle", "got", "timed"}, user : User \cup {None},
          lim : Limiter \cup {None}, began : Nat, t : Nat]

LimiterTypeOK ==
    /\ now \in Nat
    /\ entries \in [User -> Limiter \cup {None}]
    /\ lastSeen \in [User -> Nat]
    /\ bucket \in [Limiter -> Buckets]
    /\ call \in [Request -> Calls]
    /\ since \in Nat
    /\ spent \in [User -> Nat]
    /\ late \in [User -> Nat]

\* In any window a user gets no more than a full bucket, what the window earns,
\* and what his calls lagged behind the clock they had read: an entry that is
\* dropped and made again gives nothing away (ratelimit.go:33-57).
RateHolds ==
    \A u \in User : spent[u] =< Cap + (now - since) + late[u]

\* The bucket a request is about to take from is the one the next request of
\* its user will take from: two requests never hold two buckets of one user.
HeldIsCurrent ==
    \A r \in Request : call[r].at # "idle" => entries[call[r].user] = call[r].lim

\* A refused user did spend what every window earned: refusals cost nothing,
\* and neither other users nor the clean-up take units away (ratelimit.go:69).
RefusalIsEarned ==
    [][\A r \in Request :
         Refuse(r) => Least(Cap, now - since)
                        < Cost + spent[call[r].user] + (now - call[r].t)]_limiterVars
=============================================================================
