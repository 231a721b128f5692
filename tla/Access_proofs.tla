---------------------------- MODULE Access_proofs ----------------------------
(***************************************************************************)
(* Proofs about RateLimiter, Routes and Access: what the limiter promises   *)
(* on its own; that it keeps this behind the routes and the tokens; what    *)
(* the unique index makes of concurrent registrations; and that a protected *)
(* handler runs only for a request whose token was checked.                 *)
(***************************************************************************)
EXTENDS Access, Induction, TLAPS

-----------------------------------------------------------------------------
(* The limiter. The inductive invariant says what a user could take now, his *)
(* level, and brackets it between what the window earned and what he spent  *)
(* in it.                                                                   *)

\* What user u could take now; no entry is as good as a full one.
Level(u) == IF entries[u] = None THEN Cap ELSE UnitsAt(bucket[entries[u]], now)

CallInv(r) ==
    \/ call[r] = NoCall
    \/ /\ call[r].at \in {"got", "timed"}
       /\ call[r].user \in User
       /\ call[r].lim \in Limiter
       /\ entries[call[r].user] = call[r].lim
       /\ call[r].began =< lastSeen[call[r].user]
       /\ call[r].began =< now
       /\ now - call[r].began =< Stall
       /\ call[r].at = "timed" => call[r].t =< now

EntryInv(u) ==
    /\ lastSeen[u] =< now
    /\ entries[u] # None =>
          /\ bucket[entries[u]].last =< now
          /\ bucket[entries[u]].last =< lastSeen[u] + Stall
          /\ \A v \in User : entries[v] = entries[u] => v = u

LevelInv(u) ==
    /\ Level(u) + spent[u] =< Cap + (now - since) + late[u]
    /\ Least(Cap, now - since) =< Level(u) + spent[u]

LimiterInv ==
    /\ LimiterTypeOK
    /\ since =< now
    /\ \A r \in Request : CallInv(r)
    /\ \A u \in User : EntryInv(u)
    /\ \A u \in User : LevelInv(u)

-----------------------------------------------------------------------------
(* What a bucket earns. *)

LEMMA UnitsBounded ==
    ASSUME NEW b \in Buckets, NEW t \in Nat
    PROVE  UnitsAt(b, t) \in 0..Cap
BY LimiterAssumption DEF Buckets, UnitsAt, Least

LEMMA UnitsGrow ==
    ASSUME NEW b \in Buckets, NEW t \in Nat, NEW n \in Nat, t =< n, b.last =< n
    PROVE  /\ UnitsAt(b, t) =< UnitsAt(b, n)
           /\ UnitsAt(b, n) =< UnitsAt(b, t) + (n - t)
BY LimiterAssumption DEF Buckets, UnitsAt, Least

LEMMA UnitsTick ==
    ASSUME NEW b \in Buckets, NEW n \in Nat, b.last =< n
    PROVE  UnitsAt(b, n + 1) = Least(Cap, UnitsAt(b, n) + 1)
BY LimiterAssumption DEF Buckets, UnitsAt, Least

\* A grant at the time t takes Cost from what is there now, or less by what the
\* clock has moved since t.
LEMMA UnitsTaken ==
    ASSUME NEW b \in Buckets, NEW t \in Nat, NEW n \in Nat, t =< n, b.last =< n,
           UnitsAt(b, t) >= Cost,
           NEW c \in Buckets, c.units = UnitsAt(b, t) - Cost, c.last = t
    PROVE  /\ UnitsAt(c, n) + Cost =< UnitsAt(b, n) + (n - t)
           /\ UnitsAt(b, n) =< UnitsAt(c, n) + Cost
BY LimiterAssumption DEF Buckets, UnitsAt, Least

LEMMA UnitsFull ==
    ASSUME NEW b \in Buckets, NEW n \in Nat, b.last + Cap =< n
    PROVE  UnitsAt(b, n) = Cap
BY LimiterAssumption DEF Buckets, UnitsAt, Least

LEMMA FullIsFull == Full \in Buckets /\ \A n \in Nat : UnitsAt(Full, n) = Cap
BY LimiterAssumption DEF Full, Buckets, UnitsAt, Least

-----------------------------------------------------------------------------
(* The invariant. *)

LEMMA InitInv == LimiterInit => LimiterInv
<1> SUFFICES ASSUME LimiterInit PROVE LimiterInv
    OBVIOUS
<1> USE LimiterAssumption DEF LimiterInit
<1>1. LimiterTypeOK
    BY FullIsFull DEF LimiterTypeOK, NoCall, Calls
<1>2. \A r \in Request : CallInv(r)
    BY DEF CallInv
<1>3. \A u \in User : EntryInv(u)
    BY DEF EntryInv
<1>4. \A u \in User : LevelInv(u)
    BY DEF LevelInv, Level, Least
<1>5. QED BY <1>1, <1>2, <1>3, <1>4 DEF LimiterInv

\* What the type and EntryInv say of a level.
LEMMA LevelBounded ==
    ASSUME LimiterInv, NEW u \in User
    PROVE  Level(u) \in 0..Cap
<1>1. CASE entries[u] = None
    BY <1>1, LimiterAssumption DEF Level
<1>2. CASE entries[u] # None
    <2>1. bucket[entries[u]] \in Buckets /\ now \in Nat
        BY <1>2 DEF LimiterInv, LimiterTypeOK
    <2>2. UnitsAt(bucket[entries[u]], now) \in 0..Cap
        BY <2>1, UnitsBounded
    <2>3. QED BY <1>2, <2>2 DEF Level
<1>3. QED BY <1>1, <1>2

\* A new entry is as good as none.
LEMMA GetInv ==
    ASSUME LimiterInv, NEW r \in Request, NEW u \in User, Get(r, u)
    PROVE  LimiterInv'
<1> USE LimiterAssumption
<1>1. LimiterTypeOK /\ LimiterTypeOK'
    BY FullIsFull DEF LimiterInv, LimiterTypeOK, Get, Calls, window
<1>2. now' = now /\ since' = since /\ spent' = spent /\ late' = late
      /\ lastSeen' = [lastSeen EXCEPT ![u] = now]
    BY DEF Get, window
<1>3. PICK o \in Limiter :
          /\ \/ entries[u] = o /\ UNCHANGED <<entries, bucket>>
             \/ /\ entries[u] = None /\ ~InUse(o)
                /\ entries' = [entries EXCEPT ![u] = o]
                /\ bucket' = [bucket EXCEPT ![o] = Full]
          /\ call' = [call EXCEPT ![r] =
                [at |-> "got", user |-> u, lim |-> o, began |-> now, t |-> 0]]
    BY DEF Get
<1>4. \A q \in Request : CallInv(q)'
    <2> SUFFICES ASSUME NEW q \in Request PROVE CallInv(q)'
        OBVIOUS
    <2>1. CallInv(q)
        BY DEF LimiterInv
    <2>2. entries'[u] = o
        BY <1>1, <1>3 DEF LimiterTypeOK
    <2>3. CASE q = r
        BY <1>1, <1>2, <1>3, <2>2, <2>3 DEF CallInv, LimiterTypeOK
    <2>4. CASE q # r
        <3>1. call'[q] = call[q]
            BY <1>1, <1>3, <2>4 DEF LimiterTypeOK
        <3>2. CASE call[q] = NoCall
            BY <3>1, <3>2 DEF CallInv
        <3>3. CASE call[q] # NoCall
            <4>1. /\ call[q].user \in User /\ call[q].lim \in Limiter
                  /\ entries[call[q].user] = call[q].lim
                  /\ call[q].began =< lastSeen[call[q].user]
                  /\ call[q].began =< now
                BY <2>1, <3>3 DEF CallInv
            <4>2. entries'[call[q].user] = call[q].lim
                BY <1>1, <1>3, <4>1 DEF LimiterTypeOK
            <4>3. call[q].began =< lastSeen'[call[q].user]
                BY <1>1, <1>2, <4>1 DEF LimiterTypeOK
            <4>4. QED BY <1>2, <2>1, <3>1, <3>3, <4>2, <4>3 DEF CallInv
        <3>4. QED BY <3>2, <3>3
    <2>5. QED BY <2>3, <2>4
<1>5. \A v \in User : entries[v] # None =>
          /\ entries'[v] = entries[v]
          /\ bucket'[entries[v]] = bucket[entries[v]]
    BY <1>1, <1>3 DEF LimiterTypeOK, InUse
<1>6. \A v \in User : entries[v] = None =>
          \/ entries'[v] = None
          \/ v = u /\ entries'[v] = o /\ bucket'[o] = Full /\ \A w \in User : entries[w] # o
    BY <1>1, <1>3 DEF LimiterTypeOK, InUse
<1>7. \A v \in User : EntryInv(v)'
    <2> SUFFICES ASSUME NEW v \in User PROVE EntryInv(v)'
        OBVIOUS
    <2>1. EntryInv(v)
        BY DEF LimiterInv
    <2>2. lastSeen'[v] =< now /\ lastSeen[v] =< lastSeen'[v]
        BY <1>1, <1>2, <2>1 DEF EntryInv, LimiterTypeOK
    <2>3. \A w \in User : entries'[v] # None /\ entries'[w] = entries'[v] => w = v
        <3>1. \A w \in User : entries[v] # None /\ entries[w] = entries[v] => w = v
            BY <2>1 DEF EntryInv
        <3>2. QED BY <1>1, <1>3, <3>1 DEF LimiterTypeOK, InUse
    <2>4. CASE entries[v] # None
        <3>1. entries'[v] = entries[v] /\ bucket'[entries'[v]] = bucket[entries[v]]
            BY <1>5, <2>4
        <3>2. bucket[entries[v]].last =< now /\ bucket[entries[v]].last =< lastSeen[v] + Stall
            BY <2>1, <2>4 DEF EntryInv
        <3>3. bucket[entries[v]].last \in Nat /\ lastSeen[v] \in Nat /\ lastSeen'[v] \in Nat
            BY <1>1, <2>4 DEF LimiterTypeOK, Buckets
        <3>4. bucket'[entries'[v]].last =< lastSeen'[v] + Stall
            BY <2>2, <3>1, <3>2, <3>3
        <3>5. QED BY <1>2, <2>2, <2>3, <3>1, <3>2, <3>4 DEF EntryInv
    <2>5. CASE entries[v] = None /\ entries'[v] = None
        BY <1>2, <2>2, <2>5 DEF EntryInv
    <2>6. CASE entries[v] = None /\ entries'[v] # None
        <3>1. bucket'[entries'[v]].last = 0
            BY <1>6, <2>6 DEF Full
        <3>2. now \in Nat /\ lastSeen'[v] \in Nat /\ now' \in Nat
            BY <1>1 DEF LimiterTypeOK
        <3>3. QED BY <1>2, <2>2, <2>3, <3>1, <3>2 DEF EntryInv
    <2>7. QED BY <2>4, <2>5, <2>6
<1>8. \A v \in User : Level(v)' = Level(v)
    BY <1>1, <1>2, <1>5, <1>6, FullIsFull DEF Level, LimiterTypeOK
<1>9. \A v \in User : LevelInv(v)'
    BY <1>2, <1>8 DEF LimiterInv, LevelInv
<1>10. QED BY <1>1, <1>2, <1>4, <1>7, <1>9 DEF LimiterInv

LEMMA ReadClockInv ==
    ASSUME LimiterInv, NEW r \in Request, ReadClock(r)
    PROVE  LimiterInv'
<1>1. LimiterTypeOK /\ LimiterTypeOK'
    BY ZenonT(30) DEF LimiterInv, LimiterTypeOK, ReadClock, Calls, window
<1>2. UNCHANGED <<now, entries, lastSeen, bucket, since, spent, late>>
    BY DEF ReadClock, window
<1>3. \A q \in Request : CallInv(q)'
    <2> SUFFICES ASSUME NEW q \in Request PROVE CallInv(q)'
        OBVIOUS
    <2>1. CallInv(q) /\ CallInv(r)
        BY DEF LimiterInv
    <2>2. CASE q = r
        BY <1>1, <1>2, <2>1, <2>2 DEF ReadClock, CallInv, NoCall, LimiterTypeOK, Calls
    <2>3. CASE q # r
        BY <1>1, <1>2, <2>1, <2>3 DEF ReadClock, CallInv, LimiterTypeOK
    <2>4. QED BY <2>2, <2>3
<1>4. \A u \in User : EntryInv(u)'
    BY <1>2 DEF LimiterInv, EntryInv
<1>5. \A u \in User : LevelInv(u)'
    BY <1>2 DEF LimiterInv, LevelInv, Level
<1>6. QED BY <1>1, <1>2, <1>3, <1>4, <1>5 DEF LimiterInv

\* The bucket is the one of the user's entry, and no one else's.
LEMMA GrantInv ==
    ASSUME LimiterInv, NEW r \in Request, Grant(r)
    PROVE  LimiterInv'
<1> USE LimiterAssumption
<1> DEFINE u == call[r].user
           o == call[r].lim
           t == call[r].t
           b == bucket[o]
           c == [units |-> UnitsAt(b, t) - Cost, last |-> t]
<1>1. LimiterTypeOK
    BY DEF LimiterInv
<1>2. /\ u \in User /\ o \in Limiter /\ entries[u] = o /\ o # None
      /\ call[r].began =< lastSeen[u]
      /\ now - call[r].began =< Stall
      /\ t =< now
    BY DEF LimiterInv, CallInv, Grant, Grants, NoCall
<1>3. b \in Buckets /\ t \in Nat /\ now \in Nat /\ b.last =< now
    BY <1>1, <1>2 DEF LimiterInv, EntryInv, LimiterTypeOK, Calls
<1>4. UnitsAt(b, t) >= Cost /\ UnitsAt(b, t) \in 0..Cap
    BY <1>3, UnitsBounded DEF Grant, Grants
<1>5. c \in Buckets /\ c.units = UnitsAt(b, t) - Cost /\ c.last = t
    BY <1>3, <1>4 DEF Buckets
<1>6. /\ UnitsAt(c, now) + Cost =< UnitsAt(b, now) + (now - t)
      /\ UnitsAt(b, now) =< UnitsAt(c, now) + Cost
    BY <1>2, <1>3, <1>4, <1>5, UnitsTaken
<1>7. UnitsAt(c, now) \in 0..Cap /\ UnitsAt(b, now) \in 0..Cap
    BY <1>3, <1>5, UnitsBounded
<1> HIDE DEF u, o, t, b, c
<1>8. /\ UNCHANGED <<now, entries, lastSeen, since>>
      /\ bucket' = [bucket EXCEPT ![o] = c]
      /\ spent' = [spent EXCEPT ![u] = @ + Cost]
      /\ late' = [late EXCEPT ![u] = @ + (now - t)]
      /\ call' = [call EXCEPT ![r] = NoCall]
    BY DEF Grant, u, o, t, b, c
<1>9. LimiterTypeOK'
    BY <1>1, <1>2, <1>3, <1>5, <1>8 DEF LimiterTypeOK, Calls, NoCall
<1>10. \A q \in Request : CallInv(q)'
    BY <1>1, <1>8 DEF LimiterInv, CallInv, LimiterTypeOK
<1>11. bucket'[o] = c /\ \A v \in User \ {u} : entries[v] # None => bucket'[entries[v]] = bucket[entries[v]]
    BY <1>1, <1>2, <1>8 DEF LimiterInv, EntryInv, LimiterTypeOK
<1>12. \A v \in User : EntryInv(v)'
    <2> SUFFICES ASSUME NEW v \in User PROVE EntryInv(v)'
        OBVIOUS
    <2>1. EntryInv(v)
        BY DEF LimiterInv
    <2>2. CASE v = u
        <3>1. c.last = t /\ t =< lastSeen[u] + Stall
            BY <1>1, <1>2, <1>3, <1>5 DEF LimiterTypeOK, Calls
        <3>2. QED BY <1>2, <1>8, <1>11, <2>1, <2>2, <3>1 DEF EntryInv
    <2>3. CASE v # u
        BY <1>8, <1>11, <2>1, <2>3 DEF EntryInv
    <2>4. QED BY <2>2, <2>3
<1>13. \A v \in User : LevelInv(v)'
    <2> SUFFICES ASSUME NEW v \in User PROVE LevelInv(v)'
        OBVIOUS
    <2>1. LevelInv(v)
        BY DEF LimiterInv
    <2>2. CASE v = u
        <3>1. Level(v) = UnitsAt(b, now)
            BY <1>2, <2>2 DEF Level, b
        <3>2. Level(v)' = UnitsAt(c, now)
            BY <1>2, <1>8, <1>11, <2>2 DEF Level
        <3>3. spent'[v] = spent[v] + Cost /\ late'[v] = late[v] + (now - t)
            BY <1>1, <1>8, <2>2 DEF LimiterTypeOK
        <3>4. since \in Nat /\ spent[v] \in Nat /\ late[v] \in Nat
            BY <1>1 DEF LimiterTypeOK
        <3>5. QED
            BY <1>3, <1>6, <1>7, <1>8, <2>1, <3>1, <3>2, <3>3, <3>4 DEF LevelInv, Least
    <2>3. CASE v # u
        <3>1. Level(v)' = Level(v)
            BY <1>8, <1>11, <2>3 DEF Level
        <3>2. spent'[v] = spent[v] /\ late'[v] = late[v]
            BY <1>1, <1>8, <2>3 DEF LimiterTypeOK
        <3>3. QED BY <1>8, <2>1, <3>1, <3>2 DEF LevelInv
    <2>4. QED BY <2>2, <2>3
<1>14. QED BY <1>8, <1>9, <1>10, <1>12, <1>13 DEF LimiterInv

LEMMA RefuseInv ==
    ASSUME LimiterInv, NEW r \in Request, Refuse(r)
    PROVE  LimiterInv'
<1>1. UNCHANGED <<now, entries, lastSeen, bucket, since, spent, late>>
      /\ call' = [call EXCEPT ![r] = NoCall]
    BY DEF Refuse, window
<1>2. LimiterTypeOK'
    BY <1>1 DEF LimiterInv, LimiterTypeOK, Calls, NoCall
<1>3. \A q \in Request : CallInv(q)'
    BY <1>1 DEF LimiterInv, CallInv, LimiterTypeOK
<1>4. \A u \in User : EntryInv(u)'
    BY <1>1 DEF LimiterInv, EntryInv
<1>5. \A u \in User : LevelInv(u)'
    BY <1>1 DEF LimiterInv, LevelInv, Level
<1>6. QED BY <1>1, <1>2, <1>3, <1>4, <1>5 DEF LimiterInv

\* A stale entry is full, and no request holds its bucket.
LEMMA CleanupInv ==
    ASSUME LimiterInv, Cleanup
    PROVE  LimiterInv'
<1> USE LimiterAssumption
<1>1. UNCHANGED <<now, lastSeen, bucket, call, since, spent, late>>
      /\ entries' = [u \in User |-> IF Stale(u) THEN None ELSE entries[u]]
    BY DEF Cleanup, window
<1>2. LimiterTypeOK /\ LimiterTypeOK'
    BY <1>1 DEF LimiterInv, LimiterTypeOK
<1>3. \A r \in Request : CallInv(r)'
    <2> SUFFICES ASSUME NEW r \in Request PROVE CallInv(r)'
        OBVIOUS
    <2>1. CallInv(r)
        BY DEF LimiterInv
    <2>2. CASE call[r] = NoCall
        BY <1>1, <2>2 DEF CallInv
    <2>3. CASE call[r] # NoCall
        <3>1. /\ call[r].user \in User
              /\ call[r].began =< lastSeen[call[r].user]
              /\ now - call[r].began =< Stall
            BY <2>1, <2>3 DEF CallInv
        <3>2. ~Stale(call[r].user)
            BY <1>2, <3>1 DEF Stale, LimiterTypeOK, Calls
        <3>3. entries'[call[r].user] = entries[call[r].user]
            BY <1>1, <3>1, <3>2
        <3>4. QED BY <1>1, <2>1, <2>3, <3>3 DEF CallInv
    <2>4. QED BY <2>2, <2>3
<1>4. \A u \in User : EntryInv(u)'
    BY <1>1 DEF LimiterInv, EntryInv
<1>5. \A u \in User : Level(u)' = Level(u)
    <2> SUFFICES ASSUME NEW u \in User PROVE Level(u)' = Level(u)
        OBVIOUS
    <2>1. CASE Stale(u) /\ entries[u] # None
        <3>1. /\ bucket[entries[u]] \in Buckets /\ now \in Nat /\ lastSeen[u] \in Nat
              /\ bucket[entries[u]].last =< lastSeen[u] + Stall
            BY <1>2, <2>1 DEF LimiterInv, EntryInv, LimiterTypeOK
        <3>2. bucket[entries[u]].last + Cap =< now
            BY <2>1, <3>1 DEF Stale, Buckets
        <3>3. UnitsAt(bucket[entries[u]], now) = Cap
            BY <3>1, <3>2, UnitsFull
        <3>4. QED BY <1>1, <2>1, <3>3 DEF Level
    <2>2. CASE ~Stale(u) \/ entries[u] = None
        BY <1>1, <2>2 DEF Level
    <2>3. QED BY <2>1, <2>2
<1>6. \A u \in User : LevelInv(u)'
    BY <1>1, <1>5 DEF LimiterInv, LevelInv
<1>7. QED BY <1>1, <1>2, <1>3, <1>4, <1>6 DEF LimiterInv

LEMMA TickInv ==
    ASSUME LimiterInv, Tick
    PROVE  LimiterInv'
<1> USE LimiterAssumption
<1>1. UNCHANGED <<entries, lastSeen, bucket, call, since, spent, late>> /\ now' = now + 1
    BY DEF Tick, window
<1>2. LimiterTypeOK /\ LimiterTypeOK'
    BY <1>1 DEF LimiterInv, LimiterTypeOK
<1>3. \A r \in Request : CallInv(r)'
    BY <1>1, <1>2 DEF Tick, LimiterInv, CallInv, LimiterTypeOK, Calls
<1>4. \A u \in User : EntryInv(u)'
    BY <1>1, <1>2 DEF LimiterInv, EntryInv, LimiterTypeOK, Buckets
<1>5. \A u \in User : Level(u)' = Least(Cap, Level(u) + 1)
    <2> SUFFICES ASSUME NEW u \in User PROVE Level(u)' = Least(Cap, Level(u) + 1)
        OBVIOUS
    <2>1. CASE entries[u] = None
        BY <1>1, <2>1 DEF Level, Least
    <2>2. CASE entries[u] # None
        <3>1. /\ bucket[entries[u]] \in Buckets /\ now \in Nat
              /\ bucket[entries[u]].last =< now
            BY <1>2, <2>2 DEF LimiterInv, EntryInv, LimiterTypeOK
        <3>2. QED BY <1>1, <2>2, <3>1, UnitsTick DEF Level
    <2>3. QED BY <2>1, <2>2
<1>6. \A u \in User : LevelInv(u)'
    <2> SUFFICES ASSUME NEW u \in User PROVE LevelInv(u)'
        OBVIOUS
    <2>1. LevelInv(u) /\ Level(u) \in 0..Cap
        BY LevelBounded DEF LimiterInv
    <2>2. now \in Nat /\ since \in Nat /\ since =< now /\ spent[u] \in Nat /\ late[u] \in Nat
        BY <1>2 DEF LimiterInv, LimiterTypeOK
    <2>3. QED BY <1>1, <1>5, <2>1, <2>2 DEF LevelInv, Least
<1>7. since' =< now'
    BY <1>1, <1>2 DEF LimiterInv, LimiterTypeOK
<1>8. QED BY <1>2, <1>3, <1>4, <1>6, <1>7 DEF LimiterInv

LEMMA OpenWindowInv ==
    ASSUME LimiterInv, OpenWindow
    PROVE  LimiterInv'
<1> USE LimiterAssumption
<1>1. UNCHANGED <<now, entries, lastSeen, bucket, call>> /\ since' = now
      /\ spent' = [u \in User |-> 0] /\ late' = [u \in User |-> 0]
    BY DEF OpenWindow
<1>2. LimiterTypeOK /\ LimiterTypeOK'
    BY <1>1 DEF LimiterInv, LimiterTypeOK
<1>3. \A r \in Request : CallInv(r)'
    BY <1>1 DEF LimiterInv, CallInv
<1>4. \A u \in User : EntryInv(u)'
    BY <1>1 DEF LimiterInv, EntryInv
<1>5. \A u \in User : LevelInv(u)'
    <2> SUFFICES ASSUME NEW u \in User PROVE LevelInv(u)'
        OBVIOUS
    <2>1. Level(u)' = Level(u) /\ Level(u) \in 0..Cap
        BY <1>1, LevelBounded DEF Level
    <2>2. QED BY <1>1, <1>2, <2>1 DEF LevelInv, Least, LimiterTypeOK
<1>6. QED BY <1>1, <1>2, <1>3, <1>4, <1>5 DEF LimiterInv, LimiterTypeOK

LEMMA NextInv == LimiterInv /\ [LimiterNext]_limiterVars => LimiterInv'
<1> SUFFICES ASSUME LimiterInv, [LimiterNext]_limiterVars PROVE LimiterInv'
    OBVIOUS
<1>1. ASSUME NEW r \in Request,
             (\E u \in User : Get(r, u)) \/ ReadClock(r) \/ Grant(r) \/ Refuse(r)
      PROVE  LimiterInv'
    BY <1>1, GetInv, ReadClockInv, GrantInv, RefuseInv
<1>2. CASE Cleanup \/ Tick \/ OpenWindow
    BY <1>2, CleanupInv, TickInv, OpenWindowInv
<1>3. CASE UNCHANGED limiterVars
    BY <1>3 DEF limiterVars, window, LimiterInv, LimiterTypeOK, CallInv, EntryInv,
                LevelInv, Level
<1>4. QED BY <1>1, <1>2, <1>3 DEF LimiterNext

LEMMA LimiterInvariant == LimiterSpec => []LimiterInv
BY InitInv, NextInv, PTL DEF LimiterSpec

-----------------------------------------------------------------------------
(* Theorems. *)

\* In any window a user gets no more than a full bucket, what the window earns
\* and what his calls lagged (ratelimit.go:33-57), whatever rate, burst, idle
\* time and number of users and requests.
THEOREM RateHoldsAlways == LimiterSpec => []RateHolds
<1>1. LimiterInv => RateHolds
    <2> SUFFICES ASSUME LimiterInv, NEW u \in User
                 PROVE  spent[u] =< Cap + (now - since) + late[u]
        BY DEF RateHolds
    <2>1. LevelInv(u) /\ Level(u) \in 0..Cap
        BY LevelBounded DEF LimiterInv
    <2>2. now \in Nat /\ since \in Nat /\ spent[u] \in Nat /\ late[u] \in Nat
        BY DEF LimiterInv, LimiterTypeOK
    <2>3. QED BY <2>1, <2>2, LimiterAssumption DEF LevelInv
<1>2. QED BY <1>1, LimiterInvariant, PTL

\* No request takes from a bucket that the clean-up has already dropped
\* (ratelimit.go:40-44).
THEOREM HeldIsCurrentAlways == LimiterSpec => []HeldIsCurrent
<1>1. LimiterInv => HeldIsCurrent
    BY DEF LimiterInv, CallInv, HeldIsCurrent, NoCall
<1>2. QED BY <1>1, LimiterInvariant, PTL

\* Who is refused has spent what every window earned (ratelimit.go:69).
LEMMA RefusalStep ==
    ASSUME LimiterInv, NEW r \in Request, Refuse(r)
    PROVE  Least(Cap, now - since) < Cost + spent[call[r].user] + (now - call[r].t)
<1> DEFINE u == call[r].user
           t == call[r].t
           b == bucket[call[r].lim]
<1>1. u \in User /\ call[r].lim \in Limiter /\ entries[u] = call[r].lim /\ t =< now
    BY DEF LimiterInv, CallInv, Refuse, Refuses, NoCall
<1>2. call[r].lim # None
    BY <1>1, LimiterAssumption
<1>3. b \in Buckets /\ t \in Nat /\ now \in Nat /\ b.last =< now
    BY <1>1, <1>2 DEF LimiterInv, EntryInv, LimiterTypeOK, Calls
<1>4. UnitsAt(b, t) < Cost
    BY DEF Refuse, Refuses
<1>5. UnitsAt(b, now) =< UnitsAt(b, t) + (now - t)
    BY <1>1, <1>3, UnitsGrow
<1>6. UnitsAt(b, t) \in 0..Cap /\ UnitsAt(b, now) \in 0..Cap
    BY <1>3, UnitsBounded
<1>7. Level(u) = UnitsAt(b, now)
    BY <1>1, <1>2 DEF Level
<1>8. Least(Cap, now - since) =< Level(u) + spent[u]
    BY <1>1 DEF LimiterInv, LevelInv
<1>9. since \in Nat /\ spent[u] \in Nat
    BY <1>1 DEF LimiterInv, LimiterTypeOK
<1> HIDE DEF u, t, b
<1>10. Least(Cap, now - since) < Cost + spent[u] + (now - t)
    BY <1>3, <1>4, <1>5, <1>6, <1>7, <1>8, <1>9, LimiterAssumption DEF Least
<1>11. QED BY <1>10 DEF u, t

\* A refused user has had what every window earned: neither other users nor the
\* clean-up take units away (ratelimit.go:69).
THEOREM RefusalIsEarnedAlways == LimiterSpec => RefusalIsEarned
<1>1. LimiterInv /\ [LimiterNext]_limiterVars =>
        [\A r \in Request :
            Refuse(r) => Least(Cap, now - since)
                           < Cost + spent[call[r].user] + (now - call[r].t)]_limiterVars
    BY RefusalStep
<1>2. QED BY <1>1, LimiterInvariant, PTL DEF LimiterSpec, RefusalIsEarned

-----------------------------------------------------------------------------
(* Every token names a user id, so every step of Access is one of the       *)
(* limiter or leaves it alone.                                              *)

HttpRecords == [to : Endpoints \cup {"none"}, at : Nat, token : Tokens \cup {None},
                good : BOOLEAN]

TokenInv ==
    /\ now \in Nat
    /\ users \subseteq [id : User, email : Email, password : Password]
    /\ issued \subseteq Tokens
    /\ form \in [Request -> Forms]
    /\ http \in [Request -> HttpRecords]

LEMMA InitToken == AccessInit => TokenInv
BY DEF AccessInit, LimiterInit, AccountsInit, NoRequest, TokenInv, HttpRecords, Forms

LEMMA AnsweredKeeps ==
    ASSUME http \in [Request -> HttpRecords], NEW r \in Request, Answered(r)
    PROVE  http' \in [Request -> HttpRecords]
BY DEF Answered, NoRequest, HttpRecords

LEMMA PassesKeeps ==
    ASSUME http \in [Request -> HttpRecords], NEW r \in Request, Passes(r)
    PROVE  http' \in [Request -> HttpRecords]
BY DEF Passes, HttpRecords

\* What is signed is a token for a user id.
LEMMA TokenType ==
    ASSUME TokenInv, NEW id \in User
    PROVE  Token(id) \in Tokens
BY AccessAssumption DEF TokenInv, Token, Tokens

\* A registration keeps the types of Accounts.
LEMMA SignUpTypes ==
    ASSUME TokenInv, NEW r \in Request, SignUp(r)
    PROVE  /\ users' \subseteq [id : User, email : Email, password : Password]
           /\ issued' \subseteq Tokens
           /\ form' \in [Request -> Forms]
<1> USE DEF TokenInv
<1>1. ASSUME NEW e \in Email, NEW p \in Password, Register(r, e, p)
      PROVE  UNCHANGED <<users, issued>> /\ form' \in [Request -> Forms]
    BY <1>1 DEF Register, Form, Forms
<1>2. ASSUME form[r].at = "create"
      PROVE  form[r] \in [at : {"create", "created"}, email : Email, password : Password]
    BY <1>2 DEF Forms, NoForm
<1>3. ASSUME form[r].at = "create", NEW id \in Fresh
      PROVE  Row(id, form[r]) \in [id : User, email : Email, password : Password]
    BY <1>2, <1>3 DEF Row, Fresh
<1>4. CASE Create(r)
    <2>1. users' \subseteq [id : User, email : Email, password : Password]
        BY <1>3, <1>4 DEF Create
    <2>2. issued' \subseteq Tokens
        BY <1>4, TokenType DEF Create, Fresh
    <2>3. form' \in [Request -> Forms]
        BY <1>2, <1>4 DEF Create, Forms
    <2>4. QED BY <2>1, <2>2, <2>3
<1>5. CASE CreateFails(r)
    <2>1. users' \subseteq [id : User, email : Email, password : Password]
        BY <1>3, <1>5 DEF CreateFails
    <2>2. QED BY <1>5, <2>1 DEF CreateFails, Forms
<1>6. QED BY <1>1, <1>4, <1>5 DEF SignUp

LEMMA NextToken == TokenInv /\ [AccessNext]_accessVars => TokenInv'
<1> SUFFICES ASSUME TokenInv, [AccessNext]_accessVars PROVE TokenInv'
    OBVIOUS
<1> USE DEF TokenInv
<1>1. ASSUME NEW r \in Request, NEW e \in Asked, NEW token \in issued \cup {None},
             Arrive(r, e, token)
      PROVE  TokenInv'
    BY <1>1, AccessAssumption
       DEF Arrive, Valid, limiterVars, accountVars, HttpRecords
<1>2. ASSUME NEW r \in Request, CheckToken(r) PROVE TokenInv'
    BY <1>2, PassesKeeps, AnsweredKeeps DEF CheckToken, limiterVars, accountVars
<1>3. ASSUME NEW r \in Request, Limit(r) PROVE TokenInv'
    <2>1. http' \in [Request -> HttpRecords]
        BY <1>3, PassesKeeps, AnsweredKeeps DEF Limit
    <2>2. now' = now
        BY <1>3 DEF Limit, Get, ReadClock, Grant, Refuse
    <2>3. QED BY <1>3, <2>1, <2>2 DEF Limit, accountVars
<1>4. ASSUME NEW r \in Request, SignUp(r) PROVE TokenInv'
    <2>1. http' \in [Request -> HttpRecords]
        BY <1>4, AnsweredKeeps DEF SignUp
    <2>2. QED BY <1>4, <2>1, SignUpTypes DEF SignUp, limiterVars
<1>5. ASSUME NEW r \in Request, SignIn(r) PROVE TokenInv'
    <2>1. http' \in [Request -> HttpRecords]
        BY <1>5, AnsweredKeeps DEF SignIn
    <2>2. users' = users /\ form' = form /\ issued' \subseteq Tokens
        BY <1>5, TokenType DEF SignIn, Login, Found, accountVars
    <2>3. QED BY <1>5, <2>1, <2>2 DEF SignIn, limiterVars
<1>6. ASSUME NEW r \in Request, Serve(r) PROVE TokenInv'
    BY <1>6, AnsweredKeeps DEF Serve, limiterVars, accountVars
<1>7. CASE Elapse
    BY <1>7 DEF Elapse, Cleanup, Tick, OpenWindow, accountVars
<1>8. CASE UNCHANGED accessVars
    BY <1>8 DEF accessVars, limiterVars, accountVars
<1>9. QED BY <1>1, <1>2, <1>3, <1>4, <1>5, <1>6, <1>7, <1>8 DEF AccessNext

LEMMA TokenInvariant == AccessSpec => []TokenInv
BY InitToken, NextToken, PTL DEF AccessSpec

-----------------------------------------------------------------------------
(* The limiter behind the routes. *)

LEMMA StepOfLimiter ==
    TokenInv /\ [AccessNext]_accessVars => [LimiterNext]_limiterVars
<1> SUFFICES ASSUME TokenInv, [AccessNext]_accessVars PROVE [LimiterNext]_limiterVars
    OBVIOUS
<1>1. ASSUME NEW r \in Request, Limit(r) PROVE LimiterNext
    <2>1. http[r].token.sub \in User
        BY <1>1 DEF TokenInv, HttpRecords, Tokens, Limit
    <2>2. QED BY <1>1, <2>1 DEF Limit, LimiterNext
<1>2. CASE Elapse
    BY <1>2 DEF Elapse, LimiterNext
<1>3. CASE UNCHANGED accessVars
    BY <1>3 DEF accessVars
<1>4. QED
    BY <1>1, <1>2, <1>3 DEF AccessNext, Arrive, CheckToken, SignUp, SignIn, Serve

\* Access implements RateLimiter: a request enters the limiter only as a user
\* (wire.go:112-117, ratelimit.go:61-76).
THEOREM AccessImplementsLimiter == AccessSpec => LimiterSpec
<1>1. AccessInit => LimiterInit
    BY DEF AccessInit
<1>2. QED BY <1>1, StepOfLimiter, TokenInvariant, PTL DEF AccessSpec, LimiterSpec

\* What RateLimiter promises of windows, buckets and refusals holds of the
\* requests that come through the routes.
THEOREM AccessKeepsRate ==
    AccessSpec => []RateHolds /\ []HeldIsCurrent /\ RefusalIsEarned
BY AccessImplementsLimiter, RateHoldsAlways, HeldIsCurrentAlways, RefusalIsEarnedAlways

-----------------------------------------------------------------------------
(* Registrations. *)

AccountInv == OneAccountPerAddress /\ RegisteredCanLogIn

\* A row is only added for an address that has none.
LEMMA NewRow ==
    ASSUME TokenInv, AccountInv, NEW r \in Request, NEW id \in User,
           form[r].at = "create", Found(form[r].email) = {},
           users' = users \cup {Row(id, form[r])}
    PROVE  /\ OneAccountPerAddress'
           /\ \A q \in Request : form[q].at = "created" =>
                  {u \in users' : u.email = form[q].email} = Found(form[q].email)
           /\ {u \in users' : u.email = form[r].email} = {Row(id, form[r])}
<1>1. \A u \in users : u.email # form[r].email
    BY DEF Found
<1>2. Row(id, form[r]).email = form[r].email
    BY DEF Row
<1>3. OneAccountPerAddress'
    BY <1>1, <1>2 DEF OneAccountPerAddress, AccountInv
<1>4. \A q \in Request : form[q].at = "created" => form[q].email # form[r].email
    BY DEF AccountInv, RegisteredCanLogIn
<1>5. ASSUME NEW q \in Request, form[q].at = "created"
      PROVE  {u \in users' : u.email = form[q].email} = Found(form[q].email)
    BY <1>2, <1>4, <1>5 DEF Found
<1>6. {u \in users' : u.email = form[r].email} = {Row(id, form[r])}
    BY <1>1, <1>2
<1>7. QED BY <1>3, <1>5, <1>6

LEMMA SignUpKeepsAccounts ==
    ASSUME TokenInv, AccountInv, NEW r \in Request, SignUp(r)
    PROVE  AccountInv'
<1>1. form \in [Request -> Forms]
    BY DEF TokenInv
<1>2. ASSUME NEW e \in Email, NEW p \in Password, Register(r, e, p)
      PROVE  AccountInv'
    <2>1. users' = users /\ \A q \in Request : form'[q].at = "created" => form'[q] = form[q]
        BY <1>1, <1>2 DEF Register, Form, NoForm
    <2>2. QED BY <2>1 DEF AccountInv, OneAccountPerAddress, RegisteredCanLogIn, Found
<1>3. CASE Create(r)
    <2>1. PICK id \in Fresh : users' = users \cup {Row(id, form[r])}
        BY <1>3 DEF Create
    <2>2. id \in User
        BY DEF Fresh
    <2>3. /\ OneAccountPerAddress'
          /\ \A q \in Request : form[q].at = "created" =>
                 {u \in users' : u.email = form[q].email} = Found(form[q].email)
          /\ {u \in users' : u.email = form[r].email} = {Row(id, form[r])}
        BY <1>3, <2>1, <2>2, NewRow DEF Create
    <2>4. form' = [form EXCEPT ![r].at = "created"]
        BY <1>3 DEF Create
    <2>5. form'[r].email = form[r].email /\ form'[r].password = form[r].password
        BY <1>1, <1>3, <2>4 DEF Create, Forms, NoForm
    <2>6. ASSUME NEW q \in Request, form'[q].at = "created"
          PROVE  LET found == {u \in users' : u.email = form'[q].email}
                 IN  found # {} /\ \A u \in found : u.password = form'[q].password
        <3>1. CASE q = r
            <4>1. {u \in users' : u.email = form'[q].email} = {Row(id, form[r])}
                BY <2>3, <2>5, <3>1
            <4>2. Row(id, form[r]).password = form'[q].password
                BY <2>5, <3>1 DEF Row
            <4>3. QED BY <4>1, <4>2
        <3>2. CASE q # r
            <4>1. form'[q] = form[q]
                BY <1>1, <2>4, <3>2
            <4>2. {u \in users' : u.email = form'[q].email} = Found(form[q].email)
                BY <2>3, <2>6, <4>1
            <4>3. QED BY <2>6, <4>1, <4>2 DEF AccountInv, RegisteredCanLogIn
        <3>3. QED BY <3>1, <3>2
    <2>7. RegisteredCanLogIn'
        BY <2>6 DEF RegisteredCanLogIn, Found
    <2>8. QED BY <2>3, <2>7 DEF AccountInv
<1>4. CASE CreateFails(r)
    <2>1. form' = [form EXCEPT ![r] = NoForm]
        BY <1>4 DEF CreateFails
    <2>2. \A q \in Request : form'[q].at = "created" => form'[q] = form[q]
        BY <1>1, <2>1 DEF NoForm
    <2>3. CASE users' = users
        BY <2>2, <2>3 DEF AccountInv, OneAccountPerAddress, RegisteredCanLogIn, Found
    <2>4. CASE users' # users
        <3>1. PICK id \in Fresh : users' = users \cup {Row(id, form[r])}
            BY <1>4, <2>4 DEF CreateFails
        <3>2. id \in User
            BY DEF Fresh
        <3>3. form[r].at = "create" /\ Found(form[r].email) = {}
            BY <1>4, <2>4 DEF CreateFails
        <3>4. /\ OneAccountPerAddress'
              /\ \A q \in Request : form[q].at = "created" =>
                     {u \in users' : u.email = form[q].email} = Found(form[q].email)
            BY <3>1, <3>2, <3>3, NewRow
        <3>5. RegisteredCanLogIn'
            BY <2>2, <3>4 DEF AccountInv, RegisteredCanLogIn, Found
        <3>6. QED BY <3>4, <3>5 DEF AccountInv
    <2>5. QED BY <2>3, <2>4
<1>5. QED BY <1>2, <1>3, <1>4 DEF SignUp

LEMMA NextAccounts == TokenInv /\ AccountInv /\ [AccessNext]_accessVars => AccountInv'
<1> SUFFICES ASSUME TokenInv, AccountInv, [AccessNext]_accessVars PROVE AccountInv'
    OBVIOUS
<1>1. CASE \E r \in Request : SignUp(r)
    BY <1>1, SignUpKeepsAccounts
<1>2. CASE UNCHANGED <<users, form>>
    BY <1>2 DEF AccountInv, OneAccountPerAddress, RegisteredCanLogIn, Found
<1>3. QED
    BY <1>1, <1>2 DEF AccessNext, Arrive, CheckToken, Limit, SignIn, Login, Serve, Elapse,
                      accessVars, accountVars

LEMMA InitAccounts == AccessInit => AccountInv
BY DEF AccessInit, AccountsInit, AccountInv, OneAccountPerAddress, RegisteredCanLogIn, NoForm

LEMMA AccountInvariant == AccessSpec => []AccountInv
BY InitAccounts, NextAccounts, TokenInvariant, PTL DEF AccessSpec

\* Whatever registrations run at the same time, an address has one account
\* (services/auth.go:38-56).
THEOREM OneAccountAlways == AccessSpec => []OneAccountPerAddress
BY AccountInvariant, PTL DEF AccountInv

\* A created account can be logged in to with its password for ever
\* (services/auth.go:52-59).
THEOREM RegisteredCanLogInAlways == AccessSpec => []RegisteredCanLogIn
BY AccountInvariant, PTL DEF AccountInv

-----------------------------------------------------------------------------
(* The routes. *)

\* What the entry i of the stack adds to the chain of e.
Piece(e, i) == IF e \in Stack[i].on THEN Stack[i].handlers ELSE <<>>

\* The place of the route of e, spelt out.
OwnPlace(e) ==
    CASE e = "register" -> 1 [] e = "login" -> 2 [] e = "upload" -> 5
      [] e = "files" -> 6 [] e = "ws" -> 7 [] e = "health" -> 8

\* The stack, entry by entry.
LEMMA StackEntries ==
    /\ Stack[1] = Route("register") /\ Stack[2] = Route("login")
    /\ Stack[3] = Use(<<"jwt">>) /\ Stack[4] = Use(<<"jwt", "rate">>)
    /\ Stack[5] = Route("upload") /\ Stack[6] = Route("files")
    /\ Stack[7] = Route("ws") /\ Stack[8] = Route("health")
    /\ Len(Stack) = 8
BY DEF Stack

\* What an entry is for.
LEMMA EntryFor ==
    /\ Stack[1].on = {"register"} /\ Stack[2].on = {"login"}
    /\ Stack[3].on = Endpoints /\ Stack[4].on = Endpoints
    /\ Stack[5].on = {"upload"} /\ Stack[6].on = {"files"}
    /\ Stack[7].on = {"ws"} /\ Stack[8].on = {"health"}
BY StackEntries DEF Route, Use

\* What an entry runs.
LEMMA EntryRuns ==
    /\ Stack[1].handlers = <<"register">> /\ Stack[2].handlers = <<"login">>
    /\ Stack[3].handlers = <<"jwt">> /\ Stack[4].handlers = <<"jwt", "rate">>
    /\ Stack[5].handlers = <<"upload">> /\ Stack[6].handlers = <<"files">>
    /\ Stack[7].handlers = <<"ws">> /\ Stack[8].handlers = <<"health">>
BY StackEntries DEF Route, Use

\* Only the route of e is for e alone.
LEMMA OwnEntry ==
    ASSUME NEW e \in Endpoints
    PROVE  {i \in 1 .. Len(Stack) : Stack[i].on = {e}} = {OwnPlace(e)}
<1>1. Endpoints # {e}
    BY DEF Endpoints
<1>2. \A i \in 1 .. 8 : i = 1 \/ i = 2 \/ i = 3 \/ i = 4 \/ i = 5 \/ i = 6 \/ i = 7 \/ i = 8
    OBVIOUS
<1>3. OwnPlace(e) \in 1 .. 8
    BY DEF OwnPlace, Endpoints
<1>4. \A f : {f} = {e} <=> f = e
    OBVIOUS
<1>5. ASSUME NEW i \in 1 .. 8 PROVE Stack[i].on = {e} <=> i = OwnPlace(e)
    <2>1. CASE i = 1
        BY <1>4, <2>1, EntryFor DEF OwnPlace, Endpoints
    <2>2. CASE i = 2
        BY <1>4, <2>2, EntryFor DEF OwnPlace, Endpoints
    <2>3. CASE i = 3
        BY <1>1, <2>3, EntryFor DEF OwnPlace, Endpoints
    <2>4. CASE i = 4
        BY <1>1, <2>4, EntryFor DEF OwnPlace, Endpoints
    <2>5. CASE i = 5
        BY <1>4, <2>5, EntryFor DEF OwnPlace, Endpoints
    <2>6. CASE i = 6
        BY <1>4, <2>6, EntryFor DEF OwnPlace, Endpoints
    <2>7. CASE i = 7
        BY <1>4, <2>7, EntryFor DEF OwnPlace, Endpoints
    <2>8. CASE i = 8
        BY <1>4, <2>8, EntryFor DEF OwnPlace, Endpoints
    <2> QED BY <1>2, <2>1, <2>2, <2>3, <2>4, <2>5, <2>6, <2>7, <2>8
<1> QED BY <1>3, <1>5, StackEntries

\* The search finds it.
LEMMA OwnIsOwnPlace ==
    ASSUME NEW e \in Endpoints
    PROVE  Own(e) = OwnPlace(e)
<1> DEFINE I == {i \in 1 .. Len(Stack) : Stack[i].on = {e}}
<1>1. Own(e) = IF I # {} THEN Min(I) ELSE 0
    BY DEF Own, SelectInSeq
<1>2. I = {OwnPlace(e)} /\ OwnPlace(e) \in Nat
    BY OwnEntry DEF OwnPlace, Endpoints
<1> HIDE DEF I
<1>3. Min(I) \in I
    BY <1>2, MinIsSmallest
<1> QED BY <1>1, <1>2, <1>3

Handlers == Endpoints \cup {"jwt", "rate"}

\* A chain is made of handlers.
LEMMA PiecesOfHandlers ==
    ASSUME NEW e \in Endpoints, NEW i \in 1 .. 8
    PROVE  Piece(e, i) \in Seq(Handlers)
<1>1. i = 1 \/ i = 2 \/ i = 3 \/ i = 4 \/ i = 5 \/ i = 6 \/ i = 7 \/ i = 8
    OBVIOUS
<1>2. \A h \in Handlers : <<h>> \in Seq(Handlers)
    OBVIOUS
<1>3. <<>> \in Seq(Handlers) /\ <<"jwt", "rate">> \in Seq(Handlers)
    BY DEF Handlers
<1>4. Stack[i].handlers \in Seq(Handlers)
    <2>1. Endpoints \subseteq Handlers /\ "jwt" \in Handlers
        BY DEF Handlers
    <2>2. CASE i \in {3, 4}
        BY <1>2, <1>3, <2>1, <2>2, EntryRuns
    <2>3. CASE i \notin {3, 4}
        <3>1. PICK h \in Endpoints : Stack[i].handlers = <<h>>
            BY <1>1, <2>3, EntryRuns DEF Endpoints
        <3> QED BY <1>2, <2>1, <3>1
    <2> QED BY <2>2, <2>3
<1> QED BY <1>3, <1>4 DEF Piece

\* The chain, one entry after the other.
LEMMA ChainUnfolds ==
    ASSUME NEW e \in Endpoints
    PROVE  \E f : /\ Chain(e) = f[OwnPlace(e)]
                  /\ \A i \in 1 .. OwnPlace(e) :
                        f[i] = IF i = 1 THEN Piece(e, i) ELSE f[i - 1] \o Piece(e, i)
<1> DEFINE n == OwnPlace(e)
           Pieces == [i \in 1 .. n |-> Piece(e, i)]
<1>1. n \in 1 .. 8
    BY DEF OwnPlace, Endpoints
<1>2. Chain(e) = FlattenSeq(Pieces)
    BY OwnIsOwnPlace DEF Chain, Piece
<1>3. \A i \in 1 .. n : Pieces[i] = Piece(e, i) /\ Piece(e, i) \in Seq(Handlers)
    BY <1>1, PiecesOfHandlers
<1>4. Pieces \in Seq(Seq(Handlers)) /\ DOMAIN Pieces = 1 .. n
    <2>1. n \in Nat
        BY <1>1
    <2> HIDE DEF n
    <2>2. Pieces \in [1 .. n -> Seq(Handlers)]
        BY <1>3
    <2> QED BY <2>1, <2>2, SeqDef
<1> HIDE DEF n, Pieces
<1>5. Len(Pieces) = n
    BY <1>1, <1>4, LenProperties
<1>6. PICK f : IsFlattening(f, Pieces) /\ FlattenSeq(Pieces) = f[Len(Pieces)]
    BY <1>1, <1>4, <1>5, FlattenSeqUnfolds
<1>7. \A i \in 1 .. n : f[i] = IF i = 1 THEN Piece(e, i) ELSE f[i - 1] \o Piece(e, i)
    BY <1>3, <1>5, <1>6, FlatteningStep
<1> QED BY <1>2, <1>5, <1>6, <1>7 DEF n

\* A registration meets no other handler, and neither does a login.
LEMMA PublicChains ==
    /\ Chain("register")[1] = "register" /\ Chain("login")[1] = "login"
<1>1. Chain("register")[1] = "register"
    <2>1. "register" \in Endpoints /\ OwnPlace("register") = 1 /\ 1 \in 1 .. 1
        BY DEF OwnPlace, Endpoints
    <2>2. Chain("register") = Piece("register", 1)
        BY <2>1, ChainUnfolds
    <2> QED BY <2>2, EntryFor, EntryRuns DEF Piece
<1>2. Chain("login")[1] = "login"
    <2>1. "login" \in Endpoints /\ OwnPlace("login") = 2 /\ 1 \in 1 .. 2 /\ 2 \in 1 .. 2 /\ 2 - 1 = 1
        BY DEF OwnPlace, Endpoints
    <2>6. PICK f : /\ Chain("login") = f[OwnPlace("login")]
                   /\ \A i \in 1 .. OwnPlace("login") :
                        f[i] = IF i = 1 THEN Piece("login", i)
                               ELSE f[i - 1] \o Piece("login", i)
        BY <2>1, ChainUnfolds, Zenon
    <2>7. f[1] = Piece("login", 1) /\ f[2] = f[2 - 1] \o Piece("login", 2)
        <3>1. 1 \in 1 .. OwnPlace("login") /\ 2 \in 1 .. OwnPlace("login") /\ 2 # 1
            BY <2>1
        <3> QED BY <2>6, <3>1, Zenon
    <2>2. Chain("login") = Piece("login", 1) \o Piece("login", 2)
        BY <2>1, <2>6, <2>7
    <2>3. Piece("login", 1) = <<>>
        BY EntryFor DEF Piece
    <2>4. Piece("login", 2) = <<"login">>
        BY EntryFor, EntryRuns DEF Piece
    <2>5. Chain("login") = <<"login">>
        BY <2>2, <2>3, <2>4
    <2> QED BY <2>5
<1> QED BY <1>1, <1>2

\* The pieces of a protected endpoint's chain.
LEMMA ProtectedPieces ==
    ASSUME NEW e \in Protected
    PROVE  /\ Piece(e, 1) = <<>> /\ Piece(e, 2) = <<>>
           /\ Piece(e, 3) = <<"jwt">> /\ Piece(e, 4) = <<"jwt", "rate">>
           /\ OwnPlace(e) \in 5 .. 8 /\ Piece(e, OwnPlace(e)) = <<e>>
           /\ \A i \in 5 .. OwnPlace(e) - 1 : Piece(e, i) = <<>>
<1>1. e \in Endpoints /\ e # "register" /\ e # "login"
    BY DEF Protected
<1>2. e = "upload" \/ e = "files" \/ e = "ws" \/ e = "health"
    BY <1>1 DEF Endpoints
<1>3. Piece(e, 1) = <<>> /\ Piece(e, 2) = <<>>
    BY <1>1, EntryFor DEF Piece
<1>4. Piece(e, 3) = <<"jwt">> /\ Piece(e, 4) = <<"jwt", "rate">>
    BY <1>1, EntryFor, EntryRuns DEF Piece
<1>5. OwnPlace(e) \in 5 .. 8
    BY <1>2 DEF OwnPlace
<1>6. Piece(e, OwnPlace(e)) = <<e>>
    <2>1. CASE e = "upload"
        BY <2>1, EntryFor, EntryRuns DEF Piece, OwnPlace
    <2>2. CASE e = "files"
        BY <2>2, EntryFor, EntryRuns DEF Piece, OwnPlace
    <2>3. CASE e = "ws"
        BY <2>3, EntryFor, EntryRuns DEF Piece, OwnPlace
    <2>4. CASE e = "health"
        BY <2>4, EntryFor, EntryRuns DEF Piece, OwnPlace
    <2> QED BY <1>2, <2>1, <2>2, <2>3, <2>4
<1>7. ASSUME NEW i \in 5 .. OwnPlace(e) - 1 PROVE Piece(e, i) = <<>>
    <2>1. i = 5 \/ i = 6 \/ i = 7
        BY <1>5
    <2>2. i = 5 => e # "upload"
        BY <1>7 DEF OwnPlace
    <2>3. i = 6 => e # "files" 
        BY <1>7 DEF OwnPlace
    <2>4. i = 7 => e # "ws"
        BY <1>7 DEF OwnPlace
    <2> QED BY <2>1, <2>2, <2>3, <2>4, EntryFor DEF Piece
<1> QED BY <1>3, <1>4, <1>5, <1>6, <1>7

\* Before any other handler come two token checks and the limiter: the groups
\* of wire.go both have the prefix "/" (wire.go:93-128).
LEMMA ProtectedChains ==
    ASSUME NEW e \in Protected
    PROVE  /\ Chain(e)[1] = "jwt" /\ Chain(e)[2] = "jwt" /\ Chain(e)[3] = "rate"
           /\ Chain(e)[4] = e
<1>1. e \in Endpoints /\ OwnPlace(e) \in 5 .. 8
    BY ProtectedPieces DEF Protected
<1>2. PICK f : /\ Chain(e) = f[OwnPlace(e)]
               /\ \A i \in 1 .. OwnPlace(e) :
                     f[i] = IF i = 1 THEN Piece(e, i) ELSE f[i - 1] \o Piece(e, i)
    BY <1>1, ChainUnfolds
<1>3. \A i \in 2 .. OwnPlace(e) : f[i] = f[i - 1] \o Piece(e, i)
    <2>1. \A i \in 2 .. OwnPlace(e) : i \in 1 .. OwnPlace(e) /\ i # 1
        BY <1>1
    <2> QED BY <1>2, <2>1, Zenon
<1>4. f[1] = <<>>
    BY <1>1, <1>2, ProtectedPieces
<1>5. f[2] = <<>>
    <2>1. f[2] = f[1] \o Piece(e, 2)
        BY <1>1, <1>3
    <2> QED BY <1>4, <2>1, ProtectedPieces
<1>6. f[3] = <<"jwt">>
    <2>1. f[3] = f[2] \o Piece(e, 3)
        BY <1>1, <1>3
    <2> QED BY <1>5, <2>1, ProtectedPieces
<1>7. f[4] \in Seq(Handlers) /\ Len(f[4]) = 3
      /\ f[4][1] = "jwt" /\ f[4][2] = "jwt" /\ f[4][3] = "rate"
    <2>1. f[4] = f[3] \o Piece(e, 4)
        BY <1>1, <1>3
    <2>2. f[4] = <<"jwt">> \o <<"jwt", "rate">>
        BY <1>6, <2>1, ProtectedPieces, Zenon
    <2>3. <<"jwt">> \in Seq(Handlers) /\ <<"jwt", "rate">> \in Seq(Handlers)
        BY DEF Handlers
    <2>4. Len(<<"jwt">>) = 1 /\ Len(<<"jwt", "rate">>) = 2
        OBVIOUS
    <2> QED BY <2>2, <2>3, <2>4, ConcatProperties
<1>8. \A i \in 5 .. OwnPlace(e) - 1 : f[i - 1] = f[4] => f[i] = f[4]
    <2>1. f[4] \o <<>> = f[4]
        BY <1>7, ConcatEmptySeq
    <2>3. \A i \in 5 .. OwnPlace(e) - 1 : i \in 2 .. OwnPlace(e)
        BY <1>1
    <2>2. \A i \in 5 .. OwnPlace(e) - 1 : f[i] = f[i - 1] \o <<>>
        BY <1>3, <2>3, ProtectedPieces, Zenon
    <2> QED BY <2>1, <2>2
<1>9. f[OwnPlace(e) - 1] = f[4]
    <2>1. 5 < OwnPlace(e) => f[5] = f[4]
        BY <1>1, <1>8
    <2>2. 6 < OwnPlace(e) => f[6] = f[4]
        BY <1>1, <1>8, <2>1
    <2>3. 7 < OwnPlace(e) => f[7] = f[4]
        BY <1>1, <1>8, <2>2
    <2> QED BY <1>1, <2>1, <2>2, <2>3
<1>10. Chain(e) = f[4] \o <<e>>
    <2>2. OwnPlace(e) \in 2 .. OwnPlace(e)
        BY <1>1
    <2>1. f[OwnPlace(e)] = f[OwnPlace(e) - 1] \o Piece(e, OwnPlace(e))
        BY <1>3, <2>2, Zenon
    <2> QED BY <1>2, <1>9, <2>1, ProtectedPieces, Zenon
<1>11. <<e>> \in Seq(Handlers) /\ Len(<<e>>) = 1 /\ <<e>>[1] = e
    BY <1>1 DEF Handlers
<1> QED BY <1>7, <1>10, <1>11, ConcatProperties

-----------------------------------------------------------------------------
(* What a request has passed says what was checked of it. The invariant is  *)
(* about the request before each handler of its chain: past the first jwt   *)
(* it shows a token that was valid when it came, since the clock does not   *)
(* go back and only a valid token passes.                                   *)

RequestInv(r) ==
    /\ http[r].to = "none" => http[r] = NoRequest
    /\ http[r].token \in issued \cup {None}
    /\ http[r].good \/ http[r].token = None \/ http[r].token.exp =< now
    /\ http[r].to \in Protected => http[r].at \in 0 .. 3
    /\ http[r].to \notin Protected => http[r].at = 0
    /\ http[r].at # 0 => http[r].good /\ http[r].token # None

CheckedInv ==
    /\ TokenInv
    /\ \A t \in issued : \E u \in users : u.id = t.sub
    /\ \A r \in Request : RequestInv(r)

\* Handlers of the middleware are not endpoints.
LEMMA MiddlewareIsNoEndpoint == "jwt" \notin Endpoints /\ "rate" \notin Endpoints
BY DEF Endpoints

\* None is not a token.
LEMMA NoneIsNoToken == TokenInv => None \notin issued
BY AccessAssumption DEF TokenInv, Tokens

\* Where a request in flight is, by the handler it meets.
LEMMA PlaceInChain ==
    ASSUME CheckedInv, NEW r \in Request, http[r] # NoRequest
    PROVE  /\ http[r].to \in Endpoints
           /\ http[r].to \notin Protected => Before(r) = http[r].to
           /\ http[r].to \in Protected =>
                 /\ Before(r) = "jwt" => http[r].at \in {0, 1}
                 /\ Before(r) = "rate" => http[r].at = 2
                 /\ Before(r) = http[r].to => http[r].at = 3
<1>1. RequestInv(r) /\ http[r] \in HttpRecords
    BY DEF CheckedInv, TokenInv
<1>2. http[r].to \in Endpoints
    BY <1>1 DEF RequestInv, HttpRecords
<1>3. ASSUME http[r].to \notin Protected PROVE Before(r) = http[r].to
    <2>1. http[r].to = "register" \/ http[r].to = "login"
        BY <1>2, <1>3 DEF Protected
    <2>2. Before(r) = Chain(http[r].to)[1]
        BY <1>1, <1>3 DEF RequestInv, Before
    <2> QED BY <2>1, <2>2, PublicChains
<1>4. ASSUME http[r].to \in Protected
      PROVE  /\ Before(r) = "jwt" => http[r].at \in {0, 1}
             /\ Before(r) = "rate" => http[r].at = 2
             /\ Before(r) = http[r].to => http[r].at = 3
    <2> DEFINE e == http[r].to
               n == http[r].at
    <2>1. Before(r) = Chain(e)[n + 1] /\ n \in 0 .. 3
        BY <1>1, <1>4 DEF RequestInv, Before
    <2>2. e # "jwt" /\ e # "rate"
        BY <1>2, MiddlewareIsNoEndpoint
    <2>3. /\ Chain(e)[1] = "jwt" /\ Chain(e)[2] = "jwt" /\ Chain(e)[3] = "rate"
          /\ Chain(e)[4] = e
        BY <1>4, ProtectedChains
    <2> HIDE DEF e, n
    <2>4. \/ n \in {0, 1} /\ Before(r) = "jwt"
          \/ n = 2 /\ Before(r) = "rate"
          \/ n = 3 /\ Before(r) = e
        BY <2>1, <2>3
    <2>5. /\ Before(r) = "jwt" => n \in {0, 1}
          /\ Before(r) = "rate" => n = 2
          /\ Before(r) = e => n = 3
        BY <2>2, <2>4
    <2> QED BY <2>5 DEF e, n
<1> QED BY <1>2, <1>3, <1>4

\* A request that is left alone, or answered, keeps its invariant while time
\* passes and tokens are issued.
LEMMA RequestLeft ==
    ASSUME TokenInv, NEW q \in Request, RequestInv(q),
           now' \in Nat, now =< now', issued \subseteq issued',
           http'[q] = http[q] \/ http'[q] = NoRequest
    PROVE  RequestInv(q)'
<1>1. CASE http'[q] = http[q]
    <2>1. http[q].token \in issued \cup {None}
        BY DEF RequestInv
    <2>2. http[q].token = None \/ http[q].token.exp \in Nat
        BY <2>1 DEF TokenInv, Tokens
    <2>3. http[q].good \/ http[q].token = None \/ http[q].token.exp =< now'
        BY <2>2 DEF RequestInv, TokenInv
    <2> QED BY <1>1, <2>1, <2>3 DEF RequestInv
<1>2. CASE http'[q] = NoRequest
    <2>1. "none" \notin Protected
        BY DEF Protected, Endpoints
    <2> QED BY <1>2, <2>1 DEF RequestInv, NoRequest
<1> QED BY <1>1, <1>2

\* So does one that passes a handler with a good token.
LEMMA RequestPasses ==
    ASSUME TokenInv, NEW r \in Request, RequestInv(r), Passes(r),
           http[r].to \in Protected, http[r].at \in 0 .. 2,
           http[r].good, http[r].token # None,
           UNCHANGED <<now, issued>>
    PROVE  RequestInv(r)'
<1>1. http[r] \in HttpRecords /\ http \in [Request -> HttpRecords]
    BY DEF TokenInv
<1>2. http'[r] = [http[r] EXCEPT !.at = @ + 1]
    BY <1>1 DEF Passes
<1>3. /\ http'[r].to = http[r].to /\ http'[r].token = http[r].token
      /\ http'[r].good = http[r].good /\ http'[r].at = http[r].at + 1
    BY <1>1, <1>2 DEF HttpRecords
<1>4. http'[r].to # "none"
    BY <1>3 DEF Protected, Endpoints
<1> QED BY <1>3, <1>4 DEF RequestInv

LEMMA InitChecked == AccessInit => CheckedInv
<1> SUFFICES ASSUME AccessInit PROVE CheckedInv
    OBVIOUS
<1>1. TokenInv
    BY InitToken
<1>2. issued = {} /\ \A r \in Request : http[r] = NoRequest
    BY DEF AccessInit, AccountsInit
<1>3. "none" \notin Protected
    BY DEF Protected, Endpoints
<1>4. ASSUME NEW r \in Request PROVE RequestInv(r)
    <2>1. http[r] = NoRequest
        BY <1>2
    <2>2. http[r].to = "none" /\ http[r].at = 0 /\ http[r].token = None
        BY <2>1 DEF NoRequest
    <2> QED BY <1>3, <2>1, <2>2 DEF RequestInv
<1> QED BY <1>1, <1>2, <1>4 DEF CheckedInv

LEMMA NextChecked == CheckedInv /\ [AccessNext]_accessVars => CheckedInv'
<1> SUFFICES ASSUME CheckedInv, [AccessNext]_accessVars PROVE CheckedInv'
    OBVIOUS
<1>1. TokenInv /\ TokenInv' /\ \A r \in Request : RequestInv(r)
    BY NextToken DEF CheckedInv
<1>2. http \in [Request -> HttpRecords] /\ now \in Nat /\ now' \in Nat
    BY <1>1 DEF TokenInv
<1>3. \A t \in issued : \E u \in users : u.id = t.sub
    BY DEF CheckedInv
<1>4. \A r \in Request : Answered(r) =>
          \A q \in Request : http'[q] = http[q] \/ http'[q] = NoRequest
    BY <1>2 DEF Answered
<1>5. \A r \in Request : Passes(r) => \A q \in Request : q # r => http'[q] = http[q]
    BY <1>2 DEF Passes
\* Tokens of accounts.
<1>6. ASSUME UNCHANGED <<now, users, issued>>,
             \A q \in Request : RequestInv(q)'
      PROVE  CheckedInv'
    BY <1>1, <1>3, <1>6 DEF CheckedInv
<1>7. ASSUME now =< now', issued \subseteq issued',
             \A t \in issued' : \E u \in users' : u.id = t.sub,
             \A q \in Request : http'[q] = http[q] \/ http'[q] = NoRequest
      PROVE  CheckedInv'
    BY <1>1, <1>2, <1>7, RequestLeft DEF CheckedInv
<1>8. ASSUME NEW r \in Request, Passes(r), UNCHANGED <<now, users, issued>>,
             http[r].to \in Protected, http[r].at \in 0 .. 2,
             http[r].good, http[r].token # None
      PROVE  CheckedInv'
    <2>1. RequestInv(r)'
        BY <1>1, <1>8, RequestPasses
    <2>2. \A q \in Request : q # r => RequestInv(q)'
        BY <1>1, <1>2, <1>5, <1>8, RequestLeft
    <2> QED BY <1>6, <1>8, <2>1, <2>2
<1>11. ASSUME NEW r \in Request, NEW e \in Asked, NEW token \in issued \cup {None},
              Arrive(r, e, token)
       PROVE  CheckedInv'
    <2>1. http' = [http EXCEPT ![r] =
              [to |-> e, at |-> 0, token |-> token, good |-> Valid(token)]]
          /\ UNCHANGED <<now, users, issued>>
        BY <1>11 DEF Arrive, limiterVars, accountVars
    <2>2. e \in Endpoints /\ "none" \notin Endpoints
        BY AccessAssumption DEF Endpoints
    <2>3. token = None \/ token.exp \in Nat
        BY <1>1 DEF TokenInv, Tokens
    <2>4. RequestInv(r)'
        <3>1. /\ http'[r].to = e /\ http'[r].at = 0 /\ http'[r].token = token
              /\ http'[r].good = Valid(token)
            BY <1>2, <2>1
        <3>2. Valid(token) \/ token = None \/ token.exp =< now
            BY <1>2, <2>3 DEF Valid
        <3> QED BY <2>1, <2>2, <3>1, <3>2 DEF RequestInv
    <2>5. \A q \in Request : q # r => RequestInv(q)'
        <3>1. \A q \in Request : q # r => http'[q] = http[q]
            BY <1>2, <2>1
        <3> QED BY <1>1, <1>2, <2>1, <3>1, RequestLeft
    <2> QED BY <1>6, <2>1, <2>4, <2>5
<1>12. ASSUME NEW r \in Request, CheckToken(r) PROVE CheckedInv'
    <2>1. UNCHANGED <<now, users, issued>>
        BY <1>12 DEF CheckToken, limiterVars, accountVars
    <2>2. CASE Valid(http[r].token)
        <3>1. Passes(r) /\ http[r] # NoRequest /\ Before(r) = "jwt"
            BY <1>12, <2>2 DEF CheckToken, Meets
        <3>2. http[r].to \in Protected /\ http[r].at \in {0, 1}
            BY <3>1, PlaceInChain, MiddlewareIsNoEndpoint
        <3>3. http[r].token \in issued /\ now < http[r].token.exp
            BY <2>2 DEF Valid
        <3>4. http[r].token # None /\ http[r].token.exp \in Nat
            BY <1>1, <3>3, NoneIsNoToken DEF TokenInv, Tokens
        <3>5. http[r].good
            BY <1>1, <1>2, <3>3, <3>4 DEF RequestInv
        <3> QED BY <1>8, <2>1, <3>1, <3>2, <3>4, <3>5
    <2>3. CASE ~Valid(http[r].token)
        BY <1>2, <1>3, <1>4, <1>7, <1>12, <2>1, <2>3 DEF CheckToken
    <2> QED BY <2>2, <2>3
<1>13. ASSUME NEW r \in Request, Limit(r) PROVE CheckedInv'
    <2>1. UNCHANGED <<now, users, issued>>
        BY <1>13 DEF Limit, Get, ReadClock, Grant, Refuse, accountVars
    <2>2. CASE Passes(r)
        <3>1. http[r] # NoRequest /\ Before(r) = "rate"
            BY <1>13 DEF Limit, Meets
        <3>2. http[r].to \in Protected /\ http[r].at = 2
            BY <3>1, PlaceInChain, MiddlewareIsNoEndpoint
        <3>3. http[r].good /\ http[r].token # None
            BY <1>1, <3>2 DEF RequestInv
        <3> QED BY <1>8, <2>1, <2>2, <3>2, <3>3
    <2>3. CASE Answered(r) \/ UNCHANGED http
        BY <1>2, <1>3, <1>4, <1>7, <2>1, <2>3
    <2> QED BY <1>13, <2>2, <2>3 DEF Limit
<1>14. ASSUME NEW r \in Request, SignUp(r) PROVE CheckedInv'
    <2>1. now' = now /\ issued \subseteq issued' /\ users \subseteq users'
        BY <1>14 DEF SignUp, Register, Create, CreateFails, limiterVars
    <2>2. \A t \in issued' : \E u \in users' : u.id = t.sub
        <3>1. CASE issued' = issued
            BY <1>3, <2>1, <3>1
        <3>2. CASE Create(r)
            <4>1. PICK id \in Fresh : /\ users' = users \cup {Row(id, form[r])}
                                      /\ issued' = issued \cup {Token(id)}
                BY <3>2 DEF Create
            <4>2. Row(id, form[r]) \in users' /\ Row(id, form[r]).id = Token(id).sub
                BY <4>1 DEF Row, Token
            <4> QED BY <1>3, <2>1, <4>1, <4>2
        <3> QED BY <1>14, <3>1, <3>2 DEF SignUp, Register, CreateFails
    <2>3. \A q \in Request : http'[q] = http[q] \/ http'[q] = NoRequest
        BY <1>4, <1>14 DEF SignUp
    <2> QED BY <1>2, <1>7, <2>1, <2>2, <2>3
<1>15. ASSUME NEW r \in Request, SignIn(r) PROVE CheckedInv'
    <2>1. now' = now /\ issued \subseteq issued' /\ users' = users
        BY <1>15 DEF SignIn, Login, limiterVars, accountVars
    <2>2. \A t \in issued' : \E u \in users' : u.id = t.sub
        <3>1. CASE issued' = issued
            BY <1>3, <2>1, <3>1
        <3>2. ASSUME NEW e, NEW p, Login(e, p)
              PROVE  \A t \in issued' : \E u \in users' : u.id = t.sub
            <4>1. PICK u \in users : issued' = issued \cup {Token(u.id)}
                BY <3>2 DEF Login, Found
            <4>2. Token(u.id).sub = u.id
                BY DEF Token
            <4> QED BY <1>3, <2>1, <4>1, <4>2
        <3> QED BY <1>15, <3>1, <3>2 DEF SignIn, accountVars
    <2>3. \A q \in Request : http'[q] = http[q] \/ http'[q] = NoRequest
        BY <1>4, <1>15 DEF SignIn
    <2> QED BY <1>2, <1>7, <2>1, <2>2, <2>3
<1>16. ASSUME NEW r \in Request, Serve(r) PROVE CheckedInv'
    BY <1>2, <1>3, <1>4, <1>7, <1>16 DEF Serve, limiterVars, accountVars
<1>17. CASE Elapse
    <2>1. now =< now' /\ UNCHANGED <<users, issued, http>>
        BY <1>2, <1>17 DEF Elapse, Cleanup, Tick, OpenWindow, accountVars
    <2> QED BY <1>3, <1>7, <2>1
<1>18. CASE UNCHANGED accessVars
    BY <1>2, <1>3, <1>7, <1>18 DEF accessVars, limiterVars, accountVars
<1> QED BY <1>11, <1>12, <1>13, <1>14, <1>15, <1>16, <1>17, <1>18 DEF AccessNext

LEMMA CheckedInvariant == AccessSpec => []CheckedInv
BY InitChecked, NextChecked, PTL DEF AccessSpec

\* The types of the limiter, the accounts and the requests; a request is never
\* past the fourth handler of its chain.
THEOREM AccessTypeOKHolds == AccessSpec => []AccessTypeOK
<1>1. AccessSpec => []LimiterTypeOK
    <2>1. LimiterInv => LimiterTypeOK
        BY DEF LimiterInv
    <2> QED BY <2>1, AccessImplementsLimiter, LimiterInvariant, PTL
<1>2. CheckedInv /\ LimiterTypeOK => AccessTypeOK
    <2> SUFFICES ASSUME CheckedInv PROVE \A r \in Request : http[r] \in Requests
        BY DEF CheckedInv, TokenInv, AccessTypeOK
    <2> TAKE r \in Request
    <2>1. http[r] \in HttpRecords /\ RequestInv(r)
        BY DEF CheckedInv, TokenInv
    <2>2. http[r].at \in 0 .. 4
        BY <2>1 DEF RequestInv
    <2> QED BY <2>1, <2>2 DEF HttpRecords, Requests
<1> QED BY <1>1, <1>2, CheckedInvariant, PTL

\* Whatever token a request shows, and however tokens expire and requests
\* overlap, a handler behind the groups only runs for a token this server
\* signed for an existing account (wire.go:105-128, jwt.go:13-34).
THEOREM ServedWereCheckedAlways == AccessSpec => []ServedWereChecked
<1>1. CheckedInv => ServedWereChecked
    <2> SUFFICES ASSUME CheckedInv, NEW r \in Request, Reached(r)
                 PROVE  http[r].good /\ \E u \in users : u.id = http[r].token.sub
        BY DEF ServedWereChecked
    <2>1. RequestInv(r) /\ TokenInv
        BY DEF CheckedInv
    <2>2. http[r].to \in Protected /\ Before(r) = http[r].to
        BY DEF Reached
    <2>3. http[r] # NoRequest
        <3>1. "none" \notin Protected
            BY DEF Protected, Endpoints
        <3> QED BY <2>2, <3>1 DEF NoRequest
    <2>4. http[r].at = 3
        BY <2>2, <2>3, PlaceInChain
    <2>5. http[r].good /\ http[r].token \in issued
        BY <2>1, <2>4 DEF RequestInv
    <2> QED BY <2>5 DEF CheckedInv
<1> QED BY <1>1, CheckedInvariant, PTL
=============================================================================
