-------------------------------- MODULE Access --------------------------------
(***************************************************************************)
(* The way of a request to its handler: the middleware of internal/di/      *)
(* wire.go in the order of Routes, the tokens of Accounts, the buckets of   *)
(* RateLimiter, on one clock. Requests run concurrently; each runs through  *)
(* the chain of its endpoint one handler at a time.                         *)
(***************************************************************************)
EXTENDS RateLimiter, Accounts, Routes, FiniteSets

CONSTANTS Asked,     \* bounds of TLC's runs: the endpoints asked for,
          MaxTokens  \* and the tokens issued

ASSUME AccessAssumption ==
    /\ TokenLife \in Nat /\ Asked \subseteq Endpoints /\ MaxTokens \in Nat
    /\ None \notin [sub : User, exp : Nat]

VARIABLE http  \* http[r]: the request r is

accessVars == <<limiterVars, accountVars, http>>

\* at: how many handlers of its chain it is past. token: of its header. good:
\* history, whether the token was valid when the request came.
NoRequest == [to |-> "none", at |-> 0, token |-> None, good |-> FALSE]

AccessInit == LimiterInit /\ AccountsInit /\ http = [r \in Request |-> NoRequest]

-----------------------------------------------------------------------------
\* The handler request r is before; its own, when the chain is through.
Before(r) == Chain(http[r].to)[http[r].at + 1]
Meets(r, handler) == http[r] # NoRequest /\ Before(r) = handler

Passes(r) == http' = [http EXCEPT ![r].at = @ + 1]
Answered(r) == http' = [http EXCEPT ![r] = NoRequest]

\* A request with the header it shows; one without a good token ends at the
\* first jwt handler as an expired one does.
Arrive(r, e, token) ==
    /\ http[r] = NoRequest
    /\ http' = [http EXCEPT ![r] = [to |-> e, at |-> 0, token |-> token, good |-> Valid(token)]]
    /\ UNCHANGED <<limiterVars, accountVars>>

\* Slip: a token is good as long as its signature is.
CheckSignatureOnly(r) ==
    /\ Meets(r, "jwt")
    /\ IF http[r].token \in issued THEN Passes(r) ELSE Answered(r)
    /\ UNCHANGED <<limiterVars, accountVars>>

\* JWTMiddleware: ValidateToken, or 401.
CheckToken(r) ==
    /\ Meets(r, "jwt")
    /\ IF Valid(http[r].token) THEN Passes(r) ELSE Answered(r)
    /\ UNCHANGED <<limiterVars, accountVars>>

\* The rate limiter's Middleware, with the user id that the token check left; a
\* refusal is a 429. Without a user id it would be a 401, but none gets here.
Limit(r) ==
    /\ Meets(r, "rate")
    /\ http[r].token # None
    /\ \/ Get(r, http[r].token.sub) /\ UNCHANGED http
       \/ ReadClock(r) /\ UNCHANGED http
       \/ Grant(r) /\ Passes(r)
       \/ Refuse(r) /\ Answered(r)
    /\ UNCHANGED accountVars

\* The handlers of Accounts; register asks the database twice.
SignUp(r) ==
    /\ Meets(r, "register")
    /\ \/ \E e \in Email, p \in Password :
             /\ Register(r, e, p)
             /\ IF form'[r].at = "create" THEN UNCHANGED http ELSE Answered(r)
       \/ Create(r) /\ Answered(r)
       \/ CreateFails(r) /\ Answered(r)
    /\ UNCHANGED limiterVars

SignIn(r) ==
    /\ Meets(r, "login")
    /\ \/ \E e \in Email, p \in Password : Login(e, p)
       \/ UNCHANGED accountVars
    /\ Cardinality(issued') =< MaxTokens
    /\ Answered(r)
    /\ UNCHANGED limiterVars

\* Any other handler does its work, which is not of this module.
Protected == Endpoints \ {"register", "login"}
Reached(r) == http[r].to \in Protected /\ Before(r) = http[r].to

Serve(r) ==
    /\ Reached(r)
    /\ Answered(r)
    /\ UNCHANGED <<limiterVars, accountVars>>

Elapse ==
    /\ Cleanup \/ Tick \/ OpenWindow
    /\ UNCHANGED <<accountVars, http>>

AccessNext ==
    \/ \E r \in Request :
          \/ \E e \in Asked, token \in issued \cup {None} : Arrive(r, e, token)
          \/ CheckToken(r)
          \/ Limit(r)
          \/ SignUp(r)
          \/ SignIn(r)
          \/ Serve(r)
    \/ Elapse

AccessSpec == AccessInit /\ [][AccessNext]_accessVars

-----------------------------------------------------------------------------
(* Properties. *)

Tokens == [sub : User, exp : Nat]
Forms == {NoForm} \cup [at : {"create", "created"},
                        email : Email, password : Password]
Requests == [to : Endpoints \cup {"none"}, at : 0..4, token : Tokens \cup {None}, good : BOOLEAN]

AccessTypeOK ==
    /\ LimiterTypeOK
    /\ users \subseteq [id : User, email : Email, password : Password]
    /\ issued \subseteq Tokens
    /\ form \in [Request -> Forms]
    /\ http \in [Request -> Requests]

\* Two registrations that both got past the lookup leave one account
\* (services/auth.go:38-56).
OneAccountPerAddress ==
    \A u, v \in users : u.email = v.email => u = v

\* Who was told that his account is created can log in with the password he
\* chose, whatever others register.
RegisteredCanLogIn ==
    \A r \in Request : form[r].at = "created" =>
        /\ Found(form[r].email) # {}
        /\ \A u \in Found(form[r].email) : u.password = form[r].password

\* A request that reaches the handler of any endpoint but the two public ones
\* shows a token that this server signed for an existing account and that had
\* not expired when the request came (wire.go:105-128, jwt.go:13-34).
ServedWereChecked ==
    \A r \in Request : Reached(r) =>
        /\ http[r].good
        /\ \E u \in users : u.id = http[r].token.sub
=============================================================================
