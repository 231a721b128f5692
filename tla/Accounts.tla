------------------------------- MODULE Accounts -------------------------------
(***************************************************************************)
(* Accounts and tokens (internal/services/auth.go, handlers/auth.go,        *)
(* repo/auth.go and the unique index on users.email).                       *)
(*                                                                          *)
(* Register looks the address up and inserts the row in a statement of its  *)
(* own, so two registrations of one address may both get past the lookup.   *)
(* A password stands for its hash. Forms the handlers refuse (no address, a *)
(* short password) and a lookup that fails change nothing.                  *)
(***************************************************************************)
EXTENDS Clock

CONSTANTS Email, Password,
          TokenLife  \* JWT_EXPIRY_HOURS, in ticks of the clock

VARIABLES users,   \* rows of the users table
          issued,  \* tokens signed with the server's secret
          form     \* form[r]: the registration request r is making or has made

accountVars == <<users, issued, form>>

NoForm == [at |-> "none"]
Form(where, e, p) == [at |-> where, email |-> e, password |-> p]
Row(id, f) == [id |-> id, email |-> f.email, password |-> f.password]

AccountsInit ==
    /\ users = {}
    /\ issued = {}
    /\ form = [r \in Request |-> NoForm]

\* signToken.
Token(id) == [sub |-> id, exp |-> now + TokenLife]

\* FindByEmail.
Found(e) == {u \in users : u.email = e}

\* uuid.New never returns an id twice.
Fresh == User \ {u.id : u \in users}

\* The first half of Register: a known address is a conflict.
Register(r, e, p) ==
    /\ form[r].at # "create"
    /\ form' = [form EXCEPT ![r] = IF Found(e) = {} THEN Form("create", e, p) ELSE NoForm]
    /\ UNCHANGED <<users, issued>>

\* Slip: no unique index.
CreateUnindexed(r) ==
    /\ form[r].at = "create"
    /\ \E id \in Fresh :
          /\ users' = users \cup {Row(id, form[r])}
          /\ issued' = issued \cup {Token(id)}
    /\ form' = [form EXCEPT ![r].at = "created"]

\* Slip: an INSERT the index turns into nothing, ON CONFLICT DO NOTHING.
CreateIgnoresConflict(r) ==
    /\ form[r].at = "create"
    /\ \E id \in Fresh :
          /\ users' = IF Found(form[r].email) = {} THEN users \cup {Row(id, form[r])} ELSE users
          /\ issued' = issued \cup {Token(id)}
    /\ form' = [form EXCEPT ![r].at = "created"]

\* The second half: INSERT, then sign. The unique index refuses a second row of
\* an address.
Create(r) ==
    /\ form[r].at = "create"
    /\ Found(form[r].email) = {}
    /\ \E id \in Fresh :
          /\ users' = users \cup {Row(id, form[r])}
          /\ issued' = issued \cup {Token(id)}
    /\ form' = [form EXCEPT ![r].at = "created"]

\* The index, or the database, refuses; or the reply of the INSERT is lost. The
\* user is told 500, whichever it was.
CreateFails(r) ==
    /\ form[r].at = "create"
    /\ \/ UNCHANGED users
       \/ /\ Found(form[r].email) = {}
          /\ \E id \in Fresh : users' = users \cup {Row(id, form[r])}
    /\ form' = [form EXCEPT ![r] = NoForm]
    /\ UNCHANGED issued

\* Login with the right password; any other try changes nothing.
Login(e, p) ==
    /\ \E u \in Found(e) : u.password = p /\ issued' = issued \cup {Token(u.id)}
    /\ UNCHANGED <<users, form>>

\* ValidateToken: the server signed it and its time has not come.
Valid(token) == token \in issued /\ now < token.exp
=============================================================================
