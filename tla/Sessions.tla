------------------------------ MODULE Sessions ------------------------------
(***************************************************************************)
(* Sign-in, refresh, GitHub reauthorisation and deactivation: AuthService, *)
(* the JWT and GitHub strategies and guards, and                           *)
(* UserService.deactivateUser.  Requests run concurrently; each reads the  *)
(* user's row, awaits, and writes it in a later statement.                 *)
(*                                                                         *)
(* A user's row is identified with the GitHub account it belongs to        *)
(* (githubId is unique).  Whether a presented refresh token matches the    *)
(* stored hash, and whether a signed token is still valid, is left open:   *)
(* a request may be denied wherever the code can deny it.                  *)
(***************************************************************************)
EXTENDS FiniteSets

CONSTANTS
  Accounts,   \* GitHub accounts, and the rows of their users
  Requests,   \* requests in flight
  NoAccount

ASSUME SessionsAssumption == NoAccount \notin Accounts

VARIABLES
  row,      \* User: status, hashedRefreshToken set or null, githubToken
  issued,   \* accounts that were given tokens to sign requests with
  states,   \* accounts named by a signed reauthorisation state
  request   \* requests in flight

vars == <<row, issued, states, request>>

Kinds == {"login", "reauthorize", "refresh", "deactivate", "reauthorize-url"}

Row == [status : {"absent", "ACTIVE", "DEACTIVATED"},
        hashed : BOOLEAN,                         \* hashedRefreshToken # null
        githubToken : Accounts \cup {NoAccount}]  \* the account that granted it

Request == [pc : {"idle", "guard", "read", "write", "hash", "granted"},
            kind : Kinds,
            user : Accounts \cup {NoAccount},     \* the row it is about
            account : Accounts \cup {NoAccount},  \* who signed in at GitHub
            late : BOOLEAN]                       \* history: began on a deactivated user

NoRow == [status |-> "absent", hashed |-> FALSE, githubToken |-> NoAccount]
NoRequest == [pc |-> "idle", kind |-> "login", user |-> NoAccount,
              account |-> NoAccount, late |-> FALSE]

\* The variables have their types; a user is stored before tokens are made, and
\* only a stored user has any.
TypeOK ==
  /\ row \in [Accounts -> Row]
  /\ \A a \in Accounts : row[a].status = "absent" => row[a] = NoRow
  /\ issued \subseteq {a \in Accounts : row[a].status # "absent"}
  /\ states \subseteq issued
  /\ request \in [Requests -> Request]
  /\ \A r \in Requests : request[r].pc # "idle" => request[r].user # NoAccount

Init ==
  /\ row = [a \in Accounts |-> NoRow]
  /\ issued = {}
  /\ states = {}
  /\ request = [r \in Requests |-> NoRequest]

----------------------------------------------------------------------------
(* Requests begin.                                                         *)

Begin(r, pc, kind, user, account) ==
  /\ request[r].pc = "idle"
  /\ request' = [request EXCEPT ![r] =
       [pc |-> pc, kind |-> kind, user |-> user, account |-> account,
        late |-> row[user].status = "DEACTIVATED"]]
  /\ UNCHANGED <<row, issued, states>>

\* The GitHub callback without a state: a login.
BeginLogin(r, a) == Begin(r, "read", "login", a, a)

\* The GitHub callback with a reauthorisation state: the state names the user,
\* GitHub names the account.
BeginReauthorize(r, u, a) == u \in states /\ Begin(r, "read", "reauthorize", u, a)

\* A request with a bearer token of user u.
BeginAuthenticated(r, u, kind) ==
  /\ u \in issued
  /\ kind \in {"refresh", "deactivate", "reauthorize-url"}
  /\ Begin(r, "guard", kind, u, NoAccount)

\* GithubOAuthGuard signs a state for any valid bearer token: it reads no row.
GuardSignsState(u) ==
  /\ u \in issued
  /\ states' = states \cup {u}
  /\ UNCHANGED <<row, issued, request>>

----------------------------------------------------------------------------
(* Their steps.                                                            *)

Goto(r, pc) == request' = [request EXCEPT ![r].pc = pc]
End(r) == request' = [request EXCEPT ![r] = NoRequest]

\* JwtStrategy.validate: the user must exist and be active.  The
\* reauthorisation URL needs nothing else.
Guard(r) ==
  /\ request[r].pc = "guard"
  /\ row[request[r].user].status = "ACTIVE"
  /\ \/ /\ request[r].kind # "reauthorize-url"
        /\ Goto(r, "read")
        /\ UNCHANGED states
     \/ /\ request[r].kind = "reauthorize-url"
        /\ End(r)
        /\ states' = states \cup {request[r].user}
  /\ UNCHANGED <<row, issued>>

Reads(r, kind) == request[r].pc = "read" /\ request[r].kind = kind

\* A seeded fault for the mutant of ReadForLogin: deactivated users pass.
ReadForLoginUnchecked(r) ==
  /\ Reads(r, "login")
  /\ Goto(r, "write")
  /\ UNCHANGED <<row, issued, states>>

\* validateUser: the row, if there is one, must not be deactivated.
ReadForLogin(r) ==
  /\ Reads(r, "login")
  /\ row[request[r].user].status # "DEACTIVATED"
  /\ Goto(r, "write")
  /\ UNCHANGED <<row, issued, states>>

\* A seeded fault for the mutant of ReadForReauthorize: any account will do.
ReadForReauthorizeAnyAccount(r) ==
  /\ Reads(r, "reauthorize")
  /\ row[request[r].user].status = "ACTIVE"
  /\ Goto(r, "write")
  /\ UNCHANGED <<row, issued, states>>

\* reauthorizeGithubUser: the user is active and the account is its own.
ReadForReauthorize(r) ==
  /\ Reads(r, "reauthorize")
  /\ row[request[r].user].status = "ACTIVE"
  /\ request[r].account = request[r].user
  /\ Goto(r, "write")
  /\ UNCHANGED <<row, issued, states>>

\* refreshTokens: a hash is stored, the user is active and the token matches.
ReadForRefresh(r) ==
  /\ Reads(r, "refresh")
  /\ row[request[r].user].hashed
  /\ row[request[r].user].status = "ACTIVE"
  /\ Goto(r, "hash")
  /\ UNCHANGED <<row, issued, states>>

\* deactivateUser: the user exists.
ReadForDeactivate(r) ==
  /\ Reads(r, "deactivate")
  /\ row[request[r].user].status # "absent"
  /\ Goto(r, "write")
  /\ UNCHANGED <<row, issued, states>>

Stores(r, newRow) ==
  /\ request[r].pc = "write"
  /\ row' = [row EXCEPT ![request[r].user] = newRow]
  /\ UNCHANGED <<issued, states>>

\* A seeded fault for the mutant of StoreGithubToken: an update, no upsert.
StoreGithubTokenUpdating(r) ==
  LET old == row[request[r].user]
  IN /\ request[r].kind \in {"login", "reauthorize"}
     /\ Stores(r, IF old.status = "absent" THEN old
                  ELSE [old EXCEPT !.githubToken = request[r].account])
     /\ Goto(r, "hash")

\* The encrypted GitHub token is stored; a login creates the user at need.  The
\* status read before is not read again.
StoreGithubToken(r) ==
  LET old == row[request[r].user]
  IN /\ request[r].kind \in {"login", "reauthorize"}
     /\ Stores(r, [old EXCEPT !.githubToken = request[r].account,
                              !.status = IF @ = "absent" THEN "ACTIVE" ELSE @])
     /\ Goto(r, "hash")

\* Status and hash change in one statement.
Deactivate(r) ==
  /\ request[r].kind = "deactivate"
  /\ Stores(r, [row[request[r].user] EXCEPT !.status = "DEACTIVATED", !.hashed = FALSE])
  /\ End(r)

\* getTokens signs, updateRefreshToken stores the new hash, unconditionally,
\* and the tokens go to the client.
Grant(r) ==
  /\ request[r].pc = "hash"
  /\ row' = [row EXCEPT ![request[r].user].hashed = TRUE]
  /\ issued' = issued \cup {request[r].user}
  /\ Goto(r, "granted")
  /\ UNCHANGED states

\* The client has its answer; or the request is denied, or fails half way and
\* what it wrote stays.
Leave(r) ==
  /\ request[r].pc # "idle"
  /\ End(r)
  /\ UNCHANGED <<row, issued, states>>

Step(r) ==
  \/ Guard(r) \/ ReadForLogin(r) \/ ReadForReauthorize(r) \/ ReadForRefresh(r)
  \/ ReadForDeactivate(r) \/ StoreGithubToken(r) \/ Deactivate(r) \/ Grant(r) \/ Leave(r)

Next ==
  \/ \E r \in Requests, a \in Accounts : BeginLogin(r, a)
  \/ \E r \in Requests, u, a \in Accounts : BeginReauthorize(r, u, a)
  \/ \E r \in Requests, u \in Accounts, k \in Kinds : BeginAuthenticated(r, u, k)
  \/ \E u \in Accounts : GuardSignsState(u)
  \/ \E r \in Requests : Step(r)

Spec == Init /\ [][Next]_vars

----------------------------------------------------------------------------
(* Properties.                                                             *)

\* A request that begins once the user is deactivated gets no tokens, whatever
\* logins, refreshes and reauthorisations were under way then and write the row
\* afterwards.
NoGrantAfterDeactivation ==
  \A r \in Requests : request[r].pc = "granted" => ~request[r].late

\* The GitHub token stored with a user was granted by the user's own account,
\* also when a reauthorisation state of one user returns with another account.
GithubTokenIsOwn ==
  \A a \in Accounts : row[a].githubToken \in {NoAccount, a}
=============================================================================
