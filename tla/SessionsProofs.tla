--------------------------- MODULE SessionsProofs ---------------------------
(***************************************************************************)
(* Invariance proofs for Sessions, for any sets of accounts and requests.  *)
(*                                                                         *)
(* The invariant says what a request at each place has found in the row it *)
(* is about.  It survives the steps of other requests because a row only   *)
(* moves from absent to ACTIVE to DEACTIVATED.                             *)
(***************************************************************************)
EXTENDS Sessions, TLAPS

\* A request that began on a deactivated user finds the user so ever after and
\* has passed no check but the one of deactivateUser.
LateInv(q, rows) ==
  q.late => /\ q.pc # "idle"
            /\ rows[q.user].status = "DEACTIVATED"
            /\ q.pc \notin {"hash", "granted"}
            /\ q.pc = "write" => q.kind = "deactivate"

\* Whose account signed in, and which rows exist, at each place.
PlaceInv(q, rows) ==
  /\ q.kind = "login" => q.account = q.user
  /\ q.pc = "write" /\ q.kind = "reauthorize" => q.account = q.user
  /\ q.pc = "write" => q.kind \in {"login", "reauthorize", "deactivate"}
  /\ q.pc = "write" /\ q.kind = "deactivate" => rows[q.user].status # "absent"
  /\ q.pc = "hash" => rows[q.user].status # "absent"

RequestInv == \A r \in Requests : LateInv(request[r], row) /\ PlaceInv(request[r], row)

\* Who comes with a bearer token was given one.
BearerInv == \A r \in Requests : request[r].pc = "guard" => request[r].user \in issued

IInv == TypeOK /\ RequestInv /\ BearerInv /\ GithubTokenIsOwn

\* Rows only move forward.
Forward(old, new) ==
  \A a \in Accounts :
    /\ old[a].status # "absent" => new[a].status # "absent"
    /\ old[a].status = "DEACTIVATED" => new[a].status = "DEACTIVATED"

----------------------------------------------------------------------------

\* The request is about a stored account once it has begun.
LEMMA UserOfRequest ==
  ASSUME TypeOK, NEW r \in Requests, request[r].pc # "idle"
  PROVE  request[r].user \in Accounts
BY SessionsAssumption DEF TypeOK, Request

\* What was found in a row stays true when rows move forward.
LEMMA ForwardKeeps ==
  ASSUME NEW q \in Request, NEW old, NEW new, Forward(old, new),
         q.pc # "idle" => q.user \in Accounts,
         LateInv(q, old), PlaceInv(q, old)
  PROVE  LateInv(q, new) /\ PlaceInv(q, new)
<1>1. LateInv(q, new)
  BY Zenon DEF LateInv, Forward
<1>2. PlaceInv(q, new)
  <2>1. CASE q.pc = "idle"
    BY <2>1 DEF PlaceInv
  <2>2. CASE q.pc # "idle"
    BY <2>2 DEF PlaceInv, Forward
  <2> QED BY <2>1, <2>2
<1> QED BY <1>1, <1>2

\* A request that is not there satisfies everything.
LEMMA NoRequestInv ==
  ASSUME NEW rows
  PROVE  NoRequest \in Request /\ LateInv(NoRequest, rows) /\ PlaceInv(NoRequest, rows)
BY DEF NoRequest, Request, Kinds, LateInv, PlaceInv

\* A step that replaces one request and moves rows forward preserves the
\* invariant if the new request and the new rows do.
LEMMA RequestStep ==
  ASSUME IInv, NEW r \in Requests, NEW q \in Request,
         request' = [request EXCEPT ![r] = q],
         q.pc # "idle" => q.user # NoAccount,
         row' \in [Accounts -> Row],
         \A a \in Accounts : row'[a].status = "absent" => row'[a] = NoRow,
         Forward(row, row'),
         LateInv(q, row'), PlaceInv(q, row'),
         q.pc = "guard" => q.user \in issued', issued \subseteq issued',
         issued' \subseteq {a \in Accounts : row'[a].status # "absent"},
         states' \subseteq issued',
         GithubTokenIsOwn'
  PROVE  IInv'
<1>1. TypeOK'
  BY Zenon DEF IInv, TypeOK
<1>2. RequestInv'
  <2> SUFFICES ASSUME NEW s \in Requests
               PROVE  LateInv(request'[s], row') /\ PlaceInv(request'[s], row')
    BY Zenon DEF RequestInv
  <2>1. CASE s = r
    <3>1. request'[s] = q
      BY <2>1, Zenon DEF IInv, TypeOK
    <3> QED BY <3>1, Zenon
  <2>2. CASE s # r
    <3>1. request'[s] = request[s] /\ request[s] \in Request
      BY <2>2, Zenon DEF IInv, TypeOK
    <3>2. request[s].pc # "idle" => request[s].user \in Accounts
      BY UserOfRequest DEF IInv
    <3>3. LateInv(request[s], row) /\ PlaceInv(request[s], row)
      BY DEF IInv, RequestInv
    <3> QED BY <3>1, <3>2, <3>3, ForwardKeeps, Zenon
  <2> QED BY <2>1, <2>2
<1>3. BearerInv'
  BY Zenon DEF IInv, TypeOK, BearerInv
<1>4. GithubTokenIsOwn'
  OBVIOUS
<1> QED BY <1>1, <1>2, <1>3, <1>4 DEF IInv

\* The same for a step that leaves the rows alone.
LEMMA RequestOnly ==
  ASSUME IInv, NEW r \in Requests, NEW q \in Request,
         request' = [request EXCEPT ![r] = q],
         q.pc # "idle" => q.user # NoAccount,
         UNCHANGED <<row, issued>>,
         LateInv(q, row), PlaceInv(q, row), q.pc = "guard" => q.user \in issued,
         states' \subseteq issued
  PROVE  IInv'
<1>1. row' = row /\ issued' = issued
  OBVIOUS
<1>2. Forward(row, row') /\ GithubTokenIsOwn'
  BY <1>1, Zenon DEF Forward, IInv, GithubTokenIsOwn
<1>3. /\ row' \in [Accounts -> Row]
      /\ \A a \in Accounts : row'[a].status = "absent" => row'[a] = NoRow
      /\ issued' \subseteq {a \in Accounts : row'[a].status # "absent"}
  BY <1>1, Zenon DEF IInv, TypeOK
<1>4. LateInv(q, row') /\ PlaceInv(q, row') /\ states' \subseteq issued'
  BY <1>1, Zenon
<1>5. (q.pc = "guard" => q.user \in issued') /\ issued \subseteq issued'
  BY <1>1
<1> QED BY <1>2, <1>3, <1>4, <1>5, RequestStep

\* A request that goes on to another place, the rows unchanged.
LEMMA GotoStep ==
  ASSUME IInv, NEW r \in Requests, NEW pc \in {"read", "write", "hash"},
         request[r].pc # "idle",
         Goto(r, pc),
         UNCHANGED <<row, issued, states>>,
         LateInv([request[r] EXCEPT !.pc = pc], row),
         PlaceInv([request[r] EXCEPT !.pc = pc], row)
  PROVE  IInv'
<1> DEFINE q == [request[r] EXCEPT !.pc = pc]
<1>1. request[r] \in Request
  BY DEF IInv, TypeOK
<1>2. q \in Request /\ q.user = request[r].user /\ q.pc # "guard"
  BY <1>1 DEF Request
<1>3. request' = [request EXCEPT ![r] = q]
  BY DEF Goto
<1>4. q.user # NoAccount
  BY <1>2 DEF IInv, TypeOK
<1>5. states' \subseteq issued
  BY DEF IInv, TypeOK
<1> HIDE DEF q
<1>6. LateInv(q, row) /\ PlaceInv(q, row)
  BY DEF q
<1> QED BY <1>2, <1>3, <1>4, <1>5, <1>6, RequestOnly

\* A request ends, the rows unchanged, and perhaps a state is signed for a user
\* who has tokens.
LEMMA EndStep ==
  ASSUME IInv, NEW r \in Requests, End(r), UNCHANGED <<row, issued>>, states' \subseteq issued
  PROVE  IInv'
<1>1. request' = [request EXCEPT ![r] = NoRequest]
  BY DEF End
<1>2. NoRequest.pc = "idle"
  BY DEF NoRequest
<1>3. NoRequest \in Request /\ LateInv(NoRequest, row) /\ PlaceInv(NoRequest, row)
  BY NoRequestInv
<1> QED BY <1>1, <1>2, <1>3, RequestOnly

----------------------------------------------------------------------------
(* One lemma per action.                                                   *)

\* A request begins late only at its first check.
LEMMA BeginInv ==
  ASSUME IInv, NEW r \in Requests, NEW pc \in {"guard", "read"}, NEW kind \in Kinds,
         NEW user \in Accounts, NEW account \in Accounts \cup {NoAccount},
         kind = "login" => account = user,
         pc = "guard" => user \in issued,
         Begin(r, pc, kind, user, account)
  PROVE  IInv'
<1> DEFINE b == row[user].status = "DEACTIVATED"
           q == [pc |-> pc, kind |-> kind, user |-> user, account |-> account, late |-> b]
<1>1. b \in BOOLEAN
  OBVIOUS
<1>2. request' = [request EXCEPT ![r] = q]
  BY DEF Begin
<1>3. b => row[user].status = "DEACTIVATED"
  OBVIOUS
<1> HIDE DEF b
<1>4. q \in Request
  BY <1>1 DEF Request
<1>5. q.user # NoAccount /\ (q.pc = "guard" => q.user \in issued)
  BY SessionsAssumption
<1>6. LateInv(q, row) /\ PlaceInv(q, row)
  BY <1>3 DEF LateInv, PlaceInv
<1>7. UNCHANGED <<row, issued>> /\ states' \subseteq issued
  BY DEF Begin, IInv, TypeOK
<1> HIDE DEF q
<1> QED BY <1>2, <1>4, <1>5, <1>6, <1>7, RequestOnly

LEMMA GuardSignsStateInv ==
  ASSUME IInv, NEW u \in Accounts, GuardSignsState(u)
  PROVE  IInv'
<1>1. row' = row /\ issued' = issued /\ request' = request
  BY DEF GuardSignsState
<1>2. states' \subseteq issued
  BY DEF GuardSignsState, IInv, TypeOK
<1>3. TypeOK'
  BY <1>1, <1>2, Zenon DEF IInv, TypeOK
<1>4. RequestInv' /\ BearerInv' /\ GithubTokenIsOwn'
  BY <1>1, Zenon DEF IInv, RequestInv, BearerInv, GithubTokenIsOwn
<1> QED BY <1>3, <1>4 DEF IInv

\* A request that passed a check of an active user is not late.
LEMMA ActiveIsNotLate ==
  ASSUME IInv, NEW r \in Requests, row[request[r].user].status # "DEACTIVATED"
  PROVE  ~request[r].late
BY Zenon DEF IInv, RequestInv, LateInv

\* What holds of a request that goes on to pc, if it is not late.
LEMMA NotLateInv ==
  ASSUME NEW q \in Request, ~q.late, NEW pc, NEW rows
  PROVE  LateInv([q EXCEPT !.pc = pc], rows)
<1>1. [q EXCEPT !.pc = pc].late = q.late
  BY DEF Request
<1> QED BY <1>1, Zenon DEF LateInv

LEMMA GuardInv ==
  ASSUME IInv, NEW r \in Requests, Guard(r)
  PROVE  IInv'
<1>1. request[r] \in Request /\ request[r].pc = "guard" /\ ~request[r].late
  BY ActiveIsNotLate DEF Guard, IInv, TypeOK
<1>2. CASE Goto(r, "read") /\ UNCHANGED states
  <2>1. LateInv([request[r] EXCEPT !.pc = "read"], row)
    BY <1>1, NotLateInv
  <2>2. PlaceInv(request[r], row)
    BY DEF IInv, RequestInv
  <2>3. PlaceInv([request[r] EXCEPT !.pc = "read"], row)
    BY <1>1, <2>2 DEF PlaceInv, Request
  <2> QED BY <1>1, <1>2, <2>1, <2>3, GotoStep DEF Guard
<1>3. CASE End(r) /\ states' = states \cup {request[r].user}
  <2>1. request[r].user \in issued
    BY <1>1 DEF IInv, BearerInv
  <2>2. states' \subseteq issued
    BY <1>3, <2>1 DEF IInv, TypeOK
  <2> QED BY <1>3, <2>2, EndStep DEF Guard
<1> QED BY <1>2, <1>3 DEF Guard

\* A check of an active user in the read that follows, and its consequence at
\* the next place.
LEMMA ReadInv ==
  ASSUME IInv, NEW r \in Requests, NEW pc \in {"write", "hash"},
         request[r].pc = "read",
         row[request[r].user].status # "DEACTIVATED",
         PlaceInv([request[r] EXCEPT !.pc = pc], row),
         Goto(r, pc), UNCHANGED <<row, issued, states>>
  PROVE  IInv'
<1>1. request[r] \in Request /\ ~request[r].late
  BY ActiveIsNotLate DEF IInv, TypeOK
<1>2. LateInv([request[r] EXCEPT !.pc = pc], row)
  BY <1>1, NotLateInv
<1> QED BY <1>2, GotoStep

LEMMA ReadForLoginInv ==
  ASSUME IInv, NEW r \in Requests, ReadForLogin(r)
  PROVE  IInv'
<1>1. request[r] \in Request /\ request[r].kind = "login" /\ PlaceInv(request[r], row)
  BY DEF IInv, TypeOK, RequestInv, ReadForLogin, Reads
<1>2. PlaceInv([request[r] EXCEPT !.pc = "write"], row)
  BY <1>1 DEF PlaceInv, Request
<1> QED BY <1>2, ReadInv DEF ReadForLogin, Reads

LEMMA ReadForReauthorizeInv ==
  ASSUME IInv, NEW r \in Requests, ReadForReauthorize(r)
  PROVE  IInv'
<1>1. /\ request[r] \in Request /\ request[r].kind = "reauthorize"
      /\ request[r].account = request[r].user /\ PlaceInv(request[r], row)
  BY DEF IInv, TypeOK, RequestInv, ReadForReauthorize, Reads
<1>2. PlaceInv([request[r] EXCEPT !.pc = "write"], row)
  BY <1>1 DEF PlaceInv, Request
<1> QED BY <1>2, ReadInv DEF ReadForReauthorize, Reads

LEMMA ReadForRefreshInv ==
  ASSUME IInv, NEW r \in Requests, ReadForRefresh(r)
  PROVE  IInv'
<1>1. /\ request[r] \in Request /\ request[r].kind = "refresh"
      /\ row[request[r].user].status = "ACTIVE" /\ PlaceInv(request[r], row)
  BY DEF IInv, TypeOK, RequestInv, ReadForRefresh, Reads
<1>2. PlaceInv([request[r] EXCEPT !.pc = "hash"], row)
  BY <1>1 DEF PlaceInv, Request
<1> QED BY <1>1, <1>2, ReadInv DEF ReadForRefresh, Reads

\* The only check a late request may pass.
LEMMA ReadForDeactivateInv ==
  ASSUME IInv, NEW r \in Requests, ReadForDeactivate(r)
  PROVE  IInv'
<1>1. /\ request[r] \in Request /\ request[r].kind = "deactivate"
      /\ row[request[r].user].status # "absent"
      /\ PlaceInv(request[r], row) /\ LateInv(request[r], row)
  BY DEF IInv, TypeOK, RequestInv, ReadForDeactivate, Reads
<1> DEFINE q == [request[r] EXCEPT !.pc = "write"]
<1>2. PlaceInv(q, row)
  BY <1>1 DEF PlaceInv, Request
<1>3. /\ q.late = request[r].late /\ q.user = request[r].user
      /\ q.pc = "write" /\ q.kind = "deactivate"
  BY <1>1 DEF Request
<1> HIDE DEF q
<1>4. LateInv(q, row)
  BY <1>1, <1>3, Zenon DEF LateInv
<1> QED BY <1>2, <1>4, GotoStep DEF q, ReadForDeactivate, Reads

LEMMA LeaveInv ==
  ASSUME IInv, NEW r \in Requests, Leave(r)
  PROVE  IInv'
BY EndStep DEF Leave, IInv, TypeOK

\* One row is replaced and its request moves on.
LEMMA StoreStep ==
  ASSUME IInv, NEW r \in Requests, request[r].pc # "idle",
         NEW new \in Row, new.status # "absent",
         row[request[r].user].status = "DEACTIVATED" => new.status = "DEACTIVATED",
         new.githubToken \in {NoAccount, request[r].user},
         row' = [row EXCEPT ![request[r].user] = new],
         issued' \in {issued, issued \cup {request[r].user}}, states' = states,
         NEW q \in Request, request' = [request EXCEPT ![r] = q],
         q.pc # "idle" => q.user = request[r].user,
         q.pc # "guard",
         LateInv(q, row'), PlaceInv(q, row')
  PROVE  IInv'
<1> DEFINE u == request[r].user
<1>1. u \in Accounts /\ u # NoAccount
  BY UserOfRequest, SessionsAssumption DEF IInv
<1>2. row \in [Accounts -> Row]
  BY DEF IInv, TypeOK
<1> HIDE DEF u
<1>3. \A a \in Accounts : row'[a] = IF a = u THEN new ELSE row[a]
  BY <1>2 DEF u
<1>4. row' \in [Accounts -> Row]
  BY <1>2 DEF u
<1>5. \A a \in Accounts : row'[a].status = "absent" => row'[a] = NoRow
  BY <1>3 DEF IInv, TypeOK
<1>6. Forward(row, row')
  BY <1>3 DEF Forward, u
<1>7. issued \subseteq issued' /\ issued' \subseteq {a \in Accounts : row'[a].status # "absent"}
  BY <1>1, <1>3 DEF IInv, TypeOK, u
<1>8. states' \subseteq issued'
  BY <1>7 DEF IInv, TypeOK
<1>9. GithubTokenIsOwn'
  BY <1>3 DEF IInv, GithubTokenIsOwn, u
<1>10. q.pc # "idle" => q.user # NoAccount
  BY <1>1 DEF u
<1> QED BY <1>4, <1>5, <1>6, <1>7, <1>8, <1>9, <1>10, RequestStep

LEMMA StoreGithubTokenInv ==
  ASSUME IInv, NEW r \in Requests, StoreGithubToken(r)
  PROVE  IInv'
<1> DEFINE q == [request[r] EXCEPT !.pc = "hash"]
           old == row[request[r].user]
           new == [old EXCEPT !.githubToken = request[r].account,
                              !.status = IF @ = "absent" THEN "ACTIVE" ELSE @]
<1>1. /\ request[r] \in Request /\ request[r].pc = "write"
      /\ request[r].kind \in {"login", "reauthorize"}
      /\ request' = [request EXCEPT ![r] = q]
      /\ row' = [row EXCEPT ![request[r].user] = new]
      /\ issued' = issued /\ states' = states
  BY DEF StoreGithubToken, Stores, Goto, IInv, TypeOK
<1>2. request[r].user \in Accounts /\ row \in [Accounts -> Row] /\ old \in Row
  BY <1>1, UserOfRequest DEF IInv, TypeOK
<1>3. LateInv(request[r], row) /\ PlaceInv(request[r], row)
  BY DEF IInv, RequestInv
<1>4. request[r].account = request[r].user
  BY <1>1, <1>3 DEF PlaceInv
<1>5. ~request[r].late
  BY <1>1, <1>3, Zenon DEF LateInv
<1>6. /\ new \in Row /\ new.githubToken = request[r].user /\ new.status # "absent"
      /\ old.status = "DEACTIVATED" => new.status = "DEACTIVATED"
  BY <1>1, <1>2, <1>4 DEF Row
<1>7. row'[request[r].user] = new
  BY <1>1, <1>2
<1>8. q \in Request /\ q.pc = "hash" /\ q.user = request[r].user /\ q.kind = request[r].kind
      /\ q.account = request[r].account
  BY <1>1 DEF Request
<1>9. LateInv(q, row')
  BY <1>1, <1>5, NotLateInv
<1> HIDE DEF q, new
<1>10. PlaceInv(q, row')
  BY <1>4, <1>6, <1>7, <1>8 DEF PlaceInv
<1> QED BY <1>1, <1>6, <1>8, <1>9, <1>10, StoreStep DEF old

LEMMA DeactivateInv ==
  ASSUME IInv, NEW r \in Requests, Deactivate(r)
  PROVE  IInv'
<1> DEFINE old == row[request[r].user]
           new == [old EXCEPT !.status = "DEACTIVATED", !.hashed = FALSE]
<1>1. /\ request[r].pc = "write"
      /\ request' = [request EXCEPT ![r] = NoRequest]
      /\ row' = [row EXCEPT ![request[r].user] = new]
      /\ issued' = issued /\ states' = states
  BY DEF Deactivate, Stores, End
<1>2. request[r].user \in Accounts /\ old \in Row /\ old.githubToken \in {NoAccount, request[r].user}
  BY <1>1, UserOfRequest DEF IInv, TypeOK, GithubTokenIsOwn
<1>3. new \in Row /\ new.status = "DEACTIVATED" /\ new.githubToken = old.githubToken
  BY <1>2 DEF Row
<1>4. NoRequest \in Request /\ LateInv(NoRequest, row') /\ PlaceInv(NoRequest, row')
  BY NoRequestInv
<1>5. NoRequest.pc = "idle"
  BY DEF NoRequest
<1> HIDE DEF new
<1> QED BY <1>1, <1>2, <1>3, <1>4, <1>5, StoreStep

LEMMA GrantInv ==
  ASSUME IInv, NEW r \in Requests, Grant(r)
  PROVE  IInv'
<1> DEFINE q == [request[r] EXCEPT !.pc = "granted"]
           old == row[request[r].user]
           new == [old EXCEPT !.hashed = TRUE]
<1>1. /\ request[r] \in Request /\ request[r].pc = "hash"
      /\ request' = [request EXCEPT ![r] = q]
      /\ row' = [row EXCEPT ![request[r].user] = new]
      /\ issued' = issued \cup {request[r].user} /\ states' = states
  BY DEF Grant, Goto, IInv, TypeOK
<1>2. /\ request[r].user \in Accounts /\ old \in Row
      /\ old.githubToken \in {NoAccount, request[r].user}
  BY <1>1, UserOfRequest DEF IInv, TypeOK, GithubTokenIsOwn
<1>3. LateInv(request[r], row) /\ PlaceInv(request[r], row)
  BY DEF IInv, RequestInv
<1>4. ~request[r].late
  BY <1>1, <1>3, Zenon DEF LateInv
<1>5. old.status # "absent"
  BY <1>1, <1>3 DEF PlaceInv
<1>6. new \in Row /\ new.status = old.status /\ new.githubToken = old.githubToken
  BY <1>2 DEF Row
<1>7. q \in Request /\ q.pc = "granted" /\ q.user = request[r].user /\ q.kind = request[r].kind
      /\ q.account = request[r].account
  BY <1>1 DEF Request
<1>8. LateInv(q, row')
  BY <1>1, <1>4, NotLateInv
<1> HIDE DEF q, new
<1>9. PlaceInv(q, row')
  BY <1>3, <1>7 DEF PlaceInv
<1> QED BY <1>1, <1>2, <1>5, <1>6, <1>7, <1>8, <1>9, StoreStep

----------------------------------------------------------------------------
(* The theorems.                                                           *)

LEMMA InitInv == Init => IInv
<1> SUFFICES ASSUME Init PROVE IInv
  OBVIOUS
<1>1. TypeOK
  BY NoRequestInv DEF Init, TypeOK, Row, NoRow, NoRequest
<1>2. RequestInv
  BY NoRequestInv, Zenon DEF Init, RequestInv
<1>3. BearerInv
  BY DEF Init, BearerInv, NoRequest
<1>4. GithubTokenIsOwn
  BY DEF Init, GithubTokenIsOwn, NoRow
<1> QED BY <1>1, <1>2, <1>3, <1>4 DEF IInv

LEMMA NextInv == IInv /\ [Next]_vars => IInv'
<1> SUFFICES ASSUME IInv, [Next]_vars PROVE IInv'
  OBVIOUS
<1>1. ASSUME NEW r \in Requests, NEW a \in Accounts, BeginLogin(r, a) PROVE IInv'
  BY <1>1, BeginInv DEF BeginLogin, Kinds
<1>2. ASSUME NEW r \in Requests, NEW u \in Accounts, NEW a \in Accounts,
             BeginReauthorize(r, u, a)
      PROVE  IInv'
  BY <1>2, BeginInv DEF BeginReauthorize, Kinds
<1>3. ASSUME NEW r \in Requests, NEW u \in Accounts, NEW k \in Kinds,
             BeginAuthenticated(r, u, k)
      PROVE  IInv'
  BY <1>3, BeginInv DEF BeginAuthenticated
<1>4. ASSUME NEW u \in Accounts, GuardSignsState(u) PROVE IInv'
  BY <1>4, GuardSignsStateInv
<1>5. ASSUME NEW r \in Requests, Step(r) PROVE IInv'
  BY <1>5, GuardInv, ReadForLoginInv, ReadForReauthorizeInv, ReadForRefreshInv,
     ReadForDeactivateInv, StoreGithubTokenInv, DeactivateInv, GrantInv, LeaveInv
     DEF Step
<1>6. CASE UNCHANGED vars
  <2>1. row' = row /\ issued' = issued /\ states' = states /\ request' = request
    BY <1>6 DEF vars
  <2>2. TypeOK'
    BY <2>1, Zenon DEF IInv, TypeOK
  <2>3. RequestInv' /\ BearerInv' /\ GithubTokenIsOwn'
    BY <2>1, Zenon DEF IInv, RequestInv, BearerInv, GithubTokenIsOwn
  <2> QED BY <2>2, <2>3 DEF IInv
<1> QED BY <1>1, <1>2, <1>3, <1>4, <1>5, <1>6 DEF Next

LEMMA IInvHolds == Spec => []IInv
BY InitInv, NextInv, PTL DEF Spec

\* Type correctness of the session model, for any number of users and requests:
\* only stored users have tokens, a stored hash or a GitHub token.
THEOREM SessionsTypeCorrect == Spec => []TypeOK
<1>1. IInv => TypeOK
  BY DEF IInv
<1> QED BY <1>1, IInvHolds, PTL

\* A request that begins once its user is deactivated is never granted tokens
\* (login, refreshTokens, reauthorizeGithubUser against deactivateUser).
THEOREM DeactivationIsFinal == Spec => []NoGrantAfterDeactivation
<1>1. IInv => NoGrantAfterDeactivation
  BY Zenon DEF IInv, RequestInv, LateInv, NoGrantAfterDeactivation
<1> QED BY <1>1, IInvHolds, PTL

\* A stored GitHub token was granted by the user's own account (validateUser,
\* reauthorizeGithubUser).
THEOREM StoredTokenIsOwn == Spec => []GithubTokenIsOwn
<1>1. IInv => GithubTokenIsOwn
  BY DEF IInv
<1> QED BY <1>1, IInvHolds, PTL
=============================================================================
