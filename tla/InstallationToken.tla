------------------------- MODULE InstallationToken -------------------------
(***************************************************************************)
(* The installation token cache, GithubInstallationTokenService: requests  *)
(* list the repositories of a user's installations and run an operation    *)
(* against GitHub with an installation token that all of them share        *)
(* through one in-memory cache.  A step ends where the code awaits the     *)
(* database or GitHub: what lies between two awaits is one action.         *)
(*                                                                         *)
(* GitHub is external: it mints tokens, refuses dead ones with 401, may    *)
(* suspend an installation, and fails in other ways at any time.           *)
(***************************************************************************)
EXTENDS Integers, SequencesExt

CONSTANTS
  Requests,       \* executeForRepository / getAvailableRepos calls in flight
  Installations,  \* installations linked to the user
  Tokens,         \* identities of an installation's tokens, reused once nobody holds them
  Listing,        \* the repositories GitHub lists for each installation
  PageSize,       \* per_page, 100 in the code
  NoToken,        \* no token
  AnyRepository   \* the argument of a request that only lists

ASSUME InstallationTokenAssumption ==
  /\ PageSize \in Nat \ {0}
  /\ NoToken \notin Tokens
  /\ \A i \in Installations : AnyRepository \notin ToSet(Listing[i])
  /\ \A i \in Installations : Listing[i] \in Seq(ToSet(Listing[i]))

VARIABLES
  active,     \* installations whose row is ACTIVE (webhooks and syncs write it)
  live,       \* installations GitHub serves
  age,        \* "fresh", "closing" (inside the refresh buffer), "expired", or
              \* "revoked": refused by GitHub long before its expiry date
  tokenCache, \* installation -> the token cached for it
  call,       \* executeWithRetry of a request on an installation
  request,    \* where a request stands
  wanted,     \* the repository a request is for
  disturbed   \* history: something failed or changed at GitHub or in the rows

tokenVars == <<age, tokenCache>>
vars == <<active, live, age, tokenCache, call, request, wanted, disturbed>>

Repositories == UNION {ToSet(Listing[i]) : i \in Installations}
Ages == {"fresh", "closing", "expired", "revoked"}
Dead == {"expired", "revoked"}
Requesting == {"list", "operate"}
Waiting == {"row", "mint", "store", "request"}
CallStates == Waiting \cup {"none", "ok", "failed"}

Call == [pc      : CallStates,
         page    : Nat,                      \* the page a listing asks for
         retried : BOOLEAN,                  \* the second try of the call
         token   : Tokens \cup {NoToken},    \* the token it holds
         refused : Tokens \cup {NoToken}]    \* the token its first try was refused with

Idle == [pc |-> "none", page |-> 1, retried |-> FALSE,
         token |-> NoToken, refused |-> NoToken]

\* The variables have their types, and a call holds a token exactly when it has
\* one to store or to present.
TypeOK ==
  /\ active \subseteq Installations
  /\ live \subseteq Installations
  /\ age \in [Installations -> [Tokens -> Ages]]
  /\ tokenCache \in [Installations -> Tokens \cup {NoToken}]
  /\ call \in [Requests -> [Installations -> Call]]
  /\ \A q \in Requests, i \in Installations :
       call[q][i].pc \in {"store", "request"} <=> call[q][i].token # NoToken
  /\ request \in [Requests -> Requesting \cup {"ended", "failed"}]
  /\ wanted \in [Requests -> Repositories \cup {AnyRepository}]
  /\ disturbed \in [Requests -> BOOLEAN]

Init ==
  /\ active = Installations
  /\ live = Installations
  /\ age = [i \in Installations |-> [t \in Tokens |-> "fresh"]]
  /\ tokenCache = [i \in Installations |-> NoToken]
  /\ call = [q \in Requests |-> [i \in Installations |-> Idle]]
  /\ request = [q \in Requests |-> "ended"]
  /\ wanted = [q \in Requests |-> AnyRepository]
  /\ disturbed = [q \in Requests |-> FALSE]

----------------------------------------------------------------------------
(* Helpers.                                                                *)

\* Tokens that may still be presented.
InUse(i) == ({tokenCache[i]} \cup {call[q][i].token : q \in Requests}) \ {NoToken}

\* An identity for the next token: not in use, and not remembered as refused.
FreeTokens(i) == (Tokens \ InUse(i)) \ {call[q][i].refused : q \in Requests}
NewToken(i) == CHOOSE t \in Tokens : t \in FreeTokens(i)

\* A token no longer in use is forgotten: its identity stands for a new
\* token when it is next minted.
Forget == age' = [i \in Installations |->
                   LET used == InUse(i)'
                   IN [t \in Tokens |-> IF t \in used THEN age[i][t] ELSE "fresh"]]

\* A seeded fault for the mutant of Cached: the cache is never found empty.
CachedAlways(cache, i) == TRUE

\* A cached token is handed out while it is more than the refresh buffer
\* away from its expiry; that GitHub revoked it does not show.
Cached(cache, i) == cache[i] # NoToken /\ age[i][cache[i]] \in {"fresh", "revoked"}

\* getInstallationToken up to its first await: the cached token, or the
\* query of the installation's row.
Obtain(c, cache, i) ==
  IF Cached(cache, i)
    THEN [c EXCEPT !.pc = "request", !.token = cache[i]]
    ELSE [c EXCEPT !.pc = "row", !.token = NoToken]

\* The call of a page, or of the operation: a new executeWithRetry.
NewCall(page, cache, i) == Obtain([Idle EXCEPT !.page = page], cache, i)

FullPage(page, i) == Len(Listing[i]) >= page * PageSize

Update(q, i, c) == call' = [call EXCEPT ![q][i] = c]

Ended(q) == \A i \in Installations : call[q][i].pc \notin Waiting

\* Something outside went wrong or changed while requests were running.
Disturb == disturbed' = [q \in Requests |-> disturbed[q] \/ request[q] \in Requesting]

----------------------------------------------------------------------------
(* A request.                                                              *)

\* getActiveRepoInstallations, then the first page of every installation.
Start(q) ==
  /\ request[q] \notin Requesting
  /\ Ended(q)
  /\ active # {}
  /\ \E r \in Repositories \cup {AnyRepository} : wanted' = [wanted EXCEPT ![q] = r]
  /\ request' = [request EXCEPT ![q] = "list"]
  /\ call' = [call EXCEPT ![q] = [i \in Installations |->
                 IF i \in active THEN NewCall(1, tokenCache, i) ELSE Idle]]
  /\ disturbed' = [disturbed EXCEPT ![q] = ~(active \subseteq live)]
  /\ UNCHANGED <<active, live, tokenCache>>
  /\ Forget

\* The request has its answer, or is refused with 403: it is over.
End(q) ==
  /\ request' = [request EXCEPT ![q] = "ended"]
  /\ wanted' = [wanted EXCEPT ![q] = AnyRepository]
  /\ disturbed' = [disturbed EXCEPT ![q] = FALSE]
  /\ call' = [call EXCEPT ![q] = [i \in Installations |-> Idle]]

\* getAvailableRepos returns once every installation's pages are read: the
\* request ends, with the list or because no installation lists its repository,
\* or runs its operation through one that does.
Listed(q) ==
  /\ request[q] = "list"
  /\ LET via == {i \in Installations : call[q][i].pc # "none"}
         holders == {i \in via : wanted[q] \in ToSet(Listing[i])}
     IN /\ \A i \in via : call[q][i].pc = "ok"
        /\ \/ holders = {} /\ End(q)
           \/ \E i \in holders :
                /\ request' = [request EXCEPT ![q] = "operate"]
                /\ Update(q, i, NewCall(1, tokenCache, i))
                /\ UNCHANGED <<wanted, disturbed>>
  /\ UNCHANGED <<active, live, tokenCache>>
  /\ Forget

\* The call ends with an error.  Promise.all rejects with it at once; the
\* calls on the other installations run on.
Fail(q, i) ==
  /\ Update(q, i, [Idle EXCEPT !.pc = "failed"])
  /\ request' = [request EXCEPT ![q] = IF @ \in Requesting THEN "failed" ELSE @]

----------------------------------------------------------------------------
(* executeWithRetry and getInstallationToken.                              *)

\* The row must be ACTIVE; otherwise the cached token goes and the call fails
\* with 403.
CheckRow(q, i) ==
  /\ call[q][i].pc = "row"
  /\ \/ /\ i \in active
        /\ Update(q, i, [call[q][i] EXCEPT !.pc = "mint"])
        /\ UNCHANGED <<tokenCache, request>>
     \/ /\ i \notin active
        /\ tokenCache' = [tokenCache EXCEPT ![i] = NoToken]
        /\ Fail(q, i)
  /\ UNCHANGED <<active, live, wanted, disturbed>>
  /\ Forget

\* GitHub creates a token and answers with it.
Mint(q, i) ==
  /\ call[q][i].pc = "mint"
  /\ i \in live
  /\ FreeTokens(i) # {}
  /\ Update(q, i, [call[q][i] EXCEPT !.pc = "store", !.token = NewToken(i)])
  /\ UNCHANGED <<active, live, tokenVars, request, wanted, disturbed>>

\* The answer arrives: the token is cached, whatever the cache holds by now.
Store(q, i) ==
  /\ call[q][i].pc = "store"
  /\ tokenCache' = [tokenCache EXCEPT ![i] = call[q][i].token]
  /\ Update(q, i, [call[q][i] EXCEPT !.pc = "request"])
  /\ UNCHANGED <<active, live, request, wanted, disturbed>>
  /\ Forget

\* Seeded faults for the mutants of Unauthorized.
UnauthorizedKeepingCache(q, i) ==
  LET c == call[q][i]
  IN /\ \/ /\ ~c.retried
           /\ Update(q, i, Obtain([c EXCEPT !.retried = TRUE, !.refused = c.token],
                                  tokenCache, i))
           /\ UNCHANGED <<tokenCache, request>>
        \/ /\ c.retried
           /\ Fail(q, i)
           /\ UNCHANGED tokenCache
UnauthorizedForever(q, i) ==
  LET c == call[q][i]
      evicted == [tokenCache EXCEPT ![i] = NoToken]
  IN /\ tokenCache' = evicted
     /\ Update(q, i, Obtain([c EXCEPT !.refused = c.token], evicted, i))
     /\ UNCHANGED request
UnauthorizedGivesUp(q, i) == Fail(q, i) /\ UNCHANGED tokenCache

\* The call met a 401.  The first one drops the cached token, whoever put it
\* there, and asks for one again in the same step; the second one is final.
Unauthorized(q, i) ==
  LET c == call[q][i]
      evicted == [tokenCache EXCEPT ![i] = NoToken]
  IN \/ /\ ~c.retried
        /\ tokenCache' = evicted
        /\ Update(q, i, Obtain([c EXCEPT !.retried = TRUE, !.refused = c.token],
                               evicted, i))
        /\ UNCHANGED request
     \/ /\ c.retried
        /\ Fail(q, i)
        /\ UNCHANGED tokenCache

\* GitHub refuses the token presented.
Refused(q, i) ==
  /\ call[q][i].pc = "request"
  /\ age[i][call[q][i].token] \in Dead \/ i \notin live
  /\ Unauthorized(q, i)
  /\ UNCHANGED <<active, live, wanted, disturbed>>
  /\ Forget

\* GitHub refuses to create a token because it does not accept the app's JWT.
MintUnauthorized(q, i) ==
  /\ call[q][i].pc = "mint"
  /\ Unauthorized(q, i)
  /\ Disturb
  /\ UNCHANGED <<active, live, wanted>>
  /\ Forget

\* Any other error of GitHub or of the network is final.
RequestFails(q, i) ==
  /\ call[q][i].pc \in {"mint", "request"}
  /\ Fail(q, i)
  /\ Disturb
  /\ UNCHANGED <<active, live, tokenCache, wanted>>
  /\ Forget

\* GitHub serves the request: a full page is followed by the next one, a
\* shorter one ends the listing, an operation ends its request.
Succeed(q, i) ==
  LET c == call[q][i]
  IN /\ c.pc = "request"
     /\ age[i][c.token] \notin Dead /\ i \in live
     /\ \/ request[q] = "operate" /\ End(q)
        \/ /\ request[q] # "operate"
           /\ Update(q, i, IF FullPage(c.page, i)
                             THEN NewCall(c.page + 1, tokenCache, i)
                             ELSE [Idle EXCEPT !.pc = "ok"])
           /\ UNCHANGED <<request, wanted, disturbed>>
     /\ UNCHANGED <<active, live, tokenCache>>
     /\ Forget

----------------------------------------------------------------------------
(* Outside the service.                                                    *)

\* Time passes: a token comes within the buffer of its expiry, then expires.
Expire(i, t) ==
  /\ t \in InUse(i)
  /\ \/ /\ age[i][t] = "fresh"
        /\ age' = [age EXCEPT ![i][t] = "closing"]
        /\ UNCHANGED disturbed
     \/ /\ age[i][t] \in {"closing", "revoked"}
        /\ age' = [age EXCEPT ![i][t] = "expired"]
        /\ Disturb
  /\ UNCHANGED <<active, live, tokenCache, call, request, wanted>>

\* GitHub revokes a token before it expires.
Revoke(i, t) ==
  /\ t \in InUse(i)
  /\ age[i][t] = "fresh"
  /\ age' = [age EXCEPT ![i][t] = "revoked"]
  /\ Disturb
  /\ UNCHANGED <<active, live, tokenCache, call, request, wanted>>

\* The installation is suspended or restored at GitHub, or its row changes.
Switch(i) ==
  /\ \/ live' = SymDiff(live, {i}) /\ UNCHANGED active
     \/ active' = SymDiff(active, {i}) /\ UNCHANGED live
  /\ Disturb
  /\ UNCHANGED <<tokenVars, call, request, wanted>>

Step(q, i) ==
  \/ CheckRow(q, i) \/ Mint(q, i) \/ Store(q, i) \/ Refused(q, i)
  \/ MintUnauthorized(q, i) \/ RequestFails(q, i) \/ Succeed(q, i)

Outside(i) == (\E t \in Tokens : Expire(i, t) \/ Revoke(i, t)) \/ Switch(i)

Next ==
  \/ \E q \in Requests : Start(q) \/ Listed(q)
  \/ \E q \in Requests, i \in Installations : Step(q, i)
  \/ \E i \in Installations : Outside(i)

Spec == Init /\ [][Next]_vars

----------------------------------------------------------------------------
(* Properties.                                                             *)

\* A call that was refused never presents the same token again, however many
\* calls share the cache and whichever of their answers is stored last: the
\* eviction and the next look into the cache are one step of executeWithRetry.
RetryUsesAnotherToken ==
  \A q \in Requests, i \in Installations :
    call[q][i].pc = "request" /\ call[q][i].refused # NoToken
      => call[q][i].token # call[q][i].refused

\* A dead token left in the cache, by an earlier revocation or by the late
\* answer of another call, never fails a request: one fails only if GitHub or
\* the rows disturbed it while it ran.
UndisturbedRequestSucceeds ==
  \A q \in Requests : request[q] = "failed" => disturbed[q]

\* What is left of a call: its pages, its second try, and the steps of a try.
Pages(i) == (Len(Listing[i]) \div PageSize) + 1
Steps == [row |-> 4, mint |-> 3, store |-> 2, request |-> 1]
Left(c, i) ==
  IF c.pc \in Waiting
    THEN 9 * (Pages(i) - c.page) + (IF c.retried THEN 0 ELSE 4) + Steps[c.pc]
    ELSE 0

\* Every request ends, also when GitHub refuses every token: a listing turns
\* into an operation but not back, and each step of a call leaves less to do.
RequestProgresses ==
  [][\A q \in Requests : request[q] \in Requesting =>
       /\ request'[q] = "list" => request[q] = "list"
       /\ request'[q] = request[q] =>
            \A i \in Installations :
              call'[q][i] # call[q][i] => Left(call'[q][i], i) < Left(call[q][i], i)]_vars
=============================================================================
