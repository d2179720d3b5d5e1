---------------------- MODULE InstallationTokenProofs ----------------------
(***************************************************************************)
(* The properties of InstallationToken, for any number of requests,        *)
(* installations, tokens and repositories, and any page size.              *)
(*                                                                         *)
(* A call is judged by itself: it holds a token exactly when it has one to *)
(* store or to present, that token is not the one it was refused with, and *)
(* it asks for a page that exists.  A request nothing disturbed has calls  *)
(* only on installations that are served, and a token got for a second try *)
(* is a new one, which dies only of what disturbs the request.             *)
(***************************************************************************)
EXTENDS InstallationToken, TLAPS

Held(c) == c.pc \in {"store", "request"}
Anew(c) == c.refused # NoToken => c.token # c.refused
Within(c, i) == c.pc \in Waiting => c.page \in 1..Pages(i)

\* What holds of every call on an installation i.
CallOK(c, i) ==
  /\ c \in Call
  /\ Held(c) <=> c.token # NoToken
  /\ Anew(c)
  /\ Within(c, i)

\* What holds of the calls of a request that nothing disturbed.
Calm(c, i, rows, served, ages) ==
  c.pc # "none" => /\ i \in rows /\ i \in served
                   /\ c.retried /\ Held(c) => ages[c.token] \notin Dead

Rest ==
  /\ active \subseteq Installations
  /\ live \subseteq Installations
  /\ age \in [Installations -> [Tokens -> Ages]]
  /\ tokenCache \in [Installations -> Tokens \cup {NoToken}]
  /\ request \in [Requests -> Requesting \cup {"ended", "failed"}]
  /\ wanted \in [Requests -> Repositories \cup {AnyRepository}]
  /\ disturbed \in [Requests -> BOOLEAN]

CallTypes == call \in [Requests -> [Installations -> Call]]
CallsOK == \A q \in Requests, i \in Installations : CallOK(call[q][i], i)

IInv == Rest /\ CallTypes /\ CallsOK

----------------------------------------------------------------------------
(* Pages and records.                                                      *)

LEMMA PagesType ==
  ASSUME NEW i \in Installations
  PROVE  Pages(i) \in Nat \ {0} /\ Len(Listing[i]) \in Nat
<1>1. Listing[i] \in Seq(ToSet(Listing[i])) /\ PageSize \in Nat \ {0}
  BY InstallationTokenAssumption
<1>2. Len(Listing[i]) \in Nat
  BY <1>1
<1>3. Len(Listing[i]) \div PageSize \in Nat
  <2>1. \A n \in Nat, k \in Nat \ {0} : n \div k \in Nat
    OBVIOUS
  <2> QED BY <1>1, <1>2, <2>1
<1> QED BY <1>2, <1>3 DEF Pages

\* A full page is followed by one that exists.
LEMMA NextPageExists ==
  ASSUME NEW i \in Installations, NEW page \in Nat, FullPage(page, i)
  PROVE  page + 1 <= Pages(i)
<1> DEFINE len == Len(Listing[i])
           d == len \div PageSize
<1>1. len \in Nat /\ PageSize \in Nat \ {0}
  BY PagesType, InstallationTokenAssumption
<1>2. len >= page * PageSize
  BY DEF FullPage
<1> HIDE DEF len
<1>3. d \in Nat /\ len < (d + 1) * PageSize
  BY <1>1
<1> HIDE DEF d
<1>4. ASSUME page > d PROVE FALSE
  <2>1. page * PageSize >= (d + 1) * PageSize
    BY <1>1, <1>3, <1>4
  <2>2. page * PageSize \in Nat /\ (d + 1) * PageSize \in Nat
    BY <1>1, <1>3
  <2> QED BY <1>1, <1>2, <1>3, <2>1, <2>2
<1>5. page <= d
  BY <1>3, <1>4
<1> QED BY <1>3, <1>5 DEF Pages, d, len

LEMMA IdleFacts ==
  /\ Idle \in Call /\ Idle.pc = "none" /\ Idle.page = 1 /\ Idle.token = NoToken
  /\ Idle.refused = NoToken /\ ~Idle.retried
  /\ \A i : CallOK(Idle, i)
<1>1. Idle \in Call
  BY DEF Idle, Call, CallStates
<1>2. /\ Idle.pc = "none" /\ Idle.page = 1 /\ Idle.token = NoToken
      /\ Idle.refused = NoToken /\ ~Idle.retried
  BY DEF Idle
<1> QED BY <1>1, <1>2 DEF CallOK, Held, Anew, Within, Waiting

\* A call that waits for nothing.
LEMMA OverFacts ==
  ASSUME NEW pc \in {"ok", "failed"}
  PROVE  /\ [Idle EXCEPT !.pc = pc].pc = pc
         /\ \A i : CallOK([Idle EXCEPT !.pc = pc], i)
<1> DEFINE c == [Idle EXCEPT !.pc = pc]
<1>1. c \in Call /\ c.pc = pc /\ c.token = NoToken /\ c.refused = NoToken
  BY IdleFacts DEF Call, CallStates
<1> HIDE DEF c
<1>2. \A i : CallOK(c, i)
  BY <1>1 DEF CallOK, Held, Anew, Within, Waiting
<1> QED BY <1>1, <1>2 DEF c

\* What getInstallationToken does to a call.
LEMMA ObtainFacts ==
  ASSUME NEW c \in Call, NEW cache \in [Installations -> Tokens \cup {NoToken}],
         NEW i \in Installations
  PROVE  LET o == Obtain(c, cache, i)
         IN /\ o \in Call
            /\ o.page = c.page /\ o.retried = c.retried /\ o.refused = c.refused
            /\ \/ o.pc = "request" /\ Cached(cache, i) /\ o.token = cache[i] /\ o.token # NoToken
               \/ o.pc = "row" /\ ~Cached(cache, i) /\ o.token = NoToken
<1>1. CASE Cached(cache, i)
  <2> DEFINE o == [[c EXCEPT !.pc = "request"] EXCEPT !.token = cache[i]]
  <2>1. Obtain(c, cache, i) = o
    BY <1>1 DEF Obtain
  <2>2. cache[i] # NoToken /\ cache[i] \in Tokens \cup {NoToken}
    BY <1>1 DEF Cached
  <2>3. /\ o \in Call /\ o.pc = "request" /\ o.token = cache[i]
        /\ o.page = c.page /\ o.retried = c.retried /\ o.refused = c.refused
    BY <2>2 DEF Call, CallStates, Waiting
  <2> HIDE DEF o
  <2> QED BY <1>1, <2>1, <2>2, <2>3
<1>2. CASE ~Cached(cache, i)
  <2> DEFINE o == [[c EXCEPT !.pc = "row"] EXCEPT !.token = NoToken]
  <2>1. Obtain(c, cache, i) = o
    BY <1>2 DEF Obtain
  <2>2. /\ o \in Call /\ o.pc = "row" /\ o.token = NoToken
        /\ o.page = c.page /\ o.retried = c.retried /\ o.refused = c.refused
    BY DEF Call, CallStates, Waiting
  <2> HIDE DEF o
  <2> QED BY <1>2, <2>1, <2>2
<1> QED BY <1>1, <1>2

\* The first try of a page.
LEMMA NewCallFacts ==
  ASSUME NEW page, NEW cache \in [Installations -> Tokens \cup {NoToken}],
         NEW i \in Installations, page \in 1..Pages(i)
  PROVE  /\ CallOK(NewCall(page, cache, i), i)
         /\ NewCall(page, cache, i).pc \in {"row", "request"}
         /\ NewCall(page, cache, i).page = page
         /\ ~NewCall(page, cache, i).retried
         /\ NewCall(page, cache, i).token \in {NoToken, cache[i]}
<1> DEFINE c == [Idle EXCEPT !.page = page]
           o == NewCall(page, cache, i)
<1>1. page \in Nat
  BY PagesType
<1>2. c \in Call /\ c.page = page /\ c.refused = NoToken /\ c.retried = FALSE
  BY <1>1, IdleFacts DEF Call, Idle
<1>3. o = Obtain(c, cache, i)
  BY DEF NewCall
<1> HIDE DEF c, o
<1>4. /\ o \in Call
      /\ o.page = page /\ o.retried = FALSE /\ o.refused = NoToken
      /\ \/ o.pc = "request" /\ o.token = cache[i] /\ o.token # NoToken
         \/ o.pc = "row" /\ o.token = NoToken
  BY <1>2, <1>3, ObtainFacts
<1>5. CallOK(o, i)
  BY <1>4 DEF CallOK, Held, Anew, Within
<1> QED BY <1>4, <1>5 DEF o

----------------------------------------------------------------------------
(* One call changes.                                                       *)

LEMMA UpdateFacts ==
  ASSUME CallTypes, NEW q \in Requests, NEW i \in Installations, NEW c \in Call, Update(q, i, c)
  PROVE  /\ CallTypes' /\ call'[q][i] = c
         /\ \A p \in Requests, j \in Installations :
              p # q \/ j # i => call'[p][j] = call[p][j]
BY DEF CallTypes, Update

LEMMA UpdateOK ==
  ASSUME IInv, Rest', NEW q \in Requests, NEW i \in Installations, NEW c, CallOK(c, i),
         Update(q, i, c)
  PROVE  IInv'
<1>1. c \in Call
  BY DEF CallOK
<1>2. /\ CallTypes' /\ call'[q][i] = c
      /\ \A p \in Requests, j \in Installations :
           p # q \/ j # i => call'[p][j] = call[p][j]
  BY <1>1, UpdateFacts DEF IInv
<1>3. CallsOK'
  BY <1>2, Zenon DEF IInv, CallsOK
<1> QED BY <1>2, <1>3 DEF IInv

\* All calls of a request change.
LEMMA RowFacts ==
  ASSUME CallTypes, NEW q \in Requests, NEW cs \in [Installations -> Call],
         call' = [call EXCEPT ![q] = cs]
  PROVE  /\ CallTypes' /\ call'[q] = cs
         /\ \A p \in Requests : p # q => call'[p] = call[p]
BY DEF CallTypes

LEMMA RowOK ==
  ASSUME IInv, Rest', NEW q \in Requests, NEW cs \in [Installations -> Call],
         \A i \in Installations : CallOK(cs[i], i), call' = [call EXCEPT ![q] = cs]
  PROVE  IInv'
<1>1. /\ CallTypes' /\ call'[q] = cs
      /\ \A p \in Requests : p # q => call'[p] = call[p]
  BY RowFacts DEF IInv
<1>2. CallsOK'
  BY <1>1, Zenon DEF IInv, CallsOK
<1> QED BY <1>1, <1>2 DEF IInv

LEMMA ForgetFacts ==
  ASSUME age \in [Installations -> [Tokens -> Ages]], Forget
  PROVE  /\ age' \in [Installations -> [Tokens -> Ages]]
         /\ \A i \in Installations, t \in Tokens :
              age'[i][t] = IF t \in InUse(i)' THEN age[i][t] ELSE "fresh"
BY DEF Forget, Ages

LEMMA DisturbFacts ==
  ASSUME disturbed \in [Requests -> BOOLEAN], Disturb
  PROVE  /\ disturbed' \in [Requests -> BOOLEAN]
         /\ \A q \in Requests : disturbed'[q] <=> disturbed[q] \/ request[q] \in Requesting
<1>1. disturbed' = [q \in Requests |-> disturbed[q] \/ request[q] \in Requesting]
  BY DEF Disturb
<1> QED BY <1>1, Zenon

\* A call that ends with an error, and its request with it.
LEMMA FailFacts ==
  ASSUME IInv, NEW q \in Requests, NEW i \in Installations, Fail(q, i)
  PROVE  /\ Update(q, i, [Idle EXCEPT !.pc = "failed"])
         /\ CallOK([Idle EXCEPT !.pc = "failed"], i)
         /\ request' \in [Requests -> Requesting \cup {"ended", "failed"}]
         /\ request'[q] = IF request[q] \in Requesting THEN "failed" ELSE request[q]
         /\ \A p \in Requests : p # q => request'[p] = request[p]
BY OverFacts DEF Fail, IInv, Rest

\* The calls of a request that ends.
LEMMA EndFacts ==
  ASSUME IInv, NEW q \in Requests, End(q)
  PROVE  /\ request' \in [Requests -> Requesting \cup {"ended", "failed"}]
         /\ request'[q] = "ended"
         /\ \A p \in Requests : p # q => request'[p] = request[p] /\ disturbed'[p] = disturbed[p]
         /\ wanted' \in [Requests -> Repositories \cup {AnyRepository}]
         /\ disturbed' \in [Requests -> BOOLEAN]
         /\ [i \in Installations |-> Idle] \in [Installations -> Call]
         /\ call' = [call EXCEPT ![q] = [i \in Installations |-> Idle]]
         /\ \A i \in Installations : CallOK([j \in Installations |-> Idle][i], i)
BY IdleFacts DEF End, IInv, Rest

\* The first 401 takes the token out of the cache, so the second try has none.
LEMMA UnauthorizedFacts ==
  ASSUME IInv, NEW q \in Requests, NEW i \in Installations, Unauthorized(q, i),
         call[q][i].pc \in {"mint", "request"}
  PROVE  \/ /\ ~call[q][i].retried
            /\ tokenCache' = [tokenCache EXCEPT ![i] = NoToken] /\ request' = request
            /\ \E c : /\ Update(q, i, c) /\ CallOK(c, i) /\ c.pc = "row" /\ c.retried
                      /\ c.page = call[q][i].page
         \/ /\ call[q][i].retried /\ Fail(q, i) /\ tokenCache' = tokenCache
<1> DEFINE c == call[q][i]
           r == [[c EXCEPT !.retried = TRUE] EXCEPT !.refused = c.token]
           evicted == [tokenCache EXCEPT ![i] = NoToken]
           o == Obtain(r, evicted, i)
<1>1. c \in Call /\ CallOK(c, i)
  BY DEF IInv, CallTypes, CallsOK
<1>2. r \in Call /\ r.retried = TRUE /\ r.refused = c.token /\ r.page = c.page
  BY <1>1 DEF Call
<1>3. evicted \in [Installations -> Tokens \cup {NoToken}] /\ evicted[i] = NoToken
  BY DEF IInv, Rest
<1>4. ~Cached(evicted, i)
  BY <1>3 DEF Cached
<1> HIDE DEF r, evicted, o
<1>5. /\ o \in Call /\ o.pc = "row" /\ o.token = NoToken /\ o.retried = TRUE
      /\ o.refused = c.token /\ o.page = c.page
  BY <1>2, <1>3, <1>4, ObtainFacts DEF o
<1>6. c.page \in 1..Pages(i)
  BY <1>1 DEF CallOK, Within, Waiting
<1>7. CallOK(o, i)
  BY <1>5, <1>6 DEF CallOK, Held, Anew, Within
<1>8. \/ /\ ~c.retried /\ tokenCache' = evicted /\ Update(q, i, o) /\ request' = request
      \/ c.retried /\ Fail(q, i) /\ tokenCache' = tokenCache
  BY DEF Unauthorized, o, r, evicted
<1> QED BY <1>5, <1>7, <1>8 DEF evicted

----------------------------------------------------------------------------
(* What is left of a call.                                                 *)

LEMMA StepsFacts ==
  Steps["row"] = 4 /\ Steps["mint"] = 3 /\ Steps["store"] = 2 /\ Steps["request"] = 1
BY DEF Steps

LEMMA LeftFacts ==
  ASSUME NEW c, NEW i \in Installations, CallOK(c, i)
  PROVE  /\ c.pc \notin Waiting => Left(c, i) = 0
         /\ c.pc \in Waiting =>
              /\ Pages(i) - c.page \in Nat
              /\ c.retried => Left(c, i) = 9 * (Pages(i) - c.page) + Steps[c.pc]
              /\ ~c.retried => Left(c, i) = 9 * (Pages(i) - c.page) + 4 + Steps[c.pc]
              /\ Steps[c.pc] \in 1..4
<1>1. c.pc \notin Waiting => Left(c, i) = 0
  BY DEF Left
<1>2. ASSUME c.pc \in Waiting PROVE Pages(i) - c.page \in Nat /\ Steps[c.pc] \in 1..4
  <2>1. c.page \in 1..Pages(i) /\ Pages(i) \in Nat
    BY <1>2, PagesType DEF CallOK, Within
  <2>2. Steps[c.pc] \in 1..4
    BY <1>2, StepsFacts DEF Waiting
  <2> QED BY <2>1, <2>2
<1>3. ASSUME c.pc \in Waiting, c.retried
      PROVE Left(c, i) = 9 * (Pages(i) - c.page) + Steps[c.pc]
  <2> DEFINE n == 9 * (Pages(i) - c.page)
             s == Steps[c.pc]
  <2>1. Left(c, i) = n + 0 + s
    BY <1>3 DEF Left
  <2>2. n \in Nat /\ s \in Nat
    BY <1>2, <1>3
  <2> HIDE DEF n, s
  <2>3. Left(c, i) = n + s
    BY <2>1, <2>2
  <2> QED BY <2>3 DEF n, s
<1>4. ASSUME c.pc \in Waiting, ~c.retried
      PROVE Left(c, i) = 9 * (Pages(i) - c.page) + 4 + Steps[c.pc]
  BY <1>4 DEF Left
<1> QED BY <1>1, <1>2, <1>3, <1>4

\* A later step of the same try leaves less.
LEMMA LeftOfTry ==
  ASSUME NEW c, NEW d, NEW i \in Installations, CallOK(c, i), CallOK(d, i),
         c.pc \in Waiting, d.pc \in Waiting, Steps[d.pc] < Steps[c.pc],
         d.page = c.page, d.retried = c.retried
  PROVE  Left(d, i) < Left(c, i)
<1> DEFINE n == 9 * (Pages(i) - c.page)
           s == Steps[c.pc]
           u == Steps[d.pc]
<1>1. n \in Nat /\ s \in Nat /\ u \in Nat /\ u < s
  BY LeftFacts
<1>2. CASE c.retried
  <2>1. Left(c, i) = n + s /\ Left(d, i) = n + u
    BY <1>2, LeftFacts
  <2> HIDE DEF n, s, u
  <2> QED BY <1>1, <2>1
<1>3. CASE ~c.retried
  <2>1. Left(c, i) = n + 4 + s /\ Left(d, i) = n + 4 + u
    BY <1>3, LeftFacts
  <2> HIDE DEF n, s, u
  <2> QED BY <1>1, <2>1
<1> QED BY <1>2, <1>3

\* The second try leaves less than the first one at the time it is refused.
LEMMA LeftOfRetry ==
  ASSUME NEW c, NEW d, NEW i \in Installations, CallOK(c, i), CallOK(d, i),
         c.pc \in Waiting, d.pc = "row", d.page = c.page, ~c.retried, d.retried
  PROVE  Left(d, i) < Left(c, i)
<1> DEFINE n == 9 * (Pages(i) - c.page)
           s == Steps[c.pc]
<1>1. n \in Nat /\ s \in 1..4 /\ Left(c, i) = n + 4 + s
  BY LeftFacts
<1>2. d.pc \in Waiting /\ Steps[d.pc] = 4
  BY StepsFacts DEF Waiting
<1>3. Left(d, i) = n + 4
  BY <1>2, LeftFacts
<1> HIDE DEF n, s
<1> QED BY <1>1, <1>3

\* So does the first try of the next page.
LEMMA LeftOfNextPage ==
  ASSUME NEW c, NEW d, NEW i \in Installations, CallOK(c, i), CallOK(d, i),
         c.pc \in Waiting, d.pc \in Waiting, d.page = c.page + 1, ~d.retried
  PROVE  Left(d, i) < Left(c, i)
<1> DEFINE n == Pages(i) - c.page
           m == Pages(i) - d.page
           s == Steps[c.pc]
           u == Steps[d.pc]
<1>1. n \in Nat /\ m \in Nat /\ s \in 1..4 /\ u \in 1..4 /\ Left(d, i) = 9 * m + 4 + u
  BY LeftFacts
<1>2. m = n - 1
  BY PagesType DEF CallOK, Within, Call
<1>3. Left(c, i) = 9 * n + s \/ Left(c, i) = 9 * n + 4 + s
  BY LeftFacts
<1> HIDE DEF n, m, s, u
<1> QED BY <1>1, <1>2, <1>3

LEMMA LeftOfOver ==
  ASSUME NEW c, NEW d, NEW i \in Installations, CallOK(c, i), CallOK(d, i),
         c.pc \in Waiting, d.pc \notin Waiting
  PROVE  Left(d, i) < Left(c, i)
<1> DEFINE n == 9 * (Pages(i) - c.page)
           s == Steps[c.pc]
<1>1. n \in Nat /\ s \in 1..4 /\ Left(d, i) = 0
  BY LeftFacts
<1>2. Left(c, i) = n + s \/ Left(c, i) = n + 4 + s
  BY LeftFacts
<1> HIDE DEF n, s
<1> QED BY <1>1, <1>2

----------------------------------------------------------------------------
(* Every step of a call is one of four: its request ends, it moves on, it  *)
(* fails for a reason that is on record, or everybody is disturbed.        *)

CalmCall(q, i) == Calm(call[q][i], i, active, live, age[i])

Moves(q, i, c) == Update(q, i, c) /\ CallOK(c, i) /\ Left(c, i) < Left(call[q][i], i)
Still == active' = active /\ live' = live
Goes(q, i, c) ==
  /\ Still /\ disturbed' = disturbed /\ request' = request
  /\ CalmCall(q, i) => Calm(c, i, active, live, age[i])
Breaks(q, i) == Still /\ disturbed' = disturbed /\ Fail(q, i) /\ ~CalmCall(q, i)
Shakes(q, i) == Disturb /\ (request' = request \/ Fail(q, i))
OneStep(q, i) ==
  /\ Rest'
  /\ \/ Still /\ request[q] = "operate" /\ End(q)
     \/ \E c : Moves(q, i, c) /\ (Goes(q, i, c) \/ Breaks(q, i) \/ Shakes(q, i))

\* A call that fails.
LEMMA FailMoves ==
  ASSUME IInv, NEW q \in Requests, NEW i \in Installations, Fail(q, i),
         call[q][i].pc \in Waiting
  PROVE  /\ Moves(q, i, [Idle EXCEPT !.pc = "failed"])
         /\ request' \in [Requests -> Requesting \cup {"ended", "failed"}]
<1> DEFINE c == [Idle EXCEPT !.pc = "failed"]
<1>1. /\ Update(q, i, c) /\ CallOK(c, i)
      /\ request' \in [Requests -> Requesting \cup {"ended", "failed"}]
  BY FailFacts
<1>2. c.pc = "failed"
  BY OverFacts
<1> HIDE DEF c
<1>3. CallOK(call[q][i], i)
  BY DEF IInv, CallsOK
<1>4. Left(c, i) < Left(call[q][i], i)
  BY <1>1, <1>2, <1>3, LeftOfOver DEF Waiting
<1>5. Moves(q, i, c)
  BY <1>1, <1>4 DEF Moves
<1> QED BY <1>1, <1>5 DEF c

LEMMA CheckRowStep ==
  ASSUME IInv, NEW q \in Requests, NEW i \in Installations, CheckRow(q, i)
  PROVE  OneStep(q, i)
<1> DEFINE c == call[q][i]
           d == [c EXCEPT !.pc = "mint"]
<1>1. c \in Call /\ CallOK(c, i) /\ c.pc = "row" /\ c.pc \in Waiting
  BY DEF IInv, CallTypes, CallsOK, CheckRow, Waiting
<1>2. /\ age' \in [Installations -> [Tokens -> Ages]]
      /\ active' = active /\ live' = live /\ wanted' = wanted /\ disturbed' = disturbed
  BY ForgetFacts DEF CheckRow, IInv, Rest
<1>3. CASE i \in active
  <2>1. Update(q, i, d) /\ tokenCache' = tokenCache /\ request' = request
    BY <1>3 DEF CheckRow
  <2>2. /\ d \in Call /\ d.pc = "mint" /\ d.token = c.token /\ d.refused = c.refused
        /\ d.page = c.page /\ d.retried = c.retried
    BY <1>1 DEF Call, CallStates, Waiting
  <2> HIDE DEF c, d
  <2>3. CallOK(d, i)
    BY <1>1, <2>2 DEF CallOK, Held, Anew, Within, Waiting
  <2>4. Left(d, i) < Left(c, i)
    <3>1. d.pc \in Waiting /\ Steps[d.pc] < Steps[c.pc]
      BY <1>1, <2>2, StepsFacts DEF Waiting
    <3> QED BY <1>1, <2>2, <2>3, <3>1, LeftOfTry
  <2>5. Calm(c, i, active, live, age[i]) => Calm(d, i, active, live, age[i])
    BY <1>1, <2>2 DEF Calm, Held
  <2>6. Rest'
    BY <1>2, <2>1 DEF IInv, Rest
  <2> QED BY <1>2, <2>1, <2>3, <2>4, <2>5, <2>6
          DEF OneStep, Moves, Goes, Still, CalmCall, c
<1>4. CASE i \notin active
  <2>1. tokenCache' = [tokenCache EXCEPT ![i] = NoToken] /\ Fail(q, i)
    BY <1>4 DEF CheckRow
  <2>2. /\ Moves(q, i, [Idle EXCEPT !.pc = "failed"])
        /\ request' \in [Requests -> Requesting \cup {"ended", "failed"}]
    BY <1>1, <2>1, FailMoves
  <2>3. ~CalmCall(q, i)
    BY <1>1, <1>4 DEF CalmCall, Calm
  <2>4. Rest'
    BY <1>2, <2>1, <2>2 DEF IInv, Rest
  <2> QED BY <1>2, <2>1, <2>2, <2>3, <2>4 DEF OneStep, Breaks, Still
<1> QED BY <1>3, <1>4

\* A token that nobody uses is fresh.
FreshInv ==
  \A i \in Installations, t \in Tokens : t \notin InUse(i) => age[i][t] = "fresh"

LEMMA NewTokenFacts ==
  ASSUME NEW i \in Installations, FreeTokens(i) # {}
  PROVE  /\ NewToken(i) \in Tokens /\ NewToken(i) \notin InUse(i)
         /\ \A q \in Requests : call[q][i].refused # NewToken(i)
<1>1. \E t \in Tokens : t \in FreeTokens(i)
  BY DEF FreeTokens
<1>2. NewToken(i) \in Tokens /\ NewToken(i) \in FreeTokens(i)
  BY <1>1 DEF NewToken
<1> QED BY <1>2 DEF FreeTokens

LEMMA MintStep ==
  ASSUME IInv, FreshInv, NEW q \in Requests, NEW i \in Installations, Mint(q, i)
  PROVE  OneStep(q, i)
<1> DEFINE c == call[q][i]
           t == NewToken(i)
           d == [[c EXCEPT !.pc = "store"] EXCEPT !.token = t]
<1>1. c \in Call /\ CallOK(c, i) /\ c.pc = "mint" /\ c.pc \in Waiting
  BY DEF IInv, CallTypes, CallsOK, Mint, Waiting
<1>2. t \in Tokens /\ t \notin InUse(i) /\ c.refused # t /\ t # NoToken
  BY NewTokenFacts, InstallationTokenAssumption DEF Mint
<1>3. age[i][t] = "fresh"
  BY <1>2 DEF FreshInv
<1>4. /\ Update(q, i, d) /\ age' = age /\ tokenCache' = tokenCache /\ request' = request
      /\ active' = active /\ live' = live /\ wanted' = wanted /\ disturbed' = disturbed
  BY DEF Mint, tokenVars
<1> HIDE DEF t
<1>5. /\ d \in Call /\ d.pc = "store" /\ d.token = t /\ d.refused = c.refused
      /\ d.page = c.page /\ d.retried = c.retried
  BY <1>1, <1>2 DEF Call, CallStates, Waiting
<1> HIDE DEF c, d
<1>6. CallOK(d, i)
  BY <1>1, <1>2, <1>5 DEF CallOK, Held, Anew, Within, Waiting
<1>7. Left(d, i) < Left(c, i)
  <2>1. d.pc \in Waiting /\ Steps[d.pc] < Steps[c.pc]
    BY <1>1, <1>5, StepsFacts DEF Waiting
  <2> QED BY <1>1, <1>5, <1>6, <2>1, LeftOfTry
<1>8. Calm(c, i, active, live, age[i]) => Calm(d, i, active, live, age[i])
  BY <1>1, <1>3, <1>5 DEF Calm, Held, Dead
<1>9. Rest'
  BY <1>4 DEF IInv, Rest
<1> QED BY <1>4, <1>6, <1>7, <1>8, <1>9 DEF OneStep, Moves, Goes, Still, CalmCall, c

LEMMA StoreStep ==
  ASSUME IInv, NEW q \in Requests, NEW i \in Installations, Store(q, i)
  PROVE  OneStep(q, i)
<1> DEFINE c == call[q][i]
           d == [c EXCEPT !.pc = "request"]
<1>1. c \in Call /\ CallOK(c, i) /\ c.pc = "store" /\ c.pc \in Waiting
  BY DEF IInv, CallTypes, CallsOK, Store, Waiting
<1>2. /\ age' \in [Installations -> [Tokens -> Ages]]
      /\ active' = active /\ live' = live /\ wanted' = wanted /\ disturbed' = disturbed
      /\ request' = request /\ Update(q, i, d)
      /\ tokenCache' = [tokenCache EXCEPT ![i] = c.token]
  BY ForgetFacts DEF Store, IInv, Rest
<1>3. c.token \in Tokens \cup {NoToken}
  BY <1>1 DEF Call
<1>4. /\ d \in Call /\ d.pc = "request" /\ d.token = c.token /\ d.refused = c.refused
      /\ d.page = c.page /\ d.retried = c.retried
  BY <1>1 DEF Call, CallStates, Waiting
<1> HIDE DEF c, d
<1>5. CallOK(d, i)
  BY <1>1, <1>4 DEF CallOK, Held, Anew, Within, Waiting
<1>6. Left(d, i) < Left(c, i)
  <2>1. d.pc \in Waiting /\ Steps[d.pc] < Steps[c.pc]
    BY <1>1, <1>4, StepsFacts DEF Waiting
  <2> QED BY <1>1, <1>4, <1>5, <2>1, LeftOfTry
<1>7. Calm(c, i, active, live, age[i]) => Calm(d, i, active, live, age[i])
  BY <1>1, <1>4 DEF Calm, Held
<1>8. Rest'
  BY <1>2, <1>3 DEF IInv, Rest
<1> QED BY <1>2, <1>5, <1>6, <1>7, <1>8 DEF OneStep, Moves, Goes, Still, CalmCall, c

\* A 401: the second try begins, or the call fails.
LEMMA UnauthorizedMoves ==
  ASSUME IInv, NEW q \in Requests, NEW i \in Installations, Unauthorized(q, i),
         call[q][i].pc \in {"mint", "request"}
  PROVE  /\ tokenCache' \in [Installations -> Tokens \cup {NoToken}]
         /\ request' \in [Requests -> Requesting \cup {"ended", "failed"}]
         /\ \/ /\ request' = request
               /\ \E c : Moves(q, i, c) /\ c.pc = "row"
            \/ /\ call[q][i].retried /\ Fail(q, i)
               /\ Moves(q, i, [Idle EXCEPT !.pc = "failed"])
<1> DEFINE c == call[q][i]
<1>1. CallOK(c, i) /\ c.pc \in Waiting
  BY DEF IInv, CallsOK, Waiting
<1>2. CASE /\ ~c.retried
           /\ tokenCache' = [tokenCache EXCEPT ![i] = NoToken] /\ request' = request
           /\ \E d : /\ Update(q, i, d) /\ CallOK(d, i) /\ d.pc = "row" /\ d.retried
                     /\ d.page = c.page
  <2>1. PICK d : /\ Update(q, i, d) /\ CallOK(d, i) /\ d.pc = "row" /\ d.retried
                 /\ d.page = c.page
    BY <1>2
  <2> HIDE DEF c
  <2>2. Left(d, i) < Left(c, i)
    BY <1>1, <1>2, <2>1, LeftOfRetry
  <2>3. Moves(q, i, d)
    BY <2>1, <2>2 DEF Moves, c
  <2>4. tokenCache' \in [Installations -> Tokens \cup {NoToken}]
    BY <1>2 DEF IInv, Rest
  <2>5. request' \in [Requests -> Requesting \cup {"ended", "failed"}]
    BY <1>2 DEF IInv, Rest
  <2> QED BY <1>2, <2>1, <2>3, <2>4, <2>5
<1>3. CASE c.retried /\ Fail(q, i) /\ tokenCache' = tokenCache
  <2>1. /\ Moves(q, i, [Idle EXCEPT !.pc = "failed"])
        /\ request' \in [Requests -> Requesting \cup {"ended", "failed"}]
    BY <1>1, <1>3, FailMoves
  <2>2. tokenCache' \in [Installations -> Tokens \cup {NoToken}]
    BY <1>3 DEF IInv, Rest
  <2> QED BY <1>3, <2>1, <2>2
<1> QED BY <1>2, <1>3, UnauthorizedFacts

LEMMA RefusedStep ==
  ASSUME IInv, NEW q \in Requests, NEW i \in Installations, Refused(q, i)
  PROVE  OneStep(q, i)
<1> DEFINE c == call[q][i]
<1>1. /\ c.pc = "request" /\ (age[i][c.token] \in Dead \/ i \notin live)
      /\ Unauthorized(q, i)
      /\ active' = active /\ live' = live /\ wanted' = wanted /\ disturbed' = disturbed
  BY DEF Refused
<1>2. age' \in [Installations -> [Tokens -> Ages]]
  BY ForgetFacts DEF Refused, IInv, Rest
<1>3. /\ tokenCache' \in [Installations -> Tokens \cup {NoToken}]
      /\ request' \in [Requests -> Requesting \cup {"ended", "failed"}]
      /\ \/ request' = request /\ \E d : Moves(q, i, d) /\ d.pc = "row"
         \/ c.retried /\ Fail(q, i) /\ Moves(q, i, [Idle EXCEPT !.pc = "failed"])
  BY <1>1, UnauthorizedMoves
<1>4. Rest'
  BY <1>1, <1>2, <1>3 DEF IInv, Rest
<1>5. ASSUME request' = request, \E d : Moves(q, i, d) /\ d.pc = "row"
      PROVE  OneStep(q, i)
  <2>1. PICK d : Moves(q, i, d) /\ d.pc = "row"
    BY <1>5
  <2>2. CalmCall(q, i) => Calm(d, i, active, live, age[i])
    BY <1>1, <2>1 DEF CalmCall, Calm, Held
  <2> QED BY <1>1, <1>4, <1>5, <2>1, <2>2 DEF OneStep, Goes, Still
<1>6. ASSUME c.retried, Fail(q, i), Moves(q, i, [Idle EXCEPT !.pc = "failed"])
      PROVE  OneStep(q, i)
  <2>1. ~CalmCall(q, i)
    BY <1>1, <1>6 DEF CalmCall, Calm, Held
  <2> QED BY <1>1, <1>4, <1>6, <2>1 DEF OneStep, Breaks, Still
<1> QED BY <1>3, <1>5, <1>6

LEMMA MintUnauthorizedStep ==
  ASSUME IInv, NEW q \in Requests, NEW i \in Installations, MintUnauthorized(q, i)
  PROVE  OneStep(q, i)
<1>1. /\ call[q][i].pc = "mint" /\ Unauthorized(q, i) /\ Disturb
      /\ active' = active /\ live' = live /\ wanted' = wanted
  BY DEF MintUnauthorized
<1>2. age' \in [Installations -> [Tokens -> Ages]]
  BY ForgetFacts DEF MintUnauthorized, IInv, Rest
<1>3. disturbed' \in [Requests -> BOOLEAN]
  BY <1>1, DisturbFacts DEF IInv, Rest
<1>4. /\ tokenCache' \in [Installations -> Tokens \cup {NoToken}]
      /\ request' \in [Requests -> Requesting \cup {"ended", "failed"}]
      /\ \/ request' = request /\ \E d : Moves(q, i, d)
         \/ Fail(q, i) /\ Moves(q, i, [Idle EXCEPT !.pc = "failed"])
  BY <1>1, UnauthorizedMoves
<1>5. Rest'
  BY <1>1, <1>2, <1>3, <1>4 DEF IInv, Rest
<1> QED BY <1>1, <1>4, <1>5 DEF OneStep, Shakes

LEMMA RequestFailsStep ==
  ASSUME IInv, NEW q \in Requests, NEW i \in Installations, RequestFails(q, i)
  PROVE  OneStep(q, i)
<1>1. /\ call[q][i].pc \in Waiting /\ Fail(q, i) /\ Disturb
      /\ active' = active /\ live' = live /\ wanted' = wanted /\ tokenCache' = tokenCache
  BY DEF RequestFails, Waiting
<1>2. age' \in [Installations -> [Tokens -> Ages]]
  BY ForgetFacts DEF RequestFails, IInv, Rest
<1>3. disturbed' \in [Requests -> BOOLEAN]
  BY <1>1, DisturbFacts DEF IInv, Rest
<1>4. /\ request' \in [Requests -> Requesting \cup {"ended", "failed"}]
      /\ Moves(q, i, [Idle EXCEPT !.pc = "failed"])
  BY <1>1, FailMoves
<1>5. Rest'
  BY <1>1, <1>2, <1>3, <1>4 DEF IInv, Rest
<1> QED BY <1>1, <1>4, <1>5 DEF OneStep, Shakes

LEMMA SucceedStep ==
  ASSUME IInv, NEW q \in Requests, NEW i \in Installations, Succeed(q, i)
  PROVE  OneStep(q, i)
<1> DEFINE c == call[q][i]
           d == IF FullPage(c.page, i) THEN NewCall(c.page + 1, tokenCache, i)
                                       ELSE [Idle EXCEPT !.pc = "ok"]
<1>1. /\ c.pc = "request"
      /\ \/ request[q] = "operate" /\ End(q)
         \/ Update(q, i, d) /\ UNCHANGED <<request, wanted, disturbed>>
      /\ active' = active /\ live' = live /\ tokenCache' = tokenCache
  BY DEF Succeed
<1>2. age' \in [Installations -> [Tokens -> Ages]]
  BY ForgetFacts DEF Succeed, IInv, Rest
<1>3. CASE request[q] = "operate" /\ End(q)
  <2>1. Rest'
    BY <1>1, <1>2, <1>3, EndFacts DEF IInv, Rest
  <2> QED BY <1>1, <1>3, <2>1 DEF OneStep, Still
<1>4. CASE Update(q, i, d) /\ UNCHANGED <<request, wanted, disturbed>>
  <2>1. CallOK(c, i) /\ c.pc \in Waiting
    BY <1>1 DEF IInv, CallsOK, Waiting
  <2>2. c.page \in 1..Pages(i) /\ c.page \in Nat /\ Pages(i) \in Nat
    BY <2>1, PagesType DEF CallOK, Within
  <2>3. /\ CallOK(d, i) /\ Left(d, i) < Left(c, i)
        /\ (d.pc \in {"row", "request"} /\ ~d.retried) \/ d.pc = "ok"
    <3>1. CASE FullPage(c.page, i)
      <4>1. c.page + 1 \in 1..Pages(i)
        BY <2>2, <3>1, NextPageExists
      <4>2. tokenCache \in [Installations -> Tokens \cup {NoToken}]
        BY DEF IInv, Rest
      <4>3. d = NewCall(c.page + 1, tokenCache, i)
        BY <3>1
      <4> HIDE DEF c, d
      <4>4. /\ CallOK(d, i) /\ d.pc \in {"row", "request"} /\ d.page = c.page + 1
            /\ ~d.retried
        BY <4>1, <4>2, <4>3, NewCallFacts
      <4>5. d.pc \in Waiting
        BY <4>4 DEF Waiting
      <4> QED BY <2>1, <4>4, <4>5, LeftOfNextPage
    <3>2. CASE ~FullPage(c.page, i)
      <4>1. d = [Idle EXCEPT !.pc = "ok"]
        BY <3>2
      <4> HIDE DEF c, d
      <4>2. CallOK(d, i) /\ d.pc = "ok"
        BY <4>1, OverFacts
      <4> QED BY <2>1, <4>2, LeftOfOver DEF Waiting
    <3> QED BY <3>1, <3>2
  <2> HIDE DEF d
  <2>4. CalmCall(q, i) => Calm(d, i, active, live, age[i])
    <3>1. ASSUME CalmCall(q, i) PROVE i \in active /\ i \in live
      BY <1>1, <3>1 DEF CalmCall, Calm
    <3>2. ~(d.retried /\ Held(d))
      BY <2>3 DEF Held
    <3> QED BY <3>1, <3>2 DEF Calm
  <2>5. Rest'
    BY <1>1, <1>2, <1>4 DEF IInv, Rest
  <2> QED BY <1>1, <1>4, <2>3, <2>4, <2>5 DEF OneStep, Moves, Goes, Still
<1> QED BY <1>1, <1>3, <1>4

LEMMA StepKinds ==
  ASSUME IInv, FreshInv, NEW q \in Requests, NEW i \in Installations, Step(q, i)
  PROVE  OneStep(q, i) /\ (Forget \/ Mint(q, i))
<1>1. OneStep(q, i)
  BY CheckRowStep, MintStep, StoreStep, RefusedStep, MintUnauthorizedStep,
     RequestFailsStep, SucceedStep DEF Step
<1>2. Forget \/ Mint(q, i)
  BY DEF Step, CheckRow, Store, Refused, MintUnauthorized, RequestFails, Succeed
<1> QED BY <1>1, <1>2

----------------------------------------------------------------------------
(* Starting a request, and what follows its listing.                       *)

FirstCalls == [i \in Installations |->
                 IF i \in active THEN NewCall(1, tokenCache, i) ELSE Idle]

LEMMA StartFacts ==
  ASSUME IInv, NEW q \in Requests, Start(q)
  PROVE  /\ Rest' /\ Still /\ Forget
         /\ request[q] \notin Requesting /\ request'[q] = "list"
         /\ \A p \in Requests : p # q => request'[p] = request[p] /\ disturbed'[p] = disturbed[p]
         /\ ~disturbed'[q] => active \subseteq live
         /\ FirstCalls \in [Installations -> Call]
         /\ call' = [call EXCEPT ![q] = FirstCalls]
         /\ \A i \in Installations :
              /\ CallOK(FirstCalls[i], i)
              /\ i \notin active => FirstCalls[i].pc = "none"
              /\ ~FirstCalls[i].retried
<1>1. /\ tokenCache \in [Installations -> Tokens \cup {NoToken}]
      /\ request \in [Requests -> Requesting \cup {"ended", "failed"}]
      /\ wanted \in [Requests -> Repositories \cup {AnyRepository}]
      /\ disturbed \in [Requests -> BOOLEAN]
      /\ age \in [Installations -> [Tokens -> Ages]]
  BY DEF IInv, Rest
<1>2. \A i \in Installations : CallOK(FirstCalls[i], i) /\ ~FirstCalls[i].retried
                               /\ (i \notin active => FirstCalls[i].pc = "none")
  <2> SUFFICES ASSUME NEW i \in Installations
               PROVE  CallOK(FirstCalls[i], i) /\ ~FirstCalls[i].retried
                      /\ (i \notin active => FirstCalls[i].pc = "none")
    OBVIOUS
  <2>1. CASE i \in active
    <3>1. FirstCalls[i] = NewCall(1, tokenCache, i)
      BY <2>1 DEF FirstCalls
    <3>2. 1 \in 1..Pages(i)
      BY PagesType
    <3>3. CallOK(NewCall(1, tokenCache, i), i) /\ ~NewCall(1, tokenCache, i).retried
      BY <1>1, <3>2, NewCallFacts
    <3> QED BY <2>1, <3>1, <3>3, Zenon
  <2>2. CASE i \notin active
    <3>1. FirstCalls[i] = Idle
      BY <2>2 DEF FirstCalls
    <3> QED BY <3>1, IdleFacts
  <2> QED BY <2>1, <2>2
<1>3. FirstCalls \in [Installations -> Call]
  <2>1. \A i \in Installations : FirstCalls[i] \in Call
    BY <1>2 DEF CallOK
  <2>2. FirstCalls = [i \in Installations |-> FirstCalls[i]]
    BY DEF FirstCalls
  <2> QED BY <2>1, <2>2
<1>4. /\ request[q] \notin Requesting
      /\ request' = [request EXCEPT ![q] = "list"]
      /\ disturbed' = [disturbed EXCEPT ![q] = ~(active \subseteq live)]
      /\ active' = active /\ live' = live /\ tokenCache' = tokenCache /\ Forget
      /\ \E r \in Repositories \cup {AnyRepository} : wanted' = [wanted EXCEPT ![q] = r]
  BY DEF Start
<1>5. call' = [call EXCEPT ![q] = FirstCalls]
  BY DEF Start, FirstCalls
<1>6. /\ disturbed' \in [Requests -> BOOLEAN]
      /\ disturbed'[q] = ~(active \subseteq live)
      /\ \A p \in Requests : p # q => disturbed'[p] = disturbed[p]
  <2> DEFINE b == ~(active \subseteq live)
  <2>1. disturbed' = [disturbed EXCEPT ![q] = b] /\ b \in BOOLEAN
    BY <1>4
  <2> HIDE DEF b
  <2>2. /\ disturbed' \in [Requests -> BOOLEAN] /\ disturbed'[q] = b
        /\ \A p \in Requests : p # q => disturbed'[p] = disturbed[p]
    BY <1>1, <2>1
  <2> QED BY <2>2 DEF b
<1>7. /\ request' \in [Requests -> Requesting \cup {"ended", "failed"}]
      /\ request'[q] = "list"
      /\ \A p \in Requests : p # q => request'[p] = request[p]
  BY <1>1, <1>4 DEF Requesting
<1>8. wanted' \in [Requests -> Repositories \cup {AnyRepository}]
  BY <1>1, <1>4
<1>9. age' \in [Installations -> [Tokens -> Ages]]
  BY <1>1, <1>4, ForgetFacts
<1>10. Rest'
  BY <1>4, <1>6, <1>7, <1>8, <1>9 DEF IInv, Rest
<1> QED BY <1>2, <1>3, <1>4, <1>5, <1>6, <1>7, <1>10 DEF Still

LEMMA ListedFacts ==
  ASSUME IInv, NEW q \in Requests, Listed(q)
  PROVE  /\ Rest' /\ Still /\ Forget /\ request[q] = "list"
         /\ \/ End(q)
            \/ \E i \in Installations : \E c :
                 /\ Update(q, i, c) /\ CallOK(c, i) /\ ~c.retried
                 /\ call[q][i].pc # "none"
                 /\ disturbed' = disturbed /\ request'[q] = "operate"
                 /\ \A p \in Requests : p # q => request'[p] = request[p]
<1>1. /\ tokenCache \in [Installations -> Tokens \cup {NoToken}]
      /\ request \in [Requests -> Requesting \cup {"ended", "failed"}]
      /\ age \in [Installations -> [Tokens -> Ages]]
  BY DEF IInv, Rest
<1>2. /\ request[q] = "list"
      /\ active' = active /\ live' = live /\ tokenCache' = tokenCache /\ Forget
      /\ \/ End(q)
         \/ \E i \in Installations :
              /\ call[q][i].pc # "none"
              /\ request' = [request EXCEPT ![q] = "operate"]
              /\ Update(q, i, NewCall(1, tokenCache, i))
              /\ wanted' = wanted /\ disturbed' = disturbed
  BY DEF Listed
<1>3. age' \in [Installations -> [Tokens -> Ages]]
  BY <1>1, <1>2, ForgetFacts
<1>4. CASE End(q)
  <2>1. Rest'
    BY <1>2, <1>3, <1>4, EndFacts DEF IInv, Rest
  <2> QED BY <1>2, <1>4, <2>1 DEF Still
<1>5. CASE \E i \in Installations :
              /\ call[q][i].pc # "none"
              /\ request' = [request EXCEPT ![q] = "operate"]
              /\ Update(q, i, NewCall(1, tokenCache, i))
              /\ wanted' = wanted /\ disturbed' = disturbed
  <2>1. PICK i \in Installations :
              /\ call[q][i].pc # "none"
              /\ request' = [request EXCEPT ![q] = "operate"]
              /\ Update(q, i, NewCall(1, tokenCache, i))
              /\ wanted' = wanted /\ disturbed' = disturbed
    BY <1>5
  <2>2. 1 \in 1..Pages(i)
    BY PagesType
  <2>3. CallOK(NewCall(1, tokenCache, i), i) /\ ~NewCall(1, tokenCache, i).retried
    BY <1>1, <2>2, NewCallFacts
  <2>4. /\ request' \in [Requests -> Requesting \cup {"ended", "failed"}]
        /\ request'[q] = "operate"
        /\ \A p \in Requests : p # q => request'[p] = request[p]
    BY <1>1, <2>1 DEF Requesting
  <2>5. Rest'
    BY <1>2, <1>3, <2>1, <2>4 DEF IInv, Rest
  <2> QED BY <1>2, <2>1, <2>3, <2>4, <2>5 DEF Still
<1> QED BY <1>2, <1>4, <1>5

----------------------------------------------------------------------------
(* The invariant of the calls.                                             *)

LEMMA InitInv == Init => IInv /\ FreshInv
<1> SUFFICES ASSUME Init PROVE IInv /\ FreshInv
  OBVIOUS
<1>1. Rest
  BY DEF Init, Rest, Ages
<1>2. CallTypes /\ CallsOK
  BY IdleFacts DEF Init, CallTypes, CallsOK
<1>3. FreshInv
  BY DEF Init, FreshInv
<1> QED BY <1>1, <1>2, <1>3 DEF IInv

\* What is outside the service leaves the calls alone.
LEMMA OutsideFacts ==
  ASSUME IInv, NEW i \in Installations, Outside(i)
  PROVE  /\ IInv' /\ call' = call /\ request' = request /\ tokenCache' = tokenCache
         /\ \/ Disturb
            \/ Still /\ disturbed' = disturbed
               /\ \E t \in Tokens : age' = [age EXCEPT ![i][t] = "closing"]
         /\ age' = age \/ \E t \in InUse(i), a \in Ages : age' = [age EXCEPT ![i][t] = a]
<1>1. /\ call' = call /\ request' = request /\ tokenCache' = tokenCache /\ wanted' = wanted
      /\ \/ Disturb
         \/ Still /\ disturbed' = disturbed
            /\ \E t \in Tokens : age' = [age EXCEPT ![i][t] = "closing"]
  BY DEF Outside, Expire, Revoke, Switch, tokenVars, Still
<1>2. age' = age \/ \E t \in InUse(i), a \in Ages : age' = [age EXCEPT ![i][t] = a]
  BY DEF Outside, Expire, Revoke, Switch, tokenVars, Ages
<1>3. /\ active' \subseteq Installations /\ live' \subseteq Installations
  BY DEF Outside, Expire, Revoke, Switch, SymDiff, IInv, Rest
<1>4. disturbed' \in [Requests -> BOOLEAN]
  BY <1>1, DisturbFacts DEF IInv, Rest
<1>5. age' \in [Installations -> [Tokens -> Ages]]
  <2>1. age \in [Installations -> [Tokens -> Ages]]
    BY DEF IInv, Rest
  <2>2. ASSUME NEW t, NEW a \in Ages, age' = [age EXCEPT ![i][t] = a]
        PROVE  age' \in [Installations -> [Tokens -> Ages]]
    <3>1. [age[i] EXCEPT ![t] = a] \in [Tokens -> Ages]
      BY <2>1
    <3>2. age' = [age EXCEPT ![i] = [age[i] EXCEPT ![t] = a]]
      BY <2>2
    <3> QED BY <2>1, <3>1, <3>2
  <2> QED BY <1>2, <2>1, <2>2
<1>6. Rest'
  BY <1>1, <1>3, <1>4, <1>5 DEF IInv, Rest
<1>7. CallTypes' /\ CallsOK'
  <2>1. CallTypes'
    BY <1>1 DEF IInv, CallTypes
  <2>2. CallsOK'
    BY <1>1 DEF IInv, CallsOK
  <2> QED BY <2>1, <2>2
<1> QED BY <1>1, <1>2, <1>6, <1>7 DEF IInv

LEMMA NextInv ==
  ASSUME IInv, FreshInv, [Next]_vars
  PROVE  IInv'
<1>1. ASSUME NEW q \in Requests, Start(q) PROVE IInv'
  BY <1>1, StartFacts, RowOK
<1>2. ASSUME NEW q \in Requests, Listed(q) PROVE IInv'
  <2>1. CASE End(q)
    BY <1>2, <2>1, ListedFacts, EndFacts, RowOK
  <2>2. CASE \E i \in Installations : \E c : Update(q, i, c) /\ CallOK(c, i)
    BY <1>2, <2>2, ListedFacts, UpdateOK
  <2> QED BY <1>2, <2>1, <2>2, ListedFacts
<1>3. ASSUME NEW q \in Requests, NEW i \in Installations, Step(q, i) PROVE IInv'
  <2>1. OneStep(q, i)
    BY <1>3, StepKinds
  <2>2. CASE End(q)
    BY <2>1, <2>2, EndFacts, RowOK DEF OneStep
  <2>3. CASE \E c : Moves(q, i, c)
    <3>1. PICK c : Moves(q, i, c)
      BY <2>3
    <3> QED BY <2>1, <3>1, UpdateOK DEF OneStep, Moves
  <2> QED BY <2>1, <2>2, <2>3 DEF OneStep
<1>4. ASSUME NEW i \in Installations, Outside(i) PROVE IInv'
  BY <1>4, OutsideFacts
<1>5. CASE UNCHANGED vars
  <2>1. Rest'
    BY <1>5 DEF IInv, Rest, vars
  <2>2. CallTypes'
    BY <1>5 DEF IInv, CallTypes, vars
  <2>3. CallsOK'
    BY <1>5 DEF IInv, CallsOK, vars
  <2> QED BY <2>1, <2>2, <2>3 DEF IInv
<1> QED BY <1>1, <1>2, <1>3, <1>4, <1>5 DEF Next

LEMMA NextFresh ==
  ASSUME IInv, FreshInv, IInv', [Next]_vars
  PROVE  FreshInv'
<1>1. ASSUME Forget PROVE FreshInv'
  BY <1>1, ForgetFacts DEF FreshInv, IInv, Rest
<1>2. ASSUME age' = age, \A i \in Installations : InUse(i) \subseteq InUse(i)' PROVE FreshInv'
  BY <1>2 DEF FreshInv
<1>3. ASSUME NEW q \in Requests, NEW i \in Installations, Step(q, i) PROVE FreshInv'
  <2>1. CASE Mint(q, i)
    <3> DEFINE c == call[q][i]
               d == [call[q][i] EXCEPT !.pc = "store", !.token = NewToken(i)]
    <3>1. /\ Update(q, i, d) /\ age' = age /\ tokenCache' = tokenCache
          /\ c.pc = "mint"
      BY <2>1 DEF Mint, tokenVars
    <3>2. c.token = NoToken
      BY <3>1 DEF IInv, CallsOK, CallOK, Held
    <3>3. \A p \in Requests, j \in Installations :
            call'[p][j].token = call[p][j].token \/ call[p][j].token = NoToken
      <4> HIDE DEF d
      <4>1. \A p \in Requests, j \in Installations :
              p # q \/ j # i => call'[p][j] = call[p][j]
        BY <3>1 DEF Update, IInv, CallTypes
      <4> QED BY <3>2, <4>1
    <3>4. \A j \in Installations : InUse(j) \subseteq InUse(j)'
      BY <3>1, <3>3, Zenon DEF InUse
    <3> QED BY <1>2, <3>1, <3>4
  <2> QED BY <1>1, <1>3, <2>1, StepKinds
<1>4. ASSUME NEW q \in Requests, Start(q) \/ Listed(q) PROVE FreshInv'
  BY <1>1, <1>4 DEF Start, Listed
<1>5. ASSUME NEW i \in Installations, Outside(i) PROVE FreshInv'
  <2>1. /\ call' = call /\ tokenCache' = tokenCache
        /\ age' = age \/ \E t \in InUse(i), a \in Ages : age' = [age EXCEPT ![i][t] = a]
    BY <1>5, OutsideFacts
  <2>2. \A j \in Installations : InUse(j)' = InUse(j)
    BY <2>1 DEF InUse
  <2>3. \A j \in Installations, u \in Tokens : u \notin InUse(j) => age'[j][u] = age[j][u]
    BY <2>1 DEF IInv, Rest
  <2> QED BY <2>2, <2>3 DEF FreshInv
<1>6. CASE UNCHANGED vars
  <2>1. age' = age /\ \A i \in Installations : InUse(i)' = InUse(i)
    BY <1>6 DEF vars, InUse
  <2> QED BY <1>2, <2>1
<1> QED BY <1>3, <1>4, <1>5, <1>6 DEF Next

----------------------------------------------------------------------------
(* Requests that nothing disturbed.                                        *)

CalmInv ==
  \A q \in Requests : request[q] \in Requesting /\ ~disturbed[q] =>
    \A i \in Installations : CalmCall(q, i)

\* A token that a call holds keeps its age while the service steps.
LEMMA KeptAges ==
  ASSUME IInv, IInv', Forget \/ age' = age, NEW p \in Requests, NEW j \in Installations,
         call'[p][j].token # NoToken
  PROVE  age'[j][call'[p][j].token] = age[j][call'[p][j].token]
<1> DEFINE t == call'[p][j].token
<1>1. t \in InUse(j)'
  BY DEF InUse
<1>2. t \in Tokens
  <2>1. call'[p][j] \in Call
    BY DEF IInv, CallTypes
  <2> QED BY <2>1 DEF Call
<1>3. CASE Forget
  <2>1. age'[j][t] = IF t \in InUse(j)' THEN age[j][t] ELSE "fresh"
    BY <1>2, <1>3, ForgetFacts DEF IInv, Rest
  <2> QED BY <1>1, <2>1
<1> QED BY <1>3

\* So the calls that do not change stay calm, and the one that does is calm
\* if it was calm under the ages before the step.
LEMMA CalmKept ==
  ASSUME IInv, IInv', Still, Forget \/ age' = age,
         NEW p \in Requests, NEW j \in Installations,
         Calm(call'[p][j], j, active, live, age[j])
  PROVE  CalmCall(p, j)'
<1> DEFINE c == call'[p][j]
<1>1. CallOK(c, j)
  BY DEF IInv, CallsOK
<1>2. Held(c) => age'[j][c.token] = age[j][c.token]
  BY <1>1, KeptAges DEF CallOK
<1> HIDE DEF c
<1>3. Calm(c, j, active, live, age[j])
  BY DEF c
<1>4. Calm(c, j, active', live', age'[j])
  BY <1>2, <1>3 DEF Calm, Still
<1> QED BY <1>4 DEF CalmCall, c

\* Nothing is undisturbed after a step that disturbs every running request.
LEMMA ShakenAll ==
  ASSUME IInv, UndisturbedRequestSucceeds, Disturb,
         \A q \in Requests : \/ request'[q] = request[q]
                             \/ request[q] \in Requesting /\ request'[q] = "failed"
  PROVE  CalmInv' /\ UndisturbedRequestSucceeds'
<1>1. \A q \in Requests : disturbed'[q] <=> disturbed[q] \/ request[q] \in Requesting
  BY DisturbFacts DEF IInv, Rest
<1>2. \A q \in Requests : request'[q] \in Requesting => request[q] \in Requesting
  BY DEF Requesting
<1>3. CalmInv'
  BY <1>1, <1>2 DEF CalmInv
<1>4. UndisturbedRequestSucceeds'
  BY <1>1 DEF UndisturbedRequestSucceeds
<1> QED BY <1>3, <1>4

LEMMA StepCalm ==
  ASSUME IInv, IInv', FreshInv, CalmInv, UndisturbedRequestSucceeds,
         NEW q \in Requests, NEW i \in Installations, Step(q, i)
  PROVE  CalmInv' /\ UndisturbedRequestSucceeds'
<1>1. OneStep(q, i) /\ (Forget \/ age' = age)
  BY StepKinds DEF Mint, tokenVars
<1>2. CASE Still /\ request[q] = "operate" /\ End(q)
  <2>1. /\ request'[q] = "ended"
        /\ \A p \in Requests : p # q => request'[p] = request[p] /\ disturbed'[p] = disturbed[p]
        /\ \A p \in Requests : p # q => call'[p] = call[p]
    BY <1>2, EndFacts, RowFacts DEF IInv
  <2>2. CalmInv'
    <3> SUFFICES ASSUME NEW p \in Requests, request'[p] \in Requesting, ~disturbed'[p],
                        NEW j \in Installations
                 PROVE  CalmCall(p, j)'
      BY DEF CalmInv
    <3>1. p # q
      BY <2>1 DEF Requesting
    <3>2. call'[p] = call[p] /\ CalmCall(p, j)
      BY <2>1, <3>1 DEF CalmInv
    <3>3. Calm(call'[p][j], j, active, live, age[j])
      BY <3>2 DEF CalmCall
    <3> QED BY <1>1, <1>2, <3>3, CalmKept
  <2>3. UndisturbedRequestSucceeds'
    BY <2>1 DEF UndisturbedRequestSucceeds
  <2> QED BY <2>2, <2>3
<1>3. ASSUME NEW c, Moves(q, i, c), Goes(q, i, c) PROVE CalmInv' /\ UndisturbedRequestSucceeds'
  <2>1. /\ Still /\ disturbed' = disturbed /\ request' = request
        /\ CalmCall(q, i) => Calm(c, i, active, live, age[i])
    BY <1>3 DEF Goes
  <2>2. /\ call'[q][i] = c
        /\ \A p \in Requests, j \in Installations :
             p # q \/ j # i => call'[p][j] = call[p][j]
    BY <1>3, UpdateFacts DEF Moves, CallOK, IInv
  <2>3. CalmInv'
    <3> SUFFICES ASSUME NEW p \in Requests, request'[p] \in Requesting, ~disturbed'[p],
                        NEW j \in Installations
                 PROVE  CalmCall(p, j)'
      BY DEF CalmInv
    <3>1. CalmCall(p, j)
      BY <2>1 DEF CalmInv
    <3>2. Calm(call'[p][j], j, active, live, age[j])
      <4>1. CASE p = q /\ j = i
        BY <2>1, <2>2, <3>1, <4>1
      <4>2. CASE p # q \/ j # i
        BY <2>2, <3>1, <4>2 DEF CalmCall
      <4> QED BY <4>1, <4>2
    <3> QED BY <1>1, <2>1, <3>2, CalmKept
  <2>4. UndisturbedRequestSucceeds'
    BY <2>1 DEF UndisturbedRequestSucceeds
  <2> QED BY <2>3, <2>4
<1>4. ASSUME NEW c, Moves(q, i, c), Breaks(q, i) PROVE CalmInv' /\ UndisturbedRequestSucceeds'
  <2>1. Still /\ disturbed' = disturbed /\ Fail(q, i) /\ ~CalmCall(q, i)
    BY <1>4 DEF Breaks
  <2>2. /\ request'[q] = IF request[q] \in Requesting THEN "failed" ELSE request[q]
        /\ \A p \in Requests : p # q => request'[p] = request[p]
    BY <2>1, FailFacts
  <2>3. request[q] \in Requesting => disturbed[q]
    BY <2>1 DEF CalmInv
  <2>4. \A p \in Requests, j \in Installations : p # q => call'[p][j] = call[p][j]
    BY <1>4, UpdateFacts DEF Moves, CallOK, IInv
  <2>5. CalmInv'
    <3> SUFFICES ASSUME NEW p \in Requests, request'[p] \in Requesting, ~disturbed'[p],
                        NEW j \in Installations
                 PROVE  CalmCall(p, j)'
      BY DEF CalmInv
    <3>1. p # q
      BY <2>2 DEF Requesting
    <3>2. CalmCall(p, j) /\ call'[p][j] = call[p][j]
      BY <2>1, <2>2, <2>4, <3>1 DEF CalmInv
    <3>3. Calm(call'[p][j], j, active, live, age[j])
      BY <3>2 DEF CalmCall
    <3> QED BY <1>1, <2>1, <3>3, CalmKept
  <2>6. UndisturbedRequestSucceeds'
    BY <2>1, <2>2, <2>3 DEF UndisturbedRequestSucceeds
  <2> QED BY <2>5, <2>6
<1>5. ASSUME Shakes(q, i) PROVE CalmInv' /\ UndisturbedRequestSucceeds'
  <2>1. \A p \in Requests : \/ request'[p] = request[p]
                            \/ request[p] \in Requesting /\ request'[p] = "failed"
    BY <1>5, FailFacts DEF Shakes
  <2> QED BY <1>5, <2>1, ShakenAll DEF Shakes
<1> QED BY <1>1, <1>2, <1>3, <1>4, <1>5 DEF OneStep

LEMMA RequestCalm ==
  ASSUME IInv, IInv', CalmInv, UndisturbedRequestSucceeds, NEW q \in Requests,
         Start(q) \/ Listed(q)
  PROVE  CalmInv' /\ UndisturbedRequestSucceeds'
<1>1. CASE Start(q)
  <2>1. /\ Still /\ Forget /\ request'[q] = "list"
        /\ \A p \in Requests : p # q => request'[p] = request[p] /\ disturbed'[p] = disturbed[p]
        /\ ~disturbed'[q] => active \subseteq live
        /\ FirstCalls \in [Installations -> Call]
        /\ call' = [call EXCEPT ![q] = FirstCalls]
        /\ \A i \in Installations : /\ i \notin active => FirstCalls[i].pc = "none"
                                    /\ ~FirstCalls[i].retried
    BY <1>1, StartFacts
  <2>2. call'[q] = FirstCalls /\ \A p \in Requests : p # q => call'[p] = call[p]
    BY <2>1, RowFacts DEF IInv
  <2>3. CalmInv'
    <3> SUFFICES ASSUME NEW p \in Requests, request'[p] \in Requesting, ~disturbed'[p],
                        NEW j \in Installations
                 PROVE  Calm(call'[p][j], j, active, live, age[j])
      BY <2>1, CalmKept DEF CalmInv
    <3>1. CASE p = q
      <4>1. /\ j \notin active => call'[p][j].pc = "none"
            /\ ~call'[p][j].retried /\ active \subseteq live
        BY <2>1, <2>2, <3>1
      <4> QED BY <4>1 DEF Calm
    <3>2. CASE p # q
      <4>1. CalmCall(p, j) /\ call'[p][j] = call[p][j]
        BY <2>1, <2>2, <3>2 DEF CalmInv
      <4> QED BY <4>1 DEF CalmCall
    <3> QED BY <3>1, <3>2
  <2>4. UndisturbedRequestSucceeds'
    BY <2>1 DEF UndisturbedRequestSucceeds
  <2> QED BY <2>3, <2>4
<1>2. CASE Listed(q)
  <2>1. Still /\ Forget /\ request[q] = "list"
    BY <1>2, ListedFacts
  <2>2. CASE End(q)
    <3>1. /\ request'[q] = "ended"
          /\ \A p \in Requests : p # q => request'[p] = request[p] /\ disturbed'[p] = disturbed[p]
          /\ \A p \in Requests : p # q => call'[p] = call[p]
      BY <2>2, EndFacts, RowFacts DEF IInv
    <3>2. CalmInv'
      <4> SUFFICES ASSUME NEW p \in Requests, request'[p] \in Requesting, ~disturbed'[p],
                          NEW j \in Installations
                   PROVE  Calm(call'[p][j], j, active, live, age[j])
        BY <2>1, CalmKept DEF CalmInv
      <4>1. p # q
        BY <3>1 DEF Requesting
      <4>2. call'[p] = call[p] /\ CalmCall(p, j)
        BY <3>1, <4>1 DEF CalmInv
      <4> QED BY <4>2 DEF CalmCall
    <3>3. UndisturbedRequestSucceeds'
      BY <3>1 DEF UndisturbedRequestSucceeds
    <3> QED BY <3>2, <3>3
  <2>3. ASSUME NEW i \in Installations, NEW c, Update(q, i, c), CallOK(c, i), ~c.retried,
               call[q][i].pc # "none", disturbed' = disturbed, request'[q] = "operate",
               \A p \in Requests : p # q => request'[p] = request[p]
        PROVE  CalmInv' /\ UndisturbedRequestSucceeds'
    <3>1. /\ call'[q][i] = c
          /\ \A p \in Requests, j \in Installations :
               p # q \/ j # i => call'[p][j] = call[p][j]
      BY <2>3, UpdateFacts DEF CallOK, IInv
    <3>2. CalmInv'
      <4> SUFFICES ASSUME NEW p \in Requests, request'[p] \in Requesting, ~disturbed'[p],
                          NEW j \in Installations
                   PROVE  Calm(call'[p][j], j, active, live, age[j])
        BY <2>1, CalmKept DEF CalmInv
      <4>1. CalmCall(p, j)
        BY <2>1, <2>3 DEF CalmInv, Requesting
      <4>2. CASE p = q /\ j = i
        BY <2>3, <3>1, <4>1, <4>2 DEF CalmCall, Calm
      <4>3. CASE p # q \/ j # i
        BY <3>1, <4>1, <4>3 DEF CalmCall
      <4> QED BY <4>2, <4>3
    <3>3. UndisturbedRequestSucceeds'
      BY <2>3 DEF UndisturbedRequestSucceeds
    <3> QED BY <3>2, <3>3
  <2> QED BY <1>2, <2>2, <2>3, ListedFacts
<1> QED BY <1>1, <1>2

LEMMA OutsideCalm ==
  ASSUME IInv, IInv', CalmInv, UndisturbedRequestSucceeds, NEW i \in Installations,
         Outside(i)
  PROVE  CalmInv' /\ UndisturbedRequestSucceeds'
<1>1. /\ call' = call /\ request' = request
      /\ \/ Disturb
         \/ Still /\ disturbed' = disturbed
            /\ \E t \in Tokens : age' = [age EXCEPT ![i][t] = "closing"]
  BY OutsideFacts
<1>2. CASE Disturb
  BY <1>1, <1>2, ShakenAll
<1>3. CASE Still /\ disturbed' = disturbed
           /\ \E t \in Tokens : age' = [age EXCEPT ![i][t] = "closing"]
  <2>1. \A j \in Installations, u \in Tokens :
          age'[j][u] \in Dead => age[j][u] \in Dead
    BY <1>3 DEF IInv, Rest, Dead
  <2>2. CalmInv'
    <3> SUFFICES ASSUME NEW p \in Requests, request'[p] \in Requesting, ~disturbed'[p],
                        NEW j \in Installations
                 PROVE  CalmCall(p, j)'
      BY DEF CalmInv
    <3>1. CalmCall(p, j)
      BY <1>1, <1>3 DEF CalmInv
    <3>2. call[p][j] \in Call /\ CallOK(call[p][j], j)
      BY DEF IInv, CallTypes, CallsOK
    <3>3. Held(call[p][j]) => call[p][j].token \in Tokens
      BY <3>2 DEF CallOK, Call
    <3> QED BY <1>1, <1>3, <2>1, <3>1, <3>3 DEF CalmCall, Calm, Still
  <2>3. UndisturbedRequestSucceeds'
    BY <1>1, <1>3 DEF UndisturbedRequestSucceeds
  <2> QED BY <2>2, <2>3
<1> QED BY <1>1, <1>2, <1>3

----------------------------------------------------------------------------
(* The theorems.                                                           *)

TokenInv == IInv /\ FreshInv /\ CalmInv /\ UndisturbedRequestSucceeds

LEMMA InitToken == Init => TokenInv
<1> SUFFICES ASSUME Init PROVE TokenInv
  OBVIOUS
<1>1. \A q \in Requests : request[q] = "ended"
  BY DEF Init
<1>2. CalmInv /\ UndisturbedRequestSucceeds
  BY <1>1 DEF CalmInv, UndisturbedRequestSucceeds, Requesting
<1> QED BY <1>2, InitInv DEF TokenInv

LEMMA NextToken == TokenInv /\ [Next]_vars => TokenInv'
<1> SUFFICES ASSUME TokenInv, [Next]_vars PROVE TokenInv'
  OBVIOUS
<1>1. IInv' /\ FreshInv'
  BY NextInv, NextFresh DEF TokenInv
<1>2. CalmInv' /\ UndisturbedRequestSucceeds'
  <2>1. ASSUME NEW q \in Requests, Start(q) \/ Listed(q)
        PROVE  CalmInv' /\ UndisturbedRequestSucceeds'
    BY <1>1, <2>1, RequestCalm DEF TokenInv
  <2>2. ASSUME NEW q \in Requests, NEW i \in Installations, Step(q, i)
        PROVE  CalmInv' /\ UndisturbedRequestSucceeds'
    BY <1>1, <2>2, StepCalm DEF TokenInv
  <2>3. ASSUME NEW i \in Installations, Outside(i)
        PROVE  CalmInv' /\ UndisturbedRequestSucceeds'
    BY <1>1, <2>3, OutsideCalm DEF TokenInv
  <2>4. CASE UNCHANGED vars
    BY <2>4 DEF vars, TokenInv, CalmInv, CalmCall, UndisturbedRequestSucceeds
  <2> QED BY <2>1, <2>2, <2>3, <2>4 DEF Next
<1> QED BY <1>1, <1>2 DEF TokenInv

LEMMA SpecToken == Spec => []TokenInv
BY InitToken, NextToken, PTL DEF Spec

\* Type correctness of the token cache: the variables keep their types, and a
\* call holds a token exactly when it has one to store or to present.
THEOREM TokenTypeCorrect == Spec => []TypeOK
<1>1. TokenInv => TypeOK
  <2> SUFFICES ASSUME TokenInv PROVE TypeOK
    OBVIOUS
  <2>1. \A q \in Requests, i \in Installations :
          call[q][i].pc \in {"store", "request"} <=> call[q][i].token # NoToken
    BY DEF TokenInv, IInv, CallsOK, CallOK, Held
  <2> QED BY <2>1 DEF TokenInv, IInv, Rest, CallTypes, TypeOK
<1> QED BY <1>1, SpecToken, PTL

\* A call of executeWithRetry that was refused never presents the same token
\* again, whatever the other calls leave in the shared cache meanwhile.
THEOREM RetriesUseAnotherToken == Spec => []RetryUsesAnotherToken
<1>1. TokenInv => RetryUsesAnotherToken
  BY DEF TokenInv, IInv, CallsOK, CallOK, Anew, RetryUsesAnotherToken
<1> QED BY <1>1, SpecToken, PTL

\* A request fails only if GitHub or the installation rows disturbed it while
\* it ran: a dead token left in the cache costs it a second try at most.
THEOREM UndisturbedRequestsSucceed == Spec => []UndisturbedRequestSucceeds
<1>1. TokenInv => UndisturbedRequestSucceeds
  BY DEF TokenInv
<1> QED BY <1>1, SpecToken, PTL

\* What RequestProgresses says of a step.
Progress ==
  \A q \in Requests : request[q] \in Requesting =>
    /\ request'[q] = "list" => request[q] = "list"
    /\ request'[q] = request[q] =>
         \A i \in Installations :
           call'[q][i] # call[q][i] => Left(call'[q][i], i) < Left(call[q][i], i)

LEMMA StepProgress ==
  ASSUME IInv, FreshInv, NEW q \in Requests, NEW i \in Installations, Step(q, i)
  PROVE  Progress
<1>1. OneStep(q, i)
  BY StepKinds
<1>2. CASE request[q] = "operate" /\ End(q)
  <2>1. /\ request'[q] = "ended"
        /\ \A p \in Requests : p # q => request'[p] = request[p] /\ call'[p] = call[p]
    BY <1>2, EndFacts, RowFacts DEF IInv
  <2> QED BY <1>2, <2>1 DEF Progress
<1>3. CASE \E c : Moves(q, i, c) /\ (request' = request \/ Fail(q, i))
  <2>1. PICK c : Moves(q, i, c) /\ (request' = request \/ Fail(q, i))
    BY <1>3
  <2>2. /\ call'[q][i] = c /\ Left(c, i) < Left(call[q][i], i)
        /\ \A p \in Requests, j \in Installations :
             p # q \/ j # i => call'[p][j] = call[p][j]
    BY <2>1, UpdateFacts DEF Moves, CallOK, IInv
  <2>3. \A p \in Requests : request'[p] = request[p] \/ request'[p] = "failed"
    BY <2>1, FailFacts
  <2> QED BY <2>2, <2>3 DEF Progress
<1> QED BY <1>1, <1>2, <1>3 DEF OneStep, Goes, Breaks, Shakes

LEMMA RequestProgress ==
  ASSUME IInv, NEW q \in Requests, Start(q) \/ Listed(q)
  PROVE  Progress
<1>1. CASE Start(q)
  <2>1. /\ request[q] \notin Requesting
        /\ \A p \in Requests : p # q => request'[p] = request[p] /\ call'[p] = call[p]
    BY <1>1, StartFacts, RowFacts DEF IInv
  <2> QED BY <2>1 DEF Progress
<1>2. CASE Listed(q)
  <2>1. request[q] = "list"
    BY <1>2, ListedFacts
  <2>2. CASE End(q)
    <3>1. /\ request'[q] = "ended"
          /\ \A p \in Requests : p # q => request'[p] = request[p] /\ call'[p] = call[p]
      BY <2>2, EndFacts, RowFacts DEF IInv
    <3> QED BY <2>1, <3>1 DEF Progress
  <2>3. ASSUME NEW i \in Installations, NEW c, Update(q, i, c), CallOK(c, i),
               request'[q] = "operate", \A p \in Requests : p # q => request'[p] = request[p]
        PROVE  Progress
    <3>1. \A p \in Requests, j \in Installations : p # q => call'[p][j] = call[p][j]
      BY <2>3, UpdateFacts DEF CallOK, IInv
    <3> QED BY <2>1, <2>3, <3>1 DEF Progress
  <2> QED BY <1>2, <2>2, <2>3, ListedFacts
<1> QED BY <1>1, <1>2

LEMMA NextProgress == TokenInv /\ [Next]_vars => [Progress]_vars
<1> SUFFICES ASSUME TokenInv, Next PROVE Progress
  OBVIOUS
<1>1. ASSUME NEW q \in Requests, Start(q) \/ Listed(q) PROVE Progress
  BY <1>1, RequestProgress DEF TokenInv
<1>2. ASSUME NEW q \in Requests, NEW i \in Installations, Step(q, i) PROVE Progress
  BY <1>2, StepProgress DEF TokenInv
<1>3. ASSUME NEW i \in Installations, Outside(i) PROVE Progress
  <2>1. call' = call /\ request' = request
    BY <1>3, OutsideFacts DEF TokenInv
  <2> QED BY <2>1 DEF Progress
<1> QED BY <1>1, <1>2, <1>3 DEF Next

\* Every step of a running request leaves less to do, also when GitHub refuses
\* every token: at most two tries per page, and as many pages as there are.
THEOREM RequestsProgress == Spec => RequestProgresses
<1>1. TokenInv /\ [Next]_vars => [Progress]_vars
  BY NextProgress
<1>2. [][Progress]_vars => RequestProgresses
  BY PTL DEF Progress, RequestProgresses
<1> QED BY <1>1, <1>2, SpecToken, PTL DEF Spec
=============================================================================
