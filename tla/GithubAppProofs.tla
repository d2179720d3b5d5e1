-------------------------- MODULE GithubAppProofs --------------------------
(***************************************************************************)
(* Invariance proofs for GithubApp, for any sets of users, installations,  *)
(* callbacks and synchronisations.                                         *)
(*                                                                         *)
(* A link is written long after GitHub was asked about it, so the          *)
(* invariant remembers, for every callback and every synchronisation in    *)
(* flight, that what it is about to link was true at GitHub once.          *)
(***************************************************************************)
EXTENDS GithubApp, TLAPS

\* A callback about to save has been verified.
CallbackGood(x, ever) ==
  x.pc # "idle" =>
    /\ x.installation \in Installations
    /\ x.state # NoState => x.user \in Users
    /\ x.pc = "save" /\ x.state # NoState => <<x.user, x.installation>> \in ever

\* A synchronisation lists, and works off, what its user could see; a link is
\* written after its row.
SyncGood(x, rows, ever) ==
  x.pc # "idle" =>
    /\ x.user \in Users
    /\ \A i \in x.listed : <<x.user, i>> \in ever
    /\ x.todo \subseteq x.listed
    /\ x.pc = "link" => x.at \in x.listed /\ rows[x.at] # "absent"

TableInv ==
  /\ github \in [Installations -> RowStatus]
  /\ members \in [Installations -> SUBSET Users]
  /\ sent \subseteq Webhook
  /\ row \in [Installations -> RowStatus]
  /\ everMember \subseteq (Users \X Installations)
  /\ \A i \in Installations : \A u \in members[i] : <<u, i>> \in everMember

StateInv ==
  /\ state \in [States -> InstallState]
  /\ \A s \in States : state[s].status = "open" => state[s].user \in Users

LinkInv ==
  /\ links \subseteq everMember
  /\ \A l \in links : row[l[2]] # "absent"

CallbackInv ==
  /\ callback \in [Callbacks -> Callback]
  /\ \A c \in Callbacks : CallbackGood(callback[c], everMember)

SyncInv ==
  /\ sync \in [Syncs -> Sync]
  /\ \A y \in Syncs : SyncGood(sync[y], row, everMember)

IInv == TableInv /\ StateInv /\ LinkInv /\ CallbackInv /\ SyncInv

\* Rows do not vanish, and the past does not change.
Forward ==
  /\ everMember \subseteq everMember'
  /\ \A i \in Installations : row[i] # "absent" => row'[i] # "absent"

----------------------------------------------------------------------------
(* What happens elsewhere.                                                 *)

LEMMA DisturbedSync ==
  ASSUME SyncInv
  PROVE  /\ Disturbed(sync) \in [Syncs -> Sync]
         /\ \A y \in Syncs :
              /\ Disturbed(sync)[y].pc = sync[y].pc /\ Disturbed(sync)[y].user = sync[y].user
              /\ Disturbed(sync)[y].listed = sync[y].listed /\ Disturbed(sync)[y].todo = sync[y].todo
              /\ Disturbed(sync)[y].at = sync[y].at /\ Disturbed(sync)[y].status = sync[y].status
<1> SUFFICES ASSUME NEW y \in Syncs
             PROVE  /\ Disturbed(sync)[y] \in Sync
                    /\ Disturbed(sync)[y].pc = sync[y].pc /\ Disturbed(sync)[y].user = sync[y].user
                    /\ Disturbed(sync)[y].listed = sync[y].listed /\ Disturbed(sync)[y].todo = sync[y].todo
                    /\ Disturbed(sync)[y].at = sync[y].at /\ Disturbed(sync)[y].status = sync[y].status
  BY Zenon DEF Disturbed
<1> DEFINE b == sync[y].quiet /\ sync[y].pc = "idle"
<1>1. b \in BOOLEAN /\ sync[y] \in Sync
  BY DEF SyncInv
<1>2. Disturbed(sync)[y] = [sync[y] EXCEPT !.quiet = b]
  BY Zenon DEF Disturbed
<1> HIDE DEF b
<1> QED BY <1>1, <1>2 DEF Sync

\* Synchronisations in flight, disturbed or not, stay good.
LEMMA SyncKept ==
  ASSUME IInv, Forward, NEW base \in {sync, Disturbed(sync)}, NEW y \in Syncs
  PROVE  base \in [Syncs -> Sync] /\ SyncGood(base[y], row', everMember')
<1>1. SyncGood(sync[y], row, everMember) /\ sync[y] \in Sync
  BY DEF IInv, SyncInv
<1>2. sync[y].listed \subseteq Installations
  BY <1>1 DEF Sync
<1>3. /\ base \in [Syncs -> Sync]
      /\ base[y].pc = sync[y].pc /\ base[y].user = sync[y].user /\ base[y].listed = sync[y].listed
      /\ base[y].todo = sync[y].todo /\ base[y].at = sync[y].at
  BY DisturbedSync DEF IInv, SyncInv
<1> QED BY <1>1, <1>2, <1>3 DEF SyncGood, Forward

LEMMA SyncUndisturbed ==
  ASSUME IInv, Forward, sync' \in {sync, Disturbed(sync)}
  PROVE  SyncInv'
<1>1. \A y \in Syncs : sync' \in [Syncs -> Sync] /\ SyncGood(sync'[y], row', everMember')
  BY SyncKept
<1>2. sync' \in [Syncs -> Sync]
  BY DisturbedSync DEF IInv, SyncInv
<1> QED BY <1>1, <1>2 DEF SyncInv

\* One synchronisation takes a step.
LEMMA SyncMoves ==
  ASSUME IInv, Forward, NEW base \in {sync, Disturbed(sync)}, NEW y \in Syncs, NEW x \in Sync,
         SyncGood(x, row', everMember'), sync' = [base EXCEPT ![y] = x]
  PROVE  SyncInv'
<1>1. base \in [Syncs -> Sync]
  BY SyncKept
<1>2. \A z \in Syncs : SyncGood(base[z], row', everMember')
  BY SyncKept
<1>3. sync' \in [Syncs -> Sync] /\ \A z \in Syncs : sync'[z] = IF z = y THEN x ELSE base[z]
  BY <1>1
<1> QED BY <1>2, <1>3, Zenon DEF SyncInv

LEMMA CallbackKept ==
  ASSUME IInv, Forward, callback' = callback
  PROVE  CallbackInv'
BY DEF IInv, CallbackInv, CallbackGood, Forward

LEMMA CallbackMoves ==
  ASSUME IInv, Forward, NEW c \in Callbacks, NEW x \in Callback, CallbackGood(x, everMember'),
         callback' = [callback EXCEPT ![c] = x]
  PROVE  CallbackInv'
<1>1. callback' \in [Callbacks -> Callback]
  BY DEF IInv, CallbackInv
<1>2. \A d \in Callbacks : callback'[d] = IF d = c THEN x ELSE callback[d]
  BY DEF IInv, CallbackInv
<1>3. \A d \in Callbacks : CallbackGood(callback[d], everMember')
  BY DEF IInv, CallbackInv, CallbackGood, Forward
<1> QED BY <1>1, <1>2, <1>3, Zenon DEF CallbackInv

LEMMA StateKept ==
  ASSUME IInv, state' = state
  PROVE  StateInv'
BY Zenon DEF IInv, StateInv

LEMMA LinkKept ==
  ASSUME IInv, Forward, links' = links
  PROVE  LinkInv'
BY DEF IInv, LinkInv, TableInv, Forward

\* The tables and links after a step that leaves GitHub alone and upserts a row.
LEMMA RowWritten ==
  ASSUME IInv, UNCHANGED githubVars, NEW i \in Installations, NEW status \in Listable \cup {"DELETED"},
         row' = [row EXCEPT ![i] = status]
  PROVE  TableInv' /\ Forward /\ row'[i] # "absent"
<1>1. TableInv'
  BY DEF IInv, TableInv, githubVars, RowStatus
<1>2. Forward /\ row'[i] # "absent"
  BY DEF IInv, TableInv, githubVars, Forward, Listable
<1> QED BY <1>1, <1>2

LEMMA TablesKept ==
  ASSUME IInv, UNCHANGED githubVars, row' = row
  PROVE  TableInv' /\ Forward
<1>1. TableInv'
  BY Zenon DEF IInv, TableInv, githubVars
<1>2. Forward
  BY DEF Forward, githubVars
<1> QED BY <1>1, <1>2

----------------------------------------------------------------------------
(* GitHub and its webhooks.                                                *)

LEMMA GithubChangeInv ==
  ASSUME IInv, NEW i \in Installations, NEW status \in RowStatus, NEW hook \in Webhook,
         GithubChange(i, status, hook)
  PROVE  IInv'
<1>1. /\ github' \in [Installations -> RowStatus] /\ sent' \subseteq Webhook
      /\ members' = members /\ everMember' = everMember /\ row' = row
  BY DEF GithubChange, IInv, TableInv
<1>2. TableInv'
  BY <1>1, Zenon DEF IInv, TableInv
<1>3. Forward
  BY <1>1 DEF Forward
<1>4. sync' \in {sync, Disturbed(sync)} /\ links' = links /\ state' = state /\ callback' = callback
  BY DEF GithubChange
<1> QED BY <1>2, <1>3, <1>4, SyncUndisturbed, CallbackKept, StateKept, LinkKept DEF IInv

LEMMA HookType ==
  ASSUME NEW i \in Installations, NEW action \in {"deleted", "suspend", "upsert"},
         NEW status \in Listable
  PROVE  Hook(i, action, status) \in Webhook
BY DEF Hook, Webhook

LEMMA GithubInv ==
  ASSUME IInv, NEW i \in Installations,
         \/ GithubInstalls(i) \/ GithubSuspends(i) \/ GithubUnsuspends(i)
         \/ GithubTouches(i) \/ GithubDeletes(i)
  PROVE  IInv'
<1>1. {"ACTIVE", "SUSPENDED"} \subseteq Listable /\ {"ACTIVE", "SUSPENDED", "DELETED"} \subseteq RowStatus
      /\ Listable \subseteq RowStatus
  BY DEF Listable, RowStatus
<1>2. CASE GithubInstalls(i)
  BY <1>1, <1>2, GithubChangeInv, HookType DEF GithubInstalls
<1>3. CASE GithubSuspends(i)
  BY <1>1, <1>3, GithubChangeInv, HookType DEF GithubSuspends
<1>4. CASE GithubUnsuspends(i)
  BY <1>1, <1>4, GithubChangeInv, HookType DEF GithubUnsuspends
<1>5. CASE GithubTouches(i)
  BY <1>1, <1>5, GithubChangeInv, HookType DEF GithubTouches
<1>6. CASE GithubDeletes(i)
  BY <1>1, <1>6, GithubChangeInv, HookType DEF GithubDeletes
<1> QED BY <1>2, <1>3, <1>4, <1>5, <1>6

LEMMA MembershipChangesInv ==
  ASSUME IInv, NEW i \in Installations, NEW u \in Users, MembershipChanges(i, u)
  PROVE  IInv'
<1>1. members' \in [Installations -> SUBSET Users]
  BY DEF MembershipChanges, IInv, TableInv
<1>2. /\ everMember' = everMember \cup {<<v, i>> : v \in members'[i]}
      /\ \A k \in Installations \ {i} : members'[k] = members[k]
      /\ github' = github /\ sent' = sent /\ row' = row
  BY DEF MembershipChanges, IInv, TableInv
<1>3. everMember' \subseteq (Users \X Installations)
  BY <1>1, <1>2 DEF IInv, TableInv
<1>4. ASSUME NEW k \in Installations, NEW v \in members'[k] PROVE <<v, k>> \in everMember'
  <2>1. CASE k = i
    BY <1>2, <2>1
  <2>2. CASE k # i
    BY <1>2, <2>2 DEF IInv, TableInv
  <2> QED BY <2>1, <2>2
<1>5. TableInv'
  BY <1>1, <1>2, <1>3, <1>4, Zenon DEF IInv, TableInv
<1>6. Forward
  BY <1>2 DEF Forward
<1>7. sync' \in {sync, Disturbed(sync)} /\ links' = links /\ state' = state /\ callback' = callback
  BY DEF MembershipChanges
<1> QED BY <1>5, <1>6, <1>7, SyncUndisturbed, CallbackKept, StateKept, LinkKept DEF IInv

LEMMA DeliverInv ==
  ASSUME IInv, NEW w \in Webhook, Deliver(w)
  PROVE  IInv'
<1> DEFINE status == IF w.action = "deleted" THEN "DELETED" ELSE w.status
<1>1. w.installation \in Installations /\ status \in Listable \cup {"DELETED"}
  BY DEF Webhook
<1>2. /\ UNCHANGED githubVars /\ row' = [row EXCEPT ![w.installation] = status]
      /\ sync' \in {sync, Disturbed(sync)} /\ links' = links /\ state' = state
      /\ callback' = callback
  BY DEF Deliver, Noticed
<1> HIDE DEF status
<1>3. TableInv' /\ Forward
  BY <1>1, <1>2, RowWritten
<1> QED BY <1>2, <1>3, SyncUndisturbed, CallbackKept, StateKept, LinkKept DEF IInv

----------------------------------------------------------------------------
(* The installation callback.                                              *)

LEMMA InstallStateInv ==
  ASSUME IInv, NEW s \in States,
         (\E u \in Users : CreateInstallUrl(s, u)) \/ StateExpires(s)
  PROVE  IInv'
<1>1. UNCHANGED githubVars /\ row' = row /\ links' = links /\ callback' = callback /\ sync' = sync
  BY DEF CreateInstallUrl, StateExpires
<1>2. ASSUME NEW x \in InstallState, x.status = "open" => x.user \in Users,
             state' = [state EXCEPT ![s] = x]
      PROVE  StateInv'
  <2>1. state' \in [States -> InstallState] /\ \A t \in States : state'[t] = IF t = s THEN x ELSE state[t]
    BY <1>2 DEF IInv, StateInv
  <2> QED BY <1>2, <2>1, Zenon DEF IInv, StateInv
<1>3. StateInv'
  <2>1. CASE StateExpires(s)
    <3>1. Spent \in InstallState /\ Spent.status # "open"
      BY DEF Spent, InstallState
    <3>2. state' = [state EXCEPT ![s] = Spent]
      BY <2>1 DEF StateExpires
    <3> QED BY <3>1, <3>2, <1>2
  <2>2. ASSUME NEW u \in Users, CreateInstallUrl(s, u) PROVE StateInv'
    <3> DEFINE x == [user |-> u, status |-> "open"]
    <3>1. x \in InstallState /\ x.user \in Users
      BY DEF InstallState
    <3>2. state' = [state EXCEPT ![s] = x]
      BY <2>2 DEF CreateInstallUrl
    <3> HIDE DEF x
    <3> QED BY <3>1, <3>2, <1>2
  <2> QED BY <2>1, <2>2
<1>4. TableInv' /\ Forward
  BY <1>1, TablesKept
<1> QED BY <1>1, <1>3, <1>4, SyncUndisturbed, CallbackKept, LinkKept DEF IInv

\* A callback moves on and writes nothing.
LEMMA CallbackStepInv ==
  ASSUME IInv, NEW c \in Callbacks, NEW x \in Callback, CallbackGood(x, everMember),
         callback' = [callback EXCEPT ![c] = x],
         UNCHANGED <<githubVars, row, links, state, sync>>
  PROVE  IInv'
<1>1. TableInv' /\ Forward /\ everMember' = everMember
  BY TablesKept DEF githubVars
<1>2. CallbackInv'
  BY <1>1, CallbackMoves
<1> QED BY <1>1, <1>2, SyncUndisturbed, StateKept, LinkKept DEF IInv

LEMMA NoCallbackGood ==
  NoCallback \in Callback /\ NoCallback.pc = "idle" /\ CallbackGood(NoCallback, everMember)
BY DEF NoCallback, Callback, CallbackGood, Listable

LEMMA CallbackStartInv ==
  ASSUME IInv, NEW c \in Callbacks, NEW s \in States \cup {NoState}, NEW i \in Installations,
         CallbackStart(c, s, i)
  PROVE  IInv'
<1> DEFINE v == IF s = NoState THEN NoUser ELSE state[s].user
           x == [NoCallback EXCEPT !.pc = "fetch", !.state = s, !.installation = i, !.user = v]
<1>1. v \in Users \cup {NoUser} /\ (s # NoState => v \in Users)
  BY DEF CallbackStart, IInv, StateInv
<1>2. callback' = [callback EXCEPT ![c] = x] /\ UNCHANGED <<githubVars, row, links, state, sync>>
  BY DEF CallbackStart
<1> HIDE DEF v
<1>3. /\ x \in Callback /\ x.pc = "fetch" /\ x.state = s /\ x.installation = i /\ x.user = v
  BY <1>1, NoCallbackGood DEF Callback
<1> HIDE DEF x
<1>4. CallbackGood(x, everMember)
  BY <1>1, <1>3 DEF CallbackGood
<1> QED BY <1>2, <1>3, <1>4, CallbackStepInv

LEMMA CallbackFetchInv ==
  ASSUME IInv, NEW c \in Callbacks, CallbackFetch(c)
  PROVE  IInv'
<1> DEFINE i == callback[c].installation
           pc == IF callback[c].state = NoState THEN "save" ELSE "verify"
           x == [[callback[c] EXCEPT !.pc = pc] EXCEPT !.status = github[i]]
<1>1. /\ callback[c] \in Callback /\ callback[c].pc = "fetch" /\ github[i] \in Listable
      /\ CallbackGood(callback[c], everMember)
  BY DEF CallbackFetch, IInv, CallbackInv
<1>2. callback' = [callback EXCEPT ![c] = x] /\ UNCHANGED <<githubVars, row, links, state, sync>>
  BY DEF CallbackFetch, IInv, CallbackInv
<1>3. pc \in {"save", "verify"} /\ (pc = "save" => callback[c].state = NoState)
  OBVIOUS
<1> HIDE DEF pc
<1>4. /\ x \in Callback /\ x.pc = pc /\ x.state = callback[c].state
      /\ x.installation = i /\ x.user = callback[c].user
  BY <1>1, <1>3 DEF Callback
<1> HIDE DEF x
<1>5. CallbackGood(x, everMember)
  BY <1>1, <1>3, <1>4 DEF CallbackGood
<1> QED BY <1>2, <1>4, <1>5, CallbackStepInv

\* The user is a member now, so was one once.
LEMMA CallbackVerifyInv ==
  ASSUME IInv, NEW c \in Callbacks, CallbackVerify(c)
  PROVE  IInv'
<1> DEFINE x == [callback[c] EXCEPT !.pc = "save"]
<1>1. /\ callback[c] \in Callback /\ callback[c].pc = "verify"
      /\ CallbackGood(callback[c], everMember)
  BY DEF CallbackVerify, IInv, CallbackInv
<1>2. callback' = [callback EXCEPT ![c] = x] /\ UNCHANGED <<githubVars, row, links, state, sync>>
  BY DEF CallbackVerify
<1>3. <<callback[c].user, callback[c].installation>> \in everMember
  BY <1>1 DEF CallbackVerify, CallbackGood, IInv, TableInv
<1>4. /\ x \in Callback /\ x.pc = "save" /\ x.state = callback[c].state
      /\ x.installation = callback[c].installation /\ x.user = callback[c].user
  BY <1>1 DEF Callback
<1> HIDE DEF x
<1>5. CallbackGood(x, everMember)
  BY <1>1, <1>3, <1>4 DEF CallbackGood
<1> QED BY <1>2, <1>4, <1>5, CallbackStepInv

LEMMA CallbackRejectedInv ==
  ASSUME IInv, NEW c \in Callbacks, CallbackRejected(c)
  PROVE  IInv'
BY NoCallbackGood, CallbackStepInv DEF CallbackRejected

LEMMA CallbackSaveInv ==
  ASSUME IInv, NEW c \in Callbacks, CallbackSave(c)
  PROVE  IInv'
<1> DEFINE s == callback[c].state
           i == callback[c].installation
           u == callback[c].user
<1>1. /\ callback[c] \in Callback /\ callback[c].pc = "save" /\ s # NoState
      /\ CallbackGood(callback[c], everMember)
  BY DEF CallbackSave, IInv, CallbackInv
<1>2. /\ row' = [row EXCEPT ![i] = callback[c].status] /\ links' = links \cup {<<u, i>>}
      /\ state' = [state EXCEPT ![s] = Spent] /\ sync' \in {sync, Disturbed(sync)}
      /\ callback' = [callback EXCEPT ![c] = NoCallback] /\ UNCHANGED githubVars
  BY DEF CallbackSave
<1>3. /\ callback[c].status \in Listable /\ i \in Installations /\ u \in Users
      /\ s \in States /\ <<u, i>> \in everMember
  BY <1>1 DEF CallbackGood, Callback
<1>4. TableInv' /\ Forward /\ row'[i] # "absent"
  BY <1>2, <1>3, RowWritten
<1>5. everMember' = everMember
  BY <1>2 DEF githubVars
<1>6. CallbackInv'
  BY <1>2, <1>4, <1>5, NoCallbackGood, CallbackMoves
<1>7. StateInv'
  <2>1. Spent \in InstallState /\ Spent.status # "open"
    BY DEF Spent, InstallState
  <2> QED BY <1>2, <2>1 DEF IInv, StateInv
<1>8. LinkInv'
  <2>1. links' \subseteq everMember'
    BY <1>2, <1>3, <1>5 DEF IInv, LinkInv
  <2>2. ASSUME NEW l \in links' PROVE row'[l[2]] # "absent"
    <3>1. CASE l = <<u, i>>
      BY <1>4, <3>1
    <3>2. CASE l \in links
      BY <1>4, <3>2 DEF IInv, LinkInv, TableInv, Forward
    <3> QED BY <1>2, <3>1, <3>2
  <2> QED BY <2>1, <2>2 DEF LinkInv
<1> QED BY <1>2, <1>4, <1>6, <1>7, <1>8, SyncUndisturbed DEF IInv

LEMMA UpdateSaveInv ==
  ASSUME IInv, NEW c \in Callbacks, UpdateSave(c)
  PROVE  IInv'
<1> DEFINE i == callback[c].installation
<1>1. /\ row' = [row EXCEPT ![i] = callback[c].status] /\ links' = links /\ state' = state
      /\ sync' \in {sync, Disturbed(sync)}
      /\ callback' = [callback EXCEPT ![c] = NoCallback] /\ UNCHANGED githubVars
  BY DEF UpdateSave, Noticed
<1>2. callback[c].status \in Listable /\ i \in Installations
  BY DEF UpdateSave, IInv, CallbackInv, CallbackGood, Callback
<1>3. TableInv' /\ Forward /\ everMember' = everMember
  BY <1>1, <1>2, RowWritten DEF githubVars
<1>4. CallbackInv'
  BY <1>1, <1>3, NoCallbackGood, CallbackMoves
<1> QED BY <1>1, <1>3, <1>4, SyncUndisturbed, StateKept, LinkKept DEF IInv

----------------------------------------------------------------------------
(* The synchronisation.                                                    *)

LEMMA NoSyncGood ==
  NoSync \in Sync /\ NoSync.pc = "idle" /\ NoSync.todo = {}
BY DEF NoSync, Sync, Listable

\* A synchronisation moves on and writes nothing.
LEMMA SyncStepInv ==
  ASSUME IInv, NEW y \in Syncs, NEW x \in Sync, SyncGood(x, row, everMember),
         sync' = [sync EXCEPT ![y] = x],
         UNCHANGED <<githubVars, row, links, state, callback>>
  PROVE  IInv'
<1>1. TableInv' /\ Forward /\ everMember' = everMember /\ row' = row
  BY TablesKept DEF githubVars
<1>2. SyncInv'
  BY <1>1, SyncMoves
<1> QED BY <1>1, <1>2, CallbackKept, StateKept, LinkKept DEF IInv

\* What is listed is visible now.
LEMMA SyncStartInv ==
  ASSUME IInv, NEW y \in Syncs, NEW u \in Users, SyncStart(y, u)
  PROVE  IInv'
<1> DEFINE v == Visible(u)
           x == [NoSync EXCEPT !.pc = "list", !.user = u, !.listed = v]
<1>1. v \subseteq Installations /\ \A i \in v : <<u, i>> \in everMember
  BY DEF Visible, IInv, TableInv
<1>2. sync' = [sync EXCEPT ![y] = x] /\ UNCHANGED <<githubVars, row, links, state, callback>>
  BY DEF SyncStart
<1> HIDE DEF v
<1>3. x \in Sync /\ x.pc = "list" /\ x.user = u /\ x.listed = v /\ x.todo = {}
  BY <1>1, NoSyncGood DEF Sync
<1> HIDE DEF x
<1>4. SyncGood(x, row, everMember)
  BY <1>1, <1>3 DEF SyncGood
<1> QED BY <1>2, <1>3, <1>4, SyncStepInv

LEMMA SyncListInv ==
  ASSUME IInv, NEW y \in Syncs, SyncList(y)
  PROVE  IInv'
<1> DEFINE a == {i \in sync[y].listed : github[i] \in Listable}
           pc == IF a = {} THEN "drop" ELSE "row"
           st == [i \in Installations |-> IF i \in a THEN github[i] ELSE "ACTIVE"]
           x == [sync[y] EXCEPT !.pc = pc, !.listed = a, !.todo = a, !.status = st]
<1>1. sync[y] \in Sync /\ sync[y].pc = "list" /\ SyncGood(sync[y], row, everMember)
  BY DEF SyncList, IInv, SyncInv
<1>2. sync' = [sync EXCEPT ![y] = x] /\ UNCHANGED <<githubVars, row, links, state, callback>>
  BY DEF SyncList, IInv, SyncInv
<1>3. a \subseteq sync[y].listed /\ sync[y].listed \subseteq Installations
  BY <1>1 DEF Sync
<1>4. st \in [Installations -> Listable] /\ pc \in {"drop", "row"}
  BY DEF Listable
<1> HIDE DEF a, pc, st
<1>5. x \in Sync /\ x.pc = pc /\ x.user = sync[y].user /\ x.listed = a /\ x.todo = a
  BY <1>1, <1>3, <1>4 DEF Sync
<1> HIDE DEF x
<1>6. SyncGood(x, row, everMember)
  BY <1>1, <1>3, <1>4, <1>5 DEF SyncGood
<1> QED BY <1>2, <1>5, <1>6, SyncStepInv

\* The row is there when the link is next.
LEMMA SyncRowInv ==
  ASSUME IInv, NEW y \in Syncs, NEW i \in Installations, SyncRow(y, i)
  PROVE  IInv'
<1> DEFINE status == sync[y].status[i]
           base == Noticed(i, status)
           x == [[base[y] EXCEPT !.pc = "link"] EXCEPT !.at = i]
<1>1. /\ sync[y] \in Sync /\ sync[y].pc = "row" /\ i \in sync[y].todo
      /\ SyncGood(sync[y], row, everMember)
  BY DEF SyncRow, IInv, SyncInv
<1>2. status \in Listable \cup {"DELETED"}
  BY <1>1 DEF Sync
<1>3. base \in {sync, Disturbed(sync)}
  BY DEF Noticed
<1>4. base \in [Syncs -> Sync]
  BY <1>3, DisturbedSync DEF IInv, SyncInv
<1>5. /\ base[y] \in Sync /\ base[y].pc = sync[y].pc /\ base[y].user = sync[y].user
      /\ base[y].listed = sync[y].listed /\ base[y].todo = sync[y].todo
  BY <1>3, <1>4, DisturbedSync DEF IInv, SyncInv
<1>6. /\ row' = [row EXCEPT ![i] = status] /\ UNCHANGED <<githubVars, links, state, callback>>
      /\ sync' = [base EXCEPT ![y].pc = "link", ![y].at = i]
  BY DEF SyncRow
<1> HIDE DEF status, base
<1>7. sync' = [base EXCEPT ![y] = x]
  BY <1>4, <1>6
<1>8. TableInv' /\ Forward /\ row'[i] # "absent" /\ everMember' = everMember
  BY <1>2, <1>6, RowWritten DEF githubVars
<1>9. /\ x \in Sync /\ x.pc = "link" /\ x.at = i /\ x.user = sync[y].user
      /\ x.listed = sync[y].listed /\ x.todo = sync[y].todo
  BY <1>5 DEF Sync
<1> HIDE DEF x
<1>10. SyncGood(x, row', everMember')
  BY <1>1, <1>8, <1>9 DEF SyncGood
<1>11. SyncInv'
  BY <1>3, <1>7, <1>8, <1>9, <1>10, SyncMoves
<1> QED BY <1>6, <1>8, <1>11, CallbackKept, StateKept, LinkKept DEF IInv

LEMMA SyncLinkInv ==
  ASSUME IInv, NEW y \in Syncs, SyncLink(y)
  PROVE  IInv'
<1> DEFINE i == sync[y].at
           u == sync[y].user
           rest == sync[y].todo \ {i}
           pc == IF rest = {} THEN "drop" ELSE "row"
           outdated == github[i] \notin Listable \/ u \notin members[i]
           base == IF outdated THEN Disturbed(sync) ELSE sync
           x == [[[base[y] EXCEPT !.pc = pc] EXCEPT !.at = NoInstallation] EXCEPT !.todo = rest]
<1>1. /\ sync[y] \in Sync /\ sync[y].pc = "link" /\ SyncGood(sync[y], row, everMember)
  BY DEF SyncLink, IInv, SyncInv
<1>2. /\ i \in Installations /\ u \in Users /\ <<u, i>> \in everMember /\ row[i] # "absent"
      /\ rest \subseteq sync[y].listed /\ sync[y].listed \subseteq Installations
  BY <1>1 DEF SyncGood, Sync
<1>3. base \in {sync, Disturbed(sync)} /\ pc \in {"drop", "row"}
  OBVIOUS
<1>4. base \in [Syncs -> Sync]
  BY <1>3, DisturbedSync DEF IInv, SyncInv
<1>5. /\ base[y] \in Sync /\ base[y].user = u /\ base[y].listed = sync[y].listed
  BY <1>3, <1>4, DisturbedSync DEF IInv, SyncInv
<1>6. /\ links' = links \cup {<<u, i>>} /\ UNCHANGED <<githubVars, row, state, callback>>
      /\ sync' = [base EXCEPT ![y].pc = pc, ![y].at = NoInstallation, ![y].todo = rest]
  BY DEF SyncLink
<1>7. TableInv' /\ Forward /\ everMember' = everMember /\ row' = row
  BY <1>6, TablesKept DEF githubVars
<1>8. LinkInv'
  BY <1>2, <1>6, <1>7 DEF IInv, LinkInv
<1> HIDE DEF rest, pc, base
<1>9. sync' = [base EXCEPT ![y] = x]
  BY <1>4, <1>6
<1>10. x \in Sync /\ x.pc = pc /\ x.user = u /\ x.listed = sync[y].listed /\ x.todo = rest
  BY <1>2, <1>3, <1>5 DEF Sync
<1> HIDE DEF x
<1>11. SyncGood(x, row', everMember')
  BY <1>1, <1>2, <1>3, <1>7, <1>10 DEF SyncGood
<1>12. SyncInv'
  BY <1>3, <1>7, <1>9, <1>10, <1>11, SyncMoves
<1> QED BY <1>6, <1>7, <1>8, <1>12, CallbackKept, StateKept DEF IInv

LEMMA SyncDropInv ==
  ASSUME IInv, NEW y \in Syncs, SyncDrop(y)
  PROVE  IInv'
<1> DEFINE outdated == sync[y].listed # {i \in Visible(sync[y].user) : github[i] \in Listable}
           base == IF outdated THEN Disturbed(sync) ELSE sync
           x == [base[y] EXCEPT !.pc = "done"]
<1>1. sync[y] \in Sync /\ sync[y].pc = "drop" /\ SyncGood(sync[y], row, everMember)
  BY DEF SyncDrop, IInv, SyncInv
<1>2. base \in {sync, Disturbed(sync)}
  OBVIOUS
<1>3. base \in [Syncs -> Sync]
  BY <1>2, DisturbedSync DEF IInv, SyncInv
<1>4. /\ base[y] \in Sync /\ base[y].user = sync[y].user
      /\ base[y].listed = sync[y].listed /\ base[y].todo = sync[y].todo
  BY <1>2, <1>3, DisturbedSync DEF IInv, SyncInv
<1>5. /\ links' \subseteq links /\ UNCHANGED <<githubVars, row, state, callback>>
      /\ sync' = [base EXCEPT ![y].pc = "done"]
  BY DEF SyncDrop
<1>6. TableInv' /\ Forward /\ everMember' = everMember /\ row' = row
  BY <1>5, TablesKept DEF githubVars
<1>7. LinkInv'
  BY <1>5, <1>6 DEF IInv, LinkInv
<1> HIDE DEF base
<1>8. sync' = [base EXCEPT ![y] = x]
  BY <1>3, <1>5
<1>9. /\ x \in Sync /\ x.pc = "done" /\ x.user = sync[y].user
      /\ x.listed = sync[y].listed /\ x.todo = sync[y].todo
  BY <1>4 DEF Sync
<1> HIDE DEF x
<1>10. SyncGood(x, row', everMember')
  BY <1>1, <1>6, <1>9 DEF SyncGood
<1>11. SyncInv'
  BY <1>2, <1>6, <1>8, <1>9, <1>10, SyncMoves
<1> QED BY <1>5, <1>6, <1>7, <1>11, CallbackKept, StateKept DEF IInv

LEMMA SyncEndsInv ==
  ASSUME IInv, NEW y \in Syncs, SyncDies(y) \/ SyncForgotten(y)
  PROVE  IInv'
<1>1. sync' = [sync EXCEPT ![y] = NoSync] /\ UNCHANGED <<githubVars, row, links, state, callback>>
  BY DEF SyncDies, SyncForgotten
<1>2. NoSync \in Sync /\ SyncGood(NoSync, row, everMember)
  BY NoSyncGood DEF SyncGood
<1> QED BY <1>1, <1>2, SyncStepInv

----------------------------------------------------------------------------
(* The specification.                                                      *)

LEMMA InitInv == Init => IInv
<1> SUFFICES ASSUME Init PROVE IInv
  OBVIOUS
<1>1. TableInv
  BY DEF Init, TableInv, RowStatus
<1>2. StateInv
  BY DEF Init, StateInv, InstallState
<1>3. LinkInv
  BY DEF Init, LinkInv
<1>4. CallbackInv
  BY NoCallbackGood DEF Init, CallbackInv
<1>5. SyncInv
  BY NoSyncGood DEF Init, SyncInv, SyncGood
<1> QED BY <1>1, <1>2, <1>3, <1>4, <1>5 DEF IInv

LEMMA NextInv == IInv /\ [Next]_vars => IInv'
<1> SUFFICES ASSUME IInv, [Next]_vars PROVE IInv'
  OBVIOUS
<1>1. CASE GithubStep
  BY <1>1, GithubInv, MembershipChangesInv DEF GithubStep
<1>2. CASE \E w \in Webhook : Deliver(w)
  BY <1>2, DeliverInv
<1>3. CASE CallbackStep
  BY <1>3, InstallStateInv, CallbackStartInv, CallbackFetchInv, CallbackVerifyInv,
     CallbackRejectedInv, CallbackSaveInv, UpdateSaveInv DEF CallbackStep
<1>4. CASE SyncStep
  BY <1>4, SyncStartInv, SyncListInv, SyncRowInv, SyncLinkInv, SyncDropInv, SyncEndsInv
     DEF SyncStep
<1>5. CASE UNCHANGED vars
  <2>1. /\ UNCHANGED githubVars /\ row' = row /\ links' = links /\ state' = state
        /\ callback' = callback /\ sync' = sync
    BY <1>5 DEF vars, githubVars
  <2> QED BY <2>1, TablesKept, SyncUndisturbed, CallbackKept, StateKept, LinkKept DEF IInv
<1> QED BY <1>1, <1>2, <1>3, <1>4, <1>5 DEF Next

LEMMA InvProved == Spec => []IInv
BY InitInv, NextInv, PTL DEF Spec

\* The variables keep their types, and a link never names an installation
\* whose row was not stored first (the foreign key of UserGithubInstallation).
THEOREM AppTypeCorrect == Spec => []TypeOK
<1>1. IInv => TypeOK
  BY DEF IInv, TableInv, StateInv, LinkInv, CallbackInv, SyncInv, TypeOK
<1> QED BY <1>1, InvProved, PTL

\* completeInstallation and syncUserInstallations link a user only to an
\* installation GitHub once let that user see, whatever the number of
\* callbacks, synchronisations and webhooks in flight.
THEOREM LinksWereVerified == Spec => []LinkWasVerified
<1>1. IInv => LinkWasVerified
  BY DEF IInv, LinkInv, LinkWasVerified
<1> QED BY <1>1, InvProved, PTL


----------------------------------------------------------------------------
(* What an undisturbed synchronisation has achieved so far.                *)

\* The live installations of GitHub that user u may see.
Live(u, gh, mem) == {i \in Installations : u \in mem[i] /\ gh[i] \in Listable}

\* While nothing out of date is written, a synchronisation holds what GitHub
\* says: its organisations, then its listing; the installations it has worked
\* off have their row and link; after the last statement there is no other link.
ExactSync(x, gh, mem, rw, ln) ==
  x.pc # "idle" /\ x.quiet =>
    /\ x.pc = "list" => x.listed = {i \in Installations : x.user \in mem[i]}
    /\ x.pc # "list" =>
         /\ x.listed = Live(x.user, gh, mem)
         /\ \A i \in x.listed : x.status[i] = gh[i]
         /\ \A i \in x.listed \ x.todo : rw[i] = gh[i] /\ <<x.user, i>> \in ln
    /\ x.pc = "link" => rw[x.at] = gh[x.at]
    /\ x.pc \in {"drop", "done"} => x.todo = {}
    /\ x.pc = "done" => \A i \in Installations : <<x.user, i>> \in ln => i \in x.listed

ExactInv == \A y \in Syncs : ExactSync(sync[y], github, members, row, links)

\* A step that writes nothing out of date: rows as GitHub has them, except for
\* installations that are gone; links of live members only, and none dropped.
Harmless ==
  /\ github' = github /\ members' = members
  /\ \A i \in Installations :
       row'[i] = row[i] \/ row'[i] = github[i] \/ github[i] \notin Listable
  /\ \A u \in Users, i \in Installations :
       IF i \in Live(u, github, members)
       THEN <<u, i>> \in links => <<u, i>> \in links'
       ELSE <<u, i>> \in links' => <<u, i>> \in links

LEMMA DisturbedQuiet ==
  ASSUME SyncInv, NEW y \in Syncs, Disturbed(sync)[y].pc # "idle"
  PROVE  ~Disturbed(sync)[y].quiet
<1> DEFINE b == sync[y].quiet /\ sync[y].pc = "idle"
<1>1. sync[y] \in Sync /\ sync[y].pc # "idle"
  BY DisturbedSync DEF SyncInv
<1>2. Disturbed(sync)[y] = [sync[y] EXCEPT !.quiet = b]
  BY Zenon DEF Disturbed
<1>3. b = FALSE
  BY <1>1
<1> HIDE DEF b
<1>4. Disturbed(sync)[y].quiet = b
  BY <1>1, <1>2 DEF Sync
<1> QED BY <1>3, <1>4

\* The synchronisations that do not move stay exact, or are disturbed.
LEMMA ExactKept ==
  ASSUME IInv, ExactInv, NEW base, base = Disturbed(sync) \/ (base = sync /\ Harmless),
         NEW y \in Syncs
  PROVE  ExactSync(base[y], github', members', row', links')
<1>1. CASE base = Disturbed(sync)
  BY <1>1, DisturbedQuiet DEF ExactSync, IInv
<1>2. CASE base = sync /\ Harmless
  <2> DEFINE x == sync[y]
  <2>1. /\ x \in Sync /\ SyncGood(x, row, everMember)
        /\ ExactSync(x, github, members, row, links)
    BY DEF IInv, SyncInv, ExactInv
  <2>2. x.listed \subseteq Installations
    BY <2>1 DEF Sync
  <2> HIDE DEF x
  <2>3. SUFFICES ASSUME x.pc # "idle", x.quiet
                 PROVE  ExactSync(x, github', members', row', links')
    BY <1>2 DEF x, ExactSync
  <2>4. x.user \in Users /\ (x.pc = "link" => x.at \in x.listed)
    BY <2>1, <2>3 DEF SyncGood
  <2>5. github' = github /\ members' = members
    BY <1>2 DEF Harmless
  <2>6. CASE x.pc = "list"
    BY <2>1, <2>3, <2>5, <2>6 DEF ExactSync
  <2>7. CASE x.pc # "list"
    <3>1. x.listed = Live(x.user, github, members)
      BY <2>1, <2>3, <2>7 DEF ExactSync
    <3>2. \A i \in x.listed : github[i] \in Listable
      BY <3>1 DEF Live
    <3>3. \A i \in x.listed : row[i] = github[i] => row'[i] = github[i]
      BY <1>2, <2>2, <3>2 DEF Harmless
    <3>4. \A i \in x.listed : <<x.user, i>> \in links => <<x.user, i>> \in links'
      BY <1>2, <2>2, <2>4, <3>1 DEF Harmless
    <3>5. \A i \in Installations : i \notin x.listed /\ <<x.user, i>> \in links'
                                     => <<x.user, i>> \in links
      BY <1>2, <2>4, <3>1 DEF Harmless
    <3> QED BY <2>1, <2>3, <2>4, <2>5, <2>7, <3>1, <3>3, <3>4, <3>5 DEF ExactSync
  <2> QED BY <2>6, <2>7
<1> QED BY <1>1, <1>2

\* No synchronisation moves.
LEMMA ExactUndisturbed ==
  ASSUME IInv, ExactInv, sync' = Disturbed(sync) \/ (sync' = sync /\ Harmless)
  PROVE  ExactInv'
BY ExactKept DEF ExactInv

\* One moves, the others are disturbed or left alone.
LEMMA ExactMoves ==
  ASSUME IInv, ExactInv, NEW base, base = Disturbed(sync) \/ (base = sync /\ Harmless),
         NEW y \in Syncs, NEW x, ExactSync(x, github', members', row', links'),
         base \in [Syncs -> Sync], sync' = [base EXCEPT ![y] = x]
  PROVE  ExactInv'
<1>1. \A z \in Syncs : ExactSync(base[z], github', members', row', links')
  BY ExactKept
<1>2. \A z \in Syncs : sync'[z] = IF z = y THEN x ELSE base[z]
  OBVIOUS
<1> QED BY <1>1, <1>2, Zenon DEF ExactInv

LEMMA HarmlessWhenUnchanged ==
  ASSUME UNCHANGED <<github, members, row, links>>
  PROVE  Harmless
BY DEF Harmless

\* A row write that no synchronisation notices is harmless.
LEMMA NoticedOrHarmless ==
  ASSUME IInv, NEW i \in Installations, NEW status,
         row' = [row EXCEPT ![i] = status], UNCHANGED <<github, members, links>>
  PROVE  \/ Noticed(i, status) = Disturbed(sync)
         \/ Noticed(i, status) = sync /\ Harmless
<1>1. CASE github[i] \in {status, "DELETED"}
  <2>1. \A k \in Installations : row'[k] = IF k = i THEN status ELSE row[k]
    BY DEF IInv, TableInv
  <2>2. Harmless
    BY <1>1, <2>1 DEF Harmless, Listable
  <2> QED BY <1>1, <2>2 DEF Noticed
<1>2. CASE github[i] \notin {status, "DELETED"}
  BY <1>2 DEF Noticed
<1> QED BY <1>1, <1>2

----------------------------------------------------------------------------
(* Exactness, step by step.                                                *)

LEMMA GithubExact ==
  ASSUME IInv, ExactInv, NEW i \in Installations, NEW status, NEW hook,
         GithubChange(i, status, hook)
  PROVE  ExactInv'
<1>1. CASE status = github[i]
  <2>1. github' = github /\ sync' = sync /\ UNCHANGED <<members, row, links>>
    BY <1>1 DEF GithubChange, IInv, TableInv
  <2> QED BY <2>1, HarmlessWhenUnchanged, ExactUndisturbed
<1>2. CASE status # github[i]
  BY <1>2, ExactUndisturbed DEF GithubChange
<1> QED BY <1>1, <1>2

LEMMA DeliverExact ==
  ASSUME IInv, ExactInv, NEW w \in Webhook, Deliver(w)
  PROVE  ExactInv'
<1> DEFINE status == IF w.action = "deleted" THEN "DELETED" ELSE w.status
<1>1. /\ w.installation \in Installations /\ sync' = Noticed(w.installation, status)
      /\ row' = [row EXCEPT ![w.installation] = status] /\ UNCHANGED <<github, members, links>>
  BY DEF Deliver, Webhook, githubVars
<1> HIDE DEF status
<1> QED BY <1>1, NoticedOrHarmless, ExactUndisturbed

LEMMA UpdateSaveExact ==
  ASSUME IInv, ExactInv, NEW c \in Callbacks, UpdateSave(c)
  PROVE  ExactInv'
<1> DEFINE i == callback[c].installation
           status == callback[c].status
<1>1. /\ i \in Installations /\ sync' = Noticed(i, status)
      /\ row' = [row EXCEPT ![i] = status] /\ UNCHANGED <<github, members, links>>
  BY DEF UpdateSave, IInv, CallbackInv, CallbackGood, githubVars
<1> HIDE DEF i, status
<1> QED BY <1>1, NoticedOrHarmless, ExactUndisturbed

LEMMA CallbackSaveExact ==
  ASSUME IInv, ExactInv, NEW c \in Callbacks, CallbackSave(c)
  PROVE  ExactInv'
<1> DEFINE i == callback[c].installation
           u == callback[c].user
           outdated == github[i] # callback[c].status \/ u \notin members[i]
<1>1. /\ i \in Installations /\ u \in Users /\ callback[c].status \in Listable
  BY DEF CallbackSave, IInv, CallbackInv, CallbackGood, Callback
<1>2. /\ row' = [row EXCEPT ![i] = callback[c].status] /\ links' = links \cup {<<u, i>>}
      /\ sync' = IF outdated THEN Disturbed(sync) ELSE sync
      /\ UNCHANGED <<github, members>>
  BY DEF CallbackSave, githubVars
<1>3. CASE outdated
  BY <1>2, <1>3, ExactUndisturbed
<1>4. CASE ~outdated
  <2>1. \A k \in Installations : row'[k] = IF k = i THEN github[i] ELSE row[k]
    BY <1>2, <1>4 DEF IInv, TableInv
  <2>2. i \in Live(u, github, members)
    BY <1>1, <1>4 DEF Live
  <2>3. Harmless
    BY <1>2, <2>1, <2>2 DEF Harmless
  <2> QED BY <1>2, <1>4, <2>3, ExactUndisturbed
<1> QED BY <1>3, <1>4

\* A synchronisation moves on and writes nothing.
LEMMA SyncMovesExact ==
  ASSUME IInv, ExactInv, NEW y \in Syncs, NEW x,
         ExactSync(x, github, members, row, links), sync' = [sync EXCEPT ![y] = x],
         UNCHANGED <<githubVars, row, links>>
  PROVE  ExactInv'
<1>1. UNCHANGED <<github, members, row, links>> /\ sync \in [Syncs -> Sync]
  BY DEF githubVars, IInv, SyncInv
<1> QED BY <1>1, HarmlessWhenUnchanged, ExactMoves

LEMMA SyncEndsExact ==
  ASSUME IInv, ExactInv, NEW y \in Syncs, SyncDies(y) \/ SyncForgotten(y)
  PROVE  ExactInv'
<1>1. sync' = [sync EXCEPT ![y] = NoSync] /\ UNCHANGED <<githubVars, row, links>>
  BY DEF SyncDies, SyncForgotten
<1>2. ExactSync(NoSync, github, members, row, links)
  BY NoSyncGood DEF ExactSync
<1> QED BY <1>1, <1>2, SyncMovesExact

LEMMA SyncStartExact ==
  ASSUME IInv, ExactInv, NEW y \in Syncs, NEW u \in Users, SyncStart(y, u)
  PROVE  ExactInv'
<1> DEFINE v == Visible(u)
           x == [NoSync EXCEPT !.pc = "list", !.user = u, !.listed = v]
<1>1. sync' = [sync EXCEPT ![y] = x] /\ UNCHANGED <<githubVars, row, links>>
  BY DEF SyncStart
<1>2. v = {i \in Installations : u \in members[i]}
  BY DEF Visible
<1> HIDE DEF v
<1>3. x.pc = "list" /\ x.user = u /\ x.listed = v
  BY DEF NoSync
<1> HIDE DEF x
<1>4. ExactSync(x, github, members, row, links)
  BY <1>2, <1>3 DEF ExactSync
<1> QED BY <1>1, <1>4, SyncMovesExact

LEMMA SyncListExact ==
  ASSUME IInv, ExactInv, NEW y \in Syncs, SyncList(y)
  PROVE  ExactInv'
<1> DEFINE a == {i \in sync[y].listed : github[i] \in Listable}
           pc == IF a = {} THEN "drop" ELSE "row"
           st == [i \in Installations |-> IF i \in a THEN github[i] ELSE "ACTIVE"]
           x == [sync[y] EXCEPT !.pc = pc, !.listed = a, !.todo = a, !.status = st]
<1>1. /\ sync[y] \in Sync /\ sync[y].pc = "list"
      /\ ExactSync(sync[y], github, members, row, links)
  BY DEF SyncList, IInv, SyncInv, ExactInv
<1>2. sync' = [sync EXCEPT ![y] = x] /\ UNCHANGED <<githubVars, row, links>>
  BY DEF SyncList, IInv, SyncInv
<1>3. /\ a \subseteq Installations /\ \A i \in a : st[i] = github[i]
      /\ pc \in {"drop", "row"} /\ (pc = "drop" => a = {})
  BY <1>1 DEF Sync
<1>4. sync[y].quiet => a = Live(sync[y].user, github, members)
  BY <1>1 DEF ExactSync, Live
<1> HIDE DEF a, pc, st
<1>5. /\ x.pc = pc /\ x.user = sync[y].user /\ x.listed = a /\ x.todo = a
      /\ x.status = st /\ x.quiet = sync[y].quiet
  BY <1>1 DEF Sync
<1> HIDE DEF x
<1>6. ExactSync(x, github, members, row, links)
  BY <1>3, <1>4, <1>5 DEF ExactSync
<1> QED BY <1>2, <1>6, SyncMovesExact

LEMMA SyncRowExact ==
  ASSUME IInv, ExactInv, NEW y \in Syncs, NEW i \in Installations, SyncRow(y, i)
  PROVE  ExactInv'
<1> DEFINE status == sync[y].status[i]
           base == Noticed(i, status)
           x == [[base[y] EXCEPT !.pc = "link"] EXCEPT !.at = i]
<1>1. /\ sync[y] \in Sync /\ sync[y].pc = "row" /\ i \in sync[y].todo
      /\ SyncGood(sync[y], row, everMember)
      /\ ExactSync(sync[y], github, members, row, links)
  BY DEF SyncRow, IInv, SyncInv, ExactInv
<1>2. /\ row' = [row EXCEPT ![i] = status] /\ UNCHANGED <<github, members, links>>
      /\ sync' = [base EXCEPT ![y].pc = "link", ![y].at = i]
  BY DEF SyncRow, githubVars
<1>3. base = Disturbed(sync) \/ (base = sync /\ Harmless)
  BY <1>2, NoticedOrHarmless
<1>4. base \in [Syncs -> Sync] /\ base[y] \in Sync
  BY <1>3, DisturbedSync DEF IInv, SyncInv
<1> HIDE DEF status, base
<1>5. sync' = [base EXCEPT ![y] = x]
  BY <1>2, <1>4
<1>6. /\ x.pc = "link" /\ x.at = i /\ x.user = base[y].user /\ x.quiet = base[y].quiet
      /\ x.listed = base[y].listed /\ x.todo = base[y].todo /\ x.status = base[y].status
  BY <1>4 DEF Sync
<1> HIDE DEF x
<1>7. ExactSync(x, github', members', row', links')
  <2>1. CASE base = Disturbed(sync)
    <3>1. base[y].pc # "idle"
      BY <1>1, <2>1, DisturbedSync DEF IInv
    <3>2. ~x.quiet
      BY <1>6, <2>1, <3>1, DisturbedQuiet DEF IInv
    <3> QED BY <3>2 DEF ExactSync
  <2>2. CASE base = sync /\ x.quiet
    <3>1. i \in sync[y].listed
      BY <1>1 DEF SyncGood
    <3>2. status = github[i]
      BY <1>1, <1>6, <2>2, <3>1 DEF ExactSync, status
    <3>3. row'[i] = github[i] /\ \A k \in Installations : row[k] = github[k] => row'[k] = github[k]
      BY <1>2, <3>2 DEF IInv, TableInv
    <3>4. x.listed \subseteq Installations
      BY <1>1, <1>6, <2>2 DEF Sync
    <3> QED BY <1>1, <1>2, <1>6, <2>2, <3>3, <3>4 DEF ExactSync
  <2>3. CASE ~x.quiet
    BY <2>3 DEF ExactSync
  <2> QED BY <1>3, <2>1, <2>2, <2>3
<1> QED BY <1>3, <1>4, <1>5, <1>7, ExactMoves

LEMMA SyncLinkExact ==
  ASSUME IInv, ExactInv, NEW y \in Syncs, SyncLink(y)
  PROVE  ExactInv'
<1> DEFINE i == sync[y].at
           u == sync[y].user
           rest == sync[y].todo \ {i}
           pc == IF rest = {} THEN "drop" ELSE "row"
           outdated == github[i] \notin Listable \/ u \notin members[i]
           base == IF outdated THEN Disturbed(sync) ELSE sync
           x == [[[base[y] EXCEPT !.pc = pc] EXCEPT !.at = NoInstallation] EXCEPT !.todo = rest]
<1>1. /\ sync[y] \in Sync /\ sync[y].pc = "link" /\ SyncGood(sync[y], row, everMember)
      /\ ExactSync(sync[y], github, members, row, links)
  BY DEF SyncLink, IInv, SyncInv, ExactInv
<1>2. /\ i \in Installations /\ u \in Users /\ i \in sync[y].listed
  BY <1>1 DEF SyncGood, Sync
<1>3. /\ links' = links \cup {<<u, i>>} /\ UNCHANGED <<github, members, row>>
      /\ sync' = [base EXCEPT ![y].pc = pc, ![y].at = NoInstallation, ![y].todo = rest]
  BY DEF SyncLink, githubVars
<1>4. base = Disturbed(sync) \/ (base = sync /\ Harmless)
  <2>1. CASE ~outdated
    <3>1. i \in Live(u, github, members)
      BY <1>2, <2>1 DEF Live
    <3>2. Harmless
      BY <1>3, <3>1 DEF Harmless
    <3> QED BY <2>1, <3>2
  <2> QED BY <2>1
<1>5. base \in [Syncs -> Sync] /\ base[y] \in Sync
  BY <1>4, DisturbedSync DEF IInv, SyncInv
<1>6. pc \in {"drop", "row"} /\ (pc = "drop" => rest = {})
  OBVIOUS
<1> HIDE DEF pc, base, outdated
<1>7. sync' = [base EXCEPT ![y] = x]
  BY <1>3, <1>5
<1>8. /\ x.pc = pc /\ x.user = base[y].user /\ x.quiet = base[y].quiet
      /\ x.listed = base[y].listed /\ x.todo = rest /\ x.status = base[y].status
  BY <1>5 DEF Sync
<1> HIDE DEF x
<1>9. ExactSync(x, github', members', row', links')
  <2>1. CASE base = Disturbed(sync)
    <3>1. base[y].pc # "idle"
      BY <1>1, <2>1, DisturbedSync DEF IInv
    <3>2. ~x.quiet
      BY <1>8, <2>1, <3>1, DisturbedQuiet DEF IInv
    <3> QED BY <3>2 DEF ExactSync
  <2>2. CASE base = sync /\ x.quiet
    <3>1. /\ sync[y].listed = Live(u, github, members)
          /\ \A k \in sync[y].listed : sync[y].status[k] = github[k]
          /\ \A k \in sync[y].listed \ sync[y].todo : row[k] = github[k] /\ <<u, k>> \in links
          /\ row[i] = github[i]
      BY <1>1, <1>8, <2>2 DEF ExactSync
    <3>2. \A k \in sync[y].listed \ rest : row[k] = github[k] /\ <<u, k>> \in links'
      BY <1>3, <3>1
    <3> QED BY <1>3, <1>6, <1>8, <2>2, <3>1, <3>2 DEF ExactSync
  <2>3. CASE ~x.quiet
    BY <2>3 DEF ExactSync
  <2> QED BY <1>4, <2>1, <2>2, <2>3
<1> QED BY <1>4, <1>5, <1>7, <1>9, ExactMoves

LEMMA SyncDropExact ==
  ASSUME IInv, ExactInv, NEW y \in Syncs, SyncDrop(y)
  PROVE  ExactInv'
<1> DEFINE u == sync[y].user
           outdated == sync[y].listed # {i \in Visible(u) : github[i] \in Listable}
           base == IF outdated THEN Disturbed(sync) ELSE sync
           x == [base[y] EXCEPT !.pc = "done"]
<1>1. /\ sync[y] \in Sync /\ sync[y].pc = "drop" /\ SyncGood(sync[y], row, everMember)
      /\ ExactSync(sync[y], github, members, row, links)
  BY DEF SyncDrop, IInv, SyncInv, ExactInv
<1>2. u \in Users /\ sync[y].listed \subseteq Installations
  BY <1>1 DEF SyncGood, Sync
<1>3. /\ links' = links \ {<<u, i>> : i \in Installations \ sync[y].listed}
      /\ UNCHANGED <<github, members, row>>
      /\ sync' = [base EXCEPT ![y].pc = "done"]
  BY DEF SyncDrop, githubVars, Unlinked
<1>4. /\ \A v \in Users, i \in Installations :
           <<v, i>> \in links' <=> <<v, i>> \in links /\ (v = u => i \in sync[y].listed)
  BY <1>3
<1>5. base = Disturbed(sync) \/ (base = sync /\ Harmless)
  <2>1. CASE ~outdated
    <3>1. sync[y].listed = Live(u, github, members)
      BY <2>1 DEF Live, Visible
    <3>2. Harmless
      BY <1>3, <1>4, <3>1 DEF Harmless
    <3> QED BY <2>1, <3>2
  <2> QED BY <2>1
<1>6. base \in [Syncs -> Sync] /\ base[y] \in Sync
  BY <1>5, DisturbedSync DEF IInv, SyncInv
<1> HIDE DEF base, outdated
<1>7. sync' = [base EXCEPT ![y] = x]
  BY <1>3, <1>6
<1>8. /\ x.pc = "done" /\ x.user = base[y].user /\ x.quiet = base[y].quiet
      /\ x.listed = base[y].listed /\ x.todo = base[y].todo /\ x.status = base[y].status
  BY <1>6 DEF Sync
<1> HIDE DEF x
<1>9. ExactSync(x, github', members', row', links')
  <2>1. CASE base = Disturbed(sync)
    <3>1. base[y].pc # "idle"
      BY <1>1, <2>1, DisturbedSync DEF IInv
    <3>2. ~x.quiet
      BY <1>8, <2>1, <3>1, DisturbedQuiet DEF IInv
    <3> QED BY <3>2 DEF ExactSync
  <2>2. CASE base = sync /\ x.quiet
    <3>1. /\ sync[y].listed = Live(u, github, members) /\ sync[y].todo = {}
          /\ \A k \in sync[y].listed : sync[y].status[k] = github[k]
          /\ \A k \in sync[y].listed \ sync[y].todo : row[k] = github[k] /\ <<u, k>> \in links
      BY <1>1, <1>8, <2>2 DEF ExactSync
    <3>2. \A k \in sync[y].listed \ sync[y].todo : row[k] = github[k] /\ <<u, k>> \in links'
      BY <1>2, <1>4, <3>1
    <3>3. \A k \in Installations : <<u, k>> \in links' => k \in sync[y].listed
      BY <1>2, <1>4
    <3> QED BY <1>3, <1>8, <2>2, <3>1, <3>2, <3>3 DEF ExactSync
  <2>3. CASE ~x.quiet
    BY <2>3 DEF ExactSync
  <2> QED BY <1>5, <2>1, <2>2, <2>3
<1> QED BY <1>5, <1>6, <1>7, <1>9, ExactMoves

LEMMA NextExact == IInv /\ ExactInv /\ [Next]_vars => ExactInv'
<1> SUFFICES ASSUME IInv, ExactInv, [Next]_vars PROVE ExactInv'
  OBVIOUS
<1>1. CASE GithubStep
  <2>1. PICK i \in Installations :
          \/ GithubInstalls(i) \/ GithubSuspends(i) \/ GithubUnsuspends(i)
          \/ GithubTouches(i) \/ GithubDeletes(i)
          \/ \E u \in Users : MembershipChanges(i, u)
    BY <1>1 DEF GithubStep
  <2>2. CASE \E u \in Users : MembershipChanges(i, u)
    BY <2>2, ExactUndisturbed DEF MembershipChanges
  <2>3. CASE \E status, hook : GithubChange(i, status, hook)
    BY <2>3, GithubExact
  <2> QED BY <2>1, <2>2, <2>3
          DEF GithubInstalls, GithubSuspends, GithubUnsuspends, GithubTouches, GithubDeletes
<1>2. CASE \E w \in Webhook : Deliver(w)
  BY <1>2, DeliverExact
<1>3. CASE \E c \in Callbacks : CallbackSave(c) \/ UpdateSave(c)
  BY <1>3, CallbackSaveExact, UpdateSaveExact
<1>4. CASE sync' = sync /\ UNCHANGED <<github, members, row, links>>
  BY <1>4, HarmlessWhenUnchanged, ExactUndisturbed
<1>5. CASE CallbackStep /\ ~\E c \in Callbacks : CallbackSave(c) \/ UpdateSave(c)
  BY <1>4, <1>5 DEF CallbackStep, CreateInstallUrl, StateExpires, CallbackStart,
     CallbackFetch, CallbackVerify, CallbackRejected, githubVars
<1>6. CASE SyncStep
  BY <1>6, SyncStartExact, SyncListExact, SyncRowExact, SyncLinkExact, SyncDropExact,
     SyncEndsExact DEF SyncStep
<1>7. CASE UNCHANGED vars
  BY <1>4, <1>7 DEF vars
<1> QED BY <1>1, <1>2, <1>3, <1>5, <1>6, <1>7 DEF Next

\* When a synchronisation completes and nothing out of date was written
\* meanwhile, the user's usable installations are exactly those GitHub has
\* live and lets the user see: it repairs whatever lost, repeated and
\* reordered webhooks, dead synchronisations and late callbacks left behind.
THEOREM QuietSyncsAreExact == Spec => []QuietSyncIsExact
<1>1. Init => ExactInv
  BY NoSyncGood DEF Init, ExactInv, ExactSync
<1>2. IInv /\ ExactInv => QuietSyncIsExact
  <2> SUFFICES ASSUME IInv, ExactInv, NEW y \in Syncs, sync[y].pc = "done", sync[y].quiet
               PROVE  Usable(sync[y].user) = {i \in Installations :
                        sync[y].user \in members[i] /\ github[i] = "ACTIVE"}
    BY DEF QuietSyncIsExact
  <2> DEFINE u == sync[y].user
             l == sync[y].listed
  <2>1. /\ l = Live(u, github, members)
        /\ \A i \in l : row[i] = github[i] /\ <<u, i>> \in links
        /\ \A i \in Installations : <<u, i>> \in links => i \in l
    BY DEF ExactInv, ExactSync
  <2> HIDE DEF u, l
  <2>2. Usable(u) = {i \in Installations : u \in members[i] /\ github[i] = "ACTIVE"}
    BY <2>1 DEF Usable, Live, Listable
  <2> QED BY <2>2 DEF u
<1> QED BY <1>1, <1>2, NextExact, InvProved, PTL DEF Spec
=============================================================================
