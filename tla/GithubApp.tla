----------------------------- MODULE GithubApp -----------------------------
(***************************************************************************)
(* GitHub App installations: the rows and links that say which             *)
(* installations a user may collect through.  Three writers race on them:  *)
(* the installation callback (GithubAppService.completeInstallation), the  *)
(* synchronisation behind every listing (syncUserInstallations) and the    *)
(* webhooks (GithubAppWebhookService.handle).  A step ends at an await of  *)
(* GitHub or of the database.                                              *)
(*                                                                         *)
(* GitHub is external: it installs, suspends and deletes installations,    *)
(* changes who may see them, and delivers each webhook late, more than     *)
(* once, out of order or never.                                            *)
(***************************************************************************)
EXTENDS Integers, FiniteSets

CONSTANTS
  Users,
  Installations,
  Callbacks,   \* installation callbacks in flight
  Syncs,       \* synchronisations in flight
  States,      \* install states (GithubAppInstallState rows)
  NoUser,
  NoInstallation,
  NoState

ASSUME GithubAppAssumption ==
  /\ NoUser \notin Users
  /\ NoInstallation \notin Installations
  /\ NoState \notin States

VARIABLES
  github,    \* status of each installation at GitHub
  members,   \* who may see an installation
  sent,      \* the webhooks GitHub has emitted so far
  row,       \* GithubInstallation.status, "absent" before the first upsert
  links,     \* UserGithubInstallation: pairs <<user, installation>>
  state,     \* GithubAppInstallState: user while open, spent once used or expired
  callback,  \* completeInstallation in flight
  sync,      \* syncUserInstallations in flight
  everMember \* history: pairs that were once true at GitHub

githubVars == <<github, members, sent, everMember>>
vars == <<github, members, sent, row, links, state, callback, sync, everMember>>

Listable == {"ACTIVE", "SUSPENDED"}
RowStatus == Listable \cup {"absent", "DELETED"}

\* What a webhook asks for: "deleted" and "suspend" name the action of an
\* installation event; every other event carries the installation and upserts
\* the status it had.
Webhook == [installation : Installations,
            action : {"deleted", "suspend", "upsert"},
            status : Listable]

InstallState == [user : Users \cup {NoUser},
                 status : {"unissued", "open", "spent"}]

\* A callback without a state ("update") only refreshes the row.
Callback == [pc : {"idle", "fetch", "verify", "save"},
             state : States \cup {NoState},
             user : Users \cup {NoUser},   \* the state's, as it was read
             installation : Installations \cup {NoInstallation},
             status : Listable]

Sync == [pc : {"idle", "list", "row", "link", "drop", "done"},
         user : Users \cup {NoUser},
         listed : SUBSET Installations,        \* orgs at first, then what is accessible
         status : [Installations -> Listable], \* what the listing said
         todo : SUBSET Installations,
         at : Installations \cup {NoInstallation},
         quiet : BOOLEAN]                      \* history: nothing out of date was written

Spent == [user |-> NoUser, status |-> "spent"]

NoCallback == [pc |-> "idle", state |-> NoState, user |-> NoUser,
               installation |-> NoInstallation, status |-> "ACTIVE"]

NoSync == [pc |-> "idle", user |-> NoUser, listed |-> {},
           status |-> [i \in Installations |-> "ACTIVE"],
           todo |-> {}, at |-> NoInstallation, quiet |-> TRUE]

\* The variables have their types, and a deleted installation was once stored:
\* a webhook changes the status of a row but "deleted" creates none.
TypeOK ==
  /\ github \in [Installations -> RowStatus]
  /\ members \in [Installations -> SUBSET Users]
  /\ sent \subseteq Webhook
  /\ row \in [Installations -> RowStatus]
  /\ links \subseteq (Users \X Installations)
  /\ \A l \in links : row[l[2]] # "absent"
  /\ state \in [States -> InstallState]
  /\ callback \in [Callbacks -> Callback]
  /\ sync \in [Syncs -> Sync]
  /\ everMember \subseteq (Users \X Installations)

Init ==
  /\ github = [i \in Installations |-> "absent"]
  /\ members \in [Installations -> SUBSET Users]
  /\ sent = {}
  /\ row = [i \in Installations |-> "absent"]
  /\ links = {}
  /\ state = [s \in States |-> [user |-> NoUser, status |-> "unissued"]]
  /\ callback = [c \in Callbacks |-> NoCallback]
  /\ sync = [y \in Syncs |-> NoSync]
  /\ everMember = {p \in Users \X Installations : p[1] \in members[p[2]]}

----------------------------------------------------------------------------
(* GitHub.                                                                 *)

Hook(i, action, status) == [installation |-> i, action |-> action, status |-> status]

\* A synchronisation in progress is no longer undisturbed.
Disturbed(sy) == [y \in Syncs |-> [sy[y] EXCEPT !.quiet = @ /\ sy[y].pc = "idle"]]

\* The installation is created, suspended, unsuspended, deleted, or its
\* repositories or account name change.
GithubChange(i, status, hook) ==
  /\ github' = [github EXCEPT ![i] = status]
  /\ sent' = sent \cup {hook}
  /\ sync' = IF status = github[i] THEN sync ELSE Disturbed(sync)
  /\ UNCHANGED <<members, everMember, row, links, state, callback>>

GithubInstalls(i) ==
  github[i] = "absent" /\ GithubChange(i, "ACTIVE", Hook(i, "upsert", "ACTIVE"))
GithubSuspends(i) ==
  github[i] = "ACTIVE" /\ GithubChange(i, "SUSPENDED", Hook(i, "suspend", "SUSPENDED"))
GithubUnsuspends(i) ==
  github[i] = "SUSPENDED" /\ GithubChange(i, "ACTIVE", Hook(i, "upsert", "ACTIVE"))
GithubTouches(i) ==
  github[i] \in Listable /\ GithubChange(i, github[i], Hook(i, "upsert", github[i]))
GithubDeletes(i) ==
  github[i] \in Listable /\ GithubChange(i, "DELETED", Hook(i, "deleted", "ACTIVE"))

\* A user joins or leaves the organisation of an installation. An installation
\* on a user account is one whose only member never changes.
MembershipChanges(i, u) ==
  /\ members' = [members EXCEPT ![i] = IF u \in @ THEN @ \ {u} ELSE @ \cup {u}]
  /\ everMember' = everMember \cup {<<v, i>> : v \in members'[i]}
  /\ sync' = Disturbed(sync)
  /\ UNCHANGED <<github, sent, row, links, state, callback>>

----------------------------------------------------------------------------
(* Webhooks.                                                               *)

\* A row is written: other synchronisations notice when the status is not the
\* one GitHub has.  What a row of a deleted installation says does not matter
\* to them: nobody may be linked to it.
Noticed(i, status) ==
  IF github[i] \in {status, "DELETED"} THEN sync ELSE Disturbed(sync)

\* A seeded fault for the mutant of Deliver: "deleted" removes the row.
DeliverRemoving(w) ==
  LET i == w.installation
      status == IF w.action = "deleted" THEN "absent" ELSE w.status
  IN /\ w \in sent
     /\ w.action = "upsert" \/ row[i] # "absent"
     /\ row' = [row EXCEPT ![i] = status]
     /\ sync' = Noticed(i, status)
     /\ UNCHANGED <<githubVars, links, state, callback>>

\* handle: "deleted" and "suspend" update an existing row, any other event
\* upserts it with the status the event carries.
Deliver(w) ==
  LET i == w.installation
      status == IF w.action = "deleted" THEN "DELETED" ELSE w.status
  IN /\ w \in sent
     /\ \/ w.action = "upsert"
        \/ w.action # "upsert" /\ row[i] # "absent"
     /\ row' = [row EXCEPT ![i] = status]
     /\ sync' = Noticed(i, status)
     /\ UNCHANGED <<githubVars, links, state, callback>>

----------------------------------------------------------------------------
(* The installation callback.                                              *)

\* createInstallUrl stores a state for the user and signs it into the URL.
CreateInstallUrl(s, u) ==
  /\ state[s].status = "unissued"
  /\ state' = [state EXCEPT ![s] = [user |-> u, status |-> "open"]]
  /\ UNCHANGED <<githubVars, row, links, callback, sync>>

\* Ten minutes pass.
StateExpires(s) ==
  /\ state[s].status = "open"
  /\ state' = [state EXCEPT ![s] = Spent]
  /\ UNCHANGED <<githubVars, row, links, callback, sync>>

\* completeInstallation reads the state, which must be neither consumed nor
\* expired.  Without a state it must be an update.
CallbackStart(c, s, i) ==
  /\ callback[c].pc = "idle"
  /\ s # NoState => state[s].status = "open"
  /\ callback' = [callback EXCEPT ![c] =
       [NoCallback EXCEPT !.pc = "fetch", !.state = s, !.installation = i,
                          !.user = IF s = NoState THEN NoUser ELSE state[s].user]]
  /\ UNCHANGED <<githubVars, row, links, state, sync>>

\* fetchInstallation: GitHub knows the installation.
CallbackFetch(c) ==
  LET i == callback[c].installation
  IN /\ callback[c].pc = "fetch"
     /\ github[i] \in Listable
     /\ callback' = [callback EXCEPT
          ![c].pc = IF callback[c].state = NoState THEN "save" ELSE "verify",
          ![c].status = github[i]]
     /\ UNCHANGED <<githubVars, row, links, state, sync>>

\* A seeded fault for the mutant of CallbackVerify: nobody asks GitHub.
CallbackVerifyNothing(c) ==
  /\ callback[c].pc = "verify"
  /\ callback' = [callback EXCEPT ![c].pc = "save"]
  /\ UNCHANGED <<githubVars, row, links, state, sync>>

\* verifyUserAccess: the state's user owns the account or is a member of it.
CallbackVerify(c) ==
  /\ callback[c].pc = "verify"
  /\ callback[c].user \in members[callback[c].installation]
  /\ callback' = [callback EXCEPT ![c].pc = "save"]
  /\ UNCHANGED <<githubVars, row, links, state, sync>>

\* GitHub does not answer, does not know the installation or denies access.
CallbackRejected(c) ==
  /\ callback[c].pc \in {"fetch", "verify"}
  /\ callback' = [callback EXCEPT ![c] = NoCallback]
  /\ UNCHANGED <<githubVars, row, links, state, sync>>

\* One transaction upserts the row and the link and consumes the state: the
\* update has no condition, so a state consumed meanwhile is consumed again.
CallbackSave(c) ==
  LET s == callback[c].state
      i == callback[c].installation
      u == callback[c].user
      outdated == github[i] # callback[c].status \/ u \notin members[i]
  IN /\ callback[c].pc = "save"
     /\ s # NoState
     /\ row' = [row EXCEPT ![i] = callback[c].status]
     /\ links' = links \cup {<<u, i>>}
     /\ state' = [state EXCEPT ![s] = Spent]
     /\ sync' = IF outdated THEN Disturbed(sync) ELSE sync
     /\ callback' = [callback EXCEPT ![c] = NoCallback]
     /\ UNCHANGED githubVars

\* completeInstallationUpdate upserts the row only.
UpdateSave(c) ==
  LET i == callback[c].installation
  IN /\ callback[c].pc = "save"
     /\ callback[c].state = NoState
     /\ row' = [row EXCEPT ![i] = callback[c].status]
     /\ sync' = Noticed(i, callback[c].status)
     /\ callback' = [callback EXCEPT ![c] = NoCallback]
     /\ UNCHANGED <<githubVars, links, state>>

----------------------------------------------------------------------------
(* The synchronisation.                                                    *)

\* The installations user u may see by the organisations GitHub lists, and the
\* user's own account.
Visible(u) == {i \in Installations : u \in members[i]}

\* syncUserInstallations reads the user and lists the user's organisations.
SyncStart(y, u) ==
  /\ sync[y].pc \in {"idle", "done"}
  /\ sync' = [sync EXCEPT ![y] =
       [NoSync EXCEPT !.pc = "list", !.user = u, !.listed = Visible(u)]]
  /\ UNCHANGED <<githubVars, row, links, state, callback>>

\* The app's installations are listed and those not accessible are skipped.
SyncList(y) ==
  LET accessible == {i \in sync[y].listed : github[i] \in Listable}
  IN /\ sync[y].pc = "list"
     /\ sync' = [sync EXCEPT ![y] =
          [@ EXCEPT !.pc = IF accessible = {} THEN "drop" ELSE "row",
                    !.listed = accessible,
                    !.todo = accessible,
                    !.status = [i \in Installations |->
                       IF i \in accessible THEN github[i] ELSE "ACTIVE"]]]
     /\ UNCHANGED <<githubVars, row, links, state, callback>>

\* A seeded fault for the mutant of SyncRow: an existing row is left alone.
SyncRowCreating(y, i) ==
  LET status == sync[y].status[i]
  IN /\ sync[y].pc = "row"
     /\ i \in sync[y].todo
     /\ row' = [row EXCEPT ![i] = IF @ = "absent" THEN status ELSE @]
     /\ sync' = [Noticed(i, status) EXCEPT ![y].pc = "link", ![y].at = i]
     /\ UNCHANGED <<githubVars, links, state, callback>>

\* The row of the next installation is upserted.
SyncRow(y, i) ==
  LET status == sync[y].status[i]
  IN /\ sync[y].pc = "row"
     /\ i \in sync[y].todo
     /\ row' = [row EXCEPT ![i] = status]
     /\ sync' = [Noticed(i, status) EXCEPT ![y].pc = "link", ![y].at = i]
     /\ UNCHANGED <<githubVars, links, state, callback>>

\* Its link is upserted in a second statement.
SyncLink(y) ==
  LET i == sync[y].at
      u == sync[y].user
      outdated == github[i] \notin Listable \/ u \notin members[i]
      rest == sync[y].todo \ {i}
  IN /\ sync[y].pc = "link"
     /\ links' = links \cup {<<u, i>>}
     /\ sync' = [IF outdated THEN Disturbed(sync) ELSE sync EXCEPT
          ![y].pc = IF rest = {} THEN "drop" ELSE "row",
          ![y].at = NoInstallation,
          ![y].todo = rest]
     /\ UNCHANGED <<githubVars, row, state, callback>>

\* The user's links to installations the listing did not name.
Unlinked(y) == {<<sync[y].user, i>> : i \in Installations \ sync[y].listed}

\* They are deleted, and the listing answers.
SyncDrop(y) ==
  LET outdated == sync[y].listed # {i \in Visible(sync[y].user) : github[i] \in Listable}
  IN /\ sync[y].pc = "drop"
     /\ links' = links \ Unlinked(y)
     /\ sync' = [IF outdated THEN Disturbed(sync) ELSE sync EXCEPT ![y].pc = "done"]
     /\ UNCHANGED <<githubVars, row, state, callback>>

\* A call to GitHub or the database fails, or the process dies: what was
\* written stays.
SyncDies(y) ==
  /\ sync[y].pc \notin {"idle", "done"}
  /\ sync' = [sync EXCEPT ![y] = NoSync]
  /\ UNCHANGED <<githubVars, row, links, state, callback>>

\* The answer has been read.
SyncForgotten(y) ==
  /\ sync[y].pc = "done"
  /\ sync' = [sync EXCEPT ![y] = NoSync]
  /\ UNCHANGED <<githubVars, row, links, state, callback>>

----------------------------------------------------------------------------

GithubStep ==
  \/ \E i \in Installations :
       \/ GithubInstalls(i) \/ GithubSuspends(i) \/ GithubUnsuspends(i)
       \/ GithubTouches(i) \/ GithubDeletes(i)
       \/ \E u \in Users : MembershipChanges(i, u)

CallbackStep ==
  \/ \E s \in States, u \in Users : CreateInstallUrl(s, u)
  \/ \E s \in States : StateExpires(s)
  \/ \E c \in Callbacks :
       \/ \E s \in States \cup {NoState}, i \in Installations : CallbackStart(c, s, i)
       \/ CallbackFetch(c) \/ CallbackVerify(c) \/ CallbackRejected(c)
       \/ CallbackSave(c) \/ UpdateSave(c)

SyncStep ==
  \E y \in Syncs :
    \/ \E u \in Users : SyncStart(y, u)
    \/ \E i \in Installations : SyncRow(y, i)
    \/ SyncList(y) \/ SyncLink(y) \/ SyncDrop(y) \/ SyncDies(y) \/ SyncForgotten(y)

Next ==
  \/ GithubStep
  \/ \E w \in Webhook : Deliver(w)
  \/ CallbackStep
  \/ SyncStep

Spec == Init /\ [][Next]_vars

----------------------------------------------------------------------------
(* Properties.                                                             *)

\* getConnectionStatus and getActiveRepoInstallations: what the user may
\* collect through.
Usable(u) == {i \in Installations : <<u, i>> \in links /\ row[i] = "ACTIVE"}

\* Nobody is ever linked to an installation GitHub never let them see, however
\* callbacks, synchronisations and membership changes interleave.
LinkWasVerified == links \subseteq everMember

\* A synchronisation repairs what lost, repeated or reordered webhooks, dead
\* synchronisations and outdated callbacks left behind: when one completes and
\* nothing out of date was written meanwhile, the user's usable installations
\* are those GitHub has live and lets the user see, also when webhooks of a
\* deleted installation keep arriving.
QuietSyncIsExact ==
  \A y \in Syncs :
    sync[y].pc = "done" /\ sync[y].quiet =>
      Usable(sync[y].user)
        = {i \in Installations : sync[y].user \in members[i] /\ github[i] = "ACTIVE"}
=============================================================================
