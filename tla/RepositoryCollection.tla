------------------------ MODULE RepositoryCollection ------------------------
(***************************************************************************)
(* RepositoryCollectionService: one collection reads the pull requests of  *)
(* a repository whose updatedAt lies in (sourceCursor, collectionCutoff],  *)
(* page by page, most recently updated first, then the reviews of each and *)
(* the comments of each review, while the repository keeps changing.       *)
(*                                                                         *)
(* Every request is one action: what GitHub answers is read at that        *)
(* instant, and the loop body that handles the answer touches local state  *)
(* only. The callers are here as far as they move the window: a job fixes  *)
(* it when it is accepted, a retried job reuses it, and a successful       *)
(* analysis moves lastSyncTime.                                            *)
(***************************************************************************)
EXTENDS Naturals, FiniteSets

CONSTANTS
    PullRequests,      \* pull request numbers of the repository
    Reviews,           \* pull request -> number of its reviews
    Comments,          \* pull request -> comments of each of its reviews
    PageSize,          \* first: 100 of the pull request connection
    NestedPageSize,    \* first: 50 of reviews and comments
    Overlap,           \* how many rows a page may repeat of the page before
    MaxChanged,        \* COLLECTION_LIMITS.changedPullRequests
    MaxNodes,          \* COLLECTION_LIMITS.reviewAndCommentNodes
    Grain,             \* clock instants per distinguishable updatedAt
    MaxTime,           \* bound on the clock
    BrokenTime,        \* bound on the clock of a GitHub that breaks its promises
    MaxFaults          \* bound on failing requests

ASSUME ShapeAssumption ==
    /\ PullRequests \subseteq Nat /\ IsFiniteSet(PullRequests)
    /\ Reviews \in [PullRequests -> Nat] /\ Comments \in [PullRequests -> Nat]
ASSUME PageAssumption ==
    /\ PageSize \in Nat /\ NestedPageSize \in Nat /\ Overlap \in Nat
    /\ Overlap < PageSize /\ Overlap < NestedPageSize
ASSUME LimitAssumption ==
    /\ MaxChanged \in Nat /\ MaxNodes \in Nat
    /\ MaxTime \in Nat /\ MaxFaults \in Nat
    /\ Grain \in 1..(MaxTime + 1) /\ BrokenTime \in 0..MaxTime

VARIABLES
    honest,         \* GitHub answers with pages and cursors that make sense
    clock,          \* the next instant
    cutoffs,        \* history: the instants that ended a window
    changed,        \* pull request -> instant of its last change, 0: none yet
    lastSyncTime,   \* repositories.lastSyncTime, 0 for null
    analysed,       \* pull request -> versions a successful job covered
    failed,         \* windows of failed jobs, open to a retry
    window,         \* sourceCursor and collectionCutoff of the running job
    pc,             \* where the collection stands
    refreshed,      \* executeWithRetry has already replaced the token
    list,           \* collectPullRequests: cursor, visited cursors, seen rows
    collected,      \* rows of the window still to be read
    nested,         \* collectReviews and collectComments of one row
    nodes,          \* CollectionState of the finished pull requests
    result,         \* PullRequestDto rows
    faults

vars == <<honest, clock, cutoffs, changed, lastSyncTime, analysed, failed, window, pc,
          refreshed, list, collected, nested, nodes, result, faults>>
github == <<honest, clock, cutoffs, changed>>
progress == <<lastSyncTime, analysed, failed>>

-----------------------------------------------------------------------------
(* GitHub                                                                  *)

(* An instant as the API prints it: GitHub truncates to its grain.         *)
Seconds(t) == t - (t % Grain)
UpdatedAt(p) == Seconds(changed[p])

Horizon == IF honest THEN MaxTime ELSE BrokenTime

Existing == {p \in PullRequests : changed[p] # 0}

(* orderBy UPDATED_AT DESC: the sort value of a row, ties by number.       *)
Order(t, p) == <<Seconds(t), p>>
Key(p) == Order(changed[p], p)
Lower(a, b) == a[1] < b[1] \/ (a[1] = b[1] /\ a[2] < b[2])
NoCursor == <<0, 0>>

Page(ns, more, end) == [nodes |-> ns, hasNext |-> more, endCursor |-> end]

(* The rows after a cursor; a cursor stands for the row it was taken from. *)
After(cur) == {p \in Existing : cur = NoCursor \/ Lower(Key(p), cur)}

(* A page continues where the cursor stands, without a gap; it may repeat  *)
(* the last rows before it when rows were inserted above.                  *)
GenuinePage(ns, cur) ==
    LET rest == After(cur)
    IN  /\ \A x \in ns, y \in rest \ ns : Lower(Key(y), Key(x))
        /\ \A x \in ns \ rest, y \in Existing \ (rest \cup ns) :
               Lower(Key(x), Key(y))
        /\ Cardinality(ns \ rest) <= Overlap /\ Cardinality(ns) <= PageSize
        /\ rest \subseteq ns \/ Cardinality(ns) = PageSize

Lowest(ns) ==
    IF ns = {} THEN NoCursor
    ELSE CHOOSE k \in {Key(x) : x \in ns} :
             \A x \in ns : Key(x) = k \/ Lower(k, Key(x))

(* fetchPullRequests: what the server may answer to one request.           *)
FetchPullRequests(cur) ==
    IF ~honest
    THEN {Page(ns, more, end) :
            ns \in SUBSET Existing, more \in BOOLEAN,
            end \in {NoCursor} \cup {Key(p) : p \in Existing}}
    ELSE {Page(ns, ~(After(cur) \subseteq ns), Lowest(ns)) :
            ns \in {s \in SUBSET Existing : GenuinePage(s, cur)}}

(* Reviews and comments are listed in the order they were written; a       *)
(* broken answer repeats or withholds them all, under any cursor.          *)
NestedPages(cur, n) ==
    IF ~honest
    THEN {Page(ns, more, end) :
            ns \in {{}, 1..n}, more \in BOOLEAN, end \in 0..n}
    ELSE {Page({i \in 1..n : cur < i + o /\ i + o <= cur + NestedPageSize},
               cur + NestedPageSize - o < n, cur + NestedPageSize - o) :
            o \in {x \in 0..Overlap : x <= cur}}

(* Somebody opens or changes a pull request, its reviews or its comments.  *)
Change(p) ==
    /\ clock <= Horizon
    /\ changed' = [changed EXCEPT ![p] = clock]
    /\ clock' = clock + 1
    /\ UNCHANGED <<honest, cutoffs, progress, window, pc, refreshed, list,
                   collected, nested, nodes, result, faults>>

-----------------------------------------------------------------------------
(* Helpers of the collector                                                *)

Row(id, text) == [id |-> id, text |-> text]

(* observeUniqueNode, mergeOwnedNodes: a repeated node must carry the same *)
(* data.                                                                   *)
Conflict(ns, known) == \E n \in ns, m \in known : n.id = m.id /\ n # m

(* Mutant: a cursor that was already followed is followed again.           *)
ValidCursorAlways(page, cur, visited, none) ==
    page.endCursor # none /\ page.nodes # {}

(* nextCursor: no empty cursor, no empty page that claims a successor, no  *)
(* cursor twice.                                                           *)
ValidCursor(page, cur, visited, none) ==
    /\ page.endCursor # none
    /\ page.nodes # {}
    /\ page.endCursor # cur /\ page.endCursor \notin visited

NoList == [cursor |-> NoCursor, visited |-> {}, seen |-> {}]
NoPage == Page({}, FALSE, 0)
NoRow == Row(0, 0)
(* The locals of collectReviews, with those of the collectComments call it *)
(* is waiting for; nodes is the provisional CollectionState.               *)
ReviewsOf(row) ==
    [row |-> row, page |-> NoPage, text |-> 0, queue |-> {}, cursor |-> 0,
     visited |-> {}, review |-> 0, commentCursor |-> 0,
     commentVisited |-> {}, nodes |-> {}, parts |-> {}]

Dto(row, parts) == [id |-> row.id, text |-> row.text, parts |-> parts]

(* collectAttempt starts from empty accumulators.                          *)
StartAttempt(refresh) ==
    /\ pc' = "list" /\ refreshed' = refresh
    /\ list' = NoList /\ collected' = {} /\ nested' = ReviewsOf(NoRow)
    /\ nodes' = {} /\ result' = {}

(* An exception leaves collect: nothing that was read survives.            *)
Fail ==
    /\ pc' = "failed"
    /\ list' = NoList /\ collected' = {} /\ nested' = ReviewsOf(NoRow)
    /\ nodes' = {} /\ result' = {}
    /\ UNCHANGED refreshed

-----------------------------------------------------------------------------
(* The callers                                                             *)

(* A job, a synchronous request or an estimate: the window begins at       *)
(* lastSyncTime and ends now.                                              *)
Begin ==
    /\ pc = "idle" /\ clock <= Horizon
    /\ window' = [source |-> lastSyncTime, cutoff |-> clock]
    /\ cutoffs' = cutoffs \cup {clock}
    /\ clock' = clock + 1
    /\ StartAttempt(FALSE)
    /\ UNCHANGED <<honest, changed, progress, faults>>

(* Mutant: a retry keeps the cutoff but reads the source cursor afresh.    *)
RetryWindowFromCheckpoint(w) ==
    /\ pc = "idle"
    /\ window' = [source |-> lastSyncTime, cutoff |-> w.cutoff]
    /\ StartAttempt(FALSE)
    /\ UNCHANGED <<github, progress, faults>>

(* A retry, by the worker or by POST retry, reads the same window again.   *)
RetryWindow(w) ==
    /\ pc = "idle"
    /\ window' = w
    /\ StartAttempt(FALSE)
    /\ UNCHANGED <<github, progress, faults>>

(* The collection failed and the job with it, for now.                     *)
GiveUp ==
    /\ pc = "failed"
    /\ failed' = failed \cup {window} /\ pc' = "idle"
    /\ UNCHANGED <<github, lastSyncTime, analysed, window, refreshed, list,
                   collected, nested, nodes, result, faults>>

(* Mutant: lastSyncTime becomes the time at which the analysis ended.      *)
AdvancedToNow(cutoff) ==
    IF lastSyncTime < cutoff THEN clock - 1 ELSE lastSyncTime

(* The conditional updateMany of lastSyncTime.                             *)
Advanced(cutoff) == IF lastSyncTime < cutoff THEN cutoff ELSE lastSyncTime

(* The analysis of the collected data is saved and lastSyncTime moves.     *)
Analyse ==
    /\ pc = "done"
    /\ lastSyncTime' = Advanced(window.cutoff)
    /\ analysed' = [p \in PullRequests |->
                      analysed[p] \cup {d.text : d \in {r \in result : r.id = p}}]
    /\ failed' = failed \ {window} /\ pc' = "idle"
    /\ UNCHANGED <<github, window, refreshed, list, collected, nested, nodes,
                   result, faults>>

(* The analysis fails after the collection; the window stays open.         *)
AnalysisFails ==
    /\ pc = "done" /\ faults < MaxFaults
    /\ failed' = failed \cup {window} /\ pc' = "idle" /\ faults' = faults + 1
    /\ UNCHANGED <<github, lastSyncTime, analysed, window, refreshed, list,
                   collected, nested, nodes, result>>

(* estimateCost reads the same data and keeps nothing.                     *)
EstimateCost ==
    /\ pc = "done" /\ window \notin failed
    /\ pc' = "idle"
    /\ UNCHANGED <<github, progress, window, refreshed, list, collected,
                   nested, nodes, result, faults>>

-----------------------------------------------------------------------------
(* The collection                                                          *)

(* reachedSourceCursor: older rows were collected before.                  *)
Reached(ns) == \E p \in ns : UpdatedAt(p) <= window.source

InWindow(p) == UpdatedAt(p) <= window.cutoff

(* collectPullRequests, one page. The rows down to the source cursor are   *)
(* observed; those first seen and not newer than the cutoff are collected. *)
ListPage(page) ==
    LET observed == {Row(p, changed[p]) :
                       p \in {q \in page.nodes : UpdatedAt(q) > window.source}}
        fresh == {r \in observed : InWindow(r.id)
                                   /\ \A s \in list.seen : s.id # r.id}
        all == collected \cup fresh
    IN  /\ pc = "list"
        /\ \/ /\ \/ Conflict(observed, list.seen)
                 \/ Cardinality(all) > MaxChanged
                 \/ /\ ~Reached(page.nodes) /\ page.hasNext
                    /\ ~ValidCursor(page, list.cursor, list.visited, NoCursor)
              /\ Fail
           \/ /\ ~Conflict(observed, list.seen)
              /\ Cardinality(all) <= MaxChanged
              /\ \/ /\ Reached(page.nodes) \/ ~page.hasNext
                    /\ pc' = "next" /\ list' = NoList
                 \/ /\ ~Reached(page.nodes) /\ page.hasNext
                    /\ ValidCursor(page, list.cursor, list.visited, NoCursor)
                    /\ pc' = "list"
                    /\ list' = [cursor |-> page.endCursor,
                                visited |-> list.visited \cup {page.endCursor},
                                seen |-> list.seen \cup observed]
              /\ collected' = all
              /\ UNCHANGED <<refreshed, nested, nodes, result>>
        /\ UNCHANGED <<github, progress, window, faults>>

(* collectAttempt: the rows in the order they were listed.                 *)
NextPullRequest ==
    /\ pc = "next"
    /\ \/ /\ collected = {} /\ pc' = "done"
          /\ UNCHANGED <<collected, nested>>
       \/ \E row \in collected :
             /\ \A other \in collected :
                   ~Lower(Order(row.text, row.id), Order(other.text, other.id))
             /\ nested' = ReviewsOf(row)
             /\ collected' = collected \ {row}
             /\ pc' = "reviews"
    /\ UNCHANGED <<github, progress, window, refreshed, list, nodes, result,
                   faults>>

(* Mutant: what was read of a skipped pull request stays counted.          *)
SkipCounting ==
    /\ pc' = "next" /\ nested' = ReviewsOf(NoRow)
    /\ nodes' = nodes \cup nested.nodes
    /\ UNCHANGED <<refreshed, list, collected, result>>

(* collectReviews and collectComments return null: the pull request was    *)
(* changed after the cutoff and belongs to the next window.                *)
Skip ==
    /\ pc' = "next" /\ nested' = ReviewsOf(NoRow)
    /\ UNCHANGED <<refreshed, list, collected, nodes, result>>

(* Mutant: a page is taken whatever happened to its pull request.          *)
MovedOnNever(p) == FALSE

(* The updatedAt that comes with every nested page, against the cutoff.    *)
MovedOn(p) == UpdatedAt(p) > window.cutoff

(* collectReviews, one page.                                               *)
ReviewPage(page) ==
    LET p == nested.row.id
    IN  /\ pc = "reviews"
        /\ \/ MovedOn(p) /\ Skip
           \/ /\ ~MovedOn(p)
              /\ nested' = [nested EXCEPT
                              !.page = page, !.queue = page.nodes,
                              !.text = changed[p],
                              !.parts = @ \cup {changed[p]}]
              /\ pc' = "queue"
              /\ UNCHANGED <<refreshed, list, collected, nodes, result>>
        /\ UNCHANGED <<github, progress, window, faults>>

(* The loop over one page of reviews: a first observation is counted and   *)
(* its comments are read.                                                  *)
NextReview ==
    LET p == nested.row.id
    IN  /\ pc = "queue" /\ nested.queue # {}
        /\ \E i \in nested.queue :
             LET node == Row(<<p, i, 0>>, nested.text)
             IN  /\ \A j \in nested.queue : i <= j
                 /\ \/ /\ node \in nested.nodes
                       /\ nested' = [nested EXCEPT !.queue = @ \ {i}]
                       /\ UNCHANGED <<pc, refreshed, list, collected, nodes,
                                      result>>
                    \/ /\ node \notin nested.nodes
                       /\ \/ Conflict({node}, nested.nodes)
                          \/ Cardinality(nested.nodes) + 1 > MaxNodes
                       /\ Fail
                    \/ /\ node \notin nested.nodes
                       /\ ~Conflict({node}, nested.nodes)
                       /\ Cardinality(nested.nodes) + 1 <= MaxNodes
                       /\ nested' = [nested EXCEPT
                                       !.queue = @ \ {i}, !.review = i,
                                       !.commentCursor = 0,
                                       !.commentVisited = {},
                                       !.nodes = @ \cup {node}]
                       /\ pc' = "comments"
                       /\ UNCHANGED <<refreshed, list, collected, nodes,
                                      result>>
        /\ UNCHANGED <<github, progress, window, faults>>

(* collectComments, one page.                                              *)
CommentPage(page) ==
    LET p == nested.row.id
        observed == {Row(<<p, nested.review, j>>, changed[p]) :
                       j \in page.nodes}
        all == nested.nodes \cup observed
    IN  /\ pc = "comments"
        /\ \/ MovedOn(p) /\ Skip
           \/ /\ ~MovedOn(p)
              /\ \/ Conflict(observed, nested.nodes)
                 \/ Cardinality(all) > MaxNodes
                 \/ /\ page.hasNext
                    /\ ~ValidCursor(page, nested.commentCursor,
                                    nested.commentVisited, 0)
              /\ Fail
           \/ /\ ~MovedOn(p)
              /\ ~Conflict(observed, nested.nodes)
              /\ Cardinality(all) <= MaxNodes
              /\ \/ /\ ~page.hasNext
                    /\ nested' = [nested EXCEPT !.nodes = all,
                                    !.parts = @ \cup {changed[p]}]
                    /\ pc' = "queue"
                 \/ /\ page.hasNext
                    /\ ValidCursor(page, nested.commentCursor,
                                   nested.commentVisited, 0)
                    /\ nested' = [nested EXCEPT !.nodes = all,
                                    !.commentCursor = page.endCursor,
                                    !.commentVisited = @ \cup {page.endCursor},
                                    !.parts = @ \cup {changed[p]}]
                    /\ pc' = "comments"
              /\ UNCHANGED <<refreshed, list, collected, nodes, result>>
        /\ UNCHANGED <<github, progress, window, faults>>

(* The page of reviews is exhausted: the next page, or mergeCollection-    *)
(* State counts the nodes of the pull request again and it is delivered.   *)
ReviewsDone ==
    LET page == nested.page
        more == ValidCursor(page, nested.cursor, nested.visited, 0)
    IN  /\ pc = "queue" /\ nested.queue = {}
        /\ \/ /\ page.hasNext /\ more
              /\ nested' = [nested EXCEPT !.cursor = page.endCursor,
                              !.visited = @ \cup {page.endCursor}]
              /\ pc' = "reviews"
              /\ UNCHANGED <<refreshed, list, collected, nodes, result>>
           \/ page.hasNext /\ ~more /\ Fail
           \/ /\ ~page.hasNext
              /\ \/ Conflict(nested.nodes, nodes)
                 \/ Cardinality(nodes \cup nested.nodes) > MaxNodes
              /\ Fail
           \/ /\ ~page.hasNext
              /\ ~Conflict(nested.nodes, nodes)
              /\ Cardinality(nodes \cup nested.nodes) <= MaxNodes
              /\ nodes' = nodes \cup nested.nodes
              /\ result' = result \cup {Dto(nested.row, nested.parts)}
              /\ pc' = "next" /\ nested' = ReviewsOf(NoRow)
              /\ UNCHANGED <<refreshed, list, collected>>
        /\ UNCHANGED <<github, progress, window, faults>>

Requesting == pc \in {"list", "reviews", "comments"}

(* executeWithRetry: the first 401 replaces the token and the whole        *)
(* operation runs again; the second one is final.                          *)
Unauthorized ==
    /\ Requesting /\ faults < MaxFaults /\ faults' = faults + 1
    /\ IF refreshed THEN Fail ELSE StartAttempt(TRUE)
    /\ UNCHANGED <<github, progress, window>>

(* A request fails; or the answer is malformed, misses its parent, names   *)
(* another parent, repeats a node under a second parent or carries an      *)
(* invalid date; or onPage finds the lease lost.                           *)
RequestFails ==
    /\ Requesting /\ faults < MaxFaults /\ faults' = faults + 1
    /\ Fail
    /\ UNCHANGED <<github, progress, window>>

(***************************************************************************)

Init ==
    /\ honest \in BOOLEAN
    /\ clock = Grain /\ cutoffs = {} /\ changed = [p \in PullRequests |-> 0]
    /\ lastSyncTime = 0 /\ analysed = [p \in PullRequests |-> {}]
    /\ failed = {} /\ window = [source |-> 0, cutoff |-> 0]
    /\ pc = "idle" /\ refreshed = FALSE /\ list = NoList /\ collected = {}
    /\ nested = ReviewsOf(NoRow) /\ nodes = {} /\ result = {} /\ faults = 0

CollectorStep ==
    \/ \E page \in FetchPullRequests(list.cursor) : ListPage(page)
    \/ NextPullRequest
    \/ /\ pc = "reviews"
       /\ \E page \in NestedPages(nested.cursor, Reviews[nested.row.id]) :
             ReviewPage(page)
    \/ NextReview
    \/ /\ pc = "comments"
       /\ \E page \in NestedPages(nested.commentCursor,
                                  Comments[nested.row.id]) :
             CommentPage(page)
    \/ ReviewsDone

CallerStep ==
    Begin \/ GiveUp \/ Analyse \/ AnalysisFails \/ EstimateCost
    \/ \E w \in failed : RetryWindow(w)

Next ==
    \/ \E p \in PullRequests : Change(p)
    \/ CollectorStep \/ CallerStep \/ Unauthorized \/ RequestFails

Spec == Init /\ [][Next]_vars

(* A request that was sent is answered or fails: the HTTP client gives up  *)
(* at its timeout.                                                         *)
FairSpec == Spec /\ WF_vars(CollectorStep)

-----------------------------------------------------------------------------
(* Properties                                                              *)

Instant == 0..(MaxTime + 1)
Windows == {w \in [source : 0..MaxTime, cutoff : 0..MaxTime] :
              w.source <= w.cutoff}
Rows == [id : PullRequests, text : Instant]
Nodes == [id : PullRequests \X Nat \X Nat, text : Instant]

(* The types of the tables and of the accumulators; no caller passes a     *)
(* window that collect rejects (sourceCursor after collectionCutoff).      *)
TypeOK ==
    /\ honest \in BOOLEAN
    /\ clock \in 1..(MaxTime + 1) /\ cutoffs \subseteq 1..MaxTime
    /\ changed \in [PullRequests -> 0..MaxTime]
    /\ lastSyncTime \in 0..MaxTime
    /\ analysed \in [PullRequests -> SUBSET Instant]
    /\ window \in Windows /\ failed \subseteq Windows
    /\ pc \in {"idle", "list", "next", "reviews", "queue", "comments",
               "done", "failed"}
    /\ refreshed \in BOOLEAN
    /\ list.seen \subseteq Rows /\ collected \subseteq Rows
    /\ nested.row \in Rows \cup {NoRow} /\ nested.nodes \subseteq Nodes
    /\ nested.parts \subseteq Instant
    /\ nodes \subseteq Nodes
    /\ result \subseteq [id : PullRequests, text : Instant,
                         parts : SUBSET Instant]
    /\ faults \in 0..MaxFaults

(* A version made in the second of a cutoff but after it: updatedAt cannot *)
(* tell it from one the cutoff includes.                                   *)
Blurred(t, cutoff) == Seconds(t) <= cutoff /\ cutoff < t

(* lastSyncTime never runs ahead of the data: a pull request whose         *)
(* updatedAt it has passed, and which no later window will list, was       *)
(* analysed in its present version - whatever changed while pages were     *)
(* read, whichever job failed, restarted or was retried. The only versions *)
(* it can pass unread are those that a cutoff blurs.                       *)
NothingMissed ==
    honest => \A p \in Existing :
        UpdatedAt(p) <= lastSyncTime =>
            \/ changed[p] \in analysed[p]
            \/ \E c \in cutoffs : Blurred(changed[p], c)

(* A delivered pull request is one version of it: its row, its reviews and *)
(* its comments, read by separate requests, belong together, unless the    *)
(* cutoff blurs the change between them.                                   *)
CollectedIsOneVersion ==
    \A d \in result : \A t \in d.parts :
        t = d.text \/ Blurred(t, window.cutoff)

NodesOf(p) ==
    {<<p, i, j>> : i \in 1..Reviews[p], j \in 0..Comments[p]}

(* A collection that succeeds is complete and within its limits: it        *)
(* delivers every pull request that is still in the window, once, and its  *)
(* CollectionState holds exactly the reviews and comments of what it       *)
(* delivers, each counted once.                                            *)
CollectionIsComplete ==
    honest /\ pc = "done" =>
        /\ \A p \in Existing :
              window.source < UpdatedAt(p) /\ changed[p] <= window.cutoff
                  => \E d \in result : d.id = p /\ d.text = changed[p]
        /\ \A d, e \in result : d.id = e.id => d = e
        /\ {n.id : n \in nodes} = UNION {NodesOf(d.id) : d \in result}
        /\ Cardinality(nodes) <= MaxNodes
        /\ Cardinality(result) <= MaxChanged

(* A collection ends, even if GitHub answers with pages and cursors that   *)
(* make no sense: no cursor is followed twice.                             *)
CollectionEnds == pc = "list" ~> pc \in {"done", "failed"}

=============================================================================
