--------------------- MODULE RepositoryCollectionProofs ---------------------
(***************************************************************************)
(* The safety properties of RepositoryCollection, for any repository, any  *)
(* page sizes and limits, any grain of GitHub's clock and any number of    *)
(* changes, faults and retried windows.                                    *)
(*                                                                         *)
(* A row that was listed is the present version of its pull request or the *)
(* pull request has changed after the cutoff (VersionInv). While pages are *)
(* read, a pull request that has not and lies in the window is collected   *)
(* already or still behind the cursor, and later it is queued, being read  *)
(* or delivered (CoverInv); the same argument, one level down, counts the  *)
(* reviews and comments of the pull request being read (Read).             *)
(***************************************************************************)
EXTENDS RepositoryCollection, FiniteSetTheorems, TLAPS

Reading == pc \in {"reviews", "queue", "comments"}
Working == pc \in {"next", "reviews", "queue", "comments", "done"}

Cursors == Nat \X Nat
Lists == [cursor : Cursors, visited : SUBSET Cursors, seen : SUBSET Rows]
NestedPage == [nodes : SUBSET Nat, hasNext : BOOLEAN, endCursor : Nat]
NestedState ==
    [row : Rows \cup {NoRow}, page : NestedPage, text : Instant,
     queue : SUBSET Nat, cursor : Nat, visited : SUBSET Nat, review : Nat,
     commentCursor : Nat, commentVisited : SUBSET Nat, nodes : SUBSET Nodes,
     parts : SUBSET Instant]
Dtos == [id : PullRequests, text : Instant, parts : SUBSET Instant]

(* The types and times of GitHub and of the tables.                        *)
TimeInv ==
    /\ honest \in BOOLEAN
    /\ clock \in Grain..(MaxTime + 1)
    /\ cutoffs \subseteq 1..MaxTime
    /\ changed \in [PullRequests -> 0..MaxTime]
    /\ lastSyncTime \in cutoffs \cup {0}
    /\ analysed \in [PullRequests -> SUBSET Instant]
    /\ window \in Windows /\ failed \subseteq Windows
    /\ refreshed \in BOOLEAN /\ faults \in 0..MaxFaults
    /\ \A p \in PullRequests : changed[p] < clock
    /\ \A c \in cutoffs : c < clock
    /\ window.cutoff \in cutoffs \cup {0}
    /\ pc # "idle" => window.cutoff \in cutoffs
    /\ window.source <= lastSyncTime
    /\ \A w \in failed : w.cutoff \in cutoffs /\ w.source <= lastSyncTime

(* The types of the accumulators.                                          *)
LocalInv ==
    /\ pc \in {"idle", "list", "next", "reviews", "queue", "comments", "done", "failed"}
    /\ list \in Lists /\ collected \subseteq Rows
    /\ nested \in NestedState
    /\ Reading => nested.row \in Rows
    /\ nodes \subseteq Nodes /\ result \subseteq Dtos

-----------------------------------------------------------------------------
(* Instants                                                                *)

LEMMA InstantFacts ==
    /\ MaxTime \in Nat /\ Grain \in Nat \ {0} /\ Instant \subseteq Nat
    /\ 0..MaxTime \subseteq Instant /\ 0 \in Instant /\ 0..MaxTime \subseteq Nat
    /\ Horizon <= MaxTime /\ Horizon \in Nat
BY LimitAssumption DEF Instant, Horizon

LEMMA SecondsFacts ==
    ASSUME NEW t \in Nat
    PROVE  /\ Seconds(t) \in Nat /\ Seconds(t) <= t
           /\ t >= Grain => Seconds(t) >= 1
<1>1. Grain \in Nat \ {0}
  BY InstantFacts
<1>2. \A g \in Nat \ {0}, n \in Nat : n % g \in Nat /\ n % g < g
  OBVIOUS
<1>3. \A g \in Nat \ {0}, n \in Nat : n % g <= n
  OBVIOUS
<1> DEFINE m == t % Grain
<1>4. m \in Nat /\ m < Grain /\ m <= t
  BY <1>1, <1>2, <1>3
<1>5. Seconds(t) = t - m
  BY DEF Seconds
<1> HIDE DEF m
<1>6. QED
  BY <1>1, <1>4, <1>5

-----------------------------------------------------------------------------
(* The order of the rows, and what a page holds                            *)

LEMMA PullRequestFacts ==
    /\ PullRequests \subseteq Nat /\ IsFiniteSet(PullRequests)
    /\ \A p \in PullRequests : Reviews[p] \in Nat /\ Comments[p] \in Nat
BY ShapeAssumption

LEMMA KeyFacts ==
    ASSUME TimeInv, NEW p \in PullRequests
    PROVE  /\ changed[p] \in Nat /\ UpdatedAt(p) \in Nat /\ UpdatedAt(p) <= changed[p]
           /\ Key(p) \in Cursors /\ Key(p)[1] = UpdatedAt(p) /\ Key(p)[2] = p
<1>1. changed[p] \in Nat
  BY InstantFacts DEF TimeInv
<1>2. QED
  BY <1>1, SecondsFacts, PullRequestFacts DEF UpdatedAt, Key, Order, Cursors

LEMMA LowerOrder ==
    /\ \A a \in Cursors : ~Lower(a, a)
    /\ \A a, b, c \in Cursors : Lower(a, b) /\ Lower(b, c) => Lower(a, c)
    /\ \A a, b \in Cursors : a = b \/ Lower(a, b) \/ Lower(b, a)
    /\ \A a, b \in Cursors : Lower(a, b) => a[1] <= b[1]
BY DEF Cursors, Lower

(* A finite page has a last row: the row below which fewest rows lie.      *)
Under(ns, x) == {y \in ns : Lower(Key(y), Key(x))}

LEMMA LastRow ==
    ASSUME TimeInv, NEW ns \in SUBSET PullRequests, ns # {}
    PROVE  \E x \in ns : Under(ns, x) = {}
<1> DEFINE T == {Under(ns, x) : x \in ns}
<1>1. T \subseteq SUBSET ns /\ T # {}
  BY DEF Under
<1>2. IsFiniteSet(ns)
  BY PullRequestFacts, FS_Subset
<1>3. FiniteSubsetsOf(ns) = SUBSET ns
  BY <1>2, FS_FiniteSubsetsOfFinite
<1>4. IsWellFoundedOn(StrictSubsetOrdering(ns), SUBSET ns)
  BY <1>2, <1>3, FS_StrictSubsetOrderingWellFounded
<1> HIDE DEF T
<1>5. PICK U \in T : \A V \in T : ~(<<V, U>> \in StrictSubsetOrdering(ns))
  BY <1>1, <1>4, WFMin
<1>6. PICK x \in ns : U = Under(ns, x)
  BY <1>5 DEF T
<1>7. ASSUME NEW y \in Under(ns, x) PROVE FALSE
  <2>1. y \in ns /\ Lower(Key(y), Key(x))
    BY DEF Under
  <2>2. \A z \in ns : Key(z) \in Cursors
    BY KeyFacts
  <2>3. Under(ns, y) \subseteq Under(ns, x) /\ y \notin Under(ns, y)
    BY <2>1, <2>2, LowerOrder DEF Under
  <2>4. /\ Under(ns, y) \in T /\ Under(ns, y) \in SUBSET ns
        /\ Under(ns, x) \in SUBSET ns
    BY <2>1 DEF T, Under
  <2>5. <<Under(ns, y), Under(ns, x)>> \in StrictSubsetOrdering(ns)
    BY <2>3, <2>4 DEF StrictSubsetOrdering
  <2>6. QED
    BY <1>5, <1>6, <2>4, <2>5
<1>8. QED
  BY <1>7

LEMMA LowestFacts ==
    ASSUME TimeInv, NEW ns \in SUBSET PullRequests
    PROVE  /\ Lowest(ns) \in Cursors
           /\ ns # {} => \E x \in ns : Lowest(ns) = Key(x)
<1>1. CASE ns = {}
  BY <1>1 DEF Lowest, NoCursor, Cursors
<1>2. CASE ns # {}
  <2> DEFINE K == {Key(x) : x \in ns}
             Least(k) == \A x \in ns : Key(x) = k \/ Lower(k, Key(x))
  <2>1. PICK x \in ns : Under(ns, x) = {}
    BY <1>2, LastRow
  <2>2. Key(x) \in K /\ Least(Key(x))
    <3>1. \A y \in ns : Key(y) \in Cursors
      BY KeyFacts
    <3>2. QED
      BY <2>1, <3>1, LowerOrder DEF Under
  <2>3. Lowest(ns) = CHOOSE k \in K : Least(k)
    BY <1>2 DEF Lowest
  <2> HIDE DEF Least
  <2>4. Lowest(ns) \in K
    BY <2>2, <2>3
  <2>5. QED
    BY <2>4, KeyFacts
<1>3. QED
  BY <1>1, <1>2

(* A page of pull requests; an honest one has no gap.                      *)
LEMMA FetchFacts ==
    ASSUME TimeInv, NEW cur \in Cursors, NEW page \in FetchPullRequests(cur)
    PROVE  /\ page.nodes \subseteq Existing /\ page.nodes \subseteq PullRequests
           /\ page.endCursor \in Cursors
           /\ honest =>
                /\ \A x \in page.nodes, y \in After(cur) \ page.nodes :
                      Lower(Key(y), Key(x))
                /\ ~page.hasNext => After(cur) \subseteq page.nodes
                /\ page.nodes # {} => \E x \in page.nodes : page.endCursor = Key(x)
<1>1. Existing \subseteq PullRequests
  BY DEF Existing
<1>2. CASE honest
  <2>1. PICK ns \in SUBSET Existing :
           /\ GenuinePage(ns, cur)
           /\ page = Page(ns, ~(After(cur) \subseteq ns), Lowest(ns))
    BY <1>2 DEF FetchPullRequests
  <2>2. /\ page.nodes = ns /\ page.hasNext = ~(After(cur) \subseteq ns)
        /\ page.endCursor = Lowest(ns)
    BY <2>1 DEF Page
  <2>3. \A x \in ns, y \in After(cur) \ ns : Lower(Key(y), Key(x))
    BY <2>1 DEF GenuinePage
  <2>4. Lowest(ns) \in Cursors /\ (ns # {} => \E x \in ns : Lowest(ns) = Key(x))
    BY <1>1, LowestFacts
  <2>5. QED
    BY <1>1, <2>2, <2>3, <2>4
<1>3. CASE ~honest
  <2>1. PICK ns \in SUBSET Existing, more \in BOOLEAN,
             end \in {NoCursor} \cup {Key(p) : p \in Existing} :
               page = Page(ns, more, end)
    BY <1>3 DEF FetchPullRequests
  <2>2. page.nodes = ns /\ page.endCursor = end
    BY <2>1 DEF Page
  <2>3. end \in Cursors
    BY <1>1, KeyFacts DEF NoCursor, Cursors
  <2>4. QED
    BY <1>1, <1>3, <2>2, <2>3
<1>4. QED
  BY <1>2, <1>3

(* A page of reviews or of comments; honest ones meet without a gap.       *)
LEMMA NestedPageFacts ==
    ASSUME honest \in BOOLEAN, NEW cur \in Nat, NEW n \in Nat,
           NEW page \in NestedPages(cur, n)
    PROVE  /\ page \in NestedPage /\ page.nodes \subseteq 1..n
           /\ honest =>
                /\ page.hasNext <=> page.endCursor < n
                /\ \A i \in 1..n : i <= page.endCursor => i <= cur \/ i \in page.nodes
<1>1. CASE honest
  <2>1. PICK o \in 0..Overlap :
          /\ o <= cur
          /\ page = Page({i \in 1..n : cur < i + o /\ i + o <= cur + NestedPageSize},
                         cur + NestedPageSize - o < n, cur + NestedPageSize - o)
    BY <1>1 DEF NestedPages
  <2>2. /\ page.nodes = {i \in 1..n : cur < i + o /\ i + o <= cur + NestedPageSize}
        /\ page.hasNext = (cur + NestedPageSize - o < n)
        /\ page.endCursor = cur + NestedPageSize - o
        /\ page = [nodes |-> page.nodes, hasNext |-> page.hasNext, endCursor |-> page.endCursor]
    BY <2>1 DEF Page
  <2>3. o \in Nat /\ NestedPageSize \in Nat /\ cur + NestedPageSize - o \in Nat
    BY <2>1, PageAssumption
  <2>4. page \in NestedPage
    <3>1. page.nodes \in SUBSET Nat /\ page.endCursor \in Nat
      BY <2>2, <2>3
    <3>2. page.hasNext \in BOOLEAN
      BY <2>2
    <3>3. QED
      BY <2>2, <3>1, <3>2, Zenon DEF NestedPage
  <2>5. \A i \in 1..n : i <= page.endCursor => i <= cur \/ i \in page.nodes
    BY <2>2, <2>3
  <2>6. QED
    BY <2>2, <2>4, <2>5
<1>2. CASE ~honest
  <2>1. PICK ns \in {{}, 1..n}, more \in BOOLEAN, end \in 0..n :
               page = Page(ns, more, end)
    BY <1>2 DEF NestedPages
  <2>2. page \in NestedPage /\ page.nodes \subseteq 1..n
    BY <2>1 DEF Page, NestedPage
  <2>3. QED
    BY <1>2, <2>2
<1>3. QED
  BY <1>1, <1>2

-----------------------------------------------------------------------------
(* The invariants of the data                                              *)

(* A listed row is the present version of its pull request, or the pull    *)
(* request has left the window.                                            *)
Version(r) == r.text = changed[r.id] \/ changed[r.id] > window.cutoff
OneVersion(row, parts) == \A t \in parts : t = row.text \/ Blurred(t, window.cutoff)

VersionInv ==
    /\ \A r \in collected : Version(r)
    /\ \A r \in list.seen : Version(r)
    /\ Reading => Version(nested.row) /\ OneVersion(nested.row, nested.parts)
    /\ CollectedIsOneVersion

(* No pull request is listed, read or delivered twice.                     *)
UniqueInv ==
    /\ \A r, s \in collected : r.id = s.id => r = s
    /\ \A r \in collected, d \in result : r.id # d.id
    /\ Reading => /\ \A r \in collected : r.id # nested.row.id
                  /\ \A d \in result : d.id # nested.row.id
    /\ \A d, e \in result : d.id = e.id => d = e
    /\ pc = "list" =>
         /\ result = {} /\ nodes = {} /\ collected \subseteq list.seen
         /\ \A s \in list.seen : Seconds(s.text) <= window.cutoff => s \in collected

(* Every row collected is delivered or skipped, so the limits hold to the  *)
(* end.                                                                    *)
CountInv ==
    /\ IsFiniteSet(result)
    /\ Cardinality(result) + Cardinality(collected) + (IF Reading THEN 1 ELSE 0)
         <= MaxChanged
    /\ Cardinality(nodes) <= MaxNodes

(* A pull request that belongs to the window and has not changed since.    *)
Wanted(p) ==
    p \in Existing /\ window.source < UpdatedAt(p) /\ changed[p] <= window.cutoff
Delivered(p) == \E d \in result : d.id = p /\ d.text = changed[p]
CoverInv ==
    honest =>
      /\ pc = "list" => \A p \in PullRequests : Wanted(p) =>
           Row(p, changed[p]) \in collected \/ p \in After(list.cursor)
      /\ Working => \A p \in PullRequests : Wanted(p) =>
           \/ Row(p, changed[p]) \in collected
           \/ Reading /\ nested.row = Row(p, changed[p])
           \/ Delivered(p)
      /\ pc = "done" => collected = {}

(* The reviews and comments read of a pull request so far: n are the       *)
(* locals of collectReviews, at is the step it is in.                      *)
Ids(ns) == {m.id : m \in ns}
Whole(n, i) == \A j \in 0..Comments[n.row.id] : <<n.row.id, i, j>> \in Ids(n.nodes)
Open(n, at, i) == at = "comments" /\ i = n.review
Touched(n, at) ==
    \A i \in 1..Reviews[n.row.id], j \in 0..Comments[n.row.id] :
        <<n.row.id, i, j>> \in Ids(n.nodes) => Whole(n, i) \/ Open(n, at, i)
BeforeCursor(n) == \A i \in 1..Reviews[n.row.id] : i <= n.cursor => Whole(n, i)
OnPage(n, at) ==
    /\ n.queue \subseteq 1..Reviews[n.row.id]
    /\ n.page.hasNext <=> n.page.endCursor < Reviews[n.row.id]
    /\ \A i \in 1..Reviews[n.row.id] : i <= n.page.endCursor =>
          i \in n.queue \/ Whole(n, i) \/ Open(n, at, i)
InReview(n) ==
    /\ n.review \in 1..Reviews[n.row.id]
    /\ \A j \in 0..Comments[n.row.id] : j <= n.commentCursor =>
          <<n.row.id, n.review, j>> \in Ids(n.nodes)
Read(n, at) ==
    /\ Ids(n.nodes) \subseteq NodesOf(n.row.id)
    /\ Touched(n, at)
    /\ at = "reviews" => BeforeCursor(n)
    /\ at \in {"queue", "comments"} => OnPage(n, at)
    /\ at = "comments" => InReview(n)

NodesInv ==
    honest => /\ Ids(nodes) = UNION {NodesOf(d.id) : d \in result}
              /\ Reading => Read(nested, pc)

DataInv == VersionInv /\ UniqueInv /\ CountInv /\ CoverInv /\ NodesInv

-----------------------------------------------------------------------------
(* Steps that reset, keep or hand on the data                              *)

LEMMA RowsFinite == IsFiniteSet(Rows)
<1> DEFINE S == PullRequests \X Instant
           f == [x \in S |-> [id |-> x[1], text |-> x[2]]]
<1>1. IsFiniteSet(Instant)
  BY InstantFacts, FS_Interval DEF Instant
<1>2. IsFiniteSet(S)
  BY <1>1, PullRequestFacts, FS_Product
<1>3. f \in Surjection(S, Rows)
  <2>1. f \in [S -> Rows]
    BY DEF Rows
  <2>2. \A r \in Rows : <<r.id, r.text>> \in S /\ f[<<r.id, r.text>>] = r
    BY DEF Rows
  <2> HIDE DEF S, f
  <2>3. QED
    BY <2>1, <2>2 DEF Surjection
<1>4. QED
  BY <1>2, <1>3, FS_Surjection

LEMMA ReviewsOfFacts ==
    ASSUME NEW row \in Rows \cup {NoRow}
    PROVE  /\ ReviewsOf(row) \in NestedState /\ ReviewsOf(row).row = row
           /\ ReviewsOf(row).parts = {} /\ ReviewsOf(row).nodes = {}
           /\ ReviewsOf(row).cursor = 0
<1>1. NoPage \in NestedPage
  BY DEF NoPage, Page, NestedPage
<1>2. 0 \in Instant
  BY InstantFacts
<1>3. QED
  BY <1>1, <1>2 DEF ReviewsOf, NestedState

LEMMA NoListFacts == NoList \in Lists /\ NoList.seen = {} /\ NoList.cursor = NoCursor
BY DEF NoList, Lists, NoCursor, Cursors

SameWindow == honest' = honest /\ changed' = changed /\ window' = window

Restarts ==
    /\ pc' \in {"list", "failed"} /\ list' = NoList /\ collected' = {}
    /\ nested' = ReviewsOf(NoRow) /\ nodes' = {} /\ result' = {}

LEMMA RestartsData ==
    ASSUME Restarts
    PROVE  LocalInv' /\ DataInv'
<1>1. /\ list' \in Lists /\ list'.seen = {} /\ list'.cursor = NoCursor
      /\ nested' \in NestedState
  BY NoListFacts, ReviewsOfFacts DEF Restarts
<1>2. /\ pc' \in {"list", "failed"} /\ collected' = {} /\ nodes' = {} /\ result' = {}
  BY DEF Restarts
<1>3. ~Reading' /\ ~Working'
  BY <1>2 DEF Reading, Working
<1>4. LocalInv'
  BY <1>1, <1>2, <1>3 DEF LocalInv
<1>5. VersionInv'
  BY <1>1, <1>2, <1>3 DEF VersionInv, CollectedIsOneVersion
<1>6. UniqueInv'
  BY <1>1, <1>2, <1>3 DEF UniqueInv
<1>7. CountInv'
  <2>1. Cardinality({}) = 0 /\ IsFiniteSet({}) /\ MaxChanged \in Nat /\ MaxNodes \in Nat
    BY FS_EmptySet, LimitAssumption
  <2>2. QED
    BY <1>2, <1>3, <2>1 DEF CountInv
<1>8. CoverInv'
  <2>1. \A p : Wanted(p)' => p \in After(list.cursor)'
    BY <1>1 DEF Wanted, After
  <2>2. QED
    BY <1>2, <1>3, <2>1 DEF CoverInv
<1>9. NodesInv'
  BY <1>2, <1>3 DEF NodesInv, Ids
<1>10. QED
  BY <1>4, <1>5, <1>6, <1>7, <1>8, <1>9 DEF DataInv

Idles ==
    /\ pc' = "idle" /\ pc \in {"done", "failed"} /\ SameWindow
    /\ UNCHANGED <<list, collected, nested, nodes, result>>

LEMMA IdlesData ==
    ASSUME LocalInv, DataInv, Idles
    PROVE  LocalInv' /\ DataInv'
<1>1. /\ list' = list /\ collected' = collected /\ nested' = nested /\ nodes' = nodes
      /\ result' = result /\ honest' = honest /\ changed' = changed /\ window' = window
      /\ pc' = "idle"
  BY DEF Idles, SameWindow
<1>2. ~Reading' /\ ~Working' /\ ~Reading
  BY DEF Reading, Working, Idles
<1>3. LocalInv'
  BY <1>1, <1>2 DEF LocalInv
<1>4. VersionInv'
  BY <1>1, <1>2 DEF DataInv, VersionInv, Version, CollectedIsOneVersion
<1>5. UniqueInv'
  BY <1>1, <1>2 DEF DataInv, UniqueInv
<1>6. CountInv'
  BY <1>1, <1>2 DEF DataInv, CountInv
<1>7. CoverInv'
  BY <1>1, <1>2 DEF CoverInv
<1>8. NodesInv'
  BY <1>1, <1>2 DEF DataInv, NodesInv
<1>9. QED
  BY <1>3, <1>4, <1>5, <1>6, <1>7, <1>8 DEF DataInv

(* A pull request that changes leaves the window: its version is newer     *)
(* than the cutoff.                                                        *)
LEMMA ChangeData ==
    ASSUME TimeInv, LocalInv, DataInv, NEW p \in PullRequests, Change(p)
    PROVE  LocalInv' /\ DataInv'
<1>1. /\ list' = list /\ collected' = collected /\ nested' = nested /\ nodes' = nodes
      /\ result' = result /\ honest' = honest /\ window' = window /\ pc' = pc
      /\ changed' = [changed EXCEPT ![p] = clock]
  BY DEF Change
<1>2. window.cutoff < clock /\ clock \in Nat /\ window.cutoff \in Nat
  <2>1. window.cutoff \in 0..MaxTime
    BY DEF TimeInv, Windows
  <2>2. clock \in Nat /\ clock # 0
    BY InstantFacts DEF TimeInv
  <2>3. QED
    BY <2>1, <2>2, InstantFacts DEF TimeInv
<1>3. /\ changed'[p] = clock
      /\ \A q \in PullRequests : q # p => changed'[q] = changed[q]
  BY <1>1 DEF TimeInv
<1>4. Reading' = Reading /\ Working' = Working
  BY <1>1 DEF Reading, Working
<1>5. LocalInv'
  BY <1>1, <1>4 DEF LocalInv
<1>6. \A r \in Rows : Version(r) => Version(r)'
  BY <1>1, <1>2, <1>3 DEF Version, Rows
<1>7. VersionInv'
  <2>1. list.seen \subseteq Rows
    BY DEF LocalInv, Lists
  <2>2. \A row, parts : OneVersion(row, parts)' <=> OneVersion(row, parts)
    BY <1>1 DEF OneVersion
  <2>3. CollectedIsOneVersion'
    BY <1>1 DEF DataInv, VersionInv, CollectedIsOneVersion
  <2>4. Reading' => Version(nested.row)' /\ OneVersion(nested.row, nested.parts)'
    BY <1>1, <1>4, <1>6, <2>2 DEF DataInv, VersionInv, LocalInv, OneVersion
  <2>5. (\A r \in collected : Version(r)) /\ (\A r \in list.seen : Version(r))
    BY DEF DataInv, VersionInv
  <2>6. (\A r \in collected : Version(r))' /\ (\A r \in list.seen : Version(r))'
    BY <1>1, <1>6, <2>1, <2>5 DEF LocalInv
  <2>7. QED
    BY <2>3, <2>4, <2>6 DEF VersionInv
<1>8. UniqueInv'
  BY <1>1, <1>4 DEF DataInv, UniqueInv
<1>9. CountInv'
  BY <1>1, <1>4 DEF DataInv, CountInv
<1>10. CoverInv'
  <2>1. ASSUME NEW q \in PullRequests, Wanted(q)'
        PROVE  Wanted(q) /\ changed'[q] = changed[q] /\ q # p
    <3>1. q # p
      BY <1>1, <1>2, <1>3, <2>1 DEF Wanted
    <3>2. changed'[q] = changed[q]
      BY <1>3, <3>1
    <3>3. QED
      BY <1>1, <2>1, <3>1, <3>2 DEF Wanted, Existing, UpdatedAt
  <2>2. ASSUME NEW q \in PullRequests, changed'[q] = changed[q], q \in After(list.cursor)
        PROVE  q \in After(list.cursor)'
    BY <1>1, <2>2 DEF After, Existing, Key, Order
  <2>3. ASSUME NEW q \in PullRequests, changed'[q] = changed[q], Delivered(q)
        PROVE  Delivered(q)'
    BY <1>1, <2>3 DEF Delivered
  <2>4. QED
    BY <1>1, <1>4, <2>1, <2>2, <2>3 DEF DataInv, CoverInv
<1>11. NodesInv'
  BY <1>1, <1>4 DEF DataInv, NodesInv
<1>12. QED
  BY <1>5, <1>7, <1>8, <1>9, <1>10, <1>11 DEF DataInv

-----------------------------------------------------------------------------
(* Steps of collectAttempt                                                 *)

LEMMA CollectedFinite ==
    ASSUME LocalInv
    PROVE  IsFiniteSet(collected) /\ Cardinality(collected) \in Nat
<1>1. IsFiniteSet(collected)
  BY RowsFinite, FS_Subset DEF LocalInv
<1>2. QED
  BY <1>1, FS_CardinalityType

Closes ==
    /\ pc = "next" /\ pc' = "done" /\ collected = {} /\ SameWindow
    /\ UNCHANGED <<list, collected, nested, nodes, result>>

LEMMA ClosesData ==
    ASSUME LocalInv, DataInv, Closes
    PROVE  LocalInv' /\ DataInv'
<1>1. /\ list' = list /\ collected' = collected /\ nested' = nested /\ nodes' = nodes
      /\ result' = result /\ honest' = honest /\ changed' = changed /\ window' = window
      /\ pc = "next" /\ pc' = "done" /\ collected = {}
  BY DEF Closes, SameWindow
<1>2. ~Reading' /\ Working' /\ ~Reading /\ Working
  BY <1>1 DEF Reading, Working
<1>3. LocalInv'
  BY <1>1, <1>2 DEF LocalInv
<1>4. VersionInv'
  BY <1>1, <1>2 DEF DataInv, VersionInv, Version, CollectedIsOneVersion
<1>5. UniqueInv'
  BY <1>1, <1>2 DEF DataInv, UniqueInv
<1>6. CountInv'
  BY <1>1, <1>2 DEF DataInv, CountInv
<1>7. CoverInv'
  <2>1. \A p \in PullRequests : Wanted(p)' <=> Wanted(p)
    BY <1>1 DEF Wanted, Existing, UpdatedAt
  <2>2. \A p \in PullRequests : Delivered(p)' <=> Delivered(p)
    BY <1>1 DEF Delivered
  <2>3. QED
    BY <1>1, <1>2, <2>1, <2>2 DEF DataInv, CoverInv
<1>8. NodesInv'
  BY <1>1, <1>2 DEF DataInv, NodesInv
<1>9. QED
  BY <1>3, <1>4, <1>5, <1>6, <1>7, <1>8 DEF DataInv

Takes(row) ==
    /\ pc = "next" /\ pc' = "reviews" /\ row \in collected /\ SameWindow
    /\ nested' = ReviewsOf(row) /\ collected' = collected \ {row}
    /\ UNCHANGED <<list, nodes, result>>

LEMMA TakesData ==
    ASSUME LocalInv, DataInv, NEW row, Takes(row)
    PROVE  LocalInv' /\ DataInv'
<1>1. /\ list' = list /\ collected' = collected \ {row} /\ nested' = ReviewsOf(row)
      /\ nodes' = nodes /\ result' = result /\ honest' = honest /\ changed' = changed
      /\ window' = window /\ pc = "next" /\ pc' = "reviews" /\ row \in collected
  BY DEF Takes, SameWindow
<1>2. Reading' /\ Working' /\ ~Reading /\ Working
  BY <1>1 DEF Reading, Working
<1>3. row \in Rows
  BY <1>1 DEF LocalInv
<1>4. /\ nested' \in NestedState /\ nested'.row = row /\ nested'.parts = {}
      /\ nested'.nodes = {} /\ nested'.cursor = 0
  BY <1>1, <1>3, ReviewsOfFacts
<1>5. LocalInv'
  BY <1>1, <1>3, <1>4 DEF LocalInv
<1>6. VersionInv'
  <2>1. \A r : Version(r)' <=> Version(r)
    BY <1>1 DEF Version
  <2>2. CollectedIsOneVersion' /\ OneVersion(nested.row, nested.parts)'
    BY <1>1, <1>4 DEF DataInv, VersionInv, CollectedIsOneVersion, OneVersion
  <2>3. Version(nested.row)'
    BY <1>1, <1>4 DEF DataInv, VersionInv, Version
  <2>4. QED
    BY <1>1, <2>1, <2>2, <2>3 DEF DataInv, VersionInv
<1>7. UniqueInv'
  BY <1>1, <1>2, <1>4 DEF DataInv, UniqueInv
<1>8. CountInv'
  <2> DEFINE n == Cardinality(collected)
             m == Cardinality(result)
  <2>1. n \in Nat /\ Cardinality(collected') = n - 1
    BY <1>1, CollectedFinite, FS_RemoveElement
  <2>2. m \in Nat /\ m + n + 0 <= MaxChanged /\ MaxChanged \in Nat
    BY <1>2, FS_CardinalityType, LimitAssumption DEF DataInv, CountInv
  <2>3. m + (n - 1) + 1 <= MaxChanged
    <3> HIDE DEF n, m
    <3>1. QED
      BY <2>1, <2>2
  <2>4. QED
    BY <1>1, <1>2, <2>1, <2>3 DEF DataInv, CountInv
<1>9. CoverInv'
  <2>1. \A p \in PullRequests : Wanted(p)' <=> Wanted(p)
    BY <1>1 DEF Wanted, Existing, UpdatedAt
  <2>2. \A p \in PullRequests : Delivered(p)' <=> Delivered(p)
    BY <1>1 DEF Delivered
  <2>3. QED
    BY <1>1, <1>2, <1>4, <2>1, <2>2 DEF DataInv, CoverInv
<1>10. NodesInv'
  <2>1. Read(nested', "reviews")
    <3>1. Ids(nested'.nodes) = {}
      BY <1>4 DEF Ids
    <3>2. BeforeCursor(nested')
      BY <1>4 DEF BeforeCursor
    <3>3. QED
      BY <3>1, <3>2 DEF Read, Touched
  <2>2. QED
    BY <1>1, <2>1 DEF DataInv, NodesInv
<1>11. QED
  BY <1>5, <1>6, <1>7, <1>8, <1>9, <1>10 DEF DataInv

Skips ==
    /\ Reading /\ MovedOn(nested.row.id) /\ pc' = "next" /\ SameWindow
    /\ nested' = ReviewsOf(NoRow)
    /\ UNCHANGED <<list, collected, nodes, result>>

LEMMA SkipsData ==
    ASSUME TimeInv, LocalInv, DataInv, Skips
    PROVE  LocalInv' /\ DataInv'
<1>1. /\ list' = list /\ collected' = collected /\ nested' = ReviewsOf(NoRow)
      /\ nodes' = nodes /\ result' = result /\ honest' = honest /\ changed' = changed
      /\ window' = window /\ pc' = "next" /\ MovedOn(nested.row.id) /\ Reading
  BY DEF Skips, SameWindow
<1>2. ~Reading' /\ Working' /\ Working /\ pc # "list"
  BY <1>1 DEF Reading, Working
<1>3. nested' \in NestedState
  BY <1>1, ReviewsOfFacts
<1>4. LocalInv'
  BY <1>1, <1>2, <1>3 DEF LocalInv
<1>5. VersionInv'
  BY <1>1, <1>2 DEF DataInv, VersionInv, Version, CollectedIsOneVersion
<1>6. UniqueInv'
  BY <1>1, <1>2 DEF DataInv, UniqueInv
<1>7. CountInv'
  <2> DEFINE n == Cardinality(collected)
             m == Cardinality(result)
  <2>1. n \in Nat /\ m \in Nat /\ m + n + 1 <= MaxChanged /\ MaxChanged \in Nat
    BY <1>1, CollectedFinite, FS_CardinalityType, LimitAssumption DEF DataInv, CountInv
  <2>2. m + n + 0 <= MaxChanged
    <3> HIDE DEF n, m
    <3>1. QED
      BY <2>1
  <2>3. QED
    BY <1>1, <1>2, <2>2 DEF DataInv, CountInv
<1>8. CoverInv'
  <2>1. \A p \in PullRequests : Wanted(p)' <=> Wanted(p)
    BY <1>1 DEF Wanted, Existing, UpdatedAt
  <2>2. \A p \in PullRequests : Delivered(p)' <=> Delivered(p)
    BY <1>1 DEF Delivered
  <2>3. ASSUME NEW p \in PullRequests, Wanted(p) PROVE nested.row # Row(p, changed[p])
    <3>1. ASSUME nested.row.id = p PROVE FALSE
      <4>1. UpdatedAt(p) > window.cutoff
        BY <1>1, <3>1 DEF MovedOn
      <4>2. UpdatedAt(p) <= changed[p] /\ UpdatedAt(p) \in Nat /\ changed[p] \in Nat
        BY KeyFacts
      <4>3. window.cutoff \in Nat /\ changed[p] <= window.cutoff
        BY <2>3, InstantFacts DEF Wanted, TimeInv, Windows
      <4>4. QED
        BY <4>1, <4>2, <4>3
    <3>2. QED
      BY <3>1 DEF Row
  <2>4. QED
    BY <1>1, <1>2, <2>1, <2>2, <2>3 DEF DataInv, CoverInv
<1>9. NodesInv'
  BY <1>1, <1>2 DEF DataInv, NodesInv
<1>10. QED
  BY <1>4, <1>5, <1>6, <1>7, <1>8, <1>9 DEF DataInv

(* A step inside collectReviews or collectComments.                        *)
Reads ==
    /\ Reading /\ pc' \in {"reviews", "queue", "comments"} /\ SameWindow
    /\ nested' \in NestedState /\ nested'.row = nested.row
    /\ \/ nested'.parts = nested.parts
       \/ /\ ~MovedOn(nested.row.id)
          /\ nested'.parts = nested.parts \cup {changed[nested.row.id]}
    /\ honest /\ Read(nested, pc) => Read(nested', pc')
    /\ UNCHANGED <<list, collected, nodes, result>>

LEMMA ReadsData ==
    ASSUME TimeInv, LocalInv, DataInv, Reads
    PROVE  LocalInv' /\ DataInv'
<1>1. /\ list' = list /\ collected' = collected /\ nested'.row = nested.row
      /\ nested' \in NestedState
      /\ nodes' = nodes /\ result' = result /\ honest' = honest /\ changed' = changed
      /\ window' = window /\ pc' \in {"reviews", "queue", "comments"} /\ Reading
  BY DEF Reads, SameWindow
<1>2. Reading' /\ Working' /\ Working /\ pc # "list" /\ pc' # "list" /\ pc' # "done"
  BY <1>1 DEF Reading, Working
<1>3. LocalInv'
  BY <1>1, <1>2 DEF LocalInv
<1>4. VersionInv'
  <2> DEFINE row == nested.row
             t == changed[row.id]
  <2>1. \A r : Version(r)' <=> Version(r)
    BY <1>1 DEF Version
  <2>2. Version(nested.row)'
    BY <1>1 DEF DataInv, VersionInv, Version
  <2>3. CollectedIsOneVersion'
    BY <1>1 DEF DataInv, VersionInv, CollectedIsOneVersion
  <2>4. ASSUME ~MovedOn(row.id) PROVE t = row.text \/ Blurred(t, window.cutoff)
    <3>1. Version(row) /\ row.id \in PullRequests
      BY <1>1 DEF DataInv, VersionInv, LocalInv, Rows
    <3>2. Seconds(t) \in Nat /\ window.cutoff \in Nat /\ t \in Nat
      BY <3>1, KeyFacts, InstantFacts DEF UpdatedAt, TimeInv, Windows
    <3>3. Seconds(t) <= window.cutoff
      BY <2>4, <3>2 DEF MovedOn, UpdatedAt
    <3>4. QED
      BY <3>1, <3>2, <3>3 DEF Version, Blurred
  <2>5. OneVersion(row, nested.parts)
    BY <1>1 DEF DataInv, VersionInv
  <2>6. OneVersion(row, nested'.parts)
    BY <2>4, <2>5 DEF OneVersion, Reads
  <2>7. OneVersion(nested.row, nested.parts)'
    BY <1>1, <2>6 DEF OneVersion
  <2>8. QED
    BY <1>1, <2>1, <2>2, <2>3, <2>7 DEF DataInv, VersionInv
<1>5. UniqueInv'
  BY <1>1, <1>2 DEF DataInv, UniqueInv
<1>6. CountInv'
  BY <1>1, <1>2 DEF DataInv, CountInv
<1>7. CoverInv'
  <2>1. \A p \in PullRequests : Wanted(p)' <=> Wanted(p)
    BY <1>1 DEF Wanted, Existing, UpdatedAt
  <2>2. \A p \in PullRequests : Delivered(p)' <=> Delivered(p)
    BY <1>1 DEF Delivered
  <2>3. QED
    BY <1>1, <1>2, <2>1, <2>2 DEF DataInv, CoverInv
<1>8. NodesInv'
  BY <1>1, <1>2 DEF DataInv, NodesInv, Reads
<1>9. QED
  BY <1>3, <1>4, <1>5, <1>6, <1>7, <1>8 DEF DataInv

(* The pull request is read to its end.                                    *)
Delivers ==
    /\ Reading /\ pc' = "next" /\ SameWindow
    /\ nested' = ReviewsOf(NoRow)
    /\ result' = result \cup {Dto(nested.row, nested.parts)}
    /\ nodes' = nodes \cup nested.nodes /\ Cardinality(nodes') <= MaxNodes
    /\ honest /\ Read(nested, pc) => Ids(nested.nodes) = NodesOf(nested.row.id)
    /\ UNCHANGED <<list, collected>>

LEMMA DeliversData ==
    ASSUME TimeInv, LocalInv, DataInv, Delivers
    PROVE  LocalInv' /\ DataInv'
<1> DEFINE row == nested.row
           dto == Dto(nested.row, nested.parts)
<1>1. /\ list' = list /\ collected' = collected /\ nested' = ReviewsOf(NoRow)
      /\ nodes' = nodes \cup nested.nodes /\ result' = result \cup {dto}
      /\ honest' = honest /\ changed' = changed
      /\ window' = window /\ pc' = "next" /\ Reading
  BY DEF Delivers, SameWindow
<1>2. ~Reading' /\ Working' /\ Working /\ pc # "list"
  BY <1>1 DEF Reading, Working
<1>3. nested' \in NestedState /\ nested \in NestedState
  BY <1>1, ReviewsOfFacts DEF LocalInv
<1>4. row \in Rows
  BY <1>1 DEF LocalInv
<1>5. dto.id = row.id /\ dto.text = row.text /\ dto.parts = nested.parts
  BY DEF Dto
<1>6. dto \in Dtos /\ nested.nodes \subseteq Nodes
  BY <1>3, <1>4 DEF Dto, Dtos, Rows, NestedState
<1> HIDE DEF dto
<1>7. LocalInv'
  BY <1>1, <1>2, <1>3, <1>6 DEF LocalInv
<1>8. VersionInv'
  <2>1. \A r : Version(r)' <=> Version(r)
    BY <1>1 DEF Version
  <2>2. \A t \in nested.parts : t = row.text \/ Blurred(t, window.cutoff)
    BY <1>1 DEF DataInv, VersionInv, OneVersion
  <2>3. CollectedIsOneVersion'
    BY <1>1, <1>5, <2>2 DEF DataInv, VersionInv, CollectedIsOneVersion
  <2>4. QED
    BY <1>1, <1>2, <2>1, <2>3 DEF DataInv, VersionInv
<1>9. UniqueInv'
  BY <1>1, <1>2, <1>5 DEF DataInv, UniqueInv
<1>10. CountInv'
  <2> DEFINE n == Cardinality(collected)
             m == Cardinality(result)
  <2>1. /\ n \in Nat /\ m \in Nat /\ m + n + 1 <= MaxChanged /\ MaxChanged \in Nat
        /\ IsFiniteSet(result)
    BY <1>1, CollectedFinite, FS_CardinalityType, LimitAssumption DEF DataInv, CountInv
  <2>2. IsFiniteSet(result') /\ (Cardinality(result') = m \/ Cardinality(result') = m + 1)
    BY <1>1, <2>1, FS_AddElement
  <2>3. Cardinality(result') + n + 0 <= MaxChanged
    <3> HIDE DEF n, m
    <3>1. QED
      BY <2>1, <2>2
  <2>4. QED
    BY <1>1, <1>2, <2>2, <2>3 DEF Delivers, CountInv
<1>11. CoverInv'
  <2>1. \A p \in PullRequests : Wanted(p)' <=> Wanted(p)
    BY <1>1 DEF Wanted, Existing, UpdatedAt
  <2>2. \A p \in PullRequests : Delivered(p) => Delivered(p)'
    BY <1>1 DEF Delivered
  <2>3. ASSUME NEW p \in PullRequests, nested.row = Row(p, changed[p])
        PROVE  Delivered(p)'
    BY <1>1, <1>5, <2>3 DEF Delivered, Row
  <2>4. QED
    BY <1>1, <1>2, <2>1, <2>2, <2>3 DEF DataInv, CoverInv
<1>12. NodesInv'
  <2>1. ASSUME honest
        PROVE  Ids(nodes') = UNION {NodesOf(d.id) : d \in result'}
    <3>1. Ids(nodes) = UNION {NodesOf(d.id) : d \in result}
      BY <2>1 DEF DataInv, NodesInv
    <3>2. Ids(nested.nodes) = NodesOf(row.id)
      BY <1>1, <2>1 DEF DataInv, NodesInv, Delivers
    <3>3. Ids(nodes') = Ids(nodes) \cup Ids(nested.nodes)
      BY <1>1 DEF Ids
    <3>4. UNION {NodesOf(d.id) : d \in result'}
            = (UNION {NodesOf(d.id) : d \in result}) \cup NodesOf(row.id)
      BY <1>1, <1>5
    <3>5. QED
      BY <3>1, <3>2, <3>3, <3>4
  <2>2. QED
    BY <1>1, <1>2, <2>1 DEF NodesInv
<1>13. QED
  BY <1>7, <1>8, <1>9, <1>10, <1>11, <1>12 DEF DataInv

-----------------------------------------------------------------------------
(* A page of pull requests                                                 *)

Observed(page) ==
    {Row(p, changed[p]) : p \in {q \in page.nodes : UpdatedAt(q) > window.source}}
Fresh(page) ==
    {r \in Observed(page) : InWindow(r.id) /\ \A s \in list.seen : s.id # r.id}

(* The listing goes on below the page, or is over.                         *)
GoesOn(page) ==
    /\ pc' = "list" /\ ~Reached(page.nodes) /\ page.nodes # {}
    /\ list' = [cursor |-> page.endCursor,
                visited |-> list.visited \cup {page.endCursor},
                seen |-> list.seen \cup Observed(page)]
IsOver(page) == pc' = "next" /\ list' = NoList /\ (Reached(page.nodes) \/ ~page.hasNext)
Listing(page) ==
    /\ pc = "list" /\ SameWindow
    /\ ~Conflict(Observed(page), list.seen)
    /\ Cardinality(collected \cup Fresh(page)) <= MaxChanged
    /\ collected' = collected \cup Fresh(page)
    /\ GoesOn(page) \/ IsOver(page)
    /\ UNCHANGED <<nested, nodes, result>>

LEMMA ListPageKinds ==
    ASSUME NEW page, ListPage(page)
    PROVE  Restarts \/ Listing(page)
<1>1. \/ Fail
      \/ /\ ~Conflict(Observed(page), list.seen)
         /\ Cardinality(collected \cup Fresh(page)) <= MaxChanged
         /\ collected' = collected \cup Fresh(page)
         /\ GoesOn(page) \/ IsOver(page)
         /\ UNCHANGED <<nested, nodes, result>>
  BY DEF ListPage, Observed, Fresh, GoesOn, IsOver, ValidCursor
<1>2. pc = "list" /\ SameWindow
  BY DEF ListPage, SameWindow, github
<1>3. QED
  BY <1>1, <1>2 DEF Listing, Fail, Restarts

LEMMA ListingData ==
    ASSUME TimeInv, LocalInv, DataInv, NEW page \in FetchPullRequests(list.cursor),
           Listing(page)
    PROVE  LocalInv' /\ DataInv'
<1> DEFINE observed == Observed(page)
           fresh == Fresh(page)
<1>1. /\ pc = "list" /\ collected' = collected \cup fresh
      /\ nested' = nested /\ nodes' = nodes /\ result' = result
      /\ honest' = honest /\ changed' = changed /\ window' = window
  BY DEF Listing, SameWindow
<1>2. list \in Lists /\ list.cursor \in Cursors /\ list.seen \subseteq Rows
  BY DEF LocalInv, Lists
<1>3. /\ page.nodes \subseteq Existing /\ page.nodes \subseteq PullRequests
      /\ page.endCursor \in Cursors
      /\ honest =>
           /\ \A x \in page.nodes, y \in After(list.cursor) \ page.nodes :
                 Lower(Key(y), Key(x))
           /\ ~page.hasNext => After(list.cursor) \subseteq page.nodes
           /\ page.nodes # {} => \E x \in page.nodes : page.endCursor = Key(x)
  BY <1>2, FetchFacts
<1>4. \A r \in observed : r \in Rows /\ r.text = changed[r.id] /\ r.id \in page.nodes
  <2>1. \A p \in page.nodes : Row(p, changed[p]) \in Rows
    BY <1>3, InstantFacts DEF Row, Rows, TimeInv
  <2>2. \A p : Row(p, changed[p]).id = p /\ Row(p, changed[p]).text = changed[p]
    BY DEF Row
  <2>3. QED
    BY <2>1, <2>2 DEF Observed
<1>5. fresh \subseteq observed /\ \A r \in fresh : InWindow(r.id) /\ \A s \in list.seen : s.id # r.id
  BY DEF Fresh
<1>6. \A r, s \in observed : r.id = s.id => r = s
  BY <1>4 DEF Rows
<1>7. \A r \in observed : InWindow(r.id) => Seconds(r.text) <= window.cutoff
  BY <1>4 DEF InWindow, UpdatedAt
<1>8. \A r \in observed : Seconds(r.text) <= window.cutoff => InWindow(r.id)
  BY <1>4 DEF InWindow, UpdatedAt
<1>9. \A n \in observed, m \in list.seen : n.id = m.id => n = m
  BY DEF Listing, Conflict
<1>10. /\ result = {} /\ nodes = {} /\ collected \subseteq list.seen
       /\ \A s \in list.seen : Seconds(s.text) <= window.cutoff => s \in collected
       /\ \A r, s \in collected : r.id = s.id => r = s
  BY <1>1 DEF DataInv, UniqueInv
(* What is observed in the window is collected by now. *)
<1>11. \A r \in observed : Seconds(r.text) <= window.cutoff => r \in collected'
  <2> SUFFICES ASSUME NEW r \in observed, Seconds(r.text) <= window.cutoff
               PROVE  r \in collected'
    OBVIOUS
  <2>1. CASE \E s \in list.seen : s.id = r.id
    BY <1>1, <1>9, <1>10, <2>1
  <2>2. CASE ~\E s \in list.seen : s.id = r.id
    BY <1>1, <1>8, <2>2 DEF Fresh
  <2>3. QED
    BY <2>1, <2>2
<1> HIDE DEF observed, fresh
<1>12. CASE GoesOn(page)
  <2>1. /\ pc' = "list" /\ list'.cursor = page.endCursor
        /\ list'.seen = list.seen \cup observed /\ ~Reached(page.nodes) /\ page.nodes # {}
        /\ list' = [cursor |-> page.endCursor,
                    visited |-> list.visited \cup {page.endCursor},
                    seen |-> list.seen \cup observed]
    BY <1>12 DEF GoesOn, observed
  <2>2. ~Reading' /\ ~Working' /\ ~Reading
    BY <1>1, <2>1 DEF Reading, Working
  <2>3. list' \in Lists
    <3>1. /\ list.visited \cup {page.endCursor} \subseteq Cursors
          /\ list.seen \cup observed \subseteq Rows
      BY <1>2, <1>3, <1>4 DEF Lists
    <3>2. QED
      BY <1>3, <2>1, <3>1 DEF Lists
  <2>4. LocalInv'
    BY <1>1, <1>4, <1>5, <2>1, <2>2, <2>3 DEF LocalInv
  <2>5. VersionInv'
    <3>1. \A r : Version(r)' <=> Version(r)
      BY <1>1 DEF Version
    <3>2. \A r \in observed : Version(r)
      BY <1>4 DEF Version
    <3>3. CollectedIsOneVersion'
      BY <1>1, <1>10 DEF CollectedIsOneVersion
    <3>4. QED
      BY <1>1, <1>5, <2>1, <2>2, <3>1, <3>2, <3>3 DEF DataInv, VersionInv
  <2>6. UniqueInv'
    <3>1. \A r, s \in collected' : r.id = s.id => r = s
      BY <1>1, <1>5, <1>6, <1>10
    <3>2. collected' \subseteq list'.seen
      BY <1>1, <1>5, <1>10, <2>1
    <3>3. \A s \in list'.seen : Seconds(s.text) <= window.cutoff => s \in collected'
      BY <1>1, <1>10, <1>11, <2>1
    <3>4. QED
      BY <1>1, <1>10, <2>1, <2>2, <3>1, <3>2, <3>3 DEF UniqueInv
  <2>7. CountInv'
    <3>1. Cardinality(collected') <= MaxChanged /\ Cardinality(collected') \in Nat
      BY <1>1, <2>4, RowsFinite, FS_Subset, FS_CardinalityType DEF Listing, LocalInv, fresh
    <3>2. Cardinality({}) = 0 /\ IsFiniteSet({}) /\ MaxNodes \in Nat
      BY FS_EmptySet, LimitAssumption
    <3>3. 0 + Cardinality(collected') + 0 <= MaxChanged
      BY <3>1, LimitAssumption
    <3>4. QED
      BY <1>1, <1>10, <2>2, <3>2, <3>3 DEF CountInv
  <2>8. CoverInv'
    <3>1. ASSUME honest, NEW p \in PullRequests, Wanted(p)
          PROVE  Row(p, changed[p]) \in collected' \/ p \in After(page.endCursor)
      <4>1. CASE p \in page.nodes
        <5>1. Row(p, changed[p]) \in observed
          BY <3>1, <4>1, KeyFacts, InstantFacts DEF Observed, observed, Wanted, TimeInv, Windows
        <5>2. Seconds(Row(p, changed[p]).text) <= window.cutoff
          <6>1. UpdatedAt(p) <= changed[p] /\ UpdatedAt(p) \in Nat /\ changed[p] \in Nat
            BY KeyFacts
          <6>2. window.cutoff \in Nat /\ changed[p] <= window.cutoff
            BY <3>1, InstantFacts DEF Wanted, TimeInv, Windows
          <6>3. UpdatedAt(p) <= window.cutoff
            BY <6>1, <6>2
          <6>4. QED
            BY <6>3 DEF Row, UpdatedAt
        <5>3. QED
          BY <1>11, <5>1, <5>2
      <4>2. CASE p \notin page.nodes /\ p \in After(list.cursor)
        <5>1. PICK x \in page.nodes : page.endCursor = Key(x)
          BY <1>3, <2>1, <3>1
        <5>2. Lower(Key(p), page.endCursor)
          BY <1>3, <3>1, <4>2, <5>1
        <5>3. QED
          BY <3>1, <5>2 DEF After, Wanted
      <4>3. CASE Row(p, changed[p]) \in collected
        BY <1>1, <4>3
      <4>4. QED
        BY <1>1, <3>1, <4>1, <4>2, <4>3 DEF DataInv, CoverInv
    <3>2. \A p \in PullRequests : Wanted(p)' <=> Wanted(p)
      BY <1>1 DEF Wanted, Existing, UpdatedAt
    <3>3. After(list.cursor)' = After(page.endCursor)
      BY <1>1, <2>1 DEF After, Existing, Key, Order
    <3>4. QED
      BY <1>1, <2>1, <2>2, <3>1, <3>2, <3>3 DEF CoverInv
  <2>9. NodesInv'
    BY <1>1, <1>10, <2>2 DEF DataInv, NodesInv
  <2>10. QED
    BY <2>4, <2>5, <2>6, <2>7, <2>8, <2>9 DEF DataInv
<1>13. CASE IsOver(page)
  <2>1. pc' = "next" /\ list' = NoList /\ (Reached(page.nodes) \/ ~page.hasNext)
    BY <1>13 DEF IsOver
  <2>2. ~Reading' /\ Working' /\ ~Reading
    BY <1>1, <2>1 DEF Reading, Working
  <2>3. list' \in Lists /\ list'.seen = {}
    BY <2>1, NoListFacts
  <2>4. LocalInv'
    BY <1>1, <1>4, <1>5, <2>1, <2>2, <2>3 DEF LocalInv
  <2>5. VersionInv'
    <3>1. \A r : Version(r)' <=> Version(r)
      BY <1>1 DEF Version
    <3>2. \A r \in observed : Version(r)
      BY <1>4 DEF Version
    <3>3. CollectedIsOneVersion'
      BY <1>1, <1>10 DEF CollectedIsOneVersion
    <3>4. QED
      BY <1>1, <1>5, <2>2, <2>3, <3>1, <3>2, <3>3 DEF DataInv, VersionInv
  <2>6. UniqueInv'
    <3>1. \A r, s \in collected' : r.id = s.id => r = s
      BY <1>1, <1>5, <1>6, <1>10
    <3>2. QED
      BY <1>1, <1>10, <2>1, <2>2, <3>1 DEF UniqueInv
  <2>7. CountInv'
    <3>1. Cardinality(collected') <= MaxChanged /\ Cardinality(collected') \in Nat
      BY <1>1, <2>4, RowsFinite, FS_Subset, FS_CardinalityType DEF Listing, LocalInv, fresh
    <3>2. Cardinality({}) = 0 /\ IsFiniteSet({}) /\ MaxNodes \in Nat
      BY FS_EmptySet, LimitAssumption
    <3>3. 0 + Cardinality(collected') + 0 <= MaxChanged
      BY <3>1, LimitAssumption
    <3>4. QED
      BY <1>1, <1>10, <2>2, <3>2, <3>3 DEF CountInv
  <2>8. CoverInv'
    <3>1. ASSUME honest, NEW p \in PullRequests, Wanted(p)
          PROVE  Row(p, changed[p]) \in collected'
      <4>0. /\ UpdatedAt(p) <= changed[p] /\ UpdatedAt(p) \in Nat /\ changed[p] \in Nat
            /\ window.cutoff \in Nat /\ window.source \in Nat
            /\ changed[p] <= window.cutoff /\ window.source < UpdatedAt(p)
        BY <3>1, KeyFacts, InstantFacts DEF Wanted, TimeInv, Windows
      <4>1. CASE p \in page.nodes
        <5>1. Row(p, changed[p]) \in observed
          BY <4>0, <4>1 DEF Observed, observed
        <5>2. Seconds(Row(p, changed[p]).text) <= window.cutoff
          <6>1. UpdatedAt(p) <= window.cutoff
            BY <4>0
          <6>2. QED
            BY <6>1 DEF Row, UpdatedAt
        <5>3. QED
          BY <1>11, <5>1, <5>2
      <4>2. CASE p \notin page.nodes /\ p \in After(list.cursor)
        <5>1. Reached(page.nodes)
          BY <1>3, <2>1, <3>1, <4>2
        <5>2. PICK x \in page.nodes : UpdatedAt(x) <= window.source
          BY <5>1 DEF Reached
        <5>3. Lower(Key(p), Key(x))
          BY <1>3, <3>1, <4>2
        <5>4. /\ Key(p) \in Cursors /\ Key(x) \in Cursors
              /\ Key(p)[1] = UpdatedAt(p) /\ Key(x)[1] = UpdatedAt(x)
              /\ UpdatedAt(x) \in Nat
          BY <1>3, KeyFacts
        <5>5. UpdatedAt(p) <= UpdatedAt(x)
          BY <5>3, <5>4, LowerOrder
        <5>6. QED
          BY <4>0, <5>2, <5>4, <5>5
      <4>3. CASE Row(p, changed[p]) \in collected
        BY <1>1, <4>3
      <4>4. QED
        BY <1>1, <3>1, <4>1, <4>2, <4>3 DEF DataInv, CoverInv
    <3>2. \A p \in PullRequests : Wanted(p)' <=> Wanted(p)
      BY <1>1 DEF Wanted, Existing, UpdatedAt
    <3>3. QED
      BY <1>1, <2>1, <2>2, <3>1, <3>2 DEF CoverInv
  <2>9. NodesInv'
    BY <1>1, <1>10, <2>2 DEF DataInv, NodesInv
  <2>10. QED
    BY <2>4, <2>5, <2>6, <2>7, <2>8, <2>9 DEF DataInv
<1>14. QED
  BY <1>12, <1>13 DEF Listing

-----------------------------------------------------------------------------
(* The reviews and comments of one pull request                            *)

LEMMA IdsFacts ==
    /\ \A ns, ms : Ids(ns \cup ms) = Ids(ns) \cup Ids(ms)
    /\ \A id, text : Ids({Row(id, text)}) = {id}
BY DEF Ids, Row

LEMMA NodesOfFacts ==
    ASSUME NEW p \in PullRequests
    PROVE  /\ Reviews[p] \in Nat /\ Comments[p] \in Nat
           /\ \A i \in 1..Reviews[p], j \in 0..Comments[p] : <<p, i, j>> \in NodesOf(p)
           /\ \A id \in NodesOf(p) : \E i \in 1..Reviews[p], j \in 0..Comments[p] :
                 id = <<p, i, j>>
           /\ \A i, j, k, l : <<p, i, j>> = <<p, k, l>> => i = k /\ j = l
BY PullRequestFacts DEF NodesOf

LEMMA ReadingFacts ==
    ASSUME TimeInv, LocalInv, Reading
    PROVE  /\ nested \in NestedState /\ nested.row.id \in PullRequests
           /\ changed[nested.row.id] \in Instant /\ nested.text \in Instant
           /\ nested.cursor \in Nat /\ nested.commentCursor \in Nat /\ nested.review \in Nat
           /\ nested.nodes \subseteq Nodes /\ nested.parts \subseteq Instant
           /\ nested.page \in NestedPage /\ nested.queue \subseteq Nat
           /\ nested.visited \subseteq Nat /\ nested.commentVisited \subseteq Nat
<1>1. nested \in NestedState /\ nested.row \in Rows
  BY DEF LocalInv
<1>2. nested.row.id \in PullRequests
  BY <1>1 DEF Rows
<1>3. changed[nested.row.id] \in Instant
  BY <1>2, InstantFacts DEF TimeInv
<1>4. QED
  BY <1>1, <1>2, <1>3 DEF NestedState

LEMMA ReviewPageKinds ==
    ASSUME TimeInv, LocalInv,
           NEW page \in NestedPages(nested.cursor, Reviews[nested.row.id]), ReviewPage(page)
    PROVE  Skips \/ Reads
<1> DEFINE n == nested
           p == nested.row.id
           R == Reviews[p]
           m == [[[[n EXCEPT !.page = page] EXCEPT !.queue = page.nodes]
                    EXCEPT !.text = changed[p]] EXCEPT !.parts = n.parts \cup {changed[p]}]
<1>1. pc = "reviews" /\ SameWindow /\ Reading
  BY DEF ReviewPage, SameWindow, github, Reading
<1>2. \/ MovedOn(p) /\ Skip
      \/ /\ ~MovedOn(p) /\ nested' = m /\ pc' = "queue"
         /\ UNCHANGED <<list, collected, nodes, result>>
  BY DEF ReviewPage
<1>3. CASE MovedOn(p) /\ Skip
  BY <1>1, <1>3 DEF Skips, Skip
<1>4. CASE /\ ~MovedOn(p) /\ nested' = m /\ pc' = "queue"
           /\ UNCHANGED <<list, collected, nodes, result>>
  <2>1. /\ n \in NestedState /\ p \in PullRequests /\ changed[p] \in Instant
        /\ n.cursor \in Nat /\ n.parts \subseteq Instant
    BY <1>1, ReadingFacts
  <2>2. R \in Nat
    BY <2>1, NodesOfFacts
  <2>3. /\ page \in NestedPage /\ page.nodes \subseteq 1..R
        /\ honest =>
             /\ page.hasNext <=> page.endCursor < R
             /\ \A i \in 1..R : i <= page.endCursor => i <= n.cursor \/ i \in page.nodes
    BY <2>1, <2>2, NestedPageFacts DEF TimeInv
  <2>4. page.nodes \subseteq Nat
    BY <2>2, <2>3
  <2>5. /\ m \in NestedState /\ m.row = n.row /\ m.nodes = n.nodes
        /\ m.page = page /\ m.queue = page.nodes /\ m.parts = n.parts \cup {changed[p]}
    BY <2>1, <2>3, <2>4 DEF NestedState
  <2> HIDE DEF m
  <2>6. ASSUME honest, Read(n, "reviews") PROVE Read(m, "queue")
    <3>1. \A i : Whole(m, i) <=> Whole(n, i)
      BY <2>5 DEF Whole
    <3>2. Touched(m, "queue")
      BY <2>5, <2>6, <3>1 DEF Read, Touched, Open
    <3>3. OnPage(m, "queue")
      BY <2>3, <2>5, <2>6, <3>1 DEF Read, BeforeCursor, OnPage
    <3>4. QED
      BY <2>5, <2>6, <3>2, <3>3 DEF Read
  <2>7. QED
    BY <1>1, <1>4, <2>5, <2>6 DEF Reads
<1>5. QED
  BY <1>2, <1>3, <1>4

(* A review that was seen before is passed over; a new one is opened.      *)
LEMMA NextReviewKinds ==
    ASSUME TimeInv, LocalInv, NextReview
    PROVE  Restarts \/ Reads
<1> DEFINE n == nested
           p == nested.row.id
           R == Reviews[p]
           C == Comments[p]
           node(i) == Row(<<p, i, 0>>, n.text)
           old(i) == [n EXCEPT !.queue = n.queue \ {i}]
           new(i) == [[[[[n EXCEPT !.queue = n.queue \ {i}] EXCEPT !.review = i]
                       EXCEPT !.commentCursor = 0] EXCEPT !.commentVisited = {}]
                       EXCEPT !.nodes = n.nodes \cup {node(i)}]
<1>1. pc = "queue" /\ SameWindow /\ Reading
  BY DEF NextReview, SameWindow, github, Reading
<1>2. PICK i \in n.queue :
        \/ /\ node(i) \in n.nodes /\ nested' = old(i)
           /\ UNCHANGED <<pc, list, collected, nodes, result>>
        \/ Fail
        \/ /\ node(i) \notin n.nodes /\ ~Conflict({node(i)}, n.nodes)
           /\ nested' = new(i) /\ pc' = "comments"
           /\ UNCHANGED <<list, collected, nodes, result>>
  BY DEF NextReview
<1>3. /\ n \in NestedState /\ p \in PullRequests /\ n.text \in Instant
      /\ n.queue \subseteq Nat /\ n.nodes \subseteq Nodes /\ n.page \in NestedPage
  BY <1>1, ReadingFacts
<1>4. /\ R \in Nat /\ C \in Nat
      /\ \A k \in 1..R, j \in 0..C : <<p, k, j>> \in NodesOf(p)
      /\ \A id \in NodesOf(p) : \E k \in 1..R, j \in 0..C : id = <<p, k, j>>
      /\ \A a, j, k, l : <<p, a, j>> = <<p, k, l>> => a = k /\ j = l
  BY <1>3, NodesOfFacts
<1>5. CASE Fail
  BY <1>5 DEF Fail, Restarts
<1>6. CASE /\ node(i) \in n.nodes /\ nested' = old(i)
           /\ UNCHANGED <<pc, list, collected, nodes, result>>
  <2> DEFINE m == old(i)
  <2>1. /\ m \in NestedState /\ m.row = n.row /\ m.nodes = n.nodes
        /\ m.page = n.page /\ m.queue = n.queue \ {i} /\ m.parts = n.parts
    BY <1>3 DEF NestedState
  <2>2. <<p, i, 0>> \in Ids(n.nodes)
    BY <1>6 DEF Ids, Row
  <2> HIDE DEF m
  <2>3. ASSUME Read(n, "queue") PROVE Read(m, "queue")
    <3>1. \A k : Whole(m, k) <=> Whole(n, k)
      BY <2>1 DEF Whole
    <3>2. Touched(m, "queue")
      BY <2>1, <2>3, <3>1 DEF Read, Touched, Open
    <3>3. i \in 1..R /\ OnPage(n, "queue") /\ Touched(n, "queue")
      BY <2>3 DEF Read, OnPage
    <3>4. Whole(n, i)
      BY <1>4, <2>2, <3>3 DEF Touched, Open
    <3>5. OnPage(m, "queue")
      BY <2>1, <3>1, <3>3, <3>4 DEF OnPage, Open
    <3>6. QED
      BY <2>1, <2>3, <3>2, <3>5 DEF Read
  <2>4. nested' = m /\ pc' = "queue" /\ UNCHANGED <<list, collected, nodes, result>>
    BY <1>1, <1>6 DEF m
  <2>5. QED
    BY <1>1, <2>1, <2>3, <2>4 DEF Reads
<1>7. CASE /\ node(i) \notin n.nodes /\ ~Conflict({node(i)}, n.nodes)
           /\ nested' = new(i) /\ pc' = "comments"
           /\ UNCHANGED <<list, collected, nodes, result>>
  <2> DEFINE m == new(i)
             x == node(i)
  <2>1. x \in Nodes /\ x.id = <<p, i, 0>>
    BY <1>3 DEF Nodes, Row
  <2>2. i \in Nat
    BY <1>3
  <2> HIDE DEF node
  <2>3. /\ m \in NestedState /\ m.row = n.row /\ m.nodes = n.nodes \cup {x}
        /\ m.page = n.page /\ m.queue = n.queue \ {i} /\ m.parts = n.parts
        /\ m.review = i /\ m.commentCursor = 0
    BY <1>3, <2>1, <2>2 DEF NestedState
  <2>4. Ids(m.nodes) = Ids(n.nodes) \cup {<<p, i, 0>>}
    BY <2>1, <2>3 DEF Ids
  <2>5. nested' = m /\ pc' = "comments" /\ UNCHANGED <<list, collected, nodes, result>>
    BY <1>7 DEF m
  <2> HIDE DEF m
  <2>6. ASSUME Read(n, "queue") PROVE Read(m, "comments")
    <3>1. \A k : Whole(n, k) => Whole(m, k)
      BY <2>3, <2>4 DEF Whole
    <3>2. i \in 1..R /\ OnPage(n, "queue") /\ Touched(n, "queue")
      BY <2>6 DEF Read, OnPage
    <3>3. Ids(m.nodes) \subseteq NodesOf(m.row.id)
      <4>1. 0 \in 0..C
        BY <1>4
      <4>2. <<p, i, 0>> \in NodesOf(p) /\ Ids(n.nodes) \subseteq NodesOf(p)
        BY <1>4, <2>6, <3>2, <4>1 DEF Read
      <4>3. QED
        BY <2>3, <2>4, <4>2
    <3>4. Touched(m, "comments")
      BY <1>4, <2>3, <2>4, <3>1, <3>2 DEF Touched, Open
    <3>5. OnPage(m, "comments")
      BY <2>3, <3>1, <3>2 DEF OnPage, Open
    <3>6. InReview(m)
      <4>1. \A j \in 0..C : j <= 0 => j = 0
        BY <1>4
      <4>2. QED
        BY <2>3, <2>4, <3>2, <4>1 DEF InReview
    <3>7. QED
      BY <3>3, <3>4, <3>5, <3>6 DEF Read
  <2>7. QED
    BY <1>1, <2>3, <2>5, <2>6 DEF Reads
<1>8. QED
  BY <1>2, <1>5, <1>6, <1>7

LEMMA CommentPageKinds ==
    ASSUME TimeInv, LocalInv,
           NEW page \in NestedPages(nested.commentCursor, Comments[nested.row.id]),
           CommentPage(page)
    PROVE  Restarts \/ Skips \/ Reads
<1> DEFINE n == nested
           p == nested.row.id
           R == Reviews[p]
           C == Comments[p]
           observed == {Row(<<p, n.review, j>>, changed[p]) : j \in page.nodes}
           all == n.nodes \cup observed
           last == [[n EXCEPT !.nodes = all] EXCEPT !.parts = n.parts \cup {changed[p]}]
           more == [[[[n EXCEPT !.nodes = all] EXCEPT !.commentCursor = page.endCursor]
                     EXCEPT !.commentVisited = n.commentVisited \cup {page.endCursor}]
                     EXCEPT !.parts = n.parts \cup {changed[p]}]
<1>1. pc = "comments" /\ SameWindow /\ Reading
  BY DEF CommentPage, SameWindow, github, Reading
<1>2. \/ MovedOn(p) /\ Skip
      \/ Fail
      \/ /\ ~MovedOn(p)
         /\ \/ ~page.hasNext /\ nested' = last /\ pc' = "queue"
            \/ nested' = more /\ pc' = "comments"
         /\ UNCHANGED <<list, collected, nodes, result>>
  BY DEF CommentPage
<1>3. CASE MovedOn(p) /\ Skip
  BY <1>1, <1>3 DEF Skips, Skip
<1>4. CASE Fail
  BY <1>4 DEF Fail, Restarts
<1>5. /\ n \in NestedState /\ p \in PullRequests /\ changed[p] \in Instant
      /\ n.queue \subseteq Nat /\ n.nodes \subseteq Nodes /\ n.page \in NestedPage
      /\ n.commentCursor \in Nat /\ n.review \in Nat /\ n.parts \subseteq Instant
      /\ n.commentVisited \subseteq Nat
  BY <1>1, ReadingFacts
<1>6. /\ R \in Nat /\ C \in Nat
      /\ \A k \in 1..R, j \in 0..C : <<p, k, j>> \in NodesOf(p)
      /\ \A id \in NodesOf(p) : \E k \in 1..R, j \in 0..C : id = <<p, k, j>>
      /\ \A a, j, k, l : <<p, a, j>> = <<p, k, l>> => a = k /\ j = l
  BY <1>5, NodesOfFacts
<1>7. /\ page \in NestedPage /\ page.nodes \subseteq 1..C
      /\ honest =>
           /\ page.hasNext <=> page.endCursor < C
           /\ \A j \in 1..C : j <= page.endCursor => j <= n.commentCursor \/ j \in page.nodes
  BY <1>5, <1>6, NestedPageFacts DEF TimeInv
<1>8. observed \subseteq Nodes
  <2>1. \A j \in page.nodes : <<p, n.review, j>> \in PullRequests \X Nat \X Nat
    BY <1>5, <1>6, <1>7
  <2>2. QED
    BY <1>5, <2>1 DEF Nodes, Row
<1>9. Ids(all) = Ids(n.nodes) \cup {<<p, n.review, j>> : j \in page.nodes}
  <2>1. Ids(all) = Ids(n.nodes) \cup Ids(observed)
    BY IdsFacts
  <2>2. \A j : Row(<<p, n.review, j>>, changed[p]).id = <<p, n.review, j>>
    BY DEF Row
  <2>3. Ids(observed) = {<<p, n.review, j>> : j \in page.nodes}
    BY <2>2 DEF Ids
  <2>4. QED
    BY <2>1, <2>3
<1>10. all \subseteq Nodes /\ page.endCursor \in Nat
  BY <1>5, <1>7, <1>8 DEF NestedPage
<1> HIDE DEF observed, all
(* What the page adds, whichever step follows it. *)
<1>11. ASSUME NEW m, m.row = n.row, m.nodes = all, m.page = n.page, m.queue = n.queue,
              m.review = n.review, honest, Read(n, "comments")
       PROVE  /\ Ids(m.nodes) \subseteq NodesOf(m.row.id)
              /\ \A k : Whole(n, k) => Whole(m, k)
              /\ \A k \in 1..R, j \in 0..C : <<p, k, j>> \in Ids(m.nodes) =>
                    Whole(m, k) \/ k = n.review
              /\ OnPage(m, "comments")
              /\ \A j \in 0..C : j <= page.endCursor => <<p, n.review, j>> \in Ids(m.nodes)
              /\ n.review \in 1..R
  <2>1. Ids(m.nodes) = Ids(n.nodes) \cup {<<p, n.review, j>> : j \in page.nodes}
    BY <1>9, <1>11
  <2>2. n.review \in 1..R /\ InReview(n) /\ OnPage(n, "comments") /\ Touched(n, "comments")
    BY <1>11 DEF Read, InReview
  <2>3. Ids(m.nodes) \subseteq NodesOf(m.row.id)
    <3>1. \A j \in page.nodes : <<p, n.review, j>> \in NodesOf(p)
      BY <1>6, <1>7, <2>2
    <3>2. QED
      BY <1>11, <2>1, <3>1 DEF Read
  <2>4. \A k : Whole(n, k) => Whole(m, k)
    BY <1>11, <2>1 DEF Whole
  <2>5. \A k \in 1..R, j \in 0..C : <<p, k, j>> \in Ids(m.nodes) =>
           Whole(m, k) \/ k = n.review
    BY <1>6, <2>1, <2>2, <2>4 DEF Touched, Open
  <2>6. OnPage(m, "comments")
    BY <1>11, <2>2, <2>4 DEF OnPage, Open
  <2>7. \A j \in 0..C : j <= page.endCursor => <<p, n.review, j>> \in Ids(m.nodes)
    <3> SUFFICES ASSUME NEW j \in 0..C, j <= page.endCursor
                 PROVE  <<p, n.review, j>> \in Ids(m.nodes)
      OBVIOUS
    <3>1. CASE j <= n.commentCursor
      BY <2>1, <2>2, <3>1 DEF InReview
    <3>2. CASE ~(j <= n.commentCursor)
      <4>1. j \in 1..C
        BY <1>5, <1>6, <3>2
      <4>2. j \in page.nodes
        BY <1>7, <1>11, <3>2, <4>1
      <4>3. QED
        BY <2>1, <4>2
    <3>3. QED
      BY <3>1, <3>2
  <2>8. QED
    BY <2>2, <2>3, <2>4, <2>5, <2>6, <2>7
<1>12. CASE /\ ~MovedOn(p) /\ ~page.hasNext /\ nested' = last /\ pc' = "queue"
            /\ UNCHANGED <<list, collected, nodes, result>>
  <2> DEFINE m == last
  <2>1. /\ m \in NestedState /\ m.row = n.row /\ m.nodes = all /\ m.page = n.page
        /\ m.queue = n.queue /\ m.review = n.review /\ m.parts = n.parts \cup {changed[p]}
    BY <1>5, <1>10 DEF NestedState
  <2>2. nested' = m /\ ~page.hasNext
    BY <1>12
  <2> HIDE DEF m
  <2>3. ASSUME honest, Read(n, "comments") PROVE Read(m, "queue")
    <3>1. /\ Ids(m.nodes) \subseteq NodesOf(m.row.id)
          /\ \A k \in 1..R, j \in 0..C : <<p, k, j>> \in Ids(m.nodes) =>
                Whole(m, k) \/ k = n.review
          /\ OnPage(m, "comments")
          /\ \A j \in 0..C : j <= page.endCursor => <<p, n.review, j>> \in Ids(m.nodes)
      BY <1>11, <2>1, <2>3
    <3>2. \A j \in 0..C : j <= page.endCursor
      BY <1>6, <1>7, <1>10, <2>2, <2>3
    <3>3. Whole(m, n.review)
      BY <2>1, <3>1, <3>2 DEF Whole
    <3>4. Touched(m, "queue")
      BY <2>1, <3>1, <3>3 DEF Touched
    <3>5. OnPage(m, "queue")
      BY <2>1, <3>1, <3>3 DEF OnPage, Open
    <3>6. QED
      BY <3>1, <3>4, <3>5 DEF Read
  <2>4. QED
    BY <1>1, <1>12, <2>1, <2>2, <2>3 DEF Reads
<1>13. CASE /\ ~MovedOn(p) /\ nested' = more /\ pc' = "comments"
            /\ UNCHANGED <<list, collected, nodes, result>>
  <2> DEFINE m == more
  <2>1. /\ m \in NestedState /\ m.row = n.row /\ m.nodes = all /\ m.page = n.page
        /\ m.queue = n.queue /\ m.review = n.review /\ m.parts = n.parts \cup {changed[p]}
        /\ m.commentCursor = page.endCursor
    BY <1>5, <1>10 DEF NestedState
  <2>2. nested' = m
    BY <1>13
  <2> HIDE DEF m
  <2>3. ASSUME honest, Read(n, "comments") PROVE Read(m, "comments")
    <3>1. /\ Ids(m.nodes) \subseteq NodesOf(m.row.id)
          /\ \A k \in 1..R, j \in 0..C : <<p, k, j>> \in Ids(m.nodes) =>
                Whole(m, k) \/ k = n.review
          /\ OnPage(m, "comments")
          /\ \A j \in 0..C : j <= page.endCursor => <<p, n.review, j>> \in Ids(m.nodes)
          /\ n.review \in 1..R
      BY <1>11, <2>1, <2>3
    <3>2. Touched(m, "comments")
      BY <2>1, <3>1 DEF Touched, Open
    <3>3. InReview(m)
      BY <2>1, <3>1 DEF InReview
    <3>4. QED
      BY <3>1, <3>2, <3>3 DEF Read
  <2>4. QED
    BY <1>1, <1>13, <2>1, <2>2, <2>3 DEF Reads
<1>14. QED
  BY <1>2, <1>3, <1>4, <1>12, <1>13

LEMMA ReviewsDoneKinds ==
    ASSUME TimeInv, LocalInv, ReviewsDone
    PROVE  Restarts \/ Reads \/ Delivers
<1> DEFINE n == nested
           p == nested.row.id
           R == Reviews[p]
           C == Comments[p]
           next == [[n EXCEPT !.cursor = n.page.endCursor]
                     EXCEPT !.visited = n.visited \cup {n.page.endCursor}]
<1>1. pc = "queue" /\ SameWindow /\ Reading /\ n.queue = {}
  BY DEF ReviewsDone, SameWindow, github, Reading
<1>2. \/ Fail
      \/ /\ n.page.hasNext /\ nested' = next /\ pc' = "reviews"
         /\ UNCHANGED <<list, collected, nodes, result>>
      \/ /\ ~n.page.hasNext /\ Cardinality(nodes \cup n.nodes) <= MaxNodes
         /\ nodes' = nodes \cup n.nodes /\ result' = result \cup {Dto(n.row, n.parts)}
         /\ pc' = "next" /\ nested' = ReviewsOf(NoRow) /\ UNCHANGED <<list, collected>>
  BY DEF ReviewsDone
<1>3. /\ n \in NestedState /\ p \in PullRequests /\ n.nodes \subseteq Nodes
      /\ n.page \in NestedPage /\ n.visited \subseteq Nat
  BY <1>1, ReadingFacts
<1>4. /\ R \in Nat /\ C \in Nat
      /\ \A id \in NodesOf(p) : \E k \in 1..R, j \in 0..C : id = <<p, k, j>>
  BY <1>3, NodesOfFacts
<1>5. n.page.endCursor \in Nat
  BY <1>3 DEF NestedPage
<1>6. CASE Fail
  BY <1>6 DEF Fail, Restarts
<1>7. CASE /\ n.page.hasNext /\ nested' = next /\ pc' = "reviews"
           /\ UNCHANGED <<list, collected, nodes, result>>
  <2> DEFINE m == next
  <2>1. /\ m \in NestedState /\ m.row = n.row /\ m.nodes = n.nodes /\ m.parts = n.parts
        /\ m.cursor = n.page.endCursor
    BY <1>3, <1>5 DEF NestedState
  <2>2. nested' = m
    BY <1>7
  <2> HIDE DEF m
  <2>3. ASSUME Read(n, "queue") PROVE Read(m, "reviews")
    <3>1. \A k : Whole(m, k) <=> Whole(n, k)
      BY <2>1 DEF Whole
    <3>2. Touched(m, "reviews")
      BY <2>1, <2>3, <3>1 DEF Read, Touched, Open
    <3>3. BeforeCursor(m)
      BY <1>1, <2>1, <2>3, <3>1 DEF Read, OnPage, BeforeCursor, Open
    <3>4. QED
      BY <2>1, <2>3, <3>2, <3>3 DEF Read
  <2>4. QED
    BY <1>1, <1>7, <2>1, <2>2, <2>3 DEF Reads
<1>8. CASE /\ ~n.page.hasNext /\ Cardinality(nodes \cup n.nodes) <= MaxNodes
           /\ nodes' = nodes \cup n.nodes /\ result' = result \cup {Dto(n.row, n.parts)}
           /\ pc' = "next" /\ nested' = ReviewsOf(NoRow) /\ UNCHANGED <<list, collected>>
  <2>1. ASSUME Read(n, "queue") PROVE Ids(n.nodes) = NodesOf(p)
    <3>1. Ids(n.nodes) \subseteq NodesOf(p) /\ OnPage(n, "queue")
      BY <2>1 DEF Read
    <3>2. \A k \in 1..R : k <= n.page.endCursor
      BY <1>4, <1>5, <1>8, <3>1 DEF OnPage
    <3>3. \A k \in 1..R : Whole(n, k)
      BY <1>1, <3>1, <3>2 DEF OnPage, Open
    <3>4. NodesOf(p) \subseteq Ids(n.nodes)
      BY <1>4, <3>3 DEF Whole
    <3>5. QED
      BY <3>1, <3>4
  <2>2. QED
    BY <1>1, <1>8, <2>1 DEF Delivers
<1>9. QED
  BY <1>2, <1>6, <1>7, <1>8

-----------------------------------------------------------------------------
(* Every step                                                              *)

LEMMA CollectorKinds ==
    ASSUME TimeInv, LocalInv, CollectorStep
    PROVE  \/ Restarts \/ Closes \/ Skips \/ Reads \/ Delivers \/ \E row : Takes(row)
           \/ \E page \in FetchPullRequests(list.cursor) : Listing(page)
<1>1. ASSUME NEW page \in FetchPullRequests(list.cursor), ListPage(page)
      PROVE  Restarts \/ Listing(page)
  BY <1>1, ListPageKinds
<1>2. ASSUME NextPullRequest PROVE Closes \/ \E row : Takes(row)
  BY <1>2 DEF NextPullRequest, Closes, Takes, SameWindow, github
<1>3. QED
  BY <1>1, <1>2, ReviewPageKinds, NextReviewKinds, CommentPageKinds, ReviewsDoneKinds
     DEF CollectorStep

LEMMA CallerKinds ==
    ASSUME CallerStep \/ Unauthorized \/ RequestFails
    PROVE  Restarts \/ Idles
<1>1. ASSUME NEW r, StartAttempt(r) PROVE Restarts
  BY <1>1 DEF StartAttempt, Restarts
<1>2. ASSUME Fail PROVE Restarts
  BY <1>2 DEF Fail, Restarts
<1>3. ASSUME GiveUp \/ Analyse \/ AnalysisFails \/ EstimateCost PROVE Idles
  BY <1>3 DEF GiveUp, Analyse, AnalysisFails, EstimateCost, Idles, SameWindow, github
<1>4. QED
  BY <1>1, <1>2, <1>3 DEF CallerStep, Begin, RetryWindow, Unauthorized, RequestFails

LEMMA NextData ==
    ASSUME TimeInv, LocalInv, DataInv, [Next]_vars
    PROVE  LocalInv' /\ DataInv'
<1>1. ASSUME CollectorStep PROVE LocalInv' /\ DataInv'
  BY <1>1, CollectorKinds, RestartsData, ClosesData, SkipsData, ReadsData, DeliversData,
     TakesData, ListingData
<1>2. ASSUME CallerStep \/ Unauthorized \/ RequestFails PROVE LocalInv' /\ DataInv'
  BY <1>2, CallerKinds, RestartsData, IdlesData
<1>3. ASSUME NEW p \in PullRequests, Change(p) PROVE LocalInv' /\ DataInv'
  BY <1>3, ChangeData
<1>4. CASE UNCHANGED vars
  <2>1. /\ list' = list /\ collected' = collected /\ nested' = nested /\ nodes' = nodes
        /\ result' = result /\ honest' = honest /\ changed' = changed /\ window' = window
        /\ pc' = pc
    BY <1>4 DEF vars
  <2>2. Reading' = Reading /\ Working' = Working
    BY <2>1 DEF Reading, Working
  <2>3. LocalInv'
    BY <2>1, <2>2 DEF LocalInv
  <2>4. VersionInv'
    BY <2>1, <2>2 DEF DataInv, VersionInv, Version, OneVersion, CollectedIsOneVersion
  <2>5. UniqueInv' /\ CountInv'
    BY <2>1, <2>2 DEF DataInv, UniqueInv, CountInv
  <2>6. CoverInv'
    <3>1. \A p : (Wanted(p)' <=> Wanted(p)) /\ (Delivered(p)' <=> Delivered(p))
      BY <2>1 DEF Wanted, Existing, UpdatedAt, Delivered
    <3>2. After(list.cursor)' = After(list.cursor)
      BY <2>1 DEF After, Existing, Key, Order
    <3>3. QED
      BY <2>1, <2>2, <3>1, <3>2 DEF DataInv, CoverInv
  <2>7. NodesInv'
    BY <2>1, <2>2 DEF DataInv, NodesInv
  <2>8. QED
    BY <2>3, <2>4, <2>5, <2>6, <2>7 DEF DataInv
<1>5. QED
  BY <1>1, <1>2, <1>3, <1>4 DEF Next

(* Steps that leave GitHub, the tables and the window alone.               *)
Keeps ==
    /\ UNCHANGED <<github, progress, window>>
    /\ pc = "idle" => pc' = "idle"
    /\ refreshed' \in BOOLEAN /\ faults' \in 0..MaxFaults

LEMMA KeepsTime ==
    ASSUME TimeInv, Keeps
    PROVE  TimeInv'
BY DEF TimeInv, Keeps, github, progress

LEMMA CountedFault ==
    ASSUME faults \in 0..MaxFaults, faults < MaxFaults, faults' = faults + 1
    PROVE  faults' \in 0..MaxFaults
BY LimitAssumption

LEMMA CollectorKeeps ==
    ASSUME TimeInv, CollectorStep
    PROVE  Keeps
<1>1. refreshed \in BOOLEAN /\ faults \in 0..MaxFaults
  BY DEF TimeInv
<1>2. ASSUME Fail \/ Skip PROVE refreshed' = refreshed
  BY <1>2 DEF Fail, Skip
<1>3. ASSUME NEW page, ListPage(page) PROVE Keeps
  BY <1>1, <1>2, <1>3 DEF ListPage, Keeps
<1>4. ASSUME NextPullRequest PROVE Keeps
  BY <1>1, <1>4 DEF NextPullRequest, Keeps
<1>5. ASSUME NEW page, ReviewPage(page) PROVE Keeps
  BY <1>1, <1>2, <1>5 DEF ReviewPage, Keeps
<1>6. ASSUME NextReview PROVE Keeps
  BY <1>1, <1>2, <1>6 DEF NextReview, Keeps
<1>7. ASSUME NEW page, CommentPage(page) PROVE Keeps
  BY <1>1, <1>2, <1>7 DEF CommentPage, Keeps
<1>8. ASSUME ReviewsDone PROVE Keeps
  BY <1>1, <1>2, <1>8 DEF ReviewsDone, Keeps
<1>9. QED
  BY <1>3, <1>4, <1>5, <1>6, <1>7, <1>8 DEF CollectorStep

LEMMA FaultKeeps ==
    ASSUME TimeInv, Unauthorized \/ RequestFails
    PROVE  Keeps
<1>1. refreshed \in BOOLEAN /\ faults' \in 0..MaxFaults
  BY CountedFault DEF TimeInv, Unauthorized, RequestFails
<1>2. pc # "idle" /\ UNCHANGED <<github, progress, window>>
  BY DEF Unauthorized, RequestFails, Requesting
<1>3. refreshed' \in BOOLEAN
  BY <1>1 DEF Unauthorized, RequestFails, Fail, StartAttempt
<1>4. QED
  BY <1>1, <1>2, <1>3 DEF Keeps

LEMMA NextTime ==
    ASSUME TimeInv, LocalInv, [Next]_vars
    PROVE  TimeInv'
<1>1. /\ MaxTime \in Nat /\ Grain \in Nat \ {0} /\ clock \in Nat
      /\ clock >= Grain /\ lastSyncTime \in Nat /\ lastSyncTime <= MaxTime
      /\ \A c \in cutoffs : c \in Nat
      /\ 0..MaxTime \subseteq Instant
  BY InstantFacts DEF TimeInv
<1>2. ASSUME NEW p \in PullRequests, Change(p) PROVE TimeInv'
  <2>1. /\ clock <= MaxTime /\ changed' = [changed EXCEPT ![p] = clock] /\ clock' = clock + 1
        /\ UNCHANGED <<honest, cutoffs, progress, window, pc, refreshed, faults>>
    BY <1>1, <1>2, InstantFacts DEF Change
  <2>2. changed' \in [PullRequests -> 0..MaxTime] /\ \A q \in PullRequests : changed'[q] < clock'
    BY <1>1, <2>1 DEF TimeInv
  <2>3. clock' \in Grain..(MaxTime + 1) /\ \A c \in cutoffs : c < clock'
    BY <1>1, <2>1 DEF TimeInv
  <2>4. QED
    BY <2>1, <2>2, <2>3 DEF TimeInv, progress
<1>3. ASSUME Begin PROVE TimeInv'
  <2>1. /\ clock <= MaxTime /\ cutoffs' = cutoffs \cup {clock} /\ clock' = clock + 1
        /\ window' = [source |-> lastSyncTime, cutoff |-> clock]
        /\ honest' = honest /\ changed' = changed /\ UNCHANGED <<progress, faults>>
        /\ refreshed' = FALSE
    BY <1>1, <1>3, InstantFacts DEF Begin, StartAttempt
  <2>2. lastSyncTime < clock
    BY <1>1 DEF TimeInv
  <2>3. window' \in Windows /\ window'.source = lastSyncTime /\ window'.cutoff = clock
    BY <1>1, <2>1, <2>2 DEF Windows
  <2>4. clock' \in Grain..(MaxTime + 1) /\ \A c \in cutoffs' : c < clock'
    BY <1>1, <2>1 DEF TimeInv
  <2>5. cutoffs' \subseteq 1..MaxTime
    BY <1>1, <2>1 DEF TimeInv
  <2>6. \A q \in PullRequests : changed'[q] < clock'
    <3>1. \A q \in PullRequests : changed[q] \in Nat /\ changed[q] < clock
      BY KeyFacts DEF TimeInv
    <3>2. QED
      BY <1>1, <2>1, <3>1
  <2>7. window'.cutoff \in cutoffs' /\ window'.source <= lastSyncTime
    BY <1>1, <2>1, <2>3
  <2>8. /\ lastSyncTime' = lastSyncTime /\ lastSyncTime' \in cutoffs' \cup {0}
        /\ \A w \in failed : w.cutoff \in cutoffs' /\ w.source <= lastSyncTime
    BY <2>1 DEF TimeInv, progress
  <2>9. /\ failed' = failed /\ failed \subseteq Windows /\ honest' \in BOOLEAN
        /\ analysed' \in [PullRequests -> SUBSET Instant]
        /\ changed' \in [PullRequests -> 0..MaxTime] /\ faults' \in 0..MaxFaults
        /\ refreshed' \in BOOLEAN
    BY <2>1 DEF TimeInv, progress
  <2>10. QED
    BY <2>3, <2>4, <2>5, <2>6, <2>7, <2>8, <2>9 DEF TimeInv
<1>4. ASSUME NEW w \in failed, RetryWindow(w) PROVE TimeInv'
  <2>1. /\ window' = w /\ UNCHANGED <<github, progress, faults>> /\ refreshed' = FALSE
    BY <1>4 DEF RetryWindow, StartAttempt
  <2>2. w \in Windows /\ w.cutoff \in cutoffs /\ w.source <= lastSyncTime
    BY DEF TimeInv
  <2>3. QED
    BY <2>1, <2>2 DEF TimeInv, github, progress
<1>5. ASSUME GiveUp \/ AnalysisFails PROVE TimeInv'
  <2>1. /\ UNCHANGED <<github, lastSyncTime, analysed, window, refreshed>>
        /\ failed' = failed \cup {window} /\ pc # "idle" /\ pc' = "idle"
    BY <1>5 DEF GiveUp, AnalysisFails
  <2>2. faults' \in 0..MaxFaults
    BY <1>5, CountedFault DEF GiveUp, AnalysisFails, TimeInv
  <2>3. QED
    BY <2>1, <2>2 DEF TimeInv, github
<1>6. ASSUME Analyse PROVE TimeInv'
  <2>1. /\ UNCHANGED <<github, window, refreshed, faults>>
        /\ lastSyncTime' = Advanced(window.cutoff)
        /\ failed' = failed \ {window} /\ pc = "done" /\ pc' = "idle"
        /\ analysed' = [p \in PullRequests |->
                          analysed[p] \cup {d.text : d \in {r \in result : r.id = p}}]
    BY <1>6 DEF Analyse
  <2>2. window.cutoff \in cutoffs /\ window.cutoff \in Nat
    BY <1>1, <2>1 DEF TimeInv
  <2>3. lastSyncTime' \in cutoffs \cup {0} /\ lastSyncTime <= lastSyncTime'
        /\ lastSyncTime' \in Nat
    BY <1>1, <2>1, <2>2 DEF Advanced, TimeInv
  <2>4. analysed' \in [PullRequests -> SUBSET Instant]
    <3>1. \A d \in result : d.text \in Instant
      BY DEF LocalInv, Dtos
    <3>2. QED
      BY <2>1, <3>1 DEF TimeInv
  <2>5. \A w \in failed \cup {window} : w.source \in Nat /\ w.source <= lastSyncTime
    BY InstantFacts DEF TimeInv, Windows
  <2>6. \A w \in failed \cup {window} : w.source <= lastSyncTime'
    BY <1>1, <2>3, <2>5
  <2>7. QED
    BY <2>1, <2>3, <2>4, <2>6 DEF TimeInv, github
<1>7. ASSUME EstimateCost PROVE TimeInv'
  <2>1. Keeps
    BY <1>7 DEF EstimateCost, Keeps, TimeInv
  <2>2. QED
    BY <2>1, KeepsTime
<1>8. ASSUME CollectorStep \/ Unauthorized \/ RequestFails PROVE TimeInv'
  BY <1>8, CollectorKeeps, FaultKeeps, KeepsTime
<1>9. CASE UNCHANGED vars
  <2>1. Keeps
    BY <1>9 DEF vars, Keeps, github, progress, TimeInv
  <2>2. QED
    BY <2>1, KeepsTime
<1>10. QED
  BY <1>2, <1>3, <1>4, <1>5, <1>6, <1>7, <1>8, <1>9 DEF Next, CallerStep

-----------------------------------------------------------------------------
(* lastSyncTime and the data                                               *)

Covered(p) ==
    UpdatedAt(p) <= lastSyncTime =>
        changed[p] \in analysed[p] \/ \E c \in cutoffs : Blurred(changed[p], c)

LEMMA NextCovered ==
    ASSUME TimeInv, LocalInv, DataInv, NothingMissed, [Next]_vars
    PROVE  NothingMissed'
<1>1. Existing \subseteq PullRequests
  BY DEF Existing
<1>2. ASSUME UNCHANGED <<honest, changed, lastSyncTime, analysed>>, cutoffs \subseteq cutoffs'
      PROVE  NothingMissed'
  BY <1>2 DEF NothingMissed, Existing, UpdatedAt
(* A change made in the second of lastSyncTime is blurred by it. *)
<1>3. ASSUME NEW p \in PullRequests, Change(p) PROVE NothingMissed'
  <2>1. /\ changed' = [changed EXCEPT ![p] = clock] /\ honest' = honest
        /\ cutoffs' = cutoffs /\ lastSyncTime' = lastSyncTime /\ analysed' = analysed
    BY <1>3 DEF Change, progress
  <2>2. /\ changed'[p] = clock
        /\ \A q \in PullRequests : q # p => changed'[q] = changed[q]
    BY <2>1 DEF TimeInv
  <2>3. clock \in Nat /\ clock >= Grain /\ lastSyncTime \in Nat /\ lastSyncTime < clock
    BY InstantFacts DEF TimeInv
  <2>4. Seconds(clock) \in Nat /\ Seconds(clock) >= 1
    BY <2>3, SecondsFacts
  <2>5. Seconds(clock) <= lastSyncTime => \E c \in cutoffs : Blurred(clock, c)
    <3>1. ASSUME Seconds(clock) <= lastSyncTime PROVE lastSyncTime \in cutoffs
      BY <2>3, <2>4, <3>1 DEF TimeInv
    <3>2. QED
      BY <2>3, <3>1 DEF Blurred
  <2>6. ASSUME honest, NEW q \in PullRequests, changed'[q] # 0 PROVE Covered(q)'
    <3>1. CASE q = p
      BY <2>1, <2>2, <2>5, <3>1 DEF Covered, UpdatedAt, Blurred
    <3>2. CASE q # p
      <4>1. changed'[q] = changed[q] /\ q \in Existing
        BY <2>2, <2>6, <3>2 DEF Existing
      <4>2. Covered(q)
        BY <2>6, <4>1 DEF NothingMissed, Covered
      <4>3. QED
        BY <2>1, <4>1, <4>2 DEF Covered, UpdatedAt, Blurred
    <3>3. QED
      BY <3>1, <3>2
  <2>7. QED
    BY <2>1, <2>6 DEF NothingMissed, Covered, Existing
(* What lies below the source was covered before; what lies in the window  *)
(* was delivered or is blurred by its cutoff.                              *)
<1>4. ASSUME Analyse PROVE NothingMissed'
  <2>1. /\ honest' = honest /\ changed' = changed /\ cutoffs' = cutoffs
        /\ lastSyncTime' = Advanced(window.cutoff) /\ pc = "done"
        /\ analysed' = [p \in PullRequests |->
                          analysed[p] \cup {d.text : d \in {r \in result : r.id = p}}]
    BY <1>4 DEF Analyse, github
  <2>2. /\ window.cutoff \in cutoffs /\ window.cutoff \in Nat /\ lastSyncTime \in Nat
        /\ window.source \in Nat /\ window.source <= lastSyncTime
    BY <2>1, InstantFacts DEF TimeInv, Windows
  <2>3. ASSUME honest, NEW p \in Existing PROVE Covered(p)'
    <3>1. /\ p \in PullRequests /\ UpdatedAt(p) \in Nat /\ changed[p] \in Nat
          /\ UpdatedAt(p)' = UpdatedAt(p) /\ changed'[p] = changed[p]
          /\ analysed'[p] = analysed[p] \cup {d.text : d \in {r \in result : r.id = p}}
      BY <1>1, <2>1, KeyFacts DEF UpdatedAt
    <3>2. Covered(p)
      BY <2>3 DEF NothingMissed, Covered
    <3>3. CASE UpdatedAt(p) <= lastSyncTime
      BY <2>1, <3>1, <3>2, <3>3 DEF Covered, Blurred
    <3>4. CASE ~(UpdatedAt(p) <= lastSyncTime) /\ UpdatedAt(p) <= lastSyncTime'
      <4>1. lastSyncTime' = window.cutoff
        BY <2>1, <3>4 DEF Advanced
      <4>2. UpdatedAt(p) <= window.cutoff /\ window.source < UpdatedAt(p)
        BY <2>2, <3>1, <3>4, <4>1
      <4>3. CASE changed[p] <= window.cutoff
        <5>1. Wanted(p)
          BY <2>3, <4>2, <4>3 DEF Wanted
        <5>2. Delivered(p)
          <6>1. ~Reading /\ Working /\ collected = {}
            BY <2>1, <2>3 DEF Reading, Working, DataInv, CoverInv
          <6>2. QED
            BY <2>3, <3>1, <5>1, <6>1 DEF DataInv, CoverInv
        <5>3. changed[p] \in analysed'[p]
          BY <3>1, <5>2 DEF Delivered
        <5>4. QED
          BY <3>1, <5>3 DEF Covered
      <4>4. CASE ~(changed[p] <= window.cutoff)
        <5>1. Blurred(changed[p], window.cutoff)
          BY <2>2, <3>1, <4>2, <4>4 DEF Blurred, UpdatedAt
        <5>2. QED
          BY <2>1, <2>2, <3>1, <5>1 DEF Covered, Blurred
      <4>5. QED
        BY <4>3, <4>4
    <3>5. CASE ~(UpdatedAt(p) <= lastSyncTime')
      BY <3>1, <3>5 DEF Covered
    <3>6. QED
      BY <3>3, <3>4, <3>5
  <2>4. QED
    BY <2>1, <2>3 DEF NothingMissed, Covered, Existing
<1>5. ASSUME Begin \/ GiveUp \/ AnalysisFails \/ EstimateCost \/ \E w \in failed : RetryWindow(w)
      PROVE  NothingMissed'
  <2>1. UNCHANGED <<honest, changed, lastSyncTime, analysed>> /\ cutoffs \subseteq cutoffs'
    BY <1>5 DEF Begin, GiveUp, AnalysisFails, EstimateCost, RetryWindow, github, progress
  <2>2. QED
    BY <1>2, <2>1
<1>6. ASSUME CollectorStep \/ Unauthorized \/ RequestFails PROVE NothingMissed'
  <2>1. Keeps
    BY <1>6, CollectorKeeps, FaultKeeps
  <2>2. QED
    BY <1>2, <2>1 DEF Keeps, github, progress
<1>7. CASE UNCHANGED vars
  BY <1>2, <1>7 DEF vars
<1>8. QED
  BY <1>3, <1>4, <1>5, <1>6, <1>7 DEF Next, CallerStep

-----------------------------------------------------------------------------
(* The theorems                                                            *)

CollectionInv == TimeInv /\ LocalInv /\ DataInv /\ NothingMissed

LEMMA InitCollection == Init => CollectionInv
<1> SUFFICES ASSUME Init PROVE CollectionInv
  OBVIOUS
<1>1. /\ pc = "idle" /\ list = NoList /\ collected = {} /\ nested = ReviewsOf(NoRow)
      /\ nodes = {} /\ result = {} /\ changed = [p \in PullRequests |-> 0]
  BY DEF Init
<1>2. ~Reading /\ ~Working
  BY <1>1 DEF Reading, Working
<1>3. TimeInv
  <2>1. window \in Windows /\ window.cutoff = 0 /\ window.source = 0
    BY InstantFacts DEF Init, Windows
  <2>2. /\ 0 \in 0..MaxTime /\ 0 \in 0..MaxFaults /\ Grain \in Grain..(MaxTime + 1)
        /\ 0 < Grain
    BY LimitAssumption
  <2>3. /\ honest \in BOOLEAN /\ clock = Grain /\ cutoffs = {} /\ lastSyncTime = 0
        /\ analysed = [p \in PullRequests |-> {}] /\ failed = {} /\ refreshed = FALSE
        /\ faults = 0
    BY DEF Init
  <2>4. /\ changed \in [PullRequests -> 0..MaxTime]
        /\ \A p \in PullRequests : changed[p] < clock
    BY <1>1, <2>2, <2>3
  <2>5. analysed \in [PullRequests -> SUBSET Instant] /\ refreshed \in BOOLEAN
    BY <2>3
  <2>6. window.cutoff \in cutoffs \cup {0} /\ window.source <= lastSyncTime
    BY <2>1, <2>3
  <2>7. QED
    BY <1>1, <2>1, <2>2, <2>3, <2>4, <2>5, <2>6 DEF TimeInv
<1>4. LocalInv
  BY <1>1, <1>2, NoListFacts, ReviewsOfFacts DEF LocalInv
<1>5. VersionInv /\ UniqueInv
  BY <1>1, <1>2, NoListFacts DEF VersionInv, UniqueInv, CollectedIsOneVersion
<1>6. CountInv
  <2>1. Cardinality({}) = 0 /\ IsFiniteSet({}) /\ MaxChanged \in Nat /\ MaxNodes \in Nat
    BY FS_EmptySet, LimitAssumption
  <2>2. QED
    BY <1>1, <1>2, <2>1 DEF CountInv
<1>7. CoverInv /\ NodesInv
  BY <1>1, <1>2 DEF CoverInv, NodesInv, Ids
<1>8. NothingMissed
  BY <1>1 DEF NothingMissed, Existing
<1>9. QED
  BY <1>3, <1>4, <1>5, <1>6, <1>7, <1>8 DEF CollectionInv, DataInv

LEMMA NextCollection == CollectionInv /\ [Next]_vars => CollectionInv'
BY NextTime, NextData, NextCovered DEF CollectionInv

LEMMA SpecCollection == Spec => []CollectionInv
BY InitCollection, NextCollection, PTL DEF Spec

(* The tables and the accumulators keep their types, and no caller passes  *)
(* collect a window whose sourceCursor lies after its collectionCutoff.    *)
THEOREM CollectionTypeCorrect == Spec => []TypeOK
<1>1. CollectionInv => TypeOK
  <2> SUFFICES ASSUME CollectionInv PROVE TypeOK
    OBVIOUS
  <2>1. TimeInv /\ LocalInv
    BY DEF CollectionInv
  <2>2. clock \in 1..(MaxTime + 1) /\ lastSyncTime \in 0..MaxTime
    BY <2>1, InstantFacts DEF TimeInv
  <2>3. list.seen \subseteq Rows
    BY <2>1 DEF LocalInv, Lists
  <2>4. /\ nested.row \in Rows \cup {NoRow} /\ nested.nodes \subseteq Nodes
        /\ nested.parts \subseteq Instant
    BY <2>1 DEF LocalInv, NestedState
  <2>5. QED
    BY <2>1, <2>2, <2>3, <2>4 DEF TypeOK, TimeInv, LocalInv, Dtos
<1>2. QED
  BY <1>1, SpecCollection, PTL

(* However often the repository changes while collect reads it, whichever  *)
(* job fails, restarts or is retried: a pull request that lastSyncTime has *)
(* passed was analysed in its present version, unless a cutoff blurs it.   *)
THEOREM NothingIsMissed == Spec => []NothingMissed
<1>1. CollectionInv => NothingMissed
  BY DEF CollectionInv
<1>2. QED
  BY <1>1, SpecCollection, PTL

(* The row, the reviews and the comments of a delivered pull request       *)
(* belong to one version of it, unless the cutoff blurs the change.        *)
THEOREM DeliversOneVersion == Spec => []CollectedIsOneVersion
<1>1. CollectionInv => CollectedIsOneVersion
  BY DEF CollectionInv, DataInv, VersionInv
<1>2. QED
  BY <1>1, SpecCollection, PTL

(* A collection that succeeds has every pull request of its window once,   *)
(* every review and comment of those it delivers, and keeps its limits.    *)
THEOREM CollectionsAreComplete == Spec => []CollectionIsComplete
<1>1. CollectionInv => CollectionIsComplete
  <2> SUFFICES ASSUME CollectionInv, honest, pc = "done" PROVE
        /\ \A p \in Existing :
              window.source < UpdatedAt(p) /\ changed[p] <= window.cutoff
                  => \E d \in result : d.id = p /\ d.text = changed[p]
        /\ \A d, e \in result : d.id = e.id => d = e
        /\ {n.id : n \in nodes} = UNION {NodesOf(d.id) : d \in result}
        /\ Cardinality(nodes) <= MaxNodes
        /\ Cardinality(result) <= MaxChanged
    BY DEF CollectionIsComplete
  <2>1. TimeInv /\ LocalInv /\ VersionInv /\ UniqueInv /\ CountInv /\ CoverInv /\ NodesInv
    BY DEF CollectionInv, DataInv
  <2>2. ~Reading /\ Working /\ collected = {}
    BY <2>1 DEF Reading, Working, CoverInv
  <2>3. \A p \in Existing :
              window.source < UpdatedAt(p) /\ changed[p] <= window.cutoff
                  => \E d \in result : d.id = p /\ d.text = changed[p]
    BY <2>1, <2>2 DEF CoverInv, Wanted, Delivered, Existing
  <2>4. {n.id : n \in nodes} = UNION {NodesOf(d.id) : d \in result}
    BY <2>1 DEF NodesInv, Ids
  <2>5. Cardinality(result) <= MaxChanged
    <3>1. Cardinality(result) \in Nat /\ Cardinality(collected) = 0
      BY <2>1, <2>2, FS_CardinalityType, FS_EmptySet DEF CountInv
    <3>2. Cardinality(result) + 0 + 0 <= MaxChanged
      BY <2>1, <2>2, <3>1 DEF CountInv
    <3>3. QED
      BY <3>1, <3>2
  <2>6. QED
    BY <2>1, <2>3, <2>4, <2>5 DEF UniqueInv, CountInv
<1>2. QED
  BY <1>1, SpecCollection, PTL
=============================================================================
