------------------------ MODULE AnalysisWorkerProofs ------------------------
(***************************************************************************)
(* Proofs about AnalysisWorker for any number of jobs, users, repositories *)
(* and invocations, any attempt limit, any reservation and usage sizes.    *)
(*                                                                         *)
(* The inductive invariant has one part for the rows and the money behind  *)
(* them (RowsOK) and one for the local state of the invocations (LocalOK). *)
(* Every action rewrites at most one row and one invocation, except stale  *)
(* recovery, which is treated on its own. From the same invariant, every   *)
(* step implements one of TokenAccount, the abstract account of a job.     *)
(***************************************************************************)
EXTENDS AnalysisWorker, TLAPS

(* A row satisfies the database's CHECKs; a row that does not exist has no *)
(* reservation; a durable charge lies on a running, reserved job.          *)
RowInv(r) ==
    /\ RowCheck(r)
    /\ r.status = "ABSENT" => r.reserved = NULL
    /\ r.status \in Active /\ HasProviderBillingEvidence(r)
          => r.status = "RUNNING" /\ r.reserved # NULL

Evidence(j) ==
    job[j].status = "RUNNING" /\ HasProviderBillingEvidence(job[j])
       => j \in answered

RowsOK ==
    /\ job \in [Jobs -> Row]
    /\ availableTokens \in [Users -> Nat]
    /\ held \in [Jobs -> Int]
    /\ answered \subseteq Jobs
    /\ \A j \in Jobs : RowInv(job[j]) /\ Evidence(j)
    /\ HeldMatchesLedger

(* What an invocation has in hand at each step: a reservation from the     *)
(* moment it is made, an answer once it has come, a usage within the       *)
(* reservation while a result is saved.                                    *)
InvocationInv(i, a) ==
    /\ i.pc # "idle" => i.job \in Jobs
    /\ i.pc \in ClaimSteps => i.was \in Active
    /\ i.pc \in {"reserved", "llm", "reply", "charge", "saving", "save",
                 "reconcile"} => i.reserved \in Nat
    /\ i.pc = "charge" /\ i.ok => i.usage \in Nat
    /\ i.pc \in {"saving", "save"} => i.usage \in Nat /\ i.usage <= i.reserved
    /\ i.pc \in {"charge", "saving", "save", "reconcile"} => i.job \in a

LocalOK ==
    /\ inv \in [Workers -> Invocation]
    /\ \A w \in Workers : InvocationInv(inv[w], answered)

RestOK ==
    /\ reports \subseteq Jobs
    /\ analysisCount \in [Users -> Nat]
    /\ lastSyncTime \in [Repos -> Nat]
    /\ analysed \in [Repos -> SUBSET Nat]
    /\ providerCalls \in [Jobs -> Nat]
    /\ faults \in Nat

IInv == RowsOK /\ LocalOK /\ RestOK

(* What no step does to the rows: a terminal row and its money stay.       *)
Final ==
    \A j \in Jobs : job[j].status \in Terminal
       => job'[j] = job[j] /\ held'[j] = held[j]

-----------------------------------------------------------------------------
(* Writing one row, with and without moving tokens.                        *)
LEMMA WriteRow ==
    ASSUME RowsOK, NEW j \in Jobs, NEW r \in Row, NEW n \in Int,
           RowInv(r), job[j].status \notin Terminal,
           n <= availableTokens[OwnerOf[j]],
           held[j] + n = LedgerCharge(r),
           r.status = "RUNNING" /\ HasProviderBillingEvidence(r) => j \in answered,
           answered' = answered, Write(j, r), Debit(j, n)
    PROVE  RowsOK' /\ Final
<1> USE DEF RowsOK
<1>1. /\ job' \in [Jobs -> Row] /\ job'[j] = r
      /\ \A k \in Jobs : k # j => job'[k] = job[k]
  BY DEF Write
<1>2. /\ availableTokens' \in [Users -> Nat] /\ held' \in [Jobs -> Int]
      /\ held'[j] = held[j] + n
      /\ \A k \in Jobs : k # j => held'[k] = held[k]
  <2>1. OwnerOf[j] \in Users
    BY JobAssumption
  <2>2. availableTokens[OwnerOf[j]] - n \in Nat
    BY <2>1
  <2>3. availableTokens' \in [Users -> Nat]
    BY <2>1, <2>2 DEF Debit
  <2>4. QED
    BY <2>3 DEF Debit
<1>3. \A k \in Jobs : RowInv(job'[k]) /\ Evidence(k)'
  BY <1>1 DEF Evidence
<1>4. HeldMatchesLedger'
  BY <1>1, <1>2 DEF HeldMatchesLedger
<1>5. QED
  BY <1>1, <1>2, <1>3, <1>4 DEF Final

(* The same when no tokens move.                                           *)
LEMMA WriteRowOnly ==
    ASSUME RowsOK, NEW j \in Jobs, NEW r \in Row,
           RowInv(r), job[j].status \notin Terminal,
           LedgerCharge(r) = LedgerCharge(job[j]),
           r.status = "RUNNING" /\ HasProviderBillingEvidence(r) => j \in answered,
           answered' = answered, Write(j, r), UNCHANGED ledger
    PROVE  RowsOK' /\ Final
<1> USE DEF RowsOK
<1>1. /\ job' \in [Jobs -> Row] /\ job'[j] = r
      /\ \A k \in Jobs : k # j => job'[k] = job[k]
  BY DEF Write
<1>2. availableTokens' = availableTokens /\ held' = held
  BY DEF ledger
<1>3. \A k \in Jobs : RowInv(job'[k]) /\ Evidence(k)'
  BY <1>1 DEF Evidence
<1>4. HeldMatchesLedger'
  BY <1>1, <1>2 DEF HeldMatchesLedger
<1>5. QED
  BY <1>1, <1>2, <1>3, <1>4 DEF Final

(* No row is written; an answer may have come in.                          *)
LEMMA KeepRows ==
    ASSUME RowsOK, UNCHANGED <<job, ledger>>,
           answered \subseteq answered', answered' \subseteq Jobs
    PROVE  RowsOK' /\ Final
BY DEF RowsOK, ledger, Final, HeldMatchesLedger, Evidence

-----------------------------------------------------------------------------
(* Every update of module AnalysisJobLedger yields a row of the table that *)
(* keeps the row invariant, and moves the charge it stands for as stated.  *)
LEMMA ClaimedRowOK ==
    ASSUME NEW r \in Row, RowInv(r), r.status = "QUEUED", NEW t \in Workers
    PROVE  LET s == ClaimedRow(r, t) IN
           /\ s \in Row /\ RowInv(s) /\ LedgerCharge(s) = LedgerCharge(r)
           /\ ~HasProviderBillingEvidence(s) /\ s.status = "RUNNING"
           /\ s.cutoff = r.cutoff
<1>1. r.attempts + 1 \in Nat
  BY DEF Row
<1>2. ClaimedRow(r, t) \in Row
  BY <1>1 DEF ClaimedRow, Row, Status, Active
<1>3. QED
  BY <1>2, NullAssumption
   DEF ClaimedRow, Row, RowInv, RowCheck, LedgerCharge, OrZero,
       HasProviderBillingEvidence, Status, Active, Terminal

LEMMA TakenOverRowOK ==
    ASSUME NEW r \in Row, RowInv(r), r.status = "RUNNING", NEW t \in Workers
    PROVE  LET s == TakenOverRow(r, t) IN
           /\ s \in Row /\ RowInv(s) /\ LedgerCharge(s) = LedgerCharge(r)
           /\ HasProviderBillingEvidence(s) <=> HasProviderBillingEvidence(r)
           /\ s.status = "RUNNING"
<1>1. r.attempts + 1 \in Nat
  BY DEF Row
<1>2. TakenOverRow(r, t) \in Row
  BY <1>1 DEF TakenOverRow, Row, Status, Active
<1>3. QED
  BY <1>2, NullAssumption
   DEF TakenOverRow, Row, RowInv, RowCheck, LedgerCharge, OrZero,
       HasProviderBillingEvidence, Status, Active, Terminal

LEMMA TakenOverBilledRowOK ==
    ASSUME NEW r \in Row, RowInv(r), r.status = "RUNNING", NEW t \in Workers
    PROVE  LET s == TakenOverBilledRow(r, t) IN
           /\ s \in Row /\ RowInv(s) /\ LedgerCharge(s) = LedgerCharge(r)
           /\ HasProviderBillingEvidence(s) <=> HasProviderBillingEvidence(r)
           /\ s.status = "RUNNING"
BY NullAssumption
   DEF TakenOverBilledRow, Row, RowInv, RowCheck, LedgerCharge, OrZero,
       HasProviderBillingEvidence, Status, Active, Terminal

LEMMA StartedRowOK ==
    ASSUME NEW r \in Row, RowInv(r), r.status = "QUEUED", NEW t \in Workers
    PROVE  LET s == StartedRow(r, t) IN
           /\ s \in Row /\ RowInv(s) /\ LedgerCharge(s) = LedgerCharge(r)
           /\ ~HasProviderBillingEvidence(s) /\ s.status = "RUNNING"
BY NullAssumption
   DEF StartedRow, Row, RowInv, RowCheck, LedgerCharge, OrZero,
       HasProviderBillingEvidence, Status, Active, Terminal

(* Deadlines: RefreshedRow, a lease that expires, a retry that falls due.  *)
LEMMA DeadlineRowOK ==
    ASSUME NEW r \in Row, RowInv(r),
           NEW s \in {RefreshedRow(r), [r EXCEPT !.expired = TRUE],
                      [r EXCEPT !.waiting = FALSE]}
    PROVE  /\ s \in Row /\ RowInv(s) /\ LedgerCharge(s) = LedgerCharge(r)
           /\ HasProviderBillingEvidence(s) <=> HasProviderBillingEvidence(r)
           /\ s.status = r.status
<1>1. /\ s \in Row /\ s.status = r.status /\ s.lease = r.lease
      /\ s.settled = r.settled /\ s.total = r.total /\ s.billed = r.billed
      /\ s.reserved = r.reserved /\ s.error = r.error
  BY DEF Row, RefreshedRow
<1>2. QED
  BY <1>1 DEF RowInv, RowCheck, LedgerCharge, HasProviderBillingEvidence

LEMMA ReleasedRowOK ==
    ASSUME NEW r \in Row, RowInv(r), r.status = "RUNNING",
           ~HasProviderBillingEvidence(r)
    PROVE  LET s == ReleasedRow(r) IN
           /\ s \in Row /\ RowInv(s) /\ LedgerCharge(s) = LedgerCharge(r)
           /\ s.status = "QUEUED"
BY NullAssumption
   DEF ReleasedRow, Row, RowInv, RowCheck, LedgerCharge, OrZero, FailureCode,
       HasProviderBillingEvidence, Status, Active, Terminal

LEMMA ReservedRowOK ==
    ASSUME NEW r \in Row, RowInv(r), r.status = "RUNNING", NEW n \in Nat
    PROVE  LET s == ReservedRow(r, n) IN
           /\ s \in Row /\ RowInv(s) /\ LedgerCharge(s) = n
           /\ HasProviderBillingEvidence(s) <=> HasProviderBillingEvidence(r)
           /\ s.status = "RUNNING"
BY NullAssumption
   DEF ReservedRow, Row, RowInv, RowCheck, LedgerCharge, OrZero,
       HasProviderBillingEvidence, Status, Active, Terminal

LEMMA ChargedRowOK ==
    ASSUME NEW r \in Row, RowInv(r), r.status = "RUNNING", r.reserved # NULL,
           NEW n \in Nat \cup {NULL}
    PROVE  LET s == ChargedRow(r, n) IN
           /\ s \in Row /\ RowInv(s) /\ LedgerCharge(s) = LedgerCharge(r)
           /\ s.status = "RUNNING"
BY NullAssumption
   DEF ChargedRow, Row, RowInv, RowCheck, LedgerCharge, OrZero,
       HasProviderBillingEvidence, Status, Active, Terminal

LEMMA SucceededRowOK ==
    ASSUME NEW r \in Row, NEW n \in Nat
    PROVE  LET s == SucceededRow(r, n) IN
           /\ s \in Row /\ RowInv(s) /\ LedgerCharge(s) = n
           /\ s.status = "SUCCEEDED"
BY NullAssumption
   DEF SucceededRow, Row, RowInv, RowCheck, LedgerCharge, OrZero,
       HasProviderBillingEvidence, Status, Active, Terminal

(* A terminated job is settled at a known usage, ...                       *)
LEMMA SettledTerminationOK ==
    ASSUME NEW r \in Row, NEW c \in FailureCode, NEW n \in Nat,
           NEW b \in BOOLEAN
    PROVE  LET s == TerminatedRow(r, c, n, b, TRUE) IN
           /\ s \in Row /\ RowInv(s) /\ s.status = "FAILED"
           /\ LedgerCharge(s) = n
<1> DEFINE s == TerminatedRow(r, c, n, b, TRUE)
<1>1. c \in FailureCode /\ c # NULL
  BY NullAssumption DEF FailureCode
<1>2. s \in Row
  BY <1>1 DEF TerminatedRow, Row, Status, Terminal
<1>3. /\ s.status = "FAILED" /\ s.lease = NULL /\ s.error = c /\ s.total = n
      /\ s.settled = TRUE /\ s.reserved = r.reserved
  BY DEF TerminatedRow, Row
<1>4. RowInv(s)
  BY <1>1, <1>3, NullAssumption DEF RowInv, RowCheck, Active, Terminal
<1>5. LedgerCharge(s) = n
  BY <1>3 DEF LedgerCharge
<1>6. QED
  BY <1>2, <1>3, <1>4, <1>5

(* ... at zero when nothing was billed, ...                                *)
LEMMA UnbilledTerminationOK ==
    ASSUME NEW r \in Row, NEW c \in FailureCode
    PROVE  LET s == TerminatedRow(r, c, 0, FALSE, TRUE) IN
           /\ s \in Row /\ RowInv(s) /\ s.status = "FAILED"
           /\ LedgerCharge(s) = 0
<1> DEFINE s == TerminatedRow(r, c, 0, FALSE, TRUE)
<1>1. c \in FailureCode /\ c # NULL /\ 0 # NULL
  BY NullAssumption
<1>2. s \in Row
  BY <1>1 DEF TerminatedRow, Row, Status, Terminal
<1>3. /\ s.status = "FAILED" /\ s.lease = NULL /\ s.error = c /\ s.total = 0
      /\ s.settled = TRUE /\ s.reserved = r.reserved
  BY DEF TerminatedRow, Row
<1>4. RowInv(s)
  BY <1>1, <1>3 DEF RowInv, RowCheck, Active, Terminal
<1>5. LedgerCharge(s) = 0
  BY <1>3 DEF LedgerCharge
<1>6. QED
  BY <1>2, <1>3, <1>4, <1>5

(* ... or left unsettled with the reservation kept.                        *)
LEMMA QuarantineOK ==
    ASSUME NEW r \in Row, NEW n \in Nat \cup {NULL}, NEW b \in BOOLEAN
    PROVE  LET s == TerminatedRow(r, "PROVIDER_RECONCILIATION_REQUIRED",
                               n, b, FALSE) IN
           /\ s \in Row /\ RowInv(s) /\ s.status = "FAILED"
           /\ LedgerCharge(s) = OrZero(r.reserved)
<1> DEFINE s == TerminatedRow(r, "PROVIDER_RECONCILIATION_REQUIRED",
                               n, b, FALSE)
<1>1. "PROVIDER_RECONCILIATION_REQUIRED" \in FailureCode /\ "PROVIDER_RECONCILIATION_REQUIRED" # NULL
  BY NullAssumption DEF FailureCode
<1>2. s \in Row
  BY <1>1 DEF TerminatedRow, Row, Status, Terminal
<1>3. /\ s.status = "FAILED" /\ s.lease = NULL /\ s.error = "PROVIDER_RECONCILIATION_REQUIRED" /\ s.total = n
      /\ s.settled = FALSE /\ s.reserved = r.reserved
  BY DEF TerminatedRow, Row
<1>4. RowInv(s)
  BY <1>1, <1>3, NullAssumption DEF RowInv, RowCheck, Active, Terminal
<1>5. LedgerCharge(s) = OrZero(r.reserved)
  BY <1>3 DEF LedgerCharge
<1>6. QED
  BY <1>2, <1>3, <1>4, <1>5

LEMMA SettledFailureRowOK ==
    ASSUME NEW r \in Row, NEW c \in FailureCode, NEW y \in BOOLEAN
    PROVE  LET s == SettledFailureRow(r, c, y) IN
           /\ s \in Row /\ RowInv(s) /\ s.status = "FAILED"
           /\ LedgerCharge(s) = 0
<1> DEFINE s == SettledFailureRow(r, c, y)
<1>1. c # NULL
  BY NullAssumption
<1>2. s \in Row
  BY DEF SettledFailureRow, Row, Status, Terminal
<1>3. /\ s.status = "FAILED" /\ s.lease = NULL /\ s.error = c /\ s.total = 0
      /\ s.settled = TRUE
  BY DEF SettledFailureRow, Row
<1>4. QED
  BY <1>1, <1>2, <1>3, NullAssumption
  DEF RowInv, RowCheck, Active, Terminal, LedgerCharge

LEMMA RecoveredRowOK ==
    ASSUME NEW r \in Row, RowInv(r), ~r.settled
    PROVE  LET s == RecoveredRow(r) IN
           /\ s \in Row /\ RowInv(s) /\ s.status = "FAILED"
           /\ LedgerCharge(s) = LedgerCharge(r)
<1> DEFINE s == RecoveredRow(r)
<1>1. {"ANALYSIS_FAILED", "PROVIDER_RECONCILIATION_REQUIRED"} \subseteq FailureCode
  BY DEF FailureCode
<1>2. s \in Row
  BY <1>1 DEF RecoveredRow, Row, Status, Terminal
<1>3. /\ s.status = "FAILED" /\ s.lease = NULL
      /\ s.reserved = r.reserved
      /\ r.reserved = NULL => s.settled /\ s.total = 0 /\ s.error = "ANALYSIS_FAILED"
      /\ r.reserved # NULL =>
            ~s.settled /\ s.error = "PROVIDER_RECONCILIATION_REQUIRED"
  BY DEF RecoveredRow, Row
<1>4. RowInv(s)
  BY <1>1, <1>3, NullAssumption DEF RowInv, RowCheck, Active, Terminal
<1>5. LedgerCharge(s) = LedgerCharge(r)
  BY <1>3 DEF LedgerCharge, OrZero
<1>6. QED
  BY <1>2, <1>3, <1>4, <1>5

LEMMA CreatedRowOK ==
    ASSUME NEW b \in Nat, NEW c \in Nat
    PROVE  LET s == CreatedRow(b, c) IN
           /\ s \in Row /\ RowInv(s) /\ s.status = "QUEUED"
           /\ LedgerCharge(s) = 0
BY NullAssumption
   DEF CreatedRow, NoRow, Row, RowInv, RowCheck, LedgerCharge, OrZero,
       HasProviderBillingEvidence, Status, Active, Terminal

LEMMA NoRowOK ==
    NoRow \in Row /\ RowInv(NoRow) /\ NoRow.status = "ABSENT"
    /\ LedgerCharge(NoRow) = 0
BY NullAssumption
   DEF NoRow, Row, RowInv, RowCheck, LedgerCharge, OrZero,
       HasProviderBillingEvidence, Status, Active, Terminal

-----------------------------------------------------------------------------
(* The invocations. *)

LEMMA IdleOK ==
    Idle \in Invocation /\ \A a : InvocationInv(Idle, a)
BY DEF Idle, Invocation, InvocationInv, Pc, Status, ClaimSteps

LEMMA WriteInvocation ==
    ASSUME LocalOK, NEW w \in Workers, NEW i \in Invocation,
           InvocationInv(i, answered'), answered \subseteq answered',
           inv' = [inv EXCEPT ![w] = i]
    PROVE  LocalOK'
<1>1. \A v \in Workers : InvocationInv(inv[v], answered')
  BY DEF LocalOK, InvocationInv
<1>2. QED
  BY <1>1 DEF LocalOK

LEMMA ReturnOK ==
    ASSUME LocalOK, NEW w \in Workers, Return(w), answered' = answered
    PROVE  LocalOK'
BY IdleOK, WriteInvocation DEF Return

LEMMA ThrowOK ==
    ASSUME LocalOK, NEW w \in Workers, NEW y \in BOOLEAN, inv[w].pc # "idle",
           Throw(w, y), answered' = answered
    PROVE  LocalOK'
<1> DEFINE i == [inv[w] EXCEPT !.pc = "fail", !.retry = y]
<1>1. inv[w] \in Invocation /\ inv[w].job \in Jobs
  BY DEF LocalOK, InvocationInv
<1>2. i \in Invocation /\ InvocationInv(i, answered)
  BY <1>1 DEF Invocation, InvocationInv, Pc, RunSteps, ClaimSteps
<1>3. inv' = [inv EXCEPT ![w] = IF inv[w].job \in SyncJobs THEN Idle ELSE i]
  BY DEF Throw
<1>4. QED
  BY <1>2, <1>3, IdleOK, WriteInvocation

(* Going on to a step whose needs the local state already meets.           *)
LEMMA GotoOK ==
    ASSUME LocalOK, NEW w \in Workers, NEW p \in Pc, inv[w].pc # "idle",
           p \in {"reserved", "llm", "reply", "charge", "saving", "save",
                  "reconcile"} => inv[w].reserved \in Nat,
           p \notin ClaimSteps \cup {"charge"},
           p \in {"saving", "save"}
              => inv[w].usage \in Nat /\ inv[w].usage <= inv[w].reserved,
           p \in {"saving", "save", "reconcile"} => inv[w].job \in answered,
           Goto(w, p), answered' = answered
    PROVE  LocalOK'
<1> DEFINE i == [inv[w] EXCEPT !.pc = p]
<1>1. inv[w] \in Invocation /\ inv[w].job \in Jobs
  BY DEF LocalOK, InvocationInv
<1>2. i \in Invocation /\ InvocationInv(i, answered)
  BY <1>1 DEF Invocation, InvocationInv
<1>3. inv' = [inv EXCEPT ![w] = i]
  BY DEF Goto
<1>4. QED
  BY <1>2, <1>3, WriteInvocation

(* The invocation's own row. *)
LEMMA Mine ==
    ASSUME IInv, NEW w \in Workers, inv[w].pc # "idle"
    PROVE  /\ J(w) \in Jobs /\ MyRow(w) = job[J(w)] /\ MyRow(w) \in Row
           /\ RowInv(MyRow(w)) /\ Evidence(J(w))
           /\ held[J(w)] = LedgerCharge(MyRow(w))
           /\ OwnerOf[J(w)] \in Users /\ availableTokens[OwnerOf[J(w)]] \in Nat
           /\ inv[w] \in Invocation /\ InvocationInv(inv[w], answered)
<1>1. J(w) \in Jobs /\ inv[w] \in Invocation /\ InvocationInv(inv[w], answered)
  BY DEF IInv, LocalOK, InvocationInv, J
<1>2. QED
  BY <1>1, JobAssumption DEF IInv, RowsOK, HeldMatchesLedger, MyRow

(* A step that leaves everything but the invocations alone.                *)
LEMMA Quiet ==
    ASSUME IInv, LocalOK', UNCHANGED <<job, ledger, results, provider>>,
           faults' \in Nat
    PROVE  IInv' /\ Final
<1>1. RowsOK' /\ Final
  BY KeepRows DEF IInv, RowsOK, provider
<1>2. QED
  BY <1>1 DEF IInv, RestOK, results, provider

LEMMA FaultOK == ASSUME IInv, Fault PROVE faults' \in Nat
BY DEF IInv, RestOK, Fault

-----------------------------------------------------------------------------
(* Actions that write no row. *)

LEMMA KindOK ==
    ASSUME NEW r \in Row, NEW b \in BOOLEAN
    PROVE  /\ ClaimKind(r) \in ClaimSteps \cup {"idle"}
           /\ RaceKind(r, b) \in ClaimSteps \cup {"idle"}
           /\ ClaimKind(r) # "idle" => r.status \in Active
           /\ RaceKind(r, b) # "idle" => r.status \in Active
BY DEF ClaimKind, RaceKind, ClaimSteps, Active

LEMMA SnapshotOK ==
    ASSUME IInv, NEW w \in Workers, NEW j \in Jobs,
           NEW kind \in ClaimSteps \cup {"idle"},
           NEW last \in BOOLEAN, NEW behind \in BOOLEAN,
           kind # "idle" => job[j].status \in Active,
           Snapshot(w, j, kind, last, behind), answered' = answered
    PROVE  LocalOK'
<1> DEFINE i == [Idle EXCEPT !.pc = kind, !.job = j, !.last = last,
                    !.behind = behind, !.snap = job[j].lease,
                    !.was = job[j].status, !.attempts = job[j].attempts]
<1>1. /\ job[j].lease \in Workers \cup {NULL} /\ job[j].status \in Status
      /\ job[j].attempts \in Nat
  BY DEF IInv, RowsOK, Row
<1>2. i \in Invocation
  BY <1>1 DEF Idle, Invocation, Pc
<1>3. kind # "idle" => InvocationInv(i, answered)
  BY DEF Idle, InvocationInv, ClaimSteps
<1>4. inv' = [inv EXCEPT ![w] = IF kind = "idle" THEN Idle ELSE i]
  BY DEF Snapshot
<1>5. QED
  BY <1>2, <1>3, <1>4, IdleOK, WriteInvocation DEF IInv

LEMMA DeliverStep ==
    ASSUME IInv, NEW w \in Workers, NEW j \in Jobs, NEW last \in BOOLEAN,
           Deliver(w, j, last)
    PROVE  IInv' /\ Final
<1>1. /\ ClaimKind(job[j]) \in ClaimSteps \cup {"idle"}
      /\ ClaimKind(job[j]) # "idle" => job[j].status \in Active
  BY KindOK DEF IInv, RowsOK
<1>2. LocalOK'
  BY <1>1, SnapshotOK DEF Deliver, provider
<1>3. QED
  BY <1>2, Quiet DEF Deliver, IInv, RestOK

LEMMA SyncCollectStep ==
    ASSUME IInv, NEW w \in Workers, NEW j \in Jobs, SyncCollect(w, j)
    PROVE  IInv' /\ Final
<1>1. PICK c \in 1..MaxInstant :
         inv' = [inv EXCEPT ![w] =
            [Idle EXCEPT !.pc = "syncCreate", !.job = j, !.cutoff = c,
                         !.cursor = lastSyncTime[RepoOf[j]]]]
  BY DEF SyncCollect
<1> DEFINE s == lastSyncTime[RepoOf[j]]
           i == [Idle EXCEPT !.pc = "syncCreate", !.job = j, !.cutoff = c,
                             !.cursor = s]
<1>2. c \in Nat /\ s \in Nat
  BY TokenAssumption, JobAssumption DEF IInv, RestOK
<1>3. i \in Invocation /\ InvocationInv(i, answered)
  BY <1>2 DEF Idle, Invocation, InvocationInv, Pc, Status, ClaimSteps
<1>4. answered' = answered
  BY DEF SyncCollect, provider
<1>5. LocalOK'
  BY <1>1, <1>3, <1>4, WriteInvocation DEF IInv
<1>6. QED
  BY <1>5, Quiet DEF SyncCollect, IInv, RestOK

LEMMA ThrowSteps ==
    ASSUME IInv, NEW w \in Workers, NEW y \in BOOLEAN,
           LostLease(w) \/ RunFails(w, y)
    PROVE  IInv' /\ Final
<1>1. /\ inv[w].pc # "idle" /\ answered' = answered
      /\ \E z \in BOOLEAN : Throw(w, z)
  BY DEF LostLease, RunFails, provider
<1>2. LocalOK'
  BY <1>1, ThrowOK DEF IInv
<1>3. QED
  BY <1>2, Quiet DEF LostLease, RunFails, IInv, RestOK

LEMMA CrashStep ==
    ASSUME IInv, NEW w \in Workers, Crash(w)
    PROVE  IInv' /\ Final
<1>1. LocalOK'
  BY ReturnOK DEF Crash, provider, IInv
<1>2. QED
  BY <1>1, Quiet, FaultOK DEF Crash

(* After a billed answer the only way on is reconciliation.                *)
LEMMA ToReconcile ==
    ASSUME IInv, NEW w \in Workers, Goto(w, "reconcile"), answered' = answered,
           inv[w].pc \in {"charge", "saving", "save"}
    PROVE  LocalOK'
<1>1. inv[w].reserved \in Nat /\ inv[w].job \in answered
  BY Mine DEF InvocationInv
<1>2. QED
  BY <1>1, GotoOK DEF IInv, Pc, RunSteps, ClaimSteps

LEMMA DatabaseFailsStep ==
    ASSUME IInv, NEW w \in Workers, NEW y \in BOOLEAN, DatabaseFails(w, y)
    PROVE  IInv' /\ Final
<1>1. answered' = answered
  BY DEF DatabaseFails, provider
<1>2. CASE Throw(w, y) /\ inv[w].pc # "idle"
  <2>1. LocalOK'
    BY <1>1, <1>2, ThrowOK DEF IInv
  <2>2. QED
    BY <2>1, Quiet, FaultOK DEF DatabaseFails
<1>3. CASE Goto(w, "reconcile") /\ inv[w].pc \in {"charge", "saving", "save"}
  <2>1. LocalOK'
    BY <1>1, <1>3, ToReconcile
  <2>2. QED
    BY <2>1, Quiet, FaultOK DEF DatabaseFails
<1>4. QED
  BY <1>2, <1>3 DEF DatabaseFails

LEMMA LostLeaseWhileSavingStep ==
    ASSUME IInv, NEW w \in Workers, LostLeaseWhileSaving(w)
    PROVE  IInv' /\ Final
<1>1. LocalOK'
  BY ToReconcile DEF LostLeaseWhileSaving, provider
<1>2. QED
  BY <1>1, Quiet DEF LostLeaseWhileSaving, IInv, RestOK

LEMMA CallProviderStep ==
    ASSUME IInv, NEW w \in Workers, CallProvider(w)
    PROVE  IInv' /\ Final
<1>1. inv[w].reserved \in Nat /\ J(w) \in Jobs
  BY Mine DEF CallProvider, InvocationInv
<1>2. LocalOK'
  BY <1>1, GotoOK DEF CallProvider, IInv, Pc, RunSteps, ClaimSteps
<1>3. RowsOK' /\ Final
  BY KeepRows DEF CallProvider, IInv, RowsOK
<1>4. providerCalls' \in [Jobs -> Nat]
  BY <1>1 DEF CallProvider, IInv, RestOK
<1>5. QED
  BY <1>2, <1>3, <1>4 DEF CallProvider, IInv, RestOK, results

LEMMA ProviderAnswersStep ==
    ASSUME IInv, NEW w \in Workers, NEW id \in BOOLEAN, NEW ok \in BOOLEAN,
           NEW u \in UsageSizes \cup {NULL}, ProviderAnswers(w, id, u, ok)
    PROVE  IInv' /\ Final
<1> DEFINE i == [inv[w] EXCEPT !.pc = IF id THEN "charge" ELSE "reconcile",
                               !.id = id, !.usage = u, !.ok = ok]
<1>1. /\ J(w) \in Jobs /\ inv[w].job = J(w) /\ inv[w].reserved \in Nat
      /\ inv[w] \in Invocation
  BY Mine DEF ProviderAnswers, InvocationInv, J
<1>2. u \in Nat \cup {NULL} /\ (ok => u \in Nat)
  BY TokenAssumption DEF ProviderAnswers
<1>3. i \in Invocation
  <2>1. (IF id THEN "charge" ELSE "reconcile") \in Pc
    BY DEF Pc, RunSteps
  <2>2. QED
    BY <1>1, <1>2, <2>1 DEF Invocation
<1>4. J(w) \in answered' /\ answered \subseteq answered' /\ answered' \subseteq Jobs
  BY <1>1 DEF ProviderAnswers, IInv, RowsOK
<1>5. InvocationInv(i, answered')
  BY <1>1, <1>2, <1>4 DEF InvocationInv, Invocation, ClaimSteps
<1>6. inv' = [inv EXCEPT ![w] = i]
  BY DEF ProviderAnswers
<1>7. LocalOK'
  BY <1>3, <1>4, <1>5, <1>6, WriteInvocation DEF IInv
<1>8. RowsOK' /\ Final
  BY <1>4, KeepRows DEF ProviderAnswers, IInv
<1>9. QED
  BY <1>7, <1>8 DEF ProviderAnswers, IInv, RestOK, results

-----------------------------------------------------------------------------
(* Actions that write one row. *)

(* Everything but the rows, the balance and the invocations is unchanged.  *)
LEMMA RowStep ==
    ASSUME IInv, RowsOK', Final, LocalOK', UNCHANGED <<results, provider>>,
           faults' \in Nat
    PROVE  IInv' /\ Final
BY DEF IInv, RestOK, results, provider

LEMMA ClaimedInvocationOK ==
    ASSUME NEW j \in Jobs, NEW l \in BOOLEAN, NEW n \in Nat, NEW b \in Nat,
           NEW c \in Nat
    PROVE  LET i == [Idle EXCEPT !.pc = "recover", !.job = j, !.last = l,
                                 !.attempts = n, !.cursor = b, !.cutoff = c]
           IN i \in Invocation /\ InvocationInv(i, answered)
BY DEF Idle, Invocation, InvocationInv, Pc, RunSteps, ClaimSteps, Status

LEMMA ClaimedOK ==
    ASSUME IInv, NEW w \in Workers, inv[w].pc # "idle", NEW r \in Row,
           RowInv(r), r.status = "RUNNING", MyRow(w).status \in Active,
           LedgerCharge(r) = LedgerCharge(MyRow(w)),
           HasProviderBillingEvidence(r) =>
              MyRow(w).status = "RUNNING" /\ HasProviderBillingEvidence(MyRow(w)),
           Claimed(w, r), UNCHANGED <<ledger, results, provider, faults>>
    PROVE  IInv' /\ Final
<1> DEFINE i == [Idle EXCEPT !.pc = "recover", !.job = J(w), !.last = inv[w].last,
                             !.attempts = r.attempts, !.cursor = r.cursor,
                             !.cutoff = r.cutoff]
<1>1. /\ J(w) \in Jobs /\ inv[w] \in Invocation /\ MyRow(w) = job[J(w)]
      /\ Evidence(J(w))
  BY Mine
<1>2. answered' = answered
  BY DEF provider
<1>3. /\ inv[w].last \in BOOLEAN /\ r.attempts \in Nat /\ r.cursor \in Nat
      /\ r.cutoff \in Nat
  BY <1>1 DEF Invocation, Row
<1>4. i \in Invocation /\ InvocationInv(i, answered)
  BY <1>1, <1>3, ClaimedInvocationOK
<1>5. LocalOK'
  BY <1>2, <1>4, WriteInvocation DEF Claimed, IInv
<1>6. RowsOK' /\ Final
  <2>1. job[J(w)].status \notin Terminal
    BY <1>1 DEF Active, Terminal
  <2>2. QED
    BY <1>1, <1>2, <2>1, WriteRowOnly DEF Claimed, Evidence, IInv
<1>7. QED
  BY <1>5, <1>6, RowStep DEF IInv, RestOK

LEMMA LostClaimOK ==
    ASSUME IInv, NEW w \in Workers, inv[w].pc # "idle", LostClaim(w),
           UNCHANGED <<ledger, results, provider, faults>>
    PROVE  IInv' /\ Final
<1>1. J(w) \in Jobs /\ MyRow(w) \in Row /\ inv[w] \in Invocation
  BY Mine
<1>2. inv[w].last \in BOOLEAN /\ inv[w].behind \in BOOLEAN
  BY <1>1 DEF Invocation
<1>3. /\ RaceKind(MyRow(w), inv[w].behind) \in ClaimSteps \cup {"idle"}
      /\ RaceKind(MyRow(w), inv[w].behind) # "idle" => MyRow(w).status \in Active
  BY <1>1, <1>2, KindOK
<1>4. LocalOK'
  BY <1>1, <1>2, <1>3, SnapshotOK DEF LostClaim, MyRow, provider
<1>5. QED
  BY <1>4, Quiet DEF LostClaim, IInv, RestOK

LEMMA ClaimQueuedStep ==
    ASSUME IInv, NEW w \in Workers, ClaimQueued(w)
    PROVE  IInv' /\ Final
<1>1. inv[w].pc # "idle" /\ MyRow(w) \in Row /\ RowInv(MyRow(w))
  BY Mine DEF ClaimQueued
<1>2. CASE ClaimQueuedFence(MyRow(w), inv[w].behind)
  <2>1. MyRow(w).status = "QUEUED" /\ MyRow(w).status \in Active
    BY <1>2 DEF ClaimQueuedFence, Active
  <2>2. QED
    BY <1>1, <1>2, <2>1, ClaimedRowOK, ClaimedOK DEF ClaimQueued
<1>3. CASE ~ClaimQueuedFence(MyRow(w), inv[w].behind)
  BY <1>1, <1>3, LostClaimOK DEF ClaimQueued
<1>4. QED
  BY <1>2, <1>3

LEMMA TakeOverExpiredLeaseStep ==
    ASSUME IInv, NEW w \in Workers, TakeOverExpiredLease(w)
    PROVE  IInv' /\ Final
<1> DEFINE F == TakeOverFence(MyRow(w), inv[w].snap, inv[w].attempts,
                              inv[w].behind)
<1>1. inv[w].pc # "idle" /\ MyRow(w) \in Row /\ RowInv(MyRow(w))
  BY Mine DEF TakeOverExpiredLease
<1>2. CASE F
  <2>1. MyRow(w).status = "RUNNING" /\ MyRow(w).status \in Active
    BY <1>2 DEF TakeOverFence, Holds, Active
  <2>2. Claimed(w, TakenOverRow(MyRow(w), w))
    BY <1>2 DEF TakeOverExpiredLease
  <2>3. QED
    BY <1>1, <2>1, <2>2, TakenOverRowOK, ClaimedOK DEF TakeOverExpiredLease
<1>3. CASE ~F
  BY <1>1, <1>3, LostClaimOK DEF TakeOverExpiredLease
<1>4. QED
  BY <1>2, <1>3

LEMMA TakeOverExpiredBilledLeaseStep ==
    ASSUME IInv, NEW w \in Workers, TakeOverExpiredBilledLease(w)
    PROVE  IInv' /\ Final
<1> DEFINE F == TakeOverBilledFence(MyRow(w), inv[w].snap, inv[w].attempts,
                                    inv[w].behind)
<1>1. inv[w].pc # "idle" /\ MyRow(w) \in Row /\ RowInv(MyRow(w))
  BY Mine DEF TakeOverExpiredBilledLease
<1>2. CASE F
  <2>1. MyRow(w).status = "RUNNING" /\ MyRow(w).status \in Active
    BY <1>2 DEF TakeOverBilledFence, Holds, Active
  <2>2. Claimed(w, TakenOverBilledRow(MyRow(w), w))
    BY <1>2 DEF TakeOverExpiredBilledLease
  <2>3. QED
    BY <1>1, <2>1, <2>2, TakenOverBilledRowOK, ClaimedOK
    DEF TakeOverExpiredBilledLease
<1>3. CASE ~F
  BY <1>1, <1>3, LostClaimOK DEF TakeOverExpiredBilledLease
<1>4. QED
  BY <1>2, <1>3

(* settleFailure closes at zero and gives the reservation back, or does    *)
(* nothing.                                                                *)
LEMMA SettleFailureOK ==
    ASSUME IInv, NEW j \in Jobs, NEW st \in {"QUEUED", "RUNNING"}, NEW t,
           NEW c \in FailureCode, NEW y \in BOOLEAN,
           SettleFailure(j, st, t, c, y), answered' = answered
    PROVE  RowsOK' /\ Final
<1> DEFINE F == SettleFence(job[j], st, t) /\ ~HasProviderBillingEvidence(job[j])
<1>1. /\ job[j] \in Row /\ RowInv(job[j]) /\ held[j] = LedgerCharge(job[j])
      /\ OwnerOf[j] \in Users /\ availableTokens[OwnerOf[j]] \in Nat
  BY JobAssumption DEF IInv, RowsOK, HeldMatchesLedger
<1>2. CASE F
  <2> DEFINE r == SettledFailureRow(job[j], c, y)
  <2>1. job[j].status \in Active /\ ~job[j].settled
    BY <1>2 DEF SettleFence, Active
  <2>2. r \in Row /\ RowInv(r) /\ r.status = "FAILED" /\ LedgerCharge(r) = 0
    BY <1>1, SettledFailureRowOK
  <2>3. OrZero(job[j].reserved) \in Nat
    BY <1>1 DEF OrZero, Row
  <2>4. held[j] + (0 - OrZero(job[j].reserved)) = 0
    BY <1>1, <2>1, <2>3 DEF LedgerCharge
  <2>5. 0 - OrZero(job[j].reserved) \in Int
        /\ 0 - OrZero(job[j].reserved) <= availableTokens[OwnerOf[j]]
    BY <1>1, <2>3
  <2>6. Write(j, r) /\ Debit(j, 0 - OrZero(job[j].reserved))
    BY <1>2 DEF SettleFailure
  <2>7. job[j].status \notin Terminal
    BY <2>1 DEF Active, Terminal
  <2>8. QED
    BY <2>2, <2>4, <2>5, <2>6, <2>7, WriteRow DEF IInv
<1>3. CASE ~F
  BY <1>3, KeepRows DEF SettleFailure, IInv, RowsOK
<1>4. QED
  BY <1>2, <1>3

LEMMA FinalizeClaimLimitStep ==
    ASSUME IInv, NEW w \in Workers, FinalizeClaimLimit(w)
    PROVE  IInv' /\ Final
<1>1. J(w) \in Jobs /\ inv[w].was \in {"QUEUED", "RUNNING"}
  BY Mine DEF FinalizeClaimLimit, InvocationInv, ClaimSteps, Active
<1>2. "MAX_ATTEMPTS_EXCEEDED" \in FailureCode
  BY DEF FailureCode
<1>3. RowsOK' /\ Final
  BY <1>1, <1>2, SettleFailureOK DEF FinalizeClaimLimit, provider
<1>4. LocalOK'
  BY ReturnOK DEF FinalizeClaimLimit, provider, IInv
<1>5. QED
  BY <1>3, <1>4, RowStep DEF FinalizeClaimLimit, IInv, RestOK

LEMMA FailQueuedInvalidMessageStep ==
    ASSUME IInv, NEW j \in Jobs, FailQueuedInvalidMessage(j)
    PROVE  IInv' /\ Final
<1>1. "INVALID_MESSAGE" \in FailureCode
  BY DEF FailureCode
<1>2. RowsOK' /\ Final
  BY <1>1, SettleFailureOK DEF FailQueuedInvalidMessage, provider
<1>3. LocalOK'
  BY DEF FailQueuedInvalidMessage, provider, IInv, LocalOK
<1>4. QED
  BY <1>2, <1>3, RowStep DEF FailQueuedInvalidMessage, IInv, RestOK

(* terminateWorkerJob at zero usage refunds exactly what was held.         *)
LEMMA TerminateUnbilledOK ==
    ASSUME IInv, NEW w \in Workers, inv[w].pc # "idle",
           MyRow(w).status = "RUNNING", NEW c \in FailureCode,
           TerminateUnbilled(w, c), answered' = answered
    PROVE  RowsOK' /\ Final
<1> DEFINE r == TerminatedRow(MyRow(w), c, 0, FALSE, TRUE)
           n == 0 - OrZero(MyRow(w).reserved)
<1>1. /\ J(w) \in Jobs /\ MyRow(w) = job[J(w)] /\ MyRow(w) \in Row
      /\ RowInv(MyRow(w)) /\ held[J(w)] = LedgerCharge(MyRow(w))
      /\ availableTokens[OwnerOf[J(w)]] \in Nat
  BY Mine
<1>2. ~MyRow(w).settled /\ job[J(w)].status \notin Terminal
  BY <1>1 DEF RowInv, RowCheck, Terminal
<1>3. r \in Row /\ RowInv(r) /\ r.status = "FAILED" /\ LedgerCharge(r) = 0
  BY <1>1, UnbilledTerminationOK
<1>4. OrZero(MyRow(w).reserved) \in Nat
  BY <1>1 DEF OrZero, Row
<1>5. n \in Int /\ n <= availableTokens[OwnerOf[J(w)]]
  BY <1>1, <1>4
<1>6. held[J(w)] + n = 0
  BY <1>1, <1>2, <1>4 DEF LedgerCharge
<1>7. Write(J(w), r) /\ Debit(J(w), n)
  BY DEF TerminateUnbilled
<1>8. QED
  BY <1>1, <1>2, <1>3, <1>5, <1>6, <1>7, WriteRow DEF IInv

(* terminateProviderReconciliation moves the difference between usage and  *)
(* reservation, or nothing when it cannot settle.                          *)
LEMMA TerminateProviderReconciliationOK ==
    ASSUME IInv, NEW w \in Workers, inv[w].pc # "idle",
           MyRow(w).status = "RUNNING", NEW m, m = MyRow(w).reserved,
           NEW b \in BOOLEAN, NEW u \in Nat \cup {NULL},
           TerminateProviderReconciliation(w, m, b, u), answered' = answered
    PROVE  RowsOK' /\ Final
<1> DEFINE settles == /\ u # NULL /\ m # NULL
                      /\ \/ u <= m
                         \/ availableTokens[OwnerOf[J(w)]] >= u - m
           c == IF u > m THEN "TOKEN_BUDGET_EXCEEDED"
                ELSE "PROVIDER_RECONCILIATION_REQUIRED"
<1>1. /\ J(w) \in Jobs /\ MyRow(w) = job[J(w)] /\ MyRow(w) \in Row
      /\ RowInv(MyRow(w)) /\ held[J(w)] = LedgerCharge(MyRow(w))
      /\ availableTokens[OwnerOf[J(w)]] \in Nat
  BY Mine
<1>2. ~MyRow(w).settled /\ job[J(w)].status \notin Terminal
  BY <1>1 DEF RowInv, RowCheck, Terminal
<1>3. c \in FailureCode /\ "PROVIDER_RECONCILIATION_REQUIRED" \in FailureCode
  BY DEF FailureCode
<1>4. held[J(w)] = OrZero(m)
  BY <1>1, <1>2 DEF LedgerCharge
<1>5. CASE settles
  <2> DEFINE r == TerminatedRow(MyRow(w), c, u, b, TRUE)
  <2>1. u \in Nat /\ m \in Nat /\ held[J(w)] = m
    BY <1>1, <1>4, <1>5 DEF OrZero, Row
  <2>2. r \in Row /\ RowInv(r) /\ r.status = "FAILED" /\ LedgerCharge(r) = u
    BY <1>1, <1>3, <2>1, SettledTerminationOK
  <2>3. /\ u - m \in Int /\ u - m <= availableTokens[OwnerOf[J(w)]]
        /\ held[J(w)] + (u - m) = u
    BY <1>1, <1>5, <2>1
  <2>4. Write(J(w), r) /\ Debit(J(w), u - m)
    BY <1>5 DEF TerminateProviderReconciliation
  <2>5. QED
    BY <1>1, <1>2, <2>2, <2>3, <2>4, WriteRow DEF IInv
<1>6. CASE ~settles
  <2> DEFINE r == TerminatedRow(MyRow(w), "PROVIDER_RECONCILIATION_REQUIRED",
                                u, b, FALSE)
  <2>1. /\ r \in Row /\ RowInv(r) /\ r.status = "FAILED"
        /\ LedgerCharge(r) = OrZero(m)
    BY <1>1, QuarantineOK
  <2>2. Write(J(w), r) /\ UNCHANGED ledger
    BY <1>6 DEF TerminateProviderReconciliation
  <2>3. LedgerCharge(r) = LedgerCharge(job[J(w)])
    BY <1>1, <1>4, <2>1
  <2>4. QED
    BY <1>1, <1>2, <2>1, <2>2, <2>3, WriteRowOnly DEF IInv
<1>7. QED
  BY <1>5, <1>6

LEMMA RecoverProviderCheckpointStep ==
    ASSUME IInv, NEW w \in Workers, RecoverProviderCheckpoint(w)
    PROVE  IInv' /\ Final
<1>1. /\ inv[w].pc # "idle" /\ MyRow(w).status = "RUNNING"
      /\ answered' = answered /\ UNCHANGED <<results, provider>> /\ faults' \in Nat
  BY DEF RecoverProviderCheckpoint, Holds, provider, IInv, RestOK
<1>2. CASE /\ TerminateProviderReconciliation(w, MyRow(w).reserved,
                                              MyRow(w).billed, MyRow(w).total)
           /\ Return(w)
  <2>1. MyRow(w).billed \in BOOLEAN /\ MyRow(w).total \in Nat \cup {NULL}
    BY <1>1, Mine DEF Row
  <2>2. RowsOK' /\ Final
    BY <1>1, <1>2, <2>1, TerminateProviderReconciliationOK
  <2>3. LocalOK'
    BY <1>1, <1>2, ReturnOK DEF IInv
  <2>4. QED
    BY <1>1, <2>2, <2>3, RowStep
<1>3. CASE TerminateUnbilled(w, "UNSUPPORTED_ANALYSIS_VERSION") /\ Return(w)
  <2>1. RowsOK' /\ Final
    BY <1>1, <1>3, TerminateUnbilledOK DEF FailureCode
  <2>2. LocalOK'
    BY <1>1, <1>3, ReturnOK DEF IInv
  <2>3. QED
    BY <1>1, <2>1, <2>2, RowStep
<1>4. CASE Goto(w, "collect") /\ UNCHANGED <<job, ledger>>
  <2>1. LocalOK'
    BY <1>1, <1>4, GotoOK DEF IInv, Pc, RunSteps, ClaimSteps
  <2>2. QED
    BY <1>1, <1>4, <2>1, Quiet
<1>5. QED
  BY <1>2, <1>3, <1>4 DEF RecoverProviderCheckpoint

(* updateProgress: only the deadline of the row moves.                     *)
LEMMA UpdateProgressOK ==
    ASSUME IInv, NEW w \in Workers, inv[w].pc # "idle", NEW p \in Pc,
           UpdateProgress(w, p), LocalOK'
    PROVE  IInv' /\ Final
<1>1. /\ J(w) \in Jobs /\ MyRow(w) = job[J(w)] /\ MyRow(w) \in Row
      /\ RowInv(MyRow(w)) /\ Evidence(J(w))
  BY Mine
<1> DEFINE r == RefreshedRow(MyRow(w))
<1>4. /\ r \in Row /\ RowInv(r) /\ LedgerCharge(r) = LedgerCharge(MyRow(w))
      /\ HasProviderBillingEvidence(r) <=> HasProviderBillingEvidence(MyRow(w))
      /\ r.status = MyRow(w).status
  BY <1>1, DeadlineRowOK
<1>5. job[J(w)].status \notin Terminal /\ Write(J(w), r)
      /\ answered' = answered /\ UNCHANGED ledger
  BY <1>1 DEF UpdateProgress, Holds, Terminal, provider
<1>6. RowsOK' /\ Final
  BY <1>1, <1>4, <1>5, WriteRowOnly DEF IInv, Evidence
<1>7. QED
  BY <1>6, RowStep DEF UpdateProgress, IInv, RestOK

LEMMA ProgressSteps ==
    ASSUME IInv, NEW w \in Workers,
           \/ CollectionHeartbeat(w) \/ CollectionDone(w)
           \/ OnTokensReserved(w) \/ OnSaving(w)
    PROVE  IInv' /\ Final
<1>1. CASE CollectionHeartbeat(w)
  <2>1. LocalOK' /\ "collect" \in Pc
    BY <1>1, GotoOK
    DEF CollectionHeartbeat, UpdateProgress, provider, IInv, Pc, RunSteps, ClaimSteps
  <2>2. QED
    BY <1>1, <2>1, UpdateProgressOK DEF CollectionHeartbeat
<1>2. CASE CollectionDone(w)
  <2>1. LocalOK' /\ "resolve" \in Pc
    BY <1>2, GotoOK
    DEF CollectionDone, UpdateProgress, provider, IInv, Pc, RunSteps, ClaimSteps
  <2>2. QED
    BY <1>2, <2>1, UpdateProgressOK DEF CollectionDone
<1>3. CASE OnTokensReserved(w)
  <2>1. inv[w].reserved \in Nat
    BY <1>3, Mine DEF OnTokensReserved, InvocationInv
  <2>2. LocalOK' /\ "llm" \in Pc
    BY <1>3, <2>1, GotoOK
    DEF OnTokensReserved, UpdateProgress, provider, IInv, Pc, RunSteps, ClaimSteps
  <2>3. QED
    BY <1>3, <2>2, UpdateProgressOK DEF OnTokensReserved
<1>4. CASE OnSaving(w)
  <2>1. /\ inv[w].reserved \in Nat /\ inv[w].usage \in Nat
        /\ inv[w].usage <= inv[w].reserved /\ inv[w].job \in answered
    BY <1>4, Mine DEF OnSaving, InvocationInv
  <2>2. LocalOK' /\ "save" \in Pc
    BY <1>4, <2>1, GotoOK
    DEF OnSaving, UpdateProgress, provider, IInv, Pc, RunSteps, ClaimSteps
  <2>3. QED
    BY <1>4, <2>2, UpdateProgressOK DEF OnSaving
<1>5. QED
  BY <1>1, <1>2, <1>3, <1>4

(* A passing deadline touches one row and the clocks of pending claims.    *)
LEMMA FallBehindOK ==
    ASSUME IInv, NEW j \in Jobs, FallBehind(j), answered' = answered
    PROVE  LocalOK'
<1> DEFINE i(w) == [inv[w] EXCEPT !.behind = TRUE]
<1>1. \A w \in Workers : i(w) \in Invocation /\ InvocationInv(i(w), answered)
  <2> TAKE w \in Workers
  <2>1. inv[w] \in Invocation /\ InvocationInv(inv[w], answered)
    BY DEF IInv, LocalOK
  <2>2. /\ i(w) \in Invocation /\ i(w).pc = inv[w].pc /\ i(w).job = inv[w].job
        /\ i(w).was = inv[w].was /\ i(w).reserved = inv[w].reserved
        /\ i(w).usage = inv[w].usage /\ i(w).ok = inv[w].ok
    BY <2>1 DEF Invocation
  <2>3. QED
    BY <2>1, <2>2 DEF InvocationInv
<1>2. QED
  BY <1>1 DEF FallBehind, IInv, LocalOK

LEMMA DeadlineSteps ==
    ASSUME IInv, NEW j \in Jobs, LeaseExpires(j) \/ RetryFallsDue(j)
    PROVE  IInv' /\ Final
<1>1. job[j] \in Row /\ RowInv(job[j]) /\ Evidence(j)
  BY DEF IInv, RowsOK
<1>2. /\ answered' = answered /\ UNCHANGED <<ledger, results, provider>>
      /\ faults' \in Nat /\ FallBehind(j)
  BY DEF LeaseExpires, RetryFallsDue, provider, IInv, RestOK
<1>3. LocalOK'
  BY <1>2, FallBehindOK
<1>4. CASE LeaseExpires(j)
  <2> DEFINE r == [job[j] EXCEPT !.expired = TRUE]
  <2>3. /\ r \in Row /\ RowInv(r) /\ LedgerCharge(r) = LedgerCharge(job[j])
        /\ HasProviderBillingEvidence(r) <=> HasProviderBillingEvidence(job[j])
        /\ r.status = job[j].status
    BY <1>1, DeadlineRowOK
  <2>4. Write(j, r) /\ job[j].status \notin Terminal
    BY <1>4 DEF LeaseExpires, Terminal
  <2>5. RowsOK' /\ Final
    BY <1>1, <1>2, <2>3, <2>4, WriteRowOnly DEF IInv, Evidence
  <2>6. QED
    BY <1>2, <1>3, <2>5, RowStep
<1>5. CASE RetryFallsDue(j)
  <2> DEFINE r == [job[j] EXCEPT !.waiting = FALSE]
  <2>3. /\ r \in Row /\ RowInv(r) /\ LedgerCharge(r) = LedgerCharge(job[j])
        /\ HasProviderBillingEvidence(r) <=> HasProviderBillingEvidence(job[j])
        /\ r.status = job[j].status
    BY <1>1, DeadlineRowOK
  <2>4. Write(j, r) /\ job[j].status \notin Terminal
    BY <1>5 DEF RetryFallsDue, Terminal
  <2>5. RowsOK' /\ Final
    BY <1>1, <1>2, <2>3, <2>4, WriteRowOnly DEF IInv, Evidence
  <2>6. QED
    BY <1>2, <1>3, <2>5, RowStep
<1>6. QED
  BY <1>4, <1>5

LEMMA SyncStartStep ==
    ASSUME IInv, NEW w \in Workers, SyncStart(w)
    PROVE  IInv' /\ Final
<1>1. /\ inv[w].pc # "idle" /\ J(w) \in Jobs /\ MyRow(w) = job[J(w)]
      /\ MyRow(w) \in Row /\ RowInv(MyRow(w))
  BY Mine DEF SyncStart
<1>2. /\ answered' = answered /\ UNCHANGED <<ledger, results, provider>>
      /\ faults' \in Nat
  BY DEF SyncStart, provider, IInv, RestOK
<1>3. CASE /\ MyRow(w).status = "QUEUED"
           /\ Write(J(w), StartedRow(MyRow(w), w))
           /\ Goto(w, "resolve")
  <2> DEFINE r == StartedRow(MyRow(w), w)
  <2>1. /\ r \in Row /\ RowInv(r) /\ LedgerCharge(r) = LedgerCharge(MyRow(w))
        /\ ~HasProviderBillingEvidence(r)
    BY <1>1, <1>3, StartedRowOK
  <2>2. job[J(w)].status \notin Terminal
    BY <1>1, <1>3 DEF Terminal
  <2>3. RowsOK' /\ Final
    BY <1>1, <1>2, <1>3, <2>1, <2>2, WriteRowOnly DEF IInv
  <2>4. LocalOK'
    BY <1>1, <1>2, <1>3, GotoOK DEF IInv, Pc, RunSteps, ClaimSteps
  <2>5. QED
    BY <1>2, <2>3, <2>4, RowStep
<1>4. CASE Return(w) /\ UNCHANGED job
  BY <1>2, <1>4, ReturnOK, Quiet DEF IInv
<1>5. QED
  BY <1>3, <1>4 DEF SyncStart

LEMMA CheckpointOK ==
    ASSUME IInv, NEW w \in Workers, inv[w].pc # "idle",
           AdvanceRepositoryCheckpoint(w)
    PROVE  lastSyncTime' \in [Repos -> Nat] /\ analysed' \in [Repos -> SUBSET Nat]
<1>1. /\ J(w) \in Jobs /\ RepoOf[J(w)] \in Repos
      /\ inv[w].cutoff \in Nat /\ inv[w].cursor \in Nat
  BY Mine, JobAssumption DEF Invocation
<1>2. (inv[w].cursor + 1)..inv[w].cutoff \in SUBSET Nat
  BY <1>1
<1>3. QED
  BY <1>1, <1>2 DEF AdvanceRepositoryCheckpoint, IInv, RestOK

(* The closing transactions of the runner at zero usage.                   *)
LEMMA UnbilledSteps ==
    ASSUME IInv, NEW w \in Workers,
           \/ NoAnalyzableData(w) \/ InputLimitExceeded(w)
           \/ InsufficientTokens(w)
    PROVE  IInv' /\ Final
<1>1. /\ inv[w].pc # "idle" /\ MyRow(w).status = "RUNNING"
      /\ answered' = answered /\ Return(w)
      /\ \E c \in FailureCode : TerminateUnbilled(w, c)
  BY DEF NoAnalyzableData, InputLimitExceeded, InsufficientTokens, Holds,
         provider, FailureCode
<1>2. RowsOK' /\ Final
  BY <1>1, TerminateUnbilledOK
<1>3. LocalOK'
  BY <1>1, ReturnOK DEF IInv
<1>4. CASE InputLimitExceeded(w) \/ InsufficientTokens(w)
  BY <1>2, <1>3, <1>4, RowStep
  DEF InputLimitExceeded, InsufficientTokens, IInv, RestOK
<1>5. CASE NoAnalyzableData(w)
  <2>1. lastSyncTime' \in [Repos -> Nat] /\ analysed' \in [Repos -> SUBSET Nat]
    BY <1>1, <1>5, CheckpointOK DEF NoAnalyzableData
  <2>2. QED
    BY <1>2, <1>3, <1>5, <2>1 DEF NoAnalyzableData, IInv, RestOK, provider
<1>6. QED
  BY <1>4, <1>5

LEMMA EnsureReservationStep ==
    ASSUME IInv, NEW w \in Workers, NEW n \in ReserveSizes,
           EnsureReservation(w, n)
    PROVE  IInv' /\ Final
<1>1. /\ inv[w].pc # "idle" /\ J(w) \in Jobs /\ MyRow(w).status = "RUNNING"
      /\ MyRow(w) \in Row /\ inv[w] \in Invocation /\ inv[w].job = J(w)
  BY Mine DEF EnsureReservation, Holds, J
<1>2. /\ answered' = answered /\ UNCHANGED <<results, provider>>
      /\ faults' \in Nat /\ n \in Nat
  BY TokenAssumption DEF EnsureReservation, provider, IInv, RestOK
<1>3. CASE /\ inv' = [inv EXCEPT ![w].pc = "reserve", ![w].need = n]
           /\ UNCHANGED <<job, ledger>>
  <2> DEFINE i == [inv[w] EXCEPT !.pc = "reserve", !.need = n]
  <2>1. i \in Invocation /\ i.pc = "reserve" /\ i.job = J(w)
    BY <1>1, <1>2 DEF Invocation, Pc, RunSteps
  <2>2. InvocationInv(i, answered)
    BY <1>1, <2>1 DEF InvocationInv, ClaimSteps
  <2>3. inv' = [inv EXCEPT ![w] = i]
    BY <1>3
  <2>4. LocalOK'
    BY <1>2, <2>1, <2>2, <2>3, WriteInvocation DEF IInv
  <2>5. QED
    BY <1>2, <1>3, <2>4, Quiet
<1>4. CASE /\ MyRow(w).reserved # NULL
           /\ inv' = [inv EXCEPT ![w].pc = AfterReservation(w),
                                 ![w].reserved = MyRow(w).reserved]
           /\ UNCHANGED <<job, ledger>>
  <2> DEFINE i == [inv[w] EXCEPT !.pc = AfterReservation(w),
                                 !.reserved = MyRow(w).reserved]
  <2>1. /\ MyRow(w).reserved \in Nat
        /\ AfterReservation(w) \in {"llm", "reserved"}
    BY <1>1, <1>4 DEF Row, AfterReservation
  <2>2. /\ i \in Invocation /\ i.pc = AfterReservation(w)
        /\ i.reserved \in Nat /\ i.job = J(w)
    BY <1>1, <2>1 DEF Invocation, Pc, RunSteps
  <2>3. InvocationInv(i, answered)
    BY <1>1, <2>1, <2>2 DEF InvocationInv, ClaimSteps
  <2>4. inv' = [inv EXCEPT ![w] = i]
    BY <1>4
  <2>5. LocalOK'
    BY <1>2, <2>2, <2>3, <2>4, WriteInvocation DEF IInv
  <2>6. QED
    BY <1>2, <1>4, <2>5, Quiet
<1>5. CASE TerminateUnbilled(w, "TOKEN_BUDGET_EXCEEDED") /\ Return(w)
  <2>1. RowsOK' /\ Final
    BY <1>1, <1>2, <1>5, TerminateUnbilledOK DEF FailureCode
  <2>2. LocalOK'
    BY <1>2, <1>5, ReturnOK DEF IInv
  <2>3. QED
    BY <1>2, <2>1, <2>2, RowStep
<1>6. QED
  BY <1>3, <1>4, <1>5 DEF EnsureReservation

LEMMA ReserveTokensStep ==
    ASSUME IInv, NEW w \in Workers, NEW seen \in BOOLEAN,
           ReserveTokens(w, seen)
    PROVE  IInv' /\ Final
<1> DEFINE n == inv[w].need
           r == ReservedRow(MyRow(w), n)
<1>1. /\ inv[w].pc # "idle" /\ J(w) \in Jobs /\ MyRow(w) = job[J(w)]
      /\ MyRow(w) \in Row /\ RowInv(MyRow(w)) /\ Evidence(J(w))
      /\ held[J(w)] = LedgerCharge(MyRow(w))
      /\ availableTokens[OwnerOf[J(w)]] \in Nat
      /\ inv[w] \in Invocation /\ inv[w].job = J(w)
  BY Mine DEF ReserveTokens, J
<1>2. /\ MyRow(w).status = "RUNNING" /\ MyRow(w).reserved = NULL
      /\ ~MyRow(w).settled /\ n <= availableTokens[OwnerOf[J(w)]]
      /\ Write(J(w), r) /\ Debit(J(w), n)
      /\ answered' = answered /\ UNCHANGED <<results, provider>>
  BY <1>1 DEF ReserveTokens, ReserveFence, Holds, provider, Invocation
<1>3. n \in Nat
  BY <1>1 DEF Invocation
<1>4. /\ r \in Row /\ RowInv(r) /\ LedgerCharge(r) = n
      /\ HasProviderBillingEvidence(r) <=> HasProviderBillingEvidence(MyRow(w))
  BY <1>1, <1>2, <1>3, ReservedRowOK
<1>5. held[J(w)] + n = n
  BY <1>1, <1>2, <1>3 DEF LedgerCharge, OrZero
<1>6. RowsOK' /\ Final
  <2>1. job[J(w)].status \notin Terminal
    BY <1>1, <1>2 DEF Terminal
  <2>2. n \in Int
    BY <1>3
  <2>3. QED
    BY <1>1, <1>2, <1>4, <1>5, <2>1, <2>2, WriteRow DEF IInv, Evidence
<1>7. CASE /\ inv' = [inv EXCEPT ![w].pc = AfterReservation(w),
                                 ![w].reserved = n]
           /\ UNCHANGED faults
  <2> DEFINE i == [inv[w] EXCEPT !.pc = AfterReservation(w), !.reserved = n]
  <2>1. AfterReservation(w) \in {"llm", "reserved"}
    BY DEF AfterReservation
  <2>2. /\ i \in Invocation /\ i.pc = AfterReservation(w)
        /\ i.reserved \in Nat /\ i.job = J(w)
    BY <1>1, <1>3, <2>1 DEF Invocation, Pc, RunSteps
  <2>3. InvocationInv(i, answered)
    BY <1>1, <2>1, <2>2 DEF InvocationInv, ClaimSteps
  <2>4. inv' = [inv EXCEPT ![w] = i]
    BY <1>7
  <2>5. LocalOK'
    BY <1>2, <2>2, <2>3, <2>4, WriteInvocation DEF IInv
  <2>6. QED
    BY <1>2, <1>6, <1>7, <2>5, RowStep DEF IInv, RestOK
<1>8. CASE Throw(w, TRUE) /\ Fault
  <2>1. LocalOK'
    BY <1>1, <1>2, <1>8, ThrowOK DEF IInv
  <2>2. QED
    BY <1>2, <1>6, <1>8, <2>1, FaultOK, RowStep
<1>9. QED
  BY <1>7, <1>8 DEF ReserveTokens

LEMMA ProviderFailsStep ==
    ASSUME IInv, NEW w \in Workers, NEW y \in BOOLEAN, ProviderFails(w, y)
    PROVE  IInv' /\ Final
<1>1. /\ inv[w].pc # "idle" /\ Throw(w, y) /\ answered' = answered
      /\ UNCHANGED <<results, provider>> /\ faults' \in Nat
  BY DEF ProviderFails, provider, IInv, RestOK
<1>2. LocalOK'
  BY <1>1, ThrowOK DEF IInv
<1>3. CASE /\ TransitionFence(MyRow(w), w, inv[w].reserved)
           /\ TerminateUnbilled(w, "ANALYSIS_FAILED")
  <2>1. MyRow(w).status = "RUNNING"
    BY <1>3 DEF TransitionFence, Holds
  <2>2. RowsOK' /\ Final
    BY <1>1, <1>3, <2>1, TerminateUnbilledOK DEF FailureCode
  <2>3. QED
    BY <1>1, <1>2, <2>2, RowStep
<1>4. CASE UNCHANGED <<job, ledger>>
  BY <1>1, <1>2, <1>4, Quiet
<1>5. QED
  BY <1>3, <1>4 DEF ProviderFails

LEMMA RecordProviderChargeStep ==
    ASSUME IInv, NEW w \in Workers, NEW seen \in BOOLEAN,
           RecordProviderCharge(w, seen)
    PROVE  IInv' /\ Final
<1> DEFINE r == ChargedRow(MyRow(w), inv[w].usage)
           p == IF seen /\ inv[w].ok /\ inv[w].usage <= inv[w].reserved
                THEN IF IsSync(w) THEN "save" ELSE "saving"
                ELSE "reconcile"
<1>1. /\ inv[w].pc = "charge" /\ J(w) \in Jobs /\ MyRow(w) = job[J(w)]
      /\ MyRow(w) \in Row /\ RowInv(MyRow(w))
      /\ inv[w] \in Invocation /\ InvocationInv(inv[w], answered)
      /\ inv[w].job = J(w)
  BY Mine DEF RecordProviderCharge, J
<1>2. /\ answered' = answered /\ UNCHANGED <<ledger, results, provider>>
  BY DEF RecordProviderCharge, provider
<1>3. /\ inv[w].reserved \in Nat /\ J(w) \in answered
      /\ inv[w].ok => inv[w].usage \in Nat
      /\ inv[w].usage \in Nat \cup {NULL}
  BY <1>1 DEF InvocationInv, Invocation
<1>4. CASE ChargeFence(MyRow(w), w, inv[w].reserved)
  <2>1. /\ MyRow(w).status = "RUNNING" /\ MyRow(w).reserved # NULL
        /\ job[J(w)].status \notin Terminal
    BY <1>1, <1>3, <1>4, NullAssumption DEF ChargeFence, Holds, Terminal
  <2>2. Write(J(w), r) /\ Goto(w, p) /\ faults' \in Nat
    BY <1>4, FaultOK DEF RecordProviderCharge, IInv, RestOK
  <2>3. r \in Row /\ RowInv(r) /\ LedgerCharge(r) = LedgerCharge(MyRow(w))
    BY <1>1, <1>3, <2>1, ChargedRowOK
  <2>4. RowsOK' /\ Final
    BY <1>1, <1>2, <1>3, <2>1, <2>2, <2>3, WriteRowOnly DEF IInv
  <2>5. /\ p \in {"save", "saving", "reconcile"}
        /\ p \in {"save", "saving"}
              => inv[w].usage \in Nat /\ inv[w].usage <= inv[w].reserved
    BY <1>3
  <2>6. p \in Pc /\ p \notin ClaimSteps \cup {"charge"} /\ inv[w].pc # "idle"
    BY <1>1, <2>5 DEF Pc, RunSteps, ClaimSteps
  <2> HIDE DEF p
  <2>7. LocalOK'
    BY <1>1, <1>2, <1>3, <2>2, <2>5, <2>6, GotoOK DEF IInv
  <2>8. QED
    BY <1>2, <2>2, <2>4, <2>7, RowStep
<1>5. CASE ~ChargeFence(MyRow(w), w, inv[w].reserved)
  <2>1. Goto(w, "reconcile") /\ UNCHANGED <<job, faults>>
    BY <1>5 DEF RecordProviderCharge
  <2>2. LocalOK'
    BY <1>1, <1>2, <2>1, ToReconcile
  <2>3. QED
    BY <1>2, <2>1, <2>2, Quiet DEF IInv, RestOK
<1>6. QED
  BY <1>4, <1>5

LEMMA SaveResultStep ==
    ASSUME IInv, NEW w \in Workers, NEW seen \in BOOLEAN, SaveResult(w, seen)
    PROVE  IInv' /\ Final
<1> DEFINE F == TransitionFence(MyRow(w), w, inv[w].reserved) /\ J(w) \notin reports
           u == inv[w].usage
           m == inv[w].reserved
           r == SucceededRow(MyRow(w), u)
<1>1. /\ inv[w].pc = "save" /\ J(w) \in Jobs /\ MyRow(w) = job[J(w)]
      /\ MyRow(w) \in Row /\ RowInv(MyRow(w))
      /\ held[J(w)] = LedgerCharge(MyRow(w))
      /\ OwnerOf[J(w)] \in Users /\ availableTokens[OwnerOf[J(w)]] \in Nat
      /\ inv[w] \in Invocation /\ InvocationInv(inv[w], answered)
  BY Mine DEF SaveResult
<1>2. answered' = answered /\ UNCHANGED provider
  BY DEF SaveResult, provider
<1>3. m \in Nat /\ u \in Nat /\ u <= m
  BY <1>1 DEF InvocationInv, Invocation
<1>4. CASE F
  <2>1. /\ MyRow(w).status = "RUNNING" /\ MyRow(w).reserved = m
        /\ ~MyRow(w).settled /\ job[J(w)].status \notin Terminal
    BY <1>1, <1>4 DEF TransitionFence, Holds, Terminal
  <2>2. /\ Write(J(w), r) /\ Debit(J(w), u - m)
        /\ reports' = reports \cup {J(w)}
        /\ analysisCount' = [analysisCount EXCEPT ![OwnerOf[J(w)]] = @ + 1]
        /\ AdvanceRepositoryCheckpoint(w)
    BY <1>4 DEF SaveResult
  <2>3. r \in Row /\ RowInv(r) /\ LedgerCharge(r) = u /\ r.status = "SUCCEEDED"
    BY <1>1, <1>3, SucceededRowOK
  <2>4. held[J(w)] = m
    BY <1>1, <1>3, <2>1, NullAssumption DEF LedgerCharge, OrZero
  <2>5. /\ u - m \in Int /\ u - m <= availableTokens[OwnerOf[J(w)]]
        /\ held[J(w)] + (u - m) = u
    BY <1>1, <1>3, <2>4
  <2>6. RowsOK' /\ Final
    BY <1>1, <1>2, <2>1, <2>2, <2>3, <2>5, WriteRow DEF IInv
  <2>7. LocalOK' /\ faults' \in Nat
    <3>1. CASE seen
      BY <1>2, <1>4, <3>1, ReturnOK DEF SaveResult, IInv, RestOK
    <3>2. CASE ~seen
      BY <1>1, <1>2, <1>4, <3>2, ToReconcile, FaultOK DEF SaveResult
    <3>3. QED
      BY <3>1, <3>2
  <2>8. lastSyncTime' \in [Repos -> Nat] /\ analysed' \in [Repos -> SUBSET Nat]
    BY <1>1, <2>2, CheckpointOK
  <2>9. RestOK'
    BY <1>1, <1>2, <2>2, <2>7, <2>8 DEF IInv, RestOK, provider
  <2>10. QED
    BY <2>6, <2>7, <2>9 DEF IInv
<1>5. CASE ~F
  <2>1. Goto(w, "reconcile") /\ UNCHANGED <<job, ledger, results, faults>>
    BY <1>5 DEF SaveResult
  <2>2. LocalOK'
    BY <1>1, <1>2, <2>1, ToReconcile
  <2>3. QED
    BY <1>2, <2>1, <2>2, Quiet DEF IInv, RestOK
<1>6. QED
  BY <1>4, <1>5

LEMMA ReconcileStep ==
    ASSUME IInv, NEW w \in Workers, Reconcile(w)
    PROVE  IInv' /\ Final
<1>1. /\ inv[w].pc # "idle" /\ Return(w) /\ answered' = answered
      /\ UNCHANGED <<results, provider>> /\ faults' \in Nat
      /\ inv[w] \in Invocation
  BY Mine DEF Reconcile, provider, IInv, RestOK
<1>2. LocalOK'
  BY <1>1, ReturnOK DEF IInv
<1>3. CASE TransitionFence(MyRow(w), w, inv[w].reserved)
  <2>1. MyRow(w).status = "RUNNING" /\ inv[w].reserved = MyRow(w).reserved
    BY <1>3 DEF TransitionFence, Holds
  <2>2. inv[w].id \in BOOLEAN /\ inv[w].usage \in Nat \cup {NULL}
    BY <1>1 DEF Invocation
  <2>3. TerminateProviderReconciliation(w, inv[w].reserved, inv[w].id,
                                        inv[w].usage)
    BY <1>3 DEF Reconcile
  <2>4. RowsOK' /\ Final
    BY <1>1, <2>1, <2>2, <2>3, TerminateProviderReconciliationOK
  <2>5. QED
    BY <1>1, <1>2, <2>4, RowStep
<1>4. CASE ~TransitionFence(MyRow(w), w, inv[w].reserved)
  BY <1>1, <1>2, <1>4, Quiet DEF Reconcile
<1>5. QED
  BY <1>3, <1>4

LEMMA HandleClaimedFailureStep ==
    ASSUME IInv, NEW w \in Workers, HandleClaimedFailure(w)
    PROVE  IInv' /\ Final
<1> DEFINE again == inv[w].retry /\ inv[w].attempts < MaxAttempts /\ ~inv[w].last
<1>1. /\ inv[w].pc # "idle" /\ Return(w) /\ answered' = answered
      /\ UNCHANGED <<results, provider>> /\ faults' \in Nat
      /\ J(w) \in Jobs /\ MyRow(w) = job[J(w)] /\ MyRow(w) \in Row
      /\ RowInv(MyRow(w)) /\ inv[w] \in Invocation
  BY Mine DEF HandleClaimedFailure, provider, IInv, RestOK
<1>2. LocalOK'
  BY <1>1, ReturnOK DEF IInv
<1>3. CASE again /\ ReleaseFence(MyRow(w), w)
  <2> DEFINE r == ReleasedRow(MyRow(w))
  <2>1. MyRow(w).status = "RUNNING" /\ ~HasProviderBillingEvidence(MyRow(w))
    BY <1>3 DEF ReleaseFence, Holds
  <2>2. /\ r \in Row /\ RowInv(r) /\ LedgerCharge(r) = LedgerCharge(MyRow(w))
        /\ r.status = "QUEUED"
    BY <1>1, <2>1, ReleasedRowOK
  <2>3. Write(J(w), r) /\ UNCHANGED ledger
    BY <1>3 DEF HandleClaimedFailure
  <2>4. job[J(w)].status \notin Terminal
    BY <1>1, <2>1 DEF Terminal
  <2>5. RowsOK' /\ Final
    BY <1>1, <2>2, <2>3, <2>4, WriteRowOnly DEF IInv
  <2>6. QED
    BY <1>1, <1>2, <2>5, RowStep
<1>4. CASE again /\ ~ReleaseFence(MyRow(w), w)
  BY <1>1, <1>2, <1>4, Quiet DEF HandleClaimedFailure
<1>5. CASE ~again
  <2> DEFINE c == IF inv[w].retry THEN "MAX_ATTEMPTS_EXCEEDED" ELSE "ANALYSIS_FAILED"
  <2>1. c \in FailureCode /\ inv[w].retry \in BOOLEAN
    BY <1>1 DEF FailureCode, Invocation
  <2>2. SettleFailure(J(w), "RUNNING", w, c, inv[w].retry)
    BY <1>5 DEF HandleClaimedFailure
  <2>3. RowsOK' /\ Final
    BY <1>1, <2>1, <2>2, SettleFailureOK
  <2>4. QED
    BY <1>1, <1>2, <2>3, RowStep
<1>6. QED
  BY <1>3, <1>4, <1>5

-----------------------------------------------------------------------------
(* Acceptance. *)

LEMMA CreateExclusiveOK ==
    ASSUME IInv, NEW j \in Jobs, job[j].status = "ABSENT",
           NEW b \in Nat, NEW c \in Nat, CreateExclusive(j, b, c),
           answered' = answered, UNCHANGED ledger
    PROVE  RowsOK' /\ Final
<1> DEFINE stale(k) == RepoOf[k] = RepoOf[j] /\ IsStale(job[k], k \in SyncJobs)
<1>1. \A k \in Jobs : /\ job[k] \in Row /\ RowInv(job[k]) /\ Evidence(k)
                      /\ held[k] = LedgerCharge(job[k])
  BY DEF IInv, RowsOK, HeldMatchesLedger
<1>2. job'[j] = CreatedRow(b, c)
  BY DEF CreateExclusive, Recovered
<1>3. \A k \in Jobs : k # j =>
         job'[k] = IF stale(k) THEN RecoveredRow(job[k]) ELSE job[k]
  BY DEF CreateExclusive, Recovered
<1>4. held[j] = 0
  BY <1>1 DEF RowInv, RowCheck, LedgerCharge, OrZero, Terminal
<1>5. \A k \in Jobs : stale(k) =>
         ~job[k].settled /\ job[k].status \notin Terminal
  BY DEF IsStale, Terminal
<1>6. \A k \in Jobs : /\ job'[k] \in Row /\ RowInv(job'[k])
                      /\ held[k] = LedgerCharge(job'[k])
                      /\ job'[k] # job[k] => job'[k].status # "RUNNING"
  <2> TAKE k \in Jobs
  <2>1. CASE k = j
    BY <1>2, <1>4, <2>1, CreatedRowOK
  <2>2. CASE k # j /\ stale(k)
    BY <1>1, <1>3, <1>5, <2>2, RecoveredRowOK
  <2>3. CASE k # j /\ ~stale(k)
    BY <1>1, <1>3, <2>3
  <2>4. QED
    BY <2>1, <2>2, <2>3
<1>7. job' \in [Jobs -> Row]
  <2>1. job' = [k \in Jobs |-> job'[k]]
    BY DEF CreateExclusive, Recovered
  <2>2. QED
    BY <1>6, <2>1
<1>8. \A k \in Jobs : RowInv(job'[k]) /\ Evidence(k)'
  BY <1>1, <1>6 DEF Evidence
<1>9. availableTokens' = availableTokens /\ held' = held
  BY DEF ledger
<1>10. Final
  BY <1>2, <1>3, <1>5, <1>9 DEF Final, Terminal
<1>11. QED
  BY <1>6, <1>7, <1>8, <1>9, <1>10 DEF IInv, RowsOK, HeldMatchesLedger

LEMMA AcceptJobStep ==
    ASSUME IInv, NEW j \in Jobs, AcceptJob(j)
    PROVE  IInv' /\ Final
<1>1. PICK win \in CollectionWindows(j) :
         CreateExclusive(j, win.cursor, win.cutoff)
  BY DEF AcceptJob
<1>2. win.cursor \in Nat /\ win.cutoff \in Nat
  <2>1. lastSyncTime[RepoOf[j]] \in Nat
    BY JobAssumption DEF IInv, RestOK
  <2>2. \A k \in Jobs : job[k].cursor \in Nat /\ job[k].cutoff \in Nat
    BY DEF IInv, RowsOK, Row
  <2>3. 1..MaxInstant \subseteq Nat
    BY TokenAssumption
  <2>4. QED
    BY <2>1, <2>2, <2>3 DEF CollectionWindows, Window
<1>3. RowsOK' /\ Final
  BY <1>1, <1>2, CreateExclusiveOK DEF AcceptJob, provider
<1>4. LocalOK'
  BY DEF AcceptJob, provider, IInv, LocalOK
<1>5. QED
  BY <1>3, <1>4, RowStep DEF AcceptJob, IInv, RestOK

LEMMA SyncCreateStep ==
    ASSUME IInv, NEW w \in Workers, SyncCreate(w)
    PROVE  IInv' /\ Final
<1>1. /\ inv[w].pc # "idle" /\ J(w) \in Jobs /\ answered' = answered
      /\ UNCHANGED <<ledger, results, provider>> /\ faults' \in Nat
      /\ job[J(w)].status = "ABSENT"
  BY Mine DEF SyncCreate, provider, IInv, RestOK
<1>2. CASE /\ \E c \in 1..MaxInstant : IsNow(c) /\ CreateExclusive(J(w), 0, c)
           /\ Goto(w, "syncStart")
  <2>1. PICK c \in 1..MaxInstant : CreateExclusive(J(w), 0, c)
    BY <1>2
  <2>2. c \in Nat
    BY TokenAssumption
  <2>3. RowsOK' /\ Final
    BY <1>1, <2>1, <2>2, CreateExclusiveOK
  <2>4. LocalOK'
    BY <1>1, <1>2, GotoOK DEF IInv, Pc, RunSteps, ClaimSteps
  <2>5. QED
    BY <1>1, <2>3, <2>4, RowStep
<1>3. CASE Return(w) /\ UNCHANGED job
  BY <1>1, <1>3, ReturnOK, Quiet DEF IInv
<1>4. QED
  BY <1>2, <1>3 DEF SyncCreate

-----------------------------------------------------------------------------
(* The invariant. *)

LEMMA InitOK == Init => IInv
<1> SUFFICES ASSUME Init PROVE IInv
  OBVIOUS
<1>1. RowsOK
  BY NoRowOK, TokenAssumption
  DEF Init, RowsOK, HeldMatchesLedger, Evidence
<1>2. LocalOK
  BY IdleOK DEF Init, LocalOK
<1>3. RestOK
  BY DEF Init, RestOK
<1>4. QED
  BY <1>1, <1>2, <1>3 DEF IInv

LEMMA StepOK ==
    ASSUME IInv, NEW w \in Workers, Step(w)
    PROVE  IInv' /\ Final
<1>1. CASE SyncCreate(w) \/ SyncStart(w)
  BY <1>1, SyncCreateStep, SyncStartStep
<1>2. CASE ClaimQueued(w) \/ TakeOverExpiredLease(w)
  BY <1>2, ClaimQueuedStep, TakeOverExpiredLeaseStep
<1>3. CASE TakeOverExpiredBilledLease(w) \/ FinalizeClaimLimit(w)
  BY <1>3, TakeOverExpiredBilledLeaseStep, FinalizeClaimLimitStep
<1>4. CASE LostLease(w) \/ \E y \in BOOLEAN : RunFails(w, y)
  BY <1>4, ThrowSteps
<1>5. CASE RecoverProviderCheckpoint(w)
  BY <1>5, RecoverProviderCheckpointStep
<1>6. CASE CollectionDone(w) \/ OnTokensReserved(w) \/ OnSaving(w)
  BY <1>6, ProgressSteps
<1>7. CASE NoAnalyzableData(w) \/ InputLimitExceeded(w) \/ InsufficientTokens(w)
  BY <1>7, UnbilledSteps
<1>8. CASE \E n \in ReserveSizes : EnsureReservation(w, n)
  BY <1>8, EnsureReservationStep
<1>9. CASE ReserveTokens(w, TRUE)
  BY <1>9, ReserveTokensStep
<1>10. CASE CallProvider(w)
  BY <1>10, CallProviderStep
<1>11. CASE \E id, ok \in BOOLEAN, u \in UsageSizes \cup {NULL} :
               ProviderAnswers(w, id, u, ok)
  BY <1>11, ProviderAnswersStep
<1>12. CASE \E y \in BOOLEAN : ProviderFails(w, y)
  BY <1>12, ProviderFailsStep
<1>13. CASE RecordProviderCharge(w, TRUE)
  BY <1>13, RecordProviderChargeStep
<1>14. CASE LostLeaseWhileSaving(w)
  BY <1>14, LostLeaseWhileSavingStep
<1>15. CASE SaveResult(w, TRUE)
  BY <1>15, SaveResultStep
<1>16. CASE Reconcile(w) \/ HandleClaimedFailure(w)
  BY <1>16, ReconcileStep, HandleClaimedFailureStep
<1>17. QED
  BY <1>1, <1>2, <1>3, <1>4, <1>5, <1>6, <1>7, <1>8, <1>9, <1>10, <1>11,
     <1>12, <1>13, <1>14, <1>15, <1>16 DEF Step

LEMMA EnvironmentOK ==
    ASSUME IInv, NEW w \in Workers, Environment(w)
    PROVE  IInv' /\ Final
<1>1. CASE \E j \in Jobs : SyncCollect(w, j)
  BY <1>1, SyncCollectStep
<1>2. CASE CollectionHeartbeat(w)
  BY <1>2, ProgressSteps
<1>3. CASE Crash(w) \/ \E y \in BOOLEAN : DatabaseFails(w, y)
  BY <1>3, CrashStep, DatabaseFailsStep
<1>4. CASE ReserveTokens(w, FALSE)
  BY <1>4, ReserveTokensStep
<1>5. CASE RecordProviderCharge(w, FALSE)
  BY <1>5, RecordProviderChargeStep
<1>6. CASE SaveResult(w, FALSE)
  BY <1>6, SaveResultStep
<1>7. QED
  BY <1>1, <1>2, <1>3, <1>4, <1>5, <1>6 DEF Environment

LEMMA NextOK == IInv /\ [Next]_vars => IInv' /\ (Final \/ UNCHANGED vars)
<1> SUFFICES ASSUME IInv, [Next]_vars PROVE IInv' /\ (Final \/ UNCHANGED vars)
  OBVIOUS
<1>1. CASE \E w \in Workers : Step(w) \/ Environment(w)
  BY <1>1, StepOK, EnvironmentOK
<1>2. CASE \E w \in Workers, j \in Jobs, last \in BOOLEAN : Deliver(w, j, last)
  BY <1>2, DeliverStep
<1>3. CASE \E j \in Jobs : AcceptJob(j) \/ FailQueuedInvalidMessage(j)
  BY <1>3, AcceptJobStep, FailQueuedInvalidMessageStep
<1>4. CASE \E j \in Jobs : LeaseExpires(j) \/ RetryFallsDue(j)
  BY <1>4, DeadlineSteps
<1>5. CASE UNCHANGED vars
  BY <1>5, KeepRows, Quiet
  DEF vars, IInv, LocalOK, RestOK, ledger, results, provider
<1>6. QED
  BY <1>1, <1>2, <1>3, <1>4, <1>5 DEF Next

(* The inductive invariant holds in every reachable state.                 *)
THEOREM Invariance == Spec => []IInv
<1>1. Init => IInv
  BY InitOK
<1>2. IInv /\ [Next]_vars => IInv'
  BY NextOK
<1>3. QED
  BY <1>1, <1>2, PTL DEF Spec

(* Type correctness of the rows, the balances and the invocations: no      *)
(* interleaving of fenced updates drives a balance below zero.             *)
THEOREM TypeCorrect == Spec => []TypeOK
<1>1. IInv => TypeOK
  BY DEF IInv, RowsOK, LocalOK, RestOK, InvocationInv, TypeOK
<1>2. QED
  BY <1>1, Invariance, PTL

(* For any number of invocations, crashes and lost replies, the tokens     *)
(* taken from a user for a job are exactly what the job's row accounts     *)
(* for: the reservation while it is open, the usage once it is settled.    *)
THEOREM LedgerBalanced == Spec => []HeldMatchesLedger
<1>1. IInv => HeldMatchesLedger
  BY DEF IInv, RowsOK
<1>2. QED
  BY <1>1, Invariance, PTL

(* No write the code issues trips a CHECK constraint of analysis_jobs.     *)
THEOREM ChecksHold == Spec => []RowChecks
<1>1. IInv => RowChecks
  BY DEF IInv, RowsOK, RowInv, RowChecks
<1>2. QED
  BY <1>1, Invariance, PTL

(* A finished job and the tokens it cost never change again.               *)
THEOREM FinishedIsFinal == Spec => TerminalIsFinal
<1>1. IInv /\ [Next]_vars =>
         [\A j \in Jobs : job[j].status \in Terminal
             => job'[j] = job[j] /\ held'[j] = held[j]]_vars
  BY NextOK DEF Final
<1>2. QED
  BY <1>1, Invariance, PTL DEF Spec, TerminalIsFinal

-----------------------------------------------------------------------------
(* AnalysisWorker implements TokenAccount: every step of the worker, seen  *)
(* through AccountOf, is one step on the account of one job or invisible.  *)
(* The inductive invariant above supplies what a fence lets a step assume  *)
(* of its row.                                                             *)

AccountStep == [Account!Next]_(Account!vars)

-----------------------------------------------------------------------------
(* The steps of TokenAccount, as writes of one row.                        *)

LEMMA AccountOfWrite ==
    ASSUME IInv, NEW j \in Jobs, NEW r, Write(j, r)
    PROVE  AccountState' = [AccountState EXCEPT ![j] = AccountOf(r)]
BY DEF AccountState, Write, IInv, RowsOK

LEMMA Invisible ==
    ASSUME UNCHANGED <<job, ledger>>,
           \/ answered' = answered
           \/ \E j \in Jobs : answered' = answered \cup {j}
    PROVE  AccountStep
<1>1. AccountState' = AccountState
  BY DEF AccountState
<1>2. QED
  BY <1>1 DEF AccountStep, Account!Next, Account!Answer, Account!vars, ledger

(* Leases, deadlines, attempts and durable charges do not show.            *)
LEMMA InvisibleWrite ==
    ASSUME IInv, NEW j \in Jobs, NEW r, Write(j, r), UNCHANGED ledger,
           answered' = answered, job[j].status \in Active, r.status \in Active,
           r.reserved = job[j].reserved
    PROVE  AccountStep
<1>1. AccountOf(r) = AccountOf(job[j])
  BY DEF AccountOf, Active, Terminal
<1>2. AccountState' = AccountState
  BY <1>1, AccountOfWrite DEF AccountState
<1>3. QED
  BY <1>2 DEF AccountStep, Account!vars, ledger

LEMMA QuarantineWrite ==
    ASSUME IInv, NEW j \in Jobs, NEW r, Write(j, r), UNCHANGED ledger,
           answered' = answered, job[j].status \in Active,
           job[j].reserved # NULL, r.status = "FAILED", ~r.settled
    PROVE  AccountStep
<1>1. AccountOf(r) = "quarantined" /\ AccountOf(job[j]) = "reserved"
  BY DEF AccountOf, Active, Terminal
<1>2. Account!Quarantine(j)
  BY <1>1, AccountOfWrite DEF Account!Quarantine, AccountState, ledger
<1>3. QED
  BY <1>2 DEF AccountStep, Account!Next

LEMMA ReserveWrite ==
    ASSUME IInv, NEW j \in Jobs, NEW r, Write(j, r), NEW n \in Nat,
           Debit(j, n), n <= availableTokens[OwnerOf[j]],
           answered' = answered, job[j].status \in Active,
           job[j].reserved = NULL, r.status \in Active, r.reserved # NULL
    PROVE  AccountStep
<1>1. AccountOf(r) = "reserved" /\ AccountOf(job[j]) = "open"
  BY DEF AccountOf, Active, Terminal
<1>2. held[j] = 0 /\ availableTokens[OwnerOf[j]] \in Nat
  BY JobAssumption
  DEF IInv, RowsOK, RowInv, RowCheck, HeldMatchesLedger, LedgerCharge, OrZero,
      Active, Terminal
<1>3. held[j] + n = n /\ n \in 0..availableTokens[OwnerOf[j]]
  BY <1>2
<1>4. Account!Reserve(j, n)
  BY <1>1, <1>3, AccountOfWrite DEF Account!Reserve, AccountState, Debit
<1>5. QED
  BY <1>3, <1>4 DEF AccountStep, Account!Next

(* Settling at c moves the difference between c and what was held.         *)
LEMMA SettleWrite ==
    ASSUME IInv, NEW j \in Jobs, NEW r, Write(j, r), NEW n \in Int,
           Debit(j, n), n <= availableTokens[OwnerOf[j]],
           answered' = answered, job[j].status \in Active,
           r.status \in Terminal, r.settled, NEW c \in Nat, held[j] + n = c,
           c # 0 => j \in answered /\ job[j].reserved # NULL
    PROVE  AccountStep
<1>1. /\ AccountOf(r) = "settled" /\ AccountOf(job[j]) \in {"open", "reserved"}
      /\ job[j].reserved # NULL => AccountOf(job[j]) = "reserved"
  BY DEF AccountOf, Active, Terminal
<1>2. held[j] \in Int /\ availableTokens[OwnerOf[j]] \in Nat
  BY JobAssumption DEF IInv, RowsOK
<1>3. c - held[j] = n /\ c \in 0..(availableTokens[OwnerOf[j]] + held[j])
  BY <1>2
<1>4. Account!Settle(j, c)
  BY <1>1, <1>3, AccountOfWrite DEF Account!Settle, AccountState, Debit
<1>5. QED
  BY <1>3, <1>4 DEF AccountStep, Account!Next

-----------------------------------------------------------------------------
(* Claims, deadlines, progress: invisible. *)

LEMMA LostClaimAccount ==
    ASSUME NEW w, LostClaim(w), UNCHANGED <<ledger, provider>>
    PROVE  AccountStep
BY Invisible DEF LostClaim, provider

LEMMA ClaimQueuedAccount ==
    ASSUME IInv, NEW w \in Workers, ClaimQueued(w)
    PROVE  AccountStep
<1> DEFINE r == ClaimedRow(MyRow(w), w)
<1>1. J(w) \in Jobs /\ MyRow(w) = job[J(w)] /\ MyRow(w) \in Row
  BY Mine DEF ClaimQueued
<1>2. UNCHANGED <<ledger, provider>> /\ answered' = answered
  BY DEF ClaimQueued, provider
<1>3. CASE ClaimQueuedFence(MyRow(w), inv[w].behind)
  <2>1. MyRow(w).status \in Active /\ Write(J(w), r)
    BY <1>3 DEF ClaimQueued, Claimed, ClaimQueuedFence, Active
  <2>2. r.status \in Active /\ r.reserved = MyRow(w).reserved
    BY <1>1 DEF ClaimedRow, Row, Active
  <2>3. QED
    BY <1>1, <1>2, <2>1, <2>2, InvisibleWrite
<1>4. CASE ~ClaimQueuedFence(MyRow(w), inv[w].behind)
  BY <1>2, <1>4, LostClaimAccount DEF ClaimQueued
<1>5. QED
  BY <1>3, <1>4

LEMMA TakeOverExpiredLeaseAccount ==
    ASSUME IInv, NEW w \in Workers, TakeOverExpiredLease(w)
    PROVE  AccountStep
<1> DEFINE r == TakenOverRow(MyRow(w), w)
           F == TakeOverFence(MyRow(w), inv[w].snap, inv[w].attempts,
                              inv[w].behind)
<1>1. J(w) \in Jobs /\ MyRow(w) = job[J(w)] /\ MyRow(w) \in Row
  BY Mine DEF TakeOverExpiredLease
<1>2. UNCHANGED <<ledger, provider>> /\ answered' = answered
  BY DEF TakeOverExpiredLease, provider
<1>3. CASE F
  <2>1. MyRow(w).status = "RUNNING" /\ Write(J(w), r)
    BY <1>3 DEF TakeOverExpiredLease, Claimed, TakeOverFence, Holds
  <2>2. r.status = "RUNNING" /\ r.reserved = MyRow(w).reserved
    BY <1>1, <2>1 DEF TakenOverRow, Row
  <2>3. QED
    BY <1>1, <1>2, <2>1, <2>2, InvisibleWrite DEF Active
<1>4. CASE ~F
  BY <1>2, <1>4, LostClaimAccount DEF TakeOverExpiredLease
<1>5. QED
  BY <1>3, <1>4

LEMMA TakeOverExpiredBilledLeaseAccount ==
    ASSUME IInv, NEW w \in Workers, TakeOverExpiredBilledLease(w)
    PROVE  AccountStep
<1> DEFINE r == TakenOverBilledRow(MyRow(w), w)
           F == TakeOverBilledFence(MyRow(w), inv[w].snap, inv[w].attempts,
                                    inv[w].behind)
<1>1. J(w) \in Jobs /\ MyRow(w) = job[J(w)] /\ MyRow(w) \in Row
  BY Mine DEF TakeOverExpiredBilledLease
<1>2. UNCHANGED <<ledger, provider>> /\ answered' = answered
  BY DEF TakeOverExpiredBilledLease, provider
<1>3. CASE F
  <2>1. MyRow(w).status = "RUNNING" /\ Write(J(w), r)
    BY <1>3 DEF TakeOverExpiredBilledLease, Claimed, TakeOverBilledFence, Holds
  <2>2. r.status = "RUNNING" /\ r.reserved = MyRow(w).reserved
    BY <1>1, <2>1 DEF TakenOverBilledRow, Row
  <2>3. QED
    BY <1>1, <1>2, <2>1, <2>2, InvisibleWrite DEF Active
<1>4. CASE ~F
  BY <1>2, <1>4, LostClaimAccount DEF TakeOverExpiredBilledLease
<1>5. QED
  BY <1>3, <1>4

LEMMA SyncStartAccount ==
    ASSUME IInv, NEW w \in Workers, SyncStart(w)
    PROVE  AccountStep
<1> DEFINE r == StartedRow(MyRow(w), w)
<1>1. /\ J(w) \in Jobs /\ MyRow(w) = job[J(w)] /\ MyRow(w) \in Row
      /\ UNCHANGED ledger /\ answered' = answered
  BY Mine DEF SyncStart, provider
<1>2. CASE MyRow(w).status = "QUEUED" /\ Write(J(w), r)
  <2>1. r.status = "RUNNING" /\ r.reserved = MyRow(w).reserved
    BY <1>1 DEF StartedRow, Row
  <2>2. QED
    BY <1>1, <1>2, <2>1, InvisibleWrite DEF Active
<1>3. CASE UNCHANGED job
  BY <1>1, <1>3, Invisible
<1>4. QED
  BY <1>2, <1>3 DEF SyncStart

LEMMA DeadlineAccount ==
    ASSUME IInv, NEW j \in Jobs, LeaseExpires(j) \/ RetryFallsDue(j)
    PROVE  AccountStep
<1>1. /\ job[j] \in Row /\ UNCHANGED ledger /\ answered' = answered
      /\ job[j].status \in Active
  BY DEF IInv, RowsOK, LeaseExpires, RetryFallsDue, provider, Active
<1>2. PICK r \in {[job[j] EXCEPT !.expired = TRUE],
                  [job[j] EXCEPT !.waiting = FALSE]} : Write(j, r)
  BY DEF LeaseExpires, RetryFallsDue
<1>3. r.status = job[j].status /\ r.reserved = job[j].reserved
  BY <1>1, <1>2 DEF Row
<1>4. QED
  BY <1>1, <1>2, <1>3, InvisibleWrite

LEMMA ProgressAccount ==
    ASSUME IInv, NEW w \in Workers,
           CollectionHeartbeat(w) \/ CollectionDone(w) \/ OnTokensReserved(w)
              \/ OnSaving(w)
    PROVE  AccountStep
<1> DEFINE r == RefreshedRow(MyRow(w))
<1>1. /\ J(w) \in Jobs /\ MyRow(w) = job[J(w)] /\ MyRow(w) \in Row
      /\ UNCHANGED ledger /\ answered' = answered
      /\ MyRow(w).status = "RUNNING" /\ Write(J(w), r)
  BY Mine DEF CollectionHeartbeat, CollectionDone, OnTokensReserved, OnSaving,
              UpdateProgress, provider, Holds
<1>2. r.status = "RUNNING" /\ r.reserved = MyRow(w).reserved
  BY <1>1 DEF RefreshedRow, Row
<1>3. QED
  BY <1>1, <1>2, InvisibleWrite DEF Active

LEMMA RecordProviderChargeAccount ==
    ASSUME IInv, NEW w \in Workers, NEW seen \in BOOLEAN,
           RecordProviderCharge(w, seen)
    PROVE  AccountStep
<1> DEFINE r == ChargedRow(MyRow(w), inv[w].usage)
<1>1. /\ J(w) \in Jobs /\ MyRow(w) = job[J(w)] /\ MyRow(w) \in Row
      /\ UNCHANGED ledger /\ answered' = answered
  BY Mine DEF RecordProviderCharge, provider
<1>2. CASE ChargeFence(MyRow(w), w, inv[w].reserved)
  <2>1. MyRow(w).status = "RUNNING" /\ Write(J(w), r)
    BY <1>2 DEF RecordProviderCharge, ChargeFence, Holds
  <2>2. r.status = "RUNNING" /\ r.reserved = MyRow(w).reserved
    BY <1>1, <2>1 DEF ChargedRow, Row
  <2>3. QED
    BY <1>1, <2>1, <2>2, InvisibleWrite DEF Active
<1>3. CASE ~ChargeFence(MyRow(w), w, inv[w].reserved)
  BY <1>1, <1>3, Invisible DEF RecordProviderCharge
<1>4. QED
  BY <1>2, <1>3

-----------------------------------------------------------------------------
(* Closing a job: settled at zero, at the usage, or quarantined. *)

LEMMA SettleFailureAccount ==
    ASSUME IInv, NEW j \in Jobs, NEW st \in Active, NEW t, NEW c, NEW y,
           SettleFailure(j, st, t, c, y), answered' = answered
    PROVE  AccountStep
<1> DEFINE r == SettledFailureRow(job[j], c, y)
           n == 0 - OrZero(job[j].reserved)
           F == SettleFence(job[j], st, t) /\ ~HasProviderBillingEvidence(job[j])
<1>1. /\ job[j] \in Row /\ RowInv(job[j]) /\ held[j] = LedgerCharge(job[j])
      /\ availableTokens[OwnerOf[j]] \in Nat
  BY JobAssumption DEF IInv, RowsOK, HeldMatchesLedger
<1>2. CASE F
  <2>1. job[j].status \in Active /\ ~job[j].settled
    BY <1>2 DEF SettleFence
  <2>2. Write(j, r) /\ Debit(j, n)
    BY <1>2 DEF SettleFailure
  <2>3. r.status \in Terminal /\ r.settled
    BY <1>1 DEF SettledFailureRow, Row, Terminal
  <2>4. OrZero(job[j].reserved) \in Nat
    BY <1>1 DEF OrZero, Row
  <2>5. held[j] = OrZero(job[j].reserved)
    BY <1>1, <2>1 DEF LedgerCharge
  <2>6. /\ n \in Int /\ n <= availableTokens[OwnerOf[j]] /\ held[j] + n = 0
    BY <1>1, <2>4, <2>5
  <2> HIDE DEF r, n
  <2>7. QED
    BY <2>1, <2>2, <2>3, <2>6, SettleWrite
<1>3. CASE ~F
  BY <1>3, Invisible DEF SettleFailure
<1>4. QED
  BY <1>2, <1>3

LEMMA TerminateUnbilledAccount ==
    ASSUME IInv, NEW w \in Workers, inv[w].pc # "idle",
           MyRow(w).status = "RUNNING", NEW c, TerminateUnbilled(w, c),
           answered' = answered
    PROVE  AccountStep
<1> DEFINE r == TerminatedRow(MyRow(w), c, 0, FALSE, TRUE)
           n == 0 - OrZero(MyRow(w).reserved)
<1>1. /\ J(w) \in Jobs /\ MyRow(w) = job[J(w)] /\ MyRow(w) \in Row
      /\ RowInv(MyRow(w)) /\ held[J(w)] = LedgerCharge(MyRow(w))
      /\ availableTokens[OwnerOf[J(w)]] \in Nat
  BY Mine
<1>2. ~MyRow(w).settled /\ job[J(w)].status \in Active
  BY <1>1 DEF RowInv, RowCheck, Active, Terminal
<1>3. r.status \in Terminal /\ r.settled
  BY <1>1 DEF TerminatedRow, Row, Terminal
<1>4. OrZero(MyRow(w).reserved) \in Nat
  BY <1>1 DEF OrZero, Row
<1>5. held[J(w)] = OrZero(MyRow(w).reserved)
  BY <1>1, <1>2 DEF LedgerCharge
<1>6. n \in Int /\ n <= availableTokens[OwnerOf[J(w)]] /\ held[J(w)] + n = 0
  BY <1>1, <1>4, <1>5
<1>7. Write(J(w), r) /\ Debit(J(w), n)
  BY DEF TerminateUnbilled
<1> HIDE DEF r, n
<1>8. QED
  BY <1>1, <1>2, <1>3, <1>6, <1>7, SettleWrite

(* The charge is for an answer and against a reservation.                  *)
LEMMA TerminateProviderReconciliationAccount ==
    ASSUME IInv, NEW w \in Workers, inv[w].pc # "idle",
           MyRow(w).status = "RUNNING", NEW m, m = MyRow(w).reserved,
           m # NULL, J(w) \in answered,
           NEW b, NEW u \in Nat \cup {NULL},
           TerminateProviderReconciliation(w, m, b, u), answered' = answered
    PROVE  AccountStep
<1> DEFINE settles == /\ u # NULL /\ m # NULL
                      /\ \/ u <= m
                         \/ availableTokens[OwnerOf[J(w)]] >= u - m
           c == IF u > m THEN "TOKEN_BUDGET_EXCEEDED"
                ELSE "PROVIDER_RECONCILIATION_REQUIRED"
<1>1. /\ J(w) \in Jobs /\ MyRow(w) = job[J(w)] /\ MyRow(w) \in Row
      /\ RowInv(MyRow(w)) /\ held[J(w)] = LedgerCharge(MyRow(w))
      /\ availableTokens[OwnerOf[J(w)]] \in Nat
  BY Mine
<1>2. ~MyRow(w).settled /\ job[J(w)].status \in Active
  BY <1>1 DEF RowInv, RowCheck, Active, Terminal
<1>3. m \in Nat /\ held[J(w)] = m
  BY <1>1, <1>2 DEF LedgerCharge, OrZero, Row
<1>4. CASE settles
  <2> DEFINE r == TerminatedRow(MyRow(w), c, u, b, TRUE)
  <2>1. r.status \in Terminal /\ r.settled
    BY <1>1 DEF TerminatedRow, Row, Terminal
  <2>2. /\ u \in Nat /\ u - m \in Int /\ u - m <= availableTokens[OwnerOf[J(w)]]
        /\ held[J(w)] + (u - m) = u
    BY <1>1, <1>3, <1>4
  <2>3. Write(J(w), r) /\ Debit(J(w), u - m)
    BY <1>4 DEF TerminateProviderReconciliation
  <2> HIDE DEF r
  <2>4. QED
    BY <1>1, <1>2, <2>1, <2>2, <2>3, SettleWrite
<1>5. CASE ~settles
  <2> DEFINE r == TerminatedRow(MyRow(w), "PROVIDER_RECONCILIATION_REQUIRED",
                                u, b, FALSE)
  <2>1. r.status = "FAILED" /\ ~r.settled
    BY <1>1 DEF TerminatedRow, Row
  <2>2. Write(J(w), r) /\ UNCHANGED ledger
    BY <1>5 DEF TerminateProviderReconciliation
  <2> HIDE DEF r
  <2>3. QED
    BY <1>1, <1>2, <2>1, <2>2, QuarantineWrite
<1>6. QED
  BY <1>4, <1>5

LEMMA SettleFailureSteps ==
    ASSUME IInv,
           \/ \E w \in Workers : FinalizeClaimLimit(w)
           \/ \E j \in Jobs : FailQueuedInvalidMessage(j)
    PROVE  AccountStep
<1>1. ASSUME NEW w \in Workers, FinalizeClaimLimit(w) PROVE AccountStep
  <2>1. J(w) \in Jobs /\ inv[w].was \in Active /\ answered' = answered
    BY <1>1, Mine DEF FinalizeClaimLimit, InvocationInv, ClaimSteps, provider
  <2>2. SettleFailure(J(w), inv[w].was, inv[w].snap,
                      "MAX_ATTEMPTS_EXCEEDED", TRUE)
    BY <1>1 DEF FinalizeClaimLimit
  <2>3. QED
    BY <2>1, <2>2, SettleFailureAccount
<1>2. ASSUME NEW j \in Jobs, FailQueuedInvalidMessage(j) PROVE AccountStep
  <2>1. /\ SettleFailure(j, "QUEUED", NULL, "INVALID_MESSAGE", FALSE)
        /\ answered' = answered /\ "QUEUED" \in Active
    BY <1>2 DEF FailQueuedInvalidMessage, provider, Active
  <2>2. QED
    BY <2>1, SettleFailureAccount
<1>3. QED
  BY <1>1, <1>2

LEMMA RecoverProviderCheckpointAccount ==
    ASSUME IInv, NEW w \in Workers, RecoverProviderCheckpoint(w)
    PROVE  AccountStep
<1>1. /\ inv[w].pc # "idle" /\ MyRow(w).status = "RUNNING"
      /\ answered' = answered /\ MyRow(w) \in Row /\ RowInv(MyRow(w))
      /\ MyRow(w) = job[J(w)] /\ Evidence(J(w))
  BY Mine DEF RecoverProviderCheckpoint, Holds, provider
<1>2. CASE /\ HasProviderBillingEvidence(MyRow(w))
           /\ TerminateProviderReconciliation(w, MyRow(w).reserved,
                                              MyRow(w).billed, MyRow(w).total)
  <2>1. MyRow(w).total \in Nat \cup {NULL}
    BY <1>1 DEF Row
  <2>2. MyRow(w).reserved # NULL /\ J(w) \in answered
    BY <1>1, <1>2 DEF RowInv, Evidence, Active
  <2>3. QED
    BY <1>1, <1>2, <2>1, <2>2, TerminateProviderReconciliationAccount
<1>3. CASE TerminateUnbilled(w, "UNSUPPORTED_ANALYSIS_VERSION")
  BY <1>1, <1>3, TerminateUnbilledAccount
<1>4. CASE UNCHANGED <<job, ledger>>
  BY <1>1, <1>4, Invisible
<1>5. QED
  BY <1>2, <1>3, <1>4 DEF RecoverProviderCheckpoint

LEMMA UnbilledAccount ==
    ASSUME IInv, NEW w \in Workers,
           NoAnalyzableData(w) \/ InputLimitExceeded(w) \/ InsufficientTokens(w)
    PROVE  AccountStep
<1>1. /\ inv[w].pc # "idle" /\ MyRow(w).status = "RUNNING"
      /\ answered' = answered
  BY DEF NoAnalyzableData, InputLimitExceeded, InsufficientTokens, Holds, provider
<1>2. PICK c \in FailureCode : TerminateUnbilled(w, c)
  BY DEF NoAnalyzableData, InputLimitExceeded, InsufficientTokens, FailureCode
<1>3. QED
  BY <1>1, <1>2, TerminateUnbilledAccount

LEMMA EnsureReservationAccount ==
    ASSUME IInv, NEW w \in Workers, NEW n \in ReserveSizes, EnsureReservation(w, n)
    PROVE  AccountStep
<1>1. /\ inv[w].pc # "idle" /\ MyRow(w).status = "RUNNING"
      /\ answered' = answered
  BY DEF EnsureReservation, Holds, provider
<1>2. CASE UNCHANGED <<job, ledger>>
  BY <1>1, <1>2, Invisible
<1>3. CASE TerminateUnbilled(w, "TOKEN_BUDGET_EXCEEDED")
  BY <1>1, <1>3, TerminateUnbilledAccount
<1>4. QED
  BY <1>2, <1>3 DEF EnsureReservation

LEMMA ReserveTokensAccount ==
    ASSUME IInv, NEW w \in Workers, NEW seen \in BOOLEAN, ReserveTokens(w, seen)
    PROVE  AccountStep
<1> DEFINE n == inv[w].need
           r == ReservedRow(MyRow(w), n)
<1>1. /\ J(w) \in Jobs /\ MyRow(w) = job[J(w)] /\ MyRow(w) \in Row
      /\ inv[w] \in Invocation /\ availableTokens[OwnerOf[J(w)]] \in Nat
  BY Mine DEF ReserveTokens
<1>2. /\ MyRow(w).status = "RUNNING" /\ MyRow(w).reserved = NULL
      /\ Write(J(w), r) /\ Debit(J(w), n) /\ answered' = answered
      /\ availableTokens[OwnerOf[J(w)]] >= n
  BY DEF ReserveTokens, ReserveFence, Holds, provider
<1>3. n \in Nat /\ n # NULL
  BY <1>1, NullAssumption DEF Invocation
<1>4. n <= availableTokens[OwnerOf[J(w)]]
  BY <1>1, <1>2, <1>3
<1>5. r.status = "RUNNING" /\ r.reserved # NULL
  BY <1>1, <1>2, <1>3 DEF ReservedRow, Row
<1> HIDE DEF r, n
<1>6. QED
  BY <1>1, <1>2, <1>3, <1>4, <1>5, ReserveWrite DEF Active

LEMMA ProviderFailsAccount ==
    ASSUME IInv, NEW w \in Workers, NEW y \in BOOLEAN, ProviderFails(w, y)
    PROVE  AccountStep
<1> DEFINE F == IsSync(w) /\ TransitionFence(MyRow(w), w, inv[w].reserved)
<1>1. inv[w].pc # "idle" /\ answered' = answered
  BY DEF ProviderFails, provider
<1>2. CASE F
  <2>1. MyRow(w).status = "RUNNING" /\ TerminateUnbilled(w, "ANALYSIS_FAILED")
    BY <1>2 DEF ProviderFails, TransitionFence, Holds
  <2>2. QED
    BY <1>1, <2>1, TerminateUnbilledAccount
<1>3. CASE ~F
  BY <1>1, <1>3, Invisible DEF ProviderFails
<1>4. QED
  BY <1>2, <1>3

LEMMA SaveResultAccount ==
    ASSUME IInv, NEW w \in Workers, NEW seen \in BOOLEAN, SaveResult(w, seen)
    PROVE  AccountStep
<1> DEFINE F == TransitionFence(MyRow(w), w, inv[w].reserved) /\ J(w) \notin reports
           u == inv[w].usage
           m == inv[w].reserved
           r == SucceededRow(MyRow(w), u)
<1>1. /\ inv[w].pc = "save" /\ J(w) \in Jobs /\ MyRow(w) = job[J(w)]
      /\ MyRow(w) \in Row /\ held[J(w)] = LedgerCharge(MyRow(w))
      /\ availableTokens[OwnerOf[J(w)]] \in Nat
      /\ InvocationInv(inv[w], answered) /\ answered' = answered
  BY Mine DEF SaveResult, provider
<1>2. m \in Nat /\ u \in Nat /\ u <= m /\ J(w) \in answered /\ m # NULL
  BY <1>1, NullAssumption DEF InvocationInv, J
<1>3. CASE F
  <2>1. /\ MyRow(w).status \in Active /\ MyRow(w).reserved = m
        /\ ~MyRow(w).settled
    BY <1>3 DEF TransitionFence, Holds, Active
  <2>2. Write(J(w), r) /\ Debit(J(w), u - m)
    BY <1>3 DEF SaveResult
  <2>3. r.status \in Terminal /\ r.settled
    BY <1>1 DEF SucceededRow, Row, Terminal
  <2>4. held[J(w)] = m
    BY <1>1, <1>2, <2>1 DEF LedgerCharge, OrZero
  <2>5. /\ u - m \in Int /\ u - m <= availableTokens[OwnerOf[J(w)]]
        /\ held[J(w)] + (u - m) = u
    BY <1>1, <1>2, <2>4
  <2> HIDE DEF r
  <2>6. QED
    BY <1>1, <1>2, <2>1, <2>2, <2>3, <2>5, SettleWrite
<1>4. CASE ~F
  BY <1>1, <1>4, Invisible DEF SaveResult
<1>5. QED
  BY <1>3, <1>4

LEMMA ReconcileAccount ==
    ASSUME IInv, NEW w \in Workers, Reconcile(w)
    PROVE  AccountStep
<1>1. /\ inv[w].pc = "reconcile" /\ answered' = answered
      /\ inv[w] \in Invocation /\ InvocationInv(inv[w], answered)
  BY Mine DEF Reconcile, provider
<1>2. CASE TransitionFence(MyRow(w), w, inv[w].reserved)
  <2>1. MyRow(w).status = "RUNNING" /\ inv[w].reserved = MyRow(w).reserved
    BY <1>2 DEF TransitionFence, Holds
  <2>2. /\ inv[w].reserved # NULL /\ J(w) \in answered
        /\ inv[w].usage \in Nat \cup {NULL}
    BY <1>1, NullAssumption DEF InvocationInv, Invocation, J
  <2>3. TerminateProviderReconciliation(w, inv[w].reserved, inv[w].id,
                                        inv[w].usage)
    BY <1>2 DEF Reconcile
  <2>4. QED
    BY <1>1, <2>1, <2>2, <2>3, TerminateProviderReconciliationAccount
<1>3. CASE ~TransitionFence(MyRow(w), w, inv[w].reserved)
  BY <1>1, <1>3, Invisible DEF Reconcile
<1>4. QED
  BY <1>2, <1>3

LEMMA HandleClaimedFailureAccount ==
    ASSUME IInv, NEW w \in Workers, HandleClaimedFailure(w)
    PROVE  AccountStep
<1> DEFINE again == inv[w].retry /\ inv[w].attempts < MaxAttempts /\ ~inv[w].last
           r == ReleasedRow(MyRow(w))
<1>1. /\ J(w) \in Jobs /\ MyRow(w) = job[J(w)] /\ MyRow(w) \in Row
      /\ answered' = answered
  BY Mine DEF HandleClaimedFailure, provider
<1>2. CASE again /\ ReleaseFence(MyRow(w), w)
  <2>1. MyRow(w).status \in Active /\ Write(J(w), r) /\ UNCHANGED ledger
    BY <1>2 DEF HandleClaimedFailure, ReleaseFence, Holds, Active
  <2>2. r.status \in Active /\ r.reserved = MyRow(w).reserved
    BY <1>1 DEF ReleasedRow, Row, Active
  <2> HIDE DEF r
  <2>3. QED
    BY <1>1, <2>1, <2>2, InvisibleWrite
<1>3. CASE again /\ ~ReleaseFence(MyRow(w), w)
  BY <1>1, <1>3, Invisible DEF HandleClaimedFailure
<1>4. CASE ~again
  <2>1. \E c \in FailureCode :
           SettleFailure(J(w), "RUNNING", w, c, inv[w].retry)
    BY <1>4 DEF HandleClaimedFailure, FailureCode
  <2>2. "RUNNING" \in Active
    BY DEF Active
  <2>3. QED
    BY <1>1, <2>1, <2>2, SettleFailureAccount
<1>5. QED
  BY <1>2, <1>3, <1>4

-----------------------------------------------------------------------------
(* Opening an account, and closing the abandoned ones of the repository. *)

LEMMA RecoveredAccount ==
    ASSUME NEW r \in Row, r.status \in Active, ~r.settled
    PROVE  AccountOf(RecoveredRow(r)) =
              IF AccountOf(r) = "open" THEN "settled" ELSE "quarantined"
<1> DEFINE s == RecoveredRow(r)
<1>1. s.status = "FAILED" /\ (s.settled <=> r.reserved = NULL)
  BY DEF RecoveredRow, Row
<1>2. AccountOf(s) = IF r.reserved = NULL THEN "settled" ELSE "quarantined"
  BY <1>1 DEF AccountOf, Active, Terminal
<1>3. AccountOf(r) = IF r.reserved = NULL THEN "open" ELSE "reserved"
  BY DEF AccountOf, Active, Terminal
<1>4. QED
  BY <1>2, <1>3

LEMMA CreateExclusiveAccount ==
    ASSUME IInv, NEW j \in Jobs, job[j].status = "ABSENT",
           NEW b, NEW c, CreateExclusive(j, b, c),
           answered' = answered, UNCHANGED ledger
    PROVE  AccountStep
<1> DEFINE stale(k) == RepoOf[k] = RepoOf[j] /\ IsStale(job[k], k \in SyncJobs)
           abandoned == {k \in Jobs : stale(k)}
           opened(k) == CASE k = j -> "open"
                          [] k \in abandoned /\ k # j ->
                                IF AccountState[k] = "open" THEN "settled"
                                ELSE "quarantined"
                          [] OTHER -> AccountState[k]
<1>1. \A k \in Jobs : job[k] \in Row /\ AccountState[k] = AccountOf(job[k])
  BY DEF IInv, RowsOK, AccountState
<1>2. \A k \in abandoned : job[k].status \in Active /\ ~job[k].settled
  BY DEF IsStale, Active
<1>3. AccountState[j] = "none"
  BY <1>1 DEF AccountOf, Active, Terminal
<1>4. \A k \in abandoned : AccountState[k] \in {"open", "reserved"}
  BY <1>1, <1>2 DEF AccountOf, Active, Terminal
<1>5. \A k \in Jobs : AccountState'[k] = opened(k)
  <2> TAKE k \in Jobs
  <2>1. AccountState'[k] = AccountOf(job'[k])
    BY DEF AccountState
  <2>2. CASE k = j
    <3>1. job'[k] = CreatedRow(b, c)
      BY <2>2 DEF CreateExclusive, Recovered
    <3>2. CreatedRow(b, c).status = "QUEUED" /\ CreatedRow(b, c).reserved = NULL
      BY DEF CreatedRow, NoRow
    <3>3. AccountOf(CreatedRow(b, c)) = "open"
      BY <3>2 DEF AccountOf, Active, Terminal
    <3>4. QED
      BY <2>1, <2>2, <3>1, <3>3
  <2>3. CASE k # j /\ k \in abandoned
    <3>1. job'[k] = RecoveredRow(job[k])
      BY <2>3 DEF CreateExclusive, Recovered
    <3>2. AccountOf(RecoveredRow(job[k])) =
             IF AccountState[k] = "open" THEN "settled" ELSE "quarantined"
      BY <1>1, <1>2, <2>3, RecoveredAccount
    <3>3. QED
      BY <2>1, <2>3, <3>1, <3>2
  <2>4. CASE k # j /\ k \notin abandoned
    <3>1. job'[k] = job[k]
      BY <2>4 DEF CreateExclusive, Recovered
    <3>2. QED
      BY <1>1, <2>1, <2>4, <3>1
  <2>5. QED
    BY <2>2, <2>3, <2>4
<1>6. AccountState' = [k \in Jobs |-> opened(k)]
  BY <1>5 DEF AccountState
<1>7. Account!Open(j, abandoned)
  BY <1>3, <1>4, <1>6 DEF Account!Open, ledger
<1>8. abandoned \in SUBSET Jobs
  OBVIOUS
<1>9. QED
  BY <1>7, <1>8 DEF AccountStep, Account!Next

LEMMA AcceptJobAccount ==
    ASSUME IInv, NEW j \in Jobs, AcceptJob(j)
    PROVE  AccountStep
<1>1. /\ \E win \in CollectionWindows(j) :
            CreateExclusive(j, win.cursor, win.cutoff)
      /\ job[j].status = "ABSENT" /\ answered' = answered /\ UNCHANGED ledger
  BY DEF AcceptJob, provider
<1>2. QED
  BY <1>1, CreateExclusiveAccount

LEMMA SyncCreateAccount ==
    ASSUME IInv, NEW w \in Workers, SyncCreate(w)
    PROVE  AccountStep
<1>1. /\ J(w) \in Jobs /\ job[J(w)].status = "ABSENT"
      /\ answered' = answered /\ UNCHANGED ledger
  BY Mine DEF SyncCreate, provider
<1>2. CASE \E c \in 1..MaxInstant : CreateExclusive(J(w), 0, c)
  BY <1>1, <1>2, CreateExclusiveAccount
<1>3. CASE UNCHANGED job
  BY <1>1, <1>3, Invisible
<1>4. QED
  BY <1>2, <1>3 DEF SyncCreate

-----------------------------------------------------------------------------
(* The refinement. *)

LEMMA QuietAccount ==
    ASSUME IInv, NEW w \in Workers,
           \/ LostLease(w) \/ LostLeaseWhileSaving(w) \/ CallProvider(w)
           \/ Crash(w)
           \/ \E y \in BOOLEAN : RunFails(w, y) \/ DatabaseFails(w, y)
           \/ \E j \in Jobs : SyncCollect(w, j)
           \/ \E j \in Jobs, last \in BOOLEAN : Deliver(w, j, last)
    PROVE  AccountStep
<1>1. UNCHANGED <<job, ledger>> /\ answered' = answered
  BY DEF LostLease, LostLeaseWhileSaving, CallProvider, Crash, RunFails,
         DatabaseFails, SyncCollect, Deliver, provider
<1>2. QED
  BY <1>1, Invisible

LEMMA ProviderAnswersAccount ==
    ASSUME IInv, NEW w \in Workers, NEW id, NEW u, NEW ok,
           ProviderAnswers(w, id, u, ok)
    PROVE  AccountStep
<1>1. J(w) \in Jobs
  BY Mine DEF ProviderAnswers
<1>2. UNCHANGED <<job, ledger>> /\ answered' = answered \cup {J(w)}
  BY DEF ProviderAnswers
<1>3. QED
  BY <1>1, <1>2, Invisible

LEMMA StepAccount ==
    ASSUME IInv, NEW w \in Workers, Step(w)
    PROVE  AccountStep
<1>1. CASE SyncCreate(w) \/ SyncStart(w)
  BY <1>1, SyncCreateAccount, SyncStartAccount
<1>2. CASE \/ ClaimQueued(w) \/ TakeOverExpiredLease(w)
           \/ TakeOverExpiredBilledLease(w) \/ FinalizeClaimLimit(w)
  BY <1>2, ClaimQueuedAccount, TakeOverExpiredLeaseAccount,
     TakeOverExpiredBilledLeaseAccount, SettleFailureSteps
<1>3. CASE \/ LostLease(w) \/ CallProvider(w) \/ LostLeaseWhileSaving(w)
           \/ \E y \in BOOLEAN : RunFails(w, y)
  BY <1>3, QuietAccount
<1>4. CASE RecoverProviderCheckpoint(w)
  BY <1>4, RecoverProviderCheckpointAccount
<1>5. CASE CollectionDone(w) \/ OnTokensReserved(w) \/ OnSaving(w)
  BY <1>5, ProgressAccount
<1>6. CASE NoAnalyzableData(w) \/ InputLimitExceeded(w) \/ InsufficientTokens(w)
  BY <1>6, UnbilledAccount
<1>7. CASE \/ \E n \in ReserveSizes : EnsureReservation(w, n)
           \/ ReserveTokens(w, TRUE)
  BY <1>7, EnsureReservationAccount, ReserveTokensAccount
<1>8. CASE \/ \E id, ok \in BOOLEAN, u \in UsageSizes \cup {NULL} :
                 ProviderAnswers(w, id, u, ok)
           \/ \E y \in BOOLEAN : ProviderFails(w, y)
  BY <1>8, ProviderAnswersAccount, ProviderFailsAccount
<1>9. CASE RecordProviderCharge(w, TRUE) \/ SaveResult(w, TRUE)
  BY <1>9, RecordProviderChargeAccount, SaveResultAccount
<1>10. CASE Reconcile(w) \/ HandleClaimedFailure(w)
  BY <1>10, ReconcileAccount, HandleClaimedFailureAccount
<1>11. QED
  BY <1>1, <1>2, <1>3, <1>4, <1>5, <1>6, <1>7, <1>8, <1>9, <1>10 DEF Step

LEMMA EnvironmentAccount ==
    ASSUME IInv, NEW w \in Workers, Environment(w)
    PROVE  AccountStep
<1>1. CASE \/ Crash(w) \/ \E j \in Jobs : SyncCollect(w, j)
           \/ \E y \in BOOLEAN : DatabaseFails(w, y)
  BY <1>1, QuietAccount
<1>2. CASE CollectionHeartbeat(w)
  BY <1>2, ProgressAccount
<1>3. CASE \/ ReserveTokens(w, FALSE) \/ RecordProviderCharge(w, FALSE)
           \/ SaveResult(w, FALSE)
  BY <1>3, ReserveTokensAccount, RecordProviderChargeAccount, SaveResultAccount
<1>4. QED
  BY <1>1, <1>2, <1>3 DEF Environment

LEMMA NextAccount == IInv /\ [Next]_vars => AccountStep
<1> SUFFICES ASSUME IInv, [Next]_vars PROVE AccountStep
  OBVIOUS
<1>1. CASE \E w \in Workers : Step(w) \/ Environment(w)
  BY <1>1, StepAccount, EnvironmentAccount
<1>2. CASE \E w \in Workers, j \in Jobs, last \in BOOLEAN : Deliver(w, j, last)
  BY <1>2, QuietAccount
<1>3. CASE \E j \in Jobs : AcceptJob(j) \/ FailQueuedInvalidMessage(j)
  BY <1>3, AcceptJobAccount, SettleFailureSteps
<1>4. CASE \E j \in Jobs : LeaseExpires(j) \/ RetryFallsDue(j)
  BY <1>4, DeadlineAccount
<1>5. CASE UNCHANGED vars
  BY <1>5, Invisible DEF vars, ledger
<1>6. QED
  BY <1>1, <1>2, <1>3, <1>4, <1>5 DEF Next

(* Whatever crashes, expires, is delivered twice or answered late, a job   *)
(* takes one reservation from its owner, is closed once, and costs more    *)
(* than zero only for an answer of the provider: the worker, the runner,   *)
(* the synchronous path and stale recovery together implement TokenAccount. *)
THEOREM AccountImplemented == Spec => ImplementsAccount
<1>1. Init => Account!Init
  BY DEF Init, Account!Init, AccountState, AccountOf, NoRow, Active, Terminal
<1>2. IInv /\ [Next]_vars => [Account!Next]_(Account!vars)
  BY NextAccount DEF AccountStep
<1>3. QED
  BY <1>1, <1>2, Invariance, PTL DEF Spec, ImplementsAccount, Account!Spec
=============================================================================
