---------------------------- MODULE TokenAccount ----------------------------
(***************************************************************************)
(* What the job ledger promises a user, without leases, attempts, messages *)
(* or crashes: a job opens an account, may take one reservation from the   *)
(* balance, and is closed once, either settled at a charge or quarantined  *)
(* with the reservation kept for an operator.  A charge other than zero    *)
(* needs an answer of the provider.                                        *)
(***************************************************************************)
EXTENDS Integers

CONSTANTS Jobs, Users, OwnerOf, InitialTokens

VARIABLES
    balance,   \* user -> tokens left
    state,     \* job -> state of its account
    paid,      \* job -> tokens taken from its owner
    answers    \* jobs the provider has answered

vars == <<balance, state, paid, answers>>

States == {"none", "open", "reserved", "settled", "quarantined"}

Init ==
    /\ balance = [u \in Users |-> InitialTokens]
    /\ state = [j \in Jobs |-> "none"]
    /\ paid = [j \in Jobs |-> 0]
    /\ answers = {}

(* Opening j closes the abandoned accounts of its repository: one without  *)
(* a reservation at zero, one with a reservation in quarantine.            *)
Open(j, abandoned) ==
    /\ state[j] = "none"
    /\ \A k \in abandoned : state[k] \in {"open", "reserved"}
    /\ state' = [k \in Jobs |->
                   CASE k = j -> "open"
                     [] k \in abandoned /\ k # j ->
                           IF state[k] = "open" THEN "settled" ELSE "quarantined"
                     [] OTHER -> state[k]]
    /\ UNCHANGED <<balance, paid, answers>>

(* n at most the balance. *)
Reserve(j, n) ==
    /\ state[j] = "open"
    /\ state' = [state EXCEPT ![j] = "reserved"]
    /\ balance' = [balance EXCEPT ![OwnerOf[j]] = @ - n]
    /\ paid' = [paid EXCEPT ![j] = n]
    /\ UNCHANGED answers

Answer(j) ==
    /\ answers' = answers \cup {j}
    /\ UNCHANGED <<balance, state, paid>>

(* charge at most the reservation and the balance together.                *)
Settle(j, charge) ==
    /\ state[j] \in {"open", "reserved"}
    /\ charge # 0 => j \in answers /\ state[j] = "reserved"
    /\ state' = [state EXCEPT ![j] = "settled"]
    /\ balance' = [balance EXCEPT ![OwnerOf[j]] = @ - (charge - paid[j])]
    /\ paid' = [paid EXCEPT ![j] = charge]
    /\ UNCHANGED answers

Quarantine(j) ==
    /\ state[j] = "reserved"
    /\ state' = [state EXCEPT ![j] = "quarantined"]
    /\ UNCHANGED <<balance, paid, answers>>

Next ==
    \E j \in Jobs :
       \/ \E abandoned \in SUBSET Jobs : Open(j, abandoned)
       \/ \E n \in 0..balance[OwnerOf[j]] : Reserve(j, n)
       \/ \E c \in 0..(balance[OwnerOf[j]] + paid[j]) : Settle(j, c)
       \/ Answer(j) \/ Quarantine(j)

Spec == Init /\ [][Next]_vars
=============================================================================
