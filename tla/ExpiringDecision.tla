---------------------------- MODULE ExpiringDecision ----------------------------
(***************************************************************************)
(* Decisions with a deadline.  A decision is answered before its deadline  *)
(* or gets its declared default after it; it may be cancelled or replaced  *)
(* meanwhile, its deadline may be moved, and records are saved and loaded. *)
(* Each producer's decisions keep to one of several clocks.                *)
(*                                                                         *)
(* A caller tells the time, and it is the time of the clock it names.      *)
(* Labels, routes of actions and the references of who cancelled or        *)
(* replaced a decision are left out; records of unknown versions or with   *)
(* malformed fields, which a load drops, are not generated.                *)
(***************************************************************************)
EXTENDS Integers

CONSTANTS
    Decisions,
    Producers,     \* producerDomain with what it declares
    Clocks,
    ClockOf,       \* clockDomain of a producer's decisions
    OptionsOf,     \* options of a producer's decisions
    DefaultOf,     \* defaultOptionId, or NoOption
    ContractOf,    \* defaultResolution.contract
    LetterProducers,   \* producers whose domain is correspondence_window
    NoOption, NoTime,
    MaxTime        \* bound of the model

Contracts == {"expire_without_action", "maintain_status_quo", "decline",
              "continue_current_state", "named_domain_action"}

\* validateDefaultContract: a named action has a declared option.
ASSUME DecisionAssumption ==
    /\ ClockOf \in [Producers -> Clocks]
    /\ ContractOf \in [Producers -> Contracts]
    /\ LetterProducers \subseteq Producers
    /\ \A p \in Producers :
        /\ OptionsOf[p] # {} /\ NoOption \notin OptionsOf[p]
        /\ DefaultOf[p] \in OptionsOf[p] \cup {NoOption}
        /\ ContractOf[p] = "named_domain_action" => DefaultOf[p] # NoOption
    /\ NoTime \notin Nat /\ MaxTime \in Nat

VARIABLES
    clock,      \* the authoritative time of each clock
    record,     \* the record of each decision, or that there is none
    effects     \* how often the default of a decision was sent to its owner

vars == <<clock, record, effects>>

Explicit == {"explicit_selection", "explicit_refusal"}
Timeouts == {"timeout_default", "async_delivery_timeout"}
Terminal == {"explicitly_resolved", "expired", "default_resolved", "canceled", "superseded"}

None == [state |-> "none"]
Known == {d \in Decisions : record[d].state # "none"}
Open(d) == record[d].state = "open"

Time(d) == clock[ClockOf[record[d].by]]

\* Letters of an earlier version that expired and were stored as refused.
Legacy ==
    {[by |-> p, createdAt |-> 0, expiresAt |-> 0, state |-> "explicitly_resolved",
      selected |-> NoOption, resolvedAt |-> 0, provenance |-> "explicit_refusal",
      once |-> FALSE, misclassified |-> TRUE, repaired |-> FALSE] : p \in LetterProducers}

Init ==
    /\ clock = [c \in Clocks |-> 0]
    /\ record \in [Decisions -> {None} \cup Legacy]
    /\ effects = [d \in Decisions |-> 0]

-----------------------------------------------------------------------------

\* createExpiringDecision
Create(d, p, deadline) ==
    /\ record[d] = None
    /\ deadline >= clock[ClockOf[p]]
    /\ record' = [record EXCEPT ![d] =
           [by |-> p, createdAt |-> clock[ClockOf[p]], expiresAt |-> deadline,
            state |-> "open", selected |-> NoOption, resolvedAt |-> NoTime,
            provenance |-> "none", once |-> FALSE, misclassified |-> FALSE,
            repaired |-> FALSE]]
    /\ UNCHANGED <<clock, effects>>

\* Mutant: an answer counts as long as no timeout was processed.
UntilProcessed(d) == Open(d)

\* An answer or a new deadline is taken only before the deadline.
InTime(d) == Open(d) /\ Time(d) < record[d].expiresAt

Ended(d, state, provenance) ==
    [record[d] EXCEPT !.state = state, !.provenance = provenance, !.resolvedAt = Time(d)]

\* resolveExplicitly, and attemptLateResponse before it is late.
ResolveExplicitly(d, option) ==
    /\ InTime(d)
    /\ option \in OptionsOf[record[d].by]
    /\ record' = [record EXCEPT ![d] =
           [Ended(d, "explicitly_resolved", "explicit_selection") EXCEPT !.selected = option]]
    /\ UNCHANGED <<clock, effects>>

RefuseExplicitly(d) ==
    /\ InTime(d)
    /\ record' = [record EXCEPT ![d] = Ended(d, "explicitly_resolved", "explicit_refusal")]
    /\ UNCHANGED <<clock, effects>>

\* shiftDeadline: also to a time that has passed.
ShiftDeadline(d, c, deadline) ==
    /\ InTime(d)
    /\ c = ClockOf[record[d].by]
    /\ deadline >= record[d].createdAt
    /\ record' = [record EXCEPT ![d].expiresAt = deadline]
    /\ UNCHANGED <<clock, effects>>

\* cancelDecision and supersedeDecision do not look at the deadline.
Cancel(d) ==
    /\ Open(d)
    /\ record' = [record EXCEPT ![d] = Ended(d, "canceled", "canceled")]
    /\ UNCHANGED <<clock, effects>>

Supersede(d) ==
    /\ Open(d)
    /\ record' = [record EXCEPT ![d] = Ended(d, "superseded", "superseded")]
    /\ UNCHANGED <<clock, effects>>

\* Mutant: to continue the current state leaves the decision open.
LeftOpen(contract) == IF contract \in {"decline", "named_domain_action"}
                      THEN "default_resolved" ELSE "open"

TerminalStateForTimeout(contract) ==
    IF contract \in {"decline", "named_domain_action"} THEN "default_resolved" ELSE "expired"

DefaultSelection(p) ==
    IF ContractOf[p] \in {"decline", "named_domain_action"} THEN DefaultOf[p] ELSE NoOption

\* Mutant: whatever is past its deadline gets the default.
DueAgain(d, c) ==
    d \in Known /\ c = ClockOf[record[d].by] /\ clock[c] >= record[d].expiresAt

Due(d, c) ==
    /\ Open(d) /\ ~record[d].once
    /\ c = ClockOf[record[d].by]
    /\ clock[c] >= record[d].expiresAt

\* resolveTimeoutIfDue; cause says if an answer could not be delivered.
ResolveTimeout(d, c, cause) ==
    /\ Due(d, c)
    /\ LET p == record[d].by
       IN  record' = [record EXCEPT ![d] =
               [@ EXCEPT !.state = TerminalStateForTimeout(ContractOf[p]),
                         !.provenance = cause, !.resolvedAt = clock[c], !.once = TRUE,
                         !.selected = DefaultSelection(p)]]
    /\ effects' = [effects EXCEPT ![d] = @ + 1]
    /\ UNCHANGED clock

\* Mutant: every refusal of a letter is taken for a misclassified timeout.
AnyRefusal(r) ==
    r.by \in LetterProducers /\ r.provenance = "explicit_refusal" /\ ~r.repaired

\* applyCorrespondenceMisclassificationRepair
Misclassified(r) ==
    /\ ~r.repaired
    /\ r.by \in LetterProducers
    /\ r.misclassified
    /\ r.provenance = "explicit_refusal"

Repaired(r) ==
    IF Misclassified(r)
    THEN [r EXCEPT !.state = TerminalStateForTimeout(ContractOf[r.by]),
                   !.provenance = "timeout_default", !.once = TRUE,
                   !.selected = NoOption, !.repaired = TRUE]
    ELSE r

\* hydrateExpiringDecisionRecord drops a record that contradicts itself.
Consistent(r) ==
    /\ r.selected \in OptionsOf[r.by] \cup {NoOption}
    /\ ~(r.state = "open" /\ r.once)
    /\ r.state \in Terminal => r.provenance # "none"

Hydrated(r) == IF Consistent(r) THEN Repaired(r) ELSE None

\* The game is saved and loaded.
Reload ==
    /\ record' = [d \in Decisions |-> IF d \in Known THEN Hydrated(record[d]) ELSE None]
    /\ UNCHANGED <<clock, effects>>

\* projectTerminalProvenanceForDuty
DutyKind(d) ==
    IF Open(d) THEN "actionable"
    ELSE IF record[d].provenance \in {"explicit_refusal", "canceled", "superseded"}
         THEN record[d].provenance
         ELSE "expired"

Tick(c) ==
    /\ clock[c] < MaxTime
    /\ clock' = [clock EXCEPT ![c] = @ + 1]
    /\ UNCHANGED <<record, effects>>

Next ==
    \/ \E d \in Decisions :
        \/ \E p \in Producers, t \in 0..MaxTime : Create(d, p, t)
        \/ \E p \in Producers : \E option \in OptionsOf[p] : ResolveExplicitly(d, option)
        \/ RefuseExplicitly(d) \/ Cancel(d) \/ Supersede(d)
        \/ \E c \in Clocks :
            \/ \E t \in 0..MaxTime : ShiftDeadline(d, c, t)
            \/ \E cause \in Timeouts : ResolveTimeout(d, c, cause)
    \/ Reload
    \/ \E c \in Clocks : Tick(c)

Spec == Init /\ [][Next]_vars

-----------------------------------------------------------------------------

Record ==
    [by : Producers, createdAt : Nat, expiresAt : Nat, state : Terminal \cup {"open"},
     selected : (UNION {OptionsOf[p] : p \in Producers}) \cup {NoOption},
     resolvedAt : Nat \cup {NoTime},
     provenance : Explicit \cup Timeouts \cup {"canceled", "superseded", "none"},
     once : BOOLEAN, misclassified : BOOLEAN, repaired : BOOLEAN]

TypeOK ==
    /\ clock \in [Clocks -> Nat]
    /\ record \in [Decisions -> Record \cup {None}]
    /\ effects \in [Decisions -> Nat]
    /\ \A d \in Known : Open(d) <=> record[d].resolvedAt = NoTime

\* The default of a decision reaches its owner once if it timed out, and never
\* otherwise: not after an answer, nor for a repaired record (resolveTimeoutIfDue).
DefaultOnce ==
    \A d \in Known :
        effects[d] = IF record[d].once /\ ~record[d].repaired THEN 1 ELSE 0

\* Answers came before the deadline that held, defaults not before it, although
\* deadlines move and late answers race the processing of the timeout
\* (resolveExplicitly, shiftDeadline); and duties count as refused only what was
\* refused in time (dutyObligationRegistry).
RightSideOfDeadline ==
    \A d \in Known :
        /\ record[d].provenance \in Explicit /\ ~record[d].misclassified =>
              record[d].resolvedAt < record[d].expiresAt
        /\ record[d].provenance \in Timeouts => record[d].resolvedAt >= record[d].expiresAt
        /\ DutyKind(d) = "explicit_refusal" =>
              record[d].misclassified \/ record[d].resolvedAt < record[d].expiresAt

\* What was decided stays decided, and nothing is lost: a decision that ended
\* only changes when a misclassified letter is put right, and then only once; and
\* every record the operations write passes the checks that a load makes
\* (hydrateExpiringDecisionRecord).
DecidedStaysDecided ==
    [][\A d \in Known :
        /\ record'[d] # None
        /\ record[d].state \in Terminal /\ record'[d] # record[d] =>
               record[d].misclassified /\ ~record[d].repaired /\ record'[d].repaired]_vars
===============================================================================
