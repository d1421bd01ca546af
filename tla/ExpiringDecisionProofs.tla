----------------------- MODULE ExpiringDecisionProofs -----------------------
(***************************************************************************)
(* Proofs about decisions with a deadline, for every set of decisions,     *)
(* producers, clocks and contracts: types, defaults, deadlines, and the    *)
(* finality of what was decided.                                           *)
(***************************************************************************)
EXTENDS ExpiringDecision, TLAPS

\* An open record has not been decided, in no respect.
Undecided(r) ==
    /\ r.resolvedAt = NoTime /\ r.provenance = "none"
    /\ ~r.once /\ ~r.misclassified /\ ~r.repaired

\* A letter stored as refused is one that expired, at its deadline, and without
\* its default having been sent.
Expired(r) ==
    /\ r.by \in LetterProducers
    /\ r.resolvedAt = r.expiresAt
    /\ r.once = r.repaired
    /\ r.provenance = (IF r.repaired THEN "timeout_default" ELSE "explicit_refusal")

\* A record that ended says how, on the right side of its deadline.
Decided(r) ==
    /\ r.resolvedAt \in Nat /\ r.provenance # "none"
    /\ r.repaired => r.misclassified
    /\ r.provenance \in Explicit /\ ~r.misclassified => r.resolvedAt < r.expiresAt
    /\ r.provenance \in Timeouts => r.resolvedAt >= r.expiresAt
    /\ r.misclassified => Expired(r)

\* A record r whose default was sent n times.
Sound(r, n) ==
    \/ r = None /\ n = 0
    \/ /\ r \in Record
       /\ r.selected \in OptionsOf[r.by] \cup {NoOption}
       /\ IF r.state = "open" THEN Undecided(r) ELSE Decided(r)
       /\ n = IF r.once /\ ~r.repaired THEN 1 ELSE 0

IInv ==
    /\ clock \in [Clocks -> Nat]
    /\ effects \in [Decisions -> Nat]
    /\ record \in [Decisions -> Record \cup {None}]
    /\ \A d \in Decisions : Sound(record[d], effects[d])

-----------------------------------------------------------------------------

\* A record is never the one that says there is none.
LEMMA RecordExists ==
    /\ \A r \in Record : r.state # "none" /\ r # None
    /\ \A d \in Decisions : record \in [Decisions -> Record \cup {None}] =>
            (d \in Known <=> record[d] \in Record)
  BY DEF Record, Terminal, None, Known

\* What an open record says.
LEMMA OpenRecord ==
    ASSUME IInv, NEW d \in Decisions, Open(d)
    PROVE  /\ record[d] \in Record
           /\ Undecided(record[d])
           /\ record[d].selected \in OptionsOf[record[d].by] \cup {NoOption}
           /\ effects[d] = 0
           /\ Time(d) \in Nat
<1>1. record[d] # None
  BY DEF Open, None
<1>2. record[d] \in Record /\ Undecided(record[d]) /\ effects[d] = 0
      /\ record[d].selected \in OptionsOf[record[d].by] \cup {NoOption}
  BY <1>1 DEF IInv, Sound, Open, Undecided
<1>3. record[d].by \in Producers
  BY <1>2 DEF Record
<1> QED BY <1>2, <1>3, DecisionAssumption DEF Time, IInv

\* A step that rewrites one record soundly keeps the invariant.
LEMMA OneRecord ==
    ASSUME IInv, NEW d \in Decisions, NEW r, NEW n \in Nat,
           record' = [record EXCEPT ![d] = r],
           effects' = [effects EXCEPT ![d] = n],
           UNCHANGED clock,
           r \in Record, Sound(r, n)
    PROVE  IInv' /\ record'[d] \in Record
  BY DEF IInv

\* An open decision that ends with an answer or a withdrawal.
LEMMA EndedSound ==
    ASSUME IInv, NEW d \in Decisions, Open(d),
           NEW state \in Terminal, NEW provenance \in Explicit \cup {"canceled", "superseded"},
           NEW option \in OptionsOf[record[d].by] \cup {NoOption},
           provenance \in Explicit => InTime(d)
    PROVE  LET r == [Ended(d, state, provenance) EXCEPT !.selected = option]
           IN  r \in Record /\ Sound(r, 0)
<1> DEFINE q == record[d]
           r == [Ended(d, state, provenance) EXCEPT !.selected = option]
<1>1. q \in Record /\ Undecided(q) /\ Time(d) \in Nat
  BY OpenRecord
<1>2. r = [q EXCEPT !.state = state, !.provenance = provenance, !.resolvedAt = Time(d),
                    !.selected = option]
  BY DEF Ended
<1>3. /\ r.state = state /\ r.provenance = provenance /\ r.resolvedAt = Time(d)
      /\ r.selected = option /\ r.by = q.by /\ r.expiresAt = q.expiresAt
      /\ r.once = q.once /\ r.misclassified = q.misclassified /\ r.repaired = q.repaired
  BY <1>1, <1>2 DEF Record
<1>4. r \in Record
  <2>1. q.by \in Producers
    BY <1>1 DEF Record
  <2>2. option \in (UNION {OptionsOf[p] : p \in Producers}) \cup {NoOption}
    BY <2>1
  <2> QED BY <1>1, <1>2, <2>2 DEF Record
<1>5. Decided(r)
  BY <1>1, <1>3 DEF Decided, Undecided, InTime, Explicit, Timeouts
<1>6. state # "open"
  BY DEF Terminal
<1> QED BY <1>1, <1>3, <1>4, <1>5, <1>6 DEF Sound, Undecided

\* Without an option the record ends with the one it had.
LEMMA EndedPlainSound ==
    ASSUME IInv, NEW d \in Decisions, Open(d),
           NEW state \in Terminal, NEW provenance \in Explicit \cup {"canceled", "superseded"},
           provenance \in Explicit => InTime(d)
    PROVE  LET r == Ended(d, state, provenance) IN r \in Record /\ Sound(r, 0)
<1> DEFINE option == record[d].selected
           r == [Ended(d, state, provenance) EXCEPT !.selected = option]
<1>1. r \in Record /\ Sound(r, 0)
  BY OpenRecord, EndedSound
<1>2. r = Ended(d, state, provenance)
  BY OpenRecord DEF Ended, Record
<1> QED BY <1>1, <1>2

-----------------------------------------------------------------------------

LEMMA CreateKeeps ==
    ASSUME IInv, NEW d \in Decisions, NEW p \in Producers, NEW t \in 0 .. MaxTime,
           Create(d, p, t)
    PROVE  IInv' /\ record'[d] \in Record
<1> DEFINE r == [by |-> p, createdAt |-> clock[ClockOf[p]], expiresAt |-> t,
                 state |-> "open", selected |-> NoOption, resolvedAt |-> NoTime,
                 provenance |-> "none", once |-> FALSE, misclassified |-> FALSE,
                 repaired |-> FALSE]
<1>1. clock[ClockOf[p]] \in Nat
  BY DecisionAssumption DEF IInv
<1>2. r \in Record
  BY <1>1, DecisionAssumption DEF Record
<1>3. effects[d] = 0
  BY RecordExists DEF Create, IInv, Sound
<1>4. Sound(r, 0)
  BY <1>2 DEF Sound, Undecided
<1>5. effects' = [effects EXCEPT ![d] = 0]
  BY <1>3 DEF Create, IInv
<1> QED BY <1>2, <1>4, <1>5, OneRecord DEF Create

LEMMA AnswerKeeps ==
    ASSUME IInv, NEW d \in Decisions,
           \/ \E p \in Producers : \E option \in OptionsOf[p] : ResolveExplicitly(d, option)
           \/ RefuseExplicitly(d)
           \/ Cancel(d)
           \/ Supersede(d)
    PROVE  IInv' /\ record'[d] \in Record
<1>1. Open(d) /\ UNCHANGED <<clock, effects>>
  BY DEF ResolveExplicitly, RefuseExplicitly, Cancel, Supersede, InTime
<1>2. effects' = [effects EXCEPT ![d] = 0]
  BY <1>1, OpenRecord DEF IInv
<1>3. ASSUME NEW option, ResolveExplicitly(d, option) PROVE IInv' /\ record'[d] \in Record
  <2> DEFINE r == [Ended(d, "explicitly_resolved", "explicit_selection") EXCEPT
                       !.selected = option]
  <2>1. r \in Record /\ Sound(r, 0)
    BY <1>1, <1>3, EndedSound DEF ResolveExplicitly, Terminal, Explicit
  <2> HIDE DEF r
  <2>2. record' = [record EXCEPT ![d] = r]
    BY <1>3 DEF ResolveExplicitly, r
  <2> QED BY <1>1, <1>2, <2>1, <2>2, OneRecord
<1>4. CASE RefuseExplicitly(d)
  <2>1. LET r == Ended(d, "explicitly_resolved", "explicit_refusal")
        IN  r \in Record /\ Sound(r, 0)
    BY <1>1, <1>4, EndedPlainSound DEF RefuseExplicitly, Terminal, Explicit
  <2> QED BY <1>1, <1>2, <1>4, <2>1, OneRecord DEF RefuseExplicitly
<1>5. CASE Cancel(d)
  <2>1. LET r == Ended(d, "canceled", "canceled") IN r \in Record /\ Sound(r, 0)
    BY <1>1, EndedPlainSound DEF Terminal, Explicit
  <2> QED BY <1>1, <1>2, <1>5, <2>1, OneRecord DEF Cancel
<1>6. CASE Supersede(d)
  <2>1. LET r == Ended(d, "superseded", "superseded") IN r \in Record /\ Sound(r, 0)
    BY <1>1, EndedPlainSound DEF Terminal, Explicit
  <2> QED BY <1>1, <1>2, <1>6, <2>1, OneRecord DEF Supersede
<1> QED BY <1>3, <1>4, <1>5, <1>6

LEMMA ShiftKeeps ==
    ASSUME IInv, NEW d \in Decisions, NEW c \in Clocks, NEW t \in 0 .. MaxTime,
           ShiftDeadline(d, c, t)
    PROVE  IInv' /\ record'[d] \in Record
<1> DEFINE q == record[d]
           r == [q EXCEPT !.expiresAt = t]
<1>1. Open(d) /\ UNCHANGED <<clock, effects>> /\ record' = [record EXCEPT ![d] = r]
  BY DEF ShiftDeadline, InTime
<1>2. q \in Record /\ Undecided(q) /\ effects[d] = 0
      /\ q.selected \in OptionsOf[q.by] \cup {NoOption}
  BY <1>1, OpenRecord
<1>3. t \in Nat
  BY DecisionAssumption
<1>4. r \in Record
  BY <1>2, <1>3 DEF Record
<1>5. Undecided(r) /\ r.state = "open" /\ r.by = q.by /\ r.selected = q.selected
  BY <1>1, <1>2 DEF Undecided, Record, Open
<1>6. Sound(r, 0)
  BY <1>2, <1>4, <1>5 DEF Sound, Undecided
<1>7. effects' = [effects EXCEPT ![d] = 0]
  BY <1>1, <1>2 DEF IInv
<1> HIDE DEF r
<1> QED BY <1>1, <1>4, <1>6, <1>7, OneRecord

LEMMA TimeoutKeeps ==
    ASSUME IInv, NEW d \in Decisions, NEW c \in Clocks, NEW cause \in Timeouts,
           ResolveTimeout(d, c, cause)
    PROVE  IInv' /\ record'[d] \in Record
<1> DEFINE q == record[d]
           p == q.by
           r == [q EXCEPT !.state = TerminalStateForTimeout(ContractOf[p]),
                          !.provenance = cause, !.resolvedAt = clock[c], !.once = TRUE,
                          !.selected = DefaultSelection(p)]
<1>1. Open(d) /\ UNCHANGED clock /\ clock[c] >= q.expiresAt
      /\ record' = [record EXCEPT ![d] = r] /\ effects' = [effects EXCEPT ![d] = effects[d] + 1]
  BY DEF ResolveTimeout, Due
<1>2. q \in Record /\ Undecided(q) /\ effects[d] = 0
  BY <1>1, OpenRecord
<1>3. p \in Producers /\ clock[c] \in Nat
  BY <1>2 DEF Record, IInv
<1>4. DefaultSelection(p) \in OptionsOf[p] \cup {NoOption}
  BY <1>3, DecisionAssumption DEF DefaultSelection
<1>5. TerminalStateForTimeout(ContractOf[p]) \in Terminal
  BY DEF TerminalStateForTimeout, Terminal
<1>6. /\ r.state = TerminalStateForTimeout(ContractOf[p]) /\ r.provenance = cause
      /\ r.resolvedAt = clock[c] /\ r.once /\ r.selected = DefaultSelection(p)
      /\ r.by = p /\ r.expiresAt = q.expiresAt
      /\ r.misclassified = q.misclassified /\ r.repaired = q.repaired
  BY <1>2 DEF Record
<1>7. r \in Record
  <2>1. DefaultSelection(p) \in (UNION {OptionsOf[s] : s \in Producers}) \cup {NoOption}
    BY <1>3, <1>4
  <2> QED BY <1>2, <1>3, <1>5, <2>1 DEF Record
<1>8. Decided(r)
  BY <1>1, <1>2, <1>3, <1>6 DEF Decided, Undecided, Timeouts, Explicit
<1>9. r.state # "open"
  BY <1>5, <1>6 DEF Terminal
<1>10. Sound(r, 1)
  BY <1>2, <1>4, <1>6, <1>7, <1>8, <1>9 DEF Sound, Undecided
<1>11. effects' = [effects EXCEPT ![d] = 1]
  BY <1>1, <1>2
<1> HIDE DEF r
<1> QED BY <1>1, <1>7, <1>10, <1>11, OneRecord

\* A load keeps every record; it repairs the misclassified letters.
LEMMA HydratedSound ==
    ASSUME NEW r \in Record, NEW n, Sound(r, n)
    PROVE  /\ Hydrated(r) = Repaired(r)
           /\ Repaired(r) \in Record
           /\ Sound(Repaired(r), n)
<1>1. /\ r.selected \in OptionsOf[r.by] \cup {NoOption}
      /\ IF r.state = "open" THEN Undecided(r) ELSE Decided(r)
      /\ n = IF r.once /\ ~r.repaired THEN 1 ELSE 0
  BY RecordExists DEF Sound
<1>2. Consistent(r)
  BY <1>1 DEF Consistent, Undecided, Decided, Terminal
<1>3. Repaired(r) \in Record /\ Sound(Repaired(r), n)
  <2>1. CASE ~Misclassified(r)
    BY <2>1 DEF Repaired
  <2>2. CASE Misclassified(r)
    <3> DEFINE s == [r EXCEPT !.state = TerminalStateForTimeout(ContractOf[r.by]),
                              !.provenance = "timeout_default", !.once = TRUE,
                              !.selected = NoOption, !.repaired = TRUE]
    <3>1. Repaired(r) = s
      BY <2>2 DEF Repaired
    <3>2. TerminalStateForTimeout(ContractOf[r.by]) \in Terminal
      BY DEF TerminalStateForTimeout, Terminal
    <3>3. s \in Record
      BY <3>2 DEF Record, Timeouts
    <3>4. /\ s.state = TerminalStateForTimeout(ContractOf[r.by])
          /\ s.provenance = "timeout_default" /\ s.once /\ s.selected = NoOption /\ s.repaired
          /\ s.by = r.by /\ s.resolvedAt = r.resolvedAt /\ s.expiresAt = r.expiresAt
          /\ s.misclassified = r.misclassified
      BY DEF Record
    <3>5. r.state # "open" /\ Decided(r) /\ r.misclassified /\ ~r.repaired
      BY <1>1, <2>2 DEF Misclassified, Undecided
    <3>6. /\ r.by \in LetterProducers /\ r.resolvedAt = r.expiresAt /\ ~r.once
          /\ r.resolvedAt \in Nat
      BY <3>5 DEF Decided, Expired, Record
    <3>7. Decided(s)
      BY <3>4, <3>5, <3>6 DEF Decided, Expired, Explicit, Record
    <3>8. s.state # "open"
      BY <3>2, <3>4 DEF Terminal
    <3>9. n = 0
      BY <1>1, <3>6
    <3>10. Sound(s, n)
      BY <3>3, <3>4, <3>7, <3>8, <3>9 DEF Sound
    <3> QED BY <3>1, <3>3, <3>10
  <2> QED BY <2>1, <2>2
<1> QED BY <1>2, <1>3 DEF Hydrated

LEMMA ReloadKeeps ==
    ASSUME IInv, Reload
    PROVE  /\ IInv'
           /\ \A d \in Decisions : record'[d] = IF d \in Known THEN Repaired(record[d]) ELSE None
<1>1. \A d \in Decisions : record'[d] = IF d \in Known THEN Hydrated(record[d]) ELSE None
  BY DEF Reload
<1>2. ASSUME NEW d \in Decisions, d \in Known
      PROVE  /\ record'[d] = Repaired(record[d])
             /\ record'[d] \in Record
             /\ Sound(record'[d], effects[d])
  <2>1. record[d] \in Record /\ Sound(record[d], effects[d])
    BY <1>2, RecordExists DEF IInv
  <2> QED BY <1>1, <1>2, <2>1, HydratedSound
<1>3. ASSUME NEW d \in Decisions, d \notin Known
      PROVE  record'[d] = None /\ Sound(record'[d], effects[d])
  <2>1. record'[d] = None
    BY <1>1, <1>3
  <2>2. record[d] \notin Record
    BY <1>3, RecordExists DEF IInv
  <2>3. effects[d] = 0
    BY <2>2 DEF IInv, Sound
  <2> QED BY <2>1, <2>3 DEF Sound
<1>4. record' \in [Decisions -> Record \cup {None}]
  <2>1. \A d \in Decisions : record'[d] \in Record \cup {None}
    BY <1>2, <1>3
  <2>2. record' = [d \in Decisions |-> record'[d]]
    BY DEF Reload
  <2> QED BY <2>1, <2>2
<1>5. IInv'
  BY <1>2, <1>3, <1>4 DEF Reload, IInv
<1> QED BY <1>2, <1>3, <1>5

-----------------------------------------------------------------------------

LEMMA InitSound == Init => IInv
<1> SUFFICES ASSUME Init PROVE IInv
  OBVIOUS
<1>1. ASSUME NEW r \in Legacy PROVE r \in Record /\ Sound(r, 0)
  <2>1. PICK p \in LetterProducers :
          r = [by |-> p, createdAt |-> 0, expiresAt |-> 0, state |-> "explicitly_resolved",
               selected |-> NoOption, resolvedAt |-> 0, provenance |-> "explicit_refusal",
               once |-> FALSE, misclassified |-> TRUE, repaired |-> FALSE]
    BY <1>1 DEF Legacy
  <2>2. p \in Producers
    BY DecisionAssumption
  <2>3. r \in Record
    BY <2>1, <2>2 DEF Record, Terminal, Explicit
  <2>4. Decided(r)
    BY <2>1 DEF Decided, Expired, Explicit, Timeouts
  <2> QED BY <2>1, <2>3, <2>4 DEF Sound
<1>2. Sound(None, 0)
  BY DEF Sound
<1>3. \A d \in Decisions : effects[d] = 0 /\ record[d] \in {None} \cup Legacy
  BY DEF Init
<1>4. record \in [Decisions -> Record \cup {None}]
  BY <1>1 DEF Init
<1>5. \A d \in Decisions : Sound(record[d], effects[d])
  BY <1>1, <1>2, <1>3
<1> QED BY <1>4, <1>5 DEF Init, IInv

\* The invariant holds in every reachable state.
LEMMA Inductive == Spec => []IInv
<1>1. IInv /\ [Next]_vars => IInv'
  <2> SUFFICES ASSUME IInv, [Next]_vars PROVE IInv'
    OBVIOUS
  <2>1. ASSUME NEW c \in Clocks, Tick(c) PROVE IInv'
    BY <2>1 DEF Tick, IInv
  <2>2. CASE UNCHANGED vars
    BY <2>2 DEF vars, IInv
  <2> QED BY <2>1, <2>2, CreateKeeps, AnswerKeeps, ShiftKeeps, TimeoutKeeps, ReloadKeeps
          DEF Next
<1> QED BY <1>1, InitSound, PTL DEF Spec

\* What the invariant says of a record that exists.
LEMMA KnownRecord ==
    ASSUME IInv, NEW d \in Known
    PROVE  /\ d \in Decisions /\ record[d] \in Record
           /\ IF Open(d) THEN Undecided(record[d]) ELSE Decided(record[d])
           /\ effects[d] = IF record[d].once /\ ~record[d].repaired THEN 1 ELSE 0
<1>1. d \in Decisions /\ record[d] \in Record /\ record[d] # None
  BY RecordExists DEF Known, IInv
<1> QED BY <1>1 DEF IInv, Sound, Open

-----------------------------------------------------------------------------

\* Every operation writes whole records, and only open ones have no time at
\* which they were resolved.
THEOREM DecisionsTyped == Spec => []TypeOK
<1>1. IInv => TypeOK
  <2> SUFFICES ASSUME IInv PROVE TypeOK
    OBVIOUS
  <2>1. \A d \in Known : Open(d) <=> record[d].resolvedAt = NoTime
    BY KnownRecord, DecisionAssumption DEF Undecided, Decided
  <2> QED BY <2>1 DEF IInv, TypeOK
<1> QED BY <1>1, Inductive, PTL

\* The owner of a decision gets its default once if it timed out, and never
\* otherwise (resolveTimeoutIfDue).
THEOREM DefaultsOnce == Spec => []DefaultOnce
<1>1. IInv => DefaultOnce
  BY KnownRecord DEF DefaultOnce
<1> QED BY <1>1, Inductive, PTL

\* Answers lie before the deadline that held and defaults behind it, and duties
\* count as refused only what was (resolveExplicitly, shiftDeadline).
THEOREM DeadlinesHold == Spec => []RightSideOfDeadline
<1>1. IInv => RightSideOfDeadline
  <2> SUFFICES ASSUME IInv, NEW d \in Known
               PROVE  /\ record[d].provenance \in Explicit /\ ~record[d].misclassified =>
                            record[d].resolvedAt < record[d].expiresAt
                      /\ record[d].provenance \in Timeouts =>
                            record[d].resolvedAt >= record[d].expiresAt
                      /\ DutyKind(d) = "explicit_refusal" =>
                            \/ record[d].misclassified
                            \/ record[d].resolvedAt < record[d].expiresAt
    BY DEF RightSideOfDeadline
  <2>1. IF Open(d) THEN Undecided(record[d]) ELSE Decided(record[d])
    BY KnownRecord
  <2>2. DutyKind(d) = "explicit_refusal" =>
            ~Open(d) /\ record[d].provenance = "explicit_refusal"
    BY DEF DutyKind
  <2> QED BY <2>1, <2>2 DEF Undecided, Decided, Explicit, Timeouts
<1> QED BY <1>1, Inductive, PTL

\* What was decided stays decided through loads, late answers and repeated
\* timeouts, but for a misclassified letter, which is put right once
\* (hydrateExpiringDecisionRecord).
THEOREM DecisionsFinal == Spec => DecidedStaysDecided
<1> DEFINE Step(d) ==
      /\ record'[d] # None
      /\ record[d].state \in Terminal /\ record'[d] # record[d] =>
             record[d].misclassified /\ ~record[d].repaired /\ record'[d].repaired
<1>1. IInv /\ IInv' /\ [Next]_vars => [\A d \in Known : Step(d)]_vars
  <2> SUFFICES ASSUME IInv, IInv', Next, NEW d \in Known PROVE Step(d)
    BY DEF Next
  <2>1. record[d] \in Record /\ record[d] # None /\ d \in Decisions
    BY KnownRecord, RecordExists
  <2>2. ASSUME record'[d] = record[d] PROVE Step(d)
    BY <2>1, <2>2
  <2>3. ASSUME NEW e \in Decisions, NEW r,
               record' = [record EXCEPT ![e] = r], record'[e] \in Record,
               Open(e) \/ record[e] = None
        PROVE  Step(d)
    <3>1. CASE d = e
      BY <2>1, <2>3, <3>1, RecordExists DEF Open, Terminal
    <3>2. CASE d # e
      BY <2>1, <2>2, <2>3, <3>2 DEF IInv
    <3> QED BY <3>1, <3>2
  <2>4. CASE Reload
    <3>1. record'[d] = Repaired(record[d])
      BY <2>1, <2>4, ReloadKeeps
    <3>2. CASE ~Misclassified(record[d])
      BY <2>2, <3>1, <3>2 DEF Repaired
    <3>3. CASE Misclassified(record[d])
      <4>1. record'[d].repaired /\ record[d].misclassified /\ ~record[d].repaired
        BY <2>1, <3>1, <3>3 DEF Repaired, Misclassified, Record
      <4>2. Repaired(record[d]) \in Record
        BY <2>1, HydratedSound DEF IInv
      <4> QED BY <3>1, <4>1, <4>2, RecordExists
    <3> QED BY <3>2, <3>3
  <2>5. ASSUME NEW c \in Clocks, Tick(c) PROVE Step(d)
    BY <2>2, <2>5 DEF Tick
  <2>6. ASSUME NEW e \in Decisions, NEW p \in Producers, NEW t \in 0 .. MaxTime,
               Create(e, p, t)
        PROVE  Step(d)
    <3>1. record'[e] \in Record
      BY <2>6, CreateKeeps
    <3> QED BY <2>3, <2>6, <3>1 DEF Create
  <2>7. ASSUME NEW e \in Decisions,
               \/ \E p \in Producers : \E option \in OptionsOf[p] : ResolveExplicitly(e, option)
               \/ RefuseExplicitly(e)
               \/ Cancel(e)
               \/ Supersede(e)
        PROVE  Step(d)
    <3>1. record'[e] \in Record
      BY <2>7, AnswerKeeps
    <3> QED BY <2>3, <2>7, <3>1
            DEF ResolveExplicitly, RefuseExplicitly, Cancel, Supersede, InTime
  <2>8. ASSUME NEW e \in Decisions, NEW c \in Clocks, NEW t \in 0 .. MaxTime,
               ShiftDeadline(e, c, t)
        PROVE  Step(d)
    <3>1. record'[e] \in Record
      BY <2>8, ShiftKeeps
    <3> QED BY <2>3, <2>8, <3>1 DEF ShiftDeadline, InTime
  <2>9. ASSUME NEW e \in Decisions, NEW c \in Clocks, NEW cause \in Timeouts,
               ResolveTimeout(e, c, cause)
        PROVE  Step(d)
    <3>1. record'[e] \in Record
      BY <2>9, TimeoutKeeps
    <3> QED BY <2>3, <2>9, <3>1 DEF ResolveTimeout, Due
  <2> QED BY <2>4, <2>5, <2>6, <2>7, <2>8, <2>9 DEF Next
<1> QED BY <1>1, Inductive, PTL DEF Spec, DecidedStaysDecided

=============================================================================
