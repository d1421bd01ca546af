--------------------------- MODULE PublishProofs ---------------------------
(***************************************************************************)
(* Proofs about the publish queue, for every number of records, every     *)
(* bound of the ledger and every environment: receipts tell the truth and  *)
(* the queue implements Publication.                                       *)
(***************************************************************************)
EXTENDS PublishQueue, SequenceTheorems, TLAPS

\* The receipts that tell the truth about records s and deliveries d.
TrueReceipts(s, d) ==
    {x \in Receipt : x.outcome = "completed" =>
        /\ s[x.recordId] = "published"
        /\ x.channel = "ref" => x.recordId \in d}


\* Every ledger of the game, of the running tick and of the saved game is
\* true of the records it is kept with, and every publication has a cause.
IInv ==
    /\ TypeOK
    /\ receipts \in Seq(TrueReceipts(status, delivered))
    /\ noted \in Seq(TrueReceipts(status, delivered))
    /\ save.receipts \in Seq(TrueReceipts(save.status, delivered))

-----------------------------------------------------------------------------

\* A bounded ledger holds receipts of the ledger it is cut from.
LEMMA BoundKeeps ==
    ASSUME NEW S, NEW ledger \in Seq(S)
    PROVE  Bound(ledger) \in Seq(S)
<1>1. CASE Len(ledger) <= MaxReceipts
  BY <1>1 DEF Bound
<1>2. CASE ~(Len(ledger) <= MaxReceipts)
  <2>1. /\ Len(ledger) \in Nat
        /\ Len(ledger) - MaxReceipts + 1 \in Int
        /\ Len(ledger) - MaxReceipts + 1 >= 1
    BY <1>2, QueueAssumption
  <2>2. \A i \in (Len(ledger) - MaxReceipts + 1) .. Len(ledger) : ledger[i] \in S
    BY <2>1
  <2>3. SubSeq(ledger, Len(ledger) - MaxReceipts + 1, Len(ledger)) \in Seq(S)
    BY <2>1, <2>2, SubSeqProperties
  <2> QED BY <1>2, <2>3 DEF Bound
<1> QED BY <1>1, <1>2

\* A sequence over a set is a sequence over every larger set.
LEMMA SeqMonotone ==
    ASSUME NEW S, NEW T, S \subseteq T, NEW ledger \in Seq(S)
    PROVE  ledger \in Seq(T)
<1>1. \A i \in 1 .. Len(ledger) : ledger[i] \in T
  OBVIOUS
<1> QED BY <1>1, IsASeq

\* What is published stays published and what is delivered stays delivered:
\* true receipts stay true.
LEMMA TrueReceiptsGrow ==
    ASSUME NEW s, NEW d, NEW t, NEW e,
           \A r \in Records : s[r] = "published" => t[r] = "published",
           d \subseteq e,
           NEW ledger \in Seq(TrueReceipts(s, d))
    PROVE  ledger \in Seq(TrueReceipts(t, e))
<1>1. TrueReceipts(s, d) \subseteq TrueReceipts(t, e)
  BY DEF TrueReceipts, Receipt
<1> QED BY <1>1, SeqMonotone

\* An executed record keeps the ledgers true: its receipt is true of its next
\* status, and no publication is taken back.
LEMMA ExecutedKeeps ==
    ASSUME IInv,
           NEW r \in Records, Reached(r),
           NEW next \in Statuses, NEW outcome \in {"completed", "rejected", "skipped"},
           NEW channel \in {"ref", "stub", "none"},
           Executed(r, next, outcome, channel),
           status[r] = "published" => next = "published",
           outcome = "completed" /\ channel = "ref" => r \in delivered',
           delivered \subseteq delivered', delivered' \subseteq Records,
           rehearsed' \subseteq Records
    PROVE  IInv'
<1> DEFINE receipt == [recordId |-> r, outcome |-> outcome, channel |-> channel]
<1>1. /\ status' \in [Records -> Statuses]
      /\ \A q \in Records : status[q] = "published" => status'[q] = "published"
  BY DEF Executed, IInv, TypeOK
<1>2. /\ receipts' \in Seq(TrueReceipts(status', delivered'))
      /\ save'.receipts \in Seq(TrueReceipts(save'.status, delivered'))
  <2>1. receipts \in Seq(TrueReceipts(status', delivered'))
    BY <1>1, TrueReceiptsGrow DEF IInv
  <2>2. save.receipts \in Seq(TrueReceipts(save.status, delivered'))
    BY TrueReceiptsGrow DEF IInv
  <2> QED BY <2>1, <2>2 DEF Executed
<1>3. noted' \in Seq(TrueReceipts(status', delivered'))
  <2>1. noted \in Seq(TrueReceipts(status', delivered'))
    BY <1>1, TrueReceiptsGrow DEF IInv
  <2>2. ASSUME Aligns(receipt, next) PROVE receipt \in TrueReceipts(status', delivered')
    <3>1. receipt \in Receipt
      BY DEF Receipt
    <3>2. status'[r] = next
      BY DEF Executed, IInv, TypeOK
    <3> QED BY <2>2, <3>1, <3>2 DEF TrueReceipts, Aligns
  <2>3. \/ noted' = Append(noted, receipt) /\ Aligns(receipt, next)
        \/ noted' = noted
    BY DEF Executed
  <2>4. ASSUME Aligns(receipt, next)
        PROVE  Append(noted, receipt) \in Seq(TrueReceipts(status', delivered'))
    BY <2>1, <2>2, <2>4, AppendProperties
  <2> QED BY <2>1, <2>3, <2>4
<1>4. receipts' \in Seq(Receipt) /\ noted' \in Seq(Receipt)
  <2>1. TrueReceipts(status', delivered') \subseteq Receipt
    BY DEF TrueReceipts
  <2> QED BY <2>1, <1>2, <1>3, SeqMonotone
<1>5. cursor' \in 1 .. LastRecord + 1
  BY QueueAssumption DEF Executed, Reached, Records, IInv, TypeOK
<1>6. TypeOK'
  BY <1>1, <1>4, <1>5 DEF Executed, IInv, TypeOK
<1> QED BY <1>2, <1>3, <1>6 DEF IInv

\* Executing one record keeps the invariant.
LEMMA ExecuteKeeps ==
    ASSUME IInv, NEW r \in Records, ExecuteRecord(r)
    PROVE  IInv'
<1> USE DEF Records
<1>0. status[r] \in Statuses
  BY DEF IInv, TypeOK
<1>1. CASE SkipAbsent(r)
  <2>1. cursor' \in 1 .. LastRecord + 1
    BY <1>1, QueueAssumption DEF SkipAbsent, Reached
  <2> QED BY <1>1, <2>1 DEF SkipAbsent, IInv, TypeOK
<1>2. CASE SkipRecord(r)
  BY <1>0, <1>2, ExecutedKeeps DEF SkipRecord, Rejected, Statuses, IInv, TypeOK
<1>3. CASE ExecuteDryRun(r)
  BY <1>3, ExecutedKeeps DEF ExecuteDryRun, Statuses, IInv, TypeOK
<1>4. CASE ExecuteUnreachable(r)
  BY <1>0, <1>4, ExecutedKeeps DEF ExecuteUnreachable, Rejected, IInv, TypeOK
<1>5. ASSUME NEW answer \in Answers(r), ExecuteLive(r, answer) PROVE IInv'
  <2>1. Reached(r) /\ Finalized(r, answer) /\ rehearsed' = rehearsed
    BY <1>5 DEF ExecuteLive
  <2>2. /\ delivered \subseteq delivered' /\ delivered' \subseteq Records
        /\ Succeeds(answer) => r \in delivered'
    BY <1>5 DEF ExecuteLive, CarriedOut, Succeeds, IInv, TypeOK
  <2>3. CASE Succeeds(answer)
    <3>1. Executed(r, "published", "completed", "ref")
      BY <2>1, <2>3 DEF Finalized
    <3> QED BY <2>1, <2>2, <2>3, <3>1, ExecutedKeeps DEF Statuses, IInv, TypeOK
  <2>4. CASE ~Succeeds(answer)
    <3>1. Executed(r, status[r], "rejected", "none")
      BY <2>1, <2>4 DEF Finalized, Rejected
    <3> QED BY <1>0, <2>1, <2>2, <3>1, ExecutedKeeps DEF IInv, TypeOK
  <2> QED BY <2>3, <2>4
<1> QED BY <1>1, <1>2, <1>3, <1>4, <1>5 DEF ExecuteRecord

\* The invariant holds in every reachable state.
LEMMA Inductive == Spec => []IInv
<1>1. Init => IInv
  <2> SUFFICES ASSUME Init PROVE IInv
    OBVIOUS
  <2>1. TypeOK
    BY QueueAssumption, EnvironmentAssumption DEF Init, TypeOK, Statuses
  <2>2. \A S : <<>> \in Seq(S)
    OBVIOUS
  <2> QED BY <2>1, <2>2 DEF Init, IInv
<1>2. IInv /\ [Next]_vars => IInv'
  <2> SUFFICES ASSUME IInv, [Next]_vars PROVE IInv'
    OBVIOUS
  <2>1. ASSUME NEW e \in Environments, BeginTick(e) PROVE IInv'
    <3>1. /\ status' \in [Records -> Statuses]
          /\ \A q \in Records : status[q] = "published" => status'[q] = "published"
      BY <2>1 DEF BeginTick, Enqueued, IInv, TypeOK, Statuses
    <3>2. receipts \in Seq(TrueReceipts(status', delivered))
      BY <3>1, TrueReceiptsGrow DEF IInv
    <3> QED BY <2>1, <3>1, <3>2, QueueAssumption DEF BeginTick, IInv, TypeOK
  <2>2. ASSUME NEW r \in Records, ExecuteRecord(r) PROVE IInv'
    BY <2>2, ExecuteKeeps
  <2>3. CASE MergeReceipts
    <3>1. receipts \o noted \in Seq(TrueReceipts(status, delivered))
      BY ConcatProperties DEF IInv
    <3>2. receipts' \in Seq(TrueReceipts(status, delivered))
      BY <2>3, <3>1, BoundKeeps DEF MergeReceipts
    <3>3. receipts' \in Seq(Receipt)
      BY <3>2, SeqMonotone DEF TrueReceipts
    <3> QED BY <2>3, <3>2, <3>3 DEF MergeReceipts, IInv, TypeOK
  <2>4. CASE SaveGame
    BY <2>4 DEF SaveGame, IInv, TypeOK
  <2>5. CASE Reload
    <3>1. receipts' \in Seq(TrueReceipts(save.status, delivered))
      BY <2>5, BoundKeeps DEF Reload, ReloadedLedger, IInv
    <3>2. receipts' \in Seq(Receipt)
      BY <3>1, SeqMonotone DEF TrueReceipts
    <3>3. reloads' \in 0 .. MaxReloads
      BY <2>5, QueueAssumption DEF Reload, IInv, TypeOK
    <3> QED BY <2>5, <3>1, <3>2, <3>3, QueueAssumption DEF Reload, IInv, TypeOK
  <2>6. CASE UNCHANGED vars
    BY <2>6 DEF vars, IInv, TypeOK
  <2> QED BY <2>1, <2>2, <2>3, <2>4, <2>5, <2>6 DEF Next, Tick
<1> QED BY <1>1, <1>2, PTL DEF Spec

-----------------------------------------------------------------------------

\* A completed receipt tells the truth about its record and about the remote,
\* whatever answers are lost and whatever games are reloaded.
THEOREM ReceiptsTellTheTruth == Spec => []ReceiptsTrue
<1>1. IInv => ReceiptsTrue
  BY DEF IInv, ReceiptsTrue, TrueReceipts, Completed
<1> QED BY <1>1, Inductive, PTL

\* A step of the executor is a step of Publication.
LEMMA ExecuteRefines ==
    ASSUME IInv, NEW r \in Records, ExecuteRecord(r)
    PROVE  [Promise!Next]_(Promise!vars)
<1> DEFINE announced == {q \in Records : status[q] = "published"}
<1>0. status \in [Records -> Statuses]
  BY DEF IInv, TypeOK
<1>1. ASSUME NEW outcome, NEW channel, Executed(r, status[r], outcome, channel)
      PROVE  announced' = announced /\ save' = save
  BY <1>0, <1>1 DEF Executed
<1>2. ASSUME NEW outcome, NEW channel, Executed(r, "published", outcome, channel)
      PROVE  announced' = announced \cup {r} /\ save' = save
  BY <1>0, <1>2 DEF Executed
<1>3. CASE SkipAbsent(r)
  BY <1>3 DEF SkipAbsent, Promise!vars
<1>4. CASE SkipRecord(r)
  <2>1. announced' = announced /\ save' = save
    BY <1>1, <1>4 DEF SkipRecord, Rejected
  <2> QED BY <1>4, <2>1 DEF SkipRecord, Promise!vars
<1>5. CASE ExecuteDryRun(r)
  <2>1. Promise!Rehearse(r)
    BY <1>2, <1>5 DEF ExecuteDryRun, Ready, Promise!Rehearse
  <2> QED BY <2>1 DEF Promise!Next
<1>6. CASE ExecuteUnreachable(r)
  <2>1. announced' = announced /\ save' = save
    BY <1>1, <1>6 DEF ExecuteUnreachable, Rejected
  <2> QED BY <1>6, <2>1 DEF ExecuteUnreachable, Promise!vars
<1>7. ASSUME NEW answer \in Answers(r), ExecuteLive(r, answer)
      PROVE  [Promise!Next]_(Promise!vars)
  <2>0. Finalized(r, answer) /\ rehearsed' = rehearsed
    BY <1>7 DEF ExecuteLive
  <2>1. CASE Succeeds(answer)
    <3>1. delivered' = delivered \cup {r}
      BY <1>7, <2>1 DEF ExecuteLive, Succeeds, CarriedOut
    <3>2. announced' = announced \cup {r} /\ save' = save
      BY <1>2, <2>0, <2>1 DEF Finalized
    <3>3. Promise!Publish(r)
      BY <2>0, <3>1, <3>2 DEF Promise!Publish
    <3> QED BY <3>3 DEF Promise!Next
  <2>2. CASE ~Succeeds(answer)
    <3>1. announced' = announced /\ save' = save
      BY <1>1, <2>0, <2>2 DEF Finalized, Rejected
    <3>2. CASE delivered' = delivered
      BY <2>0, <3>1, <3>2 DEF Promise!vars
    <3>3. CASE delivered' = delivered \cup {r}
      BY <2>0, <3>1, <3>3 DEF Promise!Deliver, Promise!Next
    <3> QED BY <1>7, <3>2, <3>3 DEF ExecuteLive
  <2> QED BY <2>1, <2>2
<1> QED BY <1>3, <1>4, <1>5, <1>6, <1>7 DEF ExecuteRecord

\* The queue implements Publication: nothing is announced that was neither
\* carried out nor rehearsed, and only a reload takes an announcement back.
THEOREM ImplementsPublication == Spec => KeepsPromise
<1>1. Init => Promise!Init
  BY DEF Init, Promise!Init
<1>2. IInv /\ [Next]_vars => [Promise!Next]_(Promise!vars)
  <2> SUFFICES ASSUME IInv, [Next]_vars PROVE [Promise!Next]_(Promise!vars)
    OBVIOUS
  <2>0. status \in [Records -> Statuses]
    BY DEF IInv, TypeOK
  <2>1. ASSUME NEW e \in Environments, BeginTick(e)
        PROVE  [Promise!Next]_(Promise!vars)
    BY <2>0, <2>1 DEF BeginTick, Enqueued, Promise!vars
  <2>2. ASSUME NEW r \in Records, ExecuteRecord(r) PROVE [Promise!Next]_(Promise!vars)
    BY <2>2, ExecuteRefines
  <2>3. CASE MergeReceipts
    BY <2>3 DEF MergeReceipts, Promise!vars
  <2>4. CASE SaveGame
    BY <2>4 DEF SaveGame, Promise!Keep, Promise!Next
  <2>5. CASE Reload
    BY <2>5 DEF Reload, Promise!Restore, Promise!Next
  <2>6. CASE UNCHANGED vars
    BY <2>6 DEF vars, Promise!vars
  <2> QED BY <2>1, <2>2, <2>3, <2>4, <2>5, <2>6 DEF Next, Tick
<1> QED BY <1>1, <1>2, Inductive, PTL DEF Spec, KeepsPromise, Promise!Spec

-----------------------------------------------------------------------------
(* Publication is final *)

\* No receipt follows a completed one of the same record.
Final(ledger) ==
    \A i \in Completed(ledger) : \A j \in DOMAIN ledger :
        j > i => ledger[j].recordId # ledger[i].recordId

\* The published records among s have a completed receipt.
Attested(ledger, s) ==
    \A r \in Records : s[r] = "published" =>
        \E i \in Completed(ledger) : ledger[i].recordId = r

\* What the ledger will be if the week ends now, and nothing is evicted.
Ledger == receipts \o noted

\* A ledger that is not full has lost no receipt, and neither has what the
\* running week adds to it.
FinalInv ==
    /\ phase = "idle" => noted = <<>>
    /\ Final(Ledger) /\ Final(save.receipts)
    /\ Len(receipts) < MaxReceipts => Attested(Ledger, status)
    /\ Len(save.receipts) < MaxReceipts => Attested(save.receipts, save.status)

\* Eviction keeps what remains final, and if the ledger has room afterwards
\* nothing was evicted.
LEMMA BoundFinal ==
    ASSUME NEW ledger \in Seq(Receipt), Final(ledger)
    PROVE  /\ Final(Bound(ledger))
           /\ Len(Bound(ledger)) < MaxReceipts => Bound(ledger) = ledger
<1>0. Len(ledger) \in Nat /\ MaxReceipts \in Nat /\ MaxReceipts >= 1
  BY QueueAssumption
<1>1. CASE Len(ledger) <= MaxReceipts
  BY <1>1 DEF Bound
<1>2. CASE ~(Len(ledger) <= MaxReceipts)
  <2> DEFINE k == Len(ledger) - MaxReceipts
             rest == SubSeq(ledger, k + 1, Len(ledger))
  <2>1. k \in Nat /\ k >= 1 /\ k + 1 <= Len(ledger)
    BY <1>0, <1>2
  <2>2. /\ Len(rest) = MaxReceipts
        /\ \A i \in 1 .. MaxReceipts : rest[i] = ledger[k + i] /\ k + i \in 1 .. Len(ledger)
    <3>1. \A i \in k + 1 .. Len(ledger) : ledger[i] \in Receipt
      BY <1>0, <2>1
    <3>2. /\ rest \in Seq(Receipt)
          /\ Len(rest) = IF k + 1 <= Len(ledger) THEN Len(ledger) - (k + 1) + 1 ELSE 0
          /\ \A i \in 1 .. Len(ledger) - (k + 1) + 1 : rest[i] = ledger[k + 1 + i - 1]
      BY <1>0, <2>1, <3>1, SubSeqProperties
    <3>3. Len(ledger) - (k + 1) + 1 = MaxReceipts
      BY <1>0, <2>1
    <3>4. \A i \in 1 .. MaxReceipts : k + 1 + i - 1 = k + i /\ k + i \in 1 .. Len(ledger)
      BY <1>0, <2>1
    <3> QED BY <1>0, <2>1, <3>2, <3>3, <3>4
  <2>3. rest \in Seq(Receipt)
    <3>1. \A i \in k + 1 .. Len(ledger) : ledger[i] \in Receipt
      BY <1>0, <2>1
    <3> QED BY <1>0, <2>1, <3>1, SubSeqProperties
  <2>4. Bound(ledger) = rest
    BY <1>2 DEF Bound
  <2> HIDE DEF rest, k
  <2>5. DOMAIN rest = 1 .. MaxReceipts
    BY <2>2, <2>3, LenProperties
  <2>6. ASSUME NEW i \in Completed(rest), NEW j \in DOMAIN rest, j > i
        PROVE  rest[j].recordId # rest[i].recordId
    <3>1. i \in 1 .. MaxReceipts /\ j \in 1 .. MaxReceipts
      BY <2>5, <2>6 DEF Completed
    <3>2. /\ rest[i] = ledger[k + i] /\ rest[j] = ledger[k + j]
          /\ k + i \in DOMAIN ledger /\ k + j \in DOMAIN ledger /\ k + j > k + i
      BY <1>0, <2>1, <2>2, <2>6, <3>1, LenProperties
    <3>3. k + i \in Completed(ledger)
      BY <2>6, <3>2 DEF Completed
    <3> QED BY <3>2, <3>3 DEF Final
  <2>7. Final(rest)
    BY <2>6 DEF Final
  <2> QED BY <1>0, <2>2, <2>4, <2>7
<1> QED BY <1>1, <1>2

\* A receipt of a record that is not published does not follow a completed one.
LEMMA AppendFinal ==
    ASSUME NEW s, NEW d, NEW ledger \in Seq(TrueReceipts(s, d)), Final(ledger),
           NEW x \in Receipt, s[x.recordId] # "published"
    PROVE  Final(Append(ledger, x))
<1> DEFINE longer == Append(ledger, x)
<1>1. /\ Len(ledger) \in Nat /\ DOMAIN ledger = 1 .. Len(ledger)
      /\ DOMAIN longer = 1 .. Len(ledger) + 1
      /\ \A i \in 1 .. Len(ledger) : longer[i] = ledger[i]
      /\ longer[Len(ledger) + 1] = x
  <2>1. ledger \in Seq(Receipt)
    BY SeqMonotone DEF TrueReceipts
  <2> HIDE DEF longer
  <2>2. longer \in Seq(Receipt) /\ Len(longer) = Len(ledger) + 1
    BY <2>1, AppendProperties DEF longer
  <2>3. /\ \A i \in 1 .. Len(ledger) : longer[i] = ledger[i]
        /\ longer[Len(ledger) + 1] = x
    BY <2>1, AppendProperties DEF longer
  <2> QED BY <2>1, <2>2, <2>3, LenProperties
<1> HIDE DEF longer
<1>2. ASSUME NEW i \in Completed(longer), NEW j \in DOMAIN longer, j > i
      PROVE  longer[j].recordId # longer[i].recordId
  <2>1. i \in 1 .. Len(ledger) /\ j \in 1 .. Len(ledger) + 1
    BY <1>1, <1>2 DEF Completed
  <2>2. i \in Completed(ledger) /\ longer[i] = ledger[i]
    BY <1>1, <1>2, <2>1 DEF Completed
  <2>3. CASE j \in 1 .. Len(ledger)
    BY <1>1, <1>2, <2>2, <2>3 DEF Final
  <2>4. CASE j = Len(ledger) + 1
    <3>1. ledger[i] \in TrueReceipts(s, d)
      BY <2>1
    <3>2. s[ledger[i].recordId] = "published"
      BY <2>2, <3>1 DEF Completed, TrueReceipts
    <3> QED BY <1>1, <2>2, <2>4, <3>2
  <2> QED BY <1>1, <2>1, <2>3, <2>4
<1>3. Final(longer)
  BY <1>2 DEF Final
<1> QED BY <1>3 DEF longer

\* One more receipt attests what was attested, and the record it completes.
LEMMA AppendAttests ==
    ASSUME NEW s, NEW ledger \in Seq(Receipt), NEW x \in Receipt,
           NEW t, \A r \in Records : t[r] = "published" =>
                      s[r] = "published" \/ (x.recordId = r /\ x.outcome = "completed"),
           Attested(ledger, s)
    PROVE  Attested(Append(ledger, x), t)
<1> DEFINE longer == Append(ledger, x)
<1>1. /\ Len(ledger) \in Nat /\ DOMAIN ledger = 1 .. Len(ledger)
      /\ DOMAIN longer = 1 .. Len(ledger) + 1
      /\ \A i \in 1 .. Len(ledger) : longer[i] = ledger[i]
      /\ longer[Len(ledger) + 1] = x
  <2> HIDE DEF longer
  <2>1. longer \in Seq(Receipt) /\ Len(longer) = Len(ledger) + 1
    BY AppendProperties DEF longer
  <2>2. /\ \A i \in 1 .. Len(ledger) : longer[i] = ledger[i]
        /\ longer[Len(ledger) + 1] = x
    BY AppendProperties DEF longer
  <2> QED BY <2>1, <2>2, LenProperties
<1> HIDE DEF longer
<1>2. ASSUME NEW r \in Records, t[r] = "published"
      PROVE  \E i \in Completed(longer) : longer[i].recordId = r
  <2>1. CASE s[r] = "published"
    <3>1. PICK i \in Completed(ledger) : ledger[i].recordId = r
      BY <2>1 DEF Attested
    <3>2. i \in Completed(longer) /\ longer[i].recordId = r
      BY <1>1, <3>1 DEF Completed
    <3> QED BY <3>2
  <2>2. CASE x.recordId = r /\ x.outcome = "completed"
    <3>1. Len(ledger) + 1 \in Completed(longer) /\ longer[Len(ledger) + 1].recordId = r
      BY <1>1, <2>2 DEF Completed
    <3> QED BY <3>1
  <2> QED BY <1>2, <2>1, <2>2
<1> QED BY <1>2 DEF Attested, longer

\* The ledger of the game and of the running week.
LEMMA LedgerTrue ==
    ASSUME IInv
    PROVE  /\ Ledger \in Seq(TrueReceipts(status, delivered))
           /\ Ledger \in Seq(Receipt)
<1>1. Ledger \in Seq(TrueReceipts(status, delivered))
  BY ConcatProperties DEF IInv, Ledger
<1> QED BY <1>1, SeqMonotone DEF TrueReceipts

\* An executed record that was not published leaves its receipt, one that was
\* published leaves none.
LEMMA ExecutedFinal ==
    ASSUME IInv, FinalInv,
           NEW r \in Records, phase = "executing",
           NEW next \in Statuses, NEW outcome \in {"completed", "rejected", "skipped"},
           NEW channel \in {"ref", "stub", "none"},
           Executed(r, next, outcome, channel),
           \/ status[r] = "published" /\ next = "published" /\ outcome = "skipped"
           \/ status[r] # "published" /\ (next = "published" <=> outcome = "completed")
    PROVE  FinalInv'
<1> DEFINE x == [recordId |-> r, outcome |-> outcome, channel |-> channel]
<1>0. /\ x \in Receipt /\ status \in [Records -> Statuses]
      /\ receipts \in Seq(Receipt) /\ noted \in Seq(Receipt)
      /\ UNCHANGED <<phase, receipts, save>> /\ status' = [status EXCEPT ![r] = next]
  BY DEF Receipt, IInv, TypeOK, Executed
<1>1. CASE noted' = noted
  <2>1. \A q \in Records : status'[q] = "published" => status[q] = "published"
    BY <1>0, <1>1 DEF Executed, Reportable, Aligns
  <2> QED BY <1>0, <1>1, <2>1 DEF FinalInv, Ledger, Attested
<1>2. CASE noted' = Append(noted, x) /\ Reportable(x)
  <2>1. status[r] # "published"
    BY <1>2 DEF Reportable
  <2>2. Ledger' = Append(Ledger, x)
    <3>1. noted' = noted \o <<x>> /\ <<x>> \in Seq(Receipt)
      BY <1>0, <1>2, AppendIsConcat
    <3>2. receipts \o noted' = (receipts \o noted) \o <<x>>
      BY <1>0, <3>1, ConcatAssociative
    <3>3. receipts \o noted \in Seq(Receipt)
      BY <1>0, ConcatProperties
    <3> QED BY <1>0, <3>2, <3>3, AppendIsConcat DEF Ledger
  <2>3. Final(Ledger')
    BY <1>0, <2>1, <2>2, LedgerTrue, AppendFinal DEF FinalInv
  <2>4. \A q \in Records : status'[q] = "published" =>
            status[q] = "published" \/ (x.recordId = q /\ x.outcome = "completed")
    BY <1>0, <2>1
  <2>5. Len(receipts) < MaxReceipts => Attested(Ledger', status')
    <3> SUFFICES ASSUME Len(receipts) < MaxReceipts PROVE Attested(Ledger', status')
      OBVIOUS
    <3>1. Attested(Ledger, status) /\ Ledger \in Seq(Receipt) /\ x \in Receipt
      BY <1>0, LedgerTrue DEF FinalInv
    <3> HIDE DEF x
    <3>2. Attested(Append(Ledger, x), status')
      BY <2>4, <3>1, AppendAttests
    <3> QED BY <2>2, <3>2
  <2> QED BY <1>0, <2>3, <2>5 DEF FinalInv, Final, Attested, Completed
<1> QED BY <1>1, <1>2 DEF Executed

LEMMA ExecuteFinal ==
    ASSUME IInv, FinalInv, NEW r \in Records, ExecuteRecord(r)
    PROVE  FinalInv'
<1>0. status[r] \in Statuses
  BY DEF IInv, TypeOK
<1>1. CASE SkipAbsent(r)
  BY <1>1 DEF SkipAbsent, Reached, FinalInv, Ledger, Final, Attested, Completed
<1>2. CASE SkipRecord(r)
  BY <1>0, <1>2, ExecutedFinal DEF SkipRecord, Rejected, Reached, Statuses
<1>3. CASE ExecuteDryRun(r)
  BY <1>3, ExecutedFinal DEF ExecuteDryRun, Ready, Reached, Statuses
<1>4. CASE ExecuteUnreachable(r)
  BY <1>0, <1>4, ExecutedFinal DEF ExecuteUnreachable, Rejected, Ready, Reached
<1>5. ASSUME NEW answer \in Answers(r), ExecuteLive(r, answer) PROVE FinalInv'
  <2>1. Reached(r) /\ Finalized(r, answer) /\ status[r] = "ready_to_publish"
    BY <1>5 DEF ExecuteLive, Ready
  <2>2. CASE Succeeds(answer)
    BY <2>1, <2>2, ExecutedFinal DEF Finalized, Reached, Statuses
  <2>3. CASE ~Succeeds(answer)
    BY <1>0, <2>1, <2>3, ExecutedFinal DEF Finalized, Rejected, Reached
  <2> QED BY <2>2, <2>3
<1> QED BY <1>1, <1>2, <1>3, <1>4, <1>5 DEF ExecuteRecord

LEMMA FinalStep == IInv /\ FinalInv /\ [Next]_vars => FinalInv'
<1> SUFFICES ASSUME IInv, FinalInv, [Next]_vars PROVE FinalInv'
  OBVIOUS
<1>0. receipts \in Seq(Receipt) /\ noted \in Seq(Receipt) /\ save.receipts \in Seq(Receipt)
  BY DEF IInv, TypeOK
<1>1. \A ledger \in Seq(Receipt) : ledger \o <<>> = ledger
  BY ConcatEmptySeq
<1>2. ASSUME NEW e \in Environments, BeginTick(e) PROVE FinalInv'
  <2>1. noted = <<>> /\ noted' = <<>> /\ UNCHANGED <<receipts, save>> /\ status' = Enqueued
    BY <1>2 DEF BeginTick, FinalInv
  <2>2. \A q \in Records : status'[q] = "published" => status[q] = "published"
    BY <2>1 DEF Enqueued
  <2>3. phase' # "idle"
    BY <1>2 DEF BeginTick
  <2> QED BY <2>1, <2>2, <2>3 DEF FinalInv, Ledger, Final, Attested, Completed
<1>3. ASSUME NEW r \in Records, ExecuteRecord(r) PROVE FinalInv'
  BY <1>3, ExecuteFinal
<1>4. CASE MergeReceipts
  <2>1. receipts' = Bound(Ledger) /\ noted' = <<>> /\ UNCHANGED <<status, save>>
    BY <1>4 DEF MergeReceipts, Ledger
  <2>2. Final(receipts') /\ (Len(receipts') < MaxReceipts => receipts' = Ledger)
    BY <2>1, LedgerTrue, BoundFinal DEF FinalInv
  <2>3. receipts' \in Seq(Receipt)
    BY <2>1, LedgerTrue, BoundKeeps
  <2>4. Ledger' = receipts'
    BY <1>1, <2>1, <2>3 DEF Ledger
  <2>5. Len(receipts') < MaxReceipts => Len(receipts) < MaxReceipts
    <3>1. Len(Ledger) = Len(receipts) + Len(noted) /\ Len(receipts) \in Nat /\ Len(noted) \in Nat
      BY <1>0, ConcatProperties DEF Ledger
    <3> QED BY <2>2, <3>1, QueueAssumption
  <2> QED BY <2>1, <2>2, <2>4, <2>5 DEF FinalInv, Final, Attested, Completed
<1>5. CASE SaveGame
  <2>1. noted = <<>> /\ UNCHANGED <<phase, receipts, noted, status>>
        /\ save' = [status |-> status, receipts |-> receipts]
    BY <1>5 DEF SaveGame, FinalInv
  <2>2. Ledger = receipts
    BY <1>0, <1>1, <2>1 DEF Ledger
  <2> QED BY <2>1, <2>2 DEF FinalInv, Ledger, Final, Attested, Completed
<1>6. CASE Reload
  <2>1. receipts' = Bound(save.receipts) /\ noted' = <<>> /\ status' = save.status /\ save' = save
    BY <1>6 DEF Reload, ReloadedLedger
  <2>2. Final(receipts') /\ (Len(receipts') < MaxReceipts => receipts' = save.receipts)
    BY <1>0, <2>1, BoundFinal DEF FinalInv
  <2>3. receipts' \in Seq(Receipt)
    BY <1>0, <2>1, BoundKeeps
  <2>4. Ledger' = receipts'
    BY <1>1, <2>1, <2>3 DEF Ledger
  <2> QED BY <2>1, <2>2, <2>4 DEF FinalInv, Final, Attested, Completed
<1>7. CASE UNCHANGED vars
  BY <1>7 DEF vars, FinalInv, Ledger, Final, Attested, Completed
<1> QED BY <1>2, <1>3, <1>4, <1>5, <1>6, <1>7 DEF Next, Tick

\* A published record is never executed again nor refused afterwards, and its
\* receipt is lost only to eviction, for every bound of the ledger and through
\* all reloads (buildPreExecutionReceipt, mergePublishQueueExecutionReceipts).
THEOREM PublicationFinal == Spec => []PublicationIsFinal
<1>1. Init => FinalInv
  <2> SUFFICES ASSUME Init PROVE FinalInv
    OBVIOUS
  <2>1. receipts = <<>> /\ noted = <<>> /\ save = [status |-> status, receipts |-> <<>>]
        /\ \A r \in Records : status[r] # "published"
    BY DEF Init
  <2>2. Ledger = <<>>
    BY <2>1, ConcatEmptySeq DEF Ledger
  <2> QED BY <2>1, <2>2 DEF FinalInv, Final, Attested, Completed
<1>2. IInv /\ FinalInv => PublicationIsFinal
  <2> SUFFICES ASSUME IInv, FinalInv PROVE PublicationIsFinal
    OBVIOUS
  <2>0. receipts \in Seq(Receipt) /\ noted \in Seq(Receipt)
    BY DEF IInv, TypeOK
  <2>1. Final(receipts)
    <3>1. /\ \A i \in 1 .. Len(receipts) : Ledger[i] = receipts[i]
          /\ Len(Ledger) = Len(receipts) + Len(noted)
          /\ DOMAIN receipts = 1 .. Len(receipts) /\ DOMAIN Ledger = 1 .. Len(Ledger)
          /\ Len(receipts) \in Nat /\ Len(noted) \in Nat
      BY <2>0, LedgerTrue, ConcatProperties, LenProperties DEF Ledger
    <3>2. \A i \in DOMAIN receipts : i \in DOMAIN Ledger /\ Ledger[i] = receipts[i]
      BY <3>1
    <3> QED BY <3>2 DEF FinalInv, Final, Completed
  <2>2. phase = "idle" => Ledger = receipts
    BY <2>0, ConcatEmptySeq DEF FinalInv, Ledger
  <2> QED BY <2>1, <2>2 DEF FinalInv, Final, Attested, PublicationIsFinal
<1> QED BY <1>1, <1>2, Inductive, FinalStep, PTL DEF Spec

=============================================================================
