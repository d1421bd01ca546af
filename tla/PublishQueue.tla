---------------------------- MODULE PublishQueue ----------------------------
(***************************************************************************)
(* The publish queue: data packs that were applied are enqueued once a     *)
(* week, then every record of the queue is executed in the order of its    *)
(* id, either by a dry run or through the client of its channel, and the   *)
(* receipts of the week are merged into a bounded ledger.                  *)
(*                                                                         *)
(* The remote service may refuse a call, or carry it out and lose the      *)
(* answer; the process may stop at any point and start again from a saved  *)
(* game.  Week numbers are left out: they only order the ledger, which is  *)
(* kept here as a sequence, oldest receipt first.                          *)
(***************************************************************************)
EXTENDS Integers, Sequences

CONSTANTS
    LastRecord,     \* records are 1 .. LastRecord, in the order of their ids
    Packs,          \* the records that stand for modifiable data packs
    Target,         \* target of the record's publish_channel hook, or NoChannel
    Resolvable,     \* records that name their pull request, approval or endpoint
    Environments,   \* executor environments and clients a week may run with
    NoChannel,      \* the record has no publish_channel hook
    MaxReceipts,    \* MAX_PUBLISH_QUEUE_EXECUTION_RECEIPTS
    MaxReloads      \* bound on the returns to a saved game

Records == 1 .. LastRecord

Channels == {"pr-merge", "manual-approval", "webhook"}

ASSUME QueueAssumption ==
    /\ LastRecord \in Nat
    /\ Packs \subseteq Records
    /\ Resolvable \subseteq Records
    /\ MaxReceipts \in Nat \ {0}
    /\ MaxReloads \in Nat

ASSUME EnvironmentAssumption ==
    Environments \subseteq
        [live : BOOLEAN, github : BOOLEAN, clients : SUBSET Channels]

VARIABLES
    phase,          \* "idle" between weeks, "executing" within the weekly tick
    environment,    \* environment and clients of the running tick
    cursor,         \* next record of the batch
    status,         \* PublishQueueRecord.status; "absent" is no such record
    packsReady,     \* applied packs whose publish intent is ready_to_publish
    noted,          \* reportable receipts of the running tick
    receipts,       \* publishQueueExecutionReceipts, oldest first
    delivered,      \* what the remote services have carried out
    rehearsed,      \* history: records that were published by a dry run
    save,           \* the saved game: its records and its receipts
    reloads         \* how often a saved game was loaded

vars == <<phase, environment, cursor, status, packsReady, noted, receipts,
          delivered, rehearsed, save, reloads>>

Statuses == {"absent", "ready_to_publish", "needs_revision", "rejected", "published"}

\* A receipt with a channel reference is live; one with a stub is a dry run's.
Receipt ==
    [recordId : Records, outcome : {"completed", "rejected", "skipped"},
     channel : {"ref", "stub", "none"}]

-----------------------------------------------------------------------------
(* Which way a week is executed *)

\* resolveEffectivePublishQueueWeeklyExecutionMode: live mode needs a complete
\* GitHub configuration or a client of one of the other channels.
EffectiveLive(e) ==
    /\ e.live
    /\ e.github \/ e.clients \cap {"manual-approval", "webhook"} # {}

\* Without any client even a live configuration runs dry.
RunsLive(e) == EffectiveLive(e) /\ e.clients # {}

\* The client of the channel is handed to the live executor.
Reachable(e, channel) ==
    /\ channel \in e.clients
    /\ channel = "pr-merge" => e.github

-----------------------------------------------------------------------------
(* The remote service, as its clients report it *)

\* A call for what was already done is answered as such (405 "already merged",
\* 409); otherwise it is carried out or refused.  Any answer may be lost.
Answers(r) ==
    IF r \in delivered THEN {"already", "lost"}
                       ELSE {"accepted", "refused", "lost"}

\* Mutant: a publication that was already carried out counts as a failure.
SucceedsOnlyOnce(answer) == answer = "accepted"

Succeeds(answer) == answer \in {"accepted", "already"}

CarriedOut(answer) == answer \in {"accepted", "already", "lost"}

-----------------------------------------------------------------------------
(* Receipts *)

\* Mutant: what was published before is reported every week.
ReportableAlways(receipt) == TRUE

\* isReportablePublishQueueReceipt: a skip says only that it was published before.
Reportable(receipt) == receipt.outcome # "skipped"

\* receiptAlignsWithRecord
Aligns(receipt, s) == receipt.outcome = "completed" => s = "published"

\* enforcePublishQueueExecutionReceiptBound: the newest are retained.
Bound(ledger) ==
    IF Len(ledger) <= MaxReceipts
    THEN ledger
    ELSE SubSeq(ledger, Len(ledger) - MaxReceipts + 1, Len(ledger))

-----------------------------------------------------------------------------
(* A game starts from an imported save: any records but, for this model,   *)
(* none published before receipts were kept.                               *)

Init ==
    /\ phase = "idle"
    /\ environment \in Environments
    /\ cursor = 1
    /\ status \in [Records -> Statuses \ {"published"}]
    /\ \A r \in Packs : status[r] = "absent"
    /\ \A r \in Records \ Packs : status[r] # "absent"
    /\ packsReady \in SUBSET Packs
    /\ noted = <<>>
    /\ receipts = <<>>
    /\ delivered = {}
    /\ rehearsed = {}
    /\ save = [status |-> status, receipts |-> <<>>]
    /\ reloads = 0

-----------------------------------------------------------------------------
(* The weekly tick *)

\* applyWeeklyModifiableDataPackPublishQueueEnqueueTick: an applied pack that is
\* ready is enqueued unless its record exists.
Enqueued ==
    [r \in Records |->
        IF r \in packsReady /\ status[r] = "absent" THEN "ready_to_publish" ELSE status[r]]

\* The enqueue tick and the start of the execution tick.
BeginTick(e) ==
    /\ phase = "idle"
    /\ phase' = "executing"
    /\ environment' = e
    /\ cursor' = 1
    /\ status' = Enqueued
    /\ noted' = <<>>
    /\ UNCHANGED <<packsReady, receipts, delivered, rehearsed, save, reloads>>

\* One record is done: its next status and its receipt.
Executed(r, next, outcome, channel) ==
    LET receipt == [recordId |-> r, outcome |-> outcome, channel |-> channel]
    IN  /\ status' = [status EXCEPT ![r] = next]
        /\ noted' = IF Reportable(receipt) /\ Aligns(receipt, next)
                    THEN Append(noted, receipt) ELSE noted
        /\ cursor' = cursor + 1
        /\ UNCHANGED <<phase, environment, packsReady, receipts, save, reloads>>

Rejected(r) == Executed(r, status[r], "rejected", "none")

\* The batch has reached record r.
Reached(r) == phase = "executing" /\ cursor = r /\ cursor \in Records

\* buildPreExecutionReceipt: the record may be executed.
Ready(r) == status[r] = "ready_to_publish" /\ Target[r] # NoChannel

\* The batch has no such record.
SkipAbsent(r) ==
    /\ Reached(r)
    /\ status[r] = "absent"
    /\ cursor' = cursor + 1
    /\ UNCHANGED <<phase, environment, status, packsReady, noted, receipts,
                   delivered, rehearsed, save, reloads>>

\* buildPreExecutionReceipt: published before, not ready, or no channel.
SkipRecord(r) ==
    /\ Reached(r)
    /\ ~Ready(r)
    /\ \/ /\ status[r] = "published"
          /\ Executed(r, "published", "skipped", "none")
       \/ /\ status[r] \notin {"absent", "published"}
          /\ Rejected(r)
    /\ UNCHANGED <<delivered, rehearsed>>

\* executePublishQueueRecordDryRun
ExecuteDryRun(r) ==
    /\ Reached(r)
    /\ Ready(r)
    /\ ~RunsLive(environment)
    /\ Executed(r, "published", "completed", "stub")
    /\ rehearsed' = rehearsed \cup {r}
    /\ UNCHANGED delivered

\* The live executor finds no client, no supported target, or nothing to call.
ExecuteUnreachable(r) ==
    /\ Reached(r)
    /\ Ready(r)
    /\ RunsLive(environment)
    /\ \/ Target[r] \notin Channels
       \/ ~Reachable(environment, Target[r])
       \/ r \notin Resolvable
    /\ Rejected(r)
    /\ UNCHANGED <<delivered, rehearsed>>

\* Mutant: the record is published whatever the call returned.
FinalizedAnyway(r, answer) == Executed(r, "published", "completed", "ref")

\* finalizeLiveMergeExecution and its counterparts of the other channels.
Finalized(r, answer) ==
    IF Succeeds(answer) THEN Executed(r, "published", "completed", "ref")
                        ELSE Rejected(r)

\* The live executor calls the client of the record's channel.
ExecuteLive(r, answer) ==
    /\ Reached(r)
    /\ Ready(r)
    /\ RunsLive(environment)
    /\ Target[r] \in Channels
    /\ Reachable(environment, Target[r])
    /\ r \in Resolvable
    /\ answer \in Answers(r)
    /\ delivered' = IF CarriedOut(answer) THEN delivered \cup {r} ELSE delivered
    /\ Finalized(r, answer)
    /\ UNCHANGED rehearsed

\* mergePublishQueueExecutionReceipts
MergeReceipts ==
    /\ phase = "executing"
    /\ cursor = LastRecord + 1
    /\ phase' = "idle"
    /\ receipts' = Bound(receipts \o noted)
    /\ noted' = <<>>
    /\ UNCHANGED <<environment, cursor, status, packsReady, delivered, rehearsed,
                   save, reloads>>

-----------------------------------------------------------------------------
(* Saved games *)

\* The state between weeks is written out.
SaveGame ==
    /\ phase = "idle"
    /\ save' = [status |-> status, receipts |-> receipts]
    /\ UNCHANGED <<phase, environment, cursor, status, packsReady, noted, receipts,
                   delivered, rehearsed, reloads>>

\* Mutant: a reload brings back the records and leaves the ledger as it is.
ReloadedLedgerKept == receipts

\* Mutant: no record is known yet when the receipts are sanitized.
ReloadedLedgerOrphaned == <<>>

\* sanitizePublishQueueExecutionReceipts: the saved receipts, bounded.
ReloadedLedger == Bound(save.receipts)

\* The process stops, perhaps in the middle of a batch, and the saved game is
\* loaded; the remote services keep what they have done.
Reload ==
    /\ reloads < MaxReloads
    /\ reloads' = reloads + 1
    /\ phase' = "idle"
    /\ cursor' = 1
    /\ noted' = <<>>
    /\ status' = save.status
    /\ receipts' = ReloadedLedger
    /\ UNCHANGED <<environment, packsReady, delivered, rehearsed, save>>

-----------------------------------------------------------------------------

\* The call of the client succeeds.
Confirm(r) == \E answer \in {"accepted", "already"} : ExecuteLive(r, answer)

ExecuteRecord(r) ==
    \/ SkipAbsent(r)
    \/ SkipRecord(r)
    \/ ExecuteDryRun(r)
    \/ ExecuteUnreachable(r)
    \/ \E answer \in Answers(r) : ExecuteLive(r, answer)

Tick ==
    \/ \E e \in Environments : BeginTick(e)
    \/ \E r \in Records : ExecuteRecord(r)
    \/ MergeReceipts

Next == Tick \/ SaveGame \/ Reload

Spec == Init /\ [][Next]_vars

\* The weeks go on, and a call that is repeated for ever is answered at last.
FairSpec ==
    /\ Spec
    /\ WF_vars(Tick)
    /\ \A r \in Records : SF_vars(Confirm(r))

-----------------------------------------------------------------------------
(* Properties *)

\* The types of all variables; the cursor stays within the batch.
TypeOK ==
    /\ phase \in {"idle", "executing"}
    /\ environment \in Environments
    /\ cursor \in 1 .. LastRecord + 1
    /\ status \in [Records -> Statuses]
    /\ packsReady \subseteq Packs
    /\ noted \in Seq(Receipt)
    /\ receipts \in Seq(Receipt)
    /\ delivered \subseteq Records
    /\ rehearsed \subseteq Records
    /\ save \in [status : [Records -> Statuses], receipts : Seq(Receipt)]
    /\ reloads \in 0 .. MaxReloads

Completed(ledger) == {i \in DOMAIN ledger : ledger[i].outcome = "completed"}

\* A completed receipt speaks the truth: its record is published, and if the
\* receipt names a live channel, the remote has carried the publication out,
\* also after a crash, a lost answer or a return to an older game.
ReceiptsTrue ==
    \A i \in Completed(receipts) :
        /\ status[receipts[i].recordId] = "published"
        /\ receipts[i].channel = "ref" => receipts[i].recordId \in delivered

\* Publication is the last word on a record: no later receipt speaks of it, and
\* only eviction loses its proof, so that between weeks, while the ledger is not
\* full, each published record has its completed receipt.
PublicationIsFinal ==
    /\ \A i \in Completed(receipts) : \A j \in DOMAIN receipts :
            j > i => receipts[j].recordId # receipts[i].recordId
    /\ phase = "idle" /\ Len(receipts) < MaxReceipts =>
            \A r \in Records : status[r] = "published" =>
                \E i \in Completed(receipts) : receipts[i].recordId = r

\* The queue keeps the promise stated in Publication.
Promise == INSTANCE Publication WITH
    announced <- {r \in Records : status[r] = "published"},
    kept <- {r \in Records : save.status[r] = "published"}

KeepsPromise == Promise!Spec

\* The week that runs is live and has the client that record r needs.
Served(r) == phase = "executing" /\ RunsLive(environment) /\ Reachable(environment, Target[r])

\* A record whose remote can be reached is published at last if live weeks with
\* its client keep coming, although answers get lost, calls are refused, other
\* weeks are dry or lack clients, and games are reloaded.
ReadyGetsPublished ==
    \A r \in Records :
        Target[r] \in Channels /\ r \in Resolvable /\ []<>Served(r) =>
            (status[r] = "ready_to_publish" ~> status[r] = "published")

=============================================================================
