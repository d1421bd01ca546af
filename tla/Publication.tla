---------------------------- MODULE Publication ----------------------------
(***************************************************************************)
(* What the publish queue promises, without executor, receipts or weeks:   *)
(* a record is announced as published only when the remote service has     *)
(* carried it out or when it was openly rehearsed, what the remote has     *)
(* done cannot be undone, and an announcement is only ever taken back by   *)
(* returning to a saved game.                                              *)
(***************************************************************************)

CONSTANT Records    \* identifiers of queue records

VARIABLES
    announced,      \* records whose status is published
    delivered,      \* records the remote service has carried out
    rehearsed,      \* records published by a dry run
    kept            \* what the saved game holds as announced

vars == <<announced, delivered, rehearsed, kept>>

Init ==
    /\ announced \in SUBSET Records
    /\ delivered \in SUBSET Records
    /\ rehearsed \in SUBSET Records
    /\ announced \subseteq delivered \cup rehearsed
    /\ kept = announced

\* The remote carries the publication out and the answer is lost.
Deliver(r) ==
    /\ delivered' = delivered \cup {r}
    /\ UNCHANGED <<announced, rehearsed, kept>>

\* The record is published, by this call of the remote or by an earlier one.
Publish(r) ==
    /\ delivered' = delivered \cup {r}
    /\ announced' = announced \cup {r}
    /\ UNCHANGED <<rehearsed, kept>>

\* The record is published without the remote.
Rehearse(r) ==
    /\ r \notin announced
    /\ rehearsed' = rehearsed \cup {r}
    /\ announced' = announced \cup {r}
    /\ UNCHANGED <<delivered, kept>>

Keep ==
    /\ kept' = announced
    /\ UNCHANGED <<announced, delivered, rehearsed>>

Restore ==
    /\ announced' = kept
    /\ UNCHANGED <<delivered, rehearsed, kept>>

Next ==
    \/ \E r \in Records : Deliver(r) \/ Publish(r) \/ Rehearse(r)
    \/ Keep
    \/ Restore

Spec == Init /\ [][Next]_vars

=============================================================================
