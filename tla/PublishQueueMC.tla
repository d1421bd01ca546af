--------------------------- MODULE PublishQueueMC ---------------------------
(* Small publish queues for TLC. *)
EXTENDS PublishQueue, FiniteSets

Env(live, github, clients) == [live |-> live, github |-> github, clients |-> clients]

\* Every way a week may be run: dry by default, live without a client, with the
\* GitHub client but no configuration, with one client, and with all of them.
AnyWeek ==
    {Env(FALSE, TRUE, Channels), Env(TRUE, TRUE, {}), Env(TRUE, FALSE, {"pr-merge"}),
     Env(TRUE, FALSE, {"webhook"}), Env(TRUE, TRUE, Channels)}

\* A pull request, a data pack (whose record names none) and a webhook.
PackAndRemotes == <<"pr-merge", "pr-merge", "webhook">>

=============================================================================
