------------------------------- MODULE Outbox -------------------------------
(***************************************************************************)
(* The transactional outbox: rows written by business transactions, the    *)
(* publishers (one per API replica) that poll the table and dispatch to    *)
(* the in-process bus, dead-lettering after MaxAttempts failures, and the  *)
(* scheduler's sweep that requeues dead letters.                           *)
(*                                                                         *)
(* A publisher works in one transaction: SELECT ... FOR UPDATE SKIP LOCKED *)
(* claims a batch, every event of it is dispatched, and the outcome is     *)
(* written and committed.  An error on the way, or the end of the process, *)
(* rolls back: the events that were dispatched are dispatched again.  The  *)
(* session may also end unseen while the batch is dispatched: its row      *)
(* locks are gone, but the publisher goes on to the end of the batch and   *)
(* only then fails to write the outcome.                                   *)
(***************************************************************************)
EXTENDS Naturals, FiniteSets

CONSTANTS
  Event,        \* events, numbered in the order of occurred_at
  Publisher,    \* replicas
  Poison,       \* events that some handler never accepts
  BatchSize,    \* rows a publisher claims at most
  MaxAttempts,  \* MaxOutboxAttempts
  MaxOutages,   \* bound on how often the handlers' downstream breaks
  MaxCrashes    \* bound on how often a publisher's transaction is lost

ASSUME OutboxAssumption ==
  /\ Event \subseteq Nat /\ IsFiniteSet(Event)
  /\ Poison \subseteq Event
  /\ BatchSize \in Nat \ {0} /\ MaxAttempts \in Nat \ {0} 
  /\ MaxOutages \in Nat /\ MaxCrashes \in Nat

VARIABLES
  row,        \* status of each event's row
  attempts,   \* attempt_count
  delivered,  \* events that every handler has accepted at least once
  pub,        \* each publisher: idle, or its batch (perhaps without its session)
              \* and the outcome so far
  aged,       \* dead letters parked for at least requeueAfter
  up,         \* whether the handlers' downstream works
  outages,    \* how often it broke
  crashes     \* how often a publisher's transaction was lost

vars == <<row, attempts, delivered, pub, aged, up, outages, crashes>>

Status == {"none", "pending", "published", "dead"}
Idle   == [at |-> "idle"]
Batch  == [at : {"batch", "lost"}, todo : SUBSET Event, ok : SUBSET Event, bad : SUBSET Event]

(* The rows that the publisher's transaction has locked. *)
Claimed(p) == IF pub[p].at = "batch" THEN pub[p].todo \cup pub[p].ok \cup pub[p].bad ELSE {}

Init ==
  /\ row = [e \in Event |-> "none"]
  /\ attempts = [e \in Event |-> 0]
  /\ delivered = {}
  /\ pub = [p \in Publisher |-> Idle]
  /\ aged = {}
  /\ up = TRUE
  /\ outages = 0
  /\ crashes = 0

(* A business transaction commits with its event. *)
WriteOutbox(e) ==
  /\ row[e] = "none"
  /\ row' = [row EXCEPT ![e] = "pending"]
  /\ UNCHANGED <<attempts, delivered, pub, aged, up, outages, crashes>>

-----------------------------------------------------------------------------
(* SKIP LOCKED: the rows of other publishers' batches are passed over. *)
Visible(p) == {e \in Event : row[e] = "pending" /\ \A q \in Publisher \ {p} : e \notin Claimed(q)}

(* ORDER BY occurred_at LIMIT BatchSize. *)
IsBatch(B, V) ==
  /\ B \subseteq V
  /\ Cardinality(B) = (IF Cardinality(V) < BatchSize THEN Cardinality(V) ELSE BatchSize)
  /\ \A b \in B, v \in V \ B : b < v

(* A tick.  It is also what ages the dead letters: requeueAfter (an hour)  *)
(* is much longer than the polling interval (two seconds), so a row is not *)
(* requeued before the publishers have polled without it.                  *)
Select(p) ==
  /\ pub[p] = Idle
  /\ \E B \in SUBSET Visible(p) :
       /\ IsBatch(B, Visible(p))
       /\ pub' = IF B = {} THEN pub
                 ELSE [pub EXCEPT ![p] = [at |-> "batch", todo |-> B, ok |-> {}, bad |-> {}]]
  /\ aged' = {e \in Event : row[e] = "dead"}
  /\ UNCHANGED <<row, attempts, delivered, up, outages, crashes>>

(* Publish runs every handler; one failure fails the event. *)
Accepted(e) == up /\ e \notin Poison

Dispatch(p, e) ==
  /\ pub[p] # Idle
  /\ e \in pub[p].todo
  /\ \A f \in pub[p].todo : e <= f
  /\ IF Accepted(e)
     THEN /\ pub' = [pub EXCEPT ![p] = [at |-> @.at, todo |-> @.todo \ {e},
                                        ok |-> @.ok \cup {e}, bad |-> @.bad]]
          /\ delivered' = delivered \cup {e}
     ELSE /\ pub' = [pub EXCEPT ![p] = [at |-> @.at, todo |-> @.todo \ {e},
                                        ok |-> @.ok, bad |-> @.bad \cup {e}]]
          /\ UNCHANGED delivered
  /\ UNCHANGED <<row, attempts, aged, up, outages, crashes>>

(* classifyFailure, for a row that had failed n times before. *)
DeadLetter(n) == n + 1 >= MaxAttempts

(* Bug: the whole batch is marked published. *)
CommitAll(p) ==
  /\ pub[p].at = "batch" /\ pub[p].todo = {}
  /\ row' = [e \in Event |-> IF e \in Claimed(p) THEN "published" ELSE row[e]]
  /\ attempts' = [e \in Event |-> IF e \in pub[p].bad THEN attempts[e] + 1 ELSE attempts[e]]
  /\ pub' = [pub EXCEPT ![p] = Idle]
  /\ UNCHANGED <<delivered, aged, up, outages, crashes>>

(* Bug: the failures of the batch are not written back. *)
CommitForgets(p) ==
  /\ pub[p].at = "batch" /\ pub[p].todo = {}
  /\ row' = [e \in Event |-> IF e \in pub[p].ok THEN "published" ELSE row[e]]
  /\ pub' = [pub EXCEPT ![p] = Idle]
  /\ UNCHANGED <<attempts, delivered, aged, up, outages, crashes>>

Commit(p) ==
  /\ pub[p].at = "batch" /\ pub[p].todo = {}
  /\ row' = [e \in Event |-> CASE e \in pub[p].ok -> "published"
                               [] e \in pub[p].bad /\ DeadLetter(attempts[e]) -> "dead"
                               [] OTHER -> row[e]]
  /\ attempts' = [e \in Event |-> IF e \in pub[p].bad THEN attempts[e] + 1 ELSE attempts[e]]
  /\ pub' = [pub EXCEPT ![p] = Idle]
  /\ UNCHANGED <<delivered, aged, up, outages, crashes>>

(* A database error when the outcome is written, or the end of the process *)
(* and its restart.                                                        *)
Crash(p) ==
  /\ pub[p] # Idle
  /\ crashes < MaxCrashes
  /\ pub' = [pub EXCEPT ![p] = Idle]
  /\ crashes' = crashes + 1
  /\ UNCHANGED <<row, attempts, delivered, aged, up, outages>>

(* The session ends between two statements of the transaction: the locks   *)
(* are gone and another replica may claim the rows.                        *)
LoseSession(p) ==
  /\ pub[p].at = "batch"
  /\ crashes < MaxCrashes
  /\ pub' = [pub EXCEPT ![p] = [at |-> "lost", todo |-> @.todo, ok |-> @.ok, bad |-> @.bad]]
  /\ crashes' = crashes + 1
  /\ UNCHANGED <<row, attempts, delivered, aged, up, outages>>

(* "mark published" fails on the lost session: nothing is written. *)
Abandon(p) ==
  /\ pub[p].at = "lost" /\ pub[p].todo = {}
  /\ pub' = [pub EXCEPT ![p] = Idle]
  /\ UNCHANGED <<row, attempts, delivered, aged, up, outages, crashes>>

-----------------------------------------------------------------------------
(* Bug: requeueing is disabled. *)
SweepNothing ==
  /\ aged # {}
  /\ aged' = {}
  /\ UNCHANGED <<row, attempts, delivered, pub, up, outages, crashes>>

Sweep ==
  /\ aged # {}
  /\ row' = [e \in Event |-> IF e \in aged THEN "pending" ELSE row[e]]
  /\ attempts' = [e \in Event |-> IF e \in aged THEN 0 ELSE attempts[e]]
  /\ aged' = {}
  /\ UNCHANGED <<delivered, pub, up, outages, crashes>>

(* The handlers' downstream. *)
Break ==
  /\ up /\ outages < MaxOutages
  /\ up' = FALSE /\ outages' = outages + 1
  /\ UNCHANGED <<row, attempts, delivered, pub, aged, crashes>>

Recover ==
  /\ ~up
  /\ up' = TRUE
  /\ UNCHANGED <<row, attempts, delivered, pub, aged, outages, crashes>>

Next ==
  \/ \E e \in Event : WriteOutbox(e)
  \/ \E p \in Publisher : Select(p) \/ Commit(p) \/ Crash(p) \/ LoseSession(p) \/ Abandon(p)
  \/ \E p \in Publisher, e \in Event : Dispatch(p, e)
  \/ Sweep \/ Break \/ Recover

Spec == Init /\ [][Next]_vars

(* The polling loop of a publisher and the scheduler's sweep run for ever, *)
(* and the downstream recovers from an outage.  A publisher that is in the *)
(* middle of a batch goes on with it.                                      *)
Fairness ==
  /\ \A p \in Publisher : /\ WF_vars(Select(p))
                          /\ WF_vars(\E e \in Event : Dispatch(p, e))
                          /\ WF_vars(Commit(p)) /\ WF_vars(Abandon(p))
  /\ WF_vars(Sweep)
  /\ WF_vars(Recover)

FairSpec == Spec /\ Fairness

-----------------------------------------------------------------------------
(* Type invariant. *)
TypeOK ==
  /\ row \in [Event -> Status]
  /\ attempts \in [Event -> 0..MaxAttempts]
  /\ delivered \subseteq Event
  /\ pub \in [Publisher -> Batch \cup {Idle}]
  /\ aged \subseteq {e \in Event : row[e] = "dead"}
  /\ up \in BOOLEAN
  /\ outages \in 0..MaxOutages
  /\ crashes \in 0..MaxCrashes

(* No two transactions hold the same row, and none holds a row that is     *)
(* already published or dead-lettered: SKIP LOCKED, and the locks held     *)
(* until the commit.  So an outcome is only ever written to a row that is  *)
(* still pending, also after a session was lost and its batch was claimed  *)
(* again while the first publisher still dispatches it.                    *)
ClaimsAreExclusive ==
  \A p \in Publisher :
    /\ \A e \in Claimed(p) : row[e] = "pending"
    /\ \A q \in Publisher \ {p} : Claimed(p) \cap Claimed(q) = {}

(* A row is dead-lettered exactly when its retry budget is used up, and a  *)
(* requeued row gets the whole budget again.                               *)
RetryBudget ==
  \A e \in Event :
    /\ row[e] = "dead" <=> attempts[e] = MaxAttempts
    /\ row[e] = "none" => attempts[e] = 0

(* The outbox keeps the promise of AtLeastOnce. *)
Promise == INSTANCE AtLeastOnce WITH
  recorded <- {e \in Event : row[e] # "none"},
  settled  <- {e \in Event : row[e] = "published"}
KeepsPromise == Promise!AbstractSpec

(* Every row the publishers see is published or dead-lettered: a poison    *)
(* event at the head of the queue does not hold up the others.             *)
RowsSettle ==
  \A e \in Event : row[e] = "pending" ~> row[e] \in {"published", "dead"}

(* Every committed event its handlers can accept is published in the end,  *)
(* also one that was dead-lettered during an outage.                       *)
EventsArePublished ==
  \A e \in Event \ Poison : row[e] = "pending" ~> row[e] = "published"
=============================================================================
