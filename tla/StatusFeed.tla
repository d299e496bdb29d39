----------------------------- MODULE StatusFeed ------------------------------
(***************************************************************************)
(* The DeviceStatusStore of a slave (slave/src/device_status.rs) and what  *)
(* the API serves from it (slave/src/slave_api.rs): the subscription, a    *)
(* task that forwards every broadcast to a bounded queue, and the log, a   *)
(* ring that a client reads page by page.                                  *)
(*                                                                         *)
(* Every update_* function holds the write lock while it changes the       *)
(* status, appends to the log and broadcasts, so it is one step.  The      *)
(* current status is its version, a counter of the writes, and the device  *)
(* state; of a status on its way to the client only the version matters.   *)
(* That the device has been in Shutdown is kept with the status: from then *)
(* on the thread that runs the tasks and the server may be blocked for     *)
(* ever in its joins (ShutdownCompletes of SlaveRuntime).                  *)
(***************************************************************************)
EXTENDS Naturals, Sequences, DeviceState

CONSTANTS
    StatusCapacity,     \* STATUS_BROADCAST_CAPACITY
    QueueCapacity,      \* of the channel between the task and the stream
    LogCapacity,        \* LOG_CAPACITY
    PageLimit,          \* the most entries a page of the log has
    MaxPublished,       \* bound on the updates that are published
    MaxSilent           \* bound on the updates that are not

ASSUME StatusFeedAssumption ==
    /\ {StatusCapacity, QueueCapacity, LogCapacity, PageLimit} \subseteq Nat \ {0}
    /\ {MaxPublished, MaxSilent} \subseteq Nat

VARIABLES
    status,         \* DeviceStatusStore::current
    published,      \* the versions ever broadcast, oldest first
    log,            \* log_entries: numbers of published updates, newest first
    task,           \* the task of a subscription
    queue,          \* what it has sent and the client has not read
    client,         \* the reader of the stream
    pager           \* a client that reads the log page by page

vars == <<status, published, log, task, queue, client, pager>>

Terminal == {"Error", "Shutdown"}
Versions == 0..MaxPublished + MaxSilent

Statuses == [version: Versions, state: DeviceStates, down: BOOLEAN]

InitialStatus == [version |-> 0, state |-> "Init", down |-> FALSE]
NoTask == [pc |-> "none", periodic |-> FALSE, from |-> 1, next |-> 1, held |-> 0]
------------------------------------------------------------------------------
\* newest: the latest version the client has seen; older: how many statuses in
\* a row it has got since that are older.  lowest: the oldest log entry read.
Init ==
    /\ status = InitialStatus
    /\ published = <<>>
    /\ log = <<>>
    /\ task = NoTask
    /\ queue = <<>>
    /\ client = [stream |-> "none", newest |-> 0, older |-> 0]
    /\ pager = [offset |-> 0, lowest |-> 0]
------------------------------------------------------------------------------
(***************************************************************************)
(* Updates of the status.                                                  *)
(***************************************************************************)
Least(a, b) == IF a <= b THEN a ELSE b

\* A mutant: the ring is never cut.
AppendLog_Unbounded(entry) == <<entry>> \o log

\* A mutant: the newest entry makes room, not the oldest.
AppendLog_PopsFront(entry) ==
    <<entry>> \o IF Len(log) = LogCapacity THEN Tail(log) ELSE log

\* append_log: the oldest entry makes room when the ring is full.
AppendLog(entry) == <<entry>> \o SubSeq(log, 1, Least(Len(log), LogCapacity - 1))

\* The log entry and the broadcast of a new status, under the write lock.
Publish(new) ==
    /\ Len(published) < MaxPublished
    /\ status' = new
    /\ published' = Append(published, new.version)
    /\ log' = AppendLog(Len(published'))
    /\ UNCHANGED <<task, queue, client, pager>>

NextVersion(s) ==
    [version |-> status.version + 1, state |-> s, down |-> status.down \/ s = "Shutdown"]

\* A mutant: a state change is written and logged, and not broadcast.
UpdateState_Quiet(s) ==
    /\ MayTransition(status.state, s)
    /\ status.version - Len(published) < MaxSilent
    /\ status' = NextVersion(s)
    /\ UNCHANGED <<published, log, task, queue, client, pager>>

\* update_state, whose callers follow the state machine; a state written again
\* is published like a change.
UpdateState(s) ==
    /\ MayTransition(status.state, s)
    /\ Publish(NextVersion(s))

\* update_status_code, update_sync_status, update_temperature and
\* increment_missed_cycles_by of a positive count.
UpdateOther == Publish(NextVersion(status.state))

\* update_min_cycle_time, update_max_cycle_time and the cycle metrics are
\* neither logged nor broadcast.
UpdateSilently ==
    /\ status.version - Len(published) < MaxSilent
    /\ status' = NextVersion(status.state)
    /\ UNCHANGED <<published, log, task, queue, client, pager>>
------------------------------------------------------------------------------
(***************************************************************************)
(* The subscription.                                                       *)
(***************************************************************************)

\* subscribe_to_device_status: the broadcast receiver starts behind everything
\* sent so far.
Subscribe(periodic) ==
    /\ task.pc = "none"
    /\ task' = [NoTask EXCEPT !.pc = "check", !.periodic = periodic,
                              !.from = Len(published) + 1, !.next = Len(published) + 1]
    /\ client' = [client EXCEPT !.stream = "open"]
    /\ UNCHANGED <<status, published, log, queue, pager>>

\* The head of the loop.
CheckState ==
    /\ task.pc = "check"
    /\ task' = [task EXCEPT !.pc = IF status.state \in Terminal THEN "ended" ELSE "select"]
    /\ UNCHANGED <<status, published, log, queue, client, pager>>

\* The oldest update the broadcast channel still holds.
Oldest == IF Len(published) <= StatusCapacity THEN 1 ELSE Len(published) - StatusCapacity + 1

\* A mutant: a lagging receiver ends the subscription.
Recv_LagEnds ==
    /\ task.pc = "select"
    /\ task.next <= Len(published)
    /\ task' = IF task.next < Oldest THEN [task EXCEPT !.pc = "ended"]
               ELSE [task EXCEPT !.pc = "send", !.next = @ + 1, !.held = published[task.next]]
    /\ UNCHANGED <<status, published, log, queue, client, pager>>

\* A mutant: the update that is forwarded stays in the receiver.
Recv_Peeks ==
    /\ task.pc = "select"
    /\ task.next <= Len(published)
    /\ task' = IF task.next < Oldest THEN [task EXCEPT !.pc = "check", !.next = Oldest]
               ELSE [task EXCEPT !.pc = "send", !.held = published[task.next]]
    /\ UNCHANGED <<status, published, log, queue, client, pager>>

\* receiver.recv(): Lagged moves on to the oldest update that is left.  Closed
\* cannot happen, the task has a clone of the store.
Recv ==
    /\ task.pc = "select"
    /\ task.next <= Len(published)
    /\ task' = IF task.next < Oldest THEN [task EXCEPT !.pc = "check", !.next = Oldest]
               ELSE [task EXCEPT !.pc = "send", !.next = @ + 1, !.held = published[task.next]]
    /\ UNCHANGED <<status, published, log, queue, client, pager>>

\* interval.tick(): the current status is sent, ahead of updates that wait.
PeriodicStatus ==
    /\ task.pc = "select"
    /\ task.periodic
    /\ task' = [task EXCEPT !.pc = "send", !.held = status.version]
    /\ UNCHANGED <<status, published, log, queue, client, pager>>

\* sender.send().await waits for room and fails once the stream is dropped.
Send ==
    /\ task.pc = "send"
    /\ \/ /\ client.stream = "dropped"
          /\ task' = [task EXCEPT !.pc = "ended", !.held = 0]
          /\ UNCHANGED queue
       \/ /\ client.stream = "open"
          /\ Len(queue) < QueueCapacity
          /\ queue' = Append(queue, task.held)
          /\ task' = [task EXCEPT !.pc = "check", !.held = 0]
    /\ UNCHANGED <<status, published, log, client, pager>>

Task == CheckState \/ Recv \/ PeriodicStatus \/ Send

\* The client reads the stream, and meets its end behind what was queued.
ReadStatus ==
    /\ client.stream = "open"
    /\ \/ /\ queue # <<>>
          /\ queue' = Tail(queue)
          /\ client' = IF Head(queue) < client.newest
                       THEN [client EXCEPT !.older = @ + 1]
                       ELSE [client EXCEPT !.newest = Head(queue), !.older = 0]
       \/ /\ queue = <<>>
          /\ task.pc = "ended"
          /\ client' = [client EXCEPT !.stream = "ended"]
          /\ UNCHANGED queue
    /\ UNCHANGED <<status, published, log, task, pager>>

\* The client goes away.
DropStream ==
    /\ client.stream = "open"
    /\ client' = [stream |-> "dropped", newest |-> 0, older |-> 0]
    /\ queue' = <<>>
    /\ UNCHANGED <<status, published, log, task, pager>>
------------------------------------------------------------------------------
(***************************************************************************)
(* The log.                                                                *)
(***************************************************************************)

\* get_log, behind the cap of get_device_status_log on the limit.
GetLog(offset, limit) ==
    SubSeq(log, offset + 1, Least(offset + Least(limit, PageLimit), Len(log)))

\* A client asks for the page behind the entries it has, until one is empty.
ReadLogPage(limit) ==
    /\ LET page == GetLog(pager.offset, limit)
       IN  pager' = IF page = <<>> THEN [offset |-> 0, lowest |-> 0]
                    ELSE [offset |-> pager.offset + Len(page), lowest |-> page[Len(page)]]
    /\ UNCHANGED <<status, published, log, task, queue, client>>
------------------------------------------------------------------------------
Update == (\E s \in DeviceStates : UpdateState(s)) \/ UpdateOther \/ UpdateSilently

Next ==
    \/ Update
    \/ \E periodic \in BOOLEAN : Subscribe(periodic)
    \/ Task
    \/ ReadStatus
    \/ DropStream
    \/ \E limit \in 1..PageLimit + 1 : ReadLogPage(limit)

\* Until the device is shut down the runtime polls the task and the server, and
\* the client keeps reading while it is there.  After that nothing is assumed.
Fairness ==
    /\ WF_vars(~status.down /\ Task)
    /\ WF_vars(~status.down /\ ReadStatus)

Spec == Init /\ [][Next]_vars /\ Fairness
------------------------------------------------------------------------------
(***************************************************************************)
(* Properties.                                                             *)
(***************************************************************************)

\* Every variable has its type; the log and the queue keep to their capacity.
TypeOK ==
    /\ status \in Statuses
    /\ published \in Seq(Versions)
    /\ Len(published) <= MaxPublished
    /\ log \in Seq(1..MaxPublished)
    /\ Len(log) <= LogCapacity
    /\ task \in [pc: {"none", "check", "select", "send", "ended"}, periodic: BOOLEAN,
                 from: 1..MaxPublished + 1, next: 1..MaxPublished + 1, held: Versions]
    /\ queue \in Seq(Versions)
    /\ Len(queue) <= QueueCapacity
    /\ client \in [stream: {"none", "open", "ended", "dropped"}, newest: Versions, older: Nat]
    /\ pager \in [offset: 0..LogCapacity, lowest: 0..MaxPublished]

\* What a subscriber is told never goes back in time, except behind a periodic
\* status, and then only by what the broadcast channel holds.
BoundedRegress ==
    client.older <= IF task.periodic THEN StatusCapacity ELSE 0

\* A client that pages through the log while entries are added skips none: the
\* page it asks for next joins the entries it has, and when there is no such
\* page it has everything that is left of the log.
NoEntrySkipped ==
    pager.offset > 0 =>
        IF pager.offset < Len(log) THEN log[pager.offset + 1] >= pager.lowest - 1
                                   ELSE log[Len(log)] >= pager.lowest

\* The update with number n has been published to a subscriber that is there.
PublishedTo(n) ==
    /\ n \in task.from..Len(published)
    /\ client.stream = "open"
    /\ task.pc # "ended"

\* The client has seen the update with number n, or a later status.
Seen(n) == n <= Len(published) /\ client.newest >= published[n]

\* A client that keeps reading is told every update or a later one, however
\* far it falls behind, unless the device enters Error or is shut down.
UpdateArrives ==
    \A n \in 1..MaxPublished :
        PublishedTo(n) ~> \/ Seen(n) \/ client.stream = "dropped"
                          \/ status.state = "Error" \/ status.down

\* A device that stays in Error ends the stream, also for a client that is far
\* behind: the task gets past a full queue and looks at the state.  Nothing of
\* the kind holds in Shutdown, where the task may never be polled again.
StreamEnds ==
    client.stream = "open" /\ status.state = "Error" /\ ~status.down
        ~> client.stream # "open" \/ status.state # "Error"

\* What the interface promises: a change is published to the subscribers.
ChangesPublished ==
    \A n \in 1..MaxPublished :
        PublishedTo(n) ~> Seen(n) \/ client.stream = "dropped" \/ status.down
==============================================================================
