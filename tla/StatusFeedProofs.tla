-------------------------- MODULE StatusFeedProofs ---------------------------
(***************************************************************************)
(* Proofs about StatusFeed, for all capacities, page limits and bounds.    *)
(***************************************************************************)
EXTENDS StatusFeed, SequenceTheorems, TLAPS

\* Every published update is a version of its own; the others are counted.
VersionInv ==
    /\ Len(published) <= status.version
    /\ status.version <= Len(published) + MaxSilent

\* The log holds the youngest updates, the newest first, and no other.
LogInv ==
    /\ Len(log) = Least(Len(published), LogCapacity)
    /\ \A i \in 1..Len(log) : log[i] = Len(published) + 1 - i

\* The entries a reader has are those in front of its offset, or older.
PagerInv ==
    /\ pager.offset <= Len(log)
    /\ pager.offset > 0 => pager.lowest <= Len(published) + 1 - pager.offset

\* The part of the invariant that the subscription does not touch.
StoreInv == VersionInv /\ LogInv /\ PagerInv

IInv == TypeOK /\ StoreInv
------------------------------------------------------------------------------
\* The constants are what their names say.
LEMMA Constants ==
    /\ StatusCapacity \in Nat \ {0} /\ QueueCapacity \in Nat \ {0}
    /\ LogCapacity \in Nat \ {0} /\ PageLimit \in Nat \ {0}
    /\ MaxPublished \in Nat /\ MaxSilent \in Nat
BY StatusFeedAssumption

\* Nothing has been published, nobody has subscribed.
LEMMA InitInv == Init => IInv
<1> SUFFICES ASSUME Init PROVE IInv
  OBVIOUS
<1> USE Constants DEF Init
<1>1. TypeOK
  BY DEF TypeOK, InitialStatus, NoTask, Statuses, Versions, DeviceStates
<1>2. StoreInv
  BY DEF StoreInv, VersionInv, LogInv, PagerInv, InitialStatus, Least
<1> QED
  BY <1>1, <1>2 DEF IInv
------------------------------------------------------------------------------
(***************************************************************************)
(* Updates.                                                                *)
(***************************************************************************)

\* append_log keeps the newest entries, up to the capacity, behind the new one.
LEMMA AppendLogProperties ==
    ASSUME NEW S, log \in Seq(S), NEW e \in S
    PROVE  /\ AppendLog(e) \in Seq(S)
           /\ Len(AppendLog(e)) = Least(Len(log), LogCapacity - 1) + 1
           /\ AppendLog(e)[1] = e
           /\ \A i \in 1..Least(Len(log), LogCapacity - 1) : AppendLog(e)[i + 1] = log[i]
<1> DEFINE kept == Least(Len(log), LogCapacity - 1)
           rest == SubSeq(log, 1, kept)
<1>1. Len(log) \in Nat /\ LogCapacity \in Nat \ {0}
  BY Constants
<1>2. kept \in Nat /\ kept <= Len(log)
  BY <1>1 DEF Least
<1> HIDE DEF kept
<1>3. \A i \in 1..kept : log[i] \in S
  BY <1>1, <1>2
<1>4. rest \in Seq(S) /\ Len(rest) = kept /\ \A i \in 1..kept : rest[i] = log[i]
  <2>1. /\ rest \in Seq(S)
        /\ Len(rest) = IF 1 <= kept THEN kept - 1 + 1 ELSE 0
        /\ \A i \in 1..kept - 1 + 1 : rest[i] = log[1 + i - 1]
    BY <1>2, <1>3, SubSeqProperties
  <2> QED
    BY <1>2, <2>1
<1> HIDE DEF rest
<1>5. <<e>> \in Seq(S) /\ Len(<<e>>) = 1 /\ <<e>>[1] = e
  OBVIOUS
<1>6. AppendLog(e) = <<e>> \o rest
  BY DEF AppendLog, rest, kept
<1>7. /\ <<e>> \o rest \in Seq(S)
      /\ Len(<<e>> \o rest) = 1 + kept
      /\ \A i \in 1..1 + kept : (<<e>> \o rest)[i] = IF i <= 1 THEN <<e>>[i] ELSE rest[i - 1]
  BY <1>4, <1>5, ConcatProperties
<1>8. (<<e>> \o rest)[1] = e
  BY <1>2, <1>5, <1>7
<1>9. ASSUME NEW i \in 1..kept PROVE (<<e>> \o rest)[i + 1] = log[i]
  <2>1. i + 1 \in 1..1 + kept /\ ~(i + 1 <= 1) /\ i + 1 - 1 = i
    BY <1>2
  <2>2. (<<e>> \o rest)[i + 1] = rest[i]
    BY <1>7, <2>1
  <2> QED
    BY <1>4, <2>2
<1> QED
  BY <1>2, <1>6, <1>7, <1>8, <1>9 DEF kept

\* The status an update leaves behind.
LEMMA NextStatus ==
    ASSUME status \in Statuses, NEW v \in Versions, NEW s \in DeviceStates
    PROVE  [version |-> v, state |-> s, down |-> status.down \/ s = "Shutdown"] \in Statuses
<1>1. (status.down \/ s = "Shutdown") \in BOOLEAN
  OBVIOUS
<1> QED BY <1>1 DEF Statuses

\* An update that is logged and broadcast.
LEMMA PublishInv == ASSUME IInv, NEW s \in DeviceStates, Publish(NextVersion(s)) PROVE IInv'
<1> DEFINE n == Len(published)
<1>1. /\ published \in Seq(Versions) /\ n \in Nat /\ n < MaxPublished
      /\ log \in Seq(1..MaxPublished) /\ Len(log) \in Nat /\ Len(log) <= LogCapacity
      /\ status.version \in Nat /\ status \in Statuses
  BY SMTT(30), Constants DEF IInv, TypeOK, Publish, Versions, Statuses
<1>2. /\ status' = [version |-> status.version + 1, state |-> s,
                    down |-> status.down \/ s = "Shutdown"]
      /\ published' = Append(published, status.version + 1)
      /\ log' = AppendLog(Len(published'))
      /\ UNCHANGED <<task, queue, client, pager>>
  BY DEF Publish, NextVersion
<1>3. VersionInv /\ LogInv /\ PagerInv
  BY DEF IInv, StoreInv
<1>4. status.version + 1 \in Versions
  BY <1>1, <1>3, Constants DEF VersionInv, Versions
<1>5. published' \in Seq(Versions) /\ Len(published') = n + 1
  BY <1>1, <1>2, <1>4
<1>6. n + 1 \in 1..MaxPublished
  BY <1>1, Constants
<1> DEFINE kept == Least(Len(log), LogCapacity - 1)
<1>7. /\ log' \in Seq(1..MaxPublished)
      /\ Len(log') = kept + 1
      /\ log'[1] = n + 1
      /\ \A i \in 1..kept : log'[i + 1] = log[i]
  <2>1. log' = AppendLog(n + 1)
    BY <1>2, <1>5
  <2> HIDE DEF n
  <2>2. /\ AppendLog(n + 1) \in Seq(1..MaxPublished)
        /\ Len(AppendLog(n + 1)) = kept + 1
        /\ AppendLog(n + 1)[1] = n + 1
        /\ \A i \in 1..kept : AppendLog(n + 1)[i + 1] = log[i]
    BY <1>1, <1>6, AppendLogProperties
  <2> QED
    BY <2>1, <2>2
<1>8. /\ kept \in Nat /\ kept <= Len(log) /\ kept + 1 <= LogCapacity
      /\ kept + 1 = Least(n + 1, LogCapacity)
      /\ Len(log) <= kept + 1
  BY <1>1, <1>3, Constants DEF LogInv, Least
<1> HIDE DEF kept, n
<1>9. TypeOK'
  <2>1. status' \in Statuses
    BY <1>1, <1>2, <1>4, NextStatus
  <2>2. Len(published') <= MaxPublished /\ Len(log') <= LogCapacity
    BY <1>1, <1>5, <1>6, <1>7, <1>8
  <2> QED
    BY <1>2, <1>5, <1>7, <2>1, <2>2 DEF IInv, TypeOK
<1>10. VersionInv'
  BY <1>1, <1>2, <1>3, <1>5, Constants DEF VersionInv, n
<1>11. LogInv'
  <2>1. ASSUME NEW i \in 1..kept + 1 PROVE log'[i] = n + 1 + 1 - i
    <3>1. CASE i = 1
      BY <1>1, <1>7, <3>1
    <3>2. CASE i # 1
      <4>1. i - 1 \in 1..kept /\ i - 1 \in 1..Len(log) /\ i - 1 + 1 = i
        BY <1>1, <1>8, <3>2
      <4>2. log'[i] = log[i - 1]
        BY <1>7, <4>1
      <4>3. log[i - 1] = n + 1 - (i - 1)
        BY <1>3, <4>1 DEF LogInv, n
      <4> QED
        BY <1>1, <1>8, <4>2, <4>3
    <3> QED
      BY <3>1, <3>2
  <2> QED
    BY <1>5, <1>7, <1>8, <2>1 DEF LogInv
<1>12. PagerInv'
  <2>1. pager.offset \in Nat /\ pager.lowest \in Nat
    BY Constants DEF IInv, TypeOK
  <2>2. pager' = pager /\ Len(published') = n + 1 /\ Len(log') = kept + 1
    BY <1>2, <1>5, <1>7
  <2>3. /\ pager.offset <= Len(log)
        /\ pager.offset > 0 => pager.lowest <= n + 1 - pager.offset
    BY <1>3 DEF PagerInv, n
  <2>4. pager.offset <= kept + 1
    BY <1>1, <1>8, <2>1, <2>3
  <2>5. pager.offset > 0 => pager.lowest <= (n + 1) + 1 - pager.offset
    BY <1>1, <2>1, <2>3
  <2> QED
    BY <2>2, <2>4, <2>5 DEF PagerInv
<1> QED
  BY <1>9, <1>10, <1>11, <1>12 DEF IInv, StoreInv

\* An update that is neither.
LEMMA SilentInv == ASSUME IInv, UpdateSilently PROVE IInv'
<1>1. /\ status' = [version |-> status.version + 1, state |-> status.state,
                    down |-> status.down \/ status.state = "Shutdown"]
      /\ status.version - Len(published) < MaxSilent
      /\ UNCHANGED <<published, log, task, queue, client, pager>>
  BY DEF UpdateSilently, NextVersion
<1>2. /\ VersionInv /\ LogInv /\ PagerInv
      /\ status.version \in Nat /\ status.state \in DeviceStates /\ status \in Statuses
      /\ Len(published) \in Nat /\ Len(published) <= MaxPublished
  BY Constants DEF IInv, StoreInv, TypeOK, Versions, Statuses
<1>3. VersionInv' /\ status.version + 1 \in Versions
  BY <1>1, <1>2, Constants DEF VersionInv, Versions
<1>4. TypeOK'
  <2>1. status' \in Statuses
    BY <1>1, <1>2, <1>3, NextStatus
  <2> QED BY <1>1, <2>1 DEF IInv, TypeOK
<1>5. LogInv' /\ PagerInv'
  BY <1>1, <1>2 DEF LogInv, PagerInv
<1> QED
  BY <1>3, <1>4, <1>5 DEF IInv, StoreInv
------------------------------------------------------------------------------
(***************************************************************************)
(* The subscription leaves the store and the reader of the log alone.      *)
(***************************************************************************)
LEMMA StoreKept ==
    ASSUME StoreInv, UNCHANGED <<status, published, log, pager>> PROVE StoreInv'
BY DEF StoreInv, VersionInv, LogInv, PagerInv

\* A new subscription.
LEMMA SubscribeInv == ASSUME IInv, NEW periodic \in BOOLEAN, Subscribe(periodic) PROVE IInv'
<1>1. Len(published) + 1 \in 1..MaxPublished + 1
  BY Constants DEF IInv, TypeOK
<1>2. TypeOK'
  <2>1. task' \in [pc: {"none", "check", "select", "send", "ended"}, periodic: BOOLEAN,
                   from: 1..MaxPublished + 1, next: 1..MaxPublished + 1, held: Versions]
    <3> DEFINE n == Len(published) + 1
    <3>1. task' = [NoTask EXCEPT !.pc = "check", !.periodic = periodic, !.from = n, !.next = n]
      BY DEF Subscribe
    <3>2. n \in 1..MaxPublished + 1 /\ 0 \in Versions
      BY <1>1, Constants DEF Versions
    <3> HIDE DEF n
    <3> QED
      BY <3>1, <3>2 DEF NoTask
  <2>2. client' \in [stream: {"none", "open", "ended", "dropped"}, newest: Versions, older: Nat]
    BY DEF Subscribe, IInv, TypeOK
  <2> QED
    BY <2>1, <2>2 DEF Subscribe, IInv, TypeOK
<1> QED
  BY <1>2, StoreKept DEF Subscribe, IInv

\* A step of the task of a subscription.
LEMMA TaskInv == ASSUME IInv, Task PROVE IInv'
<1> DEFINE Tasks == [pc: {"none", "check", "select", "send", "ended"}, periodic: BOOLEAN,
                     from: 1..MaxPublished + 1, next: 1..MaxPublished + 1, held: Versions]
<1>0. task \in Tasks /\ queue \in Seq(Versions) /\ Len(queue) <= QueueCapacity
  BY DEF IInv, TypeOK
<1>1. ASSUME NEW p \in {"none", "check", "select", "send", "ended"},
             NEW m \in 1..MaxPublished + 1, NEW h \in Versions
      PROVE  /\ [task EXCEPT !.pc = p] \in Tasks
             /\ [task EXCEPT !.pc = p, !.next = m] \in Tasks
             /\ [task EXCEPT !.pc = p, !.held = h] \in Tasks
             /\ [task EXCEPT !.pc = p, !.next = m, !.held = h] \in Tasks
  BY <1>0
<1>2. 0 \in Versions /\ status.version \in Versions
  BY Constants DEF IInv, TypeOK, Versions, Statuses
<1>3. /\ task' \in Tasks /\ queue' \in Seq(Versions) /\ Len(queue') <= QueueCapacity
      /\ UNCHANGED <<status, published, log, client, pager>>
  <2>1. CASE CheckState
    <3> DEFINE p == IF status.state \in Terminal THEN "ended" ELSE "select"
    <3>1. p \in {"none", "check", "select", "send", "ended"} /\ task' = [task EXCEPT !.pc = p]
      BY <2>1 DEF CheckState
    <3> HIDE DEF p
    <3>2. [task EXCEPT !.pc = p] \in Tasks
      BY <3>1, <1>0
    <3> QED
      BY <1>0, <2>1, <3>1, <3>2 DEF CheckState
  <2>2. CASE Recv
    <3>1. /\ task.next <= Len(published) /\ task.next \in 1..MaxPublished + 1
          /\ Len(published) \in Nat /\ Len(published) <= MaxPublished
          /\ published \in Seq(Versions)
          /\ UNCHANGED <<status, published, log, queue, client, pager>>
      BY <1>0, <2>2, Constants DEF Recv, IInv, TypeOK
    <3>2. CASE task.next < Oldest
      <4>1. Oldest \in 1..MaxPublished + 1
        BY <3>1, Constants DEF Oldest
      <4>2. task' = [task EXCEPT !.pc = "check", !.next = Oldest]
        BY <2>2, <3>2 DEF Recv
      <4> HIDE DEF Tasks
      <4>3. [task EXCEPT !.pc = "check", !.next = Oldest] \in Tasks
        BY <1>1, <1>2, <4>1
      <4> QED
        BY <1>0, <3>1, <4>2, <4>3
    <3>3. CASE ~(task.next < Oldest)
      <4>1. task.next + 1 \in 1..MaxPublished + 1 /\ published[task.next] \in Versions
        BY <3>1, Constants
      <4>2. task' = [task EXCEPT !.pc = "send", !.next = task.next + 1,
                                 !.held = published[task.next]]
        BY <2>2, <3>3 DEF Recv
      <4> HIDE DEF Tasks
      <4>3. [task EXCEPT !.pc = "send", !.next = task.next + 1,
                         !.held = published[task.next]] \in Tasks
        BY <1>1, <4>1
      <4> QED
        BY <1>0, <3>1, <4>2, <4>3
    <3> QED
      BY <3>2, <3>3
  <2>3. CASE PeriodicStatus
    <3>1. task' = [task EXCEPT !.pc = "send", !.held = status.version]
      BY <2>3 DEF PeriodicStatus
    <3>2. task' \in Tasks
      BY <1>0, <1>2, <3>1
    <3> QED
      BY <1>0, <2>3, <3>2 DEF PeriodicStatus
  <2>4. CASE Send
    <3>1. PICK p \in {"ended", "check"} : task' = [task EXCEPT !.pc = p, !.held = 0]
      BY <2>4 DEF Send
    <3>2. task' \in Tasks
      BY <1>0, <1>2, <3>1
    <3>3. queue' \in Seq(Versions) /\ Len(queue') <= QueueCapacity
      <4>1. task.held \in Versions /\ QueueCapacity \in Nat
        BY <1>0, Constants
      <4> QED
        BY <1>0, <2>4, <4>1 DEF Send
    <3> QED
      BY <2>4, <3>2, <3>3 DEF Send
  <2> QED
    BY <2>1, <2>2, <2>3, <2>4 DEF Task
<1>4. TypeOK'
  BY <1>3 DEF IInv, TypeOK
<1> QED
  BY <1>3, <1>4, StoreKept DEF IInv

\* The client reads, or goes away.
LEMMA ClientInv == ASSUME IInv, ReadStatus \/ DropStream PROVE IInv'
<1> DEFINE Clients == [stream: {"none", "open", "ended", "dropped"}, newest: Versions,
                       older: Nat]
<1>0. client \in Clients /\ queue \in Seq(Versions) /\ Len(queue) <= QueueCapacity
  BY DEF IInv, TypeOK
<1>1. UNCHANGED <<status, published, log, task, pager>>
  BY DEF ReadStatus, DropStream
<1>2. client' \in Clients /\ queue' \in Seq(Versions) /\ Len(queue') <= QueueCapacity
  <2>1. CASE DropStream
    BY <2>1, Constants DEF DropStream, Versions
  <2>2. CASE ReadStatus /\ queue # <<>>
    <3>1. queue' = Tail(queue)
      BY <2>2 DEF ReadStatus
    <3>2. Head(queue) \in Versions /\ Tail(queue) \in Seq(Versions) /\ Len(Tail(queue)) = Len(queue) - 1
      BY <1>0, <2>2, HeadTailProperties
    <3>3. \/ client' = [client EXCEPT !.older = client.older + 1]
          \/ client' = [client EXCEPT !.newest = Head(queue), !.older = 0]
      BY <2>2 DEF ReadStatus
    <3>4. client' \in Clients
      <4>1. ASSUME NEW k \in Nat, NEW v \in Versions
            PROVE  /\ [client EXCEPT !.older = k] \in Clients
                   /\ [client EXCEPT !.newest = v, !.older = k] \in Clients
        BY <1>0
      <4>2. client.older + 1 \in Nat /\ 0 \in Nat
        BY <1>0
      <4> HIDE DEF Clients
      <4> QED
        BY <3>2, <3>3, <4>1, <4>2
    <3>5. Len(queue) \in Nat /\ QueueCapacity \in Nat
      BY <1>0, Constants
    <3> QED
      BY <1>0, <3>1, <3>2, <3>4, <3>5
  <2>3. CASE ReadStatus /\ queue = <<>>
    <3>1. client' = [client EXCEPT !.stream = "ended"] /\ UNCHANGED queue
      BY <2>3 DEF ReadStatus
    <3> QED
      BY <1>0, <3>1
  <2> QED
    BY <2>1, <2>2, <2>3
<1>3. TypeOK'
  BY <1>1, <1>2 DEF IInv, TypeOK
<1> QED
  BY <1>1, <1>3, StoreKept DEF IInv
------------------------------------------------------------------------------
(***************************************************************************)
(* The log.                                                                *)
(***************************************************************************)

\* The next page begins behind the offset of the reader.
LEMMA PageInv == ASSUME IInv, NEW limit \in 1..PageLimit + 1, ReadLogPage(limit) PROVE IInv'
<1> DEFINE page == GetLog(pager.offset, limit)
           last == Least(pager.offset + Least(limit, PageLimit), Len(log))
<1>1. /\ log \in Seq(1..MaxPublished) /\ Len(log) \in Nat /\ Len(log) <= LogCapacity
      /\ pager.offset \in Nat /\ pager.offset <= Len(log)
      /\ Len(published) \in Nat
      /\ limit \in Nat \ {0} /\ PageLimit \in Nat \ {0} /\ LogCapacity \in Nat
      /\ MaxPublished \in Nat
  BY Constants DEF IInv, TypeOK, StoreInv, PagerInv
<1>2. /\ last \in Nat /\ pager.offset <= last /\ last <= Len(log)
  BY <1>1 DEF Least
<1>3. page = SubSeq(log, pager.offset + 1, last)
  BY DEF GetLog
<1> HIDE DEF last
<1>4. /\ Len(page) = last - pager.offset
      /\ \A i \in 1..Len(page) : page[i] = log[pager.offset + i]
      /\ page \in Seq(1..MaxPublished)
  <2>1. \A i \in pager.offset + 1..last : log[i] \in 1..MaxPublished
    BY SMTT(30), <1>1, <1>2
  <2>2. /\ SubSeq(log, pager.offset + 1, last) \in Seq(1..MaxPublished)
        /\ Len(SubSeq(log, pager.offset + 1, last))
              = IF pager.offset + 1 <= last THEN last - (pager.offset + 1) + 1 ELSE 0
        /\ \A i \in 1..last - (pager.offset + 1) + 1 :
              SubSeq(log, pager.offset + 1, last)[i] = log[pager.offset + 1 + i - 1]
    <3>1. pager.offset + 1 \in Int /\ last \in Int
      BY <1>1, <1>2
    <3> QED
      BY <2>1, <3>1, SubSeqProperties
  <2> HIDE DEF page
  <2>3. page \in Seq(1..MaxPublished)
    BY <1>3, <2>2
  <2>4. Len(page) = last - pager.offset
    <3>1. Len(page) = IF pager.offset + 1 <= last THEN last - (pager.offset + 1) + 1 ELSE 0
      BY <1>3, <2>2
    <3> QED
      BY <1>1, <1>2, <3>1
  <2>5. ASSUME NEW i \in 1..Len(page) PROVE page[i] = log[pager.offset + i]
    <3>0. i \in 1..last - pager.offset
      BY <2>4
    <3>1. i \in 1..last - (pager.offset + 1) + 1 /\ pager.offset + 1 + i - 1 = pager.offset + i
      <4>1. ASSUME NEW m \in Nat, NEW o \in Nat, NEW j \in 1..m - o
            PROVE  j \in 1..m - (o + 1) + 1 /\ o + 1 + j - 1 = o + j
        OBVIOUS
      <4>2. last \in Nat /\ pager.offset \in Nat
        BY <1>1, <1>2
      <4> QED
        BY <3>0, <4>1, <4>2
    <3>2. page[i] = log[pager.offset + 1 + i - 1]
      BY <1>3, <2>2, <3>1
    <3> QED
      BY <3>1, <3>2
  <2> QED
    BY <2>3, <2>4, <2>5
<1>5. pager' = IF page = <<>> THEN [offset |-> 0, lowest |-> 0]
               ELSE [offset |-> pager.offset + Len(page), lowest |-> page[Len(page)]]
  BY DEF ReadLogPage
<1>6. UNCHANGED <<status, published, log, task, queue, client>>
  BY DEF ReadLogPage
<1> HIDE DEF page
<1>7. CASE page = <<>>
  <2>1. pager' = [offset |-> 0, lowest |-> 0]
    BY <1>5, <1>7
  <2>2. TypeOK'
    BY <1>1, <1>6, <2>1 DEF IInv, TypeOK
  <2> QED
    BY <1>1, <1>6, <2>1, <2>2 DEF IInv, StoreInv, VersionInv, LogInv, PagerInv
<1>8. CASE page # <<>>
  <2>1. Len(page) \in Nat \ {0}
    BY <1>4, <1>8
  <2>2. pager' = [offset |-> last, lowest |-> log[last]] /\ last \in 1..Len(log)
    <3>1. page[Len(page)] = log[last] /\ pager.offset + Len(page) = last
      <4>1. Len(page) \in 1..Len(page) /\ pager.offset + Len(page) = last
        BY SMTT(30), <1>1, <1>2, <1>4, <2>1
      <4>2. page[Len(page)] = log[pager.offset + Len(page)]
        BY <1>4, <4>1
      <4> QED
        BY <4>1, <4>2
    <3> QED
      BY SMTT(30), <1>1, <1>2, <1>4, <1>5, <1>8, <2>1, <3>1
  <2>3. log[last] \in 1..MaxPublished /\ log[last] = Len(published) + 1 - last
    BY <1>1, <2>2 DEF IInv, StoreInv, LogInv
  <2>4. TypeOK'
    <3>1. pager' \in [offset: 0..LogCapacity, lowest: 0..MaxPublished]
      BY <1>1, <1>2, <2>2, <2>3
    <3> QED
      BY <1>6, <3>1 DEF IInv, TypeOK
  <2>5. PagerInv'
    BY <1>1, <1>6, <2>2, <2>3 DEF PagerInv
  <2> QED
    BY <1>6, <2>4, <2>5 DEF IInv, StoreInv, VersionInv, LogInv
<1> QED
  BY <1>7, <1>8
------------------------------------------------------------------------------
\* Every step preserves the invariant.
LEMMA NextInv == IInv /\ [Next]_vars => IInv'
<1> SUFFICES ASSUME IInv, [Next]_vars PROVE IInv'
  OBVIOUS
<1>1. ASSUME NEW s \in DeviceStates, UpdateState(s) PROVE IInv'
  BY <1>1, PublishInv DEF UpdateState
<1>2. CASE UpdateOther
  <2>1. status.state \in DeviceStates
    BY DEF IInv, TypeOK, Statuses
  <2> QED
    BY <1>2, <2>1, PublishInv DEF UpdateOther
<1>3. CASE UpdateSilently
  BY <1>3, SilentInv
<1>4. ASSUME NEW periodic \in BOOLEAN, Subscribe(periodic) PROVE IInv'
  BY <1>4, SubscribeInv
<1>5. CASE Task
  BY <1>5, TaskInv
<1>6. CASE ReadStatus \/ DropStream
  BY <1>6, ClientInv
<1>7. ASSUME NEW limit \in 1..PageLimit + 1, ReadLogPage(limit) PROVE IInv'
  BY <1>7, PageInv
<1>8. CASE UNCHANGED vars
  BY <1>8 DEF vars, IInv, TypeOK, StoreInv, VersionInv, LogInv, PagerInv
<1> QED
  BY <1>1, <1>2, <1>3, <1>4, <1>5, <1>6, <1>7, <1>8 DEF Next, Update

\* The invariant holds in every reachable state.
THEOREM FeedInvariance == Spec => []IInv
BY InitInv, NextInv, PTL DEF Spec

\* The status store is type correct: the log, the queue of a subscriber and
\* the versions keep to their bounds.
THEOREM FeedTypeCorrect == Spec => []TypeOK
<1>1. IInv => TypeOK
  BY DEF IInv
<1> QED
  BY <1>1, FeedInvariance, PTL

\* A client that pages through get_device_status_log while append_log moves
\* the entries skips none that is left.
THEOREM PagesJoin == Spec => []NoEntrySkipped
<1>1. IInv => NoEntrySkipped
  <2> SUFFICES ASSUME IInv, pager.offset > 0
               PROVE  IF pager.offset < Len(log) THEN log[pager.offset + 1] >= pager.lowest - 1
                                                 ELSE log[Len(log)] >= pager.lowest
    BY DEF NoEntrySkipped
  <2>1. /\ pager.offset \in Nat /\ pager.lowest \in Nat /\ Len(log) \in Nat
        /\ Len(published) \in Nat
        /\ pager.offset <= Len(log)
        /\ pager.lowest <= Len(published) + 1 - pager.offset
        /\ \A i \in 1..Len(log) : log[i] = Len(published) + 1 - i
    BY Constants DEF IInv, TypeOK, StoreInv, PagerInv, LogInv
  <2>2. CASE pager.offset < Len(log)
    <3>1. pager.offset + 1 \in 1..Len(log)
      BY <2>1, <2>2
    <3>2. log[pager.offset + 1] = Len(published) + 1 - (pager.offset + 1)
      BY <2>1, <3>1
    <3> QED
      BY <2>1, <2>2, <3>2
  <2>3. CASE ~(pager.offset < Len(log))
    <3>1. Len(log) \in 1..Len(log) /\ Len(log) = pager.offset
      BY <2>1, <2>3
    <3>2. log[Len(log)] = Len(published) + 1 - Len(log)
      BY <2>1, <3>1
    <3> QED
      BY <2>1, <2>3, <3>1, <3>2
  <2> QED
    BY <2>2, <2>3
<1> QED
  BY <1>1, FeedInvariance, PTL
------------------------------------------------------------------------------
(***************************************************************************)
(* How far a subscriber goes back.                                         *)
(***************************************************************************)

\* What the task has taken and the client has not read yet.
Pending == IF task.pc = "send" THEN Append(queue, task.held) ELSE queue

\* What the client has seen when it reads the status at j, as far as it counts.
Ahead(j) == {client.newest} \cup {Pending[i] : i \in 1..j - 1}

\* A status x that comes behind a younger one v is an update from the receiver,
\* and one that the broadcast channel still held when it had v.
Behind(x, v) ==
    x < v => \E n \in 1..task.next - 1 :
                /\ published[n] = x
                /\ \A m \in 1..Len(published) : published[m] <= v => m < n + StatusCapacity

\* Versions are published in their order, and nothing is younger than the store.
PublishedInv ==
    /\ task.next <= Len(published) + 1
    /\ \A n \in 1..Len(published) : published[n] > 0 /\ published[n] <= status.version
    /\ \A n \in 1..Len(published) : \A m \in 1..n - 1 : published[m] < published[n]
    /\ client.newest <= status.version
    /\ \A j \in 1..Len(Pending) : Pending[j] <= status.version

\* What comes behind a younger status comes in its own order.
OrderInv ==
    \A j \in 1..Len(Pending) : \A v \in Ahead(j) :
        /\ Behind(Pending[j], v)
        /\ \A k \in j + 1..Len(Pending) :
              Pending[j] < v /\ Pending[k] < v => Pending[j] < Pending[k]

\* Of the updates the channel held behind the newest status, up to the one with
\* number n, the client has read no more than there are.
OlderInv ==
    client.older > 0 => \E n \in 1..task.next - 1 :
        /\ published[n] < client.newest
        /\ \A m \in 1..Len(published) :
              published[m] <= client.newest => m + client.older <= n + StatusCapacity
        /\ \A k \in 1..Len(Pending) : Pending[k] < client.newest => published[n] < Pending[k]

\* Without periodic statuses everything comes in order.
InSequence ==
    /\ \A n \in task.next..Len(published) : client.newest < published[n]
    /\ \A n \in task.next..Len(published) : \A j \in 1..Len(Pending) : Pending[j] < published[n]
    /\ \A j \in 1..Len(Pending) : \A v \in Ahead(j) : v <= Pending[j]
SequenceInv == ~task.periodic => client.older = 0 /\ InSequence

\* Nothing has been sent before the client subscribes.
NoneInv == task.pc = "none" => queue = <<>> /\ client.newest = 0 /\ client.older = 0

RegressInv == PublishedInv /\ OrderInv /\ OlderInv /\ SequenceInv /\ NoneInv

\* The types the proofs below need.
LEMMA PendingTypes ==
    ASSUME TypeOK
    PROVE  /\ Pending \in Seq(Versions) /\ Len(Pending) \in Nat
           /\ \A j \in 1..Len(Pending) : Pending[j] \in Nat
           /\ Len(published) \in Nat /\ \A n \in 1..Len(published) : published[n] \in Nat
           /\ task.next \in Nat /\ task.next >= 1 /\ client.newest \in Nat /\ client.older \in Nat
           /\ status.version \in Nat /\ StatusCapacity \in Nat /\ StatusCapacity >= 1
           /\ Versions \subseteq Nat
<1>1. Versions \subseteq Nat
  BY Constants DEF Versions
<1>2. queue \in Seq(Versions) /\ task.held \in Versions
  BY DEF TypeOK
<1>3. Pending \in Seq(Versions)
  BY <1>2 DEF Pending
<1>4. ASSUME NEW q \in Seq(Versions)
      PROVE  Len(q) \in Nat /\ \A j \in 1..Len(q) : q[j] \in Nat
  <2>1. Len(q) \in Nat /\ \A j \in 1..Len(q) : q[j] \in Versions
    OBVIOUS
  <2> QED
    BY <1>1, <2>1
<1>5. published \in Seq(Versions)
  BY DEF TypeOK
<1>6. task.next \in Nat /\ task.next >= 1
  BY Constants DEF TypeOK
<1>7. client.newest \in Nat /\ client.older \in Nat /\ status.version \in Nat
  BY <1>1 DEF TypeOK, Statuses
<1> QED
  BY <1>1, <1>3, <1>4, <1>5, <1>6, <1>7, Constants

\* Whatever the client has seen is no younger than the store.
LEMMA AheadBound ==
    ASSUME TypeOK, PublishedInv, NEW j \in 1..Len(Pending) + 1, NEW v \in Ahead(j)
    PROVE  v \in Nat /\ v <= status.version
BY SMTT(20), PendingTypes DEF Ahead, PublishedInv

\* An update: it is younger than everything that was sent.
LEMMA UpdateRegress ==
    ASSUME IInv, IInv', RegressInv, UNCHANGED <<task, queue, client>>,
           status'.version = status.version + 1,
           \/ published' = published
           \/ published' = Append(published, status.version + 1)
    PROVE  RegressInv'
<1> DEFINE N == Len(published)
<1>1. TypeOK /\ TypeOK' /\ Pending' = Pending
  BY DEF IInv, Pending
<1>2. /\ Len(Pending) \in Nat /\ \A j \in 1..Len(Pending) : Pending[j] \in Nat
      /\ N \in Nat /\ \A n \in 1..N : published[n] \in Nat
      /\ task.next \in Nat /\ task.next >= 1 /\ client.newest \in Nat /\ client.older \in Nat
      /\ status.version \in Nat /\ StatusCapacity \in Nat
  BY <1>1, PendingTypes
<1>3. /\ Len(published') = N \/ Len(published') = N + 1
      /\ \A n \in 1..N : published'[n] = published[n]
      /\ Len(published') = N + 1 => published'[N + 1] = status.version + 1
  <2>1. CASE published' = published
    BY <1>2, <2>1
  <2>2. CASE published' = Append(published, status.version + 1)
    <3>1. published \in Seq(Nat) /\ status.version + 1 \in Nat
      BY SMTT(20), <1>1, <1>2, PendingTypes DEF TypeOK
    <3>2. /\ Len(Append(published, status.version + 1)) = N + 1
          /\ \A n \in 1..N : Append(published, status.version + 1)[n] = published[n]
          /\ Append(published, status.version + 1)[N + 1] = status.version + 1
      BY <3>1, AppendProperties
    <3> QED
      BY <2>2, <3>2
  <2> QED
    BY <2>1, <2>2
<1>4. \A n \in 1..Len(published') :
         \/ n \in 1..N /\ published'[n] = published[n]
         \/ n = N + 1 /\ published'[n] = status.version + 1
  BY <1>2, <1>3
<1> HIDE DEF N
<1>5. PublishedInv
  BY DEF RegressInv
<1>6. /\ task.next <= N + 1
      /\ \A n \in 1..N : published[n] > 0 /\ published[n] <= status.version
      /\ \A n \in 1..N : \A m \in 1..n - 1 : published[m] < published[n]
      /\ client.newest <= status.version
      /\ \A j \in 1..Len(Pending) : Pending[j] <= status.version
  BY <1>5 DEF PublishedInv, N
<1>7. PublishedInv'
  <2>1. task'.next <= Len(published') + 1
    BY <1>2, <1>3, <1>6
  <2>2. \A n \in 1..Len(published') : published'[n] > 0 /\ published'[n] <= status'.version
    BY SMTT(20), <1>2, <1>4, <1>6
  <2>3. ASSUME NEW n \in 1..Len(published'), NEW m \in 1..n - 1 PROVE published'[m] < published'[n]
    BY <1>2, <1>3, <1>4, <1>6
  <2>4. client'.newest <= status'.version /\ \A j \in 1..Len(Pending') : Pending'[j] <= status'.version
    BY <1>1, <1>2, <1>6
  <2> QED
    BY <2>1, <2>2, <2>3, <2>4 DEF PublishedInv
<1>8. OrderInv'
  <2> SUFFICES ASSUME NEW j \in 1..Len(Pending), NEW v \in Ahead(j)
               PROVE  /\ Pending[j] < v => \E n \in 1..task.next - 1 :
                            /\ published'[n] = Pending[j]
                            /\ \A m \in 1..Len(published') :
                                  published'[m] <= v => m < n + StatusCapacity
                      /\ \A k \in j + 1..Len(Pending) :
                            Pending[j] < v /\ Pending[k] < v => Pending[j] < Pending[k]
    BY <1>1 DEF OrderInv, Ahead, Behind
  <2>1. /\ Behind(Pending[j], v)
        /\ \A k \in j + 1..Len(Pending) :
              Pending[j] < v /\ Pending[k] < v => Pending[j] < Pending[k]
    BY DEF RegressInv, OrderInv
  <2>2. v \in Nat /\ v <= status.version
    <3>1. j \in 1..Len(Pending) + 1
      BY <1>2
    <3> QED
      BY <1>1, <1>5, <3>1, AheadBound
  <2>3. ASSUME Pending[j] < v
        PROVE  \E n \in 1..task.next - 1 :
                  /\ published'[n] = Pending[j]
                  /\ \A m \in 1..Len(published') : published'[m] <= v => m < n + StatusCapacity
    <3>1. PICK n \in 1..task.next - 1 :
             /\ published[n] = Pending[j]
             /\ \A m \in 1..N : published[m] <= v => m < n + StatusCapacity
      BY <2>1, <2>3 DEF Behind, N
    <3>2. published'[n] = Pending[j]
      BY <1>2, <1>3, <1>6, <3>1
    <3>3. ASSUME NEW m \in 1..Len(published'), published'[m] <= v PROVE m < n + StatusCapacity
      BY <1>2, <1>4, <2>2, <3>1, <3>3
    <3> QED
      BY <3>2, <3>3
  <2> QED
    BY <2>1, <2>3
<1>9. OlderInv'
  <2> SUFFICES ASSUME client.older > 0
               PROVE  \E n \in 1..task.next - 1 :
                         /\ published'[n] < client.newest
                         /\ \A m \in 1..Len(published') :
                               published'[m] <= client.newest => m + client.older <= n + StatusCapacity
                         /\ \A k \in 1..Len(Pending) :
                               Pending[k] < client.newest => published'[n] < Pending[k]
    BY <1>1 DEF OlderInv
  <2>1. PICK n \in 1..task.next - 1 :
           /\ published[n] < client.newest
           /\ \A m \in 1..N : published[m] <= client.newest => m + client.older <= n + StatusCapacity
           /\ \A k \in 1..Len(Pending) : Pending[k] < client.newest => published[n] < Pending[k]
    BY DEF RegressInv, OlderInv, N
  <2>2. published'[n] = published[n]
    BY <1>2, <1>3, <1>6
  <2>3. ASSUME NEW m \in 1..Len(published'), published'[m] <= client.newest
        PROVE  m + client.older <= n + StatusCapacity
    <3>1. m \in 1..N /\ published[m] <= client.newest
      BY <1>2, <1>4, <1>6, <2>3
    <3> QED
      BY <2>1, <3>1
  <2> QED
    BY <2>1, <2>2, <2>3
<1>10. SequenceInv'
  <2> SUFFICES ASSUME ~task.periodic PROVE client'.older = 0 /\ InSequence'
    BY DEF SequenceInv
  <2>1. client.older = 0 /\ InSequence
    BY DEF RegressInv, SequenceInv
  <2>2. ASSUME NEW n \in task.next..Len(published')
        PROVE  client.newest < published'[n] /\ \A j \in 1..Len(Pending) : Pending[j] < published'[n]
    <3>1. n \in 1..Len(published')
      BY <1>2, <1>3
    <3>2. CASE n \in 1..N /\ published'[n] = published[n]
      <4>1. n \in task.next..N
        BY <1>2, <3>2
      <4> QED
        BY <2>1, <3>2, <4>1 DEF InSequence, N
    <3>3. CASE n = N + 1 /\ published'[n] = status.version + 1
      BY <1>2, <1>6, <3>3
    <3> QED
      BY <1>4, <3>1, <3>2, <3>3
  <2>3. \A j \in 1..Len(Pending) : \A v \in Ahead(j) : v <= Pending[j]
    BY <2>1 DEF InSequence
  <2> QED
    BY <1>1, <2>1, <2>2, <2>3 DEF InSequence, Ahead
<1>11. NoneInv'
  BY DEF RegressInv, NoneInv
<1> QED
  BY <1>7, <1>8, <1>9, <1>10, <1>11 DEF RegressInv

\* The task takes a status: the current one, which is younger than everything
\* that was sent, or the next update that the channel still holds.
LEMMA TakeRegress ==
    ASSUME IInv, IInv', RegressInv, NEW x, UNCHANGED <<status, published, client>>,
           Pending' = Append(Pending, x), task'.periodic = task.periodic, task'.pc # "none",
           \/ x = status.version /\ task'.next = task.next /\ task.periodic
           \/ /\ task.next <= Len(published) /\ x = published[task.next]
              /\ Len(published) < task.next + StatusCapacity
              /\ task'.next = task.next + 1
    PROVE  RegressInv'
<1> DEFINE N == Len(published)
           L == Len(Pending)
           new == task'.next
<1>1. /\ L \in Nat /\ \A j \in 1..L : Pending[j] \in Nat
      /\ N \in Nat /\ \A n \in 1..N : published[n] \in Nat
      /\ task.next \in Nat /\ task.next >= 1 /\ client.newest \in Nat /\ client.older \in Nat
      /\ status.version \in Nat /\ StatusCapacity \in Nat /\ StatusCapacity >= 1
      /\ Pending \in Seq(Versions)
  BY PendingTypes DEF IInv
<1>2. /\ task.next <= N + 1
      /\ \A n \in 1..N : published[n] > 0 /\ published[n] <= status.version
      /\ \A n \in 1..N : \A m \in 1..n - 1 : published[m] < published[n]
      /\ client.newest <= status.version
      /\ \A j \in 1..L : Pending[j] <= status.version
  BY DEF RegressInv, PublishedInv
<1>3. x \in Nat /\ x <= status.version /\ new \in Nat /\ new >= task.next /\ new <= N + 1
  <2>1. CASE x = status.version /\ new = task.next
    BY <1>1, <1>2, <2>1
  <2>2. CASE task.next <= N /\ x = published[task.next] /\ new = task.next + 1
    <3>1. task.next \in 1..N
      BY <1>1, <2>2
    <3>2. x \in Nat /\ x <= status.version
      BY <1>1, <1>2, <2>2, <3>1
    <3> QED
      BY SMTT(20), <1>1, <2>2, <3>2
  <2> QED
    BY <2>1, <2>2
<1>4. Len(Pending') = L + 1 /\ (\A j \in 1..L : Pending'[j] = Pending[j]) /\ Pending'[L + 1] = x
  <2>1. Pending \in Seq(Nat)
    <3>1. Versions \subseteq Nat
      BY PendingTypes DEF IInv
    <3> QED
      BY SMTT(20), <1>1, <3>1
  <2> QED
    BY <1>3, <2>1, AppendProperties
<1>5. \A j \in 1..L + 1 : Ahead(j)' = Ahead(j)
  <2> SUFFICES ASSUME NEW j \in 1..L + 1
               PROVE  {Pending'[i] : i \in 1..j - 1} = {Pending[i] : i \in 1..j - 1}
    BY DEF Ahead
  <2>1. \A i \in 1..j - 1 : i \in 1..L
    BY <1>1
  <2> QED
    BY <1>4, <2>1
<1>6. \A j \in 1..L + 1 : \A v \in Ahead(j) : v \in Nat /\ v <= status.version
  BY AheadBound DEF IInv, RegressInv
<1> HIDE DEF N, L, new
<1>7. ASSUME NEW j \in 1..L + 1 PROVE j \in 1..L \/ j = L + 1
  <2>1. L \in Nat
    BY <1>1
  <2> QED
    BY <2>1
<1>8. ASSUME NEW j \in 1..L + 1, NEW k \in j + 1..L + 1 PROVE k \in 1..L \/ k = L + 1
  <2>1. L \in Nat
    BY <1>1
  <2> QED
    BY <2>1
<1>9. PublishedInv'
  BY <1>1, <1>2, <1>3, <1>4 DEF PublishedInv, N, L, new
\* The new status, if it is older than v, is younger than the updates before.
<1>10. ASSUME NEW j \in 1..L + 1, NEW v \in Ahead(j), x < v
       PROVE  /\ new = task.next + 1 /\ task.next \in 1..N /\ x = published[task.next]
              /\ N < task.next + StatusCapacity
              /\ \A n \in 1..task.next - 1 : published[n] < x
  <2>1. x # status.version
    BY <1>1, <1>3, <1>6, <1>10
  <2> QED
    BY SMTT(20), <1>1, <1>2, <2>1 DEF N, new
<1>11. OrderInv'
  <2> SUFFICES ASSUME NEW j \in 1..L + 1, NEW v \in Ahead(j)
               PROVE  /\ Pending'[j] < v => \E n \in 1..new - 1 :
                            /\ published[n] = Pending'[j]
                            /\ \A m \in 1..N : published[m] <= v => m < n + StatusCapacity
                      /\ \A k \in j + 1..L + 1 :
                            Pending'[j] < v /\ Pending'[k] < v => Pending'[j] < Pending'[k]
    BY <1>4, <1>5 DEF OrderInv, Behind, N, L, new
  <2>1. CASE j = L + 1
    <3>1. Pending'[j] = x /\ \A k \in j + 1..L + 1 : FALSE
      BY <1>1, <1>4, <2>1
    <3>2. ASSUME x < v
          PROVE  \E n \in 1..new - 1 :
                    /\ published[n] = x
                    /\ \A m \in 1..N : published[m] <= v => m < n + StatusCapacity
      <4>1. task.next \in 1..new - 1 /\ published[task.next] = x
        BY <1>1, <1>10, <3>2
      <4>2. \A m \in 1..N : m < task.next + StatusCapacity
        BY <1>1, <1>10, <3>2
      <4> QED
        BY <4>1, <4>2
    <3> QED
      BY <3>1, <3>2
  <2>2. CASE j \in 1..L
    <3>1. Pending'[j] = Pending[j]
      BY <1>4, <2>2
    <3>2. /\ Pending[j] < v => \E n \in 1..task.next - 1 :
                /\ published[n] = Pending[j]
                /\ \A m \in 1..N : published[m] <= v => m < n + StatusCapacity
          /\ \A k \in j + 1..L : Pending[j] < v /\ Pending[k] < v => Pending[j] < Pending[k]
      BY <2>2 DEF RegressInv, OrderInv, Behind, N, L
    <3>3. \A n \in 1..task.next - 1 : n \in 1..new - 1
      BY <1>1, <1>3
    <3>4. ASSUME NEW k \in j + 1..L + 1, Pending[j] < v, Pending'[k] < v
          PROVE  Pending[j] < Pending'[k]
      <4>1. CASE k \in 1..L
        <5>1. k \in j + 1..L /\ Pending'[k] = Pending[k]
          BY <1>1, <1>4, <4>1
        <5> QED
          BY <3>2, <3>4, <5>1
      <4>2. CASE k = L + 1
        <5>1. Pending'[k] = x /\ x < v
          BY <1>4, <3>4, <4>2
        <5>2. PICK n \in 1..task.next - 1 : published[n] = Pending[j]
          BY <3>2, <3>4
        <5>3. published[n] < x
          BY <1>10, <5>1
        <5> QED
          BY <5>1, <5>2, <5>3
      <4> QED
        BY <1>8, <4>1, <4>2
    <3>5. ASSUME Pending[j] < v
          PROVE  \E n \in 1..new - 1 :
                    /\ published[n] = Pending[j]
                    /\ \A m \in 1..N : published[m] <= v => m < n + StatusCapacity
      BY <3>2, <3>3, <3>5
    <3> QED
      BY <3>1, <3>4, <3>5
  <2> QED
    BY <1>7, <2>1, <2>2
<1>12. OlderInv'
  <2> SUFFICES ASSUME client.older > 0
               PROVE  \E n \in 1..new - 1 :
                         /\ published[n] < client.newest
                         /\ \A m \in 1..N :
                               published[m] <= client.newest => m + client.older <= n + StatusCapacity
                         /\ \A k \in 1..L + 1 :
                               Pending'[k] < client.newest => published[n] < Pending'[k]
    BY <1>4 DEF OlderInv, N, L, new
  <2>1. PICK n \in 1..task.next - 1 :
           /\ published[n] < client.newest
           /\ \A m \in 1..N : published[m] <= client.newest => m + client.older <= n + StatusCapacity
           /\ \A k \in 1..L : Pending[k] < client.newest => published[n] < Pending[k]
    BY DEF RegressInv, OlderInv, N, L
  <2>2. n \in 1..new - 1
    BY <1>1, <1>3
  <2>3. ASSUME NEW k \in 1..L + 1, Pending'[k] < client.newest PROVE published[n] < Pending'[k]
    <3>1. CASE k \in 1..L
      <4>1. Pending'[k] = Pending[k]
        BY <1>4, <3>1
      <4> QED
        BY <2>1, <2>3, <3>1, <4>1
    <3>2. CASE k = L + 1
      <4>1. client.newest \in Ahead(L + 1) /\ L + 1 \in 1..L + 1
        BY <1>1 DEF Ahead
      <4>2. Pending'[k] = x /\ x < client.newest
        BY <1>4, <2>3, <3>2
      <4>3. published[n] < x
        BY <1>10, <4>1, <4>2
      <4> QED
        BY <4>2, <4>3
    <3> QED
      BY <1>7, <3>1, <3>2
  <2> QED
    BY <2>1, <2>2, <2>3
<1>13. SequenceInv'
  <2> SUFFICES ASSUME ~task.periodic PROVE client.older = 0 /\ InSequence'
    BY DEF SequenceInv
  <2>1. /\ client.older = 0
        /\ \A n \in task.next..N : client.newest < published[n] /\ \A j \in 1..L : Pending[j] < published[n]
        /\ \A j \in 1..L : \A v \in Ahead(j) : v <= Pending[j]
    BY DEF RegressInv, SequenceInv, InSequence, N, L
  <2>2. task.next \in task.next..N /\ task.next \in 1..N /\ x = published[task.next] /\ new = task.next + 1
    BY <1>1 DEF N, new
  <2>3. ASSUME NEW n \in new..N
        PROVE  /\ client.newest < published[n]
               /\ \A j \in 1..L + 1 : Pending'[j] < published[n]
    <3>1. n \in task.next..N /\ n \in 1..N /\ task.next \in 1..n - 1
      BY <1>1, <2>2
    <3>2. x < published[n]
      BY <1>2, <2>2, <3>1
    <3> QED
      BY SMTT(20), <1>1, <1>4, <2>1, <3>1, <3>2
  <2>4. ASSUME NEW j \in 1..L + 1, NEW v \in Ahead(j) PROVE v <= Pending'[j]
    <3>1. CASE j \in 1..L
      <4>1. Pending'[j] = Pending[j]
        BY <1>4, <3>1
      <4> QED
        BY <2>1, <2>4, <3>1, <4>1
    <3>2. CASE j = L + 1
      <4>1. v = client.newest \/ \E i \in 1..L : v = Pending[i]
        BY <1>1, <2>4, <3>2 DEF Ahead
      <4>2. v < x
        BY <2>1, <2>2, <4>1
      <4>3. v \in Nat /\ Pending'[j] = x
        BY <1>4, <1>6, <2>4, <3>2
      <4> QED
        BY <1>3, <4>2, <4>3
    <3> QED
      BY <1>7, <3>1, <3>2
  <2> QED
    BY <1>4, <1>5, <2>1, <2>3, <2>4 DEF InSequence, N, L, new
<1>14. NoneInv'
  BY DEF NoneInv
<1> QED
  BY <1>9, <1>11, <1>12, <1>13, <1>14 DEF RegressInv

\* Nothing is added: what is left is what came behind the first a statuses.
LEMMA RestRegress ==
    ASSUME IInv, IInv', RegressInv, UNCHANGED <<status, published>>,
           task'.periodic = task.periodic,
           task.next <= task'.next, task'.next <= Len(published) + 1,
           NEW a \in Nat, Len(Pending') + a <= Len(Pending),
           \A j \in 1..Len(Pending') : Pending'[j] = Pending[j + a],
           client'.newest \in Ahead(a + 1) \cup {0}
    PROVE  PublishedInv' /\ OrderInv' /\ (~task.periodic => InSequence')
<1> DEFINE N == Len(published)
           L == Len(Pending)
           M == Len(Pending')
<1>1. /\ L \in Nat /\ \A j \in 1..L : Pending[j] \in Nat
      /\ N \in Nat /\ \A n \in 1..N : published[n] \in Nat
      /\ task.next \in Nat /\ task.next >= 1 /\ client.newest \in Nat
      /\ status.version \in Nat /\ StatusCapacity \in Nat
  BY PendingTypes DEF IInv
<1>2. M \in Nat /\ M + a <= L /\ task'.next \in Nat /\ client'.newest \in Nat
  <2>1. /\ queue' \in Seq(Versions) /\ task'.held \in Versions
        /\ task'.next \in Nat /\ client'.newest \in Versions
    <3>1. TypeOK'
      BY DEF IInv
    <3>2. task'.next \in 1..MaxPublished + 1
      BY <3>1 DEF TypeOK
    <3>3. task'.next \in Nat
      BY <3>2, Constants
    <3> QED
      BY <3>1, <3>3 DEF TypeOK
  <2>2. Versions \subseteq Nat
    BY PendingTypes DEF IInv
  <2>3. Pending' \in Seq(Versions)
    BY <2>1 DEF Pending
  <2>4. M \in Nat
    BY <2>3
  <2> QED
    BY <2>1, <2>2, <2>4
<1>3. \A j \in 1..M : Pending'[j] = Pending[j + a]
  OBVIOUS
<1> HIDE DEF N, L, M
<1>4. ASSUME NEW j \in 1..M PROVE j + a \in 1..L /\ j + a \in 1..L + 1 /\ a + 1 \in 1..L + 1
  BY <1>1, <1>2
<1>5. ASSUME NEW j \in 1..M, NEW v \in Ahead(j)' PROVE v \in Ahead(j + a) \/ v = 0
  <2>1. v = client'.newest \/ \E i \in 1..j - 1 : v = Pending'[i]
    BY <1>5 DEF Ahead
  <2>2. CASE v = client'.newest
    <3>1. client'.newest = 0 \/ client'.newest = client.newest
             \/ \E i \in 1..a + 1 - 1 : client'.newest = Pending[i]
      BY DEF Ahead
    <3>2. \A i \in 1..a + 1 - 1 : i \in 1..j + a - 1
      BY <1>2
    <3> QED
      BY <2>2, <3>1, <3>2 DEF Ahead
  <2>3. CASE \E i \in 1..j - 1 : v = Pending'[i]
    <3>1. PICK i \in 1..j - 1 : v = Pending'[i]
      BY <2>3
    <3>2. i \in 1..M /\ i + a \in 1..j + a - 1
      BY <1>2
    <3>3. v = Pending[i + a]
      BY <1>3, <3>1, <3>2
    <3> QED
      BY <3>2, <3>3 DEF Ahead
  <2> QED
    BY <2>1, <2>2, <2>3
<1>6. PublishedInv
  BY DEF RegressInv
<1>7. PublishedInv'
  <2>1. client'.newest <= status.version
    <3>1. a + 1 \in 1..L + 1
      BY <1>1, <1>2
    <3>2. \A v \in Ahead(a + 1) : v <= status.version
      BY <1>6, <3>1, AheadBound DEF IInv, L
    <3> QED
      BY <1>1, <3>2
  <2>2. \A j \in 1..M : Pending'[j] <= status.version
    BY <1>3, <1>4, <1>6 DEF PublishedInv, L
  <2> QED
    BY <1>6, <2>1, <2>2 DEF PublishedInv, M
<1>8. OrderInv'
  <2> SUFFICES ASSUME NEW j \in 1..M, NEW v \in Ahead(j)'
               PROVE  /\ Pending'[j] < v => \E n \in 1..task'.next - 1 :
                            /\ published[n] = Pending'[j]
                            /\ \A m \in 1..N : published[m] <= v => m < n + StatusCapacity
                      /\ \A k \in j + 1..M :
                            Pending'[j] < v /\ Pending'[k] < v => Pending'[j] < Pending'[k]
    BY DEF OrderInv, Behind, N, M
  <2>1. Pending'[j] = Pending[j + a] /\ j + a \in 1..L /\ Pending[j + a] \in Nat
    BY <1>1, <1>3, <1>4
  <2>2. CASE v = 0
    BY <2>1, <2>2
  <2>3. CASE v \in Ahead(j + a)
    <3>1. /\ Pending[j + a] < v => \E n \in 1..task.next - 1 :
                /\ published[n] = Pending[j + a]
                /\ \A m \in 1..N : published[m] <= v => m < n + StatusCapacity
          /\ \A k \in j + a + 1..L :
                Pending[j + a] < v /\ Pending[k] < v => Pending[j + a] < Pending[k]
      BY <2>1, <2>3 DEF RegressInv, OrderInv, Behind, N, L
    <3>2. \A n \in 1..task.next - 1 : n \in 1..task'.next - 1
      BY <1>1, <1>2
    <3>3. ASSUME NEW k \in j + 1..M, Pending'[j] < v, Pending'[k] < v PROVE Pending'[j] < Pending'[k]
      <4>1. k + a \in j + a + 1..L /\ k \in 1..M
        BY SMTT(20), <1>1, <1>2
      <4>2. Pending'[k] = Pending[k + a]
        BY <1>3, <4>1
      <4> QED
        BY <2>1, <3>1, <3>3, <4>1, <4>2
    <3>4. ASSUME Pending[j + a] < v
          PROVE  \E n \in 1..task'.next - 1 :
                    /\ published[n] = Pending[j + a]
                    /\ \A m \in 1..N : published[m] <= v => m < n + StatusCapacity
      BY <3>1, <3>2, <3>4
    <3> QED
      BY <2>1, <3>3, <3>4
  <2> QED
    BY <1>5, <2>2, <2>3
<1>9. ASSUME ~task.periodic PROVE InSequence'
  <2>1. /\ \A n \in task.next..N : client.newest < published[n] /\ \A j \in 1..L : Pending[j] < published[n]
        /\ \A j \in 1..L : \A v \in Ahead(j) : v <= Pending[j]
    BY <1>9 DEF RegressInv, SequenceInv, InSequence, N, L
  <2>2. ASSUME NEW n \in task'.next..N
        PROVE  client'.newest < published[n] /\ \A j \in 1..M : Pending'[j] < published[n]
    <3>1. n \in task.next..N /\ n \in 1..N
      BY <1>1, <1>2
    <3>2. 0 < published[n]
      BY <1>6, <3>1 DEF PublishedInv, N
    <3>3. client'.newest = 0 \/ client'.newest = client.newest
             \/ \E i \in 1..L : client'.newest = Pending[i]
      <4>1. \A i \in 1..a + 1 - 1 : i \in 1..L
        BY <1>1, <1>2
      <4> QED
        BY <4>1 DEF Ahead
    <3> QED
      BY <1>3, <1>4, <2>1, <3>1, <3>2, <3>3
  <2>3. ASSUME NEW j \in 1..M, NEW v \in Ahead(j)' PROVE v <= Pending'[j]
    <3>1. Pending'[j] = Pending[j + a] /\ j + a \in 1..L /\ Pending[j + a] \in Nat
      BY <1>1, <1>3, <1>4
    <3> QED
      BY <1>5, <2>1, <2>3, <3>1
  <2> QED
    BY <2>2, <2>3 DEF InSequence, N, M
<1> QED
  BY <1>7, <1>8, <1>9

\* Steps that leave alone what the client has seen and will see.
LEMMA KeptRegress ==
    ASSUME IInv, IInv', RegressInv, UNCHANGED <<status, published>>,
           client'.newest = client.newest, client'.older = client.older, Pending' = Pending,
           task'.periodic = task.periodic,
           task.next <= task'.next, task'.next <= Len(published) + 1, task'.pc # "none"
    PROVE  RegressInv'
<1>1. /\ Len(Pending) \in Nat /\ task.next \in Nat /\ client.newest \in Nat
  BY PendingTypes DEF IInv
<1>2. PublishedInv' /\ OrderInv' /\ (~task.periodic => InSequence')
  <2>1. /\ 0 \in Nat /\ Len(Pending') + 0 <= Len(Pending)
        /\ client'.newest \in Ahead(0 + 1) \cup {0}
    BY <1>1 DEF Ahead
  <2>2. \A j \in 1..Len(Pending') : Pending'[j] = Pending[j + 0]
    BY <1>1
  <2> QED
    BY <2>1, <2>2, RestRegress
<1>3. OlderInv'
  <2>1. task'.next \in Nat
    BY SMTT(20), Constants DEF IInv, TypeOK
  <2>2. \A n \in 1..task.next - 1 : n \in 1..task'.next - 1
    BY <1>1, <2>1
  <2> QED
    BY <2>2 DEF RegressInv, OlderInv
<1>4. SequenceInv'
  BY <1>2 DEF RegressInv, SequenceInv
<1>5. NoneInv'
  BY DEF NoneInv
<1> QED
  BY <1>2, <1>3, <1>4, <1>5 DEF RegressInv

\* The client reads the next status.
LEMMA ReadRegress ==
    ASSUME IInv, IInv', RegressInv, ReadStatus, queue # <<>>
    PROVE  RegressInv'
<1> DEFINE x == Head(queue)
           L == Len(Pending)
           N == Len(published)
<1>1. /\ queue' = Tail(queue) /\ UNCHANGED <<status, published, task>>
      /\ client' = IF x < client.newest THEN [client EXCEPT !.older = client.older + 1]
                   ELSE [client EXCEPT !.newest = x, !.older = 0]
  BY DEF ReadStatus
<1>2. /\ L \in Nat /\ \A j \in 1..L : Pending[j] \in Nat
      /\ N \in Nat /\ \A n \in 1..N : published[n] \in Nat
      /\ task.next \in Nat /\ task.next >= 1 /\ client.newest \in Nat /\ client.older \in Nat
      /\ StatusCapacity \in Nat /\ task.next <= N + 1
  BY PendingTypes DEF IInv, RegressInv, PublishedInv
<1>3. /\ L >= 1 /\ Pending[1] = x /\ Len(Pending') = L - 1
      /\ \A j \in 1..L - 1 : Pending'[j] = Pending[j + 1]
  <2>1. queue \in Seq(Versions) /\ task.held \in Versions
    BY DEF IInv, TypeOK
  <2>2. Len(queue) \in Nat /\ Len(queue) >= 1 /\ x = queue[1]
    BY <2>1
  <2>3. /\ Tail(queue) \in Seq(Versions) /\ Len(Tail(queue)) = Len(queue) - 1
        /\ \A j \in 1..Len(queue) - 1 : Tail(queue)[j] = queue[j + 1]
    BY <2>1, <2>2
  <2>4. CASE task.pc # "send"
    BY <1>1, <2>2, <2>3, <2>4 DEF Pending
  <2>5. CASE task.pc = "send"
    <3>1. Pending = Append(queue, task.held) /\ Pending' = Append(Tail(queue), task.held)
      BY <1>1, <2>5 DEF Pending
    <3>2. /\ Len(Append(queue, task.held)) = Len(queue) + 1
          /\ \A j \in 1..Len(queue) : Append(queue, task.held)[j] = queue[j]
          /\ Append(queue, task.held)[Len(queue) + 1] = task.held
      BY <2>1, AppendProperties
    <3>3. /\ Len(Append(Tail(queue), task.held)) = Len(Tail(queue)) + 1
          /\ \A j \in 1..Len(Tail(queue)) : Append(Tail(queue), task.held)[j] = Tail(queue)[j]
          /\ Append(Tail(queue), task.held)[Len(Tail(queue)) + 1] = task.held
      BY <2>1, <2>3, AppendProperties
    <3>4. L = Len(queue) + 1 /\ Len(Pending') = Len(queue) /\ Pending[1] = x
      BY <2>2, <2>3, <3>1, <3>2, <3>3
    <3>5. ASSUME NEW j \in 1..L - 1 PROVE Pending'[j] = Pending[j + 1]
      <4>1. CASE j \in 1..Len(queue) - 1
        <5>1. j \in 1..Len(Tail(queue)) /\ j + 1 \in 1..Len(queue)
          BY <2>2, <2>3, <4>1
        <5>2. Pending'[j] = Tail(queue)[j] /\ Pending[j + 1] = queue[j + 1]
          BY <3>1, <3>2, <3>3, <5>1
        <5> QED
          BY <2>3, <4>1, <5>2
      <4>2. CASE j = Len(queue)
        <5>1. Len(Tail(queue)) + 1 = j
          BY <2>2, <2>3, <4>2
        <5> QED
          BY <3>1, <3>2, <3>3, <4>2, <5>1
      <4>3. j \in 1..Len(queue) - 1 \/ j = Len(queue)
        BY <2>2, <3>4
      <4> QED
        BY <4>1, <4>2, <4>3
    <3> QED
      BY <2>2, <3>4, <3>5
  <2> QED
    BY <2>4, <2>5
<1>4. /\ client'.newest = IF x < client.newest THEN client.newest ELSE x
      /\ client'.older = IF x < client.newest THEN client.older + 1 ELSE 0
  BY <1>1 DEF IInv, TypeOK
<1>5. client.newest \in Ahead(1) /\ 1 \in 1..L /\ Pending[1] \in Ahead(1 + 1)
  BY <1>2, <1>3 DEF Ahead
<1>6. PublishedInv' /\ OrderInv' /\ (~task.periodic => InSequence')
  <2>1. 1 \in Nat /\ Len(Pending') + 1 <= Len(Pending)
    BY <1>2, <1>3
  <2>2. \A j \in 1..Len(Pending') : Pending'[j] = Pending[j + 1]
    BY <1>3
  <2>3. client'.newest \in Ahead(1 + 1) \cup {0}
    BY <1>3, <1>4, <1>5 DEF Ahead
  <2>4. task.next <= task'.next /\ task'.next <= N + 1 /\ task'.periodic = task.periodic
    BY <1>1, <1>2
  <2> QED
    BY <1>1, <2>1, <2>2, <2>3, <2>4, RestRegress
<1> HIDE DEF x, L, N
<1>7. OlderInv'
  <2> SUFFICES ASSUME x < client.newest
               PROVE  \E n \in 1..task.next - 1 :
                         /\ published[n] < client.newest
                         /\ \A m \in 1..N : published[m] <= client.newest
                               => m + (client.older + 1) <= n + StatusCapacity
                         /\ \A k \in 1..L - 1 :
                               Pending'[k] < client.newest => published[n] < Pending'[k]
    BY <1>1, <1>3, <1>4 DEF OlderInv, L, N
  <2>1. PICK n \in 1..task.next - 1 :
           /\ published[n] = x
           /\ \A m \in 1..N : published[m] <= client.newest => m < n + StatusCapacity
    BY <1>3, <1>5 DEF RegressInv, OrderInv, Behind, L, N
  <2>2. ASSUME NEW k \in 1..L - 1, Pending'[k] < client.newest PROVE published[n] < Pending'[k]
    <3>1. k + 1 \in 1 + 1..L /\ Pending'[k] = Pending[k + 1]
      BY <1>2, <1>3
    <3>2. Pending[1] < client.newest /\ Pending[k + 1] < client.newest => Pending[1] < Pending[k + 1]
      BY <1>5, <3>1 DEF RegressInv, OrderInv, L
    <3> QED
      BY <1>3, <2>1, <2>2, <3>1, <3>2
  <2>3. ASSUME NEW m \in 1..N, published[m] <= client.newest
        PROVE  m + (client.older + 1) <= n + StatusCapacity
    <3>1. CASE client.older = 0
      BY <1>2, <2>1, <2>3, <3>1
    <3>2. CASE client.older > 0
      <4>1. PICK o \in 1..task.next - 1 :
               /\ \A i \in 1..N : published[i] <= client.newest => i + client.older <= o + StatusCapacity
               /\ \A k \in 1..L : Pending[k] < client.newest => published[o] < Pending[k]
        BY <3>2 DEF RegressInv, OlderInv, L, N
      <4>2. published[o] < published[n]
        BY <1>3, <1>5, <2>1, <4>1
      <4>3. o < n
        <5>1. o \in 1..N /\ n \in 1..N /\ published[o] \in Nat /\ published[n] \in Nat
          BY <1>2
        <5>2. n < o => published[n] < published[o]
          <6>1. n < o => n \in 1..o - 1
            BY <5>1
          <6> QED
            BY <5>1, <6>1 DEF RegressInv, PublishedInv, N
        <5> QED
          BY <4>2, <5>1, <5>2
      <4>4. m + client.older <= o + StatusCapacity
        BY <2>3, <4>1
      <4> QED
        BY <1>2, <4>3, <4>4
    <3> QED
      BY <1>2, <3>1, <3>2
  <2> QED
    BY <2>1, <2>2, <2>3
<1>8. SequenceInv'
  <2> SUFFICES ASSUME ~task.periodic PROVE client'.older = 0
    BY <1>1, <1>6 DEF SequenceInv
  <2>1. \A v \in Ahead(1) : v <= Pending[1]
    BY <1>5 DEF RegressInv, SequenceInv, InSequence, L
  <2> QED
    BY <1>2, <1>3, <1>4, <1>5, <2>1
<1>9. NoneInv'
  <2>1. task.pc # "none"
    BY DEF RegressInv, NoneInv
  <2> QED
    BY <1>1, <2>1 DEF NoneInv
<1> QED
  BY <1>6, <1>7, <1>8, <1>9 DEF RegressInv

\* The client goes away, or has gone when the task sends.
LEMMA DropRegress ==
    ASSUME IInv, IInv', RegressInv, DropStream \/ (Send /\ client.stream = "dropped")
    PROVE  RegressInv'
<1>1. /\ queue \in Seq(Versions) /\ task.held \in Versions /\ Len(queue) \in Nat
      /\ task.next \in Nat /\ client.newest \in Nat /\ task.next <= Len(published) + 1
      /\ Len(Append(queue, task.held)) = Len(queue) + 1
      /\ \A j \in 1..Len(queue) : Append(queue, task.held)[j] = queue[j]
      /\ Append(queue, task.held)[Len(queue) + 1] = task.held
  <2>1. queue \in Seq(Versions) /\ task.held \in Versions
    BY DEF IInv, TypeOK
  <2> QED
    BY <2>1, AppendProperties, PendingTypes DEF IInv, RegressInv, PublishedInv
<1>2. CASE DropStream
  <2>1. /\ client'.newest = 0 /\ client'.older = 0 /\ queue' = <<>>
        /\ UNCHANGED <<status, published, task>>
    BY <1>2 DEF DropStream
  <2>2. PublishedInv' /\ OrderInv' /\ (~task.periodic => InSequence')
    <3>1. /\ Len(Pending') + Len(queue) <= Len(Pending)
          /\ \A j \in 1..Len(Pending') : Pending'[j] = Pending[j + Len(queue)]
      <4>1. CASE task.pc # "send"
        <5>1. Pending' = <<>> /\ Pending = queue
          BY <2>1, <4>1 DEF Pending
        <5> QED
          BY <1>1, <5>1
      <4>2. CASE task.pc = "send"
        <5>1. Pending' = Append(<<>>, task.held) /\ Pending = Append(queue, task.held)
          BY <2>1, <4>2 DEF Pending
        <5>2. Len(Pending') = 1 /\ Pending'[1] = task.held
          BY <5>1
        <5>3. Len(Pending) = Len(queue) + 1 /\ Pending[Len(queue) + 1] = task.held
          BY <1>1, <5>1
        <5>4. \A j \in 1..1 : j = 1 /\ j + Len(queue) = Len(queue) + 1
          BY <1>1
        <5> QED
          BY <1>1, <5>2, <5>3, <5>4
      <4> QED
        BY <4>1, <4>2
    <3>2. client'.newest \in Ahead(Len(queue) + 1) \cup {0}
      BY <2>1
    <3>3. task.next <= task'.next /\ task'.next <= Len(published) + 1 /\ task'.periodic = task.periodic
      BY <1>1, <2>1
    <3> QED
      BY <1>1, <2>1, <3>1, <3>2, <3>3, RestRegress
  <2>3. OlderInv' /\ SequenceInv' /\ NoneInv'
    BY <2>1, <2>2 DEF OlderInv, SequenceInv, NoneInv
  <2> QED
    BY <2>2, <2>3 DEF RegressInv
<1>3. CASE Send /\ client.stream = "dropped"
  <2>1. /\ task' = [task EXCEPT !.pc = "ended", !.held = 0]
        /\ task.pc = "send" /\ UNCHANGED <<status, published, client, queue>>
    BY <1>3 DEF Send
  <2>2. task'.next = task.next /\ task'.periodic = task.periodic /\ task'.pc = "ended"
    BY <2>1 DEF IInv, TypeOK
  <2>3. Pending = Append(queue, task.held) /\ Pending' = queue
    BY <2>1, <2>2 DEF Pending
  <2>4. PublishedInv' /\ OrderInv' /\ (~task.periodic => InSequence')
    <3>1. 0 \in Nat /\ Len(Pending') + 0 <= Len(Pending)
      BY <1>1, <2>3
    <3>2. \A j \in 1..Len(Pending') : Pending'[j] = Pending[j + 0]
      BY <1>1, <2>3
    <3>3. client'.newest \in Ahead(0 + 1) \cup {0}
      BY <2>1 DEF Ahead
    <3>4. task.next <= task'.next /\ task'.next <= Len(published) + 1
      BY <1>1, <2>2
    <3> QED
      BY <2>1, <2>2, <3>1, <3>2, <3>3, <3>4, RestRegress
  <2>5. OlderInv'
    <3>1. \A k \in 1..Len(Pending') : k \in 1..Len(Pending) /\ Pending'[k] = Pending[k]
      BY <1>1, <2>3
    <3> QED
      BY <2>1, <2>2, <3>1 DEF RegressInv, OlderInv
  <2>6. SequenceInv' /\ NoneInv'
    BY <2>1, <2>2, <2>4 DEF RegressInv, SequenceInv, NoneInv
  <2> QED
    BY <2>4, <2>5, <2>6 DEF RegressInv
<1> QED
  BY <1>2, <1>3

\* Every step preserves the invariant.
LEMMA NextRegress ==
    ASSUME IInv, IInv', RegressInv, [Next]_vars
    PROVE  RegressInv'
<1>0. TypeOK /\ task.next \in Nat /\ task.next >= 1 /\ Len(published) \in Nat
      /\ task.next <= Len(published) + 1 /\ StatusCapacity \in Nat
  BY PendingTypes DEF IInv, RegressInv, PublishedInv
<1>1. CASE Update
  <2>1. UNCHANGED <<task, queue, client>> /\ status'.version = status.version + 1
    BY <1>1 DEF Update, UpdateState, UpdateOther, UpdateSilently, Publish, NextVersion
  <2>2. published' = published \/ published' = Append(published, status.version + 1)
    BY <1>1 DEF Update, UpdateState, UpdateOther, UpdateSilently, Publish, NextVersion
  <2> QED
    BY <2>1, <2>2, UpdateRegress
<1>2. ASSUME NEW periodic \in BOOLEAN, Subscribe(periodic) PROVE RegressInv'
  <2>1. /\ task.pc = "none" /\ UNCHANGED <<status, published, queue>>
        /\ task'.pc = "check" /\ task'.next = Len(published) + 1
        /\ client' = [client EXCEPT !.stream = "open"]
    BY <1>2 DEF Subscribe, NoTask
  <2>2. queue = <<>> /\ client.newest = 0 /\ client.older = 0
    BY <2>1 DEF RegressInv, NoneInv
  <2>3. client'.newest = 0 /\ client'.older = 0
    BY <1>0, <2>1, <2>2 DEF TypeOK
  <2>4. Pending' = <<>> /\ Len(Pending') = 0
    BY <2>1, <2>2 DEF Pending
  <2>5. \A j \in 1..Len(Pending') : FALSE
    BY <2>4
  <2>6. \A n \in task'.next..Len(published) : FALSE
    BY <1>0, <2>1
  <2>7. PublishedInv'
    <3>1. task'.next <= Len(published) + 1 /\ client'.newest <= status.version
      BY <1>0, <2>1, <2>3, PendingTypes
    <3> QED
      BY <2>1, <2>5, <3>1 DEF RegressInv, PublishedInv
  <2>8. OrderInv' /\ OlderInv' /\ SequenceInv' /\ NoneInv'
    BY <2>1, <2>3, <2>5, <2>6 DEF OrderInv, OlderInv, SequenceInv, InSequence, NoneInv
  <2> QED
    BY <2>7, <2>8 DEF RegressInv
<1>3. CASE CheckState
  <2>1. UNCHANGED <<status, published, client, queue>> /\ task.pc = "check"
    BY <1>3 DEF CheckState
  <2>2. /\ task'.next = task.next /\ task'.periodic = task.periodic
        /\ task'.pc \in {"ended", "select"}
    BY <1>0, <1>3 DEF CheckState, TypeOK
  <2>3. Pending' = Pending
    BY <2>1, <2>2 DEF Pending
  <2> QED
    BY <1>0, <2>1, <2>2, <2>3, KeptRegress
<1>4. CASE Recv
  <2>1. /\ UNCHANGED <<status, published, client, queue>> /\ task.pc = "select"
        /\ task.next <= Len(published)
    BY <1>4 DEF Recv
  <2>2. CASE task.next < Oldest
    <3>1. task' = [task EXCEPT !.pc = "check", !.next = Oldest]
      BY <1>4, <2>2 DEF Recv
    <3>2. task'.pc = "check" /\ task'.next = Oldest /\ task'.periodic = task.periodic
      BY <1>0, <3>1 DEF TypeOK
    <3>3. Pending' = Pending
      BY <2>1, <3>2 DEF Pending
    <3>4. task.next <= task'.next /\ task'.next <= Len(published) + 1
      BY <1>0, <2>2, <3>2, Constants DEF Oldest
    <3> QED
      BY <2>1, <3>2, <3>3, <3>4, KeptRegress
  <2>3. CASE ~(task.next < Oldest)
    <3>1. task' = [task EXCEPT !.pc = "send", !.next = task.next + 1, !.held = published[task.next]]
      BY <1>4, <2>3 DEF Recv
    <3>2. /\ task'.pc = "send" /\ task'.next = task.next + 1 /\ task'.periodic = task.periodic
          /\ task'.held = published[task.next]
      BY <1>0, <3>1 DEF TypeOK
    <3>3. Pending' = Append(Pending, published[task.next])
      BY <2>1, <3>2 DEF Pending
    <3>4. Len(published) < task.next + StatusCapacity
      BY <1>0, <2>1, <2>3, Constants DEF Oldest
    <3> QED
      BY <2>1, <3>2, <3>3, <3>4, TakeRegress
  <2> QED
    BY <2>2, <2>3
<1>5. CASE PeriodicStatus
  <2>1. /\ UNCHANGED <<status, published, client, queue>> /\ task.pc = "select" /\ task.periodic
        /\ task' = [task EXCEPT !.pc = "send", !.held = status.version]
    BY <1>5 DEF PeriodicStatus
  <2>2. /\ task'.pc = "send" /\ task'.next = task.next /\ task'.periodic = task.periodic
        /\ task'.held = status.version
    BY <1>0, <2>1 DEF TypeOK
  <2>3. Pending' = Append(Pending, status.version)
    BY <2>1, <2>2 DEF Pending
  <2> QED
    BY <2>1, <2>2, <2>3, TakeRegress
<1>6. CASE Send
  <2>1. CASE client.stream = "dropped"
    BY <1>6, <2>1, DropRegress
  <2>2. CASE client.stream = "open"
    <3>1. /\ UNCHANGED <<status, published, client>> /\ task.pc = "send"
          /\ queue' = Append(queue, task.held)
          /\ task' = [task EXCEPT !.pc = "check", !.held = 0]
      BY <1>6, <2>2 DEF Send
    <3>2. task'.pc = "check" /\ task'.next = task.next /\ task'.periodic = task.periodic
      BY <1>0, <3>1 DEF TypeOK
    <3>3. Pending' = Pending
      BY <3>1, <3>2 DEF Pending
    <3> QED
      BY <1>0, <3>1, <3>2, <3>3, KeptRegress
  <2> QED
    BY <1>6, <2>1, <2>2 DEF Send
<1>7. CASE ReadStatus /\ queue # <<>>
  BY <1>7, ReadRegress
<1>8. CASE ReadStatus /\ queue = <<>>
  <2>1. /\ UNCHANGED <<status, published, task, queue>> /\ task.pc = "ended"
        /\ client' = [client EXCEPT !.stream = "ended"]
    BY <1>8 DEF ReadStatus
  <2>2. client'.newest = client.newest /\ client'.older = client.older /\ Pending' = Pending
    BY <1>0, <2>1 DEF TypeOK, Pending
  <2> QED
    BY <1>0, <2>1, <2>2, KeptRegress
<1>9. CASE DropStream
  BY <1>9, DropRegress
<1>10. CASE UNCHANGED <<status, published, task, queue, client>>
  <2>1. Pending' = Pending
    BY <1>10 DEF Pending
  <2>2. ASSUME NEW j PROVE Ahead(j)' = Ahead(j)
    BY <1>10, <2>1 DEF Ahead
  <2>3. PublishedInv'
    BY <1>10, <2>1 DEF RegressInv, PublishedInv
  <2>4. OrderInv'
    <3> SUFFICES ASSUME NEW j \in 1..Len(Pending), NEW v \in Ahead(j)
                 PROVE  /\ Behind(Pending[j], v)'
                        /\ \A k \in j + 1..Len(Pending) :
                              Pending[j] < v /\ Pending[k] < v => Pending[j] < Pending[k]
      BY <2>1, <2>2 DEF OrderInv
    <3> QED
      BY <1>10, <2>1 DEF RegressInv, OrderInv, Behind
  <2>5. OlderInv'
    BY <1>10, <2>1 DEF RegressInv, OlderInv
  <2>6. SequenceInv' /\ NoneInv'
    BY <1>10, <2>1, <2>2 DEF RegressInv, SequenceInv, InSequence, NoneInv
  <2> QED
    BY <2>3, <2>4, <2>5, <2>6 DEF RegressInv
<1>11. ASSUME NEW limit \in 1..PageLimit + 1, ReadLogPage(limit) PROVE RegressInv'
  BY <1>10, <1>11 DEF ReadLogPage
<1>12. CASE UNCHANGED vars
  BY <1>10, <1>12 DEF vars
<1> QED
  BY <1>1, <1>2, <1>3, <1>4, <1>5, <1>6, <1>7, <1>8, <1>9, <1>11, <1>12 DEF Next, Task

\* What subscribe_to_device_status tells a client goes back in time only behind
\* a periodic status, and then by no more updates than the broadcast channel
\* holds.
THEOREM RegressBounded == Spec => []BoundedRegress
<1>1. Init => RegressInv
  <2> SUFFICES ASSUME Init PROVE RegressInv
    OBVIOUS
  <2>1. /\ published = <<>> /\ queue = <<>> /\ Pending = <<>> /\ task.next = 1 /\ status.version = 0
        /\ client.newest = 0 /\ client.older = 0
    BY DEF Init, Pending, NoTask, InitialStatus
  <2>2. Len(published) = 0 /\ Len(Pending) = 0
    BY <2>1
  <2>3. \A n \in 1..0 : FALSE
    OBVIOUS
  <2> QED
    BY <2>1, <2>2, <2>3 DEF RegressInv, PublishedInv, OrderInv, OlderInv, SequenceInv, InSequence, NoneInv
<1>2. IInv /\ IInv' /\ RegressInv /\ [Next]_vars => RegressInv'
  BY NextRegress
<1>3. IInv /\ RegressInv => BoundedRegress
  <2> SUFFICES ASSUME IInv, RegressInv
               PROVE  client.older <= IF task.periodic THEN StatusCapacity ELSE 0
    BY DEF BoundedRegress
  <2>1. client.older \in Nat /\ StatusCapacity \in Nat /\ client.newest \in Nat /\ task.next \in Nat
        /\ Len(published) \in Nat /\ task.next <= Len(published) + 1
        /\ \A n \in 1..Len(published) : published[n] \in Nat
    BY PendingTypes DEF IInv, RegressInv, PublishedInv
  <2>2. CASE ~task.periodic
    BY <2>2 DEF RegressInv, SequenceInv
  <2>3. CASE client.older > 0
    <3>1. PICK n \in 1..task.next - 1 :
             /\ published[n] < client.newest
             /\ \A m \in 1..Len(published) :
                   published[m] <= client.newest => m + client.older <= n + StatusCapacity
      BY <2>3 DEF RegressInv, OlderInv
    <3>2. n \in 1..Len(published) /\ published[n] <= client.newest
      BY <2>1, <3>1
    <3>3. n + client.older <= n + StatusCapacity
      BY <3>1, <3>2
    <3>4. client.older <= StatusCapacity
      BY <2>1, <3>2, <3>3
    <3> QED
      BY <2>2, <3>4
  <2> QED
    BY <2>1, <2>2, <2>3
<1> QED
  BY <1>1, <1>2, <1>3, FeedInvariance, PTL DEF Spec

==============================================================================
