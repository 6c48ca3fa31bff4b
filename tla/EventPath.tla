----------------------------- MODULE EventPath -----------------------------
(***************************************************************************)
(* The path of an OOM kill from the kernel to the recorder.                *)
(*                                                                         *)
(*   - the eBPF probe on oom:mark_victim, running on any CPU, puts one     *)
(*     record per kill into the EVENTS ring buffer, or counts the kill in  *)
(*     DROPPED when the ring is full (oom-watcher-ebpf/src/main.rs);       *)
(*   - RingBufSource is woken by epoll, drains the ring into its pending   *)
(*     queue and hands out one event at a time (source.rs);                *)
(*   - the watch loop races the source against the heartbeat ticker,       *)
(*     records each event and then reports the drop total (watch.rs).      *)
(*                                                                         *)
(* The kernel, the reactor thread of tokio and the watch loop's task run   *)
(* concurrently, so the steps below are cut where one of them can see the  *)
(* others' effects.  A kill is named by its number; its payload, the       *)
(* resolution of its PID and the series it is recorded under are the       *)
(* subject of other modules.                                               *)
(***************************************************************************)
EXTENDS Naturals, Sequences

CONSTANTS
  CPUs,        \* the processors the probe can run on
  RingSlots,   \* how many records EVENTS holds (about 3k in 256 KiB)
  MaxKills     \* bound: kills in one behaviour

ASSUME RingSlotsAssumption == RingSlots \in Nat \ {0}
ASSUME MaxKillsAssumption == MaxKills \in Nat

VARIABLES
  kills,        \* OOM kills so far: the number of the latest one
  unread,       \* kills whose trace entry the probe could not read
  ring,         \* EVENTS: reserved and committed records, oldest first
  probe,        \* per CPU, the kill whose record it has reserved, or 0
  dropped,      \* DROPPED, summed over all CPUs
  hidden,       \* the part of that sum a reading currently misses
  edge,         \* the ring has woken epoll, the reactor has not run yet
  ready,        \* the readiness bit of the AsyncFd
  fresh,        \* readiness was signalled again since the guard was taken
  task,         \* where the watch loop's task is
  pending,      \* RingBufSource::pending
  current,      \* the event in process_event, as a sequence of at most one
  recorded,     \* the events record_oom_event has been called with
  lastDropped,  \* MetricsCollector::last_dropped_total
  droppedTotal, \* oom_events_dropped_total
  readOk,       \* the latest reading of DROPPED succeeded
  misread       \* some reading of DROPPED missed a part of the sum

kernelVars == <<kills, unread, ring, probe, dropped, hidden>>
wakeVars   == <<edge, ready, fresh>>
loopVars   == <<task, pending, current, recorded>>
dropVars   == <<lastDropped, droppedTotal, readOk, misread>>
vars == <<kills, unread, ring, probe, dropped, hidden, edge, ready, fresh,
          task, pending, current, recorded, lastDropped, droppedTotal, readOk,
          misread>>

RingRecord == [id: Nat, committed: BOOLEAN]

TaskStates ==
  {"register",  \* RingBufSource::new, the probe attached, the fd not registered
   "sync",      \* wait_until_synced, before the loop
   "select",    \* in the select!
   "drain",     \* in next(), reading the ring
   "clear",     \* in next(), the ring read empty, readiness not yet cleared
   "process",   \* in process_event
   "report",    \* before dropped_total
   "beat",      \* before the heartbeat
   "ended"}     \* the loop broke out and the task returned

Init ==
  /\ kills = 0 /\ unread = 0 /\ ring = <<>> /\ dropped = 0 /\ hidden = 0
  /\ probe = [c \in CPUs |-> 0]
  /\ edge = FALSE /\ ready = FALSE /\ fresh = FALSE
  /\ task = "register" /\ pending = <<>> /\ current = <<>> /\ recorded = <<>>
  /\ lastDropped = 0 /\ droppedTotal = 0 /\ readOk = TRUE
  /\ misread = FALSE

-----------------------------------------------------------------------------
(* The probe. *)

(* bpf_probe_read_kernel fails: the program returns without a trace. *)
ProbeReadFails ==
  /\ kills < MaxKills
  /\ kills' = kills + 1
  /\ unread' = unread + 1
  /\ UNCHANGED <<ring, probe, dropped, hidden, wakeVars, loopVars, dropVars>>

(* Mutant of Reserve: the record is written whether or not there is room. *)
ReserveOverrun(c) ==
  /\ kills < MaxKills
  /\ probe[c] = 0
  /\ kills' = kills + 1
  /\ ring' = Append(ring, [id |-> kills', committed |-> FALSE])
  /\ probe' = [probe EXCEPT ![c] = kills']
  /\ UNCHANGED <<unread, dropped, hidden, wakeVars, loopVars, dropVars>>

(* EVENTS.output, first half: room is reserved for the record.             *)
Reserve(c) ==
  /\ kills < MaxKills
  /\ probe[c] = 0
  /\ Len(ring) < RingSlots
  /\ kills' = kills + 1
  /\ ring' = Append(ring, [id |-> kills', committed |-> FALSE])
  /\ probe' = [probe EXCEPT ![c] = kills']
  /\ UNCHANGED <<unread, dropped, hidden, wakeVars, loopVars, dropVars>>

(* EVENTS.output fails on a full ring and the kill is counted.  Nothing    *)
(* separates the two in this model: the program is not preempted between   *)
(* them, while userland would have to work off a whole ring.               *)
Drop(c) ==
  /\ kills < MaxKills
  /\ probe[c] = 0
  /\ Len(ring) = RingSlots
  /\ kills' = kills + 1
  /\ dropped' = dropped + 1
  /\ UNCHANGED <<unread, ring, probe, hidden, wakeVars, loopVars, dropVars>>

(* EVENTS.output, second half.  With flags 0 the kernel wakes the consumer *)
(* only when it is waiting for exactly this record; nobody is woken before *)
(* the fd is registered.                                                   *)
Commit(c) ==
  /\ probe[c] # 0
  /\ \E i \in 1..Len(ring) :
       /\ ring[i].id = probe[c]
       /\ ring' = [ring EXCEPT ![i].committed = TRUE]
       /\ edge' = (edge \/ (i = 1 /\ task # "register"))
  /\ probe' = [probe EXCEPT ![c] = 0]
  /\ UNCHANGED <<kills, unread, dropped, hidden, ready, fresh, loopVars, dropVars>>

(* A CPU goes offline and its count is missing from the sum, or it is back. *)
CpuOffline ==
  /\ \E h \in 1..dropped : hidden' = h
  /\ UNCHANGED <<kills, unread, ring, probe, dropped, wakeVars, loopVars, dropVars>>

CpuOnline ==
  /\ hidden # 0
  /\ hidden' = 0
  /\ UNCHANGED <<kills, unread, ring, probe, dropped, wakeVars, loopVars, dropVars>>

-----------------------------------------------------------------------------
(* The reactor. *)

(* epoll_wait returns the edge; the ring is polled and reported readable   *)
(* if it holds anything, a record still being written included.            *)
Deliver ==
  /\ edge
  /\ edge' = FALSE
  /\ ready' = (ready \/ ring # <<>>)
  /\ fresh' = (fresh \/ ring # <<>>)
  /\ UNCHANGED <<kernelVars, loopVars, dropVars>>

-----------------------------------------------------------------------------
(* RingBufSource and the watch loop. *)

HeadCommitted == ring # <<>> /\ ring[1].committed

(* AsyncFd::new: registering a ring that already holds records is an edge. *)
Register ==
  /\ task = "register"
  /\ task' = "sync"
  /\ edge' = (ring # <<>>)
  /\ UNCHANGED <<kernelVars, ready, fresh, pending, current, recorded, dropVars>>

(* The pod cache has listed, or CACHE_SYNC_TIMEOUT is over, or standalone. *)
StartLoop ==
  /\ task = "sync"
  /\ task' = "select"
  /\ UNCHANGED <<kernelVars, wakeVars, pending, current, recorded, dropVars>>

(* Mutants of TakePending: the last pending event is kept back until more  *)
(* follow; pop_back instead of pop_front.                                  *)
TakePendingButLast ==
  /\ task = "select"
  /\ Len(pending) > 1
  /\ current' = <<Head(pending)>>
  /\ pending' = Tail(pending)
  /\ task' = "process"
  /\ UNCHANGED <<kernelVars, wakeVars, recorded, dropVars>>

TakePendingNewest ==
  /\ task = "select"
  /\ pending # <<>>
  /\ current' = <<pending[Len(pending)]>>
  /\ pending' = SubSeq(pending, 1, Len(pending) - 1)
  /\ task' = "process"
  /\ UNCHANGED <<kernelVars, wakeVars, recorded, dropVars>>

(* next() has a decoded event in hand. *)
TakePending ==
  /\ task = "select"
  /\ pending # <<>>
  /\ current' = <<Head(pending)>>
  /\ pending' = Tail(pending)
  /\ task' = "process"
  /\ UNCHANGED <<kernelVars, wakeVars, recorded, dropVars>>

(* readable_mut() resolves with a guard for the readiness seen now. *)
Readable ==
  /\ task = "select"
  /\ pending = <<>>
  /\ ready
  /\ task' = "drain"
  /\ fresh' = FALSE
  /\ UNCHANGED <<kernelVars, edge, ready, pending, current, recorded, dropVars>>

(* readable_mut() fails: next() returns None and the loop breaks. *)
ReadinessFails ==
  /\ task = "select"
  /\ pending = <<>>
  /\ task' = "ended"
  /\ UNCHANGED <<kernelVars, wakeVars, pending, current, recorded, dropVars>>

(* ring_buf.next() yields the oldest record.  The probe writes whole       *)
(* records only, so the length test always passes.                         *)
DrainOne ==
  /\ task = "drain"
  /\ HeadCommitted
  /\ pending' = Append(pending, ring[1].id)
  /\ ring' = Tail(ring)
  /\ UNCHANGED <<kills, unread, probe, dropped, hidden, wakeVars, task,
                 current, recorded, dropVars>>

(* ring_buf.next() is None: nothing there, or its oldest record is still   *)
(* being written.                                                          *)
DrainedEmpty ==
  /\ task = "drain"
  /\ ~HeadCommitted
  /\ task' = "clear"
  /\ UNCHANGED <<kernelVars, wakeVars, pending, current, recorded, dropVars>>

(* Mutant of ClearReady: readiness signalled since the guard goes too. *)
ClearReadyAlways ==
  /\ task = "clear"
  /\ ready' = FALSE
  /\ task' = "select"
  /\ UNCHANGED <<kernelVars, edge, fresh, pending, current, recorded, dropVars>>

(* clear_ready() clears only the readiness its guard was taken for. *)
ClearReady ==
  /\ task = "clear"
  /\ ready' = fresh
  /\ task' = "select"
  /\ UNCHANGED <<kernelVars, edge, fresh, pending, current, recorded, dropVars>>

(* process_event, down to record_oom_event. *)
ProcessEvent ==
  /\ task = "process"
  /\ recorded' = recorded \o current
  /\ current' = <<>>
  /\ task' = "report"
  /\ UNCHANGED <<kernelVars, wakeVars, pending, dropVars>>

(* Mutants of ReportDropped: the absolute total is added each time; the    *)
(* difference is added without looking at its sign.                        *)
ReportDroppedAbsolute ==
  /\ task = "report"
  /\ lastDropped' = dropped - hidden
  /\ droppedTotal' = droppedTotal + (dropped - hidden)
  /\ readOk' = TRUE
  /\ misread' = (misread \/ hidden # 0)
  /\ task' = "beat"
  /\ UNCHANGED <<kernelVars, wakeVars, pending, current, recorded>>

ReportDroppedSigned ==
  /\ task = "report"
  /\ lastDropped' = dropped - hidden
  /\ droppedTotal' = (droppedTotal + (dropped - hidden)) - lastDropped
  /\ readOk' = TRUE
  /\ misread' = (misread \/ hidden # 0)
  /\ task' = "beat"
  /\ UNCHANGED <<kernelVars, wakeVars, pending, current, recorded>>

(* dropped_total, then record_dropped_total: the reading replaces the last *)
(* one whatever it is, and the counter moves by the difference if that is  *)
(* positive.                                                               *)
ReportDropped ==
  /\ task = "report"
  /\ LET total == dropped - hidden
     IN  /\ lastDropped' = total
         /\ droppedTotal' = IF total > lastDropped
                              THEN droppedTotal + (total - lastDropped)
                              ELSE droppedTotal
  /\ readOk' = TRUE
  /\ misread' = (misread \/ hidden # 0)
  /\ task' = "beat"
  /\ UNCHANGED <<kernelVars, wakeVars, pending, current, recorded>>

(* The DROPPED map cannot be read: dropped_total is None. *)
DroppedUnreadable ==
  /\ task = "report"
  /\ readOk' = FALSE
  /\ task' = "beat"
  /\ UNCHANGED <<kernelVars, wakeVars, pending, current, recorded,
                 lastDropped, droppedTotal, misread>>

(* Mutant of TickerWins: a source that is not cancel-safe. *)
TickerWinsLosesPending ==
  /\ task = "select"
  /\ task' = "beat"
  /\ pending' = <<>>
  /\ UNCHANGED <<kernelVars, wakeVars, current, recorded, dropVars>>

(* The ticker wins the select! and the future of next() is dropped.  What  *)
(* the source holds is in fields, so nothing goes with it.                 *)
TickerWins ==
  /\ task = "select"
  /\ task' = "beat"
  /\ UNCHANGED <<kernelVars, wakeVars, pending, current, recorded, dropVars>>

(* heartbeat(now()), at the end of every iteration. *)
Heartbeat ==
  /\ task = "beat"
  /\ task' = "select"
  /\ UNCHANGED <<kernelVars, wakeVars, pending, current, recorded, dropVars>>

(* The task has returned; main exits and the probe is detached with it.    *)
Exited ==
  /\ task = "ended"
  /\ UNCHANGED vars

-----------------------------------------------------------------------------
Kernel ==
  \/ ProbeReadFails
  \/ \E c \in CPUs : Reserve(c) \/ Drop(c) \/ Commit(c)
  \/ CpuOffline
  \/ CpuOnline

Loop ==
  \/ Register \/ StartLoop \/ TakePending \/ Readable \/ ReadinessFails
  \/ DrainOne \/ DrainedEmpty \/ ClearReady
  \/ ProcessEvent \/ ReportDropped \/ DroppedUnreadable
  \/ TickerWins \/ Heartbeat \/ Exited

Next == Kernel \/ Deliver \/ Loop

(* The reactor and the task are scheduled, and a commit follows its        *)
(* reserve.  select! polls its branches in random order and the ticker is  *)
(* due once in 30 seconds, so a source that stays ready is not passed over *)
(* forever: strong fairness for the two ways next() makes progress.        *)
Fairness ==
  /\ \A c \in CPUs : WF_vars(Commit(c))
  /\ WF_vars(Deliver)
  /\ WF_vars(Register) /\ WF_vars(StartLoop)
  /\ SF_vars(TakePending) /\ SF_vars(Readable)
  /\ WF_vars(DrainOne) /\ WF_vars(DrainedEmpty) /\ WF_vars(ClearReady)
  /\ WF_vars(ProcessEvent) /\ WF_vars(ReportDropped \/ DroppedUnreadable)
  /\ WF_vars(Heartbeat)

Spec == Init /\ [][Next]_vars /\ Fairness

-----------------------------------------------------------------------------
(* Properties. *)

TypeOK ==
  /\ kills \in Nat /\ unread \in Nat /\ dropped \in Nat
  /\ hidden \in 0..dropped
  /\ ring \in Seq(RingRecord)
  /\ Len(ring) <= RingSlots
  /\ probe \in [CPUs -> Nat]
  /\ edge \in BOOLEAN /\ ready \in BOOLEAN /\ fresh \in BOOLEAN
  /\ task \in TaskStates
  /\ pending \in Seq(Nat)
  /\ current \in Seq(Nat)
  /\ recorded \in Seq(Nat)
  /\ lastDropped \in Nat /\ droppedTotal \in Nat
  /\ readOk \in BOOLEAN /\ misread \in BOOLEAN

RingIds == [i \in 1..Len(ring) |-> ring[i].id]

(* Accepted kills on their way: in process_event, in pending, in the ring. *)
InTransit == current \o pending \o RingIds

(* No kill is recorded twice or out of order, whatever the ring, the       *)
(* pending queue, the ticker and commits out of order do: everything the   *)
(* probe got into EVENTS, recorded or on its way, is in kill order.        *)
InOrderExactlyOnce ==
  LET accepted == recorded \o InTransit
  IN  \A i, j \in 1..Len(accepted) : i < j => accepted[i] < accepted[j]

(* No kill disappears between the probe and the recorder: each one is      *)
(* recorded, on its way, counted in DROPPED, or was unreadable for the     *)
(* probe.  In particular dropping the future of next() when the ticker     *)
(* wins loses nothing (the cancel-safety next() is documented to need).    *)
NothingLost ==
  kills = Len(recorded) + Len(InTransit) + dropped + unread

(* The watch loop never parks on a ring that has a record to read: with    *)
(* the loop back in select! and nothing pending, a committed oldest record *)
(* has readiness set or an edge on its way to the reactor.  This is what   *)
(* clearing readiness only after a full drain is for.                      *)
NoStrandedRecord ==
  (task \in {"sync", "select"} /\ pending = <<>> /\ HeadCommitted)
     => (ready \/ edge)

(* Drops are reported only after an event, yet none stays unreported: once *)
(* the ring and the pending queue are worked off, oom_events_dropped_total *)
(* is the number of drops, unless the last reading of DROPPED failed or    *)
(* one was made while a CPU's share was missing from the sum.              *)
DropsReportedWhenQuiet ==
  (/\ task \in {"select", "beat"}
   /\ ring = <<>>
   /\ pending = <<>>
   /\ readOk
   /\ ~misread)
     => droppedTotal = dropped

(* oom_events_dropped_total never goes down, even when the DROPPED sum     *)
(* does across a CPU hotplug (the case checked_sub is there for).          *)
DroppedTotalMonotone == [][droppedTotal' >= droppedTotal]_vars

(* oom_events_dropped_total, "OOM events the eBPF probe could not enqueue  *)
(* because the ring buffer was full", never exceeds the number of those.   *)
DroppedTotalNotInflated == droppedTotal <= dropped

(* The path implements a lossy FIFO: kills are accepted or lost as they    *)
(* happen and every accepted one is eventually recorded, in order, unless  *)
(* the readiness of the ring fails and ends the task.                      *)
Fifo == INSTANCE LossyFifo
          WITH queue <- InTransit, delivered <- recorded,
               stopped <- (task = "ended")
ImplementsFifo == Fifo!Spec

=============================================================================
