-------------------------- MODULE EventPathProofs --------------------------
(***************************************************************************)
(* Theorems about EventPath, for any number of CPUs, any ring size and any *)
(* number of kills.                                                        *)
(***************************************************************************)
EXTENDS EventPath, SequenceTheorems, TLAPS

(* What ring_buf.next() finds in an oldest committed record. *)
LEMMA OldestRecordTyped ==
  ASSUME TypeOK, HeadCommitted
  PROVE  ring # <<>> /\ ring[1] \in RingRecord /\ ring[1].id \in Nat
<1>1. ring \in Seq(RingRecord) /\ ring # <<>>
  BY DEF TypeOK, HeadCommitted
<1>2. ring[1] \in RingRecord
  BY <1>1
<1> QED BY <1>1, <1>2 DEF RingRecord

(* Pushing an event leaves a queue that is not empty. *)
LEMMA AppendNotEmpty == \A s \in Seq(Nat), n \in Nat : Append(s, n) # <<>>
<1>1. ASSUME NEW s \in Seq(Nat), NEW n \in Nat PROVE Append(s, n) # <<>>
  BY AppendProperties
<1> QED BY <1>1

(* The two halves of the type theorem, used on their own below. *)
LEMMA InitTyped == Init => TypeOK
<1> SUFFICES ASSUME Init PROVE TypeOK
  OBVIOUS
<1>1. /\ ring \in Seq(RingRecord) /\ Len(ring) = 0
      /\ pending \in Seq(Nat) /\ current \in Seq(Nat) /\ recorded \in Seq(Nat)
  BY EmptySeq DEF Init
<1>2. /\ probe \in [CPUs -> Nat]
      /\ Len(ring) <= RingSlots
      /\ hidden \in 0..dropped
  BY <1>1, RingSlotsAssumption DEF Init
<1>3. edge \in BOOLEAN /\ ready \in BOOLEAN /\ fresh \in BOOLEAN /\ readOk \in BOOLEAN
  BY DEF Init
<1> QED
  BY <1>1, <1>2, <1>3 DEF Init, TypeOK, TaskStates

(* Each step of the probe, the reactor or the loop keeps the types. *)
LEMMA TypeStep == TypeOK /\ [Next]_vars => TypeOK'
<1> SUFFICES ASSUME TypeOK, [Next]_vars PROVE TypeOK'
  OBVIOUS
<1> USE DEF TypeOK
<1>1. CASE ProbeReadFails
  BY <1>1 DEF ProbeReadFails, wakeVars, loopVars, dropVars
<1>2. ASSUME NEW c \in CPUs, Reserve(c) PROVE TypeOK'
  <2>1. ring' \in Seq(RingRecord) /\ Len(ring') <= RingSlots
    BY <1>2, RingSlotsAssumption DEF Reserve, RingRecord
  <2> QED BY <1>2, <2>1 DEF Reserve, wakeVars, loopVars, dropVars
<1>3. ASSUME NEW c \in CPUs, Drop(c) PROVE TypeOK'
  BY <1>3 DEF Drop, wakeVars, loopVars, dropVars
<1>4. ASSUME NEW c \in CPUs, Commit(c) PROVE TypeOK'
  <2>1. PICK i \in 1..Len(ring) :
          /\ ring' = [ring EXCEPT ![i].committed = TRUE]
          /\ edge' = (edge \/ (i = 1 /\ task # "register"))
    BY <1>4 DEF Commit
  <2>2. ring' = [ring EXCEPT ![i] = [ring[i] EXCEPT !.committed = TRUE]]
    BY <2>1
  <2>3. [ring[i] EXCEPT !.committed = TRUE] \in RingRecord
    <3>1. ring[i] \in RingRecord
      BY ElementOfSeq
    <3> QED BY <3>1 DEF RingRecord
  <2>4. ring' \in Seq(RingRecord) /\ Len(ring') = Len(ring)
    BY <2>2, <2>3, ExceptSeq
  <2> QED BY <1>4, <2>1, <2>4 DEF Commit, loopVars, dropVars
<1>5. CASE CpuOffline
  BY <1>5 DEF CpuOffline, wakeVars, loopVars, dropVars
<1>6. CASE CpuOnline
  BY <1>6 DEF CpuOnline, wakeVars, loopVars, dropVars
<1>7. CASE Deliver
  BY <1>7 DEF Deliver, kernelVars, loopVars, dropVars
<1>8. CASE Register
  BY <1>8 DEF Register, kernelVars, dropVars, TaskStates
<1>9. CASE StartLoop \/ Readable \/ ReadinessFails \/ DrainedEmpty \/ ClearReady
              \/ TickerWins \/ Heartbeat \/ Exited
  BY <1>9 DEF StartLoop, Readable, ReadinessFails, DrainedEmpty, ClearReady,
              TickerWins, Heartbeat, Exited, vars, kernelVars, wakeVars, dropVars, TaskStates
<1>10. CASE TakePending
  BY <1>10 DEF TakePending, kernelVars, wakeVars, dropVars, TaskStates
<1>11. CASE DrainOne
  <2>1. ring # <<>> /\ ring[1] \in RingRecord
    BY <1>11, OldestRecordTyped DEF DrainOne
  <2>2. ring' \in Seq(RingRecord) /\ Len(ring') <= RingSlots
    BY <1>11, <2>1, RingSlotsAssumption DEF DrainOne
  <2>3. pending' \in Seq(Nat)
    BY <1>11, <2>1 DEF DrainOne, RingRecord
  <2> QED BY <1>11, <2>2, <2>3 DEF DrainOne, wakeVars, dropVars
<1>12. CASE ProcessEvent
  BY <1>12 DEF ProcessEvent, kernelVars, wakeVars, dropVars, TaskStates
<1>13. CASE ReportDropped
  BY <1>13 DEF ReportDropped, kernelVars, wakeVars, TaskStates
<1>14. CASE DroppedUnreadable
  BY <1>14 DEF DroppedUnreadable, kernelVars, wakeVars, TaskStates
<1>15. CASE UNCHANGED vars
  BY <1>15 DEF vars
<1> QED
  BY <1>1, <1>2, <1>3, <1>4, <1>5, <1>6, <1>7, <1>8, <1>9, <1>10, <1>11,
     <1>12, <1>13, <1>14, <1>15 DEF Next, Kernel, Loop

(* EventPath keeps its types: in particular the ring never holds more than *)
(* RingSlots records, and the drop total never goes below zero.            *)
THEOREM TypeCorrect == Spec => []TypeOK
  BY InitTyped, TypeStep, PTL DEF Spec

-----------------------------------------------------------------------------
(* NoStrandedRecord speaks of the loop in select!.  What is inductive is   *)
(* that readiness survives the two places it could get lost: the drain, in *)
(* which records become the oldest one, and the gap between reading the    *)
(* ring empty and clearing readiness, in which an edge must leave a mark.  *)
WakeInv ==
  /\ task \in {"drain", "clear"} => ready
  /\ (task # "register" /\ HeadCommitted) => (ready \/ edge)
  /\ (task = "clear" /\ HeadCommitted) => (fresh \/ edge)

(* The watch loop never parks on a ring with a record to read, whatever    *)
(* the CPUs commit and the reactor delivers between ring_buf.next()        *)
(* returning None and clear_ready().                                       *)
THEOREM NeverParksOnARecord == Spec => []NoStrandedRecord
<1>1. Init => WakeInv
  BY DEF Init, WakeInv, HeadCommitted
<1>2. TypeOK /\ WakeInv /\ [Next]_vars => WakeInv'
  <2> SUFFICES ASSUME TypeOK, WakeInv, [Next]_vars PROVE WakeInv'
    OBVIOUS
  <2> USE DEF WakeInv, HeadCommitted
  <2>1. CASE UNCHANGED <<ring, edge, ready, fresh, task>>
    BY <2>1
  <2>2. ASSUME NEW c \in CPUs, Reserve(c) PROVE WakeInv'
    <3>1. CASE ring = <<>>
      <4>1. ring' = <<[id |-> kills', committed |-> FALSE]>>
        BY <2>2, <3>1 DEF Reserve
      <4> QED BY <2>2, <4>1 DEF Reserve, wakeVars, loopVars
    <3>2. CASE ring # <<>>
      <4>1. ring'[1] = ring[1]
        BY <2>2, <3>2 DEF Reserve, TypeOK
      <4> QED BY <2>2, <3>2, <4>1 DEF Reserve, wakeVars, loopVars
    <3> QED BY <3>1, <3>2
  <2>3. ASSUME NEW c \in CPUs, Commit(c) PROVE WakeInv'
    <3>1. PICK i \in 1..Len(ring) :
            /\ ring' = [ring EXCEPT ![i].committed = TRUE]
            /\ edge' = (edge \/ (i = 1 /\ task # "register"))
      BY <2>3 DEF Commit
    <3>2. CASE i = 1
      BY <2>3, <3>1, <3>2 DEF Commit, loopVars
    <3>3. CASE i # 1
      <4>1. ring'[1] = ring[1] /\ ring # <<>>
        BY <3>1, <3>3 DEF TypeOK
      <4> QED BY <2>3, <3>1, <3>3, <4>1 DEF Commit, loopVars
    <3> QED BY <3>2, <3>3
  <2>4. CASE Deliver
    BY <2>4 DEF Deliver, kernelVars, loopVars
  <2>5. CASE Register
    BY <2>5 DEF Register, kernelVars
  <2>6. CASE DrainOne
    BY <2>6 DEF DrainOne, wakeVars
  <2>7. CASE DrainedEmpty
    BY <2>7 DEF DrainedEmpty, kernelVars, wakeVars
  <2>8. CASE ClearReady
    BY <2>8 DEF ClearReady, kernelVars
  <2>9. CASE Readable
    BY <2>9 DEF Readable, kernelVars
  <2>10. CASE StartLoop \/ TakePending \/ ReadinessFails \/ ProcessEvent \/ ReportDropped
                 \/ DroppedUnreadable \/ TickerWins \/ Heartbeat
    BY <2>10 DEF StartLoop, TakePending, ReadinessFails, ProcessEvent, ReportDropped,
                 DroppedUnreadable, TickerWins, Heartbeat, kernelVars, wakeVars
  <2> QED
    BY <2>1, <2>2, <2>3, <2>4, <2>5, <2>6, <2>7, <2>8, <2>9, <2>10
       DEF Next, Kernel, Loop, ProbeReadFails, Drop, CpuOffline, CpuOnline, Exited,
           vars, wakeVars, loopVars
<1>3. WakeInv => NoStrandedRecord
  BY DEF WakeInv, NoStrandedRecord
<1> QED
  BY <1>1, <1>2, <1>3, TypeCorrect, PTL DEF Spec

-----------------------------------------------------------------------------
(* A drop the counter has not caught up with leaves something behind that  *)
(* will make the loop report again: a drop happens on a full ring only,    *)
(* and whatever was in the ring becomes an event to process.               *)
DropInv ==
  ~misread =>
    /\ droppedTotal = lastDropped
    /\ lastDropped <= dropped
    /\ (readOk /\ lastDropped # dropped)
          => (ring # <<>> \/ pending # <<>> \/ task \in {"process", "report"})

(* While no reading of DROPPED has missed a CPU's share, the counter is    *)
(* exact whenever the path is quiet and the last reading succeeded,        *)
(* although it is only brought up to date after an event.                  *)
THEOREM NoDropUnreported == Spec => []DropsReportedWhenQuiet
<1>1. Init => DropInv
  BY DEF Init, DropInv
<1>2. TypeOK /\ DropInv /\ [Next]_vars => DropInv'
  <2> SUFFICES ASSUME TypeOK, DropInv, [Next]_vars PROVE DropInv'
    OBVIOUS
  <2> USE DEF DropInv, TypeOK
  <2>1. CASE UNCHANGED <<dropped, lastDropped, droppedTotal, readOk, misread,
                         ring, pending, task>>
    BY <2>1
  <2>2. ASSUME NEW c \in CPUs, Reserve(c) PROVE DropInv'
    <3>1. [id |-> kills', committed |-> FALSE] \in RingRecord
      BY <2>2 DEF Reserve, RingRecord
    <3>2. ring' # <<>>
      BY <2>2, <3>1, AppendProperties DEF Reserve
    <3> QED BY <2>2, <3>2 DEF Reserve, dropVars
  <2>3. ASSUME NEW c \in CPUs, Drop(c) PROVE DropInv'
    <3>1. ring' # <<>>
      BY <2>3, RingSlotsAssumption DEF Drop
    <3> QED BY <2>3, <3>1 DEF Drop, dropVars
  <2>4. ASSUME NEW c \in CPUs, Commit(c) PROVE DropInv'
    <3>1. ring # <<>> => ring' # <<>>
      BY <2>4 DEF Commit
    <3> QED BY <2>4, <3>1 DEF Commit, loopVars, dropVars
  <2>5. CASE CpuOffline
    BY <2>5 DEF CpuOffline, loopVars, dropVars
  <2>6. CASE TakePending
    BY <2>6 DEF TakePending, kernelVars, dropVars
  <2>7. CASE DrainOne
    <3>1. ring[1].id \in Nat
      BY <2>7, OldestRecordTyped DEF DrainOne
    <3>2. pending' = Append(pending, ring[1].id)
      BY <2>7 DEF DrainOne
    <3>3. pending' # <<>>
      BY <3>1, <3>2, AppendNotEmpty
    <3> QED BY <2>7, <3>3 DEF DrainOne, dropVars
  <2>8. CASE ProcessEvent
    BY <2>8 DEF ProcessEvent, kernelVars, dropVars
  <2>9. CASE ReportDropped
    <3> SUFFICES ASSUME ~misread' PROVE DropInv'
      OBVIOUS
    <3>1. ~misread /\ hidden = 0 /\ dropped' = dropped
      BY <2>9 DEF ReportDropped, kernelVars
    <3>2. lastDropped' = dropped /\ droppedTotal' = dropped
      BY <2>9, <3>1 DEF ReportDropped
    <3> QED BY <3>1, <3>2
  <2>10. CASE DroppedUnreadable
    BY <2>10 DEF DroppedUnreadable, kernelVars
  <2>11. CASE Register \/ StartLoop \/ Readable \/ ReadinessFails \/ DrainedEmpty
                 \/ ClearReady \/ TickerWins \/ Heartbeat
    BY <2>11 DEF Register, StartLoop, Readable, ReadinessFails, DrainedEmpty, ClearReady,
                 TickerWins, Heartbeat, kernelVars, dropVars
  <2>12. CASE CpuOnline
    BY <2>12 DEF CpuOnline, loopVars, dropVars
  <2> QED
    BY <2>1, <2>2, <2>3, <2>4, <2>5, <2>6, <2>7, <2>8, <2>9, <2>10, <2>11, <2>12
       DEF Next, Kernel, Loop, ProbeReadFails, Deliver, Exited,
           vars, kernelVars, loopVars, dropVars
<1>3. DropInv => DropsReportedWhenQuiet
  BY DEF DropInv, DropsReportedWhenQuiet
<1> QED
  BY <1>1, <1>2, <1>3, TypeCorrect, PTL DEF Spec

(* CPU hotplug or not, no step of the loop lowers oom_events_dropped_total.    *)
THEOREM DropCounterMonotone == Spec => DroppedTotalMonotone
<1>1. TypeOK /\ [Next]_vars => [droppedTotal' >= droppedTotal]_vars
  <2> SUFFICES ASSUME TypeOK, [Next]_vars PROVE droppedTotal' >= droppedTotal
    OBVIOUS
  <2> USE DEF TypeOK
  <2>1. CASE ReportDropped
    BY <2>1 DEF ReportDropped
  <2>2. CASE UNCHANGED droppedTotal
    BY <2>2
  <2> QED
    BY <2>1, <2>2
       DEF Next, Kernel, Loop, ProbeReadFails, Reserve, Drop, Commit, CpuOffline, CpuOnline,
           Deliver, Register, StartLoop, TakePending, Readable, ReadinessFails, DrainOne,
           DrainedEmpty, ClearReady, ProcessEvent, DroppedUnreadable, TickerWins, Heartbeat,
           Exited, vars, dropVars
<1> QED
  BY <1>1, TypeCorrect, PTL DEF Spec, DroppedTotalMonotone

-----------------------------------------------------------------------------
(* Sequences of kills. *)

(* Taking the front off and putting it back. *)
LEMMA HeadThenTail ==
  ASSUME NEW s \in Seq(Nat), s # <<>>
  PROVE  <<Head(s)>> \o Tail(s) = s
<1>1. Head(s) \in Nat /\ Tail(s) \in Seq(Nat) /\ Len(Tail(s)) = Len(s) - 1
      /\ \A i \in 1..Len(Tail(s)) : Tail(s)[i] = s[i+1]
  BY HeadTailProperties
<1>2. <<Head(s)>> \in Seq(Nat) /\ Len(<<Head(s)>>) = 1 /\ <<Head(s)>>[1] = s[1]
  BY <1>1
<1> DEFINE t == <<Head(s)>> \o Tail(s)
<1>3. /\ t \in Seq(Nat) /\ Len(t) = Len(s)
      /\ \A i \in 1..Len(s) : t[i] = IF i <= 1 THEN <<Head(s)>>[i] ELSE Tail(s)[i - 1]
  BY <1>1, <1>2, ConcatProperties
<1>4. \A i \in 1..Len(s) : t[i] = s[i]
  BY <1>1, <1>2, <1>3
<1> HIDE DEF t
<1>5. t = s
  BY <1>3, <1>4, SeqEqual
<1> QED BY <1>5 DEF t

(* An element moved from the front of one queue to the back of the one     *)
(* before it.                                                              *)
LEMMA MoveAcross ==
  ASSUME NEW a \in Seq(Nat), NEW b \in Seq(Nat), b # <<>>
  PROVE  Append(a, Head(b)) \o Tail(b) = a \o b
<1>1. Head(b) \in Nat /\ Tail(b) \in Seq(Nat)
  BY HeadTailProperties
<1>2. <<Head(b)>> \in Seq(Nat)
  BY <1>1
<1>3. Append(a, Head(b)) = a \o <<Head(b)>>
  BY <1>1, AppendIsConcat
<1>4. (a \o <<Head(b)>>) \o Tail(b) = a \o (<<Head(b)>> \o Tail(b))
  BY <1>1, <1>2, ConcatAssociative
<1> QED BY <1>3, <1>4, HeadThenTail

(* An element appended to the second of two queues. *)
LEMMA AppendBehind ==
  ASSUME NEW a \in Seq(Nat), NEW b \in Seq(Nat), NEW n \in Nat
  PROVE  a \o Append(b, n) = Append(a \o b, n)
<1>1. <<n>> \in Seq(Nat) /\ a \o b \in Seq(Nat)
  BY ConcatProperties
<1>2. a \o Append(b, n) = a \o (b \o <<n>>)
  BY AppendIsConcat
<1>3. a \o (b \o <<n>>) = (a \o b) \o <<n>>
  BY <1>1, ConcatAssociative
<1> QED BY <1>1, <1>2, <1>3, AppendIsConcat

(* Concatenation is associative. *)
LEMMA Regroup ==
  ASSUME NEW a \in Seq(Nat), NEW b \in Seq(Nat), NEW c \in Seq(Nat)
  PROVE  a \o b \o c = a \o (b \o c)
  BY ConcatAssociative

(* Taking off a front of one element. *)
LEMMA FrontOff ==
  ASSUME NEW a \in Seq(Nat), Len(a) = 1, NEW b \in Seq(Nat)
  PROVE  a \o b # <<>> /\ Head(a \o b) = a[1] /\ Tail(a \o b) = b
<1> DEFINE t == a \o b
<1>1. /\ t \in Seq(Nat) /\ Len(t) = 1 + Len(b)
      /\ \A i \in 1..(1 + Len(b)) : t[i] = IF i <= 1 THEN a[i] ELSE b[i - 1]
  BY ConcatProperties
<1>2. Len(b) \in Nat
  BY LenProperties
<1> HIDE DEF t
<1>3. t # <<>> /\ Head(t) = a[1]
  BY <1>1, <1>2
<1>4. /\ Tail(t) \in Seq(Nat) /\ Len(Tail(t)) = Len(b)
      /\ \A i \in 1..Len(Tail(t)) : Tail(t)[i] = t[i + 1]
  BY <1>1, <1>2, <1>3, HeadTailProperties
<1>5. \A i \in 1..Len(b) : Tail(t)[i] = b[i]
  BY <1>1, <1>2, <1>4
<1>6. Tail(t) = b
  BY <1>4, <1>5, SeqEqual
<1> QED BY <1>3, <1>6 DEF t

(* The queues of the path are sequences of kills. *)
LEMMA TransitTyped ==
  ASSUME TypeOK
  PROVE  /\ RingIds \in Seq(Nat) /\ Len(RingIds) = Len(ring)
         /\ current \o pending \in Seq(Nat)
         /\ InTransit \in Seq(Nat)
         /\ Len(InTransit) = Len(current) + Len(pending) + Len(ring)
<1>1. ring \in Seq(RingRecord) /\ current \in Seq(Nat) /\ pending \in Seq(Nat)
  BY DEF TypeOK
<1>2. \A i \in 1..Len(ring) : ring[i].id \in Nat
  <2> TAKE i \in 1..Len(ring)
  <2>1. ring[i] \in RingRecord
    BY <1>1, ElementOfSeq
  <2> QED BY <2>1 DEF RingRecord
<1>3. RingIds \in Seq(Nat) /\ Len(RingIds) = Len(ring)
  BY <1>1, <1>2 DEF RingIds
<1>4. current \o pending \in Seq(Nat) /\ Len(current \o pending) = Len(current) + Len(pending)
  BY <1>1, ConcatProperties
<1>5. InTransit \in Seq(Nat) /\ Len(InTransit) = Len(current \o pending) + Len(RingIds)
  BY <1>3, <1>4, ConcatProperties DEF InTransit
<1> QED BY <1>1, <1>3, <1>4, <1>5

-----------------------------------------------------------------------------
(* What each action does to the kills on their way. *)

(* process_event holds an event exactly while the loop is in it. *)
CurrentInv ==
  /\ task = "process" => current # <<>> /\ Len(current) = 1
  /\ task # "process" => current = <<>>

(* Only TakePending fills current, only ProcessEvent empties it. *)
LEMMA CurrentStep ==
  ASSUME CurrentInv, [Next]_vars
  PROVE  CurrentInv'
<1> USE DEF CurrentInv
<1>1. CASE UNCHANGED <<task, current>>
  BY <1>1
<1>2. CASE TakePending
  BY <1>2 DEF TakePending
<1>3. CASE ProcessEvent
  BY <1>3 DEF ProcessEvent
<1>4. CASE Register \/ StartLoop \/ Readable \/ ReadinessFails \/ DrainedEmpty \/ ClearReady
             \/ ReportDropped \/ DroppedUnreadable \/ TickerWins \/ Heartbeat
  BY <1>4 DEF Register, StartLoop, Readable, ReadinessFails, DrainedEmpty, ClearReady,
              ReportDropped, DroppedUnreadable, TickerWins, Heartbeat
<1> QED
  BY <1>1, <1>2, <1>3, <1>4
     DEF Next, Kernel, Loop, ProbeReadFails, Reserve, Drop, Commit, CpuOffline, CpuOnline,
         Deliver, DrainOne, Exited, vars, loopVars

(* EVENTS.output puts the kill behind every other. *)
LEMMA ReserveQueues ==
  ASSUME TypeOK, NEW c \in CPUs, Reserve(c)
  PROVE  InTransit' = Append(InTransit, kills + 1)
<1>1. /\ ring \in Seq(RingRecord) /\ current \o pending \in Seq(Nat)
      /\ RingIds \in Seq(Nat) /\ Len(RingIds) = Len(ring) /\ kills + 1 \in Nat
  BY TransitTyped DEF TypeOK
<1>2. /\ ring' = Append(ring, [id |-> kills + 1, committed |-> FALSE])
      /\ current' = current /\ pending' = pending
  BY DEF Reserve, loopVars
<1>3. RingIds' = Append(RingIds, kills + 1)
  <2>1. [id |-> kills + 1, committed |-> FALSE] \in RingRecord
    BY <1>1 DEF RingRecord
  <2>2. /\ ring' \in Seq(RingRecord) /\ Len(ring') = Len(ring) + 1
        /\ \A i \in 1..Len(ring) : ring'[i] = ring[i]
        /\ ring'[Len(ring) + 1] = [id |-> kills + 1, committed |-> FALSE]
    BY <1>1, <1>2, <2>1, AppendProperties
  <2>3. /\ Append(RingIds, kills + 1) \in Seq(Nat)
        /\ Len(Append(RingIds, kills + 1)) = Len(ring) + 1
        /\ \A i \in 1..Len(ring) : Append(RingIds, kills + 1)[i] = RingIds[i]
        /\ Append(RingIds, kills + 1)[Len(ring) + 1] = kills + 1
    BY <1>1, AppendProperties
  <2>4. /\ RingIds' = [i \in 1..Len(ring') |-> ring'[i].id]
        /\ RingIds = [i \in 1..Len(ring) |-> ring[i].id]
    BY DEF RingIds
  <2>5. \A i \in 1..(Len(ring) + 1) : ring'[i].id = Append(RingIds, kills + 1)[i]
    BY <1>1, <2>2, <2>3, <2>4
  <2>6. Append(RingIds, kills + 1) \in [1..(Len(ring) + 1) -> Nat]
    BY <2>3, LenProperties
  <2>7. Append(RingIds, kills + 1)
          = [i \in 1..(Len(ring) + 1) |-> Append(RingIds, kills + 1)[i]]
    BY <2>6
  <2> QED BY <2>2, <2>4, <2>5, <2>7
<1>4. InTransit' = (current \o pending) \o Append(RingIds, kills + 1)
  BY <1>2, <1>3 DEF InTransit
<1> QED BY <1>1, <1>4, AppendBehind DEF InTransit

(* Committing a record, moving it to pending or taking it from there moves *)
(* nothing past anything else.                                             *)
LEMMA CommitKeepsQueue ==
  ASSUME TypeOK, NEW c \in CPUs, Commit(c)
  PROVE  InTransit' = InTransit
<1>1. PICK i \in 1..Len(ring) : ring' = [ring EXCEPT ![i].committed = TRUE]
  BY DEF Commit
<1>2. ring \in Seq(RingRecord)
  BY DEF TypeOK
<1>3. /\ ring[i] \in RingRecord
      /\ ring' = [ring EXCEPT ![i] = [ring[i] EXCEPT !.committed = TRUE]]
  BY <1>1, <1>2, ElementOfSeq
<1>4. /\ [ring[i] EXCEPT !.committed = TRUE] \in RingRecord
      /\ [ring[i] EXCEPT !.committed = TRUE].id = ring[i].id
  BY <1>3 DEF RingRecord
<1>5. /\ Len(ring') = Len(ring)
      /\ \A j \in 1..Len(ring) :
           ring'[j] = IF j = i THEN [ring[i] EXCEPT !.committed = TRUE] ELSE ring[j]
  BY <1>2, <1>3, <1>4, ExceptSeq
<1>6. \A j \in 1..Len(ring) : ring'[j].id = ring[j].id
  BY <1>4, <1>5
<1>7. RingIds' = RingIds
  BY <1>5, <1>6 DEF RingIds
<1> QED BY <1>7 DEF Commit, loopVars, InTransit

(* Draining moves the oldest record to the end of pending. *)
LEMMA DrainKeepsQueue ==
  ASSUME TypeOK, DrainOne
  PROVE  InTransit' = InTransit
<1>1. /\ ring \in Seq(RingRecord) /\ ring # <<>> /\ ring[1].id \in Nat
      /\ current \in Seq(Nat) /\ pending \in Seq(Nat) /\ current \o pending \in Seq(Nat)
      /\ RingIds \in Seq(Nat) /\ Len(RingIds) = Len(ring)
  BY OldestRecordTyped, TransitTyped DEF TypeOK, DrainOne
<1>2. RingIds # <<>> /\ Head(RingIds) = ring[1].id
  BY <1>1 DEF RingIds
<1>3. RingIds' = Tail(RingIds)
  <2>1. /\ Len(ring') = Len(ring) - 1
        /\ \A i \in 1..Len(ring') : ring'[i] = ring[i + 1]
    BY <1>1, HeadTailProperties DEF DrainOne
  <2>2. /\ Tail(RingIds) \in Seq(Nat)
        /\ Len(Tail(RingIds)) = Len(ring) - 1
        /\ \A i \in 1..Len(Tail(RingIds)) : Tail(RingIds)[i] = RingIds[i + 1]
    BY <1>1, <1>2, HeadTailProperties
  <2>3. Len(ring) \in Nat
    BY <1>1, LenProperties
  <2>4. \A i \in 1..Len(ring') : ring'[i].id = Tail(RingIds)[i]
    BY <2>1, <2>2, <2>3 DEF RingIds
  <2>5. Tail(RingIds) = [i \in 1..Len(ring') |-> Tail(RingIds)[i]]
    BY <2>1, <2>2, LenProperties
  <2> QED BY <2>4, <2>5 DEF RingIds
<1>4. current' \o pending' = Append(current \o pending, Head(RingIds))
  BY <1>1, <1>2, AppendBehind DEF DrainOne
<1> QED BY <1>1, <1>2, <1>3, <1>4, MoveAcross DEF InTransit

(* Handing an event out moves it from pending to process_event. *)
LEMMA TakeKeepsQueue ==
  ASSUME TypeOK, CurrentInv, TakePending
  PROVE  InTransit' = InTransit
<1>1. pending \in Seq(Nat) /\ pending # <<>> /\ current = <<>>
  BY DEF TypeOK, CurrentInv, TakePending
<1>2. current' \o pending' = <<Head(pending)>> \o Tail(pending)
  BY DEF TakePending
<1>3. current \o pending = pending
  BY <1>1, ConcatEmptySeq
<1>4. current' \o pending' = current \o pending
  BY <1>1, <1>2, <1>3, HeadThenTail
<1> QED BY <1>4 DEF TakePending, kernelVars, InTransit, RingIds

(* Recording takes the oldest kill off the queue. *)
LEMMA ProcessTakesOldest ==
  ASSUME TypeOK, CurrentInv, ProcessEvent
  PROVE  /\ InTransit # <<>>
         /\ InTransit = current \o InTransit'
         /\ recorded' = Append(recorded, Head(InTransit))
         /\ InTransit' = Tail(InTransit)
<1>1. /\ current \in Seq(Nat) /\ Len(current) = 1 /\ pending \in Seq(Nat)
      /\ RingIds \in Seq(Nat) /\ recorded \in Seq(Nat) /\ current[1] \in Nat
  BY TransitTyped DEF TypeOK, CurrentInv, ProcessEvent
<1>2. InTransit' = pending \o RingIds
  BY <1>1, ConcatEmptySeq DEF ProcessEvent, kernelVars, InTransit, RingIds
<1>3. InTransit = current \o (pending \o RingIds)
  BY <1>1, Regroup DEF InTransit
<1>4. pending \o RingIds \in Seq(Nat)
  BY <1>1, ConcatProperties
<1>5. current = <<current[1]>>
  BY <1>1
<1>6. recorded' = Append(recorded, current[1])
  BY <1>1, <1>5, AppendIsConcat DEF ProcessEvent
<1> QED BY <1>1, <1>2, <1>3, <1>4, <1>6, FrontOff

-----------------------------------------------------------------------------
(* The kills on their way change in three ways only. *)
LEMMA TransitStep ==
  ASSUME TypeOK, CurrentInv, [Next]_vars
  PROVE  \/ /\ InTransit' = Append(InTransit, kills + 1)
            /\ \E c \in CPUs : Reserve(c)
         \/ ProcessEvent
         \/ InTransit' = InTransit /\ recorded' = recorded
<1>1. ASSUME NEW c \in CPUs, Reserve(c)
      PROVE  InTransit' = Append(InTransit, kills + 1)
  BY <1>1, ReserveQueues
<1>2. ASSUME NEW c \in CPUs, Commit(c)
      PROVE  InTransit' = InTransit /\ recorded' = recorded
  BY <1>2, CommitKeepsQueue DEF Commit, loopVars
<1>3. CASE DrainOne
  BY <1>3, DrainKeepsQueue DEF DrainOne
<1>4. CASE TakePending
  BY <1>4, TakeKeepsQueue DEF TakePending
<1>5. CASE UNCHANGED <<ring, pending, current, recorded>>
  BY <1>5 DEF InTransit, RingIds
<1> QED
  BY <1>1, <1>2, <1>3, <1>4, <1>5
     DEF Next, Kernel, Loop, ProbeReadFails, Drop, CpuOffline, CpuOnline, Deliver, Register,
         StartLoop, Readable, ReadinessFails, DrainedEmpty, ClearReady, ReportDropped,
         DroppedUnreadable, TickerWins, Heartbeat, Exited, vars, kernelVars, loopVars

(* Every kill is recorded, on its way, counted as dropped or was never     *)
(* readable: a select! won by the ticker, a commit out of order or a full  *)
(* ring loses nothing without a count.                                     *)
THEOREM NoKillLost == Spec => []NothingLost
<1> DEFINE LostInv == CurrentInv /\ NothingLost
<1>1. Init => LostInv
  <2> SUFFICES ASSUME Init PROVE LostInv
    OBVIOUS
  <2>1. TypeOK
    BY InitTyped
  <2>2. Len(InTransit) = 0 /\ Len(recorded) = 0
    BY <2>1, TransitTyped, EmptySeq DEF Init
  <2> QED BY <2>2 DEF Init, CurrentInv, NothingLost
<1>2. TypeOK /\ LostInv /\ [Next]_vars => LostInv'
  <2> SUFFICES ASSUME TypeOK, LostInv, [Next]_vars PROVE LostInv'
    OBVIOUS
  <2>1. CurrentInv'
    BY CurrentStep
  <2>2. /\ kills \in Nat /\ unread \in Nat /\ dropped \in Nat
        /\ InTransit \in Seq(Nat) /\ recorded \in Seq(Nat)
        /\ Len(InTransit) \in Nat /\ Len(recorded) \in Nat
        /\ kills = Len(recorded) + Len(InTransit) + dropped + unread
    BY TransitTyped, LenProperties DEF TypeOK, NothingLost
  <2>3. ASSUME NEW c \in CPUs, Reserve(c) PROVE NothingLost'
    <3>1. Len(InTransit') = Len(InTransit) + 1
      BY <2>2, <2>3, ReserveQueues, AppendProperties
    <3> QED BY <2>2, <2>3, <3>1 DEF Reserve, loopVars, NothingLost
  <2>4. CASE ProcessEvent
    <3>1. Len(recorded') = Len(recorded) + 1 /\ Len(InTransit') = Len(InTransit) - 1
      <4>1. /\ InTransit # <<>> /\ InTransit' = Tail(InTransit)
            /\ recorded' = Append(recorded, Head(InTransit))
        BY <2>4, ProcessTakesOldest
      <4>2. Head(InTransit) \in Nat /\ Len(Tail(InTransit)) = Len(InTransit) - 1
        BY <2>2, <4>1, HeadTailProperties
      <4> QED BY <2>2, <4>1, <4>2, AppendProperties
    <3> QED BY <2>1, <2>2, <2>4, <3>1 DEF ProcessEvent, kernelVars, NothingLost
  <2>5. CASE InTransit' = InTransit /\ recorded' = recorded
    <3>1. CASE ProbeReadFails
      BY <2>1, <2>2, <2>5, <3>1 DEF ProbeReadFails, NothingLost
    <3>2. ASSUME NEW c \in CPUs, Drop(c) PROVE NothingLost'
      BY <2>2, <2>5, <3>2 DEF Drop, NothingLost
    <3>3. CASE UNCHANGED <<kills, dropped, unread>>
      BY <2>1, <2>2, <2>5, <3>3 DEF NothingLost
    <3> QED
      BY <2>1, <2>3, <3>1, <3>2, <3>3
         DEF Next, Kernel, Loop, Commit, CpuOffline, CpuOnline, Deliver, Register, StartLoop,
             TakePending, Readable, ReadinessFails, DrainOne, DrainedEmpty, ClearReady,
             ProcessEvent, ReportDropped, DroppedUnreadable, TickerWins, Heartbeat, Exited,
             vars, kernelVars
  <2> QED BY <2>1, <2>3, <2>4, <2>5, TransitStep
<1>3. LostInv => NothingLost
  OBVIOUS
<1> QED
  BY <1>1, <1>2, <1>3, TypeCorrect, PTL DEF Spec

-----------------------------------------------------------------------------
Accepted == recorded \o InTransit

(* What a step does to everything the probe ever got into the ring: it     *)
(* adds the newest kill at the end, or nothing.                            *)
LEMMA AcceptedStep ==
  ASSUME TypeOK, CurrentInv, [Next]_vars
  PROVE  \/ Accepted' = Append(Accepted, kills + 1) /\ kills' = kills + 1
         \/ Accepted' = Accepted /\ kills' \in {kills, kills + 1}
<1>1. /\ recorded \in Seq(Nat) /\ InTransit \in Seq(Nat) /\ kills \in Nat
  BY TransitTyped DEF TypeOK
<1>2. ASSUME NEW c \in CPUs, Reserve(c)
      PROVE  Accepted' = Append(Accepted, kills + 1) /\ kills' = kills + 1
  <2>1. InTransit' = Append(InTransit, kills + 1) /\ recorded' = recorded /\ kills' = kills + 1
    BY <1>2, ReserveQueues DEF Reserve, loopVars
  <2> QED BY <1>1, <2>1, AppendBehind DEF Accepted
<1>3. CASE ProcessEvent
  <2>1. /\ InTransit # <<>> /\ InTransit' = Tail(InTransit)
        /\ recorded' = Append(recorded, Head(InTransit)) /\ kills' = kills
    BY <1>3, ProcessTakesOldest DEF ProcessEvent, kernelVars
  <2>2. Accepted' = Accepted
    BY <1>1, <2>1, MoveAcross DEF Accepted
  <2> QED BY <2>1, <2>2
<1>4. CASE InTransit' = InTransit /\ recorded' = recorded
  <2>1. kills' \in {kills, kills + 1}
    BY DEF Next, Kernel, Loop, ProbeReadFails, Reserve, Drop, Commit, CpuOffline, CpuOnline,
           Deliver, Register, StartLoop, TakePending, Readable, ReadinessFails, DrainOne,
           DrainedEmpty, ClearReady, ProcessEvent, ReportDropped, DroppedUnreadable,
           TickerWins, Heartbeat, Exited, vars, kernelVars
  <2> QED BY <1>4, <2>1 DEF Accepted
<1> QED BY <1>2, <1>3, <1>4, TransitStep

(* No kill is recorded twice or out of order.  The inductive part: nothing *)
(* accepted has a number above the latest kill's, so the next one accepted *)
(* is larger than all before it.                                           *)
THEOREM RecordedInOrder == Spec => []InOrderExactlyOnce
<1> DEFINE BelowKills == \A i \in 1..Len(Accepted) : Accepted[i] <= kills
           OrderInv == CurrentInv /\ InOrderExactlyOnce /\ BelowKills
<1>0. TypeOK => Accepted \in Seq(Nat) /\ Len(Accepted) \in Nat /\ kills \in Nat
  BY TransitTyped, ConcatProperties, LenProperties DEF Accepted, TypeOK
<1>1. Init => OrderInv
  <2> SUFFICES ASSUME Init PROVE OrderInv
    OBVIOUS
  <2>1. TypeOK
    BY InitTyped
  <2>2. Len(InTransit) = 0 /\ Len(recorded) = 0
    BY <2>1, TransitTyped, EmptySeq DEF Init
  <2>3. Len(Accepted) = 0
    BY <2>1, <2>2, TransitTyped, ConcatProperties DEF Accepted, TypeOK
  <2> QED BY <2>3 DEF Init, CurrentInv, InOrderExactlyOnce, Accepted
<1>2. TypeOK /\ OrderInv /\ [Next]_vars => OrderInv'
  <2> SUFFICES ASSUME TypeOK, OrderInv, [Next]_vars PROVE OrderInv'
    OBVIOUS
  <2>1. CurrentInv'
    BY CurrentStep
  <2>2. /\ \A i, j \in 1..Len(Accepted) : i < j => Accepted[i] < Accepted[j]
        /\ BelowKills
    BY DEF InOrderExactlyOnce, Accepted
  <2>3. CASE Accepted' = Append(Accepted, kills + 1) /\ kills' = kills + 1
    <3>1. /\ Len(Accepted') = Len(Accepted) + 1
          /\ \A i \in 1..Len(Accepted) : Accepted'[i] = Accepted[i]
          /\ Accepted'[Len(Accepted) + 1] = kills + 1
      BY <1>0, <2>3, AppendProperties
    <3>2. \A i \in 1..Len(Accepted) : Accepted[i] \in Nat
      BY <1>0, ElementOfSeq
    <3>3. /\ \A i, j \in 1..Len(Accepted') : i < j => Accepted'[i] < Accepted'[j]
          /\ BelowKills'
      BY <1>0, <2>2, <2>3, <3>1, <3>2
    <3> QED BY <2>1, <3>3 DEF InOrderExactlyOnce, Accepted
  <2>4. CASE Accepted' = Accepted /\ kills' \in {kills, kills + 1}
    <3>1. \A i \in 1..Len(Accepted) : Accepted[i] \in Nat
      BY <1>0, ElementOfSeq
    <3>2. BelowKills'
      BY <1>0, <2>2, <2>4, <3>1
    <3> QED BY <2>1, <2>2, <2>4, <3>2 DEF InOrderExactlyOnce, Accepted
  <2> QED BY <2>3, <2>4, AcceptedStep
<1>3. OrderInv => InOrderExactlyOnce
  OBVIOUS
<1> QED
  BY <1>1, <1>2, <1>3, TypeCorrect, PTL DEF Spec

(* The safety half of ImplementsFifo: every step of the probe, the reactor *)
(* and the watch loop is a step of the lossy FIFO or changes nothing it    *)
(* can see.                                                                *)
THEOREM EventPathRefinesFifo == Spec => Fifo!Init /\ [][Fifo!Next]_(Fifo!vars)
<1>1. Init => Fifo!Init /\ CurrentInv
  <2> SUFFICES ASSUME Init PROVE Fifo!Init /\ CurrentInv
    OBVIOUS
  <2>1. InTransit \in Seq(Nat) /\ Len(InTransit) = 0
    BY InitTyped, TransitTyped, EmptySeq DEF Init
  <2>2. InTransit = <<>>
    BY <2>1
  <2> QED BY <2>2 DEF Init, Fifo!Init, CurrentInv
<1>2. TypeOK /\ CurrentInv /\ [Next]_vars => [Fifo!Next]_(Fifo!vars)
  <2> SUFFICES ASSUME TypeOK, CurrentInv, [Next]_vars PROVE [Fifo!Next]_(Fifo!vars)
    OBVIOUS
  <2> USE DEF Fifo!Next, Fifo!vars
  <2>1. ASSUME NEW c \in CPUs, Reserve(c) PROVE Fifo!Accept
    BY <2>1, ReserveQueues DEF Reserve, loopVars, Fifo!Accept
  <2>2. CASE ProcessEvent
    <3>1. task # "ended" /\ task' # "ended" /\ kills' = kills
      BY <2>2 DEF ProcessEvent, kernelVars
    <3> QED BY <2>2, <3>1, ProcessTakesOldest DEF Fifo!Deliver
  <2>3. CASE InTransit' = InTransit /\ recorded' = recorded
    <3>1. CASE ProbeReadFails
      BY <2>3, <3>1 DEF ProbeReadFails, loopVars, Fifo!Lose
    <3>2. ASSUME NEW c \in CPUs, Drop(c) PROVE Fifo!Lose
      BY <2>3, <3>2 DEF Drop, loopVars, Fifo!Lose
    <3>3. CASE ReadinessFails
      BY <2>3, <3>3 DEF ReadinessFails, kernelVars, Fifo!Stop
    <3>4. CASE kills' = kills /\ (task' = "ended") = (task = "ended")
      BY <2>3, <3>4
    <3> QED
      BY <2>1, <3>1, <3>2, <3>3, <3>4
         DEF Next, Kernel, Loop, Commit, CpuOffline, CpuOnline, Deliver, Register, StartLoop,
             TakePending, Readable, DrainOne, DrainedEmpty, ClearReady, ProcessEvent,
             ReportDropped, DroppedUnreadable, TickerWins, Heartbeat, Exited,
             vars, kernelVars, loopVars
  <2> QED BY <2>1, <2>2, <2>3, TransitStep
<1>3. CurrentInv /\ [Next]_vars => CurrentInv'
  BY CurrentStep
<1> QED
  BY <1>1, <1>2, <1>3, TypeCorrect, PTL DEF Spec

=============================================================================
