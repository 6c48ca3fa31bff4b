--------------------------- MODULE PodCacheProofs ---------------------------
(***************************************************************************)
(* Theorems about PodCache, for any pods, restarts, kills and relists.     *)
(***************************************************************************)
EXTENDS PodCache, TLAPS

(* What the type invariant needs of the cluster: a pod the API server has  *)
(* has had a name, a container on the node has a pod, and the kubelet      *)
(* reports no restart before it has happened.                              *)
ClusterInv ==
  \A p \in Pods :
    /\ api[p] = None => node[p] = 0
    /\ api[p] # None => uid[p] >= 1 /\ api[p].running <= node[p]

(* ... and of the loop: every kill fails at most once. *)
CountInv ==
  /\ event.at \in {"queued", "lookup"} => failures.not_found + failures.error < kills
  /\ failures.not_found + failures.error <= kills

TypeInv == TypeOK /\ ClusterInv /\ CountInv

(* The initial state has the types. *)
LEMMA InitTyped == Init => TypeInv
<1> SUFFICES ASSUME Init PROVE TypeInv
  OBVIOUS
<1> USE PodCacheAssumption DEF Init
<1>1. Empty \in [Pods -> Object \cup {None}]
  BY DEF Empty
<1>2. NoEvent \in Resolution /\ NoEvent.at = "idle"
  BY DEF NoEvent, Resolution
<1>3. ClusterInv
  BY DEF ClusterInv, Empty
<1>4. CountInv
  BY <1>2 DEF CountInv
<1>5. wire \in Seq(WatchEvent)
  OBVIOUS
<1>6. ready \in BOOLEAN /\ started \in BOOLEAN /\ reported \subseteq Pods \X (1..MaxUid)
  OBVIOUS
<1>7. /\ uid \in [Pods -> 0..MaxUid] /\ node \in [Pods -> 0..MaxRestarts]
      /\ relists \in 0..MaxRelists /\ kills \in 0..MaxKills
      /\ failures \in [not_found: 0..MaxKills, error: 0..MaxKills]
  OBVIOUS
<1>8. TypeOK
  BY <1>1, <1>2, <1>5, <1>6, <1>7 DEF TypeOK
<1> QED BY <1>3, <1>4, <1>8 DEF TypeInv

(* What the API server queues for the watch is an event of it. *)
LEMMA PublishTyped ==
  ASSUME TypeOK, NEW p \in Pods, NEW u \in 1..MaxUid, NEW object \in Object \cup {None},
         Publish(p, u, object)
  PROVE  /\ api' \in [Pods -> Object \cup {None}] /\ wire' \in Seq(WatchEvent)
         /\ api' = [api EXCEPT ![p] = object]
<1>1. [pod |-> p, uid |-> u, object |-> object] \in WatchEvent
  BY DEF WatchEvent
<1> HIDE DEF WatchEvent, Object
<1>2. CASE watcher = "empty"
  BY <1>2 DEF Publish, TypeOK
<1>3. CASE watcher # "empty"
  <2> DEFINE change == [pod |-> p, uid |-> u, object |-> object]
  <2>1. change \in WatchEvent /\ wire \in Seq(WatchEvent)
    BY <1>1 DEF TypeOK
  <2> HIDE DEF change
  <2>2. Append(wire, change) \in Seq(WatchEvent)
    BY <2>1
  <2> QED BY <1>3, <2>2 DEF Publish, TypeOK, change
<1> QED BY <1>2, <1>3

(* The steps of the cluster keep the types. *)
LEMMA ClusterTyped == TypeInv /\ Cluster => TypeInv'
<1> SUFFICES ASSUME TypeInv, NEW p \in Pods,
                    \/ PodScheduled(p) \/ ContainerStarts(p)
                    \/ KubeletReports(p) \/ PodRemoved(p)
             PROVE  TypeInv'
  BY DEF Cluster
<1> USE PodCacheAssumption DEF TypeInv
<1> USE DEF cacheVars, loopVars
<1>1. CASE PodScheduled(p)
  <2> DEFINE new == [uid |-> uid[p] + 1, running |-> 0, last |-> 0]
  <2>1. uid[p] + 1 \in 1..MaxUid /\ new \in Object /\ new # None
    BY <1>1 DEF PodScheduled, TypeOK, Object
  <2>2. api' \in [Pods -> Object \cup {None}] /\ wire' \in Seq(WatchEvent)
        /\ api' = [api EXCEPT ![p] = new]
    BY <1>1, <2>1, PublishTyped DEF PodScheduled
  <2>3. uid' = [uid EXCEPT ![p] = uid[p] + 1] /\ UNCHANGED <<node, cacheVars, loopVars>>
    BY <1>1 DEF PodScheduled
  <2>4. TypeOK'
    BY <2>1, <2>2, <2>3 DEF TypeOK
  <2>5. new.running = 0 /\ node[p] \in Nat /\ uid[p] \in Nat
    BY DEF TypeOK
  <2>6. ClusterInv'
    BY <2>1, <2>2, <2>3, <2>5 DEF ClusterInv, TypeOK
  <2> QED BY <2>3, <2>4, <2>6 DEF CountInv
<1>2. CASE ContainerStarts(p)
  <2>1. node[p] \in 0..MaxRestarts /\ node[p] < MaxRestarts
        /\ node' = [node EXCEPT ![p] = node[p] + 1]
        /\ UNCHANGED <<uid, api, wire, cacheVars, loopVars>>
    BY <1>2 DEF ContainerStarts, TypeOK
  <2>2. TypeOK'
    BY <2>1 DEF TypeOK
  <2>3. \A q \in Pods : api[q] # None => api[q].running \in Nat
    BY DEF TypeOK, Object
  <2>4. ClusterInv'
    BY <1>2, <2>1, <2>3 DEF ClusterInv, ContainerStarts, TypeOK
  <2> QED BY <2>1, <2>2, <2>4 DEF CountInv
<1>3. CASE KubeletReports(p)
  <2> DEFINE new == [uid |-> uid[p], running |-> node[p], last |-> node[p] - 1]
  <2>1. api[p] \in Object /\ node[p] # api[p].running
    BY <1>3 DEF KubeletReports, TypeOK
  <2>2. api[p].running \in Nat /\ api[p].running <= node[p] /\ uid[p] >= 1
    BY <1>3, <2>1 DEF KubeletReports, ClusterInv, Object
  <2>3. uid[p] \in 1..MaxUid /\ node[p] \in 1..MaxRestarts
    BY <2>1, <2>2 DEF TypeOK
  <2>4. new \in Object /\ new # None
    BY <2>3 DEF Object
  <2>5. api' \in [Pods -> Object \cup {None}] /\ wire' \in Seq(WatchEvent)
        /\ api' = [api EXCEPT ![p] = new]
    BY <1>3, <2>3, <2>4, PublishTyped DEF KubeletReports
  <2>6. UNCHANGED <<uid, node, cacheVars, loopVars>>
    BY <1>3 DEF KubeletReports
  <2>7. TypeOK'
    BY <2>5, <2>6 DEF TypeOK
  <2>8. ClusterInv'
    BY <2>2, <2>3, <2>4, <2>5, <2>6 DEF ClusterInv, TypeOK
  <2> QED BY <2>6, <2>7, <2>8 DEF CountInv
<1>4. CASE PodRemoved(p)
  <2>1. uid[p] \in 1..MaxUid
    BY <1>4 DEF PodRemoved, ClusterInv, TypeOK
  <2>2. api' \in [Pods -> Object \cup {None}] /\ wire' \in Seq(WatchEvent)
        /\ api' = [api EXCEPT ![p] = None]
    BY <1>4, <2>1, PublishTyped DEF PodRemoved
  <2>3. node' = [node EXCEPT ![p] = 0] /\ UNCHANGED <<uid, cacheVars, loopVars>>
    BY <1>4 DEF PodRemoved
  <2>4. TypeOK'
    BY <2>2, <2>3 DEF TypeOK
  <2>5. ClusterInv'
    BY <2>2, <2>3 DEF ClusterInv, TypeOK
  <2> QED BY <2>3, <2>4, <2>5 DEF CountInv
<1> QED BY <1>1, <1>2, <1>3, <1>4

(* The steps of the cache's task keep the types. *)
LEMMA CacheTyped == TypeInv /\ (Cache \/ WatchFails) => TypeInv'
<1> SUFFICES ASSUME TypeInv, Cache \/ WatchFails PROVE TypeInv'
  OBVIOUS
<1> USE PodCacheAssumption DEF TypeInv
<1> USE DEF apiVars, loopVars
<1>0. Empty \in [Pods -> Object \cup {None}]
  BY DEF Empty
<1>1. CASE ListPods
  <2>1. TypeOK'
    BY <1>0, <1>1 DEF ListPods, TypeOK
  <2> QED BY <1>1, <2>1 DEF ListPods, ClusterInv, CountInv
<1>2. ASSUME NEW p \in Pods, InitApply(p) PROVE TypeInv'
  <2>1. TypeOK'
    BY <1>2 DEF InitApply, TypeOK
  <2> QED BY <1>2, <2>1 DEF InitApply, ClusterInv, CountInv
<1>3. CASE InitDone
  <2>1. TypeOK'
    BY <1>0, <1>3 DEF InitDone, TypeOK
  <2> QED BY <1>3, <2>1 DEF InitDone, ClusterInv, CountInv
<1>4. CASE WatchFails
  <2>1. wire' \in Seq(WatchEvent)
    BY <1>4 DEF WatchFails
  <2>2. TypeOK'
    BY <1>0, <1>4, <2>1 DEF WatchFails, TypeOK
  <2> QED BY <1>4, <2>2 DEF WatchFails, ClusterInv, CountInv
<1>5. ASSUME wire # <<>>
      PROVE  Head(wire) \in WatchEvent /\ Tail(wire) \in Seq(WatchEvent)
  BY <1>5 DEF TypeOK
<1>6. CASE WatchApply
  <2>1. Head(wire) \in WatchEvent /\ Tail(wire) \in Seq(WatchEvent)
    BY <1>5, <1>6 DEF WatchApply
  <2>2. store' \in [Pods -> Object \cup {None}]
    BY <1>6, <2>1 DEF WatchApply, TypeOK, WatchEvent
  <2>3. TypeOK'
    BY <1>6, <2>1, <2>2 DEF WatchApply, TypeOK
  <2> QED BY <1>6, <2>3 DEF WatchApply, ClusterInv, CountInv
<1>7. CASE WatchDelete
  <2>1. Head(wire) \in WatchEvent /\ Tail(wire) \in Seq(WatchEvent)
    BY <1>5, <1>7 DEF WatchDelete
  <2>2. store' \in [Pods -> Object \cup {None}]
    BY <1>7, <2>1 DEF WatchDelete, TypeOK, WatchEvent
  <2>3. <<Head(wire).pod, Head(wire).uid>> \in Pods \X (1..MaxUid)
    BY <2>1 DEF WatchEvent
  <2>4. reported' \subseteq Pods \X (1..MaxUid)
    BY <1>7, <2>3 DEF WatchDelete, TypeOK
  <2>5. TypeOK'
    BY <1>7, <2>1, <2>2, <2>4 DEF WatchDelete, TypeOK
  <2> QED BY <1>7, <2>5 DEF WatchDelete, ClusterInv, CountInv
<1> QED BY <1>1, <1>2, <1>3, <1>4, <1>6, <1>7 DEF Cache

(* A container running on the node is an instance. *)
LEMMA RunningTyped == TypeInv => Running \subseteq Instance
<1> SUFFICES ASSUME TypeInv, NEW p \in Pods, node[p] # 0
             PROVE  [pod |-> p, uid |-> uid[p], restart |-> node[p]] \in Instance
  BY DEF Running
<1>1. uid[p] \in 1..MaxUid /\ node[p] \in 1..MaxRestarts
  BY PodCacheAssumption DEF TypeInv, TypeOK, ClusterInv
<1> QED BY <1>1 DEF Instance

(* Both passes return the id that was looked for, if anything. *)
LEMMA MatchIsId == \A i \in IdentityFromPods : i = event.id
  BY DEF IdentityFromPods, MatchContainer

(* Resolving an event that is not resolved yet counts it at most once. *)
LEMMA ResolvedTyped ==
  ASSUME TypeInv, event.at \in {"queued", "lookup"},
         NEW o \in {"Found", "NotFound", "Failed"}, NEW i \in Instance \cup {None},
         Resolved(o, i), UNCHANGED <<apiVars, cacheVars, started, kills>>
  PROVE  TypeInv'
<1> USE PodCacheAssumption DEF TypeInv, apiVars, cacheVars
<1>1. event' \in Resolution /\ event'.at = "resolved"
  BY DEF Resolved, TypeOK, Resolution
<1>2. /\ failures.not_found \in 0..MaxKills /\ failures.error \in 0..MaxKills
      /\ kills \in 0..MaxKills /\ failures.not_found + failures.error < kills
  BY DEF TypeOK, CountInv
<1>3. /\ failures' \in [not_found: 0..MaxKills, error: 0..MaxKills]
      /\ failures'.not_found + failures'.error <= kills
  <2>1. CASE o = "Found"
    BY <1>2, <2>1 DEF Resolved, TypeOK
  <2>2. CASE o = "NotFound"
    <3>1. failures' = [failures EXCEPT !.not_found = failures.not_found + 1]
      BY <2>2 DEF Resolved
    <3>2. /\ failures \in [not_found: 0..MaxKills, error: 0..MaxKills]
          /\ failures.not_found + 1 \in 0..MaxKills
      BY <1>2 DEF TypeOK
    <3>3. /\ failures' \in [not_found: 0..MaxKills, error: 0..MaxKills]
          /\ failures'.not_found = failures.not_found + 1 /\ failures'.error = failures.error
      BY <3>1, <3>2
    <3> QED BY <1>2, <3>3
  <2>3. CASE o = "Failed"
    <3>1. failures' = [failures EXCEPT !.error = failures.error + 1]
      BY <2>3 DEF Resolved
    <3>2. /\ failures \in [not_found: 0..MaxKills, error: 0..MaxKills]
          /\ failures.error + 1 \in 0..MaxKills
      BY <1>2 DEF TypeOK
    <3>3. /\ failures' \in [not_found: 0..MaxKills, error: 0..MaxKills]
          /\ failures'.error = failures.error + 1 /\ failures'.not_found = failures.not_found
      BY <3>1, <3>2
    <3> QED BY <1>2, <3>3
  <2> QED BY <2>1, <2>2, <2>3
<1>4. TypeOK'
  BY <1>1, <1>3 DEF TypeOK
<1> QED BY <1>1, <1>3, <1>4 DEF ClusterInv, CountInv

(* Kills, the life of a PID and the watch loop keep the types. *)
LEMMA LoopTyped == TypeInv /\ (Victim \/ Loop) => TypeInv'
<1> SUFFICES ASSUME TypeInv, Victim \/ Loop PROVE TypeInv'
  OBVIOUS
<1> USE PodCacheAssumption DEF TypeInv
<1>0. Running \cup {Host} \subseteq Instance \cup {None, Host}
  BY RunningTyped
<1>1. CASE Kill
  <2>1. PICK v \in Running \cup {Host} :
          event' = [NoEvent EXCEPT !.at = "queued", !.victim = v, !.proc = v,
                      !.known = ready /\ v # Host /\ store[v.pod] # None
                                  /\ CandidateId("running", v.pod) = v]
    BY <1>1 DEF Kill
  <2>2. event' \in Resolution
    BY <1>0, <2>1 DEF NoEvent, Resolution
  <2>3. kills' \in 0..MaxKills /\ kills' = kills + 1 /\ failures' = failures
    BY <1>1 DEF Kill, TypeOK
  <2>4. TypeOK'
    BY <1>1, <2>2, <2>3 DEF Kill, TypeOK, apiVars, cacheVars
  <2>5. failures.not_found \in Nat /\ failures.error \in Nat /\ kills \in Nat
    BY DEF TypeOK
  <2>6. CountInv'
    BY <2>3, <2>5 DEF CountInv
  <2> QED BY <1>1, <2>4, <2>6 DEF Kill, ClusterInv, apiVars
<1>2. CASE Reaped
  <2>1. event' \in Resolution /\ event'.at = "queued"
    BY <1>2 DEF Reaped, TypeOK, Resolution
  <2>2. TypeOK'
    BY <1>2, <2>1 DEF Reaped, TypeOK, apiVars, cacheVars
  <2> QED BY <1>2, <2>1, <2>2 DEF Reaped, ClusterInv, CountInv, apiVars
<1>3. CASE PidReused
  <2>1. PICK other \in Running \cup {Host} :
          event' = [event EXCEPT !.proc = other, !.reused = TRUE]
    BY <1>3 DEF PidReused
  <2>2. event' \in Resolution /\ event'.at = event.at
    BY <1>0, <2>1 DEF TypeOK, Resolution
  <2>3. TypeOK'
    BY <1>3, <2>2 DEF PidReused, TypeOK, apiVars, cacheVars
  <2> QED BY <1>3, <2>2, <2>3 DEF PidReused, ClusterInv, CountInv, apiVars
<1>4. CASE SyncWaitOver
  <2>1. TypeOK'
    BY <1>4 DEF SyncWaitOver, TypeOK, apiVars, cacheVars
  <2> QED BY <1>4, <2>1 DEF SyncWaitOver, ClusterInv, CountInv, apiVars
<1>5. CASE NoContainerId
  BY <1>5, ResolvedTyped DEF NoContainerId
<1>6. CASE CgroupUnreadable
  BY <1>6, ResolvedTyped DEF CgroupUnreadable
<1>7. CASE ContainerIdRead
  <2>1. event' \in Resolution /\ event'.at = "lookup"
    BY <1>7 DEF ContainerIdRead, TypeOK, Resolution
  <2>2. TypeOK'
    BY <1>7, <2>1 DEF ContainerIdRead, TypeOK, apiVars, cacheVars
  <2> QED BY <1>7, <2>1, <2>2 DEF ContainerIdRead, ClusterInv, CountInv, apiVars
<1>8. CASE LookUpUnsynced
  BY <1>8, ResolvedTyped DEF LookUpUnsynced
<1>9. CASE LookUp
  <2>1. event.id \in Instance \cup {None}
    BY DEF TypeOK, Resolution
  <2>2. CASE IdentityFromPods = {}
    BY <1>9, <2>2, ResolvedTyped DEF LookUp
  <2>3. CASE IdentityFromPods # {}
    <3>1. PICK i \in IdentityFromPods : Resolved("Found", i)
      BY <1>9, <2>3 DEF LookUp
    <3>2. i \in Instance \cup {None}
      BY <2>1, MatchIsId
    <3> QED BY <1>9, <3>1, <3>2, ResolvedTyped DEF LookUp
  <2> QED BY <2>2, <2>3
<1>10. CASE EventRecorded
  <2>1. event' \in Resolution /\ event'.at = "idle"
    BY <1>10 DEF EventRecorded, NoEvent, Resolution
  <2>2. TypeOK'
    BY <1>10, <2>1 DEF EventRecorded, TypeOK, apiVars, cacheVars
  <2> QED BY <1>10, <2>1, <2>2 DEF EventRecorded, ClusterInv, CountInv, apiVars
<1> QED
  BY <1>1, <1>2, <1>3, <1>4, <1>5, <1>6, <1>7, <1>8, <1>9, <1>10 DEF Victim, Loop

(* Stuttering keeps everything. *)
LEMMA StutterTyped == TypeInv /\ UNCHANGED vars => TypeInv'
  BY DEF TypeInv, TypeOK, ClusterInv, CountInv, vars

(* The pod cache and the resolution keep their types; in particular a kill *)
(* is counted in oom_resolution_failures_total at most once, under one     *)
(* reason.                                                                 *)
THEOREM TypeCorrect == Spec => []TypeOK
<1>1. TypeInv /\ [Next]_vars => TypeInv'
  BY ClusterTyped, CacheTyped, LoopTyped, StutterTyped DEF Next
<1>2. TypeInv => TypeOK
  BY DEF TypeInv
<1> QED BY InitTyped, <1>1, <1>2, PTL DEF Spec

(* Until the PID is given away, /proc shows the victim or nothing, so what *)
(* was read from it is the victim's container.                             *)
VictimInv ==
  /\ (event.at = "queued" /\ ~event.reused) => event.proc \in {None, event.victim}
  /\ (event.at = "lookup" /\ ~event.reused) => event.id = event.victim
  /\ FoundIsVictim

(* Each step keeps VictimInv: only the steps on the event in flight can    *)
(* disturb it.                                                             *)
LEMMA VictimStep == TypeInv /\ VictimInv /\ [Next]_vars => VictimInv'
<1> SUFFICES ASSUME TypeInv, VictimInv, [Next]_vars PROVE VictimInv'
  OBVIOUS
<1> USE PodCacheAssumption DEF VictimInv, FoundIsVictim
<1>0. event \in Resolution
  BY DEF TypeInv, TypeOK
<1>1. CASE event' = event
  BY <1>1
<1>2. CASE Kill
  <2>1. PICK v \in Running \cup {Host} :
          event' = [NoEvent EXCEPT !.at = "queued", !.victim = v, !.proc = v,
                      !.known = ready /\ v # Host /\ store[v.pod] # None
                                  /\ CandidateId("running", v.pod) = v]
    BY <1>2 DEF Kill
  <2>2. event'.at = "queued" /\ event'.proc = event'.victim
    BY <2>1 DEF NoEvent
  <2> QED BY <2>2
<1>3. CASE Reaped
  BY <1>0, <1>3 DEF Reaped, Resolution
<1>4. CASE PidReused
  BY <1>0, <1>4 DEF PidReused, Resolution
<1>5. CASE ContainerIdRead
  BY <1>0, <1>5 DEF ContainerIdRead, Resolution
<1>6. CASE NoContainerId \/ CgroupUnreadable \/ LookUpUnsynced
  <2>1. PICK o \in {"NotFound", "Failed"} : Resolved(o, None)
    BY <1>6 DEF NoContainerId, CgroupUnreadable, LookUpUnsynced
  <2>2. event' = [event EXCEPT !.at = "resolved", !.outcome = o, !.identity = None]
    BY <2>1 DEF Resolved
  <2>3. event'.at = "resolved" /\ event'.outcome # "Found"
    BY <1>0, <2>2 DEF Resolution
  <2> QED BY <2>3
<1>7. CASE LookUp
  <2>1. CASE IdentityFromPods = {}
    BY <1>0, <1>7, <2>1 DEF LookUp, Resolved, Resolution
  <2>2. CASE IdentityFromPods # {}
    <3>1. PICK i \in IdentityFromPods : Resolved("Found", i)
      BY <1>7, <2>2 DEF LookUp
    <3>2. i = event.id /\ event.at = "lookup"
      BY <1>7, MatchIsId DEF LookUp
    <3> QED BY <1>0, <3>1, <3>2 DEF Resolved, Resolution
  <2> QED BY <2>1, <2>2
<1>8. CASE EventRecorded
  BY <1>8 DEF EventRecorded, NoEvent
<1>9. CASE Cluster \/ Cache \/ WatchFails \/ SyncWaitOver \/ UNCHANGED vars
  <2>1. event' = event
    BY <1>9 DEF Cluster, PodScheduled, ContainerStarts, KubeletReports, PodRemoved,
                Cache, ListPods, InitApply, InitDone, WatchFails, WatchApply, WatchDelete,
                SyncWaitOver, vars, loopVars
  <2> QED BY <1>1, <2>1
<1> QED
  BY <1>2, <1>3, <1>4, <1>5, <1>6, <1>7, <1>8, <1>9 DEF Next, Victim, Loop

(* identity_of returns the identity of the restart that was killed and of  *)
(* no other, whatever the kubelet, the API server, the watch and the cache *)
(* did between the kill and the lookup, as long as the PID was still the   *)
(* victim's.                                                               *)
THEOREM IdentityIsVictims == Spec => []FoundIsVictim
<1>1. Init => VictimInv
  BY DEF Init, NoEvent, VictimInv, FoundIsVictim
<1>2. TypeInv /\ [Next]_vars => TypeInv'
  BY ClusterTyped, CacheTyped, LoopTyped, StutterTyped DEF Next
<1>3. VictimInv => FoundIsVictim
  BY DEF VictimInv
<1> QED BY InitTyped, VictimStep, <1>1, <1>2, <1>3, PTL DEF Spec

=============================================================================
