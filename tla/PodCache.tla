------------------------------ MODULE PodCache ------------------------------
(***************************************************************************)
(* Resolution: from the PID of a killed process to the container it was    *)
(* in (kubernetes.rs, resolve.rs), against everything that moves           *)
(* meanwhile:                                                              *)
(*                                                                         *)
(*   - the kubelet starts and restarts containers and reports them late;   *)
(*   - the API server's watch brings those reports later still, and may    *)
(*     have to be replaced by a new list;                                  *)
(*   - the reflector mirrors them into the store the lookup reads;         *)
(*   - the victim is reaped, and its PID may be given to someone else.     *)
(*                                                                         *)
(* A pod has one container.  An instance of it is a pod object and a       *)
(* restart in it; its container id is unique.  What a pod's status carries *)
(* is the instance running now and the one before it (lastState).          *)
(***************************************************************************)
EXTENDS Naturals, Sequences

CONSTANTS
  Pods,         \* pod names on this node
  None,         \* no pod, no container
  Host,         \* the cgroup of a process in no container
  MaxUid,       \* bound: pod objects under one name
  MaxRestarts,  \* bound: instances of one pod object
  MaxKills,     \* bound: kills in one behaviour
  MaxRelists    \* bound: lists that fail half-way, and watches that expire

VARIABLES
  uid,        \* per pod name, how many objects have had it
  node,       \* per pod name, the restart running on the node, 0 for none
  api,        \* the API server's pods, None or [uid, running, last]
  wire,       \* watch events since the list the watcher started from
  watcher,    \* the watcher: "empty", "init" while it yields a list, "watching"
  listed,     \* pods of that list still to be yielded
  buffer,     \* the reflector's buffer for the list
  store,      \* the reflector's store
  ready,      \* the store's readiness latch
  reported,   \* pod objects on_pod_deleted has been called for
  relists,    \* counts towards MaxRelists
  started,    \* wait_until_synced has returned
  kills,      \* counts towards MaxKills
  event,      \* the kill being resolved
  failures    \* oom_resolution_failures_total, by reason

apiVars   == <<uid, node, api, wire>>
cacheVars == <<watcher, listed, buffer, store, ready, reported, relists>>
loopVars  == <<started, kills, event, failures>>
vars == <<uid, node, api, wire, watcher, listed, buffer, store, ready, reported,
          relists, started, kills, event, failures>>

Instance == [pod: Pods, uid: 1..MaxUid, restart: 1..MaxRestarts]
Object   == [uid: 1..MaxUid, running: 0..MaxRestarts, last: 0..MaxRestarts]
WatchEvent == [pod: Pods, uid: 1..MaxUid, object: Object \cup {None}]
Empty    == [p \in Pods |-> None]

ASSUME PodCacheAssumption ==
  /\ MaxUid \in Nat /\ MaxRestarts \in Nat /\ MaxKills \in Nat /\ MaxRelists \in Nat
  /\ None # Host /\ None \notin Object
  /\ None \notin Instance /\ Host \notin Instance

(* The kill the loop is at: its victim, what its /proc entry is now, the   *)
(* container id read from it, the outcome, and, for the properties,        *)
(* whether the store knew the victim's container when it was killed, and   *)
(* whether the PID has been given away since.                              *)
Resolution ==
  [at: {"idle", "queued", "lookup", "resolved"}, victim: Instance \cup {None, Host},
   proc: Instance \cup {None, Host}, id: Instance \cup {None},
   outcome: {None, "Found", "NotFound", "Failed"}, identity: Instance \cup {None},
   known: BOOLEAN, reused: BOOLEAN]

NoEvent == [at |-> "idle", victim |-> None, proc |-> None, id |-> None,
            outcome |-> None, identity |-> None, known |-> FALSE, reused |-> FALSE]

Init ==
  /\ uid = [p \in Pods |-> 0] /\ node = [p \in Pods |-> 0]
  /\ api = Empty /\ wire = <<>>
  /\ watcher = "empty" /\ listed = Empty /\ buffer = Empty /\ store = Empty
  /\ ready = FALSE /\ reported = {} /\ relists = 0
  /\ started = FALSE /\ kills = 0 /\ event = NoEvent
  /\ failures = [not_found |-> 0, error |-> 0]

-----------------------------------------------------------------------------
(* The cluster. *)

(* A change of a pod is queued for the watch, if there is one to queue for. *)
Publish(p, u, object) ==
  /\ api' = [api EXCEPT ![p] = object]
  /\ wire' = IF watcher = "empty" THEN <<>>
             ELSE Append(wire, [pod |-> p, uid |-> u, object |-> object])

PodScheduled(p) ==
  /\ api[p] = None
  /\ uid[p] < MaxUid
  /\ uid' = [uid EXCEPT ![p] = @ + 1]
  /\ Publish(p, uid[p] + 1, [uid |-> uid[p] + 1, running |-> 0, last |-> 0])
  /\ UNCHANGED <<node, cacheVars, loopVars>>

(* The kubelet starts the pod's container, for the first time or again. *)
ContainerStarts(p) ==
  /\ api[p] # None
  /\ node[p] < MaxRestarts
  /\ node' = [node EXCEPT ![p] = @ + 1]
  /\ UNCHANGED <<uid, api, wire, cacheVars, loopVars>>

(* ... and tells the API server later on. *)
KubeletReports(p) ==
  /\ api[p] # None
  /\ node[p] # api[p].running
  /\ Publish(p, uid[p], [uid |-> uid[p], running |-> node[p], last |-> node[p] - 1])
  /\ UNCHANGED <<uid, node, cacheVars, loopVars>>

PodRemoved(p) ==
  /\ api[p] # None
  /\ node' = [node EXCEPT ![p] = 0]
  /\ Publish(p, uid[p], None)
  /\ UNCHANGED <<uid, cacheVars, loopVars>>

-----------------------------------------------------------------------------
(* The pod cache's task: watcher, reflector and the for_each over them. *)

(* Event::Init: a list is taken and the buffer starts afresh. *)
ListPods ==
  /\ watcher = "empty"
  /\ watcher' = "init"
  /\ listed' = api /\ buffer' = Empty /\ wire' = <<>>
  /\ UNCHANGED <<uid, node, api, store, ready, reported, relists, loopVars>>

InitApply(p) ==
  /\ watcher = "init"
  /\ listed[p] # None
  /\ buffer' = [buffer EXCEPT ![p] = listed[p]]
  /\ listed' = [listed EXCEPT ![p] = None]
  /\ UNCHANGED <<apiVars, watcher, store, ready, reported, relists, loopVars>>

(* Mutant of InitDone: the list is merged into the store. *)
InitDoneMerges ==
  /\ watcher = "init"
  /\ listed = Empty
  /\ store' = [p \in Pods |-> IF buffer[p] = None THEN store[p] ELSE buffer[p]]
  /\ buffer' = Empty
  /\ ready' = TRUE
  /\ watcher' = "watching"
  /\ UNCHANGED <<apiVars, listed, reported, relists, loopVars>>

(* Event::InitDone: the buffer becomes the store, the latch is set. *)
InitDone ==
  /\ watcher = "init"
  /\ listed = Empty
  /\ store' = buffer /\ buffer' = Empty
  /\ ready' = TRUE
  /\ watcher' = "watching"
  /\ UNCHANGED <<apiVars, listed, reported, relists, loopVars>>

(* Mutant of WatchFails: without the backoff the stream ends on an error. *)
WatchFailsForGood ==
  /\ relists < MaxRelists
  /\ watcher \in {"init", "watching"}
  /\ watcher' = "ended"
  /\ listed' = Empty /\ wire' = <<>>
  /\ relists' = relists + 1
  /\ UNCHANGED <<uid, node, api, buffer, store, ready, reported, loopVars>>

(* The list fails half-way, or the watch has expired: an error is yielded  *)
(* and logged, and after the backoff there is a new list.                  *)
WatchFails ==
  /\ relists < MaxRelists
  /\ watcher \in {"init", "watching"}
  /\ watcher' = "empty"
  /\ listed' = Empty /\ wire' = <<>>
  /\ relists' = relists + 1
  /\ UNCHANGED <<uid, node, api, buffer, store, ready, reported, loopVars>>

WatchApply ==
  /\ watcher = "watching"
  /\ wire # <<>> /\ Head(wire).object # None
  /\ store' = [store EXCEPT ![Head(wire).pod] = Head(wire).object]
  /\ wire' = Tail(wire)
  /\ UNCHANGED <<uid, node, api, watcher, listed, buffer, ready, reported, relists, loopVars>>

(* Mutant of WatchDelete: the arm that calls on_pod_deleted is missing. *)
WatchDeleteUnreported ==
  /\ watcher = "watching"
  /\ wire # <<>> /\ Head(wire).object = None
  /\ store' = [store EXCEPT ![Head(wire).pod] = None]
  /\ wire' = Tail(wire)
  /\ UNCHANGED <<uid, node, api, watcher, listed, buffer, ready, reported, relists, loopVars>>

(* Event::Delete: out of the store, then on_pod_deleted. *)
WatchDelete ==
  /\ watcher = "watching"
  /\ wire # <<>> /\ Head(wire).object = None
  /\ store' = [store EXCEPT ![Head(wire).pod] = None]
  /\ reported' = reported \cup {<<Head(wire).pod, Head(wire).uid>>}
  /\ wire' = Tail(wire)
  /\ UNCHANGED <<uid, node, api, watcher, listed, buffer, ready, relists, loopVars>>

-----------------------------------------------------------------------------
(* Kills and the life of a PID. *)

Running == {[pod |-> p, uid |-> uid[p], restart |-> node[p]] :
              p \in {q \in Pods : node[q] # 0}}

(* The id the lookup takes from a pod's status, on the pass over running   *)
(* containers or on the one over lastState.                                *)
CandidateId(pass, p) == [pod |-> p, uid |-> store[p].uid, restart |-> store[p][pass]]

Kill ==
  /\ event.at = "idle"
  /\ kills < MaxKills
  /\ kills' = kills + 1
  /\ \E v \in Running \cup {Host} :
       event' = [NoEvent EXCEPT !.at = "queued", !.victim = v, !.proc = v,
                   !.known = ready /\ v # Host /\ store[v.pod] # None
                               /\ CandidateId("running", v.pod) = v]
  /\ UNCHANGED <<apiVars, cacheVars, started, failures>>

Reaped ==
  /\ event.at = "queued"
  /\ event.proc # None
  /\ event' = [event EXCEPT !.proc = None]
  /\ UNCHANGED <<apiVars, cacheVars, started, kills, failures>>

PidReused ==
  /\ event.at = "queued"
  /\ event.proc = None
  /\ \E other \in Running \cup {Host} :
       event' = [event EXCEPT !.proc = other, !.reused = TRUE]
  /\ UNCHANGED <<apiVars, cacheVars, started, kills, failures>>

-----------------------------------------------------------------------------
(* The watch loop's task. *)

(* wait_until_synced returns: the latch is set, or the timeout is over.    *)
SyncWaitOver ==
  /\ ~started
  /\ started' = TRUE
  /\ UNCHANGED <<apiVars, cacheVars, kills, event, failures>>

(* Mutant of Resolved: the failure is counted by resolve and by the loop. *)
ResolvedCountedTwice(outcome, identity) ==
  /\ event' = [event EXCEPT !.at = "resolved", !.outcome = outcome, !.identity = identity]
  /\ failures' = CASE outcome = "Found"    -> failures
                   [] outcome = "NotFound" -> [failures EXCEPT !.not_found = @ + 2]
                   [] outcome = "Failed"   -> [failures EXCEPT !.error = @ + 2]

(* The outcome of resolve, and record_resolution_outcome on it. *)
Resolved(outcome, identity) ==
  /\ event' = [event EXCEPT !.at = "resolved", !.outcome = outcome, !.identity = identity]
  /\ failures' = CASE outcome = "Found"    -> failures
                   [] outcome = "NotFound" -> [failures EXCEPT !.not_found = @ + 1]
                   [] outcome = "Failed"   -> [failures EXCEPT !.error = @ + 1]

(* get_container_id_from_pid: reaped, or in no container. *)
NoContainerId ==
  /\ started /\ event.at = "queued"
  /\ event.proc \in {None, Host}
  /\ Resolved("NotFound", None)
  /\ UNCHANGED <<apiVars, cacheVars, started, kills>>

(* The read fails for another reason: no hostPID, EPERM. *)
CgroupUnreadable ==
  /\ started /\ event.at = "queued"
  /\ Resolved("Failed", None)
  /\ UNCHANGED <<apiVars, cacheVars, started, kills>>

ContainerIdRead ==
  /\ started /\ event.at = "queued"
  /\ event.proc \notin {None, Host}
  /\ event' = [event EXCEPT !.at = "lookup", !.id = event.proc]
  /\ UNCHANGED <<apiVars, cacheVars, started, kills, failures>>

(* Mutant of MatchContainer: the identity is built from the status' own    *)
(* container id and not from the one that matched.                         *)
MatchContainerCurrentId(pass) ==
  {CandidateId("running", p) :
     p \in {q \in Pods : store[q] # None /\ CandidateId(pass, q) = event.id}}

(* The pods of the store with this id; the identity carries the id that    *)
(* matched, with the pod's name.                                           *)
MatchContainer(pass) ==
  {CandidateId(pass, p) :
     p \in {q \in Pods : store[q] # None /\ CandidateId(pass, q) = event.id}}

(* Mutant of IdentityFromPods: no second pass. *)
IdentityFromRunning == MatchContainer("running")

(* The running containers first, then the ones they replaced. *)
IdentityFromPods ==
  IF MatchContainer("running") # {} THEN MatchContainer("running")
                                    ELSE MatchContainer("last")

(* ensure_synced fails: no evidence of anything. *)
LookUpUnsynced ==
  /\ event.at = "lookup"
  /\ ~ready
  /\ Resolved("Failed", None)
  /\ UNCHANGED <<apiVars, cacheVars, started, kills>>

LookUp ==
  /\ event.at = "lookup"
  /\ ready
  /\ IF IdentityFromPods = {}
       THEN Resolved("NotFound", None)
       ELSE \E identity \in IdentityFromPods : Resolved("Found", identity)
  /\ UNCHANGED <<apiVars, cacheVars, started, kills>>

(* process_event goes on with enrich and record_oom_event. *)
EventRecorded ==
  /\ event.at = "resolved"
  /\ event' = NoEvent
  /\ UNCHANGED <<apiVars, cacheVars, started, kills, failures>>

-----------------------------------------------------------------------------
Cluster ==
  \E p \in Pods :
    PodScheduled(p) \/ ContainerStarts(p) \/ KubeletReports(p) \/ PodRemoved(p)

Cache ==
  \/ ListPods \/ (\E p \in Pods : InitApply(p)) \/ InitDone
  \/ WatchApply \/ WatchDelete

Victim == Kill \/ Reaped \/ PidReused

Loop ==
  \/ SyncWaitOver \/ NoContainerId \/ CgroupUnreadable \/ ContainerIdRead
  \/ LookUpUnsynced \/ LookUp \/ EventRecorded

Next == Cluster \/ Cache \/ WatchFails \/ Victim \/ Loop

(* The cache's task and the watch loop are scheduled and the API server    *)
(* answers in the end; the cluster owes nothing.                           *)
Fairness == WF_vars(Cache) /\ WF_vars(Loop)

Spec == Init /\ [][Next]_vars /\ Fairness

-----------------------------------------------------------------------------
(* Properties. *)

TypeOK ==
  /\ uid \in [Pods -> 0..MaxUid] /\ node \in [Pods -> 0..MaxRestarts]
  /\ api \in [Pods -> Object \cup {None}] /\ listed \in [Pods -> Object \cup {None}]
  /\ buffer \in [Pods -> Object \cup {None}] /\ store \in [Pods -> Object \cup {None}]
  /\ wire \in Seq(WatchEvent)
  /\ watcher \in {"empty", "init", "watching"}
  /\ ready \in BOOLEAN /\ started \in BOOLEAN
  /\ reported \subseteq Pods \X (1..MaxUid)
  /\ relists \in 0..MaxRelists /\ kills \in 0..MaxKills
  /\ event \in Resolution
  /\ failures \in [not_found: 0..MaxKills, error: 0..MaxKills]

(* As long as the PID is still the victim's, an identity is the victim's:  *)
(* the container and the very restart that was killed, however far the     *)
(* kubelet, the API server and the store have moved on between the kill    *)
(* and the lookup.                                                         *)
FoundIsVictim ==
  (event.at = "resolved" /\ event.outcome = "Found" /\ ~event.reused)
    => event.identity = event.victim

(* The second pass is enough: a container the store knew when it was       *)
(* killed resolves even if the kubelet replaced it once meanwhile, across  *)
(* relists too, as long as the pod is there and the cgroup could be read.  *)
KnownContainerResolves ==
  LET v == event.victim
  IN  (/\ event.at = "resolved" /\ event.known /\ event.id = v
       /\ api[v.pod] # None /\ uid[v.pod] = v.uid
       /\ node[v.pod] <= v.restart + 1)
         => event.outcome = "Found"

(* The places of a pod's events among those on their way. *)
Changes(p) == {i \in 1..Len(wire) : wire[i].pod = p}

(* What the store will hold for a pod when the watch is caught up with. *)
CaughtUp(p) ==
  IF Changes(p) = {} THEN store[p]
  ELSE LET last == CHOOSE i \in Changes(p) : \A j \in Changes(p) : j <= i
       IN  wire[last].object

(* While the watch is up, the store plus the events on their way is the    *)
(* API server's state: a list that failed half-way or replaced a watch     *)
(* leaves no pod behind and none out.                                      *)
MirrorsApi == watcher = "watching" => \A p \in Pods : CaughtUp(p) = api[p]

(* Lists and watches may fail; the store still ends up with what the API   *)
(* server has, because they are retried forever.                           *)
EventuallyMirrors == <>[](store = api)

(* A pod object leaves the store: its name is gone, or another's. *)
LeavesStore(p) ==
  store[p] # None /\ (store'[p] = None \/ store'[p].uid # store[p].uid)

(* on_pod_deleted is called "for every pod the API server removes": no pod *)
(* object leaves the store without having been reported.                   *)
DeletedPodsReported ==
  [][\A p \in Pods : LeavesStore(p) => <<p, store[p].uid>> \in reported']_vars

(* What holds of it: while the watch is up, a pod object leaves the store  *)
(* only reported, and is not mistaken for a later one of its name; only    *)
(* the end of a relist can take one out silently.                          *)
WatchedDeletionsReported ==
  [][\A p \in Pods :
       (LeavesStore(p) /\ watcher = "watching") => <<p, store[p].uid>> \in reported']_vars

=============================================================================
