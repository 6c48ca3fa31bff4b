--------------------------- MODULE PodMirrorProofs ---------------------------
(***************************************************************************)
(* Theorems about what the watch brings to the store of PodCache: that it  *)
(* is all there, that a pod object is reported when it leaves, and that    *)
(* what the store knew when a container was killed is enough to resolve    *)
(* it.                                                                     *)
(*                                                                         *)
(* The views of a pod are, from the oldest to the newest, the one in the   *)
(* store, the one the watch events apply to, those events and the one of   *)
(* the API server.                                                         *)
(***************************************************************************)
EXTENDS PodCacheProofs

(* What the watch events apply to: the list still being taken in, or the   *)
(* store.                                                                  *)
Base(p) ==
  IF watcher # "init" THEN store[p]
  ELSE IF listed[p] # None THEN listed[p] ELSE buffer[p]

(* A view is of an object the name has had, and carries the restart before *)
(* the one that runs.                                                      *)
Sound(o, p) ==
  o # None => /\ o.uid <= uid[p]
              /\ o.running > 0 => o.last + 1 = o.running

SoundInv ==
  /\ watcher = "empty" => wire = <<>>
  /\ \A p \in Pods :
       /\ api[p] # None => api[p].uid = uid[p]
       /\ Sound(api[p], p) /\ Sound(store[p], p) /\ Sound(listed[p], p) /\ Sound(buffer[p], p)
       /\ \A i \in Changes(p) :
            /\ Sound(wire[i].object, p)
            /\ wire[i].object # None => wire[i].object.uid = wire[i].uid

(* The last event of a pod, or else its base, is what the API server has. *)
MirrorInv ==
  watcher # "empty" =>
    \A p \in Pods :
      \/ Changes(p) = {} /\ Base(p) = api[p]
      \/ \E i \in Changes(p) : (\A j \in Changes(p) : j <= i) /\ wire[i].object = api[p]

(* An event concerns the object the view before it shows, if any. *)
First(i, p) == i \in Changes(p) /\ \A k \in Changes(p) : i <= k
Consecutive(i, j, p) ==
  i \in Changes(p) /\ j \in Changes(p) /\ i < j /\ \A k \in Changes(p) : k <= i \/ j <= k

ChainInv ==
  watcher # "empty" =>
    \A p \in Pods :
      /\ \A i \in Changes(p) : First(i, p) /\ Base(p) # None => wire[i].uid = Base(p).uid
      /\ \A i, j \in Changes(p) :
           Consecutive(i, j, p) /\ wire[i].object # None => wire[j].uid = wire[i].uid

(* A view of the object the API server has is followed only by views of    *)
(* it, and the restarts in them do not go down.                            *)
Newer(y, x, p) ==
  x # None /\ api[p] # None /\ x.uid = uid[p]
    => y # None /\ y.uid = x.uid /\ x.running <= y.running

OrderInv ==
  \A p \in Pods :
    /\ Newer(api[p], store[p], p)
    /\ Newer(Base(p), store[p], p) /\ Newer(api[p], Base(p), p)
    /\ \A i \in Changes(p) :
         /\ Newer(wire[i].object, Base(p), p)
         /\ Newer(api[p], wire[i].object, p)
         /\ \A j \in Changes(p) : i < j => Newer(wire[j].object, wire[i].object, p)

ViewInv == SoundInv /\ MirrorInv /\ ChainInv /\ OrderInv

-----------------------------------------------------------------------------
(* Every view is an object or none. *)
LEMMA ViewTyped ==
  ASSUME TypeOK
  PROVE  /\ \A o \in Object : o.uid \in Nat /\ o.running \in Nat /\ o.last \in Nat
         /\ \A p \in Pods :
              /\ uid[p] \in Nat /\ api[p] \in Object \cup {None} /\ store[p] \in Object \cup {None}
              /\ Base(p) \in Object \cup {None}
              /\ Changes(p) \subseteq Nat \ {0}
              /\ \A i \in Changes(p) :
                   /\ wire[i].object \in Object \cup {None}
                   /\ wire[i].uid \in Nat /\ wire[i].pod = p
<1>1. \A o \in Object : o.uid \in Nat /\ o.running \in Nat /\ o.last \in Nat
  BY PodCacheAssumption DEF Object
<1>2. ASSUME NEW p \in Pods, NEW i \in Changes(p)
      PROVE  wire[i].object \in Object \cup {None} /\ wire[i].uid \in Nat /\ wire[i].pod = p
  <2>1. wire[i] \in WatchEvent /\ wire[i].pod = p
    BY DEF Changes, TypeOK
  <2> QED BY <2>1, PodCacheAssumption DEF WatchEvent
<1>3. ASSUME NEW p \in Pods
      PROVE  /\ uid[p] \in Nat /\ api[p] \in Object \cup {None} /\ store[p] \in Object \cup {None}
             /\ Base(p) \in Object \cup {None}
  BY PodCacheAssumption DEF TypeOK, Base
<1> QED BY <1>1, <1>2, <1>3 DEF Changes

(* A change of p is queued behind all others. *)
LEMMA QueuedLast ==
  ASSUME TypeOK, NEW p \in Pods, NEW u, NEW o, Publish(p, u, o), watcher # "empty"
  PROVE  LET n == Len(wire) + 1
         IN  /\ n \in Nat
             /\ \A q \in Pods \ {p} : Changes(q)' = Changes(q)
             /\ Changes(p)' = Changes(p) \cup {n}
             /\ \A q \in Pods : \A i \in Changes(q) : i < n /\ wire'[i] = wire[i]
             /\ wire'[n].uid = u /\ wire'[n].object = o
<1> DEFINE e == [pod |-> p, uid |-> u, object |-> o]
           n == Len(wire) + 1
<1>1. wire' = Append(wire, e) /\ wire \in Seq(WatchEvent) /\ Len(wire) \in Nat
  BY DEF Publish, TypeOK
<1>2. e.pod = p /\ e.uid = u /\ e.object = o
  OBVIOUS
<1> HIDE DEF e
<1>3. /\ Len(wire') = n /\ wire'[n] = e
      /\ \A i \in 1..Len(wire) : wire'[i] = wire[i]
  BY <1>1
<1>4. \A q \in Pods : Changes(q)' = {i \in 1..n : wire'[i].pod = q}
  BY <1>3 DEF Changes
<1>5. \A q \in Pods : Changes(q)' = Changes(q) \cup (IF q = p THEN {n} ELSE {})
  BY <1>1, <1>2, <1>3, <1>4 DEF Changes
<1> QED BY <1>1, <1>2, <1>3, <1>5 DEF Changes

(* Taking the head of the queue moves the others up. *)
LEMMA HeadTaken ==
  ASSUME TypeOK, wire # <<>>, wire' = Tail(wire)
  PROVE  /\ Head(wire) = wire[1] /\ 1 \in Changes(Head(wire).pod) /\ Head(wire).pod \in Pods
         /\ \A q \in Pods :
              /\ 1 \in Changes(q) => q = Head(wire).pod
              /\ Changes(q)' = {i \in Nat \ {0} : i + 1 \in Changes(q)}
              /\ \A i \in Changes(q)' : wire'[i] = wire[i + 1]
<1>1. /\ wire \in Seq(WatchEvent) /\ Len(wire) \in Nat /\ Len(wire) >= 1
      /\ Head(wire) = wire[1] /\ wire[1] \in WatchEvent
  BY DEF TypeOK
<1>2. Len(wire') = Len(wire) - 1 /\ \A i \in 1..(Len(wire) - 1) : wire'[i] = wire[i + 1]
  BY <1>1
<1>3. wire[1].pod \in Pods
  BY <1>1 DEF WatchEvent
<1>4. ASSUME NEW q \in Pods
      PROVE  Changes(q)' = {i \in Nat \ {0} : i + 1 \in Changes(q)}
  <2>1. Changes(q)' = {i \in 1..(Len(wire) - 1) : wire[i + 1].pod = q}
    BY <1>1, <1>2 DEF Changes
  <2> QED BY <1>1, <2>1 DEF Changes
<1> QED BY <1>1, <1>2, <1>3, <1>4 DEF Changes

-----------------------------------------------------------------------------
(* What the API server may make of p: an object with a new uid where there *)
(* was none, and of one it has, a later view or none.                      *)
Publishes(p, u, o) ==
  /\ Publish(p, u, o)
  /\ u \in Nat /\ o \in Object \cup {None} /\ uid[p] <= u
  /\ uid' = [uid EXCEPT ![p] = u]
  /\ o # None => o.uid = u /\ (o.running > 0 => o.last + 1 = o.running)
  /\ api[p] # None => u = uid[p] /\ (o # None => api[p].running <= o.running)
  /\ api[p] = None => uid[p] < u
  /\ UNCHANGED cacheVars

(* The cluster's steps that the watch hears of. *)
LEMMA ClusterPublishes ==
  ASSUME TypeInv, SoundInv, NEW p \in Pods,
         PodScheduled(p) \/ KubeletReports(p) \/ PodRemoved(p)
  PROVE  \E u \in 1..MaxUid, o \in Object \cup {None} : Publishes(p, u, o)
<1> USE PodCacheAssumption DEF TypeInv
<1>0. uid[p] \in 0..MaxUid /\ uid \in [Pods -> 0..MaxUid] /\ node[p] \in 0..MaxRestarts
  BY DEF TypeOK
<1>1. CASE PodScheduled(p)
  <2> DEFINE o == [uid |-> uid[p] + 1, running |-> 0, last |-> 0]
  <2>1. uid[p] + 1 \in 1..MaxUid /\ o \in Object /\ o.uid = uid[p] + 1 /\ o.running = 0
    BY <1>0, <1>1 DEF PodScheduled, Object
  <2>2. Publish(p, uid[p] + 1, o) /\ api[p] = None /\ UNCHANGED cacheVars
        /\ uid' = [uid EXCEPT ![p] = uid[p] + 1]
    BY <1>1 DEF PodScheduled
  <2> HIDE DEF o
  <2>3. Publishes(p, uid[p] + 1, o)
    BY <1>0, <2>1, <2>2 DEF Publishes
  <2> QED BY <2>1, <2>3
<1>2. CASE KubeletReports(p)
  <2> DEFINE o == [uid |-> uid[p], running |-> node[p], last |-> node[p] - 1]
  <2>1. api[p] \in Object /\ api[p] # None /\ node[p] # api[p].running
    BY <1>2 DEF KubeletReports, TypeOK
  <2>2. api[p].running \in Nat /\ api[p].running <= node[p] /\ uid[p] >= 1
    BY <2>1 DEF ClusterInv, Object
  <2>3. uid[p] \in 1..MaxUid /\ node[p] \in 1..MaxRestarts
    BY <1>0, <2>1, <2>2
  <2>4. o \in Object /\ o.uid = uid[p] /\ o.running = node[p] /\ o.last + 1 = o.running
    BY <2>3 DEF Object
  <2>5. Publish(p, uid[p], o) /\ UNCHANGED <<uid, cacheVars>>
    BY <1>2 DEF KubeletReports
  <2> HIDE DEF o
  <2>6. uid' = [uid EXCEPT ![p] = uid[p]]
    BY <1>0, <2>5
  <2>7. Publishes(p, uid[p], o)
    <3>1. uid[p] \in Nat /\ uid[p] <= uid[p]
      BY <2>3
    <3> QED BY <2>1, <2>2, <2>4, <2>5, <2>6, <3>1 DEF Publishes
  <2> QED BY <2>3, <2>4, <2>7
<1>3. CASE PodRemoved(p)
  <2>1. uid[p] \in 1..MaxUid /\ api[p] # None
    BY <1>0, <1>3 DEF PodRemoved, ClusterInv
  <2>2. Publish(p, uid[p], None) /\ uid' = uid /\ UNCHANGED cacheVars
    BY <1>3 DEF PodRemoved
  <2>3. uid' = [uid EXCEPT ![p] = uid[p]]
    BY <1>0, <2>2
  <2>4. Publishes(p, uid[p], None)
    <3>1. uid[p] \in Nat /\ uid[p] <= uid[p]
      BY <2>1
    <3> QED BY <2>1, <2>2, <2>3, <3>1 DEF Publishes
  <2> QED BY <2>1, <2>4
<1> QED BY <1>1, <1>2, <1>3

(* With no watch there are no events. *)
LEMMA NoChanges == wire = <<>> => \A p \in Pods : Changes(p) = {}
  BY DEF Changes

(* A view of p is no newer than what is published after it. *)
LEMMA PublishedIsNewer ==
  ASSUME TypeOK, NEW p \in Pods, NEW u, NEW o, Publishes(p, u, o), api[p] # None => api[p].uid = uid[p],
         NEW x \in Object \cup {None}, Sound(x, p), Newer(api[p], x, p)
  PROVE  /\ Sound(x, p)' /\ Newer(o, x, p)'
         /\ \A y \in Object \cup {None} : Newer(y, x, p) => Newer(y, x, p)'
<1>1. /\ uid'[p] = u /\ api'[p] = o /\ uid[p] \in Nat /\ u \in Nat /\ uid[p] <= u
      /\ o \in Object \cup {None} /\ api[p] \in Object \cup {None}
      /\ \A a \in Object : a.uid \in Nat /\ a.running \in Nat
      /\ api[p] # None => u = uid[p] /\ (o # None => api[p].running <= o.running)
      /\ api[p] = None => uid[p] < u
      /\ o # None => o.uid = u
  BY ViewTyped DEF Publishes, Publish, TypeOK
<1>2. Sound(x, p)'
  BY <1>1 DEF Sound
<1>3. ASSUME x # None, o # None, x.uid = u
      PROVE  api[p] # None /\ x.uid = uid[p]
  BY <1>1, <1>3 DEF Sound
<1>4. Newer(o, x, p)'
  BY <1>1, <1>3 DEF Newer
<1>5. \A y \in Object \cup {None} : Newer(y, x, p) => Newer(y, x, p)'
  BY <1>1, <1>3 DEF Newer
<1> QED BY <1>2, <1>4, <1>5

(* Publishing keeps the views sound and in order. *)
LEMMA PublishKeepsViews ==
  ASSUME TypeOK, ViewInv, NEW p \in Pods, NEW u, NEW o, Publishes(p, u, o)
  PROVE  ViewInv'
<1> USE DEF ViewInv
<1> DEFINE n == Len(wire) + 1
<1>1. /\ UNCHANGED <<watcher, listed, buffer, store>>
      /\ \A q \in Pods : Base(q)' = Base(q)
      /\ api'[p] = o /\ uid'[p] = u
      /\ \A q \in Pods \ {p} : api'[q] = api[q] /\ uid'[q] = uid[q]
  BY DEF Publishes, Publish, TypeOK, cacheVars, Base
<1>2. /\ watcher = "empty" => \A q \in Pods : Changes(q)' = {} /\ Changes(q) = {}
      /\ watcher = "empty" => wire' = <<>>
  BY NoChanges DEF Publishes, Publish, SoundInv, Changes
<1>3. watcher # "empty" =>
        /\ n \in Nat
        /\ \A q \in Pods \ {p} : Changes(q)' = Changes(q)
        /\ Changes(p)' = Changes(p) \cup {n}
        /\ \A q \in Pods : \A i \in Changes(q) : i < n /\ wire'[i] = wire[i]
        /\ wire'[n].uid = u /\ wire'[n].object = o
  BY QueuedLast DEF Publishes
<1> HIDE DEF n
<1>4. ASSUME NEW q \in Pods
      PROVE  /\ \A i \in Changes(q)' : (i \in Changes(q) /\ wire'[i] = wire[i])
                                       \/ (q = p /\ i = n /\ wire'[i].uid = u /\ wire'[i].object = o)
             /\ q # p => Changes(q)' = Changes(q)
  BY <1>2, <1>3
<1>5. SoundInv'
  <2>1. ASSUME NEW q \in Pods, q # p
        PROVE  /\ api'[q] # None => api'[q].uid = uid'[q]
               /\ Sound(api[q], q)' /\ Sound(store[q], q)' /\ Sound(listed[q], q)' /\ Sound(buffer[q], q)'
               /\ \A i \in Changes(q)' :
                    /\ Sound(wire[i].object, q)'
                    /\ wire'[i].object # None => wire'[i].object.uid = wire'[i].uid
    BY <1>1, <1>4, <2>1 DEF SoundInv, Sound
  <2>2. /\ o # None => o.uid = u
        /\ Sound(api[p], p)'
    BY <1>1, ViewTyped DEF Sound, Publishes
  <2>3. \A x \in Object \cup {None} : Sound(x, p) => Sound(x, p)'
    BY <1>1, ViewTyped DEF Sound, Publishes
  <2>4. Sound(store[p], p)' /\ Sound(listed[p], p)' /\ Sound(buffer[p], p)'
    BY <1>1, <2>3 DEF SoundInv, TypeOK, Sound
  <2>5. ASSUME NEW i \in Changes(p)'
        PROVE  /\ Sound(wire[i].object, p)'
               /\ wire'[i].object # None => wire'[i].object.uid = wire'[i].uid
    <3>1. CASE i \in Changes(p) /\ wire'[i] = wire[i]
      BY <2>3, <3>1, ViewTyped DEF SoundInv, Sound
    <3>2. CASE wire'[i].uid = u /\ wire'[i].object = o
      BY <1>1, <2>2, <3>2 DEF Sound
    <3> QED BY <1>4, <3>1, <3>2
  <2>6. /\ api'[p] # None => api'[p].uid = uid'[p]
        /\ watcher' = "empty" => wire' = <<>>
    BY <1>1, <1>2, <2>2
  <2> QED BY <2>1, <2>2, <2>4, <2>5, <2>6 DEF SoundInv
<1>6. MirrorInv'
  <2> SUFFICES ASSUME watcher # "empty", NEW q \in Pods
               PROVE  \/ Changes(q)' = {} /\ Base(q)' = api'[q]
                      \/ \E i \in Changes(q)' : /\ \A j \in Changes(q)' : j <= i
                                               /\ wire'[i].object = api'[q]
    BY <1>1 DEF MirrorInv
  <2>1. CASE q = p
    <3>1. n \in Changes(p)' /\ (\A j \in Changes(p)' : j <= n) /\ wire'[n].object = api'[p]
      BY <1>1, <1>3, ViewTyped
    <3> QED BY <2>1, <3>1
  <2>2. CASE q # p
    BY <1>1, <1>3, <2>2 DEF MirrorInv
  <2> QED BY <2>1, <2>2
<1>7. ChainInv'
  <2> SUFFICES ASSUME watcher # "empty", NEW q \in Pods
               PROVE  /\ \A i \in Changes(q)' :
                           First(i, q)' /\ Base(q)' # None => wire'[i].uid = Base(q)'.uid
                      /\ \A i, j \in Changes(q)' :
                           Consecutive(i, j, q)' /\ wire'[i].object # None
                              => wire'[j].uid = wire'[i].uid
    BY <1>1 DEF ChainInv
  <2>1. CASE q # p
    BY <1>1, <1>3, <2>1 DEF ChainInv, First, Consecutive
  <2>2. CASE q = p
    <3>1. ASSUME NEW i \in Changes(p)', First(i, p)', Base(p) # None
          PROVE  wire'[i].uid = Base(p).uid
      <4>1. CASE i \in Changes(p)
        BY <1>3, <3>1, <4>1 DEF ChainInv, First
      <4>2. CASE i = n
        <5>1. Changes(p) = {}
          BY <1>3, <3>1, <4>2, ViewTyped DEF First
        <5>2. Base(p) = api[p] /\ api[p].uid = u
          BY <3>1, <5>1 DEF MirrorInv, SoundInv, Publishes
        <5> QED BY <1>3, <4>2, <5>2
      <4> QED BY <1>3, <4>1, <4>2
    <3>2. ASSUME NEW i \in Changes(p)', NEW j \in Changes(p)', Consecutive(i, j, p)',
                 wire'[i].object # None
          PROVE  wire'[j].uid = wire'[i].uid
      <4>0. i \in Changes(p) /\ i \in Nat /\ wire'[i] = wire[i]
        BY <1>3, <3>2, ViewTyped DEF Consecutive
      <4>1. CASE j \in Changes(p)
        BY <1>3, <3>2, <4>0, <4>1 DEF ChainInv, Consecutive
      <4>2. CASE j = n
        <5>1. \A k \in Changes(p) : k <= i
          BY <1>3, <3>2, <4>2, ViewTyped DEF Consecutive
        <5>2. PICK l \in Changes(p) : (\A k \in Changes(p) : k <= l) /\ wire[l].object = api[p]
          BY <4>0 DEF MirrorInv
        <5>3. l = i
          BY <4>0, <5>1, <5>2, ViewTyped
        <5>4. api[p] # None /\ api[p].uid = u /\ wire[i].uid = u
          BY <3>2, <4>0, <5>2, <5>3 DEF SoundInv, Publishes
        <5> QED BY <1>3, <4>0, <4>2, <5>4
      <4> QED BY <1>3, <4>1, <4>2
    <3> QED BY <1>1, <2>2, <3>1, <3>2
  <2> QED BY <2>1, <2>2
<1>8. OrderInv'
  <2>2. ASSUME NEW q \in Pods, q # p
        PROVE  /\ Newer(api[q], store[q], q)' /\ Newer(Base(q), store[q], q)'
               /\ Newer(api[q], Base(q), q)'
               /\ \A i \in Changes(q)' :
                    /\ Newer(wire[i].object, Base(q), q)' /\ Newer(api[q], wire[i].object, q)'
                    /\ \A j \in Changes(q)' : i < j => Newer(wire[j].object, wire[i].object, q)'
    BY <1>1, <1>4, <2>2 DEF OrderInv, Newer
  <2>3. \A x \in Object \cup {None} :
          Sound(x, p) /\ Newer(api[p], x, p) =>
            Newer(o, x, p)' /\ \A y \in Object \cup {None} : Newer(y, x, p) => Newer(y, x, p)'
    BY PublishedIsNewer DEF SoundInv
  <2>4. Newer(o, o, p)'
    BY <1>1, ViewTyped DEF Newer, Publishes
  <2>5. /\ Sound(store[p], p) /\ Sound(Base(p), p)
        /\ Newer(api[p], store[p], p) /\ Newer(api[p], Base(p), p) /\ Newer(Base(p), store[p], p)
    BY DEF SoundInv, OrderInv, Base
  <2>6. Newer(api[p], store[p], p)' /\ Newer(Base(p), store[p], p)' /\ Newer(api[p], Base(p), p)'
    BY <1>1, <2>3, <2>5, ViewTyped DEF Newer
  <2>7. ASSUME NEW i \in Changes(p)'
        PROVE  /\ Newer(wire[i].object, Base(p), p)' /\ Newer(api[p], wire[i].object, p)'
               /\ \A j \in Changes(p)' : i < j => Newer(wire[j].object, wire[i].object, p)'
    <3>1. CASE i \in Changes(p) /\ wire'[i] = wire[i]
      <4>1. /\ Sound(wire[i].object, p) /\ Newer(api[p], wire[i].object, p)
            /\ Newer(wire[i].object, Base(p), p) /\ wire[i].object \in Object \cup {None}
        BY <3>1, ViewTyped DEF SoundInv, OrderInv
      <4>2. Newer(wire[i].object, Base(p), p)' /\ Newer(api[p], wire[i].object, p)'
        BY <1>1, <2>3, <2>5, <3>1, <4>1, ViewTyped DEF Newer
      <4>3. ASSUME NEW j \in Changes(p)', i < j PROVE Newer(wire[j].object, wire[i].object, p)'
        <5>1. CASE j \in Changes(p) /\ wire'[j] = wire[j]
          <6>1. Newer(wire[j].object, wire[i].object, p) /\ wire[j].object \in Object \cup {None}
            BY <3>1, <4>3, <5>1, ViewTyped DEF OrderInv
          <6> QED BY <2>3, <3>1, <4>1, <5>1, <6>1 DEF Newer
        <5>2. CASE wire'[j].object = o
          BY <2>3, <3>1, <4>1, <5>2 DEF Newer
        <5> QED BY <1>4, <5>1, <5>2
      <4> QED BY <4>2, <4>3
    <3>2. CASE i = n /\ wire'[i].object = o
      <4>1. Newer(wire[i].object, Base(p), p)' /\ Newer(api[p], wire[i].object, p)'
        BY <1>1, <2>3, <2>4, <2>5, <3>2, ViewTyped DEF Newer
      <4>2. \A j \in Changes(p)' : ~(i < j)
        BY <1>2, <1>3, <3>2, ViewTyped
      <4> QED BY <4>1, <4>2
    <3> QED BY <1>4, <3>1, <3>2
  <2> QED BY <2>2, <2>6, <2>7 DEF OrderInv
<1> QED BY <1>5, <1>6, <1>7, <1>8

-----------------------------------------------------------------------------
(* WatchApply and WatchDelete do the same to the store. *)
Mirrored ==
  /\ watcher = "watching" /\ wire # <<>> /\ wire' = Tail(wire)
  /\ store' = [store EXCEPT ![Head(wire).pod] = Head(wire).object]
  /\ UNCHANGED <<uid, api, watcher, listed, buffer>>

(* An event that reaches the store becomes what the next ones apply to. *)
LEMMA MirroredKeepsViews ==
  ASSUME TypeOK, ViewInv, Mirrored
  PROVE  ViewInv'
<1> USE DEF ViewInv
<1> DEFINE h == Head(wire).pod
<1>1. /\ h \in Pods /\ 1 \in Changes(h) /\ Head(wire) = wire[1]
      /\ \A q \in Pods :
           /\ 1 \in Changes(q) => q = h
           /\ Changes(q)' = {i \in Nat \ {0} : i + 1 \in Changes(q)}
           /\ \A i \in Changes(q)' : wire'[i] = wire[i + 1]
  BY HeadTaken DEF Mirrored
<1> HIDE DEF h
<1>2. /\ \A q \in Pods : Base(q) = store[q] /\ Base(q)' = store'[q]
      /\ store'[h] = wire[1].object
      /\ \A q \in Pods \ {h} : store'[q] = store[q]
      /\ UNCHANGED <<uid, api, watcher, listed, buffer>> /\ watcher = "watching"
  BY <1>1 DEF Mirrored, Base, TypeOK, h
<1>3. \A q \in Pods : \A i \in Changes(q)' :
        i \in Nat /\ i >= 1 /\ i + 1 \in Changes(q) /\ wire'[i] = wire[i + 1]
  BY <1>1
<1>4. \A q \in Pods : Changes(q) \subseteq Nat \ {0}
  BY ViewTyped
<1>5. SoundInv'
  <2>1. \A q \in Pods : Sound(store[q], q)'
    BY <1>1, <1>2 DEF SoundInv, Sound
  <2> QED BY <1>2, <1>3, <2>1 DEF SoundInv, Sound
<1>6. MirrorInv'
  <2> SUFFICES ASSUME NEW q \in Pods
               PROVE  \/ Changes(q)' = {} /\ store'[q] = api[q]
                      \/ \E i \in Changes(q)' : /\ \A j \in Changes(q)' : j <= i
                                               /\ wire'[i].object = api[q]
    BY <1>2 DEF MirrorInv
  <2>1. CASE Changes(q) = {}
    <3>1. Changes(q)' = {} /\ store[q] = api[q] /\ q # h
      BY <1>1, <1>2, <2>1 DEF MirrorInv
    <3> QED BY <1>2, <3>1
  <2>2. CASE Changes(q) # {}
    <3>1. PICK l \in Changes(q) : (\A j \in Changes(q) : j <= l) /\ wire[l].object = api[q]
      BY <1>2, <2>2 DEF MirrorInv
    <3>2. CASE l = 1
      <4>1. q = h /\ store'[q] = api[q]
        BY <1>1, <1>2, <3>1, <3>2
      <4>2. Changes(q)' = {}
        BY <1>3, <3>1, <3>2
      <4> QED BY <4>1, <4>2
    <3>3. CASE l # 1
      <4>1. l - 1 \in Nat \ {0} /\ (l - 1) + 1 = l
        BY <1>4, <3>1, <3>3
      <4>2. l - 1 \in Changes(q)'
        BY <1>1, <3>1, <4>1
      <4>3. \A j \in Changes(q)' : j <= l - 1
        BY <1>3, <1>4, <3>1
      <4>4. wire'[l - 1].object = api[q]
        BY <1>1, <3>1, <4>1, <4>2
      <4> QED BY <4>2, <4>3, <4>4
    <3> QED BY <3>2, <3>3
  <2> QED BY <2>1, <2>2
<1>7. ChainInv'
  <2> SUFFICES ASSUME NEW q \in Pods
               PROVE  /\ \A i \in Changes(q)' :
                           First(i, q)' /\ store'[q] # None => wire'[i].uid = store'[q].uid
                      /\ \A i, j \in Changes(q)' :
                           Consecutive(i, j, q)' /\ wire'[i].object # None
                              => wire'[j].uid = wire'[i].uid
    BY <1>2 DEF ChainInv
  <2>0. ASSUME NEW k \in Changes(q) PROVE k = 1 \/ k - 1 \in Changes(q)'
    BY <1>1, <1>4
  <2>1. ASSUME NEW i \in Changes(q)', First(i, q)', store'[q] # None
        PROVE  wire'[i].uid = store'[q].uid
    <3>1. \A k \in Changes(q) : k = 1 \/ i + 1 <= k
      BY <1>3, <1>4, <2>0, <2>1 DEF First
    <3>2. CASE q = h
      <4>1. Consecutive(1, i + 1, q)
        BY <1>1, <1>3, <1>4, <3>1, <3>2 DEF Consecutive
      <4>2. wire[1].object # None /\ wire[1].object.uid = wire[1].uid
        BY <1>1, <1>2, <2>1, <3>2 DEF SoundInv
      <4> QED BY <1>1, <1>2, <1>3, <3>2, <4>1, <4>2 DEF ChainInv
    <3>3. CASE q # h
      <4>1. First(i + 1, q)
        BY <1>1, <1>3, <1>4, <3>1, <3>3 DEF First
      <4> QED BY <1>2, <1>3, <2>1, <3>3, <4>1 DEF ChainInv
    <3> QED BY <3>2, <3>3
  <2>2. ASSUME NEW i \in Changes(q)', NEW j \in Changes(q)', Consecutive(i, j, q)',
               wire'[i].object # None
        PROVE  wire'[j].uid = wire'[i].uid
    <3>1. Consecutive(i + 1, j + 1, q)
      <4>1. ASSUME NEW k \in Changes(q) PROVE k <= i + 1 \/ j + 1 <= k
        BY <1>3, <1>4, <2>0, <2>2 DEF Consecutive
      <4> QED BY <1>3, <2>2, <4>1 DEF Consecutive
    <3> QED BY <1>2, <1>3, <2>2, <3>1 DEF ChainInv
  <2> QED BY <2>1, <2>2
<1>8. OrderInv'
  <2>1. \A q \in Pods : Newer(store[q], store[q], q)'
    <3>1. \A q \in Pods : store'[q] \in Object \cup {None}
      BY <1>1, <1>2, ViewTyped
    <3> QED BY <3>1, ViewTyped DEF Newer
  <2>2. ASSUME NEW q \in Pods
        PROVE  /\ Newer(api[q], store[q], q)'
               /\ \A i \in Changes(q)' : Newer(wire[i].object, store[q], q)'
    <3>1. CASE q = h
      <4>1. Newer(api[h], wire[1].object, h)
        BY <1>1 DEF OrderInv
      <4>2. \A j \in Changes(h) : 1 < j => Newer(wire[j].object, wire[1].object, h)
        BY <1>1 DEF OrderInv
      <4> QED BY <1>1, <1>2, <1>3, <3>1, <4>1, <4>2 DEF Newer
    <3>2. CASE q # h
      BY <1>2, <1>3, <3>2 DEF OrderInv, Newer
    <3> QED BY <3>1, <3>2
  <2>3. ASSUME NEW q \in Pods, NEW i \in Changes(q)'
        PROVE  /\ Newer(api[q], wire[i].object, q)'
               /\ \A j \in Changes(q)' : i < j => Newer(wire[j].object, wire[i].object, q)'
    BY <1>2, <1>3 DEF OrderInv, Newer
  <2> QED BY <1>2, <2>1, <2>2, <2>3 DEF OrderInv, Newer
<1> QED BY <1>5, <1>6, <1>7, <1>8

-----------------------------------------------------------------------------
(* A list that begins, is taken in, completes or fails. *)
LEMMA ListKeepsViews ==
  ASSUME TypeOK, ViewInv, ListPods \/ (\E p \in Pods : InitApply(p)) \/ InitDone \/ WatchFails
  PROVE  ViewInv'
<1> USE DEF ViewInv
<1>0. \A p \in Pods : Newer(api[p], api[p], p)
  BY ViewTyped DEF Newer
<1>1. CASE ListPods
  <2>1. /\ watcher' = "init" /\ wire' = <<>> /\ listed' = api /\ buffer' = Empty
        /\ UNCHANGED <<uid, api, store>>
    BY <1>1 DEF ListPods
  <2>2. \A p \in Pods : Base(p)' = api[p] /\ Changes(p)' = {} /\ buffer'[p] = None
    BY <2>1 DEF Base, Empty, Changes
  <2>3. SoundInv'
    BY <2>1, <2>2 DEF SoundInv, Sound
  <2>4. MirrorInv' /\ ChainInv'
    BY <2>1, <2>2 DEF MirrorInv, ChainInv
  <2>5. OrderInv'
    BY <1>0, <2>1, <2>2 DEF OrderInv, Newer
  <2> QED BY <2>3, <2>4, <2>5
<1>2. ASSUME NEW p \in Pods, InitApply(p) PROVE ViewInv'
  <2>1. /\ watcher = "init" /\ listed[p] # None
        /\ buffer' = [buffer EXCEPT ![p] = listed[p]] /\ listed' = [listed EXCEPT ![p] = None]
        /\ UNCHANGED <<uid, api, wire, watcher, store>>
    BY <1>2 DEF InitApply, apiVars
  <2>2. \A q \in Pods : Base(q)' = Base(q) /\ Changes(q)' = Changes(q)
    BY <2>1 DEF Base, Changes, TypeOK
  <2>3. SoundInv'
    BY <2>1, <2>2 DEF SoundInv, Sound, TypeOK
  <2>4. MirrorInv'
    BY <2>1, <2>2 DEF MirrorInv
  <2>5. ChainInv'
    BY <2>1, <2>2 DEF ChainInv, First, Consecutive
  <2>6. OrderInv'
    BY <2>1, <2>2 DEF OrderInv, Newer
  <2> QED BY <2>3, <2>4, <2>5, <2>6
<1>3. CASE InitDone
  <2>1. /\ watcher = "init" /\ watcher' = "watching" /\ listed = Empty /\ store' = buffer
        /\ buffer' = Empty /\ UNCHANGED <<uid, api, wire, listed>>
    BY <1>3 DEF InitDone, apiVars
  <2>2. \A q \in Pods : /\ Base(q) = store'[q] /\ Base(q)' = store'[q] /\ Changes(q)' = Changes(q)
                        /\ buffer'[q] = None
    BY <2>1 DEF Base, Changes, Empty
  <2>3. SoundInv'
    BY <2>1, <2>2 DEF SoundInv, Sound
  <2>4. MirrorInv'
    BY <2>1, <2>2 DEF MirrorInv
  <2>5. ChainInv'
    BY <2>1, <2>2 DEF ChainInv, First, Consecutive
  <2>6. \A q \in Pods : Newer(store[q], store[q], q)'
    BY <2>1, ViewTyped DEF Newer, TypeOK
  <2>7. OrderInv'
    BY <2>1, <2>2, <2>6 DEF OrderInv, Newer
  <2> QED BY <2>3, <2>4, <2>5, <2>7
<1>4. CASE WatchFails
  <2>1. /\ watcher' = "empty" /\ wire' = <<>> /\ listed' = Empty
        /\ UNCHANGED <<uid, api, buffer, store>>
    BY <1>4 DEF WatchFails
  <2>2. \A q \in Pods : Base(q)' = store[q] /\ Changes(q)' = {} /\ listed'[q] = None
    BY <2>1 DEF Base, Changes, Empty
  <2>3. SoundInv'
    BY <2>1, <2>2 DEF SoundInv, Sound
  <2>4. MirrorInv' /\ ChainInv'
    BY <2>1 DEF MirrorInv, ChainInv
  <2>5. \A q \in Pods : Newer(store[q], store[q], q)
    BY ViewTyped DEF Newer
  <2>6. OrderInv'
    BY <2>1, <2>2, <2>5 DEF OrderInv, Newer
  <2> QED BY <2>3, <2>4, <2>6
<1> QED BY <1>1, <1>2, <1>3, <1>4

(* The steps that change no view. *)
ViewsAlone == UNCHANGED <<uid, api, wire, watcher, listed, buffer, store>>

(* What a step can be to the views. *)
LEMMA ViewCases ==
  ASSUME [Next]_vars
  PROVE  \/ \E p \in Pods : PodScheduled(p) \/ KubeletReports(p) \/ PodRemoved(p)
         \/ Mirrored
         \/ ListPods \/ (\E p \in Pods : InitApply(p)) \/ InitDone \/ WatchFails
         \/ ViewsAlone
  BY DEF Next, Cluster, ContainerStarts, Cache, WatchApply, WatchDelete, Mirrored, Victim, Kill,
         Reaped, PidReused, Loop, SyncWaitOver, NoContainerId, CgroupUnreadable, ContainerIdRead,
         LookUpUnsynced, LookUp, EventRecorded, vars, apiVars, cacheVars, ViewsAlone

(* Every step keeps the views sound, complete, chained and in order. *)
LEMMA ViewStep == TypeInv /\ ViewInv /\ [Next]_vars => ViewInv'
<1> SUFFICES ASSUME TypeInv, ViewInv, [Next]_vars PROVE ViewInv'
  OBVIOUS
<1>0. TypeOK
  BY DEF TypeInv
<1>1. ASSUME NEW p \in Pods, PodScheduled(p) \/ KubeletReports(p) \/ PodRemoved(p)
      PROVE  ViewInv'
  BY <1>0, <1>1, ClusterPublishes, PublishKeepsViews DEF ViewInv
<1>2. CASE Mirrored
  BY <1>0, <1>2, MirroredKeepsViews
<1>3. CASE ListPods \/ (\E p \in Pods : InitApply(p)) \/ InitDone \/ WatchFails
  BY <1>0, <1>3, ListKeepsViews
<1>4. CASE ViewsAlone
  <2>1. \A p \in Pods : Base(p)' = Base(p) /\ Changes(p)' = Changes(p)
    BY <1>4 DEF ViewsAlone, Base, Changes
  <2>2. SoundInv'
    BY <1>4, <2>1 DEF ViewInv, ViewsAlone, SoundInv, Sound
  <2>3. MirrorInv'
    BY <1>4, <2>1 DEF ViewInv, ViewsAlone, MirrorInv
  <2>4. ChainInv'
    BY <1>4, <2>1 DEF ViewInv, ViewsAlone, ChainInv, First, Consecutive
  <2>5. OrderInv'
    BY <1>4, <2>1 DEF ViewInv, ViewsAlone, OrderInv, Newer
  <2> QED BY <2>2, <2>3, <2>4, <2>5 DEF ViewInv
<1> QED BY <1>1, <1>2, <1>3, <1>4, ViewCases

(* TypeInv and ViewInv are invariants. *)
LEMMA Views == Spec => [](TypeInv /\ ViewInv)
<1>1. Init => ViewInv
  <2> SUFFICES ASSUME Init PROVE ViewInv
    OBVIOUS
  <2>1. /\ watcher = "empty" /\ wire = <<>>
        /\ \A p \in Pods : api[p] = None /\ store[p] = None /\ listed[p] = None /\ buffer[p] = None
        /\ \A p \in Pods : Changes(p) = {} /\ Base(p) = None
    BY DEF Init, Empty, Changes, Base
  <2> QED BY <2>1 DEF ViewInv, SoundInv, MirrorInv, ChainInv, OrderInv, Sound, Newer
<1>2. TypeInv /\ [Next]_vars => TypeInv'
  BY ClusterTyped, CacheTyped, LoopTyped, StutterTyped DEF Next
<1> QED BY <1>1, <1>2, InitTyped, ViewStep, PTL DEF Spec

(* While the watch is up, the store and the events on their way to it are  *)
(* the API server's state, whatever lists failed or were taken again.      *)
THEOREM StoreMirrorsApi == Spec => []MirrorsApi
<1>1. TypeInv /\ ViewInv => MirrorsApi
  <2> SUFFICES ASSUME TypeInv, ViewInv, watcher = "watching", NEW p \in Pods
               PROVE  CaughtUp(p) = api[p]
    BY DEF MirrorsApi
  <2>0. TypeOK
    BY DEF TypeInv
  <2>1. CASE Changes(p) = {}
    BY <2>1 DEF CaughtUp, ViewInv, MirrorInv, Base
  <2>2. CASE Changes(p) # {}
    <3> DEFINE last == CHOOSE i \in Changes(p) : \A j \in Changes(p) : j <= i
    <3>1. PICK i \in Changes(p) : (\A j \in Changes(p) : j <= i) /\ wire[i].object = api[p]
      BY <2>2 DEF ViewInv, MirrorInv
    <3>2. last \in Changes(p) /\ \A j \in Changes(p) : j <= last
      BY <3>1
    <3> HIDE DEF last
    <3>3. last = i
      BY <2>0, <3>1, <3>2, ViewTyped
    <3>4. CaughtUp(p) = wire[last].object
      BY <2>2 DEF CaughtUp, last
    <3> QED BY <3>1, <3>3, <3>4
  <2> QED BY <2>1, <2>2
<1> QED BY <1>1, Views, PTL

(* While the watch is up, a pod object leaves the store only with the call *)
(* of on_pod_deleted for it, and a later object of its name never takes    *)
(* its place unreported.                                                   *)
THEOREM NoWatchedDeletionMissed == Spec => WatchedDeletionsReported
<1>1. TypeInv /\ ViewInv /\ [Next]_vars =>
        [\A p \in Pods :
           (LeavesStore(p) /\ watcher = "watching") => <<p, store[p].uid>> \in reported']_vars
  <2> SUFFICES ASSUME TypeInv, ViewInv, [Next]_vars, NEW p \in Pods, LeavesStore(p),
                      watcher = "watching"
               PROVE  <<p, store[p].uid>> \in reported'
    OBVIOUS
  <2>0. TypeOK
    BY DEF TypeInv
  <2>1. store' # store
    BY DEF LeavesStore
  <2>2. WatchApply \/ WatchDelete
    BY <2>1 DEF Next, Cluster, PodScheduled, ContainerStarts, KubeletReports, PodRemoved, Cache,
       ListPods, InitApply, InitDone, WatchFails, Victim, Kill, Reaped, PidReused, Loop,
       SyncWaitOver, NoContainerId, CgroupUnreadable, ContainerIdRead, LookUpUnsynced, LookUp,
       EventRecorded, vars, cacheVars
  <2>3. /\ Head(wire) = wire[1] /\ wire[1].pod \in Pods /\ 1 \in Changes(wire[1].pod)
        /\ store' = [store EXCEPT ![wire[1].pod] = wire[1].object]
    BY <2>0, <2>2, HeadTaken DEF WatchApply, WatchDelete
  <2>4. wire[1].pod = p /\ store'[p] = wire[1].object
    BY <2>0, <2>3 DEF LeavesStore, TypeOK
  <2>5. store[p] # None /\ Base(p) = store[p] /\ First(1, p)
    BY <2>0, <2>3, <2>4, ViewTyped DEF LeavesStore, Base, First
  <2>6. wire[1].uid = store[p].uid
    BY <2>4, <2>5 DEF ViewInv, ChainInv, First
  <2>7. ~WatchApply
    BY <2>3, <2>4, <2>6 DEF WatchApply, ViewInv, SoundInv, LeavesStore
  <2> QED BY <2>2, <2>3, <2>4, <2>6, <2>7 DEF WatchDelete
<1> QED BY <1>1, Views, PTL DEF Spec, WatchedDeletionsReported

-----------------------------------------------------------------------------
(* The pod object of the victim is still there. *)
PodLives == api[event.victim.pod] # None /\ uid[event.victim.pod] = event.victim.uid

(* As long as it is, the store does not fall behind what it knew. *)
StillKnown ==
  LET v == event.victim
  IN  /\ ready /\ v \in Instance /\ v.uid <= uid[v.pod]
      /\ PodLives => /\ store[v.pod] # None /\ store[v.pod].uid = v.uid
                     /\ v.restart <= store[v.pod].running

KnownInv ==
  /\ event.at = "queued" => event.id = None
  /\ event.known /\ event.at # "idle" => StillKnown
  /\ KnownContainerResolves

(* Views of the object that lives replace each other in order in the       *)
(* store; an object that does not live does not come back.                 *)
LEMMA StillKnownStep ==
  ASSUME TypeInv, ViewInv, [Next]_vars, StillKnown, event'.victim = event.victim
  PROVE  /\ StillKnown'
         /\ PodLives' => PodLives /\ node[event.victim.pod] <= node'[event.victim.pod]
<1> DEFINE v == event.victim
<1>0. TypeOK /\ TypeOK' /\ ViewInv'
  BY ViewStep, ClusterTyped, CacheTyped, LoopTyped, StutterTyped DEF TypeInv, Next
<1>1. /\ v \in Instance /\ v.pod \in Pods /\ v.uid \in Nat /\ v.restart \in Nat /\ ready
      /\ v.uid <= uid[v.pod]
  BY PodCacheAssumption DEF StillKnown, Instance
<1>2. ready'
  BY <1>1 DEF Next, Cluster, PodScheduled, ContainerStarts, KubeletReports, PodRemoved, Cache,
     ListPods, InitApply, InitDone, WatchFails, WatchApply, WatchDelete, Victim, Kill, Reaped,
     PidReused, Loop, SyncWaitOver, NoContainerId, CgroupUnreadable, ContainerIdRead,
     LookUpUnsynced, LookUp, EventRecorded, vars, cacheVars
<1> DEFINE p == v.pod
<1>3. /\ uid[p] \in Nat /\ uid'[p] \in Nat /\ uid[p] <= uid'[p]
      /\ api'[p] # None /\ uid'[p] = v.uid => api[p] # None /\ uid[p] = v.uid
  <2>1. uid[p] \in Nat /\ uid'[p] \in Nat
    <3>1. uid \in [Pods -> 0..MaxUid] /\ uid' \in [Pods -> 0..MaxUid]
      BY <1>0 DEF TypeOK
    <3> QED BY <1>1, <3>1, PodCacheAssumption
  <2>2. CASE ListPods \/ (\E q \in Pods : InitApply(q)) \/ InitDone \/ WatchFails
             \/ Mirrored \/ ViewsAlone
    BY <2>1, <2>2 DEF ListPods, InitApply, InitDone, WatchFails, Mirrored, ViewsAlone, apiVars
  <2>3. ASSUME NEW q \in Pods, PodScheduled(q) \/ KubeletReports(q) \/ PodRemoved(q)
        PROVE  /\ uid[p] <= uid'[p]
               /\ api'[p] # None /\ uid'[p] = v.uid => api[p] # None /\ uid[p] = v.uid
    <3>1. PICK u \in 1..MaxUid, o \in Object \cup {None} : Publishes(q, u, o)
      BY <1>0, <2>3, ClusterPublishes DEF ViewInv
    <3>2. CASE q = p
      BY <1>0, <1>1, <2>1, <3>1, <3>2 DEF Publishes, Publish, TypeOK
    <3>3. CASE q # p
      <4>1. uid'[p] = uid[p] /\ api'[p] = api[p]
        BY <1>0, <1>1, <3>1, <3>3 DEF Publishes, Publish, TypeOK
      <4> QED BY <2>1, <4>1
    <3> QED BY <3>2, <3>3
  <2> QED BY <2>1, <2>2, <2>3, ViewCases
<1>4. PodLives' => PodLives
  BY <1>3 DEF PodLives
<1>5. ASSUME PodLives' PROVE node[p] <= node'[p]
  <2>1. node[p] \in Nat /\ node \in [Pods -> 0..MaxRestarts]
    BY <1>0, <1>1, PodCacheAssumption DEF TypeOK
  <2>2. ASSUME NEW q \in Pods, ContainerStarts(q) PROVE node[p] <= node'[p]
    BY <1>1, <2>1, <2>2, PodCacheAssumption DEF ContainerStarts
  <2>3. ASSUME NEW q \in Pods, PodRemoved(q) PROVE node'[p] = node[p]
    <3>1. q # p
      BY <1>0, <1>1, <1>5, <2>3 DEF PodRemoved, Publish, PodLives, TypeOK
    <3> QED BY <1>1, <2>1, <2>3, <3>1 DEF PodRemoved
  <2>4. \/ \E q \in Pods : ContainerStarts(q) \/ PodRemoved(q)
        \/ node' = node
    BY DEF Next, Cluster, PodScheduled, KubeletReports, Cache, ListPods, InitApply, InitDone,
       WatchFails, WatchApply, WatchDelete, Victim, Kill, Reaped, PidReused, Loop, SyncWaitOver,
       NoContainerId, CgroupUnreadable, ContainerIdRead, LookUpUnsynced, LookUp, EventRecorded,
       vars, apiVars
  <2> QED BY <2>1, <2>2, <2>3, <2>4
<1>6. ASSUME PodLives'
      PROVE  /\ store'[p] # None /\ store'[p].uid = v.uid /\ v.restart <= store'[p].running
  <2>1. /\ store[p] # None /\ store[p].uid = v.uid /\ v.restart <= store[p].running
        /\ api[p] # None /\ uid[p] = v.uid
    BY <1>4, <1>6 DEF StillKnown, PodLives
  <2>2. CASE store'[p] = store[p]
    BY <2>1, <2>2
  <2>3. ASSUME NEW y \in Object \cup {None}, Newer(y, store[p], p), store'[p] = y
        PROVE  store'[p] # None /\ store'[p].uid = v.uid /\ v.restart <= store'[p].running
    <3>1. y # None /\ y.uid = v.uid /\ store[p].running <= y.running
      BY <2>1, <2>3 DEF Newer
    <3>2. y.running \in Nat /\ store[p].running \in Nat
      BY <1>0, <1>1, <2>1, <3>1, ViewTyped
    <3> QED BY <1>1, <2>1, <2>3, <3>1, <3>2
  <2>4. CASE Mirrored
    <3>1. /\ Head(wire) = wire[1] /\ wire[1].pod \in Pods /\ 1 \in Changes(wire[1].pod)
          /\ store' = [store EXCEPT ![wire[1].pod] = wire[1].object] /\ Base(p) = store[p]
      BY <1>0, <2>4, HeadTaken DEF Mirrored, Base
    <3>2. CASE wire[1].pod = p
      <4>1. Newer(wire[1].object, store[p], p) /\ wire[1].object \in Object \cup {None}
        BY <1>0, <1>1, <3>1, <3>2, ViewTyped DEF ViewInv, OrderInv
      <4> QED BY <1>0, <1>1, <2>3, <3>1, <3>2, <4>1 DEF TypeOK
    <3>3. CASE wire[1].pod # p
      BY <1>0, <1>1, <2>2, <3>1, <3>3 DEF TypeOK
    <3> QED BY <3>2, <3>3
  <2>5. CASE InitDone
    <3>1. Base(p) = store'[p]
      BY <1>1, <2>5 DEF InitDone, Base, Empty
    <3>2. Newer(Base(p), store[p], p) /\ Base(p) \in Object \cup {None}
      BY <1>0, <1>1, ViewTyped DEF ViewInv, OrderInv
    <3> QED BY <2>3, <3>1, <3>2
  <2>6. CASE ~Mirrored /\ ~InitDone
    <3>1. store' = store
      BY <2>6, ViewCases DEF PodScheduled, KubeletReports, PodRemoved, ListPods, InitApply,
         WatchFails, ViewsAlone, cacheVars
    <3> QED BY <2>2, <3>1
  <2> QED BY <2>4, <2>5, <2>6
<1>7. StillKnown'
  <2>1. v.uid <= uid'[p]
    BY <1>1, <1>3
  <2> QED BY <1>1, <1>2, <1>6, <2>1 DEF StillKnown
<1> QED BY <1>4, <1>5, <1>7

(* The lookup finds what the store still knows, on one pass or the other. *)
LEMMA LookupFinds ==
  ASSUME TypeInv, ViewInv, StillKnown, event.id = event.victim, PodLives,
         node[event.victim.pod] <= event.victim.restart + 1
  PROVE  IdentityFromPods # {}
<1> DEFINE v == event.victim
           p == v.pod
<1>0. TypeOK
  BY DEF TypeInv
<1>1. /\ v \in Instance /\ p \in Pods /\ v.restart \in Nat /\ v.restart >= 1 /\ v.uid \in Nat
      /\ v = [pod |-> p, uid |-> v.uid, restart |-> v.restart]
  BY PodCacheAssumption DEF StillKnown, Instance
<1>2. /\ store[p] # None /\ store[p].uid = v.uid /\ v.restart <= store[p].running
      /\ api[p] # None /\ uid[p] = v.uid
  BY DEF StillKnown, PodLives
<1>3. store[p] \in Object /\ store[p].running \in Nat /\ store[p].last \in Nat /\ api[p].running \in Nat
  BY <1>0, <1>1, <1>2, ViewTyped
<1>4. store[p].running <= api[p].running
  BY <1>1, <1>2 DEF ViewInv, OrderInv, Newer
<1>5. api[p].running <= node[p] /\ node[p] \in Nat
  BY <1>0, <1>1, <1>2, PodCacheAssumption DEF TypeInv, ClusterInv, TypeOK
<1>6. store[p].running > 0 => store[p].last + 1 = store[p].running
  BY <1>1, <1>2 DEF ViewInv, SoundInv, Sound
<1>7. store[p].running = v.restart \/ store[p].last = v.restart
  BY <1>1, <1>2, <1>3, <1>4, <1>5, <1>6
<1>8. CASE store[p].running = v.restart
  <2>1. CandidateId("running", p) = v
    BY <1>1, <1>2, <1>3, <1>8 DEF CandidateId, Object
  <2>2. MatchContainer("running") # {}
    BY <1>1, <1>2, <2>1 DEF MatchContainer
  <2> QED BY <2>2 DEF IdentityFromPods
<1>9. CASE store[p].last = v.restart
  <2>1. CandidateId("last", p) = v
    BY <1>1, <1>2, <1>3, <1>9 DEF CandidateId, Object
  <2>2. MatchContainer("last") # {}
    BY <1>1, <1>2, <2>1 DEF MatchContainer
  <2> QED BY <2>2 DEF IdentityFromPods
<1> QED BY <1>7, <1>8, <1>9

(* A container the store knows when it is killed. *)
LEMMA KillKnown ==
  ASSUME TypeInv, Kill
  PROVE  /\ event'.at = "queued" /\ event'.id = None
         /\ event'.known => StillKnown'
<1>1. PICK v \in Running \cup {Host} :
        event' = [NoEvent EXCEPT !.at = "queued", !.victim = v, !.proc = v,
                    !.known = ready /\ v # Host /\ store[v.pod] # None
                                /\ CandidateId("running", v.pod) = v]
  BY DEF Kill
<1>2. /\ event'.at = "queued" /\ event'.id = None /\ event'.victim = v
      /\ event'.known <=> (ready /\ v # Host /\ store[v.pod] # None
                             /\ CandidateId("running", v.pod) = v)
  BY <1>1 DEF NoEvent
<1>3. ASSUME event'.known PROVE StillKnown'
  <2>1. v \in Running /\ v \in Instance /\ ready /\ store[v.pod] # None
        /\ CandidateId("running", v.pod) = v
    BY <1>2, <1>3, RunningTyped
  <2>2. PICK p \in Pods : v = [pod |-> p, uid |-> uid[p], restart |-> node[p]]
    BY <2>1 DEF Running
  <2>3. v.pod = p /\ v.uid = uid[p]
    BY <2>2
  <2>4. store[p].uid = v.uid /\ store[p].running = v.restart
    BY <2>1, <2>3 DEF CandidateId
  <2>5. v.uid \in Nat /\ v.restart \in Nat
    BY <2>1, PodCacheAssumption DEF Instance
  <2>6. UNCHANGED <<ready, uid, store, api>>
    BY DEF Kill, apiVars, cacheVars
  <2>7. /\ ready' /\ v \in Instance /\ v.uid <= uid'[v.pod]
        /\ store'[v.pod] # None /\ store'[v.pod].uid = v.uid /\ v.restart <= store'[v.pod].running
    BY <2>1, <2>3, <2>4, <2>5, <2>6
  <2> QED BY <1>2, <2>7 DEF StillKnown
<1> QED BY <1>2, <1>3

(* Each step keeps what is known of the victim. *)
LEMMA KnownStep == TypeInv /\ ViewInv /\ KnownInv /\ [Next]_vars => KnownInv'
<1> SUFFICES ASSUME TypeInv, ViewInv, KnownInv, [Next]_vars PROVE KnownInv'
  OBVIOUS
<1>0. event \in Resolution /\ TypeOK
  BY DEF TypeInv, TypeOK
<1>1. ASSUME event'.victim = event.victim, event'.known = event.known, event.at # "idle"
      PROVE  event'.known => StillKnown /\ StillKnown'
  BY <1>1, StillKnownStep DEF KnownInv
<1>2. CASE event' = event
  <2>1. KnownContainerResolves'
    <3> DEFINE v == event.victim
    <3> SUFFICES ASSUME event.at = "resolved", event.known, event.id = v, PodLives',
                        node'[v.pod] <= v.restart + 1
                 PROVE  event.outcome = "Found"
      BY <1>2 DEF KnownContainerResolves, PodLives
    <3>1. StillKnown
      BY DEF KnownInv
    <3>2. PodLives /\ node[v.pod] <= node'[v.pod]
      BY <1>2, <3>1, StillKnownStep
    <3>3. v.pod \in Pods /\ v.restart \in Nat
      BY <3>1, PodCacheAssumption DEF StillKnown, Instance
    <3>4. node[v.pod] \in Nat
      BY <1>0, <3>3, PodCacheAssumption DEF TypeOK
    <3>5. node'[v.pod] \in Nat
      <4>1. TypeOK'
        BY ClusterTyped, CacheTyped, LoopTyped, StutterTyped DEF TypeInv, Next
      <4>2. node' \in [Pods -> 0..MaxRestarts]
        BY <4>1 DEF TypeOK
      <4> QED BY <3>3, <4>2, PodCacheAssumption
    <3>6. node[v.pod] <= v.restart + 1
      BY <3>2, <3>3, <3>4, <3>5
    <3> QED BY <3>2, <3>6 DEF KnownInv, KnownContainerResolves, PodLives
  <2> QED BY <1>1, <1>2, <2>1 DEF KnownInv
<1>3. CASE Kill
  BY <1>3, KillKnown DEF KnownInv, KnownContainerResolves
<1>4. CASE Reaped \/ PidReused
  <2>1. /\ event'.at = "queued" /\ event'.id = event.id /\ event.at = "queued"
        /\ event'.victim = event.victim /\ event'.known = event.known
    BY <1>0, <1>4 DEF Reaped, PidReused, Resolution
  <2> QED BY <1>1, <2>1 DEF KnownInv, KnownContainerResolves
<1>5. CASE ContainerIdRead
  <2>1. /\ event'.at = "lookup" /\ event.at = "queued"
        /\ event'.victim = event.victim /\ event'.known = event.known
    BY <1>0, <1>5 DEF ContainerIdRead, Resolution
  <2> QED BY <1>1, <2>1 DEF KnownInv, KnownContainerResolves
<1>6. CASE NoContainerId \/ CgroupUnreadable
  <2>1. PICK o \in {"NotFound", "Failed"} :
          event' = [event EXCEPT !.at = "resolved", !.outcome = o, !.identity = None]
    BY <1>6 DEF NoContainerId, CgroupUnreadable, Resolved
  <2>2. /\ event'.at = "resolved" /\ event.at = "queued" /\ event'.id = event.id
        /\ event'.victim = event.victim /\ event'.known = event.known
    BY <1>0, <1>6, <2>1 DEF NoContainerId, CgroupUnreadable, Resolution
  <2>3. event.known => event.id # event.victim
    BY <2>2, PodCacheAssumption DEF KnownInv, StillKnown
  <2> QED BY <1>1, <2>2, <2>3 DEF KnownInv, KnownContainerResolves
<1>7. CASE LookUpUnsynced
  <2>1. ~event.known
    BY <1>7 DEF LookUpUnsynced, KnownInv, StillKnown
  <2>2. event'.at = "resolved" /\ event'.known = event.known
    BY <1>0, <1>7 DEF LookUpUnsynced, Resolved, Resolution
  <2> QED BY <2>1, <2>2 DEF KnownInv, KnownContainerResolves
<1>8. CASE LookUp
  <2>1. PICK o \in {"Found", "NotFound"} : \E i :
          /\ event' = [event EXCEPT !.at = "resolved", !.outcome = o, !.identity = i]
          /\ IdentityFromPods # {} => o = "Found"
    <3>1. CASE IdentityFromPods = {}
      BY <1>8, <3>1 DEF LookUp, Resolved
    <3>2. CASE IdentityFromPods # {}
      BY <1>8, <3>2 DEF LookUp, Resolved
    <3> QED BY <3>1, <3>2
  <2>2. /\ event'.at = "resolved" /\ event.at = "lookup" /\ event'.id = event.id
        /\ event'.victim = event.victim /\ event'.known = event.known /\ event'.outcome = o
    BY <1>0, <1>8, <2>1 DEF LookUp, Resolution
  <2>3. UNCHANGED <<uid, node, api>>
    BY <1>8 DEF LookUp, apiVars
  <2>4. KnownContainerResolves'
    <3> DEFINE v == event.victim
    <3> SUFFICES ASSUME event.known, event.id = v, PodLives, node[v.pod] <= v.restart + 1
                 PROVE  o = "Found"
      BY <2>2, <2>3 DEF KnownContainerResolves, PodLives
    <3>1. IdentityFromPods # {}
      BY <2>2, LookupFinds DEF KnownInv
    <3> QED BY <2>1, <3>1
  <2> QED BY <1>1, <2>2, <2>4 DEF KnownInv
<1>9. CASE EventRecorded
  BY <1>9 DEF EventRecorded, NoEvent, KnownInv, KnownContainerResolves
<1>10. CASE Cluster \/ Cache \/ WatchFails \/ SyncWaitOver \/ UNCHANGED vars
  <2>1. event' = event
    BY <1>10 DEF Cluster, PodScheduled, ContainerStarts, KubeletReports, PodRemoved,
                 Cache, ListPods, InitApply, InitDone, WatchFails, WatchApply, WatchDelete,
                 SyncWaitOver, vars, loopVars
  <2> QED BY <1>2, <2>1
<1> QED
  BY <1>3, <1>4, <1>5, <1>6, <1>7, <1>8, <1>9, <1>10 DEF Next, Victim, Loop

(* The pass over lastState is enough: a container the store knew when it   *)
(* was killed, and which the kubelet has replaced at most once since,      *)
(* resolves while its pod is there, across any number of lists, watch      *)
(* events and failures between the kill and the lookup.                    *)
THEOREM KnownVictimResolves == Spec => []KnownContainerResolves
<1>1. Init => KnownInv
  BY DEF Init, NoEvent, KnownInv, KnownContainerResolves
<1>2. KnownInv => KnownContainerResolves
  BY DEF KnownInv
<1> QED BY <1>1, <1>2, KnownStep, Views, PTL DEF Spec

=============================================================================
