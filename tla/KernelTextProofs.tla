-------------------------- MODULE KernelTextProofs --------------------------
(***************************************************************************)
(* Theorems about KernelText, for any number of edits of the tracepoint    *)
(* and for cgroup files of any length.                                     *)
(***************************************************************************)
EXTENDS KernelText, WellFoundedInduction, SequenceTheorems, TLAPS

(* A set of numbers has a least one. *)
LEMMA MinOfNat ==
  ASSUME NEW S, S \subseteq Nat, S # {}
  PROVE  Min(S) \in S /\ \A x \in S : Min(S) <= x
<1> DEFINE R == OpToRel(<, Nat)
<1>1. IsWellFoundedOn(R, Nat)
  BY NatLessThanWellFounded
<1>2. \A x, y \in Nat : y < x => <<y, x>> \in R
  BY DEF OpToRel
<1> HIDE DEF R
<1>3. PICK x \in S : \A y \in S : ~(<<y, x>> \in R)
  BY <1>1, WFMin
<1>4. ASSUME NEW y \in S PROVE x <= y
  <2>1. x \in Nat /\ y \in Nat /\ ~(y < x)
    BY <1>2, <1>3, Zenon
  <2> QED BY <2>1
<1> QED BY <1>4 DEF Min

(* ... and a number that is least is the one. *)
LEMMA MinIs ==
  ASSUME NEW S, S \subseteq Nat, NEW x \in S, \A y \in S : x <= y
  PROVE  Min(S) = x
<1>1. Min(S) \in S /\ \A y \in S : Min(S) <= y
  BY MinOfNat
<1>2. Min(S) <= x /\ x <= Min(S) /\ Min(S) \in Nat /\ x \in Nat
  BY <1>1
<1> QED BY <1>2, SMT

(* Induction up to a number, over a set. *)
LEMMA UpTo ==
  ASSUME NEW n \in Nat, NEW S, 0 \in S, \A i \in 1..n : i - 1 \in S => i \in S
  PROVE  \A i \in 0..n : i \in S
<1> DEFINE bad == {i \in 0..n : i \notin S}
<1> SUFFICES ASSUME bad # {} PROVE FALSE
  OBVIOUS
<1>1. bad \subseteq Nat
  OBVIOUS
<1>2. PICK m \in bad : \A i \in bad : m <= i
  <2> HIDE DEF bad
  <2> QED BY <1>1, MinOfNat
<1>3. m \in 1..n /\ m - 1 \in 0..n /\ ~(m <= m - 1)
  BY <1>2
<1>4. m - 1 \in S
  BY <1>2, <1>3
<1> QED BY <1>2, <1>3, <1>4

(* The match a pattern is asked for. *)
LEMMA FirstMatch ==
  ASSUME NEW M, M # {}, \A m \in M : m.start \in Nat /\ m.at \in Nat
  PROVE  /\ First(M) \in M
         /\ \A n \in M : /\ First(M).start <= n.start
                         /\ n.start = First(M).start => First(M).at <= n.at
<1> DEFINE starts == {m.start : m \in M}
           start  == Min(starts)
           ats    == {m.at : m \in {m \in M : m.start = start}}
<1>1. start \in starts /\ \A x \in starts : start <= x
  <2>1. starts # {} /\ starts \subseteq Nat
    OBVIOUS
  <2> QED BY <2>1, MinOfNat
<1>2. ats # {} /\ ats \subseteq Nat
  BY <1>1
<1>3. PICK m \in M : m.start = start /\ m.at = Min(ats)
  BY <1>2, MinOfNat
<1>4. \A n \in M : n.start = start => m.at <= n.at
  <2>1. \A a \in ats : Min(ats) <= a
    BY <1>2, MinOfNat
  <2> HIDE DEF start
  <2> QED BY <1>3, <2>1, Zenon
<1> DEFINE P(f) == f.start = start /\ \A n \in M : n.start = start => f.at <= n.at
<1>5. First(M) = CHOOSE f \in M : P(f)
  BY DEF First
<1>6. P(m)
  BY <1>3, <1>4
<1>7. First(M) \in M /\ P(First(M))
  BY <1>5, <1>6
<1> QED BY <1>1, <1>7

-----------------------------------------------------------------------------
(* The cgroup file: where the patterns match. *)

Tokens == {"/", "-", ".", "newline", "runtime", "kubepods", "other", "long"} \cup Ids

CgroupInv == cgroup \in Seq(Tokens)

(* The match that starts at a token and captures another. *)
Hit(start, p) == [start |-> start, at |-> p, id |-> cgroup[p]]

(* The place is after the name of a runtime, *)
OfRuntime(p) == p > 2 /\ cgroup[p - 2] = "runtime"

(* or below the kubepods that the token starts. *)
Below(i, p) ==
  /\ i \in 1..Len(cgroup) /\ i + 3 <= p
  /\ cgroup[i] = "/" /\ cgroup[i + 1] = "kubepods" /\ cgroup[p - 1] = "/"
  /\ \A k \in (i + 2)..(p - 2) : cgroup[k] # "newline"

(* A capture is an id of the file. *)
LEMMA MatchIs ==
  ASSUME CgroupInv, NEW i, NEW p \in Nat, NEW m
  PROVE  m \in Match(i, p, cgroup) <=> p \in 1..Len(cgroup) /\ cgroup[p] \in Ids /\ m = Hit(i, p)
<1>1. CASE p \in 1..Len(cgroup) /\ cgroup[p] \in Ids
  <2>1. Captured(At(cgroup, p)) = {cgroup[p]}
    BY <1>1 DEF Captured, At
  <2> QED BY <1>1, <2>1 DEF Match, Hit
<1>2. CASE ~(p \in 1..Len(cgroup) /\ cgroup[p] \in Ids)
  <2>1. Captured(At(cgroup, p)) = {}
    BY <1>2, IdsAssumption DEF Captured, At, None
  <2> QED BY <1>2, <2>1 DEF Match
<1> QED BY <1>1, <1>2

(* The matches of the first pattern. *)
LEMMA RuntimeMatches ==
  ASSUME CgroupInv, NEW m
  PROVE  m \in RuntimePattern(cgroup) <=> \E p \in Places : OfRuntime(p) /\ m = Hit(p - 2, p)
<1>1. ASSUME m \in RuntimePattern(cgroup)
      PROVE  \E p \in Places : OfRuntime(p) /\ m = Hit(p - 2, p)
  <2>1. PICK i \in 1..Len(cgroup) : /\ cgroup[i] = "runtime" /\ At(cgroup, i + 1) \in Delimiters
                                    /\ m \in Match(i, i + 2, cgroup)
    BY <1>1 DEF RuntimePattern
  <2>2. i + 2 \in 1..Len(cgroup) /\ cgroup[i + 2] \in Ids /\ m = Hit(i, i + 2)
    BY <2>1, MatchIs
  <2>3. i + 2 \in Places
    BY <2>1, <2>2 DEF Places, At, Delimiters, CgroupInv
  <2> QED BY <2>1, <2>2, <2>3 DEF OfRuntime
<1>2. ASSUME NEW p \in Places, OfRuntime(p), m = Hit(p - 2, p)
      PROVE  m \in RuntimePattern(cgroup)
  <2> DEFINE i == p - 2
  <2>1. /\ i \in 1..Len(cgroup) /\ cgroup[i] = "runtime" /\ At(cgroup, i + 1) \in Delimiters
        /\ p \in 1..Len(cgroup) /\ cgroup[p] \in Ids /\ p = i + 2
    BY <1>2 DEF Places, OfRuntime, At, Delimiters, CgroupInv
  <2>2. m \in Match(i, i + 2, cgroup)
    BY <1>2, <2>1, MatchIs
  <2> HIDE DEF i
  <2> QED BY <2>1, <2>2 DEF RuntimePattern
<1> QED BY <1>1, <1>2

(* The matches of the second. *)
LEMMA KubepodsMatches ==
  ASSUME CgroupInv, NEW m
  PROVE  m \in KubepodsPattern(cgroup) <=> \E p \in Places, i \in Nat : Below(i, p) /\ m = Hit(i, p)
<1>1. ASSUME m \in KubepodsPattern(cgroup)
      PROVE  \E p \in Places, i \in Nat : Below(i, p) /\ m = Hit(i, p)
  <2>a. PICK i \in 1..Len(cgroup) :
          /\ cgroup[i] = "/" /\ At(cgroup, i + 1) = "kubepods"
          /\ \E j \in (i + 2)..Len(cgroup) :
               /\ cgroup[j] = "/" /\ \A k \in (i + 2)..(j - 1) : cgroup[k] # "newline"
               /\ m \in Match(i, j + 1, cgroup)
    BY <1>1 DEF KubepodsPattern
  <2>1. PICK j \in (i + 2)..Len(cgroup) :
          /\ cgroup[j] = "/" /\ \A k \in (i + 2)..(j - 1) : cgroup[k] # "newline"
          /\ m \in Match(i, j + 1, cgroup)
    BY <2>a
  <2>2. /\ j + 1 \in 1..Len(cgroup) /\ cgroup[j + 1] \in Ids /\ m = Hit(i, j + 1)
    BY <2>1, MatchIs DEF CgroupInv
  <2> DEFINE p == j + 1
  <2>3. p \in Places /\ i \in Nat
    BY <2>1, <2>2 DEF Places, CgroupInv
  <2>4. Below(i, p)
    BY <2>a, <2>1, <2>2 DEF Below, At, CgroupInv
  <2> QED BY <2>2, <2>3, <2>4
<1>2. ASSUME NEW p \in Places, NEW i \in Nat, Below(i, p), m = Hit(i, p)
      PROVE  m \in KubepodsPattern(cgroup)
  <2> DEFINE j == p - 1
  <2>1. /\ i \in 1..Len(cgroup) /\ cgroup[i] = "/" /\ At(cgroup, i + 1) = "kubepods"
        /\ j \in (i + 2)..Len(cgroup) /\ cgroup[j] = "/"
        /\ \A k \in (i + 2)..(j - 1) : cgroup[k] # "newline"
        /\ p \in 1..Len(cgroup) /\ cgroup[p] \in Ids /\ p = j + 1
    BY <1>2 DEF Places, Below, At, CgroupInv
  <2>2. m \in Match(i, j + 1, cgroup)
    BY <1>2, <2>1, MatchIs
  <2> HIDE DEF j
  <2> QED BY <2>1, <2>2 DEF KubepodsPattern
<1> QED BY <1>1, <1>2

(* The matches of the third. *)
LEMMA CatchAllMatches ==
  ASSUME CgroupInv, NEW m
  PROVE  m \in CatchAllPattern(cgroup) <=> \E p \in Places : m = Hit(p - 1, p)
<1>1. ASSUME m \in CatchAllPattern(cgroup)
      PROVE  \E p \in Places : m = Hit(p - 1, p)
  <2>1. PICK i \in 1..Len(cgroup) : cgroup[i] \in Delimiters /\ m \in Match(i, i + 1, cgroup)
    BY <1>1 DEF CatchAllPattern
  <2>2. i + 1 \in 1..Len(cgroup) /\ cgroup[i + 1] \in Ids /\ m = Hit(i, i + 1)
    BY <2>1, MatchIs
  <2>3. i + 1 \in Places
    BY <2>1, <2>2 DEF Places, Delimiters, CgroupInv
  <2> QED BY <2>2, <2>3
<1>2. ASSUME NEW p \in Places, m = Hit(p - 1, p)
      PROVE  m \in CatchAllPattern(cgroup)
  <2> DEFINE i == p - 1
  <2>1. /\ i \in 1..Len(cgroup) /\ cgroup[i] \in Delimiters
        /\ p \in 1..Len(cgroup) /\ cgroup[p] \in Ids /\ p = i + 1
    BY <1>2 DEF Places, Delimiters, CgroupInv
  <2>2. m \in Match(i, i + 1, cgroup)
    BY <1>2, <2>1, MatchIs
  <2> HIDE DEF i
  <2> QED BY <2>1, <2>2 DEF CatchAllPattern
<1> QED BY <1>1, <1>2

(* What a place says for its id. *)
LEMMA RankIs ==
  ASSUME CgroupInv, NEW p \in Places
  PROVE  Rank(p) = IF OfRuntime(p) THEN 1 ELSE IF \E i \in Nat : Below(i, p) THEN 2 ELSE 3
<1> DEFINE Under == /\ cgroup[p - 1] = "/"
                    /\ \E k \in 2..(p - 2) :
                         /\ cgroup[k] = "kubepods" /\ cgroup[k - 1] = "/"
                         /\ \A l \in k..p : cgroup[l] # "newline"
<1>1. Under => \E i \in Nat : Below(i, p)
  <2> SUFFICES ASSUME Under PROVE \E i \in Nat : Below(i, p)
    OBVIOUS
  <2>1. PICK k \in 2..(p - 2) : /\ cgroup[k] = "kubepods" /\ cgroup[k - 1] = "/"
                                /\ \A l \in k..p : cgroup[l] # "newline"
    OBVIOUS
  <2> DEFINE i == k - 1
  <2>2. i \in Nat /\ Below(i, p)
    BY <2>1 DEF Below, Places, CgroupInv
  <2> QED BY <2>2
<1>2. ASSUME NEW i \in Nat, Below(i, p) PROVE Under
  <2> DEFINE k == i + 1
  <2>1. k \in 2..(p - 2) /\ cgroup[k] = "kubepods" /\ cgroup[k - 1] = "/" /\ cgroup[p - 1] = "/"
    BY <1>2 DEF Below, Places, CgroupInv
  <2>2. ASSUME NEW l \in k..p PROVE cgroup[l] # "newline"
    <3>1. cgroup[p] \in Ids
      BY DEF Places
    <3>2. cgroup[p] # "newline"
      BY <3>1, IdsAssumption
    <3>3. l = k \/ l = p \/ l = p - 1 \/ l \in (i + 2)..(p - 2)
      BY DEF Places, CgroupInv
    <3> QED BY <1>2, <2>1, <3>2, <3>3 DEF Below
  <2> HIDE DEF k
  <2> QED BY <2>1, <2>2
<1>3. Rank(p) = IF OfRuntime(p) THEN 1 ELSE IF Under THEN 2 ELSE 3
  BY DEF Rank, OfRuntime
<1> HIDE DEF Under
<1> QED BY <1>1, <1>2, <1>3

(* The first match of the pattern that decides, when it is at a place that *)
(* no other best one comes before, is the id the file is documented to     *)
(* give.                                                                   *)
LEMMA BestPlace ==
  ASSUME CgroupInv, NEW q \in Places, ExtractContainerId(cgroup) = cgroup[q],
         \A p \in Places : Rank(q) <= Rank(p),
         \A p \in Places : Rank(p) = Rank(q) => q <= p
  PROVE  IdAsDocumented
<1> DEFINE best == {p \in Places : \A j \in Places : Rank(p) <= Rank(j)}
<1>1. q \in best /\ best \subseteq Nat
  BY DEF Places
<1>2. ASSUME NEW p \in best PROVE q <= p
  <2>1. \A j \in Places : Rank(j) \in 1..3
    BY DEF Rank
  <2>2. p \in Places /\ Rank(p) <= Rank(q) /\ Rank(q) <= Rank(p)
    OBVIOUS
  <2>3. Rank(p) = Rank(q)
    BY <2>1, <2>2
  <2> QED BY <2>2, <2>3
<1>3. Min(best) = q
  <2> HIDE DEF best
  <2> QED BY <1>1, <1>2, MinIs
<1> QED BY <1>3 DEF IdAsDocumented

(* Every cgroup file gives the id it is documented to give. *)
LEMMA IdOfFile == ASSUME CgroupInv PROVE IdAsDocumented
<1> DEFINE patterns == <<RuntimePattern(cgroup), KubepodsPattern(cgroup), CatchAllPattern(cgroup)>>
           matching == {k \in 1..3 : patterns[k] # {}}
<1>1. ExtractContainerId(cgroup) = IF matching = {} THEN None ELSE First(patterns[Min(matching)]).id
  BY DEF ExtractContainerId
<1>2. ASSUME NEW p \in Places
      PROVE  p \in Nat /\ p - 1 \in Nat /\ (OfRuntime(p) => p - 2 \in Nat)
  BY DEF Places, OfRuntime, CgroupInv
<1>3. CASE \E p \in Places : OfRuntime(p)
  <2> DEFINE M == RuntimePattern(cgroup)
  <2>1. M # {}
    BY <1>3, RuntimeMatches
  <2>2. Min(matching) = 1
    <3>1. 1 \in matching /\ matching \subseteq Nat /\ \A k \in matching : 1 <= k
      BY <2>1
    <3> HIDE DEF matching
    <3> QED BY <3>1, MinIs
  <2>3. ExtractContainerId(cgroup) = First(M).id
    BY <1>1, <2>1, <2>2
  <2>4. \A m \in M : m.start \in Nat /\ m.at \in Nat
    BY <1>2, RuntimeMatches DEF Hit
  <2>5. PICK q \in Places : OfRuntime(q) /\ First(M) = Hit(q - 2, q)
    BY <2>1, <2>4, FirstMatch, RuntimeMatches
  <2>6. ASSUME NEW p \in Places, OfRuntime(p) PROVE q <= p
    <3>1. Hit(p - 2, p) \in M
      BY <2>6, RuntimeMatches
    <3>2. First(M).start <= Hit(p - 2, p).start
      BY <2>1, <2>4, <3>1, FirstMatch
    <3>3. q - 2 <= p - 2
      BY <2>5, <3>2 DEF Hit
    <3> QED BY <1>2, <3>3
  <2>7. Rank(q) = 1 /\ \A p \in Places : Rank(p) \in 1..3 /\ (Rank(p) = 1 => OfRuntime(p))
    BY <2>5, RankIs
  <2>8. ExtractContainerId(cgroup) = cgroup[q]
    BY <2>3, <2>5 DEF Hit
  <2>9. \A p \in Places : Rank(q) <= Rank(p) /\ (Rank(p) = Rank(q) => q <= p)
    BY <2>6, <2>7
  <2> QED BY <2>8, <2>9, BestPlace
<1>4. CASE /\ ~\E p \in Places : OfRuntime(p)
           /\ \E p \in Places, i \in Nat : Below(i, p)
  <2> DEFINE M == KubepodsPattern(cgroup)
  <2>1. M # {}
    BY <1>4, KubepodsMatches
  <2>2. Min(matching) = 2
    <3>1. RuntimePattern(cgroup) = {}
      BY <1>4, RuntimeMatches
    <3>2. 2 \in matching /\ matching \subseteq Nat /\ \A k \in matching : 2 <= k
      BY <2>1, <3>1
    <3> HIDE DEF matching
    <3> QED BY <3>2, MinIs
  <2>3. ExtractContainerId(cgroup) = First(M).id
    BY <1>1, <2>1, <2>2
  <2>4. \A m \in M : m.start \in Nat /\ m.at \in Nat
    BY <1>2, KubepodsMatches DEF Hit
  <2>5. PICK q \in Places, s \in Nat : Below(s, q) /\ First(M) = Hit(s, q)
    BY <2>1, <2>4, FirstMatch, KubepodsMatches
  <2>6. ASSUME NEW p \in Places, NEW i \in Nat, Below(i, p) PROVE q <= p
    <3>1. Hit(i, p) \in M
      BY <2>6, KubepodsMatches
    <3>2. First(M).start <= Hit(i, p).start
      BY <2>1, <2>4, <3>1, FirstMatch
    <3>3. s <= i
      BY <2>5, <3>2 DEF Hit
    <3> SUFFICES ASSUME p < q PROVE FALSE
      BY <1>2
    <3>4. Below(s, p)
      BY <1>2, <2>5, <2>6, <3>3 DEF Below
    <3>5. Hit(s, p) \in M /\ Hit(s, p).start = First(M).start
      BY <2>5, <3>4, KubepodsMatches DEF Hit
    <3>6. First(M).at <= Hit(s, p).at
      BY <2>1, <2>4, <3>5, FirstMatch
    <3>7. q <= p
      BY <2>5, <3>6 DEF Hit
    <3> QED BY <1>2, <3>7
  <2>7. /\ Rank(q) = 2
        /\ \A p \in Places : Rank(p) \in 2..3 /\ (Rank(p) = 2 => \E i \in Nat : Below(i, p))
    BY <1>4, <2>5, RankIs
  <2>8. ExtractContainerId(cgroup) = cgroup[q]
    BY <2>3, <2>5 DEF Hit
  <2>9. \A p \in Places : Rank(q) <= Rank(p) /\ (Rank(p) = Rank(q) => q <= p)
    BY <2>6, <2>7
  <2> QED BY <2>8, <2>9, BestPlace
<1>5. CASE ~\E p \in Places : OfRuntime(p) \/ \E i \in Nat : Below(i, p)
  <2> DEFINE M == CatchAllPattern(cgroup)
  <2>a. RuntimePattern(cgroup) = {} /\ KubepodsPattern(cgroup) = {}
    BY <1>5, RuntimeMatches, KubepodsMatches
  <2>b. CASE Places = {}
    <3>1. M = {}
      BY <2>b, CatchAllMatches
    <3>2. matching = {}
      BY <2>a, <3>1
    <3> QED BY <1>1, <2>b, <3>2 DEF IdAsDocumented
  <2>c. CASE Places # {}
    <3>1. M # {}
      BY <2>c, CatchAllMatches
    <3>2. Min(matching) = 3
      <4>1. 3 \in matching /\ matching \subseteq Nat /\ \A k \in matching : 3 <= k
        BY <2>a, <3>1
      <4> HIDE DEF matching
      <4> QED BY <4>1, MinIs
    <3>3. ExtractContainerId(cgroup) = First(M).id
      BY <1>1, <3>1, <3>2
    <3>4. \A m \in M : m.start \in Nat /\ m.at \in Nat
      BY <1>2, CatchAllMatches DEF Hit
    <3>5. PICK q \in Places : First(M) = Hit(q - 1, q)
      BY <3>1, <3>4, FirstMatch, CatchAllMatches
    <3>6. ASSUME NEW p \in Places PROVE q <= p
      <4>1. Hit(p - 1, p) \in M
        BY CatchAllMatches
      <4>2. First(M).start <= Hit(p - 1, p).start
        BY <3>1, <3>4, <4>1, FirstMatch
      <4>3. q - 1 <= p - 1
        BY <3>5, <4>2 DEF Hit
      <4> QED BY <1>2, <4>3
    <3>7. \A p \in Places : Rank(p) = 3
      BY <1>5, RankIs
    <3>8. ExtractContainerId(cgroup) = cgroup[q]
      BY <3>3, <3>5 DEF Hit
    <3>9. \A p \in Places : Rank(q) <= Rank(p) /\ (Rank(p) = Rank(q) => q <= p)
      BY <3>6, <3>7
    <3> QED BY <3>8, <3>9, BestPlace
  <2> QED BY <2>b, <2>c
<1> QED BY <1>3, <1>4, <1>5

(* The file is a sequence of tokens. *)
LEMMA CgroupTyped == Spec => []CgroupInv
<1>1. Init => CgroupInv
  BY DEF Init, CgroupInv
<1>2. CgroupInv /\ [Next]_vars => CgroupInv'
  <2> SUFFICES ASSUME CgroupInv, [Next]_vars PROVE CgroupInv'
    OBVIOUS
  <2>1. CASE AppendSegment
    <3>1. PICK s \in Segments : cgroup' = cgroup \o s
      BY <2>1 DEF AppendSegment
    <3> DEFINE a == s[1]
               b == s[2]
    <3>2. a \in Tokens /\ b \in Tokens /\ s = <<a, b>>
      BY <3>1 DEF Segments, Tokens
    <3> HIDE DEF a, b
    <3>3. <<a, b>> \in Seq(Tokens)
      BY <3>2
    <3> QED BY <3>1, <3>2, <3>3 DEF CgroupInv
  <2>2. CASE cgroup' = cgroup
    BY <2>2 DEF CgroupInv
  <2> QED
    BY <2>1, <2>2
       DEF Next, RemoveField, AddField, RetypeField, RedeclareField, MoveField, Edit, vars
<1> QED BY <1>1, <1>2, PTL DEF Spec

(* The right id: however long the cgroup file and whatever its path is     *)
(* made of, the three patterns in turn lift out a whole id, the first of   *)
(* the most telling place, and find one whenever there is any              *)
(* (kubernetes.rs:32 and 51).                                              *)
THEOREM IdExtraction == Spec => []IdAsDocumented
<1>1. CgroupInv => IdAsDocumented
  BY IdOfFile
<1> QED BY <1>1, CgroupTyped, PTL

-----------------------------------------------------------------------------
(* The trace entry: where its members are. *)

Names ==
  {"common_type", "common_flags", "common_preempt_count", "common_pid", "pid", "comm",
   "total_vm", "anon_rss", "file_rss", "shmem_rss", "uid", "pgtables", "oom_score_adj", "extra"}

Members ==
  [name: Names, size: Nat \ {0}, align: Nat \ {0},
   form: {"plain", "data_loc", "array", "pointer"}]

(* Alignment keeps an offset a number. *)
LEMMA AlignUpNat ==
  ASSUME NEW n \in Nat, NEW a \in Nat \ {0}
  PROVE  AlignUp(n, a) \in Nat
<1> DEFINE q == (n + a - 1) \div a
<1>1. q \in Nat
  BY SMT
<1> HIDE DEF q
<1>2. q * a \in Nat
  BY <1>1
<1> QED BY <1>2 DEF AlignUp, q

(* Where the member at an index is, after the one before it. *)
NextOffset(struct, i, before) ==
  AlignUp(IF i = 1 THEN 0 ELSE before + struct[i - 1].size, struct[i].align)

(* The members up to one have places in a row. *)
LaidOut(struct, n) ==
  \E f \in [1..n -> Nat] : \A i \in 1..n : f[i] = NextOffset(struct, i, f[i - 1])

(* A place is a number when the place before is. *)
LEMMA NextOffsetNat ==
  ASSUME NEW struct \in Seq(Members), NEW i \in 1..Len(struct), NEW b, i # 1 => b \in Nat
  PROVE  NextOffset(struct, i, b) \in Nat
<1>1. struct[i].align \in Nat \ {0} /\ (i # 1 => struct[i - 1].size \in Nat)
  <2>1. struct[i] \in Members /\ (i # 1 => struct[i - 1] \in Members)
    OBVIOUS
  <2> QED BY <2>1 DEF Members
<1> DEFINE e == IF i = 1 THEN 0 ELSE b + struct[i - 1].size
<1>2. e \in Nat
  BY <1>1
<1>3. NextOffset(struct, i, b) = AlignUp(e, struct[i].align)
  BY DEF NextOffset
<1> HIDE DEF e
<1> QED BY <1>1, <1>2, <1>3, AlignUpNat

(* Every struct has a layout. *)
LEMMA LayoutExists ==
  ASSUME NEW struct \in Seq(Members)
  PROVE  LaidOut(struct, Len(struct))
<1> DEFINE S == {n \in 0..Len(struct) : LaidOut(struct, n)}
<1>1. 0 \in S
  <2> DEFINE f == [i \in 1..0 |-> 0]
  <2>1. f \in [1..0 -> Nat] /\ \A i \in 1..0 : f[i] = NextOffset(struct, i, f[i - 1])
    OBVIOUS
  <2> HIDE DEF f
  <2>2. LaidOut(struct, 0)
    BY <2>1 DEF LaidOut
  <2> QED BY <2>2
<1>2. ASSUME NEW n \in 1..Len(struct), n - 1 \in S PROVE n \in S
  <2>1. PICK f \in [1..(n - 1) -> Nat] :
          \A i \in 1..(n - 1) : f[i] = NextOffset(struct, i, f[i - 1])
    BY <1>2 DEF LaidOut
  <2> DEFINE o == NextOffset(struct, n, f[n - 1])
             g == [i \in 1..n |-> IF i < n THEN f[i] ELSE o]
  <2>2. o \in Nat
    BY <2>1, NextOffsetNat
  <2>3. g \in [1..n -> Nat]
    <3> HIDE DEF o
    <3> QED BY <2>1, <2>2
  <2>4. ASSUME NEW i \in 1..n PROVE g[i] = NextOffset(struct, i, g[i - 1])
    <3>1. i # 1 => g[i - 1] = f[i - 1]
      OBVIOUS
    <3>2. NextOffset(struct, i, g[i - 1]) = NextOffset(struct, i, f[i - 1])
      <4> HIDE DEF g
      <4> QED BY <3>1 DEF NextOffset
    <3>3. CASE i = n
      BY <3>2, <3>3
    <3>4. CASE i # n
      <4>1. g[i] = f[i] /\ i \in 1..(n - 1)
        BY <3>4
      <4> QED BY <2>1, <3>2, <4>1
    <3> QED BY <3>3, <3>4
  <2> HIDE DEF g
  <2> QED BY <2>3, <2>4 DEF LaidOut
<1> HIDE DEF S
<1>3. \A n \in 0..Len(struct) : n \in S
  <2>1. Len(struct) \in Nat
    OBVIOUS
  <2> QED BY <1>1, <1>2, <2>1, UpTo
<1> QED BY <1>3 DEF S

(* The layout that is computed is it. *)
LEMMA OffsetsAre ==
  ASSUME NEW struct \in Seq(Members)
  PROVE  /\ Offsets(struct) \in [1..Len(struct) -> Nat]
         /\ \A i \in 1..Len(struct) :
              Offsets(struct)[i] = NextOffset(struct, i, Offsets(struct)[i - 1])
<1> DEFINE Def(f) == [i \in 1..Len(struct) |-> NextOffset(struct, i, f[i - 1])]
           o      == Offsets(struct)
<1>1. o = CHOOSE f : f = Def(f)
  BY DEF Offsets, NextOffset
<1>2. PICK f \in [1..Len(struct) -> Nat] :
        \A i \in 1..Len(struct) : f[i] = NextOffset(struct, i, f[i - 1])
  BY LayoutExists DEF LaidOut
<1>3. f = Def(f)
  BY <1>2
<1>4. o = Def(o)
  BY <1>1, <1>3
<1> HIDE DEF o
<1>5. \A i \in 1..Len(struct) : o[i] = NextOffset(struct, i, o[i - 1])
  BY <1>1, <1>2, <1>4
<1>6. DOMAIN o = 1..Len(struct) /\ o = [i \in 1..Len(struct) |-> o[i]]
  BY <1>4
<1> DEFINE S == {n \in 0..Len(struct) : n # 0 => o[n] \in Nat}
<1>7. 0 \in S
  OBVIOUS
<1>8. ASSUME NEW n \in 1..Len(struct), n - 1 \in S PROVE n \in S
  BY <1>5, <1>8, NextOffsetNat
<1> HIDE DEF S
<1>9. \A n \in 0..Len(struct) : n \in S
  <2>1. Len(struct) \in Nat
    OBVIOUS
  <2> QED BY <1>7, <1>8, <2>1, UpTo
<1>10. \A n \in 1..Len(struct) : o[n] \in Nat
  BY <1>9 DEF S
<1> QED BY <1>5, <1>6, <1>10 DEF o

(* A member of any size is one. *)
LEMMA MemberTyped ==
  ASSUME NEW name \in Names, NEW size \in Nat \ {0}
  PROVE  Member(name, size) \in Members
BY DEF Member, Members

(* The struct the probe decodes the entry with, member by member. *)
LEMMA MarkVictimArgsAre ==
  /\ MarkVictimArgs \in Seq(Members) /\ Len(Common) = 4 /\ Len(MarkVictimArgs) = 13
  /\ MarkVictimArgs[1] = Member("common_type", 2)
  /\ MarkVictimArgs[2] = Member("common_flags", 1)
  /\ MarkVictimArgs[3] = Member("common_preempt_count", 1)
  /\ MarkVictimArgs[4] = Member("common_pid", 4)
  /\ MarkVictimArgs[5] = Member("pid", 4)
  /\ MarkVictimArgs[6] = Member("comm", 4)
  /\ MarkVictimArgs[7] = Member("total_vm", 8)
  /\ MarkVictimArgs[8] = Member("anon_rss", 8)
  /\ MarkVictimArgs[9] = Member("file_rss", 8)
  /\ MarkVictimArgs[10] = Member("shmem_rss", 8)
  /\ MarkVictimArgs[11] = Member("uid", 4)
  /\ MarkVictimArgs[12] = Member("pgtables", 8)
  /\ MarkVictimArgs[13] = Member("oom_score_adj", 2)
<1>1. \A name \in Names : \A size \in {1, 2, 4, 8} : Member(name, size) \in Members
  BY MemberTyped
<1>2. /\ "common_type" \in Names /\ "common_flags" \in Names /\ "common_preempt_count" \in Names
      /\ "common_pid" \in Names /\ "pid" \in Names /\ "comm" \in Names /\ "total_vm" \in Names
      /\ "anon_rss" \in Names /\ "file_rss" \in Names /\ "shmem_rss" \in Names /\ "uid" \in Names
      /\ "pgtables" \in Names /\ "oom_score_adj" \in Names
  BY DEF Names
<1> DEFINE payload ==
      <<Member("pid", 4), Member("comm", 4), Member("total_vm", 8), Member("anon_rss", 8),
        Member("file_rss", 8), Member("shmem_rss", 8), Member("uid", 4),
        Member("pgtables", 8), Member("oom_score_adj", 2)>>
<1>3. Common \in Seq(Members) /\ Len(Common) = 4
  BY <1>1, <1>2 DEF Common
<1>4. payload \in Seq(Members) /\ Len(payload) = 9
  BY <1>1, <1>2
<1>5. /\ payload[1] = Member("pid", 4) /\ payload[2] = Member("comm", 4)
      /\ payload[3] = Member("total_vm", 8) /\ payload[4] = Member("anon_rss", 8)
      /\ payload[5] = Member("file_rss", 8) /\ payload[6] = Member("shmem_rss", 8)
      /\ payload[7] = Member("uid", 4) /\ payload[8] = Member("pgtables", 8)
      /\ payload[9] = Member("oom_score_adj", 2)
  OBVIOUS
<1>6. /\ Common[1] = Member("common_type", 2) /\ Common[2] = Member("common_flags", 1)
      /\ Common[3] = Member("common_preempt_count", 1) /\ Common[4] = Member("common_pid", 4)
  BY DEF Common
<1>7. MarkVictimArgs = Common \o payload
  BY DEF MarkVictimArgs
<1> HIDE DEF payload
<1>8. MarkVictimArgs \in Seq(Members) /\ Len(MarkVictimArgs) = 13
  <2>1. /\ Common \o payload \in Seq(Members)
        /\ Len(Common \o payload) = Len(Common) + Len(payload)
    BY <1>3, <1>4, ConcatProperties, Zenon
  <2> QED BY <1>3, <1>4, <1>7, <2>1
<1>9. \A i \in 1..13 : MarkVictimArgs[i] = IF i <= 4 THEN Common[i] ELSE payload[i - 4]
  <2>1. \A i \in 1..(Len(Common) + Len(payload)) :
          (Common \o payload)[i] = IF i <= Len(Common) THEN Common[i] ELSE payload[i - Len(Common)]
    BY <1>3, <1>4, ConcatProperties, Zenon
  <2>2. \A i \in 1..(Len(Common) + Len(payload)) :
          MarkVictimArgs[i] = IF i <= Len(Common) THEN Common[i] ELSE payload[i - Len(Common)]
    BY <1>7, <2>1, Zenon
  <2> QED BY <1>3, <1>4, <2>2
<1> QED BY <1>3, <1>5, <1>6, <1>8, <1>9

(* Where the compiler puts them, and what is required of the kernel: the   *)
(* two agree.                                                              *)
LEMMA RequiredAsDecoded ==
  /\ Len(RequiredFields) = 9 /\ Decoded = 5..13
  /\ \A k \in Decoded :
       RequiredFields[k - 4] =
         Field(MarkVictimArgs[k].name, Offsets(MarkVictimArgs)[k], MarkVictimArgs[k].size)
<1> DEFINE o == Offsets(MarkVictimArgs)
<1>1. /\ MarkVictimArgs[1].size = 2 /\ MarkVictimArgs[1].align = 2
      /\ MarkVictimArgs[2].size = 1 /\ MarkVictimArgs[2].align = 1
      /\ MarkVictimArgs[3].size = 1 /\ MarkVictimArgs[3].align = 1
      /\ \A k \in {4, 5, 6, 11} : MarkVictimArgs[k].size = 4 /\ MarkVictimArgs[k].align = 4
      /\ \A k \in {7, 8, 9, 10, 12} : MarkVictimArgs[k].size = 8 /\ MarkVictimArgs[k].align = 8
      /\ MarkVictimArgs[13].size = 2 /\ MarkVictimArgs[13].align = 2
  BY MarkVictimArgsAre DEF Member
<1>2. \A i \in 1..13 : o[i] = NextOffset(MarkVictimArgs, i, o[i - 1])
  BY MarkVictimArgsAre, OffsetsAre
<1> HIDE DEF o
<1> USE DEF NextOffset, AlignUp
<1>3. o[1] = 0
  BY <1>1, <1>2
<1>4. o[2] = 2
  BY <1>1, <1>2, <1>3
<1>5. o[3] = 3
  BY <1>1, <1>2, <1>4
<1>6. o[4] = 4
  BY <1>1, <1>2, <1>5
<1>7. o[5] = 8
  BY <1>1, <1>2, <1>6
<1>8. o[6] = 12
  BY <1>1, <1>2, <1>7
<1>9. o[7] = 16
  BY <1>1, <1>2, <1>8
<1>10. o[8] = 24
  BY <1>1, <1>2, <1>9
<1>11. o[9] = 32
  BY <1>1, <1>2, <1>10
<1>12. o[10] = 40
  BY <1>1, <1>2, <1>11
<1>13. o[11] = 48
  BY <1>1, <1>2, <1>12
<1>14. o[12] = 56
  BY <1>1, <1>2, <1>13
<1>15. o[13] = 64
  BY <1>1, <1>2, <1>14
<1>16. Decoded = 5..13
  BY MarkVictimArgsAre DEF Decoded
<1>17. Len(RequiredFields) = 9
  BY DEF RequiredFields
<1>18. ASSUME NEW k \in 5..13
       PROVE  RequiredFields[k - 4] = Field(MarkVictimArgs[k].name, o[k], MarkVictimArgs[k].size)
  <2> HIDE DEF NextOffset, AlignUp
  <2> USE MarkVictimArgsAre DEF RequiredFields, Member
  <2>1. CASE k = 5
    BY <1>7, <2>1
  <2>2. CASE k = 6
    BY <1>8, <2>2
  <2>3. CASE k = 7
    BY <1>9, <2>3
  <2>4. CASE k = 8
    BY <1>10, <2>4
  <2>5. CASE k = 9
    BY <1>11, <2>5
  <2>6. CASE k = 10
    BY <1>12, <2>6
  <2>7. CASE k = 11
    BY <1>13, <2>7
  <2>8. CASE k = 12
    BY <1>14, <2>8
  <2>9. CASE k = 13
    BY <1>15, <2>9
  <2> QED BY <2>1, <2>2, <2>3, <2>4, <2>5, <2>6, <2>7, <2>8, <2>9
<1> QED BY <1>16, <1>17, <1>18 DEF o

-----------------------------------------------------------------------------
(* The format file of an entry, and what parse_format makes of it. *)

(* The entry's members have names of their own. *)
EntryInv ==
  /\ entry \in Seq(Members)
  /\ \A i, j \in 1..Len(entry) : entry[i].name = entry[j].name => i = j

(* The line of a member. *)
FieldLine(i) ==
  [prefix |-> "field:",
   decl   |-> Declaration(entry[i]),
   attrs  |-> <<[key |-> "offset", value |-> Offsets(entry)[i]],
                [key |-> "size", value |-> entry[i].size],
                [key |-> "signed", value |-> 0]>>]

(* A sequence between two lines. *)
LEMMA Between ==
  ASSUME NEW S, NEW a \in S, NEW f \in Seq(S), NEW h, h = <<a>> \o f \o <<a>>
  PROVE  /\ Len(h) = Len(f) + 2 /\ h[1] = a /\ h[Len(f) + 2] = a
         /\ \A i \in 1..Len(f) : h[i + 1] = f[i]
<1> DEFINE b == <<a>>
           g == b \o f
<1>1. b \in Seq(S) /\ Len(b) = 1 /\ b[1] = a /\ Len(f) \in Nat
  OBVIOUS
<1> HIDE DEF b
<1>2. /\ g \in Seq(S) /\ Len(g) = Len(b) + Len(f)
      /\ \A i \in 1..(Len(b) + Len(f)) : g[i] = IF i <= Len(b) THEN b[i] ELSE f[i - Len(b)]
  BY <1>1, ConcatProperties, Zenon
<1>3. g \in Seq(S) /\ b \in Seq(S) /\ h = g \o b
  BY <1>1, <1>2 DEF b
<1> HIDE DEF g
<1>4. /\ Len(h) = Len(g) + Len(b)
      /\ \A i \in 1..(Len(g) + Len(b)) : h[i] = IF i <= Len(g) THEN g[i] ELSE b[i - Len(g)]
  <2>1. /\ Len(g \o b) = Len(g) + Len(b)
        /\ \A i \in 1..(Len(g) + Len(b)) :
             (g \o b)[i] = IF i <= Len(g) THEN g[i] ELSE b[i - Len(g)]
    <3>1. g \in Seq(S) /\ b \in Seq(S)
      BY <1>3
    <3> QED BY <3>1, ConcatProperties, Zenon
  <2> QED BY <1>3, <2>1, Zenon
<1> QED BY <1>1, <1>2, <1>4

(* The lines of the file. *)
LEMMA FormatLines ==
  ASSUME EntryInv
  PROVE  /\ Len(FormatFile) = Len(entry) + 2
         /\ FormatFile[1] = OtherLine /\ FormatFile[Len(entry) + 2] = OtherLine
         /\ \A i \in 1..Len(entry) : FormatFile[i + 1] = FieldLine(i)
<1> DEFINE f == [i \in 1..Len(entry) |-> FieldLine(i)]
           S == {OtherLine} \cup {FieldLine(i) : i \in 1..Len(entry)}
<1>1. Len(entry) \in Nat
  BY DEF EntryInv
<1>2. f \in Seq(S) /\ OtherLine \in S
  BY <1>1
<1>3. Len(f) = Len(entry) /\ \A i \in 1..Len(entry) : f[i] = FieldLine(i)
  BY <1>1
<1>4. FormatFile = <<OtherLine>> \o f \o <<OtherLine>>
  BY DEF FormatFile, FieldLine
<1> HIDE DEF f, S
<1>5. /\ Len(FormatFile) = Len(f) + 2
      /\ FormatFile[1] = OtherLine /\ FormatFile[Len(f) + 2] = OtherLine
      /\ \A i \in 1..Len(f) : FormatFile[i + 1] = f[i]
  BY <1>2, <1>4, Between
<1> QED BY <1>3, <1>5

(* The two attributes are found whatever else the line has. *)
LEMMA AttrsFound ==
  ASSUME NEW x, NEW y
  PROVE  LET attrs == <<[key |-> "offset", value |-> x], [key |-> "size", value |-> y],
                        [key |-> "signed", value |-> 0]>>
         IN  Attr(attrs, "offset") = x /\ Attr(attrs, "size") = y
<1> DEFINE attrs == <<[key |-> "offset", value |-> x], [key |-> "size", value |-> y],
                      [key |-> "signed", value |-> 0]>>
           parts(key) == {i \in 1..Len(attrs) : attrs[i].key = key}
<1>1. /\ Len(attrs) = 3 /\ attrs[1].value = x /\ attrs[2].value = y
      /\ attrs[1].key = "offset" /\ attrs[2].key = "size" /\ attrs[3].key = "signed"
  OBVIOUS
<1>2. parts("offset") = {1} /\ parts("size") = {2}
  <2> HIDE DEF attrs
  <2> QED BY <1>1
<1>3. Min({1}) = 1 /\ Min({2}) = 2
  <2>1. \A n \in Nat : Min({n}) = n
    BY MinIs
  <2> QED BY <2>1
<1>4. \A key : Attr(attrs, key) = IF parts(key) = {} THEN NoAttr ELSE attrs[Min(parts(key))].value
  BY DEF Attr
<1> HIDE DEF attrs, parts
<1>5. Attr(attrs, "offset") = x /\ Attr(attrs, "size") = y
  BY <1>1, <1>2, <1>3, <1>4
<1> QED BY <1>5 DEF attrs

(* The name is found in every form of declaration. *)
LEMMA NameFound ==
  ASSUME NEW member \in Members
  PROVE  Declaration(member) # <<>> /\ FieldName(Declaration(member)) = member.name
<1> USE DEF Declaration, FieldName, Token, Members
<1>1. CASE member.form = "plain"
  BY <1>1
<1>2. CASE member.form = "data_loc"
  BY <1>2
<1>3. CASE member.form = "array"
  BY <1>3
<1>4. CASE member.form = "pointer"
  BY <1>4
<1> QED BY <1>1, <1>2, <1>3, <1>4

(* parse_format gives every member with its name, its place and its size, *)
(* and nothing else.                                                      *)
LEMMA FieldsFound ==
  ASSUME EntryInv
  PROVE  /\ DOMAIN ParseFormat(FormatFile) = {i + 1 : i \in 1..Len(entry)}
         /\ \A i \in 1..Len(entry) :
              ParseFormat(FormatFile)[i + 1] = Field(entry[i].name, Offsets(entry)[i], entry[i].size)
<1> DEFINE text == FormatFile
<1>1. /\ Len(text) = Len(entry) + 2 /\ text[1] = OtherLine /\ text[Len(entry) + 2] = OtherLine
      /\ \A i \in 1..Len(entry) : text[i + 1] = FieldLine(i)
  BY FormatLines
<1>2. Len(entry) \in Nat
  BY DEF EntryInv
<1>3. ASSUME NEW i \in 1..Len(entry)
      PROVE  /\ FieldName(FieldLine(i).decl) = entry[i].name
             /\ Attr(FieldLine(i).attrs, "offset") = Offsets(entry)[i]
             /\ Attr(FieldLine(i).attrs, "size") = entry[i].size
             /\ Parses(FieldLine(i))
  <2>1. entry[i] \in Members /\ Offsets(entry)[i] \in Nat /\ entry[i].size \in Nat
    <3>1. entry[i] \in Members /\ Offsets(entry)[i] \in Nat
      BY OffsetsAre DEF EntryInv
    <3> QED BY <3>1 DEF Members
  <2> DEFINE l == FieldLine(i)
  <2>2. /\ l.prefix = "field:" /\ l.decl = Declaration(entry[i])
        /\ l.attrs = <<[key |-> "offset", value |-> Offsets(entry)[i]],
                       [key |-> "size", value |-> entry[i].size],
                       [key |-> "signed", value |-> 0]>>
    BY DEF FieldLine
  <2> HIDE DEF l
  <2>3. Attr(l.attrs, "offset") = Offsets(entry)[i] /\ Attr(l.attrs, "size") = entry[i].size
    BY <2>2, AttrsFound
  <2>4. l.decl # <<>> /\ FieldName(l.decl) = entry[i].name
    BY <2>1, <2>2, NameFound
  <2>5. Parses(l)
    BY <2>1, <2>2, <2>3, <2>4 DEF Parses, NoAttr
  <2> QED BY <2>3, <2>4, <2>5 DEF l
<1>4. ~Parses(OtherLine)
  BY DEF Parses, OtherLine
<1> DEFINE lines == {i \in 1..Len(text) : Parses(text[i])}
<1>5. lines = {i + 1 : i \in 1..Len(entry)}
  <2>1. ASSUME NEW j \in lines PROVE j \in {i + 1 : i \in 1..Len(entry)}
    <3>1. j # 1 /\ j # Len(entry) + 2 /\ j \in 1..(Len(entry) + 2)
      BY <1>1, <1>4
    <3>2. j - 1 \in 1..Len(entry) /\ j = (j - 1) + 1
      BY <1>2, <3>1
    <3> QED BY <3>2
  <2>2. ASSUME NEW i \in 1..Len(entry) PROVE i + 1 \in lines
    <3>1. i + 1 \in 1..Len(text)
      BY <1>1, <1>2
    <3>2. Parses(text[i + 1])
      BY <1>1, <1>3
    <3> QED BY <3>1, <3>2
  <2> QED BY <2>1, <2>2
<1>6. ParseFormat(text) =
        [i \in lines |-> Field(FieldName(text[i].decl), Attr(text[i].attrs, "offset"),
                              Attr(text[i].attrs, "size"))]
  BY DEF ParseFormat
<1> HIDE DEF text, lines
<1>7. DOMAIN ParseFormat(text) = {i + 1 : i \in 1..Len(entry)}
  BY <1>5, <1>6
<1>8. ASSUME NEW i \in 1..Len(entry)
      PROVE  ParseFormat(text)[i + 1] = Field(entry[i].name, Offsets(entry)[i], entry[i].size)
  <2>1. i + 1 \in lines /\ text[i + 1] = FieldLine(i)
    BY <1>1, <1>5
  <2> QED BY <1>3, <1>6, <2>1
<1> QED BY <1>7, <1>8 DEF text

(* check_layout finds fault with a field exactly when it is not in place. *)
LEMMA JudgeIs ==
  ASSUME EntryInv, NEW k \in Decoded
  PROVE  LET found == ParseFormat(FormatFile)
             want  == RequiredFields[k - 4]
         IN  IF Placed(k) THEN Judge(found, want) = {}
             ELSE \E m : Judge(found, want) = {m} /\ m.name = MarkVictimArgs[k].name
<1> DEFINE found == ParseFormat(FormatFile)
           want  == RequiredFields[k - 4]
           named == {j \in DOMAIN found : found[j].name = want.name}
<1>1. /\ want.name = MarkVictimArgs[k].name /\ want.size = MarkVictimArgs[k].size
      /\ want.offset = Offsets(MarkVictimArgs)[k]
  <2>1. want = Field(MarkVictimArgs[k].name, Offsets(MarkVictimArgs)[k], MarkVictimArgs[k].size)
    BY RequiredAsDecoded
  <2> HIDE DEF want
  <2> QED BY <2>1 DEF Field
<1> HIDE DEF want
<1>2. /\ DOMAIN found = {i + 1 : i \in 1..Len(entry)}
      /\ \A i \in 1..Len(entry) : /\ found[i + 1].name = entry[i].name
                                   /\ found[i + 1].offset = Offsets(entry)[i]
                                   /\ found[i + 1].size = entry[i].size
  <2>1. /\ DOMAIN found = {i + 1 : i \in 1..Len(entry)}
        /\ \A i \in 1..Len(entry) :
             found[i + 1] = Field(entry[i].name, Offsets(entry)[i], entry[i].size)
    BY FieldsFound, Zenon
  <2> HIDE DEF found
  <2>2. ASSUME NEW i \in 1..Len(entry)
        PROVE  /\ found[i + 1].name = entry[i].name /\ found[i + 1].offset = Offsets(entry)[i]
               /\ found[i + 1].size = entry[i].size
    <3>1. found[i + 1] = Field(entry[i].name, Offsets(entry)[i], entry[i].size)
      BY <2>1, Zenon
    <3> QED BY <3>1 DEF Field
  <2> QED BY <2>1, <2>2, Zenon
<1> HIDE DEF found
<1>3. CASE \E i \in 1..Len(entry) : entry[i].name = want.name
  <2>1. PICK i \in 1..Len(entry) : entry[i].name = want.name
    BY <1>3
  <2>2. named = {i + 1}
    <3>1. i + 1 \in named
      BY <1>2, <2>1
    <3>2. ASSUME NEW j \in named PROVE j = i + 1
      <4>1. PICK l \in 1..Len(entry) : j = l + 1
        BY <1>2
      <4>2. entry[l].name = entry[i].name
        BY <1>2, <2>1, <4>1
      <4> QED BY <4>1, <4>2 DEF EntryInv
    <3> QED BY <3>1, <3>2
  <2>3. Min(named) = i + 1
    <3>1. i + 1 \in Nat
      BY DEF EntryInv
    <3>2. named \subseteq Nat /\ i + 1 \in named /\ \A y \in named : i + 1 <= y
      BY <2>2, <3>1
    <3> HIDE DEF named
    <3> QED BY <3>1, <3>2, MinIs
  <2>4. Placed(k) <=> Offsets(entry)[i] = want.offset /\ entry[i].size = want.size
    <3>1. \A l \in 1..Len(entry) : entry[l].name = want.name => l = i
      BY <2>1 DEF EntryInv
    <3> QED BY <1>1, <2>1, <3>1 DEF Placed
  <2>5. Judge(found, want) = IF found[i + 1].offset # want.offset \/ found[i + 1].size # want.size
                             THEN {Moved(want)} ELSE {}
    BY <2>2, <2>3 DEF Judge
  <2>6. Judge(found, want) = IF Placed(k) THEN {} ELSE {Moved(want)}
    BY <1>2, <2>1, <2>4, <2>5
  <2>7. Moved(want).name = MarkVictimArgs[k].name
    BY <1>1 DEF Moved
  <2> QED BY <2>6, <2>7 DEF found, want
<1>4. CASE ~\E i \in 1..Len(entry) : entry[i].name = want.name
  <2>1. named = {}
    BY <1>2, <1>4
  <2>2. ~Placed(k)
    BY <1>1, <1>4 DEF Placed
  <2>3. Judge(found, want) = {Missing(want)}
    BY <2>1 DEF Judge
  <2>4. Missing(want).name = MarkVictimArgs[k].name
    BY <1>1 DEF Missing
  <2> QED BY <2>2, <2>3, <2>4 DEF found, want
<1> QED BY <1>3, <1>4

(* The verdict on any entry whose members have names of their own. *)
LEMMA VerdictOnEntry ==
  ASSUME EntryInv, mounts \in [1..2 -> BOOLEAN]
  PROVE  LayoutVerdictExact
<1> DEFINE text  == FormatFile
           found == ParseFormat(text)
           bad   == {MarkVictimArgs[k].name : k \in {k \in Decoded : ~Placed(k)}}
<1>1. CheckLayout(text) = UNION {Judge(found, RequiredFields[i]) : i \in 1..9}
  BY RequiredAsDecoded DEF CheckLayout
<1>2. \A k \in Decoded :
        IF Placed(k) THEN Judge(found, RequiredFields[k - 4]) = {}
        ELSE \E m : Judge(found, RequiredFields[k - 4]) = {m} /\ m.name = MarkVictimArgs[k].name
  BY JudgeIs
<1> HIDE DEF found
<1>3. ASSUME NEW m \in CheckLayout(text) PROVE m.name \in bad
  <2>1. PICK i \in 1..9 : m \in Judge(found, RequiredFields[i])
    BY <1>1
  <2> DEFINE k == i + 4
  <2>2. k \in Decoded /\ k - 4 = i
    BY RequiredAsDecoded
  <2> HIDE DEF k
  <2>3. ~Placed(k) /\ m.name = MarkVictimArgs[k].name
    BY <1>2, <2>1, <2>2
  <2> QED BY <2>2, <2>3
<1>4. ASSUME NEW k \in Decoded, ~Placed(k)
      PROVE  \E m \in CheckLayout(text) : m.name = MarkVictimArgs[k].name
  <2>1. PICK m : Judge(found, RequiredFields[k - 4]) = {m} /\ m.name = MarkVictimArgs[k].name
    BY <1>2, <1>4
  <2>2. k - 4 \in 1..9
    BY RequiredAsDecoded
  <2>3. m \in CheckLayout(text)
    BY <1>1, <2>1, <2>2
  <2> QED BY <2>1, <2>3
<1>5. {m.name : m \in CheckLayout(text)} = bad
  BY <1>3, <1>4
<1>6. CheckLayout(text) = {} <=> bad = {}
  BY <1>5
<1>7. VerifyKernelLayout(mounts, text) = "ok" <=> bad = {} /\ (mounts[1] \/ mounts[2])
  <2> HIDE DEF text, bad
  <2>1. (\A path \in DOMAIN mounts : ~mounts[path]) <=> ~(mounts[1] \/ mounts[2])
    OBVIOUS
  <2> QED BY <1>6, <2>1 DEF VerifyKernelLayout
<1> QED BY <1>5, <1>7 DEF LayoutVerdictExact

-----------------------------------------------------------------------------
(* The edits of the tracepoint leave the members names of their own. *)

(* A sequence without one of its members. *)
LEMMA Without ==
  ASSUME NEW S, NEW s \in Seq(S), NEW i \in 1..Len(s)
  PROVE  LET t == SubSeq(s, 1, i - 1) \o SubSeq(s, i + 1, Len(s))
         IN  /\ t \in Seq(S) /\ Len(t) = Len(s) - 1
             /\ \A k \in 1..Len(t) : t[k] = IF k < i THEN s[k] ELSE s[k + 1]
<1> DEFINE a == SubSeq(s, 1, i - 1)
           b == SubSeq(s, i + 1, Len(s))
           t == a \o b
<1>1. Len(s) \in Nat
  OBVIOUS
<1>2. a \in Seq(S) /\ Len(a) = i - 1 /\ \A k \in 1..(i - 1) : a[k] = s[k]
  OBVIOUS
<1>3. b \in Seq(S) /\ Len(b) = Len(s) - i /\ \A k \in 1..(Len(s) - i) : b[k] = s[k + i]
  OBVIOUS
<1> HIDE DEF a, b
<1>4. /\ t \in Seq(S) /\ Len(t) = Len(a) + Len(b)
      /\ \A k \in 1..(Len(a) + Len(b)) : t[k] = IF k <= Len(a) THEN a[k] ELSE b[k - Len(a)]
  <2>1. a \in Seq(S) /\ b \in Seq(S)
    BY <1>2, <1>3
  <2> QED BY <2>1, ConcatProperties, Zenon
<1> HIDE DEF t
<1>5. Len(t) = Len(s) - 1
  BY <1>1, <1>2, <1>3, <1>4
<1>6. ASSUME NEW k \in 1..Len(t) PROVE t[k] = IF k < i THEN s[k] ELSE s[k + 1]
  <2>1. CASE k < i
    BY <1>1, <1>2, <1>3, <1>4, <2>1
  <2>2. CASE k >= i
    <3>1. t[k] = b[k - Len(a)]
      BY <1>1, <1>2, <1>3, <1>4, <1>5, <2>2
    <3> DEFINE j == k - Len(a)
    <3>2. j \in 1..(Len(s) - i) /\ j + i = k + 1 /\ t[k] = b[j]
      BY <1>1, <1>2, <1>5, <2>2, <3>1
    <3> HIDE DEF j
    <3>3. b[j] = s[j + i]
      BY <1>3, <3>2
    <3> QED BY <2>2, <3>2, <3>3
  <2> QED BY <1>1, <2>1, <2>2
<1> QED BY <1>4, <1>5, <1>6 DEF t, a, b

(* The sequence s with b put behind its first i members, as AddField does. *)
Inserted(s, i, b) == SubSeq(s, 1, i) \o b \o SubSeq(s, i + 1, Len(s))

(* A sequence with one more: the members before it stay, the rest move up. *)
LEMMA With ==
  ASSUME NEW S, NEW s \in Seq(S), NEW i \in 0..Len(s), NEW b \in Seq(S), Len(b) = 1
  PROVE  /\ Inserted(s, i, b) \in Seq(S)
         /\ Len(Inserted(s, i, b)) = Len(s) + 1
         /\ Inserted(s, i, b)[i + 1] = b[1]
         /\ \A k \in 1..(Len(s) + 1) : /\ k <= i => Inserted(s, i, b)[k] = s[k]
                                       /\ k > i + 1 => Inserted(s, i, b)[k] = s[k - 1]
<1> DEFINE a == SubSeq(s, 1, i)
           c == SubSeq(s, i + 1, Len(s))
           d == a \o b
           t == d \o c
<1>a. Inserted(s, i, b) = t
  BY DEF Inserted
<1>1. Len(s) \in Nat
  OBVIOUS
<1>2. a \in Seq(S) /\ Len(a) = i /\ \A k \in 1..i : a[k] = s[k]
  OBVIOUS
<1>3. b \in Seq(S) /\ Len(b) = 1
  OBVIOUS
<1>4. c \in Seq(S) /\ Len(c) = Len(s) - i /\ \A k \in 1..(Len(s) - i) : c[k] = s[k + i]
  OBVIOUS
<1> HIDE DEF a, c
<1>5. /\ d \in Seq(S) /\ Len(d) = Len(a) + Len(b)
      /\ \A k \in 1..(Len(a) + Len(b)) : d[k] = IF k <= Len(a) THEN a[k] ELSE b[k - Len(a)]
  <2>1. a \in Seq(S) /\ b \in Seq(S)
    BY <1>2, <1>3
  <2> QED BY <2>1, ConcatProperties, Zenon
<1> HIDE DEF d
<1>6. /\ t \in Seq(S) /\ Len(t) = Len(d) + Len(c)
      /\ \A k \in 1..(Len(d) + Len(c)) : t[k] = IF k <= Len(d) THEN d[k] ELSE c[k - Len(d)]
  <2>1. d \in Seq(S) /\ c \in Seq(S)
    BY <1>4, <1>5
  <2> QED BY <2>1, ConcatProperties, Zenon
<1> HIDE DEF t
<1>7. Len(d) = i + 1 /\ Len(t) = Len(s) + 1
  BY <1>1, <1>2, <1>3, <1>4, <1>5, <1>6
<1>8. t[i + 1] = b[1]
  <2>1. t[i + 1] = d[i + 1]
    <3>1. i + 1 \in 1..(Len(d) + Len(c)) /\ i + 1 <= Len(d)
      BY <1>1, <1>4, <1>7
    <3> QED BY <1>6, <3>1, Zenon
  <2>2. d[i + 1] = b[(i + 1) - Len(a)] /\ (i + 1) - Len(a) = 1
    BY <1>1, <1>2, <1>3, <1>5
  <2> QED BY <1>3, <2>1, <2>2
<1>9. ASSUME NEW k \in 1..Len(t), k <= i PROVE t[k] = s[k]
  BY <1>1, <1>2, <1>3, <1>4, <1>5, <1>6, <1>7, <1>9
<1>10. ASSUME NEW k \in 1..Len(t), k > i + 1 PROVE t[k] = s[k - 1]
  <2>1. t[k] = c[k - (i + 1)]
    BY <1>1, <1>4, <1>6, <1>7, <1>10
  <2>2. k - (i + 1) \in 1..(Len(s) - i) /\ (k - (i + 1)) + i = k - 1
    BY <1>1, <1>7, <1>10
  <2> QED BY <1>4, <2>1, <2>2
<1> QED BY <1>a, <1>6, <1>7, <1>8, <1>9, <1>10

(* The same names, in the same places. *)
LEMMA EntryRenewed ==
  ASSUME EntryInv, entry' \in Seq(Members), Len(entry') = Len(entry),
         \A k \in 1..Len(entry) : entry'[k].name = entry[k].name
  PROVE  EntryInv'
BY DEF EntryInv

(* A sequence with another member in the place of one. *)
LEMMA Replaced ==
  ASSUME NEW S, NEW s \in Seq(S), NEW i \in 1..Len(s), NEW m \in S,
         NEW t, t = [s EXCEPT ![i] = m]
  PROVE  t \in Seq(S) /\ Len(t) = Len(s)
BY ExceptSeq

(* Either tracepoint is one to begin with. *)
LEMMA EntryInit == Init => EntryInv
<1> SUFFICES ASSUME Init PROVE EntryInv
  OBVIOUS
<1>1. \A i, j \in 1..13 : MarkVictimArgs[i].name = MarkVictimArgs[j].name => i = j
  <2>1. /\ MarkVictimArgs[1].name = "common_type" /\ MarkVictimArgs[2].name = "common_flags"
        /\ MarkVictimArgs[3].name = "common_preempt_count"
        /\ MarkVictimArgs[4].name = "common_pid" /\ MarkVictimArgs[5].name = "pid"
        /\ MarkVictimArgs[6].name = "comm" /\ MarkVictimArgs[7].name = "total_vm"
        /\ MarkVictimArgs[8].name = "anon_rss" /\ MarkVictimArgs[9].name = "file_rss"
        /\ MarkVictimArgs[10].name = "shmem_rss" /\ MarkVictimArgs[11].name = "uid"
        /\ MarkVictimArgs[12].name = "pgtables" /\ MarkVictimArgs[13].name = "oom_score_adj"
    BY MarkVictimArgsAre DEF Member
  <2> QED BY <2>1
<1>2. CASE entry = Entry69
  <2> DEFINE comm == [MarkVictimArgs[6] EXCEPT !.form = "data_loc"]
  <2>1. entry = [MarkVictimArgs EXCEPT ![6] = comm]
    <3>1. Len(Common) + 2 = 6
      BY MarkVictimArgsAre
    <3> QED BY <1>2, <3>1 DEF Entry69
  <2>2. MarkVictimArgs \in Seq(Members) /\ Len(MarkVictimArgs) = 13
    BY MarkVictimArgsAre
  <2>a. comm \in Members /\ comm.name = MarkVictimArgs[6].name
    <3>1. MarkVictimArgs[6] \in Members
      BY <2>2
    <3> QED BY <3>1 DEF Members
  <2> HIDE DEF comm
  <2>3. entry \in Seq(Members) /\ Len(entry) = 13
    <3>1. 6 \in 1..Len(MarkVictimArgs)
      BY <2>2
    <3>a. MarkVictimArgs \in Seq(Members) /\ comm \in Members
      BY <2>2, <2>a
    <3>2. entry \in Seq(Members) /\ Len(entry) = Len(MarkVictimArgs)
      BY <2>1, <3>a, <3>1, Replaced
    <3> QED BY <2>2, <3>2
  <2>4. \A i \in 1..13 : entry[i].name = MarkVictimArgs[i].name
    BY <2>1, <2>2, <2>a
  <2> QED BY <1>1, <2>3, <2>4 DEF EntryInv
<1>3. CASE entry = EntryOld
  <2> DEFINE p == <<Member("pid", 4)>>
  <2>1. Member("pid", 4) \in Members /\ Member("pid", 4).name = "pid"
    BY DEF Member, Members, Names
  <2>2. p \in Seq(Members) /\ Len(p) = 1 /\ p[1].name = "pid"
    BY <2>1
  <2>3. entry = Common \o p
    BY <1>3 DEF EntryOld
  <2> HIDE DEF p
  <2> DEFINE c == Common
  <2>4. c \in Seq(Members) /\ Len(c) = 4
    <3>1. \A name \in Names : \A size \in {1, 2, 4} : Member(name, size) \in Members
      BY MemberTyped
    <3>2. /\ "common_type" \in Names /\ "common_flags" \in Names
          /\ "common_preempt_count" \in Names /\ "common_pid" \in Names
      BY DEF Names
    <3> QED BY <3>1, <3>2 DEF Common
  <2>5. /\ c[1].name = "common_type" /\ c[2].name = "common_flags"
        /\ c[3].name = "common_preempt_count" /\ c[4].name = "common_pid"
    BY DEF Common, Member
  <2> HIDE DEF c
  <2>6. /\ c \o p \in Seq(Members) /\ Len(c \o p) = Len(c) + Len(p)
        /\ \A k \in 1..(Len(c) + Len(p)) :
             (c \o p)[k] = IF k <= Len(c) THEN c[k] ELSE p[k - Len(c)]
    <3>1. c \in Seq(Members) /\ p \in Seq(Members)
      BY <2>2, <2>4
    <3> QED BY <3>1, ConcatProperties, Zenon
  <2>7. /\ entry \in Seq(Members) /\ Len(entry) = Len(c) + Len(p)
        /\ \A k \in 1..(Len(c) + Len(p)) :
             entry[k] = IF k <= Len(c) THEN c[k] ELSE p[k - Len(c)]
    <3>1. entry = c \o p
      BY <2>3 DEF c
    <3> QED BY <2>6, <3>1, Zenon
  <2>8. Len(entry) = 5 /\ \A k \in 1..4 : entry[k].name = c[k].name
    BY <2>2, <2>4, <2>7
  <2>9. entry[5].name = "pid"
    BY <2>2, <2>4, <2>7
  <2>10. \A i, j \in 1..5 : entry[i].name = entry[j].name => i = j
    <3>1. /\ entry[1].name = "common_type" /\ entry[2].name = "common_flags"
          /\ entry[3].name = "common_preempt_count" /\ entry[4].name = "common_pid"
      BY <2>5, <2>8
    <3> QED BY <2>9, <3>1
  <2> QED BY <2>7, <2>8, <2>10 DEF EntryInv
<1> QED BY <1>2, <1>3 DEF Init

(* A member put in the place of one of its name. *)
LEMMA EntryReplaced ==
  ASSUME EntryInv, NEW i \in 1..Len(entry), NEW m \in Members, m.name = entry[i].name,
         entry' = [entry EXCEPT ![i] = m]
  PROVE  EntryInv'
<1>1. entry \in Seq(Members)
  BY DEF EntryInv
<1>2. entry' \in Seq(Members) /\ Len(entry') = Len(entry)
  BY <1>1, ExceptSeq
<1>3. \A k \in 1..Len(entry) : entry'[k].name = entry[k].name
  BY <1>1
<1> QED BY <1>2, <1>3, EntryRenewed

(* Every step leaves the members names of their own. *)
LEMMA EntryStep == EntryInv /\ [Next]_vars => EntryInv'
<1> SUFFICES ASSUME EntryInv, [Next]_vars PROVE EntryInv'
  OBVIOUS
<1>a. entry \in Seq(Members) /\ Len(entry) \in Nat /\ \A i \in 1..Len(entry) : entry[i] \in Members
  BY DEF EntryInv
<1>1. CASE RemoveField
  <2>1. PICK i \in 1..Len(entry) :
          entry' = SubSeq(entry, 1, i - 1) \o SubSeq(entry, i + 1, Len(entry))
    BY <1>1 DEF RemoveField, Edit
  <2> DEFINE t == SubSeq(entry, 1, i - 1) \o SubSeq(entry, i + 1, Len(entry))
  <2>2. /\ t \in Seq(Members) /\ Len(t) = Len(entry) - 1
        /\ \A k \in 1..Len(t) : t[k] = IF k < i THEN entry[k] ELSE entry[k + 1]
    BY <1>a, Without, Zenon
  <2>3. entry' = t
    BY <2>1
  <2> HIDE DEF t
  <2>4. ASSUME NEW k \in 1..Len(t), NEW l \in 1..Len(t), t[k].name = t[l].name
        PROVE  k = l
    BY <1>a, <2>2, <2>4 DEF EntryInv
  <2> QED BY <2>2, <2>3, <2>4, Zenon DEF EntryInv
<1>2. CASE AddField
  <2>1. PICK i \in 0..Len(entry), size \in Sizes :
          /\ \A k \in 1..Len(entry) : entry[k].name # "extra"
          /\ entry' = SubSeq(entry, 1, i) \o <<Member("extra", size)>>
                        \o SubSeq(entry, i + 1, Len(entry))
    BY <1>2 DEF AddField, Edit
  <2>b. PICK b : b = <<Member("extra", size)>>
    OBVIOUS
  <2>t. PICK t : t = Inserted(entry, i, b)
    OBVIOUS
  <2>2. b \in Seq(Members) /\ Len(b) = 1 /\ b[1].name = "extra"
    <3>1. Member("extra", size) \in Members /\ Member("extra", size).name = "extra"
      BY KernelTextAssumption DEF Member, Members, Names
    <3> QED BY <2>b, <3>1
  <2>3. entry' = t
    BY <2>1, <2>b, <2>t DEF Inserted
  <2>4. /\ t \in Seq(Members) /\ Len(t) = Len(entry) + 1 /\ t[i + 1] = b[1]
        /\ \A k \in 1..(Len(entry) + 1) : /\ k <= i => t[k] = entry[k]
                                          /\ k > i + 1 => t[k] = entry[k - 1]
    <3>1. entry \in Seq(Members) /\ b \in Seq(Members) /\ Len(b) = 1 /\ i \in 0..Len(entry)
      BY <1>a, <2>2
    <3> QED BY <3>1, <2>t, With
  <2>5. ASSUME NEW k \in 1..Len(t), NEW l \in 1..Len(t), t[k].name = t[l].name
        PROVE  k = l
    <3>1. \A j \in 1..Len(t) : \/ j <= i /\ j \in 1..Len(entry) /\ t[j] = entry[j]
                               \/ j = i + 1 /\ t[j].name = "extra"
                               \/ j > i + 1 /\ j - 1 \in 1..Len(entry) /\ t[j] = entry[j - 1]
      BY <1>a, <2>2, <2>4
    <3>2. \A j \in 1..Len(entry) : entry[j].name # "extra"
      BY <2>1
    <3> DEFINE old(j) == IF j <= i THEN j ELSE j - 1
    <3>3. \A j \in 1..Len(t) : j # i + 1 => old(j) \in 1..Len(entry) /\ t[j] = entry[old(j)]
      BY <1>a, <3>1
    <3>4. t[i + 1].name = "extra"
      BY <2>2, <2>4
    <3>5. CASE k # i + 1 /\ l # i + 1
      <4>1. old(k) = old(l)
        BY <2>5, <3>3, <3>5, Zenon DEF EntryInv
      <4> QED BY <1>a, <3>5, <4>1
    <3>6. CASE k = i + 1 \/ l = i + 1
      BY <2>5, <3>2, <3>3, <3>4, <3>6, Zenon
    <3> QED BY <3>5, <3>6
  <2> QED BY <2>3, <2>4, <2>5, Zenon DEF EntryInv
<1>3. CASE RetypeField
  <2>1. PICK i \in 1..Len(entry), size \in Sizes :
          entry' = [entry EXCEPT ![i] = Member(entry[i].name, size)]
    BY <1>3 DEF RetypeField, Edit
  <2>2. /\ Member(entry[i].name, size) \in Members
        /\ Member(entry[i].name, size).name = entry[i].name
    BY <1>a, KernelTextAssumption DEF Member, Members
  <2> QED BY <2>1, <2>2, EntryReplaced
<1>4. CASE RedeclareField
  <2>1. PICK i \in 1..Len(entry), form \in {"array", "pointer"}, size \in {8, 16}, align \in {1, 8} :
          entry' = [entry EXCEPT ![i] = [name |-> entry[i].name, size |-> size, align |-> align,
                                        form |-> form]]
    BY <1>4 DEF RedeclareField, Edit
  <2> DEFINE m == [name |-> entry[i].name, size |-> size, align |-> align, form |-> form]
  <2>2. m \in Members /\ m.name = entry[i].name
    <3>1. entry[i].name \in Names
      BY <1>a DEF Members
    <3> QED BY <3>1 DEF Members
  <2>3. entry' = [entry EXCEPT ![i] = m]
    BY <2>1
  <2> HIDE DEF m
  <2> QED BY <2>2, <2>3, EntryReplaced
<1>5. CASE MoveField
  <2>1. PICK i \in 1..(Len(entry) - 1) :
          entry' = [entry EXCEPT ![i] = entry[i + 1], ![i + 1] = entry[i]]
    BY <1>5 DEF MoveField, Edit
  <2>2. /\ entry' \in Seq(Members) /\ Len(entry') = Len(entry)
        /\ \A k \in 1..Len(entry) :
             entry'[k] = IF k = i THEN entry[i + 1] ELSE IF k = i + 1 THEN entry[i] ELSE entry[k]
    BY <1>a, <2>1
  <2>3. ASSUME NEW k \in 1..Len(entry), NEW l \in 1..Len(entry), entry'[k].name = entry'[l].name
        PROVE  k = l
    BY <1>a, <2>2, <2>3 DEF EntryInv
  <2> QED BY <2>2, <2>3 DEF EntryInv
<1>6. CASE AppendSegment \/ UNCHANGED vars
  BY <1>6 DEF AppendSegment, vars, EntryInv
<1> QED BY <1>1, <1>2, <1>3, <1>4, <1>5, <1>6 DEF Next

(* The verdict is exact: after any number of edits of either tracepoint,   *)
(* whatever sizes its fields are given, the start-up check attaches the    *)
(* probe exactly when every field it decodes is at the offset and of the   *)
(* width MarkVictimArgs has it, and names the ones that are not            *)
(* (tracepoint.rs:13, 127 and 166).                                        *)
THEOREM VerdictExact == Spec => []LayoutVerdictExact
<1> DEFINE Inv == EntryInv /\ mounts \in [1..2 -> BOOLEAN]
<1>1. Init => Inv
  BY EntryInit DEF Init
<1>2. Inv /\ [Next]_vars => Inv'
  <2>1. [Next]_vars => mounts' = mounts
    BY DEF Next, RemoveField, AddField, RetypeField, RedeclareField, MoveField, Edit,
           AppendSegment, vars
  <2> QED BY <2>1, EntryStep
<1>3. Inv => LayoutVerdictExact
  BY VerdictOnEntry
<1> QED BY <1>1, <1>2, <1>3, PTL DEF Spec

=============================================================================
