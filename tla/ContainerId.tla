---------------------------- MODULE ContainerId ----------------------------
(***************************************************************************)
(* extract_container_id: lifting the container id out of the contents of   *)
(* /proc/<pid>/cgroup.  The contents are a sequence of tokens: the         *)
(* delimiters and the newline one each, the names the patterns know, runs  *)
(* of exactly 64 hex digits (the members of Ids), longer runs, and the     *)
(* rest.                                                                   *)
(***************************************************************************)
EXTENDS Integers, Sequences, FiniteSetsExt

CONSTANT Ids

ASSUME IdsAssumption ==
  Ids \cap {"/", "-", ".", "newline", "runtime", "kubepods", "long", "other", "none"} = {}

None == "none"

Delimiters == {"/", "-"}

At(text, i) == IF i \in 1..Len(text) THEN text[i] ELSE None

(* Mutant of Captured: without the boundary after the capture, the first   *)
(* 64 digits of a longer run are taken.                                    *)
CapturedUnbounded(token) == IF token \in Ids \cup {"long"} THEN {token} ELSE {}

(* What the group ([0-9a-f]{64})(?:[^0-9a-f]|$) captures at a token. *)
Captured(token) == IF token \in Ids THEN {token} ELSE {}

(* A pattern's matches: where one starts, where its capture is, the        *)
(* capture.                                                                *)
Match(start, at, text) == {[start |-> start, at |-> at, id |-> id] : id \in Captured(At(text, at))}

(* (?:cri-containerd|crio|docker|libpod)[-/](...) *)
RuntimePattern(text) ==
  UNION {Match(i, i + 2, text) :
           i \in {i \in 1..Len(text) : text[i] = "runtime" /\ At(text, i + 1) \in Delimiters}}

(* /kubepods.*?/(...), where . is not a newline. *)
KubepodsPattern(text) ==
  LET starts   == {i \in 1..Len(text) : text[i] = "/" /\ At(text, i + 1) = "kubepods"}
      slash(i) == {j \in (i + 2)..Len(text) :
                     text[j] = "/" /\ \A k \in (i + 2)..(j - 1) : text[k] # "newline"}
  IN  UNION {UNION {Match(i, j + 1, text) : j \in slash(i)} : i \in starts}

(* [-/](...) *)
CatchAllPattern(text) ==
  UNION {Match(i, i + 1, text) : i \in {i \in 1..Len(text) : text[i] \in Delimiters}}

(* The leftmost match, and of those from there the one the lazy .*? finds. *)
First(matches) ==
  LET start == Min({m.start : m \in matches})
  IN  CHOOSE m \in matches :
        m.start = start /\ \A n \in matches : n.start = start => m.at <= n.at

(* The first pattern that matches. *)
ExtractContainerId(text) ==
  LET patterns == <<RuntimePattern(text), KubepodsPattern(text), CatchAllPattern(text)>>
      matching == {k \in 1..Len(patterns) : patterns[k] # {}}
  IN  IF matching = {} THEN None ELSE First(patterns[Min(matching)]).id

=============================================================================
