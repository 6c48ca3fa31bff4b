----------------------------- MODULE KernelText -----------------------------
(***************************************************************************)
(* The two texts the process takes from the kernel: the tracepoint's       *)
(* format file, once, and the cgroup file of every victim.  The kernel is  *)
(* the actor here: its developers edit the tracepoint, its cgroup drivers  *)
(* put paths together.  Whatever they come up with, the process is to      *)
(* read it rightly or to say that it cannot.                               *)
(***************************************************************************)
EXTENDS TracepointLayout, ContainerId

CONSTANTS
  MaxEdits,      \* bound: edits of a tracepoint
  MaxSegments,   \* bound: delimited segments of a cgroup file
  Sizes          \* the sizes of the types a field may be given

ASSUME KernelTextAssumption ==
  MaxEdits \in Nat /\ MaxSegments \in Nat /\ Sizes \subseteq Nat \ {0}

VARIABLES
  entry,    \* the members of the trace entry, in order
  mounts,   \* which of FORMAT_PATHS can be read
  edits,    \* counts towards MaxEdits
  cgroup,   \* the tokens of the victim's cgroup file
  segments  \* counts towards MaxSegments

vars == <<entry, mounts, edits, cgroup, segments>>

(* The tracepoint since Linux 6.9, and before. *)
Entry69  == [MarkVictimArgs EXCEPT ![Len(Common) + 2].form = "data_loc"]
EntryOld == Common \o <<Member("pid", 4)>>

Init ==
  /\ entry \in {Entry69, EntryOld}
  /\ mounts \in [1..2 -> BOOLEAN]
  /\ cgroup = <<>> /\ edits = 0 /\ segments = 0

-----------------------------------------------------------------------------
(* The kernel's developers.  Texts are looked at one at a time. *)

Edit(new) ==
  /\ segments = 0 /\ edits < MaxEdits
  /\ edits' = edits + 1
  /\ entry' = new
  /\ UNCHANGED <<mounts, cgroup, segments>>

RemoveField ==
  \E i \in 1..Len(entry) :
    Edit(SubSeq(entry, 1, i - 1) \o SubSeq(entry, i + 1, Len(entry)))

AddField ==
  \E i \in 0..Len(entry), size \in Sizes :
    /\ \A k \in 1..Len(entry) : entry[k].name # "extra"
    /\ Edit(SubSeq(entry, 1, i) \o <<Member("extra", size)>> \o SubSeq(entry, i + 1, Len(entry)))

RetypeField ==
  \E i \in 1..Len(entry) : \E size \in Sizes \ {entry[i].size} :
    Edit([entry EXCEPT ![i] = Member(entry[i].name, size)])

(* char comm[16] in the place of a __data_loc, or a pointer. *)
RedeclareField ==
  \E i \in 1..Len(entry) :
    \/ Edit([entry EXCEPT ![i] = [name |-> @.name, size |-> 16, align |-> 1, form |-> "array"]])
    \/ Edit([entry EXCEPT ![i] = [name |-> @.name, size |-> 8, align |-> 8, form |-> "pointer"]])

MoveField ==
  \E i \in 1..(Len(entry) - 1) :
    Edit([entry EXCEPT ![i] = entry[i + 1], ![i + 1] = entry[i]])

(* The declaration, as the format file prints it. *)
Declaration(member) ==
  LET name == Token(member.name) IN
  CASE member.form = "plain"    -> <<Token("type"), name>>
    [] member.form = "data_loc" -> <<Token("__data_loc"), [Token("char") EXCEPT !.array = TRUE], name>>
    [] member.form = "array"    -> <<Token("char"), [name EXCEPT !.array = TRUE]>>
    [] member.form = "pointer"  -> <<Token("type"), [name EXCEPT !.stars = 1]>>

OtherLine == [prefix |-> "other", decl |-> <<>>, attrs |-> <<>>]

FormatFile ==
  LET offset == Offsets(entry) IN
  <<OtherLine>> \o
  [i \in 1..Len(entry) |->
     [prefix |-> "field:",
      decl   |-> Declaration(entry[i]),
      attrs  |-> <<[key |-> "offset", value |-> offset[i]],
                   [key |-> "size", value |-> entry[i].size],
                   [key |-> "signed", value |-> 0]>>]]
  \o <<OtherLine>>

-----------------------------------------------------------------------------
(* The cgroup drivers and the container runtimes. *)

Segments ==
  {"/", "-", ".", "newline"} \X ({"runtime", "kubepods", "other", "long"} \cup Ids)

AppendSegment ==
  /\ edits = 0 /\ entry = Entry69 /\ mounts = [path \in 1..2 |-> TRUE]
  /\ segments < MaxSegments
  /\ segments' = segments + 1
  /\ \E s \in Segments : cgroup' = cgroup \o s
  /\ UNCHANGED <<entry, mounts, edits>>

Next ==
  \/ RemoveField \/ AddField \/ RetypeField \/ RedeclareField \/ MoveField
  \/ AppendSegment

Spec == Init /\ [][Next]_vars

-----------------------------------------------------------------------------
(* Properties. *)

(* The member is in the entry at the offset and of the width the probe's   *)
(* struct has it.  A field redeclared as something else of the same size   *)
(* and place is not told apart, here or in check_layout.                   *)
Placed(k) ==
  \E i \in 1..Len(entry) :
    /\ entry[i].name = MarkVictimArgs[k].name
    /\ entry[i].size = MarkVictimArgs[k].size
    /\ Offsets(entry)[i] = Offsets(MarkVictimArgs)[k]

Decoded == (Len(Common) + 1)..Len(MarkVictimArgs)

(* The probe is attached exactly when every field it decodes is at the     *)
(* offset and of the width its struct has it, and otherwise exactly the    *)
(* fields that are not are named: neither a moved field nor a new one      *)
(* elsewhere in the entry, nor a declaration in another form, makes the    *)
(* check wrong (tracepoint.rs:13 and 166).                                 *)
LayoutVerdictExact ==
  LET text == FormatFile
      bad  == {MarkVictimArgs[k].name : k \in {k \in Decoded : ~Placed(k)}}
  IN  /\ {m.name : m \in CheckLayout(text)} = bad
      /\ VerifyKernelLayout(mounts, text) = "ok" <=> bad = {} /\ (mounts[1] \/ mounts[2])

(* The ids of the file that stand between delimiters, and how much each    *)
(* place says for it: after a runtime's name, below kubepods on its line,  *)
(* anything else.                                                          *)
Places == {i \in 2..Len(cgroup) : cgroup[i] \in Ids /\ cgroup[i - 1] \in {"/", "-"}}

Rank(i) ==
  IF i > 2 /\ cgroup[i - 2] = "runtime" THEN 1
  ELSE IF /\ cgroup[i - 1] = "/"
          /\ \E k \in 2..(i - 2) :
               /\ cgroup[k] = "kubepods" /\ cgroup[k - 1] = "/"
               /\ \A l \in k..i : cgroup[l] # "newline"
  THEN 2
  ELSE 3

(* The id that is lifted out of a cgroup file is a whole one, never part   *)
(* of a longer run; there is one whenever any stands between delimiters;   *)
(* and of several it is the first of the most telling place, whatever else *)
(* the path is made of (kubernetes.rs:32).                                 *)
IdAsDocumented ==
  LET best == {i \in Places : \A j \in Places : Rank(i) <= Rank(j)}
  IN  ExtractContainerId(cgroup) = IF Places = {} THEN None ELSE cgroup[Min(best)]

=============================================================================
