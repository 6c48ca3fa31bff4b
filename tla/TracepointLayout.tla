-------------------------- MODULE TracepointLayout --------------------------
(***************************************************************************)
(* The start-up check of the oom:mark_victim trace entry: what             *)
(* tracepoint.rs makes of the kernel's format file, and the struct the     *)
(* eBPF probe decodes the entry with.                                      *)
(*                                                                         *)
(* A format file is a sequence of lines.  A field line has a declaration,  *)
(* a sequence of tokens, and a sequence of attributes after it.            *)
(***************************************************************************)
EXTENDS Integers, Sequences, FiniteSetsExt

Field(name, offset, size) == [name |-> name, offset |-> offset, size |-> size]

(* REQUIRED_FIELDS *)
RequiredFields ==
  <<Field("pid", 8, 4), Field("comm", 12, 4), Field("total_vm", 16, 8),
    Field("anon_rss", 24, 8), Field("file_rss", 32, 8), Field("shmem_rss", 40, 8),
    Field("uid", 48, 4), Field("pgtables", 56, 8), Field("oom_score_adj", 64, 2)>>

-----------------------------------------------------------------------------
(* C structs: what #[repr(C)] and the kernel's compiler do. *)

Member(name, size) == [name |-> name, size |-> size, align |-> size, form |-> "plain"]

AlignUp(n, align) == ((n + align - 1) \div align) * align

Offsets(struct) ==
  LET offset[i \in 1..Len(struct)] ==
        AlignUp(IF i = 1 THEN 0 ELSE offset[i - 1] + struct[i - 1].size, struct[i].align)
  IN  offset

Common ==
  <<Member("common_type", 2), Member("common_flags", 1),
    Member("common_preempt_count", 1), Member("common_pid", 4)>>

(* MarkVictimArgs; comm_data_loc is the kernel's comm. *)
MarkVictimArgs == Common \o
  <<Member("pid", 4), Member("comm", 4), Member("total_vm", 8), Member("anon_rss", 8),
    Member("file_rss", 8), Member("shmem_rss", 8), Member("uid", 4),
    Member("pgtables", 8), Member("oom_score_adj", 2)>>

-----------------------------------------------------------------------------
(* parse_format *)

Token(base) == [stars |-> 0, base |-> base, array |-> FALSE]

NoAttr == -1

(* attr: the first part with this key. *)
Attr(attrs, key) ==
  LET parts == {i \in 1..Len(attrs) : attrs[i].key = key}
  IN  IF parts = {} THEN NoAttr ELSE attrs[Min(parts)].value

(* The last token, without an array suffix and leading stars. *)
FieldName(decl) == decl[Len(decl)].base

Parses(line) ==
  /\ line.prefix = "field:"
  /\ line.decl # <<>>
  /\ Attr(line.attrs, "offset") # NoAttr /\ Attr(line.attrs, "size") # NoAttr

(* The fields, by the lines they stand in. *)
ParseFormat(text) ==
  [i \in {i \in 1..Len(text) : Parses(text[i])} |->
     Field(FieldName(text[i].decl), Attr(text[i].attrs, "offset"), Attr(text[i].attrs, "size"))]

-----------------------------------------------------------------------------
(* check_layout: the first field of the name decides. *)

Missing(want) == [kind |-> "missing", name |-> want.name]
Moved(want)   == [kind |-> "moved", name |-> want.name]

(* Mutant of Judge: a field of another width is taken for the field. *)
JudgeOffsetOnly(found, want) ==
  LET named == {i \in DOMAIN found : found[i].name = want.name}
  IN  IF named = {} THEN {Missing(want)}
      ELSE IF found[Min(named)].offset # want.offset THEN {Moved(want)} ELSE {}

Judge(found, want) ==
  LET named == {i \in DOMAIN found : found[i].name = want.name}
      first == found[Min(named)]
  IN  IF named = {} THEN {Missing(want)}
      ELSE IF first.offset # want.offset \/ first.size # want.size THEN {Moved(want)} ELSE {}

CheckLayout(text) ==
  LET found == ParseFormat(text)
  IN  UNION {Judge(found, RequiredFields[i]) : i \in 1..Len(RequiredFields)}

(* verify_kernel_layout: the first mount that can be read is the one, and  *)
(* the two messages.                                                       *)
VerifyKernelLayout(mounts, text) ==
  LET mismatches == CheckLayout(text)
  IN  CASE \A path \in DOMAIN mounts : ~mounts[path] -> "unreadable"
        [] OTHER -> IF mismatches = {} THEN "ok"
                    ELSE IF \A m \in mismatches : m.kind = "missing" THEN "pre-6.9"
                    ELSE "changed"

=============================================================================
