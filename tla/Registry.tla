------------------------------ MODULE Registry ------------------------------
(***************************************************************************)
(* The descriptors of the backends (src/vramd/registry.py): files that are *)
(* laid over each other, and the command that starts a worker.  The files  *)
(* are the packaged one, the ones the operator names, and those of the     *)
(* directory calibrations are written to.                                  *)
(*                                                                         *)
(* An entry of a file is a function from the paths of its fields to their  *)
(* values: a field of a nested mapping has a path of two keys; EmptyMap is *)
(* the value of a mapping without fields, Null that of a key without one.  *)
(***************************************************************************)
EXTENDS Naturals, Sequences, FiniteSets, SequencesExt

EmptyMap == "{}"
Null == "null"   \* Python's None, of a name, a tool or a value

\* What int() and float() make something of; a negative number is one.
Numbers == {"0", "4000", "5000", "-1"}

(***************************************************************************)
(* Merging                                                                 *)
(***************************************************************************)

IsMapping(entry, path) ==
  \E p \in DOMAIN entry : (p = path /\ entry[p] = EmptyMap) \/ IsStrictPrefix(path, p)

\* dict.update(): a block of the upper layer replaces the one below.
ShallowUpdate(base, override) ==
  LET goes(p) == \E q \in DOMAIN override : Head(q) = Head(p) IN
  [p \in DOMAIN override \cup {q \in DOMAIN base : ~goes(q)} |->
     IF p \in DOMAIN override THEN override[p] ELSE base[p]]

\* _deep_update(): mappings are merged, anything else replaces what is there, be it a
\* value or a mapping.
DeepUpdate(base, override) ==
  LET says == {p \in DOMAIN override : override[p] # EmptyMap \/ ~IsMapping(base, p)}
      goes(p) == \E q \in says : IsPrefix(q, p) \/ IsPrefix(p, q) IN
  [p \in says \cup {q \in DOMAIN base : ~goes(q)} |->
     IF p \in says THEN override[p] ELSE base[p]]

\* merge_entries(): by name, the last source wins.
MergeEntry(merged, entry) ==
  LET over == IF entry.name \in DOMAIN merged THEN DeepUpdate(merged[entry.name], entry.body) ELSE entry.body IN
  [n \in DOMAIN merged \cup {entry.name} |-> IF n = entry.name THEN over ELSE merged[n]]
MergeEntries(layers) == FoldLeft(MergeEntry, [n \in {} |-> <<>>], FlattenSeq(layers))

(***************************************************************************)
(* Reading                                                                 *)
(***************************************************************************)

ValueAt(entry, path) == IF path \in DOMAIN entry THEN entry[path] ELSE Null

\* _read_entries(): YAML of the right shape, every entry with a name.
Readable(file) == file.exists /\ file.yaml /\ \A i \in DOMAIN file.entries : file.entries[i].name # Null

\* descriptor_sources(): the files that are there; an explicit path is the only source.
SourcesOf(explicit, base, named, dir) ==
  IF explicit # <<>> THEN explicit
  ELSE SelectSeq(<<base>> \o named \o dir, LAMBDA file : file.exists)

\* dict() of a block and of one that is false; an iteration; float().
Falsy == {EmptyMap, Null, "0"}
IsBlock(entry, path) == path \notin DOMAIN entry \/ entry[path] \in Falsy
IsList(entry, path) == ValueAt(entry, path) \notin Numbers \ Falsy
IsTimeout(entry, path) == ValueAt(entry, path) \in Numbers \cup {Null}

\* _to_descriptor() and RuntimeSpec.from_dict() do not raise.
Converts(entry) ==
  /\ ValueAt(entry, <<"adapter">>) # Null
  /\ ValueAt(entry, <<"vram_mib">>) \in Numbers \ {"-1"}
  /\ <<"priority">> \in DOMAIN entry => entry[<<"priority">>] \in Numbers
  /\ \A block \in {<<"runtime">>, <<"runtime", "env">>, <<"vram">>, <<"peak_profile">>,
                    <<"calibrate_request">>, <<"calibrate_load_kwargs">>} : IsBlock(entry, block)
  /\ \A keys \in {<<"load_keys">>, <<"shape_keys">>, <<"runtime", "command">>} : IsList(entry, keys)
  /\ \A limit \in {"load_timeout_sec", "event_timeout_sec"} : IsTimeout(entry, <<"runtime", limit>>)

ReadsAll(layers) == layers

\* A layer of the operator that cannot be read is skipped.  The first one raises.
ReadableLayers(layers) == <<layers[1]>> \o SelectSeq(Tail(layers), Readable)

\* load_descriptors(): one entry that does not convert and there are no descriptors.
LoadDescriptors(explicit, base, named, dir) ==
  LET layers == ReadableLayers(SourcesOf(explicit, base, named, dir))
      merged == MergeEntries([i \in DOMAIN layers |-> layers[i].entries]) IN
  IF ~Readable(layers[1]) \/ \E n \in DOMAIN merged : ~Converts(merged[n])
  THEN [raises |-> TRUE, descriptors |-> [n \in {} |-> <<>>]]
  ELSE [raises |-> FALSE, descriptors |-> merged]

StartsEmpty(loaded, allowEmpty) == ~loaded.raises
\* start_cmd: without a backend the supervisor does not start, unless that is allowed.
StartsUp(loaded, allowEmpty) == ~loaded.raises /\ (DOMAIN loaded.descriptors # {} \/ allowEmpty)

(***************************************************************************)
(* The command of a worker                                                 *)
(***************************************************************************)

\* A token of the command is text or a whole reference; anything around a reference
\* makes it text.
Unresolved == [kind |-> "unresolved", of |-> Null]
Text(t) == [kind |-> "text", of |-> t]

\* The interpreter in the environment of a tool of the checkout.
ToolPython(tool, installed) ==
  IF tool \in installed THEN [kind |-> "python", of |-> tool] ELSE Unresolved

GenericFirst(token, tool, environ, installed) ==
  CASE token.kind = "env" -> IF token.of \in environ THEN Text(token.of) ELSE Unresolved
    [] token.kind = "monorepo" /\ token.of # Null -> ToolPython(token.of, installed)
    [] token.kind = "monorepo" /\ token.of = Null /\ tool # Null -> ToolPython(tool, installed)
    [] OTHER -> token

\* _expand_token(): ${monorepo:python} is not the environment of a tool called python.
ExpandToken(token, tool, environ, installed) ==
  CASE token.kind = "monorepo" /\ (token.of = "python" \/ (token.of = Null /\ tool # Null)) ->
         ToolPython(tool, installed)
    [] token.kind = "env" -> IF token.of \in environ THEN Text(token.of) ELSE Unresolved
    [] token.kind = "monorepo" /\ token.of \notin {Null, "python"} -> ToolPython(token.of, installed)
    [] OTHER -> token

\* RuntimeSpec.resolve_command(); <<>> is None.
ResolveCommand(command, monorepoTool, tool, environ, installed) ==
  LET target == IF monorepoTool # Null THEN monorepoTool ELSE tool
      argv == IF command # <<>>
              THEN [i \in DOMAIN command |-> ExpandToken(command[i], target, environ, installed)]
              ELSE <<ToolPython(target, installed), Text("-m"), Text(target), Text("serve"), Text("--ums-worker")>> IN
  IF Unresolved \in ToSet(argv) THEN <<>> ELSE argv
=============================================================================
