--------------------------- MODULE ResolvedConfig ---------------------------
(***************************************************************************)
(* ResolvedConfig::load (runtime/src/config.rs): the machine's file and    *)
(* the project's file, either of which may be absent, merged over the      *)
(* defaults.  A file is what reading it gives; the keys it sets are the    *)
(* domain of its function.                                                 *)
(***************************************************************************)
EXTENDS Naturals

NoKeys == << >>

Absent == [status |-> "absent", keys |-> NoKeys]
Unreadable == [status |-> "Io", keys |-> NoKeys]
Malformed == [status |-> "Parse", keys |-> NoKeys]
File(keys) == [status |-> "read", keys |-> keys]

\* unwrap_or
Value(keys, key, default) == IF key \in DOMAIN keys THEN keys[key] ELSE default

(* merge: each key is read from one of the two files only.  The resolved    *)
(* temperature and token limit are left out: requests carry their own, and  *)
(* nothing reads these.                                                     *)
Merge(global, project) ==
  [ backend    |-> Value(global, "provider", "mock"),
    threads    |-> Value(global, "threads", 4),
    gpu_layers |-> Value(global, "gpu_layers", 0),
    model_name |-> Value(project, "name", "unknown"),
    model_path |-> Value(project, "path", "models/unknown.gguf"),
    context    |-> Value(project, "context", 4096) ]

(* load_global and load_project: a file that is not there sets no key, one  *)
(* that cannot be read or parsed is an error.                               *)
LoadFails(file) == file.status \in {"Io", "Parse"}

(* ResolvedConfig::load: the configurations, one or none, it returns        *)
LoadConfig(global, project) ==
  IF LoadFails(global) \/ LoadFails(project) THEN {}
  ELSE {Merge(global.keys, project.keys)}
=============================================================================
