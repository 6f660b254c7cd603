--------------------------- MODULE ModelDownload ---------------------------
(***************************************************************************)
(* Installing a model (runtime/src/model_manager): the registry names the  *)
(* model, the user's registry before the built-in one; the resolver looks for  *)
(* the model's file, download_model fetches it into a .part file beside    *)
(* it, checks that and renames it; remove unlinks it.  Nothing is locked:  *)
(* the processes of one user share the directory, and each may die at any  *)
(* step.  A file is an inode: a handle keeps it when its name moves on.    *)
(*                                                                         *)
(* Bytes are chunks.  The first chunk of a model starts with the magic;    *)
(* Hole is what is read where nobody has written.                          *)
(***************************************************************************)
EXTENDS Integers, Sequences

CONSTANTS
  Processes,
  Model,       \* the chunks of the model
  Bodies,      \* what the server may answer with status 200
  Id,          \* the id of the model
  BuiltIn,     \* the registry in the program, a set of definitions
  Registries,  \* what registry.toml in the models directory may hold, in its order
  NoChecksum,
  Hole,
  Inodes,      \* bounds the files: two for the names, one for each handle
  Absent       \* what a name without a file, or a closed handle, refers to

(* ModelDefinition: its sha256 stands for the contents that have it, or is  *)
(* NoChecksum.  What its url serves is anything; its filename is the name   *)
(* "final", as long as nobody edits the registry.                           *)
Definition(id, sha256, size) == [id |-> id, sha256 |-> sha256, size |-> size]

(* ModelRegistry::find: no two entries of a registry have the same id.      *)
Find(models, id) == CHOOSE m \in models : m.id = id

\* Variant: an entry that is there is not replaced.
WithoutReplacing(models, m) ==
  IF \E n \in models : n.id = m.id THEN models ELSE models \cup {m}

(* retain and push: an entry replaces the one with its id.                  *)
With(models, m) == {n \in models : n.id # m.id} \cup {m}

(* ModelRegistry::merge: one after the other, so the last with an id stays. *)
Merged(models, others) ==
  LET after[n \in 0 .. Len(others)] ==
        IF n = 0 THEN models ELSE With(after[n - 1], others[n])
  IN  after[Len(others)]

(* load_registry: without the user's file it is the built-in registry; one  *)
(* that cannot be parsed is an error, and nothing is installed.             *)
LoadRegistry(user) == Merged(BuiltIn, user)

\* What a file may hold
Chunks == {Hole} \cup UNION {{b[i] : i \in DOMAIN b} : b \in Bodies}

ASSUME DownloadAssumption ==
  /\ Model # << >>
  /\ \E m \in BuiltIn : m.id = Id
  /\ \A m, n \in BuiltIn : m.id = n.id => m = n
  /\ \A r \in Registries : r \in Seq({r[i] : i \in DOMAIN r})
  /\ Absent \notin Inodes
  /\ Model \in Bodies
  /\ NoChecksum \notin Bodies
  /\ Bodies \subseteq Seq(Chunks)

VARIABLES
  user,        \* the user's registry, << >> without a file
  entry,       \* the model's definition in the merged registry
  dir,         \* the inode of each name, or Absent
  data,        \* the chunks of each inode
  pc,          \* the next step of each process
  body,        \* what the server is sending it
  target,      \* the name download_model is checking
  handle,      \* its open file and its position there
  seen,        \* what verify_sha256 has read
  answer,      \* the last answer given to any process
  overlapped,  \* history: two calls were in progress at once
  broken       \* history: a transfer ended without the whole model

vars == <<user, entry, dir, data, pc, body, target, handle, seen, answer, overlapped, broken>>

Names == {"final", "part"}

\* The variants of ModelManagerError differ in their text.  NotFound, which
\* sends resolve_or_download on to the downloader, is no answer.
ModelManagerError == "error"

Closed == [inode |-> Absent, pos |-> 0]

Init ==
  /\ user \in Registries
  /\ entry = Find(LoadRegistry(user), Id)
  /\ dir = [n \in Names |-> Absent]
  /\ data = [i \in Inodes |-> << >>]
  /\ pc = [p \in Processes |-> "idle"]
  /\ body = [p \in Processes |-> << >>]
  /\ target = [p \in Processes |-> "final"]
  /\ handle = [p \in Processes |-> Closed]
  /\ seen = [p \in Processes |-> << >>]
  /\ answer = "none"
  /\ overlapped = FALSE
  /\ broken = FALSE

-----------------------------------------------------------------------------
(* The file system *)

Kept(d, h) == {d[n] : n \in Names} \cup {h[p].inode : p \in Processes}

\* Names and handles change; an inode that neither keeps is gone.
Files(d, h, contents) ==
  /\ dir' = d
  /\ handle' = h
  /\ data' = [i \in Inodes |-> IF i \in Kept(d, h) THEN contents[i] ELSE << >>]

Open(p, i) == [handle EXCEPT ![p] = [inode |-> i, pos |-> 0]]
Close(p) == [handle EXCEPT ![p] = Closed]

\* Variant: the file is opened for appending.
WrittenAtEnd(c, pos, chunk) == Append(c, chunk)

\* Writing at a position past the end leaves a hole.
Written(c, pos, chunk) ==
  [i \in 1 .. (IF pos + 1 > Len(c) THEN pos + 1 ELSE Len(c)) |->
     IF i = pos + 1 THEN chunk ELSE IF i <= Len(c) THEN c[i] ELSE Hole]

Goto(p, label) == pc' = [pc EXCEPT ![p] = label]

\* The process's call returns; its handle and its buffers are dropped.
Return(p, outcome) ==
  /\ Goto(p, "idle")
  /\ answer' = outcome
  /\ body' = [body EXCEPT ![p] = << >>]
  /\ target' = [target EXCEPT ![p] = "final"]
  /\ seen' = [seen EXCEPT ![p] = << >>]

\* ... and the files stay as they are, but for the handle.
Leave(p, outcome) == Return(p, outcome) /\ Files(dir, Close(p), data)

Begin(p, label) ==
  /\ pc[p] = "idle"
  /\ Goto(p, label)
  /\ answer' = "none"
  /\ overlapped' = (overlapped \/ \E q \in Processes : pc[q] # "idle")
  /\ UNCHANGED <<user, entry, dir, data, body, target, handle, seen, broken>>

CallResolveOrDownload(p) == Begin(p, "resolve")
CallDownload(p) == Begin(p, "exists")
CallRemove(p) == Begin(p, "remove_exists")

-----------------------------------------------------------------------------
(* Listings *)

Extension(name) == IF name = "final" THEN "gguf" ELSE "part"

\* Variant: shows what is being downloaded too.
ListedAll == {n \in Names : dir[n] # Absent}

(* list_installed                                                           *)
Listed == {n \in Names : dir[n] # Absent /\ Extension(n) = "gguf"}

Answered(outcome) ==
  /\ answer' = outcome
  /\ UNCHANGED <<user, entry, dir, data, pc, body, target, handle, seen, overlapped, broken>>

ListInstalled(p) ==
  pc[p] = "idle" /\ Answered(IF Listed # {} THEN "installed" ELSE "not_installed")

(* ModelResolver::list, the model's entry                                   *)
ListModels(p) ==
  pc[p] = "idle" /\ Answered(IF dir["final"] # Absent THEN "installed" ELSE "not_installed")

-----------------------------------------------------------------------------
(* resolve_or_download, up to the downloader *)

\* An installed model is taken as it is.
Resolve(p) ==
  /\ pc[p] = "resolve"
  /\ IF dir["final"] # Absent
       THEN Leave(p, "installed")
       ELSE /\ Goto(p, "exists")
            /\ UNCHANGED <<dir, data, body, target, handle, seen, answer>>
  /\ UNCHANGED <<user, entry, overlapped, broken>>

-----------------------------------------------------------------------------
(* download_model *)

Exists(p) ==
  /\ pc[p] = "exists"
  /\ Goto(p, IF dir["final"] # Absent THEN "magic" ELSE "request")
  /\ UNCHANGED <<user, entry, dir, data, body, target, handle, seen, answer, overlapped, broken>>

\* The request, or a call to the file system, returns an error.
CallFails(p) ==
  /\ pc[p] \in {"request", "create", "magic", "hash_open", "hash_read", "size",
               "rename", "remove"}
  /\ Leave(p, ModelManagerError)
  /\ UNCHANGED <<user, entry, overlapped, broken>>

Request(p) ==
  /\ pc[p] = "request"
  /\ \E b \in Bodies :
       /\ body' = [body EXCEPT ![p] = b]
       /\ broken' = (broken \/ b # Model)
  /\ Goto(p, "create")
  /\ UNCHANGED <<user, entry, dir, data, target, handle, seen, answer, overlapped>>

\* File::create: the .part file another process or a dead one left is
\* truncated, not replaced.
CreatePart(p) ==
  /\ pc[p] = "create"
  /\ \E i \in IF dir["part"] # Absent THEN {dir["part"]} ELSE Inodes \ Kept(dir, handle) :
       Files([dir EXCEPT !["part"] = i], Open(p, i), [data EXCEPT ![i] = << >>])
  /\ Goto(p, "receive")
  /\ UNCHANGED <<user, entry, body, target, seen, answer, overlapped, broken>>

Receive(p) ==
  /\ pc[p] = "receive"
  /\ LET h == handle[p] IN
       /\ h.pos < Len(body[p])
       /\ Files(dir, [handle EXCEPT ![p].pos = h.pos + 1],
                [data EXCEPT ![h.inode] = Written(data[h.inode], h.pos, body[p][h.pos + 1])])
  /\ UNCHANGED <<user, entry, pc, body, target, seen, answer, overlapped, broken>>

\* reader.read or file.write_all fails: the .part file stays.
ReceiveFails(p) ==
  /\ pc[p] = "receive"
  /\ broken' = TRUE
  /\ Leave(p, ModelManagerError)
  /\ UNCHANGED <<user, entry, overlapped>>

\* read returns 0.
EndOfBody(p) ==
  /\ pc[p] = "receive"
  /\ handle[p].pos = Len(body[p])
  /\ Files(dir, Close(p), data)
  /\ Goto(p, "magic")
  /\ target' = [target EXCEPT ![p] = "part"]
  /\ body' = [body EXCEPT ![p] = << >>]
  /\ UNCHANGED <<user, entry, seen, answer, overlapped, broken>>

-----------------------------------------------------------------------------
(* The checks, of the installed file or of the .part file *)

There(p) == dir[target[p]] # Absent
Content(p) == data[dir[target[p]]]

HasMagic(c) == c # << >> /\ Head(c) = Head(Model)
HasSize(c) == Len(c) = entry.size
HasSha256(c) == c = entry.sha256

\* What follows once the contents have passed: the file's size and the rename
\* for a .part file, nothing for an installed one.
Passed(p) ==
  IF target[p] = "part"
    THEN /\ Goto(p, "size")
         /\ seen' = [seen EXCEPT ![p] = << >>]
         /\ Files(dir, Close(p), data)
         /\ UNCHANGED <<body, target, answer>>
    ELSE Leave(p, "installed")

VerifyMagic(p) ==
  /\ pc[p] = "magic"
  /\ There(p) /\ HasMagic(Content(p))
  /\ IF entry.sha256 = NoChecksum
       THEN Passed(p)
       ELSE /\ Goto(p, "hash_open")
            /\ UNCHANGED <<dir, data, body, target, handle, seen, answer>>
  /\ UNCHANGED <<user, entry, overlapped, broken>>

MagicFails(p) ==
  /\ pc[p] = "magic"
  /\ ~(There(p) /\ HasMagic(Content(p)))
  /\ Leave(p, ModelManagerError)
  /\ UNCHANGED <<user, entry, overlapped, broken>>

HashOpen(p) ==
  /\ pc[p] = "hash_open"
  /\ IF There(p)
       THEN /\ Files(dir, Open(p, dir[target[p]]), data)
            /\ Goto(p, "hash_read")
            /\ UNCHANGED <<body, target, seen, answer>>
       ELSE Leave(p, ModelManagerError)
  /\ UNCHANGED <<user, entry, overlapped, broken>>

HashRead(p) ==
  /\ pc[p] = "hash_read"
  /\ LET h == handle[p] IN
       /\ h.pos < Len(data[h.inode])
       /\ seen' = [seen EXCEPT ![p] = Append(@, data[h.inode][h.pos + 1])]
       /\ handle' = [handle EXCEPT ![p].pos = h.pos + 1]
  /\ UNCHANGED <<user, entry, dir, data, pc, body, target, answer, overlapped, broken>>

HashEnd(p) ==
  /\ pc[p] = "hash_read"
  /\ handle[p].pos >= Len(data[handle[p].inode])
  /\ IF HasSha256(seen[p]) THEN Passed(p) ELSE Leave(p, ModelManagerError)
  /\ UNCHANGED <<user, entry, overlapped, broken>>

\* Variant: the size the server announced is believed.
VerifySizeBelieved(p) ==
  /\ pc[p] = "size"
  /\ Goto(p, "rename")
  /\ UNCHANGED <<user, entry, dir, data, body, target, handle, seen, answer, overlapped, broken>>

VerifySize(p) ==
  /\ pc[p] = "size"
  /\ IF dir["part"] # Absent /\ HasSize(data[dir["part"]])
       THEN /\ Goto(p, "rename")
            /\ UNCHANGED <<dir, data, body, target, handle, seen, answer>>
       ELSE Leave(p, ModelManagerError)
  /\ UNCHANGED <<user, entry, overlapped, broken>>

\* Variant: the .part file is linked under its new name and not unlinked.
RenameLinks(p) ==
  /\ pc[p] = "rename"
  /\ dir["part"] # Absent
  /\ Return(p, "installed")
  /\ Files([dir EXCEPT !["final"] = dir["part"]], handle, data)
  /\ UNCHANGED <<user, entry, overlapped, broken>>

\* rename replaces whatever another process has published since.
Rename(p) ==
  /\ pc[p] = "rename"
  /\ dir["part"] # Absent
  /\ Return(p, "installed")
  /\ Files([final |-> dir["part"], part |-> Absent], handle, data)
  /\ UNCHANGED <<user, entry, overlapped, broken>>

\* Another process has renamed the file this one has checked.
RenameFails(p) ==
  /\ pc[p] = "rename"
  /\ dir["part"] = Absent
  /\ Leave(p, ModelManagerError)
  /\ UNCHANGED <<user, entry, overlapped, broken>>

-----------------------------------------------------------------------------
(* remove *)

RemoveExists(p) ==
  /\ pc[p] = "remove_exists"
  /\ IF dir["final"] # Absent
       THEN /\ Goto(p, "remove")
            /\ UNCHANGED <<dir, data, body, target, handle, seen, answer>>
       ELSE Leave(p, "removed")
  /\ UNCHANGED <<user, entry, overlapped, broken>>

RemoveFile(p) ==
  /\ pc[p] = "remove"
  /\ IF dir["final"] # Absent
       THEN /\ Return(p, "removed")
            /\ Files([dir EXCEPT !["final"] = Absent], handle, data)
       ELSE Leave(p, ModelManagerError)
  /\ UNCHANGED <<user, entry, overlapped, broken>>

\* The process dies; its handle is closed and the files stay.
Crash(p) ==
  /\ pc[p] # "idle"
  /\ broken' = (broken \/ pc[p] = "receive")
  /\ Leave(p, "none")
  /\ UNCHANGED <<user, entry, overlapped>>

Next == \E p \in Processes :
  \/ ListInstalled(p) \/ ListModels(p)
  \/ CallResolveOrDownload(p) \/ CallDownload(p) \/ CallRemove(p)
  \/ Resolve(p) \/ Exists(p) \/ CallFails(p) \/ Request(p)
  \/ CreatePart(p) \/ Receive(p) \/ ReceiveFails(p) \/ EndOfBody(p)
  \/ VerifyMagic(p) \/ MagicFails(p) \/ HashOpen(p) \/ HashRead(p) \/ HashEnd(p)
  \/ VerifySize(p) \/ Rename(p) \/ RenameFails(p)
  \/ RemoveExists(p) \/ RemoveFile(p) \/ Crash(p)

Spec == Init /\ [][Next]_vars

-----------------------------------------------------------------------------
(* Properties *)

Labels == {"idle", "resolve", "exists", "request", "create", "receive", "magic",
           "hash_open", "hash_read", "size", "rename", "remove_exists", "remove"}

\* Every variable has its type; the two names never share a file, and a process
\* has a file open exactly while it receives or hashes.
TypeOK ==
  /\ user \in Registries /\ entry \in BuiltIn \cup {user[i] : i \in DOMAIN user}
  /\ dir \in [Names -> Inodes \cup {Absent}]
  /\ dir["part"] # Absent => dir["part"] # dir["final"]
  /\ DOMAIN data = Inodes
  /\ pc \in [Processes -> Labels]
  /\ target \in [Processes -> Names]
  /\ \A p \in Processes :
       /\ body[p] \in Bodies \cup {<< >>}
       /\ (handle[p] # Closed) <=> pc[p] \in {"receive", "hash_read"}
       /\ handle[p].inode \in Inodes \cup {Absent}
  /\ answer \in {"none", "installed", "not_installed", "removed", ModelManagerError}
  /\ overlapped \in BOOLEAN /\ broken \in BOOLEAN

\* The definition that those who wrote the registries ask for: the user's, the
\* last one they wrote, or that of the program
Asked ==
  LET mine == {i \in DOMAIN user : user[i].id = Id}
      last == CHOOSE i \in mine : \A j \in mine : j <= i
  IN  IF mine # {} THEN user[last] ELSE Find(BuiltIn, Id)

Genuine(c) ==
  HasMagic(c) /\ Len(c) = Asked.size /\ (Asked.sha256 # NoChecksum => c = Asked.sha256)

\* As long as calls follow one another, a file that bears the model's name has
\* the magic, the size and the checksum of its entry, the user's if there is
\* one, whatever died, was cut short or was answered wrongly before; and who
\* is told, or sees it listed, finds it there.
PublishedVerified ==
  ~overlapped =>
    /\ dir["final"] # Absent => Genuine(data[dir["final"]])
    /\ answer = "installed" => dir["final"] # Absent

Writing(i) == \E p \in Processes : pc[p] = "receive" /\ handle[p].inode = i

\* Processes that download the same model at once write into one .part file and
\* can publish it while another still writes; as long as every transfer is
\* whole, a published file that nobody writes any more is the model.
PublishedWhenQuiet ==
  ~broken /\ dir["final"] # Absent /\ ~Writing(dir["final"]) =>
    data[dir["final"]] = Model

-----------------------------------------------------------------------------
(* The strengthening that makes TypeOK and PublishedVerified inductive      *)

\* Nobody touches the registries: the entry in force stays the one asked for.
EntryInv == user \in Registries /\ entry = Asked

\* Who receives or hashes has a file open, and nobody else has.
HandlesInv ==
  \A p \in Processes :
    IF pc[p] \in {"receive", "hash_read"} THEN handle[p].inode \in Inodes ELSE handle[p] = Closed

AnswersInv ==
  /\ answer \in {"none", "installed", "not_installed", "removed", ModelManagerError}
  /\ overlapped \in BOOLEAN /\ broken \in BOOLEAN

FilesInv ==
  /\ pc \in [Processes -> Labels] /\ target \in [Processes -> Names]
  /\ body \in [Processes -> Bodies \cup {<< >>}]
  /\ handle \in [Processes -> [inode : Inodes \cup {Absent}, pos : Nat]]
  /\ dir \in [Names -> Inodes \cup {Absent}]
  /\ dir["part"] # Absent => dir["part"] # dir["final"]
  /\ data \in [Inodes -> Seq(Chunks)]
  /\ DOMAIN seen = Processes
  /\ \A p \in Processes : pc[p] # "hash_read" => seen[p] = << >>

\* What passes all the checks
Verified(c) == HasMagic(c) /\ HasSize(c) /\ (entry.sha256 # NoChecksum => c = entry.sha256)

\* What a process that is alone has found out about the file it is checking
Checked(p) ==
  /\ pc[p] = "receive" => handle[p].inode = dir["part"] /\ dir["part"] # Absent
  /\ pc[p] \in {"hash_open", "hash_read", "size", "rename"} => There(p) /\ HasMagic(Content(p))
  /\ pc[p] = "hash_read" =>
       /\ handle[p].inode = dir[target[p]]
       /\ handle[p].pos <= Len(Content(p))
       /\ seen[p] = SubSeq(Content(p), 1, handle[p].pos)
  /\ pc[p] \in {"size", "rename"} =>
       target[p] = "part" /\ (entry.sha256 # NoChecksum => Content(p) = entry.sha256)
  /\ pc[p] = "rename" => HasSize(Content(p))

AloneInv == ~overlapped =>
  /\ \A p, q \in Processes : pc[p] # "idle" /\ pc[q] # "idle" => p = q
  /\ \A p \in Processes : Checked(p)
  /\ dir["final"] # Absent => Verified(data[dir["final"]])
  /\ answer = "installed" => dir["final"] # Absent

IInv == FilesInv /\ AloneInv

-----------------------------------------------------------------------------
(* The strengthening that makes PublishedWhenQuiet inductive                *)

\* What whole transfers leave in a file while some are under way
Partial(c) ==
  /\ Len(c) <= Len(Model)
  /\ \A k \in 1 .. Len(c) : c[k] \in {Model[k], Hole}

\* A process that has written all of the file's first chunks, and will write
\* the rest
Completes(p, i) ==
  /\ pc[p] = "receive" /\ handle[p].inode = i
  /\ handle[p].pos <= Len(data[i])
  /\ \A k \in 1 .. handle[p].pos : data[i][k] = Model[k]

QuietInv == ~broken =>
  /\ \A p \in Processes : pc[p] \in {"create", "receive"} => body[p] = Model
  /\ \A n \in Names : dir[n] # Absent =>
       /\ Partial(data[dir[n]])
       /\ data[dir[n]] = Model \/ \E p \in Processes : Completes(p, dir[n])

=============================================================================
