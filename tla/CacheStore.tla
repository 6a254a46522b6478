------------------------------ MODULE CacheStore ------------------------------
(***************************************************************************)
(* The on-disk store of the incremental compiler (crates/cache): a         *)
(* manifest naming, per source file, the content hash it was analysed at   *)
(* and the content-addressed blobs holding its pass1 fragment, diagnostics *)
(* and conversion records.  Several processes may open the same store.     *)
(* Builders, on .build/cache, wait for its lock (Store::open); language    *)
(* servers, on .build/cache-ls, give up when it is taken (Store::try_open) *)
(* but keep it open over many scans.                                       *)
(*                                                                         *)
(* A blob is identified with the payload it is named after, so blob b is   *)
(* intact exactly when its file holds b: that is what read_blob checks by  *)
(* re-hashing the bytes.                                                   *)
(***************************************************************************)
CONSTANTS
  Client,       \* processes that open the store
  Server,       \* all of them if they are language servers, else none
  Src,          \* source paths
  Hash,         \* content hashes a source file can have
  Key,          \* global keys: compiler binary, options, lockfile, defines
  Meta,         \* what set_dependents, set_tests, ... record; opaque here
  NoMeta,       \* those fields of an entry fresh out of put
  Warned,       \* <<s, h>>: analysing s at content h reports warnings
  None,         \* an absent option, file or manifest
  Garbage,      \* bytes that do not hash to the name of the blob holding them
  LockFaults,   \* the file system may refuse the lock
  WriteFaults,  \* a write or a removal may fail
  Damage        \* something else may damage or delete the store's files

Kind == {"fragment", "diagnostics", "units"}
Blob == [kind: Kind, src: Src, hash: Hash, key: Key]
BlobOf(kind, s, h, k) == [kind |-> kind, src |-> s, hash |-> h, key |-> k]

ASSUME CacheStoreAssumption ==
  /\ Server \in {{}, Client}
  /\ Warned \subseteq Src \X Hash
  /\ None \notin Client \cup Key \cup Hash \cup Blob
  /\ Garbage \notin Blob \cup {None}
  /\ LockFaults \in BOOLEAN /\ WriteFaults \in BOOLEAN /\ Damage \in BOOLEAN

VARIABLES
  holder,         \* who holds the exclusive lock on the store directory
  disk,           \* manifest.toml; its key is None when absent or unreadable
  content,        \* what the file of each blob holds
  pc,             \* where each client is in the store's protocol
  key,            \* the global key each client opened the store with
  manifest,       \* Store.manifest.files of each client
  nextFiles,      \* Store.next_files of each client
  onDiskCurrent,  \* Store.on_disk_current of each client
  todo,           \* sources the client has yet to scan, or to record
  gcTodo,         \* blobs gc has listed and not removed yet
  loaded          \* what the client restored in this scan, per source

vars == <<holder, disk, content, pc, key, manifest, nextFiles, onDiskCurrent,
          todo, gcTodo, loaded>>

-------------------------------------------------------------------------------

\* FileEntry; an absent entry has no hash.
Option(S) == S \cup {None}
Entry == [hash: Option(Hash), fragment: Option(Blob), diagnostics: Option(Blob),
          units: Option(Blob), meta: Meta \cup {NoMeta}]
NoEntry == [hash |-> None, fragment |-> None, diagnostics |-> None,
            units |-> None, meta |-> NoMeta]
NoFiles == [s \in Src |-> NoEntry]
NoManifest == [key |-> None, files |-> NoFiles]

Loaded == [hash: Option(Hash), fragment: Option(Blob), diagnostics: Option(Blob)]
NotLoaded == [hash |-> None, fragment |-> None, diagnostics |-> None]

Phase == {"closed", "disabled", "locked", "scan", "record", "write", "list",
          "gc", "saved"}

TypeOK ==
  /\ holder \in Option(Client)
  /\ disk \in [key: Option(Key), files: [Src -> Entry]]
  /\ content \in [Blob -> Blob \cup {None, Garbage}]
  /\ pc \in [Client -> Phase]
  /\ key \in [Client -> Option(Key)]
  /\ manifest \in [Client -> [Src -> Entry]]
  /\ nextFiles \in [Client -> [Src -> Entry]]
  /\ onDiskCurrent \in [Client -> BOOLEAN]
  /\ todo \in [Client -> SUBSET Src]
  /\ gcTodo \in [Client -> SUBSET Blob]
  /\ loaded \in [Client -> [Src -> Loaded]]

\* The blobs a set of entries refers to; None stands for an unset reference.
Refs(e) == {e.fragment, e.diagnostics, e.units}
Referenced(files) == UNION {Refs(files[s]) : s \in Src}

\* Mutation of ReadBlob: the bytes are not hashed again.
ReadBlobUnverified(b) == IF b \in Blob THEN content[b] ELSE None

\* read_blob: the payload, or None on any failure.
ReadBlob(b) == IF b \in Blob /\ content[b] = b THEN b ELSE None

\* write_blob: an intact copy is reused, a failed write gives no reference.
WriteBlob(b) == {b} \cup (IF WriteFaults /\ content[b] # b THEN {None} ELSE {})
ContentWith(written) ==
  [b \in Blob |-> IF b \in written THEN b ELSE content[b]]

Init ==
  /\ holder = None
  /\ disk = NoManifest
  /\ content = [b \in Blob |-> None]
  /\ pc = [c \in Client |-> "closed"]
  /\ key = [c \in Client |-> None]
  /\ manifest = [c \in Client |-> NoFiles]
  /\ nextFiles = [c \in Client |-> NoFiles]
  /\ onDiskCurrent = [c \in Client |-> FALSE]
  /\ todo = [c \in Client |-> {}]
  /\ gcTodo = [c \in Client |-> {}]
  /\ loaded = [c \in Client |-> [s \in Src |-> NotLoaded]]

-------------------------------------------------------------------------------
(* Opening *)

\* acquire_lock succeeds.
AcquireLock(c, k) ==
  /\ pc[c] = "closed"
  /\ holder = None
  /\ holder' = c
  /\ pc' = [pc EXCEPT ![c] = "locked"]
  /\ key' = [key EXCEPT ![c] = k]
  /\ UNCHANGED <<disk, content, manifest, nextFiles, onDiskCurrent, todo,
                 gcTodo, loaded>>

\* A builder goes on without the lock when there is no locking it.
OpenUnlocked(c, k) ==
  /\ LockFaults
  /\ pc[c] = "closed"
  /\ c \notin Server
  /\ pc' = [pc EXCEPT ![c] = "locked"]
  /\ key' = [key EXCEPT ![c] = k]
  /\ UNCHANGED <<holder, disk, content, manifest, nextFiles, onDiskCurrent,
                 todo, gcTodo, loaded>>

\* try_open: a server that cannot lock the store never asks again.
TryOpenBusy(c) ==
  /\ pc[c] = "closed"
  /\ c \in Server
  /\ holder # None \/ LockFaults
  /\ pc' = [pc EXCEPT ![c] = "disabled"]
  /\ UNCHANGED <<holder, disk, content, key, manifest, nextFiles,
                 onDiskCurrent, todo, gcTodo, loaded>>

\* Mutation of ReadManifest: the global key is not compared.
ReadManifestAnyKey(c) ==
  /\ pc[c] = "locked"
  /\ onDiskCurrent' = [onDiskCurrent EXCEPT ![c] = TRUE]
  /\ manifest' = [manifest EXCEPT ![c] = disk.files]
  /\ todo' = [todo EXCEPT ![c] = Src]
  /\ pc' = [pc EXCEPT ![c] = "scan"]
  /\ UNCHANGED <<holder, disk, content, key, nextFiles, gcTodo, loaded>>

\* The rest of open_with_lock: a manifest of another key is discarded.
ReadManifest(c) ==
  /\ pc[c] = "locked"
  /\ onDiskCurrent' = [onDiskCurrent EXCEPT ![c] = (disk.key = key[c])]
  /\ manifest' = [manifest EXCEPT
                    ![c] = IF disk.key = key[c] THEN disk.files ELSE NoFiles]
  /\ todo' = [todo EXCEPT ![c] = Src]
  /\ pc' = [pc EXCEPT ![c] = "scan"]
  /\ UNCHANGED <<holder, disk, content, key, nextFiles, gcTodo, loaded>>

-------------------------------------------------------------------------------
(* Scanning the sources: each is restored, analysed and captured, or left out *)

\* Mutation of Hit: unreadable diagnostics are taken for no diagnostics.
HitWithoutDiagnostics(c, s, h) ==
  LET e == manifest[c][s]
  IN  /\ e.hash = h
      /\ e.fragment # None
      /\ ReadBlob(e.fragment) # None

\* The entry is for this content and its blobs are readable.
Hit(c, s, h) ==
  LET e == manifest[c][s]
  IN  /\ e.hash = h
      /\ e.fragment # None
      /\ ReadBlob(e.fragment) # None
      /\ e.diagnostics # None => ReadBlob(e.diagnostics) # None

\* try_restore on a source found with content hash h.
Restore(c, s, h) ==
  LET e == manifest[c][s]
  IN  /\ pc[c] = "scan"
      /\ s \in todo[c]
      /\ Hit(c, s, h)
      /\ loaded' = [loaded EXCEPT
                      ![c][s] = [hash |-> h,
                                 fragment |-> ReadBlob(e.fragment),
                                 diagnostics |-> ReadBlob(e.diagnostics)]]
      /\ nextFiles' = [nextFiles EXCEPT ![c][s] = e]
      /\ todo' = [todo EXCEPT ![c] = @ \ {s}]
      /\ UNCHANGED <<holder, disk, content, pc, key, manifest, onDiskCurrent,
                     gcTodo>>

\* capture: put, with the fragment if the analysis was clean enough to cache.
\* A hit may be refused as well: a stale output, a selected test, a payload
\* that does not decode.
Capture(c, s, h, cacheable) ==
  /\ pc[c] = "scan"
  /\ s \in todo[c]
  /\ \E f \in IF cacheable THEN WriteBlob(BlobOf("fragment", s, h, key[c]))
                           ELSE {None} :
       /\ content' = ContentWith({f})
       /\ nextFiles' = [nextFiles EXCEPT
                          ![c][s] = [NoEntry EXCEPT !.hash = h, !.fragment = f]]
  /\ todo' = [todo EXCEPT ![c] = @ \ {s}]
  /\ UNCHANGED <<holder, disk, pc, key, manifest, onDiskCurrent, gcTodo, loaded>>

\* No entry: the file is open in the editor, unreadable or removed.
LeaveOut(c, s) ==
  /\ pc[c] = "scan"
  /\ s \in todo[c]
  /\ todo' = [todo EXCEPT ![c] = @ \ {s}]
  /\ UNCHANGED <<holder, disk, content, pc, key, manifest, nextFiles,
                 onDiskCurrent, gcTodo, loaded>>

Analysed(c) ==
  /\ pc[c] = "scan"
  /\ todo[c] = {}
  /\ pc' = [pc EXCEPT ![c] = "record"]
  /\ todo' = [todo EXCEPT ![c] = Src]
  /\ UNCHANGED <<holder, disk, content, key, manifest, nextFiles,
                 onDiskCurrent, gcTodo, loaded>>

-------------------------------------------------------------------------------
(* Saving *)

\* The setters Incremental::save and LsIncremental::save call for one source.
\* Only builders attach units, for the files that have some, and diagnostics,
\* for the files analysed in this run that reported something; neither is
\* attached to an entry without a fragment.
Record(c, s) ==
  /\ pc[c] = "record"
  /\ s \in todo[c]
  /\ \E m \in Meta, hasUnits \in BOOLEAN :
       LET e == nextFiles[c][s]
           cached == c \notin Server /\ e.fragment # None
           setUnits == cached /\ hasUnits
           setDiagnostics == /\ cached
                             /\ loaded[c][s] = NotLoaded
                             /\ <<s, e.hash>> \in Warned
       IN  \E u \in IF setUnits
                       THEN WriteBlob(BlobOf("units", s, e.hash, key[c]))
                       ELSE {e.units},
             d \in IF setDiagnostics
                       THEN WriteBlob(BlobOf("diagnostics", s, e.hash, key[c]))
                       ELSE {e.diagnostics} :
             /\ content' = ContentWith((IF setUnits THEN {u} ELSE {}) \cup
                                       (IF setDiagnostics THEN {d} ELSE {}))
             /\ nextFiles' = [nextFiles EXCEPT
                                ![c][s] = IF e.hash = None THEN e ELSE
                                   [e EXCEPT !.meta = m, !.units = u,
                                             !.diagnostics = d]]
  /\ todo' = [todo EXCEPT ![c] = @ \ {s}]
  /\ UNCHANGED <<holder, disk, pc, key, manifest, onDiskCurrent, gcTodo, loaded>>

\* Store::save up to the write: an unchanged scan of a current manifest is
\* not written at all.
Save(c) ==
  LET unchanged == onDiskCurrent[c] /\ nextFiles[c] = manifest[c]
  IN  /\ pc[c] = "record"
      /\ todo[c] = {}
      /\ pc' = [pc EXCEPT ![c] = IF unchanged THEN "saved" ELSE "write"]
      /\ manifest' = [manifest EXCEPT ![c] = nextFiles[c]]
      /\ nextFiles' = [nextFiles EXCEPT ![c] = NoFiles]
      /\ loaded' = [loaded EXCEPT ![c] = [s \in Src |-> NotLoaded]]
      /\ UNCHANGED <<holder, disk, content, key, onDiskCurrent, todo, gcTodo>>

\* atomic_write of manifest.toml.
WriteManifest(c) ==
  /\ pc[c] = "write"
  /\ disk' = [key |-> key[c], files |-> manifest[c]]
  /\ onDiskCurrent' = [onDiskCurrent EXCEPT ![c] = TRUE]
  /\ pc' = [pc EXCEPT ![c] = "list"]
  /\ UNCHANGED <<holder, content, key, manifest, nextFiles, todo, gcTodo, loaded>>

\* Mutation of WriteManifestFails: gc runs although the write failed.
WriteManifestFailsGc(c) ==
  /\ WriteFaults
  /\ pc[c] = "write"
  /\ pc' = [pc EXCEPT ![c] = "list"]
  /\ UNCHANGED <<holder, disk, content, key, manifest, nextFiles,
                 onDiskCurrent, todo, gcTodo, loaded>>

\* Nothing is collected and on_disk_current is left as it was.
WriteManifestFails(c) ==
  /\ WriteFaults
  /\ pc[c] = "write"
  /\ pc' = [pc EXCEPT ![c] = "saved"]
  /\ UNCHANGED <<holder, disk, content, key, manifest, nextFiles,
                 onDiskCurrent, todo, gcTodo, loaded>>

\* gc: list the blob files, then remove those the manifest does not name.
ListBlobs(c) ==
  /\ pc[c] = "list"
  /\ gcTodo' = [gcTodo EXCEPT ![c] = {b \in Blob : content[b] # None}
                                       \ Referenced(manifest[c])]
  /\ pc' = [pc EXCEPT ![c] = "gc"]
  /\ UNCHANGED <<holder, disk, content, key, manifest, nextFiles,
                 onDiskCurrent, todo, loaded>>

RemoveBlob(c, b) ==
  /\ pc[c] = "gc"
  /\ b \in gcTodo[c]
  /\ gcTodo' = [gcTodo EXCEPT ![c] = @ \ {b}]
  /\ \/ content' = [content EXCEPT ![b] = None]
     \/ WriteFaults /\ UNCHANGED content
  /\ UNCHANGED <<holder, disk, pc, key, manifest, nextFiles, onDiskCurrent,
                 todo, loaded>>

GcDone(c) ==
  /\ pc[c] = "gc"
  /\ gcTodo[c] = {}
  /\ pc' = [pc EXCEPT ![c] = "saved"]
  /\ UNCHANGED <<holder, disk, content, key, manifest, nextFiles,
                 onDiskCurrent, todo, gcTodo, loaded>>

\* A server scans again with the store it already holds.
Rescan(c) ==
  /\ pc[c] = "saved"
  /\ c \in Server
  /\ pc' = [pc EXCEPT ![c] = "scan"]
  /\ todo' = [todo EXCEPT ![c] = Src]
  /\ UNCHANGED <<holder, disk, content, key, manifest, nextFiles,
                 onDiskCurrent, gcTodo, loaded>>

\* The store is dropped: after a save, by a build that fails before its save,
\* or with the process wherever it was killed.  The lock goes with the file.
Drop(c) ==
  /\ pc[c] # "closed"
  /\ holder' = IF holder = c THEN None ELSE holder
  /\ pc' = [pc EXCEPT ![c] = "closed"]
  /\ key' = [key EXCEPT ![c] = None]
  /\ manifest' = [manifest EXCEPT ![c] = NoFiles]
  /\ nextFiles' = [nextFiles EXCEPT ![c] = NoFiles]
  /\ onDiskCurrent' = [onDiskCurrent EXCEPT ![c] = FALSE]
  /\ todo' = [todo EXCEPT ![c] = {}]
  /\ gcTodo' = [gcTodo EXCEPT ![c] = {}]
  /\ loaded' = [loaded EXCEPT ![c] = [s \in Src |-> NotLoaded]]
  /\ UNCHANGED <<disk, content>>

-------------------------------------------------------------------------------
(* The environment *)

DamageBlob(b) ==
  /\ Damage
  /\ content[b] # None
  /\ \E x \in {None, Garbage} : content' = [content EXCEPT ![b] = x]
  /\ UNCHANGED <<holder, disk, pc, key, manifest, nextFiles, onDiskCurrent,
                 todo, gcTodo, loaded>>

DamageManifest ==
  /\ Damage
  /\ disk' = NoManifest
  /\ UNCHANGED <<holder, content, pc, key, manifest, nextFiles, onDiskCurrent,
                 todo, gcTodo, loaded>>

-------------------------------------------------------------------------------

Scan(c) ==
  \E s \in Src :
    \/ \E h \in Hash : \/ Restore(c, s, h)
                       \/ \E cacheable \in BOOLEAN : Capture(c, s, h, cacheable)
    \/ LeaveOut(c, s)
    \/ Record(c, s)

Step(c) ==
  \/ \E k \in Key : AcquireLock(c, k) \/ OpenUnlocked(c, k)
  \/ TryOpenBusy(c)
  \/ ReadManifest(c)
  \/ Scan(c)
  \/ Analysed(c)
  \/ Save(c)
  \/ WriteManifest(c)
  \/ WriteManifestFails(c)
  \/ ListBlobs(c)
  \/ \E b \in Blob : RemoveBlob(c, b)
  \/ GcDone(c)
  \/ Rescan(c)
  \/ Drop(c)

Next ==
  \/ \E c \in Client : Step(c)
  \/ \E b \in Blob : DamageBlob(b)
  \/ DamageManifest

Spec == Init /\ [][Next]_vars

-------------------------------------------------------------------------------
(* Properties *)

\* "Every failure degrades to a miss": whatever is lost, damaged, collected or
\* written by somebody else, what a client restores for a source found at
\* content h is the analysis of that source at that content by its compiler.
RestoreSound ==
  \A c \in Client, s \in Src :
    loaded[c][s] # NotLoaded =>
      loaded[c][s].fragment = BlobOf("fragment", s, loaded[c][s].hash, key[c])

\* A warm run reports the warnings a cold run would: a restored source that
\* warns comes with its diagnostics (FileEntry.diagnostics, try_restore).
WarningsReplayed ==
  \A c \in Client \ Server, s \in Src :
    loaded[c][s] # NotLoaded /\ <<s, loaded[c][s].hash>> \in Warned =>
      loaded[c][s].diagnostics =
        BlobOf("diagnostics", s, loaded[c][s].hash, key[c])

\* As long as the lock works and nobody meddles with the files, a manifest on
\* disk never names a blob that is not there: blobs are written before the
\* manifest that names them and gc spares what the manifest names, wherever a
\* process dies in between.
NoDangling ==
  \A b \in Referenced(disk.files) \ {None} : content[b] = b

===============================================================================
