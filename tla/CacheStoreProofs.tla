--------------------------- MODULE CacheStoreProofs ---------------------------
(* Theorems about CacheStore, for every set of clients, sources and keys. *)
EXTENDS CacheStore, TLAPS

\* The absent entry and the empty manifest are well typed.
LEMMA NoEntryType == NoEntry \in Entry /\ NoFiles \in [Src -> Entry]
  BY DEF NoEntry, Entry, Option, NoFiles

\* A client that restored nothing is well typed.
LEMMA NotLoadedType == [s \in Src |-> NotLoaded] \in [Src -> Loaded]
  BY DEF NotLoaded, Loaded, Option

\* BlobOf makes blobs.
LEMMA BlobOfType ==
  ASSUME NEW kind \in Kind, NEW s \in Src, NEW h \in Hash, NEW k \in Key
  PROVE  BlobOf(kind, s, h, k) \in Blob
  BY DEF BlobOf, Blob

\* A write yields the name it was asked for, or nothing.
LEMMA WriteBlobType ==
  ASSUME NEW b \in Blob
  PROVE  WriteBlob(b) \subseteq {b, None}
  BY DEF WriteBlob

\* A read yields a blob or nothing.
LEMMA ReadBlobType ==
  ASSUME NEW b
  PROVE  ReadBlob(b) \in Option(Blob)
  BY DEF ReadBlob, Option

\* Writing blobs keeps the blob directory well typed.
LEMMA ContentWithType ==
  ASSUME TypeOK, NEW W
  PROVE  ContentWith(W) \in [Blob -> Blob \cup {None, Garbage}]
  BY DEF ContentWith, TypeOK

-------------------------------------------------------------------------------
(* The inductive invariant *)

Opened == Phase \ {"closed", "disabled", "locked"}

\* Before it has read the manifest a client has nothing in memory.
Fresh(c) ==
  /\ manifest[c] = NoFiles
  /\ nextFiles[c] = NoFiles
  /\ loaded[c] = [s \in Src |-> NotLoaded]

FreshUntilOpened == \A c \in Client : pc[c] \notin Opened => Fresh(c)

KeyKnown == \A c \in Client : pc[c] \notin {"closed", "disabled"} => key[c] \in Key

\* An entry's fragment is the analysis of that source at the entry's hash by
\* the compiler the key stands for.
FilesSound(files, k) ==
  \A s \in Src : files[s].fragment # None =>
    /\ files[s].hash \in Hash
    /\ files[s].fragment = BlobOf("fragment", s, files[s].hash, k)

EntriesSound ==
  /\ FilesSound(disk.files, disk.key)
  /\ \A c \in Client : FilesSound(manifest[c], key[c])
                       /\ FilesSound(nextFiles[c], key[c])

SoundInv ==
  /\ TypeOK
  /\ FreshUntilOpened
  /\ KeyKnown
  /\ EntriesSound
  /\ RestoreSound

\* An empty manifest is sound under any key.
LEMMA NoFilesSound == ASSUME NEW k PROVE FilesSound(NoFiles, k)
  BY DEF FilesSound, NoFiles, NoEntry

\* The invariant holds of an empty store.
LEMMA SoundInit == Init => SoundInv
  <1> SUFFICES ASSUME Init PROVE SoundInv
    OBVIOUS
  <1>1. TypeOK
    <2>1. NoManifest \in [key: Option(Key), files: [Src -> Entry]]
      BY NoEntryType DEF NoManifest, Option
    <2> QED
      BY <2>1, NoEntryType, NotLoadedType DEF Init, TypeOK, Option, Phase
  <1>2. FreshUntilOpened /\ KeyKnown
    BY DEF Init, FreshUntilOpened, KeyKnown, Fresh
  <1>3. EntriesSound
    BY NoFilesSound DEF Init, EntriesSound, NoManifest
  <1>4. RestoreSound
    BY DEF Init, RestoreSound
  <1> QED
    BY <1>1, <1>2, <1>3, <1>4 DEF SoundInv

\* The effect of Record: blobs W are written and the entry refers to them.
RecordedAs(c, s, m, u, d, W) ==
  /\ u = nextFiles[c][s].units \/ u \in W
  /\ d = nextFiles[c][s].diagnostics \/ d \in W
  /\ content' = ContentWith(W)
  /\ nextFiles' = [nextFiles EXCEPT
                     ![c][s] = IF nextFiles[c][s].hash = None
                                 THEN nextFiles[c][s] ELSE
                        [nextFiles[c][s] EXCEPT !.meta = m, !.units = u,
                                                !.diagnostics = d]]

\* Record writes some blobs and refers the entry to them.
LEMMA RecordShape ==
  ASSUME SoundInv, NEW c \in Client, NEW s \in Src, Record(c, s)
  PROVE  \E m \in Meta, u \in Option(Blob), d \in Option(Blob),
            W \in SUBSET Option(Blob) :
            RecordedAs(c, s, m, u, d, W)
  <1> USE CacheStoreAssumption
  <1> DEFINE e == nextFiles[c][s]
             setDiagnostics == /\ c \notin Server /\ e.fragment # None
                               /\ loaded[c][s] = NotLoaded
                               /\ <<s, e.hash>> \in Warned
             setUnits(h) == c \notin Server /\ e.fragment # None /\ h
             bu == BlobOf("units", s, e.hash, key[c])
             bd == BlobOf("diagnostics", s, e.hash, key[c])
  <1>1. key[c] \in Key
    BY DEF SoundInv, KeyKnown, Record
  <1>2. e.units \in Option(Blob) /\ e.diagnostics \in Option(Blob)
    BY DEF SoundInv, TypeOK, Entry
  <1>3. e.fragment # None => /\ WriteBlob(bu) \subseteq Option(Blob)
                             /\ WriteBlob(bd) \subseteq Option(Blob)
    <2> SUFFICES ASSUME e.fragment # None
                 PROVE  /\ WriteBlob(bu) \subseteq Option(Blob)
                        /\ WriteBlob(bd) \subseteq Option(Blob)
      OBVIOUS
    <2>1. e.hash \in Hash
      BY DEF SoundInv, EntriesSound, FilesSound
    <2>2. bu \in Blob /\ bd \in Blob
      BY <1>1, <2>1, BlobOfType DEF Kind
    <2> QED
      BY <2>2, WriteBlobType DEF Option
  <1>4. PICK m \in Meta, hasUnits \in BOOLEAN :
          \E u \in IF setUnits(hasUnits) THEN WriteBlob(bu) ELSE {e.units},
             d \in IF setDiagnostics THEN WriteBlob(bd) ELSE {e.diagnostics} :
            /\ content' = ContentWith((IF setUnits(hasUnits) THEN {u} ELSE {}) \cup
                                      (IF setDiagnostics THEN {d} ELSE {}))
            /\ nextFiles' = [nextFiles EXCEPT
                               ![c][s] = IF e.hash = None THEN e ELSE
                                  [e EXCEPT !.meta = m, !.units = u,
                                            !.diagnostics = d]]
    BY DEF Record
  <1>5. PICK u \in IF setUnits(hasUnits) THEN WriteBlob(bu) ELSE {e.units},
             d \in IF setDiagnostics THEN WriteBlob(bd) ELSE {e.diagnostics} :
            /\ content' = ContentWith((IF setUnits(hasUnits) THEN {u} ELSE {}) \cup
                                      (IF setDiagnostics THEN {d} ELSE {}))
            /\ nextFiles' = [nextFiles EXCEPT
                               ![c][s] = IF e.hash = None THEN e ELSE
                                  [e EXCEPT !.meta = m, !.units = u,
                                            !.diagnostics = d]]
    BY <1>4
  <1> DEFINE W == (IF setUnits(hasUnits) THEN {u} ELSE {}) \cup
                  (IF setDiagnostics THEN {d} ELSE {})
  <1>6. u \in Option(Blob) /\ (u = e.units \/ u \in W)
    BY <1>2, <1>3, <1>5
  <1>7. d \in Option(Blob) /\ (d = e.diagnostics \/ d \in W)
    BY <1>2, <1>3, <1>5
  <1>8. W \in SUBSET Option(Blob)
    BY <1>6, <1>7
  <1>9. RecordedAs(c, s, m, u, d, W)
    BY <1>5, <1>6, <1>7 DEF RecordedAs
  <1> QED
    BY <1>6, <1>7, <1>8, <1>9

\* Every step preserves the invariant.
LEMMA SoundStep == SoundInv /\ [Next]_vars => SoundInv'
  <1> SUFFICES ASSUME SoundInv, [Next]_vars PROVE SoundInv'
    OBVIOUS
  <1> USE CacheStoreAssumption
  <1>1. ASSUME NEW c \in Client, NEW k \in Key,
               AcquireLock(c, k) \/ OpenUnlocked(c, k)
        PROVE  SoundInv'
    <2>1. /\ pc[c] = "closed"
          /\ holder' \in {c, holder}
          /\ pc' = [pc EXCEPT ![c] = "locked"]
          /\ key' = [key EXCEPT ![c] = k]
          /\ UNCHANGED <<disk, content, manifest, nextFiles, onDiskCurrent,
                         todo, gcTodo, loaded>>
      BY <1>1 DEF AcquireLock, OpenUnlocked
    <2>2. TypeOK'
      BY <2>1 DEF SoundInv, TypeOK, Phase, Option
    <2>3. Fresh(c) /\ Fresh(c)'
      BY <2>1 DEF SoundInv, FreshUntilOpened, Fresh, Opened
    <2>4. FreshUntilOpened' /\ KeyKnown'
      BY <2>1, <2>3 DEF SoundInv, TypeOK, FreshUntilOpened, KeyKnown, Fresh, Opened
    <2>5. EntriesSound'
      <3>1. ASSUME NEW d \in Client
            PROVE  FilesSound(manifest'[d], key'[d]) /\ FilesSound(nextFiles'[d], key'[d])
        <4>1. CASE d = c
          BY <4>1, <2>1, <2>3, NoFilesSound DEF Fresh
        <4>2. CASE d # c
          BY <4>2, <2>1 DEF SoundInv, TypeOK, EntriesSound
        <4> QED
          BY <4>1, <4>2
      <3> QED
        BY <2>1, <3>1 DEF SoundInv, EntriesSound
    <2>6. RestoreSound'
      BY <2>1, <2>3 DEF SoundInv, TypeOK, RestoreSound, Fresh
    <2> QED
      BY <2>2, <2>4, <2>5, <2>6 DEF SoundInv
  <1>2. ASSUME NEW c \in Client, TryOpenBusy(c)
        PROVE  SoundInv'
    <2>1. TypeOK'
      BY <1>2 DEF SoundInv, TypeOK, TryOpenBusy, Phase
    <2>2. FreshUntilOpened' /\ KeyKnown'
      BY <1>2 DEF SoundInv, TypeOK, TryOpenBusy, FreshUntilOpened, KeyKnown, Fresh, Opened
    <2>3. EntriesSound' /\ RestoreSound'
      BY <1>2 DEF SoundInv, TypeOK, TryOpenBusy, EntriesSound, FilesSound, RestoreSound
    <2> QED
      BY <2>1, <2>2, <2>3 DEF SoundInv
  <1>3. ASSUME NEW c \in Client, ReadManifest(c)
        PROVE  SoundInv'
    <2>1. TypeOK'
      BY <1>3, NoEntryType DEF SoundInv, TypeOK, ReadManifest, Phase
    <2>2. FreshUntilOpened' /\ KeyKnown'
      BY <1>3 DEF SoundInv, TypeOK, ReadManifest, FreshUntilOpened, KeyKnown, Fresh, Opened, Phase
    <2>3. EntriesSound'
      BY <1>3, NoFilesSound DEF SoundInv, TypeOK, ReadManifest, EntriesSound, FilesSound
    <2>4. RestoreSound'
      BY <1>3 DEF SoundInv, TypeOK, ReadManifest, RestoreSound
    <2> QED
      BY <2>1, <2>2, <2>3, <2>4 DEF SoundInv
  <1>4. ASSUME NEW c \in Client, NEW s \in Src, NEW h \in Hash, Restore(c, s, h)
        PROVE  SoundInv'
    <2>1. TypeOK'
      BY <1>4, ReadBlobType DEF SoundInv, TypeOK, Restore, Loaded, Option
    <2>2. FreshUntilOpened' /\ KeyKnown'
      BY <1>4 DEF SoundInv, TypeOK, Restore, FreshUntilOpened, KeyKnown, Fresh, Opened, Phase
    <2>3. EntriesSound'
      BY <1>4 DEF SoundInv, TypeOK, Restore, EntriesSound, FilesSound
    <2>4. RestoreSound'
      BY <1>4 DEF SoundInv, TypeOK, Restore, Hit, ReadBlob, RestoreSound, EntriesSound, FilesSound
    <2> QED
      BY <2>1, <2>2, <2>3, <2>4 DEF SoundInv
  <1>5. ASSUME NEW c \in Client, NEW s \in Src, NEW h \in Hash,
               NEW cacheable \in BOOLEAN, Capture(c, s, h, cacheable)
        PROVE  SoundInv'
    <2>0. key[c] \in Key
      BY <1>5 DEF SoundInv, KeyKnown, Capture
    <2> DEFINE b == BlobOf("fragment", s, h, key[c])
    <2>1. PICK f \in {b, None} :
            /\ content' = ContentWith({f})
            /\ nextFiles' = [nextFiles EXCEPT
                               ![c][s] = [NoEntry EXCEPT !.hash = h, !.fragment = f]]
      BY <1>5, <2>0, BlobOfType, WriteBlobType DEF Capture, Kind
    <2>2. [NoEntry EXCEPT !.hash = h, !.fragment = f] \in Entry
      <3>1. f \in Option(Blob)
        BY <2>0, BlobOfType DEF Option, Kind
      <3> QED
        BY <3>1, NoEntryType DEF Entry, Option
    <2>3. TypeOK'
      BY <1>5, <2>1, <2>2, ContentWithType DEF SoundInv, TypeOK, Capture
    <2>4. FreshUntilOpened' /\ KeyKnown'
      BY <1>5 DEF SoundInv, TypeOK, Capture, FreshUntilOpened, KeyKnown, Fresh, Opened, Phase
    <2>5. EntriesSound'
      <3>1. /\ UNCHANGED <<disk, key, manifest>>
            /\ nextFiles'[c][s] = [NoEntry EXCEPT !.hash = h, !.fragment = f]
            /\ \A d \in Client, x \in Src :
                 ~(d = c /\ x = s) => nextFiles'[d][x] = nextFiles[d][x]
        BY <1>5, <2>1 DEF SoundInv, TypeOK, Capture
      <3>2. nextFiles'[c][s].hash = h /\ nextFiles'[c][s].fragment \in {b, None}
        BY <3>1, <2>1 DEF NoEntry
      <3>3. ASSUME NEW d \in Client
            PROVE  FilesSound(nextFiles'[d], key[d])
        <4> SUFFICES ASSUME NEW x \in Src, nextFiles'[d][x].fragment # None
                     PROVE  /\ nextFiles'[d][x].hash \in Hash
                            /\ nextFiles'[d][x].fragment =
                                 BlobOf("fragment", x, nextFiles'[d][x].hash, key[d])
          BY DEF FilesSound
        <4>1. CASE d = c /\ x = s
          BY <4>1, <3>2
        <4>2. CASE ~(d = c /\ x = s)
          BY <4>2, <3>1 DEF SoundInv, EntriesSound, FilesSound
        <4> QED
          BY <4>1, <4>2
      <3> QED
        BY <3>1, <3>3 DEF SoundInv, EntriesSound
    <2>6. RestoreSound'
      BY <1>5 DEF SoundInv, Capture, RestoreSound
    <2> QED
      BY <2>3, <2>4, <2>5, <2>6 DEF SoundInv
  <1>6. ASSUME NEW c \in Client, NEW s \in Src, LeaveOut(c, s)
        PROVE  SoundInv'
    <2>1. TypeOK'
      BY <1>6 DEF SoundInv, TypeOK, LeaveOut
    <2>2. FreshUntilOpened' /\ KeyKnown' /\ EntriesSound' /\ RestoreSound'
      BY <1>6 DEF SoundInv, LeaveOut, FreshUntilOpened, KeyKnown, Fresh,
                  EntriesSound, RestoreSound
    <2> QED
      BY <2>1, <2>2 DEF SoundInv
  <1>7. ASSUME NEW c \in Client, NEW s \in Src, Record(c, s)
        PROVE  SoundInv'
    <2> DEFINE e == nextFiles[c][s]
    <2>0. key[c] \in Key
      BY <1>7 DEF SoundInv, KeyKnown, Record
    <2>1. PICK m \in Meta, u \in Option(Blob), d \in Option(Blob),
               W \in SUBSET Option(Blob) :
            RecordedAs(c, s, m, u, d, W)
      BY <1>7, RecordShape
    <2> DEFINE ne == nextFiles'[c][s]
    <2>2. /\ ne \in Entry
          /\ ne.hash = e.hash
          /\ ne.fragment = e.fragment
          /\ nextFiles' = [nextFiles EXCEPT ![c][s] = ne]
      <3>1. e \in Entry
        BY DEF SoundInv, TypeOK
      <3> QED
        BY <2>1, <3>1 DEF SoundInv, TypeOK, Entry, RecordedAs
    <2>3. TypeOK'
      BY <1>7, <2>1, <2>2, ContentWithType DEF SoundInv, TypeOK, Record, RecordedAs
    <2>4. FreshUntilOpened' /\ KeyKnown'
      BY <1>7 DEF SoundInv, TypeOK, Record, FreshUntilOpened, KeyKnown, Fresh, Opened, Phase
    <2>5. EntriesSound'
      BY <1>7, <2>2 DEF SoundInv, TypeOK, Record, EntriesSound, FilesSound
    <2>6. RestoreSound'
      BY <1>7 DEF SoundInv, Record, RestoreSound
    <2> QED
      BY <2>3, <2>4, <2>5, <2>6 DEF SoundInv
  <1>8. ASSUME NEW c \in Client, Analysed(c) \/ Rescan(c) \/ GcDone(c)
                                 \/ WriteManifestFails(c) \/ ListBlobs(c)
        PROVE  SoundInv'
    <2>1. /\ pc[c] \in Opened
          /\ \E p \in Opened : pc' = [pc EXCEPT ![c] = p]
          /\ UNCHANGED <<disk, key, manifest, nextFiles, loaded>>
      BY <1>8 DEF Analysed, Rescan, GcDone, WriteManifestFails, ListBlobs, Opened, Phase
    <2>2. TypeOK'
      <3>1. CASE Analysed(c)
        BY <3>1 DEF SoundInv, TypeOK, Analysed, Phase
      <3>4. CASE Rescan(c)
        BY <3>4 DEF SoundInv, TypeOK, Rescan, Phase
      <3>2. CASE GcDone(c) \/ WriteManifestFails(c)
        BY <3>2 DEF SoundInv, TypeOK, GcDone, WriteManifestFails, Phase
      <3>3. CASE ListBlobs(c)
        BY <3>3 DEF SoundInv, TypeOK, ListBlobs, Phase
      <3> QED
        BY <1>8, <3>1, <3>2, <3>3, <3>4
    <2>3. FreshUntilOpened' /\ KeyKnown' /\ EntriesSound' /\ RestoreSound'
      BY <2>1 DEF SoundInv, TypeOK, FreshUntilOpened, KeyKnown, Fresh, Opened,
                  EntriesSound, RestoreSound
    <2> QED
      BY <2>2, <2>3 DEF SoundInv
  <1>9. ASSUME NEW c \in Client, Save(c)
        PROVE  SoundInv'
    <2>1. TypeOK'
      BY <1>9, NoEntryType, NotLoadedType DEF SoundInv, TypeOK, Save, Phase
    <2>2. FreshUntilOpened' /\ KeyKnown'
      BY <1>9 DEF SoundInv, TypeOK, Save, FreshUntilOpened, KeyKnown, Fresh, Opened, Phase
    <2>3. EntriesSound'
      <3>1. ASSUME NEW d \in Client
            PROVE  FilesSound(manifest'[d], key'[d]) /\ FilesSound(nextFiles'[d], key'[d])
        BY <1>9, NoFilesSound DEF SoundInv, TypeOK, Save, EntriesSound
      <3> QED
        BY <1>9, <3>1 DEF SoundInv, Save, EntriesSound
    <2>4. RestoreSound'
      BY <1>9 DEF SoundInv, TypeOK, Save, RestoreSound
    <2> QED
      BY <2>1, <2>2, <2>3, <2>4 DEF SoundInv
  <1>10. ASSUME NEW c \in Client, WriteManifest(c)
         PROVE  SoundInv'
    <2>1. TypeOK'
      BY <1>10 DEF SoundInv, TypeOK, WriteManifest, Phase
    <2>2. FreshUntilOpened' /\ KeyKnown'
      BY <1>10 DEF SoundInv, TypeOK, WriteManifest, FreshUntilOpened, KeyKnown, Fresh,
                   Opened, Phase
    <2>3. EntriesSound' /\ RestoreSound'
      BY <1>10 DEF SoundInv, WriteManifest, EntriesSound, RestoreSound
    <2> QED
      BY <2>1, <2>2, <2>3 DEF SoundInv
  <1>11. ASSUME NEW c \in Client, NEW b \in Blob, RemoveBlob(c, b)
         PROVE  SoundInv'
    <2>1. TypeOK'
      BY <1>11 DEF SoundInv, TypeOK, RemoveBlob
    <2>2. FreshUntilOpened' /\ KeyKnown' /\ EntriesSound' /\ RestoreSound'
      BY <1>11 DEF SoundInv, RemoveBlob, FreshUntilOpened, KeyKnown, Fresh,
                   EntriesSound, RestoreSound
    <2> QED
      BY <2>1, <2>2 DEF SoundInv
  <1>12. ASSUME NEW c \in Client, Drop(c)
         PROVE  SoundInv'
    <2>1. TypeOK'
      BY <1>12, NoEntryType, NotLoadedType DEF SoundInv, TypeOK, Drop, Phase, Option
    <2>2. FreshUntilOpened' /\ KeyKnown'
      BY <1>12 DEF SoundInv, TypeOK, Drop, FreshUntilOpened, KeyKnown, Fresh, Opened
    <2>3. EntriesSound'
      <3>1. ASSUME NEW d \in Client
            PROVE  FilesSound(manifest'[d], key'[d]) /\ FilesSound(nextFiles'[d], key'[d])
        BY <1>12, NoFilesSound DEF SoundInv, TypeOK, Drop, EntriesSound
      <3> QED
        BY <1>12, <3>1 DEF SoundInv, Drop, EntriesSound
    <2>4. RestoreSound'
      BY <1>12 DEF SoundInv, TypeOK, Drop, RestoreSound
    <2> QED
      BY <2>1, <2>2, <2>3, <2>4 DEF SoundInv
  <1>13. ASSUME NEW b \in Blob, DamageBlob(b)
         PROVE  SoundInv'
    <2>1. TypeOK'
      BY <1>13 DEF SoundInv, TypeOK, DamageBlob
    <2>2. FreshUntilOpened' /\ KeyKnown' /\ EntriesSound' /\ RestoreSound'
      BY <1>13 DEF SoundInv, DamageBlob, FreshUntilOpened, KeyKnown, Fresh,
                   EntriesSound, RestoreSound
    <2> QED
      BY <2>1, <2>2 DEF SoundInv
  <1>14. ASSUME DamageManifest
         PROVE  SoundInv'
    <2>1. TypeOK'
      BY <1>14, NoEntryType DEF SoundInv, TypeOK, DamageManifest, NoManifest, Option
    <2>2. EntriesSound'
      BY <1>14, NoFilesSound DEF SoundInv, DamageManifest, EntriesSound, NoManifest
    <2>3. FreshUntilOpened' /\ KeyKnown' /\ RestoreSound'
      BY <1>14 DEF SoundInv, DamageManifest, FreshUntilOpened, KeyKnown, Fresh, RestoreSound
    <2> QED
      BY <2>1, <2>2, <2>3 DEF SoundInv
  <1>15. CASE UNCHANGED vars
    BY <1>15 DEF vars, SoundInv, TypeOK, FreshUntilOpened, KeyKnown, Fresh,
                 EntriesSound, RestoreSound
  <1> QED
    BY <1>1, <1>2, <1>3, <1>4, <1>5, <1>6, <1>7, <1>8, <1>9, <1>10, <1>11,
       <1>12, <1>13, <1>14, <1>15
       DEF Next, Step, Scan

\* Every state of the store's protocol is well typed.
THEOREM TypeCorrect == Spec => []TypeOK
  <1>1. SoundInv => TypeOK
    BY DEF SoundInv
  <1> QED
    BY <1>1, SoundInit, SoundStep, PTL DEF Spec

\* Any number of clients, with or without the lock, with any write failing and
\* any file of the store damaged or deleted at any moment: what Restore hands
\* to a client is the analysis of that source at that content by its compiler.
THEOREM RestoreCorrect == Spec => []RestoreSound
  <1>1. SoundInv => RestoreSound
    BY DEF SoundInv
  <1> QED
    BY <1>1, SoundInit, SoundStep, PTL DEF Spec

-------------------------------------------------------------------------------
(* No dangling reference, when the lock works and nobody meddles *)

\* Only the holder of the lock is past opening the store.
LockInv == \A c \in Client : pc[c] \notin {"closed", "disabled"} => holder = c

\* Every blob named by these entries is intact.
Present(files) == \A s \in Src : \A b \in Refs(files[s]) : b # None => content[b] = b

\* What the disk and the clients' memory refer to is intact; a client that
\* collects garbage has just written its manifest and has no entries in progress.
PresentInv ==
  /\ Present(disk.files)
  /\ \A c \in Client :
       /\ Present(manifest[c])
       /\ Present(nextFiles[c])
       /\ pc[c] \in {"list", "gc"} =>
            disk.files = manifest[c] /\ nextFiles[c] = NoFiles
       /\ pc[c] = "write" => nextFiles[c] = NoFiles
       /\ \A s \in Src : gcTodo[c] \cap Refs(manifest[c][s]) = {}
       /\ pc[c] # "gc" => gcTodo[c] = {}

\* Present of the manifest on disk is NoDangling.
LEMMA PresentIsNoDangling == Present(disk.files) <=> NoDangling
  BY DEF Present, NoDangling, Referenced

\* An empty manifest names no blob.
LEMMA NoFilesPresent == Present(NoFiles)
  BY DEF Present, NoFiles, NoEntry, Refs

\* Writing blobs damages none.
LEMMA ContentWithPresent ==
  ASSUME NEW files, NEW W, content' = ContentWith(W), Present(files),
         \A s \in Src : Refs(files[s]) \subseteq Option(Blob)
  PROVE  \A s \in Src : \A b \in Refs(files[s]) : b # None => content'[b] = b
  BY DEF Present, ContentWith, Option

\* What an entry refers to is a blob or None.
LEMMA RefsType ==
  ASSUME NEW e \in Entry
  PROVE  Refs(e) \subseteq Option(Blob)
  BY DEF Refs, Entry

\* Nobody holds the lock at first.
LEMMA LockInit == Init => LockInv /\ PresentInv
  <1> SUFFICES ASSUME Init PROVE LockInv /\ PresentInv
    OBVIOUS
  <1>1. LockInv
    BY DEF Init, LockInv
  <1>2. PresentInv
    BY NoFilesPresent DEF Init, PresentInv, NoManifest
  <1> QED
    BY <1>1, <1>2

\* With a working lock, only its holder is inside the protocol after any step.
LEMMA LockStep ==
  ASSUME ~LockFaults, SoundInv, LockInv, [Next]_vars
  PROVE  LockInv'
  <1> USE CacheStoreAssumption
  <1>1. ASSUME NEW c \in Client, NEW k \in Key, AcquireLock(c, k)
        PROVE  LockInv'
    BY <1>1 DEF AcquireLock, LockInv, SoundInv, TypeOK
  <1>2. ASSUME NEW c \in Client, Drop(c)
        PROVE  LockInv'
    BY <1>2 DEF Drop, LockInv, SoundInv, TypeOK
  <1>3. ASSUME NEW c \in Client, TryOpenBusy(c) \/ ReadManifest(c) \/ Analysed(c)
               \/ Save(c) \/ WriteManifest(c) \/ WriteManifestFails(c)
               \/ ListBlobs(c) \/ GcDone(c) \/ Rescan(c)
        PROVE  LockInv'
    <2>1. /\ holder' = holder
          /\ \E p \in Phase : pc' = [pc EXCEPT ![c] = p]
          /\ pc[c] \in {"closed", "disabled"} => pc'[c] = "disabled"
      BY <1>3 DEF TryOpenBusy, ReadManifest, Analysed, Save, WriteManifest,
                  WriteManifestFails, ListBlobs, GcDone, Rescan, Phase, SoundInv, TypeOK
    <2> QED
      BY <2>1 DEF LockInv, SoundInv, TypeOK
  <1>4. ASSUME NEW c \in Client, Scan(c)
        PROVE  LockInv'
    BY <1>4 DEF Scan, Restore, Capture, LeaveOut, Record, LockInv
  <1>5. ASSUME NEW c \in Client, NEW b \in Blob, RemoveBlob(c, b)
        PROVE  LockInv'
    BY <1>5 DEF RemoveBlob, LockInv
  <1>6. CASE DamageManifest \/ \E b \in Blob : DamageBlob(b)
    BY <1>6 DEF DamageManifest, DamageBlob, LockInv
  <1>7. CASE UNCHANGED vars
    BY <1>7 DEF vars, LockInv
  <1> QED
    BY <1>1, <1>2, <1>3, <1>4, <1>5, <1>6, <1>7 DEF Next, Step, OpenUnlocked

\* Every step keeps the blobs that are named.
LEMMA PresentStep ==
  ASSUME ~LockFaults, ~Damage, SoundInv, LockInv, PresentInv, [Next]_vars
  PROVE  PresentInv'
  <1> USE CacheStoreAssumption
  <1>0. /\ \A s \in Src : Refs(disk.files[s]) \subseteq Option(Blob)
        /\ \A c \in Client, s \in Src : /\ Refs(manifest[c][s]) \subseteq Option(Blob)
                                        /\ Refs(nextFiles[c][s]) \subseteq Option(Blob)
    BY RefsType DEF SoundInv, TypeOK
  <1>1. ASSUME NEW c \in Client,
               UNCHANGED <<disk, content, manifest, nextFiles>>,
               gcTodo' = gcTodo,
               pc[c] # "gc" \/ gcTodo[c] = {},
               NEW p \in Phase \ {"list", "gc", "write"}, pc' = [pc EXCEPT ![c] = p]
        PROVE  PresentInv'
    BY <1>1 DEF PresentInv, Present, SoundInv, TypeOK
  <1>2. ASSUME NEW c \in Client, NEW k \in Key, AcquireLock(c, k)
        PROVE  PresentInv'
    BY <1>1, <1>2 DEF AcquireLock, Phase
  <1>3. ASSUME NEW c \in Client, TryOpenBusy(c) \/ Analysed(c) \/ Rescan(c)
                                 \/ GcDone(c) \/ WriteManifestFails(c)
        PROVE  PresentInv'
    BY <1>1, <1>3 DEF TryOpenBusy, Analysed, Rescan, GcDone, WriteManifestFails, Phase
  <1>4. ASSUME NEW c \in Client, ReadManifest(c)
        PROVE  PresentInv'
    <2>1. Fresh(c)
      BY <1>4 DEF ReadManifest, SoundInv, FreshUntilOpened, Opened
    <2> QED
      BY <1>4, NoFilesPresent DEF ReadManifest, PresentInv, Present, SoundInv, TypeOK
  <1>5. ASSUME NEW c \in Client, NEW s \in Src, NEW h \in Hash, Restore(c, s, h)
        PROVE  PresentInv'
    BY <1>5 DEF Restore, PresentInv, Present, SoundInv, TypeOK
  <1>6. ASSUME NEW c \in Client, NEW s \in Src, NEW h \in Hash,
               NEW cacheable \in BOOLEAN, Capture(c, s, h, cacheable)
        PROVE  PresentInv'
    <2>0. key[c] \in Key
      BY <1>6 DEF SoundInv, KeyKnown, Capture
    <2>1. PICK f \in Option(Blob) :
            /\ content' = ContentWith({f})
            /\ nextFiles' = [nextFiles EXCEPT
                               ![c][s] = [NoEntry EXCEPT !.hash = h, !.fragment = f]]
      <3> DEFINE b == BlobOf("fragment", s, h, key[c])
      <3>1. b \in Blob /\ WriteBlob(b) \subseteq {b, None}
        BY <2>0, BlobOfType, WriteBlobType DEF Kind
      <3> HIDE DEF b
      <3>2. (IF cacheable THEN WriteBlob(b) ELSE {None}) \subseteq Option(Blob)
        BY <3>1 DEF Option
      <3> USE DEF b
      <3> QED
        BY <1>6, <3>2 DEF Capture
    <2>2. f # None => content'[f] = f
      BY <2>1 DEF ContentWith, Option
    <2>3. Refs(nextFiles'[c][s]) \subseteq {f, None}
      BY <2>1 DEF SoundInv, TypeOK, NoEntry, Refs
    <2>4. ASSUME NEW files, Present(files),
                 \A x \in Src : Refs(files[x]) \subseteq Option(Blob)
          PROVE  \A x \in Src : \A b \in Refs(files[x]) : b # None => content'[b] = b
      BY <2>1, <2>4, ContentWithPresent
    <2>5. Present(disk.files)' /\ \A d \in Client : Present(manifest[d])'
      BY <1>6, <1>0, <2>4 DEF Capture, PresentInv, Present
    <2>6. \A d \in Client : Present(nextFiles[d])'
      <3> SUFFICES ASSUME NEW d \in Client, NEW x \in Src, NEW b \in Refs(nextFiles'[d][x]),
                          b # None
                   PROVE  content'[b] = b
        BY DEF Present
      <3>1. CASE d = c /\ x = s
        BY <3>1, <2>2, <2>3
      <3>2. CASE ~(d = c /\ x = s)
        <4>1. nextFiles'[d][x] = nextFiles[d][x]
          BY <3>2, <2>1 DEF SoundInv, TypeOK
        <4> QED
          BY <4>1, <1>0, <2>4 DEF PresentInv
      <3> QED
        BY <3>1, <3>2
    <2> QED
      BY <1>6, <2>1, <2>5, <2>6 DEF Capture, PresentInv, SoundInv, TypeOK
  <1>7. ASSUME NEW c \in Client, NEW s \in Src, LeaveOut(c, s)
        PROVE  PresentInv'
    BY <1>7 DEF LeaveOut, PresentInv, Present
  <1>8. ASSUME NEW c \in Client, NEW s \in Src, Record(c, s)
        PROVE  PresentInv'
    <2> DEFINE e == nextFiles[c][s]
    <2>0. key[c] \in Key
      BY <1>8 DEF SoundInv, KeyKnown, Record
    <2>1. PICK m \in Meta, u \in Option(Blob), d \in Option(Blob),
               W \in SUBSET Option(Blob) :
            RecordedAs(c, s, m, u, d, W)
      BY <1>8, RecordShape
    <2>2. ASSUME NEW files, Present(files),
                 \A x \in Src : Refs(files[x]) \subseteq Option(Blob)
          PROVE  \A x \in Src : \A b \in Refs(files[x]) : b # None => content'[b] = b
      BY <2>1, <2>2, ContentWithPresent DEF RecordedAs
    <2>3. \A b \in Refs(e) : b # None => content'[b] = b
      BY <1>0, <2>2 DEF PresentInv
    <2>4. \A b \in {u, d} : b # None => content'[b] = b
      BY <2>1, <2>3 DEF ContentWith, Option, Refs, RecordedAs
    <2>5. Refs(nextFiles'[c][s]) \subseteq Refs(e) \cup {u, d}
      <3>1. e \in Entry
        BY DEF SoundInv, TypeOK
      <3> QED
        BY <2>1, <3>1 DEF SoundInv, TypeOK, Refs, Entry, RecordedAs
    <2>6. Present(disk.files)' /\ \A x \in Client : Present(manifest[x])'
      BY <1>8, <1>0, <2>2 DEF Record, PresentInv, Present
    <2>7. \A x \in Client : Present(nextFiles[x])'
      <3> SUFFICES ASSUME NEW x \in Client, NEW y \in Src, NEW b \in Refs(nextFiles'[x][y]),
                          b # None
                   PROVE  content'[b] = b
        BY DEF Present
      <3>1. CASE x = c /\ y = s
        BY <3>1, <2>3, <2>4, <2>5
      <3>2. CASE ~(x = c /\ y = s)
        <4>1. nextFiles'[x][y] = nextFiles[x][y]
          BY <3>2, <2>1 DEF SoundInv, TypeOK, RecordedAs
        <4> QED
          BY <4>1, <1>0, <2>2 DEF PresentInv
      <3> QED
        BY <3>1, <3>2
    <2> QED
      BY <1>8, <2>1, <2>6, <2>7 DEF Record, PresentInv, SoundInv, TypeOK, RecordedAs
  <1>9. ASSUME NEW c \in Client, Save(c)
        PROVE  PresentInv'
    BY <1>9, NoFilesPresent DEF Save, PresentInv, Present, SoundInv, TypeOK
  <1>10. ASSUME NEW c \in Client, WriteManifest(c)
         PROVE  PresentInv'
    BY <1>10 DEF WriteManifest, PresentInv, Present, SoundInv, TypeOK, LockInv
  <1>11. ASSUME NEW c \in Client, ListBlobs(c)
         PROVE  PresentInv'
    BY <1>11 DEF ListBlobs, Referenced, PresentInv, Present, SoundInv, TypeOK, LockInv
  <1>12. ASSUME NEW c \in Client, NEW b \in Blob, RemoveBlob(c, b)
         PROVE  PresentInv'
    <2>1. /\ disk.files = manifest[c]
          /\ nextFiles[c] = NoFiles
          /\ \A s \in Src : b \notin Refs(manifest[c][s])
      BY <1>12 DEF RemoveBlob, PresentInv
    <2>2. \A d \in Client \ {c} : manifest[d] = NoFiles /\ nextFiles[d] = NoFiles
      BY <1>12 DEF RemoveBlob, LockInv, SoundInv, FreshUntilOpened, Fresh, Opened
    <2>3. \A x \in Blob : x # b => content'[x] = content[x]
      BY <1>12 DEF RemoveBlob, SoundInv, TypeOK
    <2>4. \A s \in Src : Refs(NoFiles[s]) = {None}
      BY DEF NoFiles, NoEntry, Refs
    <2>5. Present(disk.files)' /\ \A d \in Client : Present(manifest[d])' /\ Present(nextFiles[d])'
      <3>1. ASSUME NEW files, Present(files),
                   \A s \in Src : Refs(files[s]) \subseteq Option(Blob),
                   \A s \in Src : b \notin Refs(files[s])
            PROVE  \A s \in Src : \A x \in Refs(files[s]) : x # None => content'[x] = x
        BY <2>3, <3>1 DEF Present, Option
      <3>2. \A s \in Src : b \notin Refs(disk.files[s])
        BY <2>1
      <3>3. \A d \in Client, s \in Src : b \notin Refs(manifest[d][s]) /\ b \notin Refs(nextFiles[d][s])
        BY <2>1, <2>2, <2>4
      <3> QED
        BY <1>12, <1>0, <3>1, <3>2, <3>3 DEF RemoveBlob, PresentInv, Present
    <2> QED
      BY <1>12, <2>5 DEF RemoveBlob, PresentInv, SoundInv, TypeOK
  <1>13. ASSUME NEW c \in Client, Drop(c)
         PROVE  PresentInv'
    BY <1>13, NoFilesPresent DEF Drop, PresentInv, Present, SoundInv, TypeOK
  <1>14. CASE UNCHANGED vars
    BY <1>14 DEF vars, PresentInv, Present
  <1> QED
    BY <1>2, <1>3, <1>4, <1>5, <1>6, <1>7, <1>8, <1>9, <1>10, <1>11, <1>12,
       <1>13, <1>14
       DEF Next, Step, Scan, OpenUnlocked, DamageBlob, DamageManifest

\* If the file system honours the lock and nothing else touches the store, no
\* manifest on disk ever names a missing blob: not while blobs are collected,
\* not after a failed write, not after a process is killed at any step.
THEOREM NoDanglingCorrect ==
  ASSUME ~LockFaults, ~Damage
  PROVE  Spec => []NoDangling
  <1>1. Init => SoundInv /\ LockInv /\ PresentInv
    BY SoundInit, LockInit
  <1>2. SoundInv /\ LockInv /\ PresentInv /\ [Next]_vars
          => (SoundInv /\ LockInv /\ PresentInv)'
    BY SoundStep, LockStep, PresentStep
  <1>3. PresentInv => NoDangling
    BY PresentIsNoDangling DEF PresentInv
  <1> QED
    BY <1>1, <1>2, <1>3, PTL DEF Spec
-------------------------------------------------------------------------------
(* The warnings of a warm run, when builders share the store and writes succeed *)

\* An entry a client may restore carries the diagnostics of its content.
Warns(e, s, k) ==
  e.fragment # None /\ <<s, e.hash>> \in Warned =>
    e.diagnostics = BlobOf("diagnostics", s, e.hash, k)

\* A fresh entry of nextFiles gets its diagnostics only at its Record: until
\* then it belongs to a source that was analysed and not restored.
Unrecorded(c, s) ==
  /\ loaded[c][s] = NotLoaded
  /\ pc[c] = "scan" \/ (pc[c] = "record" /\ s \in todo[c])

WarnInv ==
  /\ \A s \in Src : Warns(disk.files[s], s, disk.key)
  /\ \A c \in Client, s \in Src :
       /\ Warns(manifest[c][s], s, key[c])
       /\ pc[c] = "scan" /\ s \in todo[c] => loaded[c][s] = NotLoaded
       /\ Warns(nextFiles[c][s], s, key[c]) \/ Unrecorded(c, s)
  /\ WarningsReplayed

\* An absent entry is never restored.
LEMMA NoFilesWarn == \A s \in Src : \A k : Warns(NoFiles[s], s, k)
  BY DEF Warns, NoFiles, NoEntry

\* An empty store loses no warning.
LEMMA WarnInit == Init => WarnInv
  <1> SUFFICES ASSUME Init PROVE WarnInv
    OBVIOUS
  <1>1. \A s \in Src : Warns(disk.files[s], s, disk.key)
    BY NoFilesWarn DEF Init, NoManifest
  <1>2. \A c \in Client, s \in Src :
          /\ Warns(manifest[c][s], s, key[c])
          /\ pc[c] # "scan"
          /\ Warns(nextFiles[c][s], s, key[c])
    BY NoFilesWarn DEF Init
  <1>3. WarningsReplayed
    BY DEF Init, WarningsReplayed
  <1> QED
    BY <1>1, <1>2, <1>3 DEF WarnInv

\* What a builder's Record leaves in the entry carries its diagnostics, if
\* writes succeed.
LEMMA RecordWarns ==
  ASSUME ~WriteFaults, Server = {}, SoundInv, WarnInv,
         NEW c \in Client, NEW s \in Src, Record(c, s)
  PROVE  /\ Warns(nextFiles'[c][s], s, key[c])
         /\ \A d \in Client, x \in Src :
              ~(d = c /\ x = s) => nextFiles'[d][x] = nextFiles[d][x]
  <1> USE CacheStoreAssumption
  <1> DEFINE e == nextFiles[c][s]
             bu == BlobOf("units", s, e.hash, key[c])
             bd == BlobOf("diagnostics", s, e.hash, key[c])
             setDiagnostics == /\ c \notin Server /\ e.fragment # None
                               /\ loaded[c][s] = NotLoaded
                               /\ <<s, e.hash>> \in Warned
  <1>1. e \in Entry /\ e.fragment # None => e.hash # None
    BY DEF SoundInv, EntriesSound, FilesSound
  <1>2. WriteBlob(bd) = {bd}
    BY DEF WriteBlob
  <1>3. \E m \in Meta : \E u :
          \E d \in IF setDiagnostics THEN WriteBlob(bd) ELSE {e.diagnostics} :
             nextFiles' = [nextFiles EXCEPT
                             ![c][s] = IF e.hash = None THEN e ELSE
                                [e EXCEPT !.meta = m, !.units = u,
                                          !.diagnostics = d]]
    BY DEF Record
  <1> HIDE DEF bd
  <1>4. PICK m \in Meta : \E u :
          \E d \in {IF setDiagnostics THEN bd ELSE e.diagnostics} :
             nextFiles' = [nextFiles EXCEPT
                             ![c][s] = IF e.hash = None THEN e ELSE
                                [e EXCEPT !.meta = m, !.units = u,
                                          !.diagnostics = d]]
    BY <1>2, <1>3
  <1>5. PICK u : nextFiles' = [nextFiles EXCEPT
                   ![c][s] = IF e.hash = None THEN e ELSE
                      [e EXCEPT !.meta = m, !.units = u,
                                !.diagnostics = IF setDiagnostics
                                                  THEN bd ELSE e.diagnostics]]
    BY <1>4
  <1>6. e \in Entry
    BY DEF SoundInv, TypeOK
  <1>7. /\ nextFiles'[c][s] = IF e.hash = None THEN e ELSE
             [e EXCEPT !.meta = m, !.units = u,
                       !.diagnostics = IF setDiagnostics
                                         THEN bd ELSE e.diagnostics]
        /\ \A d \in Client, x \in Src :
              ~(d = c /\ x = s) => nextFiles'[d][x] = nextFiles[d][x]
    BY <1>5 DEF SoundInv, TypeOK
  <1> DEFINE ne == nextFiles'[c][s]
  <1>8. /\ ne.fragment = e.fragment
        /\ ne.hash = e.hash
        /\ ne.diagnostics = IF e.hash # None /\ setDiagnostics
                              THEN bd ELSE e.diagnostics
    BY <1>6, <1>7 DEF Entry
  <1>9. Warns(e, s, key[c]) \/ loaded[c][s] = NotLoaded
    BY DEF WarnInv, Unrecorded
  <1>10. Warns(ne, s, key[c])
    <2> SUFFICES ASSUME ne.fragment # None, <<s, ne.hash>> \in Warned
                 PROVE  ne.diagnostics = BlobOf("diagnostics", s, ne.hash, key[c])
      BY DEF Warns
    <2>1. e.fragment # None /\ <<s, e.hash>> \in Warned /\ e.hash # None
      BY <1>1, <1>6, <1>8
    <2>2. CASE loaded[c][s] = NotLoaded
      BY <2>1, <2>2, <1>8 DEF bd
    <2>3. CASE loaded[c][s] # NotLoaded
      BY <2>1, <2>3, <1>8, <1>9 DEF Warns
    <2> QED
      BY <2>2, <2>3
  <1> QED
    BY <1>7, <1>10

\* Every step keeps the diagnostics with the entries that need them.
LEMMA WarnStep ==
  ASSUME ~WriteFaults, Server = {}, SoundInv, WarnInv, [Next]_vars
  PROVE  WarnInv'
  <1> USE CacheStoreAssumption
  <1>1. ASSUME NEW c \in Client, NEW k \in Key,
               AcquireLock(c, k) \/ OpenUnlocked(c, k)
        PROVE  WarnInv'
    <2>1. /\ pc[c] = "closed"
          /\ pc' = [pc EXCEPT ![c] = "locked"]
          /\ key' = [key EXCEPT ![c] = k]
          /\ UNCHANGED <<disk, manifest, nextFiles, todo, loaded>>
      BY <1>1 DEF AcquireLock, OpenUnlocked
    <2>2. Fresh(c)
      BY <2>1 DEF SoundInv, FreshUntilOpened, Opened
    <2>3. \A d \in Client : d # c => /\ key'[d] = key[d] /\ pc'[d] = pc[d]
                                     /\ (\A s \in Src : Unrecorded(d, s)' <=> Unrecorded(d, s))
      BY <2>1 DEF SoundInv, TypeOK, Unrecorded
    <2>4. \A s \in Src : /\ Warns(manifest'[c][s], s, key'[c])
                         /\ Warns(nextFiles'[c][s], s, key'[c])
                         /\ loaded'[c][s] = NotLoaded
      BY <2>1, <2>2, NoFilesWarn DEF Fresh
    <2>5. WarningsReplayed'
      BY <2>1, <2>3, <2>4 DEF WarnInv, WarningsReplayed
    <2> QED
      BY <2>1, <2>3, <2>4, <2>5 DEF WarnInv
  <1>2. ASSUME NEW c \in Client, ReadManifest(c)
        PROVE  WarnInv'
    <2>1. Fresh(c)
      BY <1>2 DEF ReadManifest, SoundInv, FreshUntilOpened, Opened
    <2>2. /\ UNCHANGED <<disk, key, nextFiles, loaded>>
          /\ \A s \in Src : Warns(manifest'[c][s], s, key[c])
      BY <1>2, NoFilesWarn DEF ReadManifest, WarnInv, SoundInv, TypeOK
    <2>3. \A d \in Client : d # c =>
             /\ manifest'[d] = manifest[d] /\ pc'[d] = pc[d] /\ todo'[d] = todo[d]
             /\ (\A s \in Src : Unrecorded(d, s)' <=> Unrecorded(d, s))
      BY <1>2 DEF ReadManifest, SoundInv, TypeOK, Unrecorded
    <2>4. \A s \in Src : /\ Warns(nextFiles'[c][s], s, key'[c])
                         /\ loaded'[c][s] = NotLoaded
      BY <2>1, <2>2, NoFilesWarn DEF Fresh
    <2>5. WarningsReplayed'
      BY <2>2 DEF WarnInv, WarningsReplayed
    <2> QED
      BY <2>2, <2>3, <2>4, <2>5 DEF WarnInv
  <1>3. ASSUME NEW c \in Client, NEW s \in Src, NEW h \in Hash, Restore(c, s, h)
        PROVE  WarnInv'
    <2> DEFINE e == manifest[c][s]
               l == [hash |-> h, fragment |-> ReadBlob(e.fragment),
                     diagnostics |-> ReadBlob(e.diagnostics)]
    <2>1. /\ loaded' = [loaded EXCEPT ![c][s] = l]
          /\ nextFiles' = [nextFiles EXCEPT ![c][s] = e]
          /\ todo' = [todo EXCEPT ![c] = @ \ {s}]
          /\ UNCHANGED <<disk, pc, key, manifest>>
          /\ e.hash = h /\ e.fragment # None
          /\ e.diagnostics # None => ReadBlob(e.diagnostics) # None
      BY <1>3 DEF Restore, Hit
    <2>2. Warns(e, s, key[c])
      BY DEF WarnInv
    <2>3. /\ loaded'[c][s] = l /\ nextFiles'[c][s] = e /\ s \notin todo'[c]
          /\ \A d \in Client, x \in Src : ~(d = c /\ x = s) =>
                /\ loaded'[d][x] = loaded[d][x]
                /\ nextFiles'[d][x] = nextFiles[d][x]
                /\ x \in todo'[d] <=> x \in todo[d]
      BY <2>1 DEF SoundInv, TypeOK
    <2>4. <<s, h>> \in Warned => l.diagnostics = BlobOf("diagnostics", s, h, key[c])
      <3> SUFFICES ASSUME <<s, h>> \in Warned
                   PROVE  l.diagnostics = BlobOf("diagnostics", s, h, key[c])
        OBVIOUS
      <3>1. e.diagnostics = BlobOf("diagnostics", s, h, key[c])
        BY <2>1, <2>2 DEF Warns
      <3>2. h \in Hash /\ key[c] \in Key
        BY <1>3 DEF SoundInv, KeyKnown, Restore
      <3>3. e.diagnostics \in Blob
        BY <3>1, <3>2, BlobOfType DEF Kind
      <3>4. ReadBlob(e.diagnostics) = e.diagnostics
        BY <2>1, <3>3 DEF ReadBlob
      <3> QED
        BY <3>1, <3>4
    <2>5. WarningsReplayed'
      <3> SUFFICES ASSUME NEW d \in Client, NEW x \in Src,
                          loaded'[d][x] # NotLoaded,
                          <<x, loaded'[d][x].hash>> \in Warned
                   PROVE  loaded'[d][x].diagnostics =
                            BlobOf("diagnostics", x, loaded'[d][x].hash, key'[d])
        BY DEF WarningsReplayed
      <3>1. CASE d = c /\ x = s
        BY <3>1, <2>1, <2>3, <2>4
      <3>2. CASE ~(d = c /\ x = s)
        BY <3>2, <2>1, <2>3 DEF WarnInv, WarningsReplayed
      <3> QED
        BY <3>1, <3>2
    <2>6. \A d \in Client, x \in Src :
            Warns(nextFiles'[d][x], x, key'[d]) \/ Unrecorded(d, x)'
      <3> SUFFICES ASSUME NEW d \in Client, NEW x \in Src
                   PROVE  Warns(nextFiles'[d][x], x, key'[d]) \/ Unrecorded(d, x)'
        OBVIOUS
      <3>1. CASE d = c /\ x = s
        BY <3>1, <2>1, <2>2, <2>3
      <3>2. CASE ~(d = c /\ x = s)
        BY <3>2, <2>1, <2>3 DEF WarnInv, Unrecorded
      <3> QED
        BY <3>1, <3>2
    <2> QED
      BY <2>1, <2>3, <2>5, <2>6 DEF WarnInv
  <1>4. ASSUME NEW c \in Client, NEW s \in Src, NEW h \in Hash,
               NEW cacheable \in BOOLEAN, Capture(c, s, h, cacheable)
        PROVE  WarnInv'
    <2>1. /\ \E ne : nextFiles' = [nextFiles EXCEPT ![c][s] = ne]
          /\ todo' = [todo EXCEPT ![c] = @ \ {s}]
          /\ pc[c] = "scan" /\ s \in todo[c]
          /\ UNCHANGED <<disk, pc, key, manifest, loaded>>
      BY <1>4 DEF Capture
    <2>2. \A d \in Client, x \in Src : ~(d = c /\ x = s) =>
             /\ nextFiles'[d][x] = nextFiles[d][x]
             /\ x \in todo'[d] <=> x \in todo[d]
      BY <2>1 DEF SoundInv, TypeOK
    <2>3. Unrecorded(c, s)'
      BY <2>1 DEF WarnInv, Unrecorded
    <2>4. \A d \in Client, x \in Src : todo'[d] \subseteq todo[d]
      BY <2>1 DEF SoundInv, TypeOK
    <2>5. \A d \in Client, x \in Src : ~(d = c /\ x = s) =>
             (Unrecorded(d, x)' <=> Unrecorded(d, x))
      BY <2>1, <2>2 DEF Unrecorded
    <2>6. WarningsReplayed'
      BY <2>1 DEF WarnInv, WarningsReplayed
    <2> QED
      BY <2>1, <2>2, <2>3, <2>4, <2>5, <2>6 DEF WarnInv
  <1>5. ASSUME NEW c \in Client, NEW s \in Src, LeaveOut(c, s)
        PROVE  WarnInv'
    <2>1. /\ \A d \in Client : todo'[d] \subseteq todo[d]
          /\ \A d \in Client : d # c => todo'[d] = todo[d]
          /\ pc[c] = "scan"
          /\ UNCHANGED <<disk, pc, key, manifest, nextFiles, loaded>>
      BY <1>5 DEF LeaveOut, SoundInv, TypeOK
    <2>2. \A d \in Client, x \in Src : Unrecorded(d, x) => Unrecorded(d, x)'
      BY <2>1 DEF Unrecorded
    <2>3. WarningsReplayed'
      BY <2>1 DEF WarnInv, WarningsReplayed
    <2> QED
      BY <2>1, <2>2, <2>3 DEF WarnInv
  <1>6. ASSUME NEW c \in Client, NEW s \in Src, Record(c, s)
        PROVE  WarnInv'
    <2>1. /\ todo' = [todo EXCEPT ![c] = @ \ {s}]
          /\ pc[c] = "record"
          /\ UNCHANGED <<disk, pc, key, manifest, loaded>>
      BY <1>6 DEF Record
    <2>2. \A d \in Client, x \in Src : ~(d = c /\ x = s) =>
             /\ nextFiles'[d][x] = nextFiles[d][x]
             /\ (Unrecorded(d, x)' <=> Unrecorded(d, x))
      BY <1>6, <2>1, RecordWarns DEF SoundInv, TypeOK, Unrecorded
    <2>3. \A d \in Client, x \in Src :
            Warns(nextFiles'[d][x], x, key'[d]) \/ Unrecorded(d, x)'
      <3>1. Warns(nextFiles'[c][s], s, key'[c])
        BY <1>6, <2>1, RecordWarns
      <3> QED
        BY <2>1, <2>2, <3>1 DEF WarnInv
    <2>4. WarningsReplayed'
      BY <2>1 DEF WarnInv, WarningsReplayed
    <2>5. \A d \in Client : todo'[d] \subseteq todo[d]
      BY <2>1 DEF SoundInv, TypeOK
    <2> QED
      BY <2>1, <2>3, <2>4, <2>5 DEF WarnInv
  <1>7. ASSUME NEW c \in Client, Analysed(c)
        PROVE  WarnInv'
    <2>1. /\ pc[c] = "scan"
          /\ pc' = [pc EXCEPT ![c] = "record"]
          /\ todo' = [todo EXCEPT ![c] = Src]
          /\ UNCHANGED <<disk, key, manifest, nextFiles, loaded>>
      BY <1>7 DEF Analysed
    <2>2. \A d \in Client, x \in Src : Unrecorded(d, x) => Unrecorded(d, x)'
      BY <2>1 DEF Unrecorded, SoundInv, TypeOK
    <2>3. \A d \in Client : pc'[d] = "scan" => pc[d] = "scan" /\ todo'[d] = todo[d]
      BY <2>1 DEF SoundInv, TypeOK
    <2>4. WarningsReplayed'
      BY <2>1 DEF WarnInv, WarningsReplayed
    <2> QED
      BY <2>1, <2>2, <2>3, <2>4 DEF WarnInv
  <1>8. ASSUME NEW c \in Client, TryOpenBusy(c) \/ Rescan(c)
        PROVE  WarnInv'
    BY <1>8 DEF TryOpenBusy, Rescan
  <1>9. ASSUME NEW c \in Client,
               GcDone(c) \/ WriteManifestFails(c) \/ ListBlobs(c)
        PROVE  WarnInv'
    <2>1. /\ pc[c] \notin {"scan", "record"}
          /\ \E p \in Phase \ {"scan"} : pc' = [pc EXCEPT ![c] = p]
          /\ UNCHANGED <<disk, key, manifest, nextFiles, todo, loaded>>
      BY <1>9 DEF GcDone, WriteManifestFails, ListBlobs, Phase
    <2>2. \A d \in Client, x \in Src : Unrecorded(d, x) => Unrecorded(d, x)'
      BY <2>1 DEF Unrecorded, SoundInv, TypeOK
    <2>3. \A d \in Client : pc'[d] = "scan" => pc[d] = "scan"
      BY <2>1 DEF SoundInv, TypeOK
    <2>4. WarningsReplayed'
      BY <2>1 DEF WarnInv, WarningsReplayed
    <2> QED
      BY <2>1, <2>2, <2>3, <2>4 DEF WarnInv
  <1>10. ASSUME NEW c \in Client, Save(c)
         PROVE  WarnInv'
    <2>1. /\ pc[c] = "record" /\ todo[c] = {}
          /\ \E p \in {"saved", "write"} : pc' = [pc EXCEPT ![c] = p]
          /\ manifest' = [manifest EXCEPT ![c] = nextFiles[c]]
          /\ nextFiles' = [nextFiles EXCEPT ![c] = NoFiles]
          /\ loaded' = [loaded EXCEPT ![c] = [s \in Src |-> NotLoaded]]
          /\ UNCHANGED <<disk, key, todo>>
      BY <1>10 DEF Save
    <2>2. \A s \in Src : Warns(nextFiles[c][s], s, key[c])
      BY <2>1 DEF WarnInv, Unrecorded
    <2>3. \A d \in Client : d # c =>
             /\ manifest'[d] = manifest[d] /\ nextFiles'[d] = nextFiles[d]
             /\ loaded'[d] = loaded[d] /\ pc'[d] = pc[d]
             /\ (\A s \in Src : Unrecorded(d, s)' <=> Unrecorded(d, s))
      BY <2>1 DEF SoundInv, TypeOK, Unrecorded
    <2>4. /\ manifest'[c] = nextFiles[c] /\ nextFiles'[c] = NoFiles
          /\ \A s \in Src : loaded'[c][s] = NotLoaded
          /\ pc'[c] # "scan"
      BY <2>1 DEF SoundInv, TypeOK
    <2>5. WarningsReplayed'
      BY <2>1, <2>3, <2>4 DEF WarnInv, WarningsReplayed
    <2>6. \A s \in Src : Warns(disk'.files[s], s, disk'.key)
      BY <2>1 DEF WarnInv
    <2>7. \A s \in Src : /\ Warns(manifest'[c][s], s, key'[c])
                         /\ Warns(nextFiles'[c][s], s, key'[c])
      BY <2>1, <2>2, <2>4, NoFilesWarn
    <2>8. \A d \in Client, s \in Src : d # c =>
             /\ Warns(manifest'[d][s], s, key'[d])
             /\ pc'[d] = "scan" /\ s \in todo'[d] => loaded'[d][s] = NotLoaded
             /\ Warns(nextFiles'[d][s], s, key'[d]) \/ Unrecorded(d, s)'
      BY <2>1, <2>3 DEF WarnInv
    <2> QED
      BY <2>4, <2>5, <2>6, <2>7, <2>8 DEF WarnInv
  <1>11. ASSUME NEW c \in Client, WriteManifest(c)
         PROVE  WarnInv'
    <2>1. /\ pc[c] = "write"
          /\ disk' = [key |-> key[c], files |-> manifest[c]]
          /\ pc' = [pc EXCEPT ![c] = "list"]
          /\ UNCHANGED <<key, manifest, nextFiles, todo, loaded>>
      BY <1>11 DEF WriteManifest
    <2>2. \A s \in Src : Warns(disk'.files[s], s, disk'.key)
      BY <2>1 DEF WarnInv
    <2>3. \A d \in Client, x \in Src :
             /\ Unrecorded(d, x) => Unrecorded(d, x)'
             /\ pc'[d] = "scan" => pc[d] = "scan"
      BY <2>1 DEF Unrecorded, SoundInv, TypeOK
    <2>4. WarningsReplayed'
      BY <2>1 DEF WarnInv, WarningsReplayed
    <2> QED
      BY <2>1, <2>2, <2>3, <2>4 DEF WarnInv
  <1>12. ASSUME NEW c \in Client, Drop(c)
         PROVE  WarnInv'
    <2>1. /\ pc' = [pc EXCEPT ![c] = "closed"]
          /\ key' = [key EXCEPT ![c] = None]
          /\ manifest' = [manifest EXCEPT ![c] = NoFiles]
          /\ nextFiles' = [nextFiles EXCEPT ![c] = NoFiles]
          /\ todo' = [todo EXCEPT ![c] = {}]
          /\ loaded' = [loaded EXCEPT ![c] = [s \in Src |-> NotLoaded]]
          /\ UNCHANGED disk
      BY <1>12 DEF Drop
    <2>2. \A d \in Client : d # c =>
             /\ manifest'[d] = manifest[d] /\ nextFiles'[d] = nextFiles[d]
             /\ loaded'[d] = loaded[d] /\ pc'[d] = pc[d] /\ key'[d] = key[d]
             /\ todo'[d] = todo[d]
             /\ (\A s \in Src : Unrecorded(d, s)' <=> Unrecorded(d, s))
      BY <2>1 DEF SoundInv, TypeOK, Unrecorded
    <2>3. /\ manifest'[c] = NoFiles /\ nextFiles'[c] = NoFiles
          /\ \A s \in Src : loaded'[c][s] = NotLoaded
      BY <2>1 DEF SoundInv, TypeOK
    <2>4. WarningsReplayed'
      BY <2>1, <2>2, <2>3 DEF WarnInv, WarningsReplayed
    <2>5. \A s \in Src : /\ Warns(manifest'[c][s], s, key'[c])
                         /\ Warns(nextFiles'[c][s], s, key'[c])
      BY <2>3, NoFilesWarn
    <2>6. \A s \in Src : Warns(disk'.files[s], s, disk'.key)
      BY <2>1 DEF WarnInv
    <2>7. \A d \in Client, s \in Src : d # c =>
             /\ Warns(manifest'[d][s], s, key'[d])
             /\ pc'[d] = "scan" /\ s \in todo'[d] => loaded'[d][s] = NotLoaded
             /\ Warns(nextFiles'[d][s], s, key'[d]) \/ Unrecorded(d, s)'
      BY <2>2 DEF WarnInv
    <2> QED
      BY <2>3, <2>4, <2>5, <2>6, <2>7 DEF WarnInv
  <1>13. ASSUME DamageManifest
         PROVE  WarnInv'
    <2>1. /\ disk' = NoManifest
          /\ UNCHANGED <<pc, key, manifest, nextFiles, todo, loaded>>
      BY <1>13 DEF DamageManifest
    <2>2. \A s \in Src : Warns(disk'.files[s], s, disk'.key)
      BY <2>1, NoFilesWarn DEF NoManifest
    <2> QED
      BY <2>1, <2>2 DEF WarnInv, Unrecorded, WarningsReplayed
  <1>14. ASSUME UNCHANGED <<disk, pc, key, manifest, nextFiles, todo, loaded>>
         PROVE  WarnInv'
    BY <1>14 DEF WarnInv, Unrecorded, WarningsReplayed
  <1>15. ASSUME NEW c \in Client, NEW b \in Blob, RemoveBlob(c, b)
         PROVE  WarnInv'
    BY <1>14, <1>15 DEF RemoveBlob
  <1>16. ASSUME NEW b \in Blob, DamageBlob(b)
         PROVE  WarnInv'
    BY <1>14, <1>16 DEF DamageBlob
  <1>17. CASE UNCHANGED vars
    BY <1>14, <1>17 DEF vars
  <1> QED
    BY <1>1, <1>2, <1>3, <1>4, <1>5, <1>6, <1>7, <1>8, <1>9, <1>10, <1>11,
       <1>12, <1>13, <1>15, <1>16, <1>17
       DEF Next, Step, Scan

\* Builders sharing a store whose writes succeed, with or without the lock and
\* with any of its files damaged or deleted at any moment, report on a warm run
\* every warning a cold run would.  Without the hypothesis this fails: a
\* diagnostics blob that could not be written leaves an entry that claims to
\* have no warnings (the run cache_lost_warnings).
THEOREM WarningsReplayedHolds ==
  ASSUME ~WriteFaults
  PROVE  Spec => []WarningsReplayed
  <1>1. CASE Server = {}
    <2>1. Init => SoundInv /\ WarnInv
      BY SoundInit, WarnInit
    <2>2. SoundInv /\ WarnInv /\ [Next]_vars => (SoundInv /\ WarnInv)'
      BY <1>1, SoundStep, WarnStep
    <2>3. WarnInv => WarningsReplayed
      BY DEF WarnInv
    <2> QED
      BY <2>1, <2>2, <2>3, PTL DEF Spec
  <1>2. CASE Server = Client
    <2>1. WarningsReplayed
      BY <1>2 DEF WarningsReplayed
    <2> QED
      BY <2>1, PTL
  <1> QED
    BY <1>1, <1>2, CacheStoreAssumption
===============================================================================
