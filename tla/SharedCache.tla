------------------------------ MODULE SharedCache ------------------------------
(***************************************************************************)
(* The cache directory that all projects and processes of a user share:    *)
(* the clones in which releases are looked up (resolve), the checkouts of  *)
(* locked revisions (dependencies) and the expanded standard library       *)
(* (std).  Each part has a lock file, and what a process reads from it, it *)
(* reads after it has given up the lock.                                   *)
(*                                                                         *)
(* A process may fail or be killed anywhere (Stop): the lock goes, and the *)
(* directory stays as it is.  Versions of a repository are numbers, one    *)
(* repository is modelled, and Latest stands for its clone under resolve.  *)
(***************************************************************************)
EXTENDS Naturals

CONSTANTS
  Process,
  Revision,    \* the locked revisions projects ask for
  MaxHead,     \* the last version that gets published
  File,        \* the files of the standard library
  Latest,
  Torn,        \* what is read from a tree that is not whole
  None

ASSUME SharedCacheAssumption ==
  /\ MaxHead \in Nat \ {0}
  /\ Revision \subseteq 1..MaxHead
  /\ Latest \notin Nat /\ Torn \notin Nat
  /\ None \notin Process

Version == 1..MaxHead
Place == Revision \cup {Latest}
Lock == {"resolve", "dependencies", "std"}

VARIABLES
  head,      \* the newest version the remote has
  lock,      \* who holds each lock
  dir,       \* the work trees
  stranded,  \* the revisions whose clone was never followed by a checkout
  std,       \* the files of the standard library
  expanded,  \* the marker written after the last of them
  pc,
  place,     \* what each process is after
  need,      \* the head it fetched
  got        \* the version it read

vars == <<head, lock, dir, stranded, std, expanded, pc, place, need, got>>
tree == <<head, dir, stranded>>
lib == <<std, expanded>>

GitPC == {"lock", "inspect", "remove", "clone", "cloning", "fetch",
          "checkout", "checking", "unlock"}
StdPC == {"stdLock", "stdFiles", "stdWriting", "stdUnlock"}

\* "partial" is a directory git cannot use; a "dirty" one is on its way from
\* one version to another.
Dir == [st: {"absent", "partial", "dirty", "clean"},
        rev: 0..MaxHead, to: 0..MaxHead, origin: 0..MaxHead]
NoDir == [st |-> "absent", rev |-> 0, to |-> 0, origin |-> 0]

TypeOK ==
  /\ head \in Version
  /\ lock \in [Lock -> Process \cup {None}]
  /\ dir \in [Place -> Dir]
  /\ stranded \subseteq Revision
  /\ std \in [File -> {"absent", "writing", "torn", "full"}]
  /\ expanded \in BOOLEAN
  /\ pc \in [Process -> {"idle", "load", "done", "stdRead"} \cup GitPC \cup StdPC]
  /\ place \in [Process -> Place]
  /\ need \in [Process -> 0..MaxHead]
  /\ got \in [Process -> 0..MaxHead \cup {Torn}]

Init ==
  /\ head = 1
  /\ lock = [l \in Lock |-> None]
  /\ dir = [x \in Place |-> NoDir]
  /\ stranded = {}
  /\ std = [f \in File |-> "absent"]
  /\ expanded = FALSE
  /\ pc = [p \in Process |-> "idle"]
  /\ place = [p \in Process |-> Latest]
  /\ need = [p \in Process |-> 0]
  /\ got = [p \in Process |-> 0]

LockOf(x) == IF x = Latest THEN "resolve" ELSE "dependencies"

Goto(p, label) == pc' = [pc EXCEPT ![p] = label]

-------------------------------------------------------------------------------
(* Repositories: get_metadata of a revision, resolve_version_from_latest     *)

Begin(p, x) ==
  /\ pc[p] = "idle"
  /\ x # Latest => x <= head
  /\ Goto(p, "lock")
  /\ place' = [place EXCEPT ![p] = x]
  /\ UNCHANGED <<tree, lib, lock, need, got>>

\* Mutation of Acquire: nobody waits.
AcquireAnyway(p) ==
  /\ pc[p] = "lock"
  /\ lock' = [lock EXCEPT ![LockOf(place[p])] = p]
  /\ Goto(p, "inspect")
  /\ UNCHANGED <<tree, lib, place, need, got>>

\* lock_dir: waits for the file lock.
Acquire(p) ==
  /\ pc[p] = "lock"
  /\ lock[LockOf(place[p])] = None
  /\ lock' = [lock EXCEPT ![LockOf(place[p])] = p]
  /\ Goto(p, "inspect")
  /\ UNCHANGED <<tree, lib, place, need, got>>

\* Mutation of Inspection: what exists is taken as it is.
InspectionTrusting(x) ==
  CASE dir[x].st = "absent" -> "clone"
    [] OTHER -> IF x = Latest THEN "fetch" ELSE "unlock"

\* What is found decides what follows: a checkout that is clean is used as it
\* is, any other is removed; for resolve an existing clone is fetched.
Inspection(x) ==
  CASE dir[x].st = "absent" -> "clone"
    [] dir[x].st # "absent" /\ x = Latest -> "fetch"
    [] dir[x].st = "clean" /\ x # Latest -> "unlock"
    [] OTHER -> "remove"

Inspect(p) ==
  /\ pc[p] = "inspect"
  /\ Goto(p, Inspection(place[p]))
  /\ UNCHANGED <<tree, lib, lock, place, need, got>>

\* remove_dir_all, which may be stopped half-way.
Remove(p) ==
  LET x == place[p]
  IN  /\ pc[p] = "remove"
      /\ \/ /\ dir[x].st # "partial"
            /\ dir' = [dir EXCEPT ![x].st = "partial"]
            /\ UNCHANGED pc
         \/ /\ dir' = [dir EXCEPT ![x] = NoDir]
            /\ Goto(p, "clone")
      /\ UNCHANGED <<head, stranded, lib, lock, place, need, got>>

\* Git::clone, whose directory is there long before it is complete.
CloneBegin(p) ==
  /\ pc[p] = "clone"
  /\ dir' = [dir EXCEPT ![place[p]] = [NoDir EXCEPT !.st = "partial"]]
  /\ Goto(p, "cloning")
  /\ UNCHANGED <<head, stranded, lib, lock, place, need, got>>

\* It ends on the default branch.
CloneEnd(p) ==
  /\ pc[p] = "cloning"
  /\ dir' = [dir EXCEPT ![place[p]] =
               [st |-> "clean", rev |-> head, to |-> head, origin |-> head]]
  /\ Goto(p, "fetch")
  /\ UNCHANGED <<head, stranded, lib, lock, place, need, got>>

\* Mutation of Fetch: the remote head is not followed.
FetchPinned(p) ==
  /\ pc[p] = "fetch"
  /\ dir[place[p]].st # "partial"
  /\ need' = [need EXCEPT ![p] = head]
  /\ Goto(p, "checkout")
  /\ UNCHANGED <<tree, lib, lock, place, got>>

\* Git::fetch, after which origin/HEAD is the remote's.  In a clone that was
\* never completed it fails, and nobody removes one under resolve.
Fetch(p) ==
  /\ pc[p] = "fetch"
  /\ dir[place[p]].st # "partial"
  /\ dir' = [dir EXCEPT ![place[p]].origin = head]
  /\ need' = [need EXCEPT ![p] = head]
  /\ Goto(p, "checkout")
  /\ UNCHANGED <<head, stranded, lib, lock, place, got>>

\* Git::checkout of the revision, or of origin/HEAD.
Target(x) == IF x = Latest THEN dir[x].origin ELSE x

CheckoutBegin(p) ==
  LET x == place[p]
  IN  /\ pc[p] = "checkout"
      /\ dir' = [dir EXCEPT ![x].st = "dirty", ![x].to = Target(x)]
      /\ stranded' = stranded \ {x}
      /\ Goto(p, "checking")
      /\ UNCHANGED <<head, lib, lock, place, need, got>>

CheckoutEnd(p) ==
  LET x == place[p]
  IN  /\ pc[p] = "checking"
      /\ dir' = [dir EXCEPT ![x].st = "clean", ![x].rev = dir[x].to]
      /\ Goto(p, "unlock")
      /\ UNCHANGED <<head, stranded, lib, lock, place, need, got>>

Unlock(p) ==
  /\ pc[p] = "unlock"
  /\ lock' = [lock EXCEPT ![LockOf(place[p])] = None]
  /\ Goto(p, "load")
  /\ UNCHANGED <<tree, lib, place, need, got>>

\* What a reader may find in a tree.
Contents(d) ==
  CASE d.st = "clean" -> {d.rev}
    [] d.st = "dirty" -> {d.rev, d.to, Torn}
    [] OTHER -> {Torn}

\* Metadata::load, or Pubfile::load, without the lock.
Load(p) ==
  /\ pc[p] = "load"
  /\ \E v \in Contents(dir[place[p]]) : got' = [got EXCEPT ![p] = v]
  /\ Goto(p, "done")
  /\ UNCHANGED <<tree, lib, lock, place, need>>

Done(p) ==
  /\ pc[p] \in {"done", "stdRead"}
  /\ Goto(p, "idle")
  /\ got' = [got EXCEPT ![p] = 0]
  /\ need' = [need EXCEPT ![p] = 0]
  /\ place' = [place EXCEPT ![p] = Latest]
  /\ UNCHANGED <<tree, lib, lock>>

-------------------------------------------------------------------------------
(* The standard library: expand_into *)

Expand(p) ==
  /\ pc[p] = "idle"
  /\ Goto(p, IF expanded THEN "stdRead" ELSE "stdLock")
  /\ UNCHANGED <<tree, lib, lock, place, need, got>>

\* The marker is looked at again under the lock.
StdAcquire(p) ==
  /\ pc[p] = "stdLock"
  /\ lock["std"] = None
  /\ lock' = [lock EXCEPT !["std"] = p]
  /\ Goto(p, IF expanded THEN "stdUnlock" ELSE "stdFiles")
  /\ UNCHANGED <<tree, lib, place, need, got>>

\* A file that exists is left alone.
StdWriteBegin(p, f) ==
  /\ pc[p] = "stdFiles"
  /\ std[f] = "absent"
  /\ std' = [std EXCEPT ![f] = "writing"]
  /\ Goto(p, "stdWriting")
  /\ UNCHANGED <<tree, expanded, lock, place, need, got>>

\* The file that is being written is complete.
StdWriteEnd(p, f) ==
  /\ pc[p] = "stdWriting"
  /\ std[f] = "writing"
  /\ std' = [std EXCEPT ![f] = "full"]
  /\ Goto(p, "stdFiles")
  /\ UNCHANGED <<tree, expanded, lock, place, need, got>>

\* Mutation of StdMark: the marker precedes the files.
StdMarkEarly(p) ==
  /\ pc[p] = "stdFiles"
  /\ expanded' = TRUE
  /\ Goto(p, IF \A f \in File : std[f] # "absent" THEN "stdUnlock"
                                                 ELSE "stdFiles")
  /\ UNCHANGED <<tree, std, lock, place, need, got>>

\* Every file exists: the marker is written.
StdMark(p) ==
  /\ pc[p] = "stdFiles"
  /\ \A f \in File : std[f] # "absent"
  /\ expanded' = TRUE
  /\ Goto(p, "stdUnlock")
  /\ UNCHANGED <<tree, std, lock, place, need, got>>

StdUnlock(p) ==
  /\ pc[p] = "stdUnlock"
  /\ lock' = [lock EXCEPT !["std"] = None]
  /\ Goto(p, "stdRead")
  /\ UNCHANGED <<tree, lib, place, need, got>>

-------------------------------------------------------------------------------

\* An error returned or a kill: the lock file is closed, the rest stays.  The
\* file that was being written in place keeps what had been written of it.
Stop(p) ==
  /\ pc[p] \in GitPC \cup StdPC
  /\ lock' = [l \in Lock |-> IF lock[l] = p THEN None ELSE lock[l]]
  /\ stranded' = IF pc[p] \in {"fetch", "checkout"} /\ place[p] # Latest
                 THEN stranded \cup {place[p]} ELSE stranded
  /\ Goto(p, "idle")
  /\ got' = [got EXCEPT ![p] = 0]
  /\ need' = [need EXCEPT ![p] = 0]
  /\ place' = [place EXCEPT ![p] = Latest]
  /\ std' = IF pc[p] = "stdWriting"
            THEN [f \in File |-> IF std[f] = "writing" THEN "torn" ELSE std[f]]
            ELSE std
  /\ UNCHANGED <<head, dir, expanded>>

\* The remote publishes a version.
Publish ==
  /\ head < MaxHead
  /\ head' = head + 1
  /\ UNCHANGED <<lock, dir, stranded, lib, pc, place, need, got>>

Next ==
  \/ \E p \in Process :
       \/ \E x \in Place : Begin(p, x)
       \/ Acquire(p) \/ Inspect(p) \/ Remove(p)
       \/ CloneBegin(p) \/ CloneEnd(p) \/ Fetch(p)
       \/ CheckoutBegin(p) \/ CheckoutEnd(p)
       \/ Unlock(p) \/ Load(p) \/ Done(p)
       \/ Expand(p) \/ StdAcquire(p)
       \/ \E f \in File : StdWriteBegin(p, f) \/ StdWriteEnd(p, f)
       \/ StdMark(p) \/ StdUnlock(p)
       \/ Stop(p)
  \/ Publish

Spec == Init /\ [][Next]_vars

-------------------------------------------------------------------------------
(* Properties *)

\* The processes at work on a directory, between lock_dir and unlock_dir.
At(x) == {p \in Process : pc[p] \in GitPC \ {"lock"} /\ place[p] = x}
AtStd == {p \in Process : pc[p] \in StdPC \ {"stdLock"}}

\* Two processes never work on the clones, on a checkout or on the standard
\* library at the same time, however they came to wait for each other.
OneWriter ==
  /\ \A p, q \in AtStd : p = q
  /\ \A x, y \in Place : LockOf(x) = LockOf(y) =>
       \A p \in At(x), q \in At(y) : p = q

\* A dependency is read as the revision that is locked, though the lock is gone
\* by then and others may have been killed anywhere in their work on it.  The
\* exception is stated: who stops between the clone and the checkout leaves a
\* clean tree of the default branch, which the next one takes for the revision.
RightRevision ==
  \A p \in Process : pc[p] = "done" /\ place[p] # Latest =>
    \/ got[p] = place[p]
    \/ place[p] \in stranded /\ got[p] # Torn

\* A lookup never answers from before its own fetch: the releases it reads are
\* those the remote had then, or later ones another process has fetched.  The
\* exception is stated: Pubfile is read without the lock, and a checkout that
\* goes on meanwhile may leave it a file that is missing or cut short.
FreshLookup ==
  \A p \in Process :
    pc[p] = "done" /\ place[p] = Latest /\ got[p] # Torn => got[p] >= need[p]

\* Whoever returns from expand, by the marker or after the work, finds every
\* file of the standard library there and nobody writing any of them, though
\* the marker is looked at without the lock and any process before may have
\* been killed anywhere.  The file such a process was writing stays cut short.
StdSettled ==
  \A p \in Process :
    pc[p] = "stdRead" => \A f \in File : std[f] \in {"full", "torn"}

\* "The hashed directory name makes an existing file correct": what expand
\* leaves is whole.  It is not, after a kill in the middle of a write.
StdComplete ==
  \A p \in Process : pc[p] = "stdRead" => \A f \in File : std[f] = "full"

===============================================================================
