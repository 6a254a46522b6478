--------------------------- MODULE SharedCacheProofs ---------------------------
(***************************************************************************)
(* Proofs about SharedCache for any number of processes, revisions and     *)
(* files.  The argument rests on the locks: who is at work holds the lock  *)
(* of what it works on, so nobody else changes it; and what is read after  *)
(* the lock is gone is never changed again, since only a directory that is *)
(* not clean is worked on.                                                 *)
(***************************************************************************)
EXTENDS SharedCache, TLAPS

\* Who works on a directory holds its lock.
Locked ==
  \A p \in Process :
    /\ pc[p] \in GitPC \ {"lock"} => lock[LockOf(place[p])] = p
    /\ pc[p] \in StdPC \ {"stdLock"} => lock["std"] = p

\* The labels at which a process changes the directory it has locked.
WorkPC == {"remove", "clone", "cloning", "fetch", "checkout", "checking"}
ReadPC == {"unlock", "load", "done"}

\* A clean checkout is that of its revision, or the one excepted, or its
\* clone has just been made by a process that has still to check it out.
Checkouts ==
  \A x \in Revision : dir[x].st = "clean" =>
    \/ dir[x].rev = x
    \/ x \in stranded
    \/ \E q \in Process : pc[q] \in {"fetch", "checkout"} /\ place[q] = x

\* A checkout that somebody has settled for is clean, and nobody works on it.
Settled ==
  \A p \in Process : pc[p] \in ReadPC /\ place[p] \in Revision =>
    /\ dir[place[p]].st = "clean"
    /\ dir[place[p]].rev = place[p] \/ place[p] \in stranded
    /\ \A q \in Process : place[q] = place[p] => pc[q] \notin WorkPC

CheckingRight ==
  \A p \in Process :
    pc[p] = "checking" /\ place[p] \in Revision => dir[place[p]].to = place[p]

GitInv == TypeOK /\ Locked /\ Checkouts /\ Settled /\ CheckingRight /\ RightRevision

\* The standard library: one file is being written at a time, by the process
\* that holds the lock, and the marker comes last.
Writing == \A f \in File : std[f] = "writing" => \E p \in Process : pc[p] = "stdWriting"
OneWriting == \A f, g \in File : std[f] = "writing" /\ std[g] = "writing" => f = g
Marked == expanded => \A f \in File : std[f] \in {"full", "torn"}
MarkerSeen ==
  \A p \in Process :
    /\ pc[p] \in {"stdUnlock", "stdRead"} => expanded
    /\ pc[p] \in {"stdFiles", "stdWriting"} => ~ expanded

StdInv == TypeOK /\ Locked /\ Writing /\ OneWriting /\ Marked /\ MarkerSeen

-------------------------------------------------------------------------------
\* The constants of the specification are told apart.
LEMMA Constants ==
  /\ Revision \subseteq Nat /\ Version \subseteq 0..MaxHead
  /\ Latest \notin Revision /\ Place = Revision \cup {Latest}
  /\ None \notin Process /\ 1 \in Version
  /\ \A x : LockOf(x) \in {"resolve", "dependencies"} /\ LockOf(x) \in Lock
  /\ \A x \in Revision : x \in 0..MaxHead
  /\ Torn \notin Nat /\ \A x \in 0..MaxHead : x # Torn
<1>1. Revision \subseteq 0..MaxHead /\ Version \subseteq 0..MaxHead /\ 1 \in Version
  BY SharedCacheAssumption DEF Version
<1>2. \A x \in 0..MaxHead : x \in Nat
  BY SharedCacheAssumption
<1>3. Torn \notin Nat /\ Latest \notin Nat /\ None \notin Process
  BY SharedCacheAssumption
<1>4. Revision \subseteq Nat /\ Latest \notin Revision /\ \A x \in 0..MaxHead : x # Torn
  BY <1>1, <1>2, <1>3, Zenon
<1>5. \A x : LockOf(x) \in {"resolve", "dependencies"} /\ LockOf(x) \in Lock
  BY DEF LockOf, Lock
<1>6. \A x \in Revision : x \in 0..MaxHead
  BY <1>1
<1> QED
  BY <1>1, <1>3, <1>4, <1>5, <1>6 DEF Place

-------------------------------------------------------------------------------
(* Type correctness *)

\* What Goto assigns is well typed.
LEMMA GotoType ==
  ASSUME TypeOK, NEW p \in Process,
         NEW label \in {"idle", "load", "done", "stdRead"} \cup GitPC \cup StdPC,
         Goto(p, label)
  PROVE  pc' \in [Process -> {"idle", "load", "done", "stdRead"} \cup GitPC \cup StdPC]
BY DEF TypeOK, Goto

\* Every action keeps the types: the directories are records, and the label
\* that follows an inspection is one of the protocol.
LEMMA TypeStep == TypeOK /\ [Next]_vars => TypeOK'
<1> SUFFICES ASSUME TypeOK, [Next]_vars PROVE TypeOK'
  OBVIOUS
<1> USE Constants
<1>1. CASE UNCHANGED vars
  BY <1>1 DEF TypeOK, vars
<1>2. CASE Publish
  BY <1>2, SharedCacheAssumption DEF Publish, TypeOK, lib, Version
<1>3. ASSUME NEW p \in Process, NEW x \in Place, Begin(p, x) PROVE TypeOK'
  BY <1>3, GotoType DEF Begin, TypeOK, tree, lib, GitPC
<1>4. ASSUME NEW p \in Process, Acquire(p) PROVE TypeOK'
  BY <1>4, GotoType DEF Acquire, TypeOK, tree, lib, GitPC
<1>5. ASSUME NEW p \in Process, Inspect(p) PROVE TypeOK'
  <2>1. Inspection(place[p]) \in GitPC
    BY DEF Inspection, GitPC
  <2> QED BY <1>5, <2>1, GotoType DEF Inspect, TypeOK, tree, lib
<1>6. ASSUME NEW p \in Process, Remove(p) PROVE TypeOK'
  <2>1. NoDir \in Dir
    BY SharedCacheAssumption DEF NoDir, Dir
  <2>2. dir' \in [Place -> Dir]
    BY <1>6, <2>1 DEF Remove, TypeOK, Dir
  <2>3. pc' \in [Process -> {"idle", "load", "done", "stdRead"} \cup GitPC \cup StdPC]
    BY <1>6, GotoType DEF Remove, TypeOK, GitPC
  <2> QED BY <1>6, <2>2, <2>3 DEF Remove, TypeOK, lib
<1>7. ASSUME NEW p \in Process, CloneBegin(p) PROVE TypeOK'
  <2>1. [NoDir EXCEPT !.st = "partial"] \in Dir
    BY SharedCacheAssumption DEF NoDir, Dir
  <2> QED BY <1>7, <2>1, GotoType DEF CloneBegin, TypeOK, lib, GitPC
<1>8. ASSUME NEW p \in Process, CloneEnd(p) PROVE TypeOK'
  <2>1. [st |-> "clean", rev |-> head, to |-> head, origin |-> head] \in Dir
    BY DEF TypeOK, Dir
  <2> QED BY <1>8, <2>1, GotoType DEF CloneEnd, TypeOK, lib, GitPC
<1>9. ASSUME NEW p \in Process, Fetch(p) PROVE TypeOK'
  <2>1. dir' \in [Place -> Dir]
    BY <1>9 DEF Fetch, TypeOK, Dir
  <2> QED BY <1>9, <2>1, GotoType DEF Fetch, TypeOK, lib, GitPC
<1>10. ASSUME NEW p \in Process, CheckoutBegin(p) PROVE TypeOK'
  <2>1. Target(place[p]) \in 0..MaxHead
    BY DEF Target, TypeOK, Dir
  <2>2. dir' \in [Place -> Dir]
    BY <1>10, <2>1 DEF CheckoutBegin, TypeOK, Dir
  <2> QED BY <1>10, <2>2, GotoType DEF CheckoutBegin, TypeOK, lib, GitPC
<1>11. ASSUME NEW p \in Process, CheckoutEnd(p) PROVE TypeOK'
  <2>1. dir' \in [Place -> Dir]
    BY <1>11 DEF CheckoutEnd, TypeOK, Dir
  <2> QED BY <1>11, <2>1, GotoType DEF CheckoutEnd, TypeOK, lib, GitPC
<1>12. ASSUME NEW p \in Process, Unlock(p) PROVE TypeOK'
  BY <1>12, GotoType DEF Unlock, TypeOK, tree, lib
<1>13. ASSUME NEW p \in Process, Load(p) PROVE TypeOK'
  <2>1. \A d \in Dir : Contents(d) \subseteq (0..MaxHead) \cup {Torn}
    BY DEF Contents, Dir
  <2>2. got' \in [Process -> (0..MaxHead) \cup {Torn}]
    BY <1>13, <2>1 DEF Load, TypeOK
  <2> QED BY <1>13, <2>2, GotoType DEF Load, TypeOK, tree, lib
<1>14. ASSUME NEW p \in Process, Done(p) PROVE TypeOK'
  BY <1>14, GotoType, SharedCacheAssumption DEF Done, TypeOK, tree, lib
<1>15. ASSUME NEW p \in Process, Expand(p) PROVE TypeOK'
  BY <1>15, GotoType DEF Expand, TypeOK, tree, lib, StdPC
<1>16. ASSUME NEW p \in Process, StdAcquire(p) PROVE TypeOK'
  BY <1>16, GotoType DEF StdAcquire, TypeOK, tree, lib, StdPC, Lock
<1>17. ASSUME NEW p \in Process, NEW f \in File, StdWriteBegin(p, f) PROVE TypeOK'
  BY <1>17, GotoType DEF StdWriteBegin, TypeOK, tree, StdPC
<1>18. ASSUME NEW p \in Process, NEW f \in File, StdWriteEnd(p, f) PROVE TypeOK'
  BY <1>18, GotoType DEF StdWriteEnd, TypeOK, tree, StdPC
<1>19. ASSUME NEW p \in Process, StdMark(p) PROVE TypeOK'
  BY <1>19, GotoType DEF StdMark, TypeOK, tree, StdPC
<1>20. ASSUME NEW p \in Process, StdUnlock(p) PROVE TypeOK'
  BY <1>20, GotoType DEF StdUnlock, TypeOK, tree, lib, Lock
<1>21. ASSUME NEW p \in Process, Stop(p) PROVE TypeOK'
  <2>1. stranded' \subseteq Revision
    BY <1>21 DEF Stop, TypeOK
  <2> QED BY <1>21, <2>1, GotoType, SharedCacheAssumption DEF Stop, TypeOK, lib
<1> QED
  BY <1>1, <1>2, <1>3, <1>4, <1>5, <1>6, <1>7, <1>8, <1>9, <1>10, <1>11,
     <1>12, <1>13, <1>14, <1>15, <1>16, <1>17, <1>18, <1>19, <1>20, <1>21
  DEF Next

\* The initial directories are absent and every process is idle.
LEMMA TypeInit == Init => TypeOK
<1> SUFFICES ASSUME Init PROVE TypeOK
  OBVIOUS
<1>1. NoDir \in Dir
  BY SharedCacheAssumption DEF NoDir, Dir
<1>2. 0 \in 0..MaxHead
  BY SharedCacheAssumption
<1>3. head \in Version /\ place \in [Process -> Place]
  BY Constants DEF Init
<1>4. lock \in [Lock -> Process \cup {None}] /\ dir \in [Place -> Dir]
  BY <1>1 DEF Init
<1>5. need \in [Process -> 0..MaxHead] /\ got \in [Process -> 0..MaxHead \cup {Torn}]
  BY <1>2 DEF Init
<1> QED BY <1>3, <1>4, <1>5 DEF Init, TypeOK

\* The type invariant of the shared cache directory, for all constants.
THEOREM TypeCorrect == Spec => []TypeOK
BY TypeInit, TypeStep, PTL DEF Spec

-------------------------------------------------------------------------------
(* The locks *)

\* The labels of the protocol are told apart by the sets they are in.
LEMMA Labels ==
  /\ GitPC = {"lock", "inspect", "unlock"} \cup WorkPC
  /\ GitPC \cap StdPC = {} /\ "idle" \notin GitPC \cup StdPC
  /\ {"load", "done", "stdRead"} \cap (GitPC \cup StdPC) = {}
  /\ WorkPC \cap ReadPC = {} /\ WorkPC \subseteq GitPC \ {"lock"}
BY DEF GitPC, StdPC, WorkPC, ReadPC

\* A process that changes its own label only, from one label at which it
\* holds a lock to another, keeps Locked.
LEMMA LockedGoto ==
  ASSUME TypeOK, Locked, NEW p \in Process, NEW label, Goto(p, label),
         UNCHANGED lock, UNCHANGED place,
         label \in GitPC \ {"lock"} => pc[p] \in GitPC \ {"lock"},
         label \in StdPC \ {"stdLock"} => pc[p] \in StdPC \ {"stdLock"}
  PROVE  Locked'
BY DEF TypeOK, Locked, Goto

\* lock_dir waits for the lock, unlock_dir and the end of a process give up
\* only what that process holds: Locked is inductive.
LEMMA LockedStep == TypeOK /\ Locked /\ [Next]_vars => Locked'
<1> SUFFICES ASSUME TypeOK, Locked, [Next]_vars PROVE Locked'
  OBVIOUS
<1> USE Constants, Labels
<1>1. CASE UNCHANGED vars
  BY <1>1 DEF Locked, vars
<1>2. CASE Publish
  BY <1>2 DEF Publish, Locked
<1>3. ASSUME NEW p \in Process, NEW x \in Place, Begin(p, x) PROVE Locked'
  BY <1>3 DEF Begin, Goto, TypeOK, Locked, StdPC
<1>4. ASSUME NEW p \in Process, Acquire(p) PROVE Locked'
  BY <1>4 DEF Acquire, Goto, TypeOK, Locked, StdPC, Lock
<1>5. ASSUME NEW p \in Process, Inspect(p) PROVE Locked'
  <2>1. Inspection(place[p]) \notin StdPC
    BY DEF Inspection, StdPC
  <2> QED BY <1>5, <2>1, LockedGoto DEF Inspect
<1>6. ASSUME NEW p \in Process, Remove(p) PROVE Locked'
  <2>1. CASE UNCHANGED pc
    BY <1>6, <2>1 DEF Remove, Locked
  <2>2. CASE Goto(p, "clone")
    BY <1>6, <2>2, LockedGoto DEF Remove, StdPC, WorkPC
  <2> QED BY <1>6, <2>1, <2>2 DEF Remove
<1>7. ASSUME NEW p \in Process, CloneBegin(p) PROVE Locked'
  BY <1>7, LockedGoto DEF CloneBegin, StdPC, WorkPC
<1>8. ASSUME NEW p \in Process, CloneEnd(p) PROVE Locked'
  BY <1>8, LockedGoto DEF CloneEnd, StdPC, WorkPC
<1>9. ASSUME NEW p \in Process, Fetch(p) PROVE Locked'
  BY <1>9, LockedGoto DEF Fetch, StdPC, WorkPC
<1>10. ASSUME NEW p \in Process, CheckoutBegin(p) PROVE Locked'
  BY <1>10, LockedGoto DEF CheckoutBegin, StdPC, WorkPC
<1>11. ASSUME NEW p \in Process, CheckoutEnd(p) PROVE Locked'
  BY <1>11, LockedGoto DEF CheckoutEnd, StdPC, WorkPC
<1>12. ASSUME NEW p \in Process, Unlock(p) PROVE Locked'
  BY <1>12 DEF Unlock, Goto, TypeOK, Locked, Lock
<1>13. ASSUME NEW p \in Process, Load(p) PROVE Locked'
  BY <1>13, LockedGoto DEF Load
<1>14. ASSUME NEW p \in Process, Done(p) PROVE Locked'
  BY <1>14 DEF Done, Goto, TypeOK, Locked
<1>15. ASSUME NEW p \in Process, Expand(p) PROVE Locked'
  BY <1>15, LockedGoto DEF Expand, GitPC, StdPC
<1>16. ASSUME NEW p \in Process, StdAcquire(p) PROVE Locked'
  BY <1>16 DEF StdAcquire, Goto, TypeOK, Locked, GitPC, Lock
<1>17. ASSUME NEW p \in Process, NEW f \in File, StdWriteBegin(p, f) PROVE Locked'
  BY <1>17, LockedGoto DEF StdWriteBegin, GitPC, StdPC
<1>18. ASSUME NEW p \in Process, NEW f \in File, StdWriteEnd(p, f) PROVE Locked'
  BY <1>18, LockedGoto DEF StdWriteEnd, GitPC, StdPC
<1>19. ASSUME NEW p \in Process, StdMark(p) PROVE Locked'
  BY <1>19, LockedGoto DEF StdMark, GitPC, StdPC
<1>20. ASSUME NEW p \in Process, StdUnlock(p) PROVE Locked'
  BY <1>20 DEF StdUnlock, Goto, TypeOK, Locked, StdPC, Lock
<1>21. ASSUME NEW p \in Process, Stop(p) PROVE Locked'
  BY <1>21 DEF Stop, Goto, TypeOK, Locked, Lock
<1> QED
  BY <1>1, <1>2, <1>3, <1>4, <1>5, <1>6, <1>7, <1>8, <1>9, <1>10, <1>11,
     <1>12, <1>13, <1>14, <1>15, <1>16, <1>17, <1>18, <1>19, <1>20, <1>21
  DEF Next

\* Mutual exclusion of the resolve, dependencies and std locks: two processes
\* are never at work on the same part of the cache directory.
THEOREM MutualExclusion == Spec => []OneWriter
<1>1. Init => Locked
  BY Labels DEF Init, Locked
<1>2. Locked => OneWriter
  BY DEF Locked, OneWriter, At, AtStd
<1> QED
  BY <1>1, <1>2, TypeInit, TypeStep, LockedStep, PTL DEF Spec

-------------------------------------------------------------------------------
(* The checkouts *)

\* What a step that starts with p does to the others is nothing: their label
\* and their place stay.
Others(p) ==
  \A q \in Process \ {p} : pc'[q] = pc[q] /\ place'[q] = place[q] /\ got'[q] = got[q]

\* While p is at work on x nobody else is, and nobody has settled for x.
LEMMA Alone ==
  ASSUME TypeOK, Locked, Settled, NEW p \in Process, pc[p] \in WorkPC,
         place[p] \in Revision
  PROVE  \A q \in Process \ {p} : place[q] = place[p] =>
            pc[q] \notin (GitPC \ {"lock"}) \cup ReadPC
<1> SUFFICES ASSUME NEW q \in Process \ {p}, place[q] = place[p]
             PROVE  pc[q] \notin (GitPC \ {"lock"}) \cup ReadPC
  OBVIOUS
<1>1. lock[LockOf(place[p])] = p
  BY Labels DEF Locked
<1>2. pc[q] \notin GitPC \ {"lock"}
  BY <1>1 DEF Locked
<1>3. pc[q] \notin ReadPC
  BY DEF Settled
<1> QED BY <1>2, <1>3

\* The work on a checkout keeps what the others rely on.  Every action that
\* writes a directory is one of WorkPC, at which its process is alone.
LEMMA Work ==
  ASSUME GitInv, TypeOK', NEW p \in Process, pc[p] \in WorkPC, Others(p),
         place'[p] = place[p], got'[p] = got[p],
         \A x \in Revision \ {place[p]} :
           dir'[x] = dir[x] /\ (x \in stranded' <=> x \in stranded),
         \/ pc'[p] \in WorkPC \ {"fetch", "checkout", "checking"}
            /\ (place[p] \in Revision => dir'[place[p]].st # "clean")
         \/ pc'[p] \in {"fetch", "checkout"}
         \/ pc'[p] = "checking"
            /\ (place[p] \in Revision =>
                  dir'[place[p]].st # "clean" /\ dir'[place[p]].to = place[p])
         \/ pc'[p] = "unlock"
            /\ (place[p] \in Revision =>
                  dir'[place[p]].st = "clean" /\ dir'[place[p]].rev = place[p])
  PROVE  Checkouts' /\ Settled' /\ CheckingRight' /\ RightRevision'
<1> USE DEF GitInv
<1>0. place[p] \in Revision =>
        \A q \in Process \ {p} : place[q] = place[p] =>
           pc[q] \notin (GitPC \ {"lock"}) \cup ReadPC
  BY Alone
<1>1. Checkouts'
  <2> SUFFICES ASSUME NEW x \in Revision, (dir[x].st = "clean")'
               PROVE  \/ (dir[x].rev = x)'
                      \/ x \in stranded'
                      \/ \E q \in Process :
                           (pc[q] \in {"fetch", "checkout"} /\ place[q] = x)'
    BY DEF Checkouts
  <2>1. CASE x = place[p]
    BY <2>1 DEF WorkPC
  <2>2. CASE x # place[p]
    <3>1. CASE dir[x].rev = x \/ x \in stranded
      BY <2>2, <3>1
    <3>2. CASE \E q \in Process : pc[q] \in {"fetch", "checkout"} /\ place[q] = x
      <4>1. PICK q \in Process : pc[q] \in {"fetch", "checkout"} /\ place[q] = x
        BY <3>2
      <4>2. q # p
        BY <4>1, <2>2
      <4> QED BY <4>1, <4>2 DEF Others
    <3> QED BY <2>2, <3>1, <3>2 DEF Checkouts
  <2> QED BY <2>1, <2>2
<1>2. Settled'
  <2> SUFFICES ASSUME NEW q \in Process, pc'[q] \in ReadPC, place'[q] \in Revision
               PROVE  /\ (dir[place[q]].st = "clean")'
                      /\ (dir[place[q]].rev = place[q] \/ place[q] \in stranded)'
                      /\ \A r \in Process : place'[r] = place'[q] => pc'[r] \notin WorkPC
    BY DEF Settled
  <2>1. CASE q = p
    <3>1. pc'[p] = "unlock"
      BY <2>1 DEF WorkPC, ReadPC
    <3>2. \A r \in Process \ {p} : place'[r] = place'[p] => pc'[r] \notin WorkPC
      BY <1>0, <2>1, Labels DEF Others
    <3> QED BY <2>1, <3>1, <3>2 DEF WorkPC
  <2>2. CASE q # p
    <3>1. pc[q] \in ReadPC /\ place[q] \in Revision /\ place'[q] = place[q]
      BY <2>2 DEF Others
    <3>2. place[q] # place[p]
      BY <1>0, <2>2, <3>1
    <3> QED BY <2>2, <3>1, <3>2 DEF Others, Settled
  <2> QED BY <2>1, <2>2
<1>3. CheckingRight'
  <2> SUFFICES ASSUME NEW q \in Process, pc'[q] = "checking", place'[q] \in Revision
               PROVE  (dir[place[q]].to = place[q])'
    BY DEF CheckingRight
  <2>1. CASE q = p
    BY <2>1 DEF WorkPC
  <2>2. CASE q # p
    <3>1. pc[q] = "checking" /\ place[q] \in Revision /\ place'[q] = place[q]
      BY <2>2 DEF Others
    <3>2. place[q] # place[p]
      BY <1>0, <2>2, <3>1 DEF GitPC
    <3> QED BY <3>1, <3>2 DEF CheckingRight
  <2> QED BY <2>1, <2>2
<1>4. RightRevision'
  <2> SUFFICES ASSUME NEW q \in Process, pc'[q] = "done", place'[q] # Latest
               PROVE  \/ got'[q] = place'[q]
                      \/ place'[q] \in stranded' /\ got'[q] # Torn
    BY DEF RightRevision
  <2>1. q # p
    BY DEF WorkPC
  <2>2. pc[q] = "done" /\ place[q] # Latest /\ place'[q] = place[q] /\ got'[q] = got[q]
    BY <2>1 DEF Others
  <2>3. place[q] \in Revision
    BY <2>2, Constants DEF TypeOK
  <2>4. place[q] # place[p]
    BY <1>0, <2>1, <2>2, <2>3 DEF ReadPC
  <2> QED BY <2>2, <2>3, <2>4 DEF RightRevision
<1> QED BY <1>1, <1>2, <1>3, <1>4

\* A step of p that writes no directory keeps what is said of them, if p
\* neither starts to work on a checkout that somebody has settled for nor
\* settles for one that is not right, nor leaves a fresh clone unaccounted.
LEMMA Look ==
  ASSUME GitInv, TypeOK', NEW p \in Process, Others(p), UNCHANGED dir,
         stranded \subseteq stranded',
         pc[p] \in {"fetch", "checkout"} /\ place[p] \in Revision =>
           place[p] \in stranded',
         pc'[p] # "checking",
         pc'[p] \in WorkPC /\ place'[p] \in Revision => dir[place'[p]].st # "clean",
         pc'[p] \in ReadPC /\ place'[p] \in Revision =>
           /\ dir[place'[p]].st = "clean"
           /\ dir[place'[p]].rev = place'[p] \/ place'[p] \in stranded'
           /\ \A q \in Process \ {p} : place[q] = place'[p] => pc[q] \notin WorkPC,
         pc'[p] = "done" /\ place'[p] \in Revision =>
           got'[p] = place'[p] \/ (place'[p] \in stranded' /\ got'[p] # Torn)
  PROVE  Checkouts' /\ Settled' /\ CheckingRight' /\ RightRevision'
<1> USE DEF GitInv
<1>1. Checkouts'
  <2> SUFFICES ASSUME NEW x \in Revision, dir[x].st = "clean"
               PROVE  \/ dir[x].rev = x
                      \/ x \in stranded'
                      \/ \E q \in Process :
                           (pc[q] \in {"fetch", "checkout"} /\ place[q] = x)'
    BY DEF Checkouts
  <2>1. CASE dir[x].rev = x \/ x \in stranded
    BY <2>1
  <2>2. CASE \E q \in Process : pc[q] \in {"fetch", "checkout"} /\ place[q] = x
    <3>1. PICK q \in Process : pc[q] \in {"fetch", "checkout"} /\ place[q] = x
      BY <2>2
    <3> QED BY <3>1 DEF Others
  <2> QED BY <2>1, <2>2 DEF Checkouts
<1>2. Settled'
  <2> SUFFICES ASSUME NEW q \in Process, pc'[q] \in ReadPC, place'[q] \in Revision
               PROVE  /\ dir[place'[q]].st = "clean"
                      /\ dir[place'[q]].rev = place'[q] \/ place'[q] \in stranded'
                      /\ \A r \in Process : place'[r] = place'[q] => pc'[r] \notin WorkPC
    BY DEF Settled
  <2>1. CASE q = p
    BY <2>1, Labels DEF Others
  <2>2. CASE q # p
    BY <2>2 DEF Others, Settled
  <2> QED BY <2>1, <2>2
<1>3. CheckingRight'
  BY DEF CheckingRight, Others
<1>4. RightRevision'
  BY Constants DEF RightRevision, Others, TypeOK
<1> QED BY <1>1, <1>2, <1>3, <1>4

\* Every action keeps the checkouts right: those of WorkPC by Work, the rest
\* by Look.
LEMMA GitStep == GitInv /\ [Next]_vars => GitInv'
<1> SUFFICES ASSUME GitInv, [Next]_vars
             PROVE  Checkouts' /\ Settled' /\ CheckingRight' /\ RightRevision'
  BY TypeStep, LockedStep DEF GitInv
<1> DEFINE Goal == Checkouts' /\ Settled' /\ CheckingRight' /\ RightRevision'
<1>a. TypeOK /\ Locked /\ TypeOK'
  BY TypeStep DEF GitInv
<1>b. \A p \in Process : \A v, w, u :
        pc' = [pc EXCEPT ![p] = v] /\ place' = [place EXCEPT ![p] = w]
          /\ got' = [got EXCEPT ![p] = u] =>
        Others(p) /\ pc'[p] = v /\ place'[p] = w /\ got'[p] = u
  BY <1>a DEF TypeOK, Others
<1>c. \A p \in Process : \A v :
        pc' = [pc EXCEPT ![p] = v] /\ UNCHANGED place /\ UNCHANGED got =>
        Others(p) /\ pc'[p] = v /\ place'[p] = place[p] /\ got'[p] = got[p]
  BY <1>a DEF TypeOK, Others
<1>1. CASE UNCHANGED vars
  BY <1>1 DEF vars, GitInv, Checkouts, Settled, CheckingRight, RightRevision
<1>2. CASE Publish
  BY <1>2 DEF Publish, GitInv, Checkouts, Settled, CheckingRight, RightRevision
<1>3. ASSUME NEW p \in Process, NEW x \in Place, Begin(p, x) PROVE Goal
  <2>1. Others(p) /\ pc'[p] = "lock" /\ pc[p] = "idle"
    BY <1>3, <1>a DEF Begin, Goto, TypeOK, Others
  <2> QED BY <1>3, <1>a, <2>1, Look DEF Begin, tree, WorkPC, ReadPC
<1>4. ASSUME NEW p \in Process, Acquire(p) PROVE Goal
  <2>1. Others(p) /\ pc'[p] = "inspect" /\ pc[p] = "lock"
    BY <1>4, <1>c DEF Acquire, Goto
  <2> QED BY <1>4, <1>a, <2>1, Look DEF Acquire, tree, WorkPC, ReadPC
<1>5. ASSUME NEW p \in Process, Inspect(p) PROVE Goal
  <2>1. /\ Others(p) /\ pc'[p] = Inspection(place[p]) /\ place'[p] = place[p]
        /\ pc[p] = "inspect"
    BY <1>5, <1>c DEF Inspect, Goto
  <2>2. \A q \in Process \ {p} : place[q] = place[p] => pc[q] \notin WorkPC
    BY <1>a, <2>1, Labels DEF Locked
  <2>3. CASE place[p] = Latest
    <3>1. place'[p] \notin Revision /\ pc'[p] \in {"clone", "fetch"}
      BY <2>1, <2>3, Constants DEF Inspection
    <3> QED BY <1>5, <1>a, <2>1, <3>1, Look DEF Inspect, tree
  <2>4. CASE place[p] # Latest /\ dir[place[p]].st = "clean"
    <3>1. pc'[p] = "unlock" /\ place[p] \in Revision
      BY <1>a, <2>1, <2>4, Constants DEF Inspection, TypeOK
    <3>2. dir[place[p]].rev = place[p] \/ place[p] \in stranded
      BY <2>1, <2>2, <2>4, <3>1 DEF GitInv, Checkouts, WorkPC
    <3> QED BY <1>5, <1>a, <2>1, <2>2, <2>4, <3>1, <3>2, Look
            DEF Inspect, tree, WorkPC
  <2>5. CASE place[p] # Latest /\ dir[place[p]].st # "clean"
    <3>1. pc'[p] \in {"clone", "remove"}
      BY <2>1, <2>5 DEF Inspection
    <3> QED BY <1>5, <1>a, <2>1, <2>5, <3>1, Look DEF Inspect, tree, ReadPC
  <2> QED BY <2>3, <2>4, <2>5
<1>6. ASSUME NEW p \in Process, Remove(p) PROVE Goal
  <2>0. pc[p] = "remove" /\ pc[p] \in WorkPC /\ place[p] \in Place
    BY <1>6, <1>a DEF Remove, WorkPC, TypeOK
  <2>1. CASE UNCHANGED pc /\ dir' = [dir EXCEPT ![place[p]].st = "partial"]
    <3>1. Others(p) /\ pc'[p] = "remove" /\ place'[p] = place[p] /\ got'[p] = got[p]
      BY <1>6, <2>0, <2>1 DEF Remove, Others
    <3>2. dir'[place[p]].st = "partial" /\ \A x \in Place \ {place[p]} : dir'[x] = dir[x]
      BY <1>a, <2>0, <2>1 DEF TypeOK, Dir
    <3> QED BY <1>6, <1>a, <2>0, <3>1, <3>2, Work, Constants DEF Remove, WorkPC
  <2>2. CASE Goto(p, "clone") /\ dir' = [dir EXCEPT ![place[p]] = NoDir]
    <3>1. Others(p) /\ pc'[p] = "clone" /\ place'[p] = place[p] /\ got'[p] = got[p]
      BY <1>6, <1>c, <2>2 DEF Remove, Goto
    <3>2. dir'[place[p]].st = "absent" /\ \A x \in Place \ {place[p]} : dir'[x] = dir[x]
      BY <1>a, <2>0, <2>2 DEF TypeOK, NoDir
    <3> QED BY <1>6, <1>a, <2>0, <3>1, <3>2, Work, Constants DEF Remove, WorkPC
  <2> QED BY <1>6, <2>1, <2>2 DEF Remove
<1>7. ASSUME NEW p \in Process, CloneBegin(p) PROVE Goal
  <2>0. pc[p] \in WorkPC /\ place[p] \in Place
    BY <1>7, <1>a DEF CloneBegin, WorkPC, TypeOK
  <2>1. Others(p) /\ pc'[p] = "cloning" /\ place'[p] = place[p] /\ got'[p] = got[p]
    BY <1>7, <1>c DEF CloneBegin, Goto
  <2>2. dir'[place[p]].st = "partial" /\ \A x \in Place \ {place[p]} : dir'[x] = dir[x]
    BY <1>7, <1>a, <2>0 DEF CloneBegin, TypeOK, NoDir
  <2> QED BY <1>7, <1>a, <2>0, <2>1, <2>2, Work, Constants DEF CloneBegin, WorkPC
<1>8. ASSUME NEW p \in Process, CloneEnd(p) PROVE Goal
  <2>0. pc[p] \in WorkPC /\ place[p] \in Place
    BY <1>8, <1>a DEF CloneEnd, WorkPC, TypeOK
  <2>1. Others(p) /\ pc'[p] = "fetch" /\ place'[p] = place[p] /\ got'[p] = got[p]
    BY <1>8, <1>c DEF CloneEnd, Goto
  <2>2. \A x \in Place \ {place[p]} : dir'[x] = dir[x]
    BY <1>8, <1>a, <2>0 DEF CloneEnd, TypeOK
  <2> QED BY <1>8, <1>a, <2>0, <2>1, <2>2, Work, Constants DEF CloneEnd
<1>9. ASSUME NEW p \in Process, Fetch(p) PROVE Goal
  <2>0. pc[p] \in WorkPC /\ place[p] \in Place
    BY <1>9, <1>a DEF Fetch, WorkPC, TypeOK
  <2>1. Others(p) /\ pc'[p] = "checkout" /\ place'[p] = place[p] /\ got'[p] = got[p]
    BY <1>9, <1>c DEF Fetch, Goto
  <2>2. \A x \in Place \ {place[p]} : dir'[x] = dir[x]
    BY <1>9, <1>a, <2>0 DEF Fetch, TypeOK
  <2> QED BY <1>9, <1>a, <2>0, <2>1, <2>2, Work, Constants DEF Fetch
<1>10. ASSUME NEW p \in Process, CheckoutBegin(p) PROVE Goal
  <2>0. pc[p] \in WorkPC /\ place[p] \in Place
    BY <1>10, <1>a DEF CheckoutBegin, WorkPC, TypeOK
  <2>1. Others(p) /\ pc'[p] = "checking" /\ place'[p] = place[p] /\ got'[p] = got[p]
    BY <1>10, <1>c DEF CheckoutBegin, Goto
  <2>2. /\ dir'[place[p]].st = "dirty" /\ dir'[place[p]].to = Target(place[p])
        /\ \A x \in Place \ {place[p]} : dir'[x] = dir[x]
    BY <1>10, <1>a, <2>0 DEF CheckoutBegin, TypeOK, Dir
  <2>3. place[p] \in Revision => Target(place[p]) = place[p]
    BY Constants DEF Target
  <2> QED BY <1>10, <1>a, <2>0, <2>1, <2>2, <2>3, Work, Constants DEF CheckoutBegin
<1>11. ASSUME NEW p \in Process, CheckoutEnd(p) PROVE Goal
  <2>0. pc[p] \in WorkPC /\ place[p] \in Place
    BY <1>11, <1>a DEF CheckoutEnd, WorkPC, TypeOK
  <2>1. Others(p) /\ pc'[p] = "unlock" /\ place'[p] = place[p] /\ got'[p] = got[p]
    BY <1>11, <1>c DEF CheckoutEnd, Goto
  <2>2. /\ dir'[place[p]].st = "clean" /\ dir'[place[p]].rev = dir[place[p]].to
        /\ \A x \in Place \ {place[p]} : dir'[x] = dir[x]
    BY <1>11, <1>a, <2>0 DEF CheckoutEnd, TypeOK, Dir
  <2>3. place[p] \in Revision => dir[place[p]].to = place[p]
    BY <1>11 DEF CheckoutEnd, GitInv, CheckingRight
  <2> QED BY <1>11, <1>a, <2>0, <2>1, <2>2, <2>3, Work, Constants DEF CheckoutEnd
<1>12. ASSUME NEW p \in Process, Unlock(p) PROVE Goal
  <2>1. /\ Others(p) /\ pc'[p] = "load" /\ pc[p] = "unlock" /\ place'[p] = place[p]
    BY <1>12, <1>c DEF Unlock, Goto
  <2>2. "load" \in ReadPC /\ "unlock" \in ReadPC /\ "load" \notin WorkPC
    BY DEF ReadPC, WorkPC
  <2> QED BY <1>12, <1>a, <2>1, <2>2, Look DEF Unlock, tree, GitInv, Settled
<1>13. ASSUME NEW p \in Process, Load(p) PROVE Goal
  <2>1. PICK v \in Contents(dir[place[p]]) : got' = [got EXCEPT ![p] = v]
    BY <1>13 DEF Load
  <2>2. /\ Others(p) /\ pc'[p] = "done" /\ pc[p] = "load" /\ place'[p] = place[p]
        /\ got'[p] = v
    BY <1>13, <1>a, <2>1 DEF Load, Goto, TypeOK, Others
  <2>3. "load" \in ReadPC /\ "done" \in ReadPC /\ "done" \notin WorkPC
    BY DEF ReadPC, WorkPC
  <2>4. place[p] \in Revision => v = dir[place[p]].rev /\ v # Torn
    <3> HAVE place[p] \in Revision
    <3>1. dir[place[p]].st = "clean"
      BY <2>2, <2>3 DEF GitInv, Settled
    <3>2. Contents(dir[place[p]]) = {dir[place[p]].rev}
      BY <3>1 DEF Contents
    <3>3. dir[place[p]].rev \in 0..MaxHead
      BY <1>a DEF TypeOK, Dir
    <3> QED BY <2>1, <3>2, <3>3, Constants
  <2> QED BY <1>13, <1>a, <2>2, <2>3, <2>4, Look DEF Load, tree, GitInv, Settled
<1>14. ASSUME NEW p \in Process, Done(p) PROVE Goal
  <2>1. Others(p) /\ pc'[p] = "idle" /\ pc[p] \in {"done", "stdRead"}
    BY <1>14, <1>b DEF Done, Goto
  <2> QED BY <1>14, <1>a, <2>1, Look DEF Done, tree, WorkPC, ReadPC
<1>15. ASSUME NEW p \in Process, Expand(p) PROVE Goal
  <2>1. Others(p) /\ pc'[p] \in {"stdRead", "stdLock"} /\ pc[p] = "idle"
    BY <1>15, <1>c DEF Expand, Goto
  <2> QED BY <1>15, <1>a, <2>1, Look DEF Expand, tree, WorkPC, ReadPC
<1>16. ASSUME NEW p \in Process, StdAcquire(p) PROVE Goal
  <2>1. Others(p) /\ pc'[p] \in {"stdUnlock", "stdFiles"} /\ pc[p] = "stdLock"
    BY <1>16, <1>c DEF StdAcquire, Goto
  <2> QED BY <1>16, <1>a, <2>1, Look DEF StdAcquire, tree, WorkPC, ReadPC
<1>17. ASSUME NEW p \in Process, NEW f \in File, StdWriteBegin(p, f) PROVE Goal
  <2>1. Others(p) /\ pc'[p] \in {"stdWriting"} /\ pc[p] = "stdFiles"
    BY <1>17, <1>c DEF StdWriteBegin, Goto
  <2> QED BY <1>17, <1>a, <2>1, Look DEF StdWriteBegin, tree, WorkPC, ReadPC
<1>18. ASSUME NEW p \in Process, NEW f \in File, StdWriteEnd(p, f) PROVE Goal
  <2>1. Others(p) /\ pc'[p] \in {"stdFiles"} /\ pc[p] = "stdWriting"
    BY <1>18, <1>c DEF StdWriteEnd, Goto
  <2> QED BY <1>18, <1>a, <2>1, Look DEF StdWriteEnd, tree, WorkPC, ReadPC
<1>19. ASSUME NEW p \in Process, StdMark(p) PROVE Goal
  <2>1. Others(p) /\ pc'[p] \in {"stdUnlock"} /\ pc[p] = "stdFiles"
    BY <1>19, <1>c DEF StdMark, Goto
  <2> QED BY <1>19, <1>a, <2>1, Look DEF StdMark, tree, WorkPC, ReadPC
<1>20. ASSUME NEW p \in Process, StdUnlock(p) PROVE Goal
  <2>1. Others(p) /\ pc'[p] \in {"stdRead"} /\ pc[p] = "stdUnlock"
    BY <1>20, <1>c DEF StdUnlock, Goto
  <2> QED BY <1>20, <1>a, <2>1, Look DEF StdUnlock, tree, WorkPC, ReadPC
<1>21. ASSUME NEW p \in Process, Stop(p) PROVE Goal
  <2>1. Others(p) /\ pc'[p] = "idle"
    BY <1>21, <1>b DEF Stop, Goto
  <2>2. pc[p] \in {"fetch", "checkout"} /\ place[p] \in Revision => place[p] \in stranded'
    BY <1>21, Constants DEF Stop
  <2> QED BY <1>21, <1>a, <2>1, <2>2, Look DEF Stop, WorkPC, ReadPC
<1> QED
  BY <1>1, <1>2, <1>3, <1>4, <1>5, <1>6, <1>7, <1>8, <1>9, <1>10, <1>11,
     <1>12, <1>13, <1>14, <1>15, <1>16, <1>17, <1>18, <1>19, <1>20, <1>21
  DEF Next

\* A dependency is read as the revision that is locked (get_metadata), but
\* for the one case that RightRevision names.
THEOREM RightRevisionHolds == Spec => []RightRevision
<1>1. Init => GitInv
  <2> SUFFICES ASSUME Init PROVE GitInv
    OBVIOUS
  <2>1. \A p \in Process : pc[p] = "idle"
    BY DEF Init
  <2>2. \A x \in Revision : dir[x].st = "absent"
    BY Constants DEF Init, NoDir
  <2>3. Locked
    BY <2>1, Labels DEF Locked
  <2>4. Checkouts
    BY <2>2 DEF Checkouts
  <2> QED BY <2>1, <2>3, <2>4, TypeInit
          DEF GitInv, Settled, CheckingRight, RightRevision, ReadPC
<1>2. GitInv => RightRevision
  BY DEF GitInv
<1> QED
  BY <1>1, <1>2, GitStep, PTL DEF Spec

-------------------------------------------------------------------------------
(* The lookups of releases *)

\* A clone under resolve in which version v and only later ones can be read.
Served(v, d) ==
  d.st \in {"dirty", "clean"} /\ v <= d.origin /\ v <= d.to /\ v <= d.rev

\* What a lookup has found in, or made of, the clone it holds the lock of; and
\* what it may still rely on when it reads the clone without the lock.
Lookup(p) ==
  place[p] = Latest =>
    /\ pc[p] # "remove"
    /\ pc[p] = "clone" => dir[Latest].st = "absent"
    /\ pc[p] = "cloning" => dir[Latest].st = "partial"
    /\ pc[p] = "fetch" => dir[Latest].st # "absent"
    /\ pc[p] \in {"checkout", "checking"} =>
         dir[Latest].st \in {"dirty", "clean"} /\ need[p] <= dir[Latest].origin
    /\ pc[p] = "checking" => need[p] <= dir[Latest].to
    /\ pc[p] \in ReadPC => Served(need[p], dir[Latest])
    /\ pc[p] = "done" /\ got[p] # Torn => need[p] <= got[p]

Lookups == \A p \in Process : need[p] <= head /\ Lookup(p)

LookInv == TypeOK /\ Locked /\ Lookups

\* A step of p keeps the lookups of the others: the clone is as it was, or p
\* holds its lock, nobody else is between fetch and checkout, and those who
\* read it are served by what it has become.
LEMMA LookupOthers ==
  ASSUME LookInv, NEW p \in Process, Others(p),
         \A q \in Process \ {p} : need'[q] = need[q],
         \A v \in 0..MaxHead : v <= head => v <= head',
         need'[p] <= head', Lookup(p)',
         \/ dir'[Latest] = dir[Latest]
         \/ /\ place[p] = Latest /\ pc[p] \in WorkPC
            /\ \A q \in Process : place[q] = Latest /\ pc[q] \in {"load", "done"} =>
                 Served(need[q], dir'[Latest])
  PROVE  Lookups'
<1> SUFFICES ASSUME NEW q \in Process \ {p} PROVE need'[q] <= head' /\ Lookup(q)'
  BY DEF Lookups
<1>1. /\ pc'[q] = pc[q] /\ place'[q] = place[q] /\ got'[q] = got[q] /\ need'[q] = need[q]
      /\ need[q] <= head /\ Lookup(q) /\ need[q] \in 0..MaxHead
  BY DEF Others, LookInv, Lookups, TypeOK
<1>2. CASE dir'[Latest] = dir[Latest]
  BY <1>1, <1>2 DEF Lookup, Served
<1>3. CASE dir'[Latest] # dir[Latest] /\ place[q] = Latest
  <2>1. pc[q] \notin GitPC \ {"lock"}
    BY <1>3, Labels DEF LookInv, Locked
  <2>2. pc[q] \in {"load", "done"} => Served(need[q], dir'[Latest])
    BY <1>3
  <2>3. /\ pc[q] \notin {"remove", "clone", "cloning", "fetch", "checkout", "checking"}
        /\ pc[q] \in ReadPC => pc[q] \in {"load", "done"}
    BY <2>1 DEF GitPC, ReadPC
  <2> QED BY <1>1, <2>2, <2>3 DEF Lookup
<1>4. CASE place[q] # Latest
  BY <1>1, <1>4 DEF Lookup
<1> QED BY <1>2, <1>3, <1>4

\* Work on the checkout of a revision leaves the clone under resolve alone.
LEMMA ElsewhereLookup ==
  ASSUME LookInv, NEW p \in Process, Others(p), UNCHANGED <<need, head>>,
         \A x \in Place \ {place[p]} : dir'[x] = dir[x],
         place[p] # Latest, place'[p] = place[p]
  PROVE  Lookups'
<1>1. need'[p] <= head' /\ Lookup(p)'
  BY DEF LookInv, Lookups, Lookup
<1> QED BY <1>1, LookupOthers, Constants

\* Every step keeps what the lookups rely on: the version at origin/HEAD only
\* moves forward, and what is checked out follows it.
LEMMA LookStep == LookInv /\ [Next]_vars => LookInv'
<1> SUFFICES ASSUME LookInv, [Next]_vars PROVE Lookups'
  BY TypeStep, LockedStep DEF LookInv
<1> DEFINE Goal == Lookups'
<1>a. TypeOK /\ Locked
  BY DEF LookInv
<1>b. \A p \in Process : \A v, w, x :
        pc' = [pc EXCEPT ![p] = v] /\ place' = [place EXCEPT ![p] = w]
        /\ got' = [got EXCEPT ![p] = x]
        => Others(p) /\ pc'[p] = v /\ place'[p] = w /\ got'[p] = x
  BY <1>a DEF TypeOK, Others
<1>c. \A p \in Process : \A v :
        pc' = [pc EXCEPT ![p] = v] /\ place' = place /\ got' = got
        => Others(p) /\ pc'[p] = v /\ place'[p] = place[p] /\ got'[p] = got[p]
  BY <1>a DEF TypeOK, Others
<1>d. \A p \in Process : need[p] <= head /\ Lookup(p) /\ need[p] \in 0..MaxHead
  BY <1>a DEF LookInv, Lookups, TypeOK
<1>e. \A v \in 0..MaxHead : v <= head => v <= head
  OBVIOUS
<1>f. /\ Latest \in Place /\ dir[Latest] \in Dir /\ head \in 0..MaxHead /\ head <= head
      /\ 0 <= head /\ \A p \in Process : place[p] \in Place
  BY <1>a, Constants, SharedCacheAssumption DEF TypeOK, Version
<1>1. CASE UNCHANGED vars
  BY <1>1, <1>d DEF vars, Lookups, Lookup, Served
<1>2. CASE Publish
  <2>1. \A v \in 0..MaxHead : v <= head => v <= head'
    BY <1>2, <1>f, SharedCacheAssumption DEF Publish
  <2>2. UNCHANGED <<dir, pc, place, need, got>>
    BY <1>2 DEF Publish
  <2> QED BY <1>d, <2>1, <2>2 DEF Lookups, Lookup, Served
<1>3. ASSUME NEW p \in Process, NEW x \in Place, Begin(p, x) PROVE Goal
  <2>1. pc' = [pc EXCEPT ![p] = "lock"] /\ place' = [place EXCEPT ![p] = x]
        /\ got' = [got EXCEPT ![p] = got[p]]
    BY <1>3, <1>a DEF Begin, Goto, TypeOK
  <2>2. Others(p) /\ pc'[p] = "lock" /\ UNCHANGED <<tree, need>>
    BY <1>3, <1>b, <2>1 DEF Begin
  <2>3. need'[p] <= head' /\ Lookup(p)'
    BY <1>d, <2>2 DEF tree, Lookup, ReadPC
  <2> QED BY <1>e, <2>2, <2>3, LookupOthers DEF tree
<1>4. ASSUME NEW p \in Process, Acquire(p) PROVE Goal
  <2>1. Others(p) /\ pc'[p] = "inspect" /\ UNCHANGED <<tree, need>>
    BY <1>4, <1>c DEF Acquire, Goto
  <2>2. need'[p] <= head' /\ Lookup(p)'
    BY <1>d, <2>1 DEF tree, Lookup, ReadPC
  <2> QED BY <1>e, <2>1, <2>2, LookupOthers DEF tree
<1>5. ASSUME NEW p \in Process, Inspect(p) PROVE Goal
  <2>1. Others(p) /\ pc'[p] = Inspection(place[p]) /\ UNCHANGED <<tree, need, place>>
    BY <1>5, <1>c DEF Inspect, Goto
  <2>2. place[p] = Latest =>
          Inspection(place[p]) = IF dir[Latest].st = "absent" THEN "clone" ELSE "fetch"
    BY DEF Inspection
  <2>3. need'[p] <= head' /\ Lookup(p)'
    BY <1>d, <2>1, <2>2 DEF tree, Lookup, ReadPC
  <2> QED BY <1>e, <2>1, <2>3, LookupOthers DEF tree
<1>6. ASSUME NEW p \in Process, Remove(p) PROVE Goal
  <2>1. pc[p] = "remove" /\ place[p] # Latest /\ UNCHANGED <<place, need, head>>
    BY <1>6, <1>d DEF Remove, Lookup
  <2>2. Others(p)
    BY <1>6, <1>a, <1>c DEF Remove, Goto, Others
  <2>3. \A x \in Place \ {place[p]} : dir'[x] = dir[x]
    BY <1>6, <1>a DEF Remove, TypeOK
  <2> QED BY <2>1, <2>2, <2>3, ElsewhereLookup
<1>7. ASSUME NEW p \in Process, CloneBegin(p) PROVE Goal
  <2>1. /\ Others(p) /\ pc[p] = "clone" /\ pc'[p] = "cloning"
        /\ UNCHANGED <<place, need, head>>
    BY <1>7, <1>c DEF CloneBegin, Goto
  <2>2. dir'[place[p]].st = "partial" /\ \A x \in Place \ {place[p]} : dir'[x] = dir[x]
    BY <1>7, <1>a, <1>f DEF CloneBegin, TypeOK, NoDir
  <2>3. CASE place[p] # Latest
    BY <2>1, <2>2, <2>3, ElsewhereLookup
  <2>4. CASE place[p] = Latest
    <3>1. dir[Latest].st = "absent"
      BY <1>d, <2>1, <2>4 DEF Lookup
    <3>2. \A q \in Process : place[q] = Latest => pc[q] \notin {"load", "done"}
      BY <1>d, <3>1 DEF Lookup, Served, ReadPC
    <3>3. need'[p] <= head' /\ Lookup(p)'
      BY <1>d, <2>1, <2>2, <2>4 DEF Lookup, ReadPC
    <3>4. pc[p] \in WorkPC
      BY <2>1 DEF WorkPC
    <3> QED BY <1>e, <2>1, <2>4, <3>2, <3>3, <3>4, LookupOthers
  <2> QED BY <2>3, <2>4
<1>8. ASSUME NEW p \in Process, CloneEnd(p) PROVE Goal
  <2>1. /\ Others(p) /\ pc[p] = "cloning" /\ pc'[p] = "fetch"
        /\ UNCHANGED <<place, need, head>>
    BY <1>8, <1>c DEF CloneEnd, Goto
  <2>2. dir'[place[p]].st = "clean" /\ \A x \in Place \ {place[p]} : dir'[x] = dir[x]
    BY <1>8, <1>a, <1>f DEF CloneEnd, TypeOK
  <2>3. CASE place[p] # Latest
    BY <2>1, <2>2, <2>3, ElsewhereLookup
  <2>4. CASE place[p] = Latest
    <3>1. dir[Latest].st = "partial"
      BY <1>d, <2>1, <2>4 DEF Lookup
    <3>2. \A q \in Process : place[q] = Latest => pc[q] \notin {"load", "done"}
      BY <1>d, <3>1 DEF Lookup, Served, ReadPC
    <3>3. need'[p] <= head' /\ Lookup(p)'
      BY <1>d, <2>1, <2>2, <2>4 DEF Lookup, ReadPC
    <3>4. pc[p] \in WorkPC
      BY <2>1 DEF WorkPC
    <3> QED BY <1>e, <2>1, <2>4, <3>2, <3>3, <3>4, LookupOthers
  <2> QED BY <2>3, <2>4
<1>9. ASSUME NEW p \in Process, Fetch(p) PROVE Goal
  <2>1. Others(p) /\ pc[p] = "fetch" /\ pc'[p] = "checkout" /\ place' = place
    BY <1>9, <1>c DEF Fetch, Goto
  <2>2. /\ need'[p] = head /\ head' = head
        /\ \A q \in Process \ {p} : need'[q] = need[q]
    BY <1>9, <1>a DEF Fetch, TypeOK
  <2>3. CASE place[p] # Latest
    <3>1. dir'[Latest] = dir[Latest]
      BY <1>9, <1>a, <1>f, <2>3 DEF Fetch, TypeOK
    <3>2. need'[p] <= head' /\ Lookup(p)'
      BY <1>f, <2>1, <2>2, <2>3 DEF Lookup
    <3> QED BY <1>e, <2>1, <2>2, <3>1, <3>2, LookupOthers
  <2>4. CASE place[p] = Latest
    <3>1. dir[Latest].st \in {"dirty", "clean"}
      BY <1>9, <1>d, <1>f, <2>1, <2>4 DEF Fetch, Lookup, Dir
    <3>2. /\ dir'[Latest].st = dir[Latest].st /\ dir'[Latest].rev = dir[Latest].rev
          /\ dir'[Latest].to = dir[Latest].to /\ dir'[Latest].origin = head
      BY <1>9, <1>a, <1>f, <2>4 DEF Fetch, TypeOK, Dir
    <3>3. need'[p] <= head' /\ Lookup(p)'
      BY <1>f, <2>1, <2>2, <3>1, <3>2 DEF Lookup, ReadPC
    <3>4. \A q \in Process : place[q] = Latest /\ pc[q] \in {"load", "done"} =>
            Served(need[q], dir'[Latest])
      BY <1>d, <3>1, <3>2 DEF Lookup, Served, ReadPC
    <3>5. pc[p] \in WorkPC
      BY <2>1 DEF WorkPC
    <3> QED BY <1>e, <2>1, <2>2, <2>4, <3>3, <3>4, <3>5, LookupOthers
  <2> QED BY <2>3, <2>4
<1>10. ASSUME NEW p \in Process, CheckoutBegin(p) PROVE Goal
  <2>1. /\ Others(p) /\ pc[p] = "checkout" /\ pc'[p] = "checking"
        /\ UNCHANGED <<place, need, head>>
    BY <1>10, <1>c DEF CheckoutBegin, Goto
  <2>2. \A x \in Place \ {place[p]} : dir'[x] = dir[x]
    BY <1>10, <1>a DEF CheckoutBegin, TypeOK
  <2>3. CASE place[p] # Latest
    BY <2>1, <2>2, <2>3, ElsewhereLookup
  <2>4. CASE place[p] = Latest
    <3>1. /\ dir'[Latest].st = "dirty" /\ dir'[Latest].rev = dir[Latest].rev
          /\ dir'[Latest].to = dir[Latest].origin
          /\ dir'[Latest].origin = dir[Latest].origin
      BY <1>10, <1>a, <1>f, <2>4 DEF CheckoutBegin, Target, TypeOK, Dir
    <3>2. need'[p] <= head' /\ Lookup(p)'
      BY <1>d, <2>1, <2>4, <3>1 DEF Lookup, ReadPC
    <3>3. \A q \in Process : place[q] = Latest /\ pc[q] \in {"load", "done"} =>
            Served(need[q], dir'[Latest])
      BY <1>d, <3>1 DEF Lookup, Served, ReadPC
    <3>4. pc[p] \in WorkPC
      BY <2>1 DEF WorkPC
    <3> QED BY <1>e, <2>1, <2>4, <3>2, <3>3, <3>4, LookupOthers
  <2> QED BY <2>3, <2>4
<1>11. ASSUME NEW p \in Process, CheckoutEnd(p) PROVE Goal
  <2>1. /\ Others(p) /\ pc[p] = "checking" /\ pc'[p] = "unlock"
        /\ UNCHANGED <<place, need, head>>
    BY <1>11, <1>c DEF CheckoutEnd, Goto
  <2>2. \A x \in Place \ {place[p]} : dir'[x] = dir[x]
    BY <1>11, <1>a DEF CheckoutEnd, TypeOK
  <2>3. CASE place[p] # Latest
    BY <2>1, <2>2, <2>3, ElsewhereLookup
  <2>4. CASE place[p] = Latest
    <3>1. /\ dir'[Latest].st = "clean" /\ dir'[Latest].rev = dir[Latest].to
          /\ dir'[Latest].to = dir[Latest].to
          /\ dir'[Latest].origin = dir[Latest].origin
      BY <1>11, <1>a, <1>f, <2>4 DEF CheckoutEnd, TypeOK, Dir
    <3>2. need'[p] <= head' /\ Lookup(p)'
      BY <1>d, <2>1, <2>4, <3>1 DEF Lookup, Served, ReadPC
    <3>3. \A q \in Process : place[q] = Latest /\ pc[q] \in {"load", "done"} =>
            Served(need[q], dir'[Latest])
      BY <1>d, <3>1 DEF Lookup, Served, ReadPC
    <3>4. pc[p] \in WorkPC
      BY <2>1 DEF WorkPC
    <3> QED BY <1>e, <2>1, <2>4, <3>2, <3>3, <3>4, LookupOthers
  <2> QED BY <2>3, <2>4
<1>12. ASSUME NEW p \in Process, Unlock(p) PROVE Goal
  <2>1. /\ Others(p) /\ pc[p] = "unlock" /\ pc'[p] = "load" /\ UNCHANGED <<tree, need, place>>
    BY <1>12, <1>c DEF Unlock, Goto
  <2>2. need'[p] <= head' /\ Lookup(p)'
    BY <1>d, <2>1 DEF tree, Lookup, Served, ReadPC
  <2> QED BY <1>e, <2>1, <2>2, LookupOthers DEF tree
<1>13. ASSUME NEW p \in Process, Load(p) PROVE Goal
  <2>1. PICK v \in Contents(dir[place[p]]) : got' = [got EXCEPT ![p] = v]
    BY <1>13 DEF Load
  <2>2. /\ Others(p) /\ pc'[p] = "done" /\ pc[p] = "load" /\ got'[p] = v
        /\ UNCHANGED <<tree, need, place>>
    BY <1>13, <1>a, <2>1 DEF Load, Goto, TypeOK, Others
  <2>3. place[p] = Latest => Served(need[p], dir[Latest])
    BY <1>d, <2>2 DEF Lookup, ReadPC
  <2>4. place[p] = Latest /\ v # Torn => v \in {dir[Latest].rev, dir[Latest].to}
    BY <2>1 DEF Contents
  <2>5. place[p] = Latest /\ v # Torn => need[p] <= v
    BY <2>3, <2>4 DEF Served
  <2>6. need'[p] <= head' /\ Lookup(p)'
    BY <1>d, <2>2, <2>3, <2>5 DEF tree, Lookup, Served, ReadPC
  <2> QED BY <1>e, <2>2, <2>6, LookupOthers DEF tree
<1>14. ASSUME NEW p \in Process, Done(p) PROVE Goal
  <2>1. Others(p) /\ pc'[p] = "idle" /\ UNCHANGED tree
    BY <1>14, <1>b DEF Done, Goto
  <2>2. need'[p] = 0 /\ \A q \in Process \ {p} : need'[q] = need[q]
    BY <1>14, <1>a DEF Done, TypeOK
  <2>3. need'[p] <= head' /\ Lookup(p)'
    BY <1>f, <2>1, <2>2 DEF tree, Lookup, ReadPC
  <2> QED BY <1>e, <2>1, <2>2, <2>3, LookupOthers DEF tree
<1>15. ASSUME NEW p \in Process, Expand(p) PROVE Goal
  <2>1. Others(p) /\ pc'[p] \in {"stdRead", "stdLock"} /\ UNCHANGED <<tree, need>>
    BY <1>15, <1>c DEF Expand, Goto
  <2>2. need'[p] <= head' /\ Lookup(p)'
    BY <1>d, <2>1 DEF tree, Lookup, ReadPC
  <2> QED BY <1>e, <2>1, <2>2, LookupOthers DEF tree
<1>16. ASSUME NEW p \in Process, StdAcquire(p) PROVE Goal
  <2>1. Others(p) /\ pc'[p] \in {"stdUnlock", "stdFiles"} /\ UNCHANGED <<tree, need>>
    BY <1>16, <1>c DEF StdAcquire, Goto
  <2>2. need'[p] <= head' /\ Lookup(p)'
    BY <1>d, <2>1 DEF tree, Lookup, ReadPC
  <2> QED BY <1>e, <2>1, <2>2, LookupOthers DEF tree
<1>17. ASSUME NEW p \in Process, NEW f \in File, StdWriteBegin(p, f) PROVE Goal
  <2>1. Others(p) /\ pc'[p] = "stdWriting" /\ UNCHANGED <<tree, need>>
    BY <1>17, <1>c DEF StdWriteBegin, Goto
  <2>2. need'[p] <= head' /\ Lookup(p)'
    BY <1>d, <2>1 DEF tree, Lookup, ReadPC
  <2> QED BY <1>e, <2>1, <2>2, LookupOthers DEF tree
<1>18. ASSUME NEW p \in Process, NEW f \in File, StdWriteEnd(p, f) PROVE Goal
  <2>1. Others(p) /\ pc'[p] = "stdFiles" /\ UNCHANGED <<tree, need>>
    BY <1>18, <1>c DEF StdWriteEnd, Goto
  <2>2. need'[p] <= head' /\ Lookup(p)'
    BY <1>d, <2>1 DEF tree, Lookup, ReadPC
  <2> QED BY <1>e, <2>1, <2>2, LookupOthers DEF tree
<1>19. ASSUME NEW p \in Process, StdMark(p) PROVE Goal
  <2>1. Others(p) /\ pc'[p] = "stdUnlock" /\ UNCHANGED <<tree, need>>
    BY <1>19, <1>c DEF StdMark, Goto
  <2>2. need'[p] <= head' /\ Lookup(p)'
    BY <1>d, <2>1 DEF tree, Lookup, ReadPC
  <2> QED BY <1>e, <2>1, <2>2, LookupOthers DEF tree
<1>20. ASSUME NEW p \in Process, StdUnlock(p) PROVE Goal
  <2>1. Others(p) /\ pc'[p] = "stdRead" /\ UNCHANGED <<tree, need>>
    BY <1>20, <1>c DEF StdUnlock, Goto
  <2>2. need'[p] <= head' /\ Lookup(p)'
    BY <1>d, <2>1 DEF tree, Lookup, ReadPC
  <2> QED BY <1>e, <2>1, <2>2, LookupOthers DEF tree
<1>21. ASSUME NEW p \in Process, Stop(p) PROVE Goal
  <2>1. Others(p) /\ pc'[p] = "idle" /\ UNCHANGED <<head, dir>>
    BY <1>21, <1>b DEF Stop, Goto
  <2>2. need'[p] = 0 /\ \A q \in Process \ {p} : need'[q] = need[q]
    BY <1>21, <1>a DEF Stop, TypeOK
  <2>3. need'[p] <= head' /\ Lookup(p)'
    BY <1>f, <2>1, <2>2 DEF Lookup, ReadPC
  <2> QED BY <1>e, <2>1, <2>2, <2>3, LookupOthers
<1> QED
  BY <1>1, <1>2, <1>3, <1>4, <1>5, <1>6, <1>7, <1>8, <1>9, <1>10, <1>11,
     <1>12, <1>13, <1>14, <1>15, <1>16, <1>17, <1>18, <1>19, <1>20, <1>21
  DEF Next

\* resolve_version_from_latest never answers from before its own fetch, though
\* it reads Pubfile without the lock while others check out the same clone.
THEOREM FreshLookupHolds == Spec => []FreshLookup
<1>1. Init => LookInv
  <2> SUFFICES ASSUME Init PROVE LookInv
    OBVIOUS
  <2>1. \A p \in Process : pc[p] = "idle"
    BY DEF Init
  <2>2. Locked
    BY <2>1, Labels DEF Locked
  <2>3. Lookups
    <3>1. \A p \in Process : need[p] = 0
      BY DEF Init
    <3>2. \A p \in Process : Lookup(p)
      BY <2>1 DEF Lookup, ReadPC
    <3>3. head = 1 /\ 0 <= 1
      BY DEF Init
    <3> QED BY <3>1, <3>2, <3>3 DEF Lookups
  <2> QED BY <2>2, <2>3, TypeInit DEF LookInv
<1>2. LookInv => FreshLookup
  <2> SUFFICES ASSUME LookInv, NEW p \in Process,
                      pc[p] = "done", place[p] = Latest, got[p] # Torn
               PROVE  got[p] >= need[p]
    BY DEF FreshLookup
  <2>1. need[p] <= got[p]
    BY DEF LookInv, Lookups, Lookup
  <2>2. need[p] \in Nat /\ got[p] \in Nat
    BY SharedCacheAssumption DEF LookInv, TypeOK
  <2> QED BY <2>1, <2>2
<1> QED
  BY <1>1, <1>2, LookStep, PTL DEF Spec

-------------------------------------------------------------------------------
(* The standard library *)

\* p moves, the others stay where they are.
StdGoto(p) ==
  \A q \in Process \ {p} : pc'[q] = pc[q]

\* A step of p outside the expansion changes nothing that StdInv speaks of.
LEMMA StdIdle ==
  ASSUME StdInv, NEW p \in Process, UNCHANGED lib, StdGoto(p),
         pc[p] # "stdWriting",
         pc'[p] \notin {"stdFiles", "stdWriting", "stdUnlock", "stdRead"}
  PROVE  Writing' /\ OneWriting' /\ Marked' /\ MarkerSeen'
<1>1. Writing'
  BY DEF StdInv, Writing, StdGoto, lib
<1> QED
  BY <1>1 DEF StdInv, OneWriting, Marked, MarkerSeen, StdGoto, lib

\* The expansion leaves a marker only beside files that nobody writes any more.
LEMMA StdStep == StdInv /\ [Next]_vars => StdInv'
<1> SUFFICES ASSUME StdInv, [Next]_vars
             PROVE  Writing' /\ OneWriting' /\ Marked' /\ MarkerSeen'
  BY TypeStep, LockedStep DEF StdInv
<1> DEFINE Goal == Writing' /\ OneWriting' /\ Marked' /\ MarkerSeen'
<1>a. TypeOK /\ Locked
  BY DEF StdInv
<1>b. \A p \in Process : \A v : pc' = [pc EXCEPT ![p] = v] => StdGoto(p) /\ pc'[p] = v
  BY <1>a DEF TypeOK, StdGoto
<1>c. \A p, q \in Process :
        pc[p] \in StdPC \ {"stdLock"} /\ pc[q] \in StdPC \ {"stdLock"} => p = q
  BY <1>a DEF Locked
<1>1. CASE UNCHANGED vars
  BY <1>1 DEF vars, StdInv, Writing, OneWriting, Marked, MarkerSeen
<1>2. CASE Publish
  BY <1>2 DEF Publish, lib, StdInv, Writing, OneWriting, Marked, MarkerSeen
<1>3. ASSUME NEW p \in Process, NEW x \in Place, Begin(p, x) PROVE Goal
  <2>1. StdGoto(p) /\ pc[p] = "idle" /\ pc'[p] = "lock"
    BY <1>3, <1>b DEF Begin, Goto
  <2> QED BY <1>3, <2>1, StdIdle DEF Begin
<1>4. ASSUME NEW p \in Process, Acquire(p) PROVE Goal
  <2>1. StdGoto(p) /\ pc[p] = "lock" /\ pc'[p] = "inspect"
    BY <1>4, <1>b DEF Acquire, Goto
  <2> QED BY <1>4, <2>1, StdIdle DEF Acquire
<1>5. ASSUME NEW p \in Process, Inspect(p) PROVE Goal
  <2>1. Inspection(place[p]) \in GitPC
    BY DEF Inspection, GitPC
  <2> QED BY <1>5, <1>b, <2>1, StdIdle DEF Inspect, Goto, GitPC
<1>6. ASSUME NEW p \in Process, Remove(p) PROVE Goal
  <2>1. pc[p] = "remove" /\ pc'[p] \in {"remove", "clone"} /\ StdGoto(p)
    BY <1>6, <1>b DEF Remove, Goto, StdGoto
  <2> QED BY <1>6, <2>1, StdIdle DEF Remove
<1>7. ASSUME NEW p \in Process, CloneBegin(p) PROVE Goal
  <2>1. StdGoto(p) /\ pc[p] = "clone" /\ pc'[p] = "cloning"
    BY <1>7, <1>b DEF CloneBegin, Goto
  <2> QED BY <1>7, <2>1, StdIdle DEF CloneBegin
<1>8. ASSUME NEW p \in Process, CloneEnd(p) PROVE Goal
  <2>1. StdGoto(p) /\ pc[p] = "cloning" /\ pc'[p] = "fetch"
    BY <1>8, <1>b DEF CloneEnd, Goto
  <2> QED BY <1>8, <2>1, StdIdle DEF CloneEnd
<1>9. ASSUME NEW p \in Process, Fetch(p) PROVE Goal
  <2>1. StdGoto(p) /\ pc[p] = "fetch" /\ pc'[p] = "checkout"
    BY <1>9, <1>b DEF Fetch, Goto
  <2> QED BY <1>9, <2>1, StdIdle DEF Fetch
<1>10. ASSUME NEW p \in Process, CheckoutBegin(p) PROVE Goal
  <2>1. StdGoto(p) /\ pc[p] = "checkout" /\ pc'[p] = "checking"
    BY <1>10, <1>b DEF CheckoutBegin, Goto
  <2> QED BY <1>10, <2>1, StdIdle DEF CheckoutBegin
<1>11. ASSUME NEW p \in Process, CheckoutEnd(p) PROVE Goal
  <2>1. StdGoto(p) /\ pc[p] = "checking" /\ pc'[p] = "unlock"
    BY <1>11, <1>b DEF CheckoutEnd, Goto
  <2> QED BY <1>11, <2>1, StdIdle DEF CheckoutEnd
<1>12. ASSUME NEW p \in Process, Unlock(p) PROVE Goal
  <2>1. StdGoto(p) /\ pc[p] = "unlock" /\ pc'[p] = "load"
    BY <1>12, <1>b DEF Unlock, Goto
  <2> QED BY <1>12, <2>1, StdIdle DEF Unlock
<1>13. ASSUME NEW p \in Process, Load(p) PROVE Goal
  <2>1. StdGoto(p) /\ pc[p] = "load" /\ pc'[p] = "done"
    BY <1>13, <1>b DEF Load, Goto
  <2> QED BY <1>13, <2>1, StdIdle DEF Load
<1>14. ASSUME NEW p \in Process, Done(p) PROVE Goal
  <2>1. StdGoto(p) /\ pc[p] # "stdWriting" /\ pc'[p] = "idle"
    BY <1>14, <1>b DEF Done, Goto
  <2> QED BY <1>14, <2>1, StdIdle DEF Done
<1>15. ASSUME NEW p \in Process, Expand(p) PROVE Goal
  <2>1. StdGoto(p) /\ pc[p] = "idle" /\ pc'[p] = IF expanded THEN "stdRead" ELSE "stdLock"
    BY <1>15, <1>b DEF Expand, Goto
  <2>2. Writing' /\ OneWriting' /\ Marked'
    BY <1>15, <2>1 DEF Expand, lib, StdGoto, StdInv, Writing, OneWriting, Marked
  <2>3. MarkerSeen'
    BY <1>15, <2>1 DEF Expand, lib, StdGoto, StdInv, MarkerSeen
  <2> QED BY <2>2, <2>3
<1>16. ASSUME NEW p \in Process, StdAcquire(p) PROVE Goal
  <2>1. /\ StdGoto(p) /\ pc[p] = "stdLock"
        /\ pc'[p] = IF expanded THEN "stdUnlock" ELSE "stdFiles"
    BY <1>16, <1>b DEF StdAcquire, Goto
  <2>2. Writing' /\ OneWriting' /\ Marked'
    BY <1>16, <2>1 DEF StdAcquire, lib, StdGoto, StdInv, Writing, OneWriting, Marked
  <2>3. MarkerSeen'
    BY <1>16, <2>1 DEF StdAcquire, lib, StdGoto, StdInv, MarkerSeen
  <2> QED BY <2>2, <2>3
<1>17. ASSUME NEW p \in Process, NEW f \in File, StdWriteBegin(p, f) PROVE Goal
  <2>1. StdGoto(p) /\ pc[p] = "stdFiles" /\ pc'[p] = "stdWriting"
    BY <1>17, <1>b DEF StdWriteBegin, Goto
  <2>2. \A g \in File : std[g] # "writing"
    BY <2>1, <1>c DEF StdInv, Writing, StdPC
  <2>3. ~ expanded
    BY <2>1 DEF StdInv, MarkerSeen
  <2>4. std' = [std EXCEPT ![f] = "writing"] /\ std \in [File -> {"absent", "writing", "torn", "full"}]
    BY <1>17, <1>a DEF StdWriteBegin, TypeOK
  <2>5. Writing' /\ OneWriting'
    BY <2>1, <2>2, <2>4 DEF Writing, OneWriting
  <2>6. Marked' /\ MarkerSeen'
    BY <1>17, <2>1, <2>3 DEF StdWriteBegin, StdGoto, StdInv, Marked, MarkerSeen
  <2> QED BY <2>5, <2>6
<1>18. ASSUME NEW p \in Process, NEW f \in File, StdWriteEnd(p, f) PROVE Goal
  <2>1. StdGoto(p) /\ pc[p] = "stdWriting" /\ pc'[p] = "stdFiles"
    BY <1>18, <1>b DEF StdWriteEnd, Goto
  <2>2. ~ expanded
    BY <2>1 DEF StdInv, MarkerSeen
  <2>3. /\ std' = [std EXCEPT ![f] = "full"] /\ std[f] = "writing"
        /\ std \in [File -> {"absent", "writing", "torn", "full"}]
    BY <1>18, <1>a DEF StdWriteEnd, TypeOK
  <2>4. \A g \in File : std'[g] # "writing"
    BY <2>3 DEF StdInv, OneWriting
  <2>5. Marked' /\ MarkerSeen'
    BY <1>18, <2>1, <2>2 DEF StdWriteEnd, StdGoto, StdInv, Marked, MarkerSeen
  <2> QED BY <2>4, <2>5 DEF Writing, OneWriting
<1>19. ASSUME NEW p \in Process, StdMark(p) PROVE Goal
  <2>1. StdGoto(p) /\ pc[p] = "stdFiles" /\ pc'[p] = "stdUnlock"
    BY <1>19, <1>b DEF StdMark, Goto
  <2>2. \A g \in File : std[g] # "writing"
    BY <2>1, <1>c DEF StdInv, Writing, StdPC
  <2>3. \A g \in File : std[g] \in {"full", "torn"}
    BY <1>19, <1>a, <2>2 DEF StdMark, TypeOK
  <2>4. Writing' /\ OneWriting' /\ Marked'
    BY <1>19, <2>2, <2>3 DEF StdMark, Writing, OneWriting, Marked
  <2>5. \A q \in Process \ {p} : pc'[q] \notin {"stdFiles", "stdWriting"}
    BY <1>c, <2>1 DEF StdGoto, StdPC
  <2>6. MarkerSeen'
    BY <1>19, <2>1, <2>5 DEF StdMark, MarkerSeen
  <2> QED BY <2>4, <2>6
<1>20. ASSUME NEW p \in Process, StdUnlock(p) PROVE Goal
  <2>1. StdGoto(p) /\ pc[p] = "stdUnlock" /\ pc'[p] = "stdRead"
    BY <1>20, <1>b DEF StdUnlock, Goto
  <2>2. Writing' /\ OneWriting' /\ Marked'
    BY <1>20, <2>1 DEF StdUnlock, lib, StdGoto, StdInv, Writing, OneWriting, Marked
  <2>3. MarkerSeen'
    BY <1>20, <2>1 DEF StdUnlock, lib, StdGoto, StdInv, MarkerSeen
  <2> QED BY <2>2, <2>3
<1>21. ASSUME NEW p \in Process, Stop(p) PROVE Goal
  <2>1. StdGoto(p) /\ pc'[p] = "idle" /\ UNCHANGED expanded
    BY <1>21, <1>b DEF Stop, Goto
  <2>2. CASE pc[p] # "stdWriting"
    <3>1. UNCHANGED lib
      BY <1>21, <2>2 DEF Stop, lib
    <3> QED BY <2>1, <2>2, <3>1, StdIdle
  <2>3. CASE pc[p] = "stdWriting"
    <3>1. std' = [f \in File |-> IF std[f] = "writing" THEN "torn" ELSE std[f]]
      BY <1>21, <2>3 DEF Stop
    <3>2. Writing' /\ OneWriting'
      BY <3>1 DEF Writing, OneWriting
    <3>3. Marked'
      BY <2>1, <3>1 DEF StdInv, Marked
    <3>4. MarkerSeen'
      BY <2>1 DEF StdInv, MarkerSeen, StdGoto
    <3> QED BY <3>2, <3>3, <3>4
  <2> QED BY <2>2, <2>3
<1> QED
  BY <1>1, <1>2, <1>3, <1>4, <1>5, <1>6, <1>7, <1>8, <1>9, <1>10, <1>11,
     <1>12, <1>13, <1>14, <1>15, <1>16, <1>17, <1>18, <1>19, <1>20, <1>21
  DEF Next

\* Whoever returns from expand finds every file of the standard library there
\* and nobody at work on any of them, whatever process was killed wherever:
\* expand_into marks the directory only under the lock, behind the last file.
THEOREM StdSettledHolds == Spec => []StdSettled
<1>1. Init => StdInv
  <2> SUFFICES ASSUME Init PROVE StdInv
    OBVIOUS
  <2>1. Locked
    BY Labels DEF Init, Locked
  <2> QED BY <2>1, TypeInit DEF Init, StdInv, Writing, OneWriting, Marked, MarkerSeen
<1>2. StdInv => StdSettled
  BY DEF StdInv, MarkerSeen, Marked, StdSettled
<1> QED
  BY <1>1, <1>2, StdStep, PTL DEF Spec
================================================================================
