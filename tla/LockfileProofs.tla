---------------------------- MODULE LockfileProofs ----------------------------
(***************************************************************************)
(* Proofs about Lockfile for any graph of projects, any Veryl.toml and any *)
(* number of releases.  gen_locks is followed by what is still to come:    *)
(* every entry of a manifest that was locked is locked itself, or waits in *)
(* a call, or is the dependency at hand.  As long as nothing is published, *)
(* an entry resolves to the same source whenever it is asked for, so what  *)
(* was recorded as a dependency is what gets locked in the end.            *)
(***************************************************************************)
EXTENDS Lockfile, SequenceTheorems, FunctionTheorems, FiniteSetTheorems, TLAPS

IsSeq(s) == s \in Seq(Elements(s))

Deps(source) == MetadataOf(source).dependencies
Entries(metadata) ==
  {metadata.dependencies[n] : n \in DOMAIN metadata.dependencies}

Running == pc \in {"gen", "lock"}

-------------------------------------------------------------------------------
(* Types *)

Sources ==
  {s \in [kind : {"git", "path"}, project : Project, version : Nat,
          override : BOOLEAN] :
     /\ s.kind = "git" => s.version \in DOMAIN Published[s.project]
     /\ s.kind = "path" => s.version = 0 /\ s.project \in DOMAIN Local}

IsTable(table) == IsSeq(table) /\ \A l \in Elements(table) : l.source \in Sources

IsCall(c) ==
  /\ c = [deps |-> c.deps, todo |-> c.todo, root |-> c.root, kids |-> c.kids]
  /\ \E m \in Manifests : c.deps = m.dependencies
  /\ c.todo \subseteq DOMAIN c.deps
  /\ c.root \in BOOLEAN
  /\ IsSeq(c.kids) /\ Elements(c.kids) \subseteq Manifests

IsCur(c) ==
  /\ c = [name |-> c.name, source |-> c.source, properties |-> c.properties,
          todo |-> c.todo, dependencies |-> c.dependencies]
  /\ c.source \in Sources
  /\ c.todo \subseteq DOMAIN Deps(c.source)

WorldOK ==
  /\ published \in [Project -> SUBSET Nat]
  /\ \A p \in Project : published[p] \subseteq DOMAIN Published[p]
  /\ toml \in Roots
  /\ disk = None \/ IsTable(disk)

CommandOK ==
  /\ pc \in {"idle", "gen", "lock", "done"}
  /\ moved \in BOOLEAN
  /\ pc # "idle" => opt.metadata \in Roots /\ opt.force \in BOOLEAN /\ IsTable(opt.old)

GenOK ==
  /\ IsTable(locks)
  /\ IsSeq(calls) /\ \A c \in Elements(calls) : IsCall(c)
  /\ pc = "lock" => calls # <<>> /\ IsCur(cur)

TypeInv == WorldOK /\ CommandOK /\ GenOK

-------------------------------------------------------------------------------
(* Names *)

VisibleNames == {l.name : l \in {l \in Elements(locks) : l.visible}}
RootNames == DOMAIN opt.metadata.dependencies

NamesUsed ==
  /\ \A i, j \in DOMAIN locks : locks[i].name = locks[j].name => i = j
  /\ \A l \in Elements(locks) : l.name \in names
  /\ pc = "lock" => cur.name \in names /\ \A l \in Elements(locks) : l.name # cur.name

\* Veryl.toml is the first manifest, and alone until its last dependency is
\* locked; the later ones have nothing visible to add.
InRoot ==
  /\ calls # <<>> /\ Tail(calls) = <<>> /\ Head(calls).root
  /\ Head(calls).deps = opt.metadata.dependencies
  /\ RootNames = VisibleNames \cup Head(calls).todo
                   \cup (IF pc = "lock" THEN {cur.name} ELSE {})
BelowRoot ==
  /\ \A c \in Elements(calls) : ~ c.root
  /\ RootNames = VisibleNames

RootFirst ==
  /\ Running => InRoot \/ BelowRoot
  /\ pc = "done" => RootNames = VisibleNames

NameInv == TypeInv /\ NamesUsed /\ RootFirst

-------------------------------------------------------------------------------
(* The graph *)

\* The manifests still to be walked are those of Veryl.toml and of locks.
Origin ==
  Running =>
    \A c \in Elements(calls) :
      /\ \/ c.root /\ c.deps = opt.metadata.dependencies
         \/ ~ c.root /\ \E p \in Elements(locks) : c.deps = Deps(p.source)
      /\ \A k \in Elements(c.kids) : \E p \in Elements(locks) : k = MetadataOf(p.source)

\* Mirrors LocksRespected for one source.
OldVersions(project) ==
  {l.source.version : l \in {l \in Elements(opt.old) : l.source.project = project}}
WantedBy(manifests) == UNION {Entries(m) : m \in manifests}
Wanted == WantedBy({opt.metadata} \cup {MetadataOf(l.source) : l \in Elements(locks)})
Respected(s) ==
  \/ s.version \in OldVersions(s.project)
  \/ \E e \in Wanted :
       /\ e.project = s.project
       /\ e.kind = "git" => /\ s.version \in e.req
                            /\ OldVersions(e.project) \cap e.req = {}
Respect ==
  pc # "idle" /\ ~ opt.force =>
    /\ \A l \in Elements(locks) : Respected(l.source)
    /\ pc = "lock" => Respected(cur.source)

RespectInv == TypeInv /\ Origin /\ Respect

\* No project is locked twice.
Unique == \A i, j \in DOMAIN locks : Uuid(locks[i]) = Uuid(locks[j]) => i = j

\* No manifest has a dependency with a path that overrides its release.
NoOverrides ==
  \A m \in Manifests : \A e \in Entries(m) : e.override = FALSE

\* What an entry resolves to; the path overrides left out, that is the same
\* in every manifest.
Src(entry) == ResolveDependency(entry, FALSE)

Plain(s) == s = Source(s.kind, s.project, s.version, FALSE)

IsLocked(e) ==
  \E m \in Elements(locks) :
    m.source \in Src(e) /\ m.properties = Properties(e, MetadataOf(m.source))

Pending(e) ==
  \/ \E c \in Elements(calls) :
       \/ \E k \in Elements(c.kids) : e \in Entries(k)
       \/ \E n \in c.todo : e = c.deps[n]
  \/ /\ pc = "lock"
     /\ cur.source \in Src(e) /\ cur.properties = Properties(e, MetadataOf(cur.source))

\* The dependencies of a source, those in todo excepted, are recorded as what
\* they resolve to.
Recorded(source, dependencies, todo) ==
  /\ \A d \in dependencies :
       d.name \in DOMAIN Deps(source) /\ Src(Deps(source)[d.name]) = {d.source}
  /\ \A n \in DOMAIN Deps(source) \ todo : \E d \in dependencies : d.name = n

AllPlain ==
  /\ \A l \in Elements(locks) : Plain(l.source)
  /\ pc = "lock" => Plain(cur.source)

AllRecorded ==
  Running /\ ~ moved =>
    /\ \A l \in Elements(locks) : Recorded(l.source, l.dependencies, {})
    /\ pc = "lock" => Recorded(cur.source, cur.dependencies, cur.todo)

AllFollowed ==
  Running /\ ~ moved =>
    \A l \in Elements(locks) : \A e \in Entries(MetadataOf(l.source)) :
      IsLocked(e) \/ Pending(e)

\* LookupSucceeds and the second part of VariantsLocked.
Complete ==
  Settled =>
    \A l \in Elements(locks) : \A d \in l.dependencies :
      \E m \in Elements(locks) :
        /\ m.source = d.source
        /\ m.properties = Properties(Deps(l.source)[d.name], MetadataOf(d.source))

GraphInv == TypeInv /\ AllPlain /\ AllRecorded /\ AllFollowed /\ Complete

Closed(S) ==
  \A l \in Elements(locks) :
    /\ l.visible => l.source \in S
    /\ l.source \in S => \A d \in l.dependencies : d.source \in S

\* Whatever holds what Veryl.toml names, and with a lock its dependencies,
\* holds all the locks.
Reached ==
  (pc # "idle" /\ ~ moved) => \A S : Closed(S) => \A l \in Elements(locks) : l.source \in S

Parent ==
  pc = "lock" /\ ~ moved =>
    \/ Head(calls).root
    \/ \E p \in Elements(locks) : \E d \in p.dependencies : d.source = cur.source

OrphanInv == GraphInv /\ Origin /\ Reached /\ Parent

-------------------------------------------------------------------------------
(* Sequences by their elements *)

\* The empty sequence.
LEMMA NoElements == IsSeq(<<>>) /\ Elements(<<>>) = {}
BY DEF IsSeq, Elements

\* A function on an initial segment is a sequence.
LEMMA SeqIntro == ASSUME NEW S, NEW n \in Nat, NEW s \in [1..n -> S] PROVE s \in Seq(S)
BY SeqDef

\* Any sequence is one of its elements.
LEMMA SeqOfElements == ASSUME NEW S, NEW s \in Seq(S) PROVE IsSeq(s)
<1>1. Len(s) \in Nat /\ s \in [1..Len(s) -> S] /\ DOMAIN s = 1..Len(s)
  BY LenProperties
<1>2. s \in [1..Len(s) -> Elements(s)]
  BY <1>1 DEF Elements
<1> QED BY <1>1, <1>2, SeqDef DEF IsSeq

\* Appending adds one element, at the end.
LEMMA AppendSeq ==
  ASSUME NEW s, IsSeq(s), NEW e
  PROVE  /\ IsSeq(Append(s, e)) /\ Elements(Append(s, e)) = Elements(s) \cup {e}
         /\ Len(s) \in Nat /\ DOMAIN s = 1..Len(s)
         /\ DOMAIN Append(s, e) = 1..(Len(s) + 1)
         /\ Append(s, e)[Len(s) + 1] = e
         /\ \A i \in 1..Len(s) : Append(s, e)[i] = s[i]
<1> DEFINE S == Elements(s) \cup {e}
<1>1. s \in Seq(S) /\ e \in S
  BY DEF IsSeq
<1>2. /\ Len(s) \in Nat /\ DOMAIN s = 1..Len(s)
      /\ DOMAIN Append(s, e) = 1..(Len(s) + 1)
      /\ Append(s, e)[Len(s) + 1] = e
      /\ \A i \in 1..Len(s) : Append(s, e)[i] = s[i]
      /\ Append(s, e) \in Seq(S)
  BY <1>1
<1>3. Elements(Append(s, e)) = S
  <2>1. \A i \in 1..(Len(s) + 1) : i = Len(s) + 1 \/ i \in 1..Len(s)
    BY <1>2
  <2>2. \A i \in 1..Len(s) : i \in 1..(Len(s) + 1)
    BY <1>2
  <2>3. Len(s) + 1 \in 1..(Len(s) + 1)
    BY <1>2
  <2> QED BY <1>2, <2>1, <2>2, <2>3 DEF Elements
<1> QED BY <1>2, <1>3 DEF IsSeq

\* A sequence that is not empty is its head and its tail.
LEMMA HeadTail ==
  ASSUME NEW s, IsSeq(s), s # <<>>
  PROVE  /\ Head(s) = s[1] /\ Head(s) \in Elements(s)
         /\ IsSeq(Tail(s)) /\ Elements(s) = {Head(s)} \cup Elements(Tail(s))
         /\ 1 \in DOMAIN s
<1> DEFINE S == Elements(s)
<1>1. s \in Seq(S)
  BY DEF IsSeq
<1>2. /\ Len(s) \in Nat \ {0} /\ DOMAIN s = 1..Len(s) /\ Head(s) = s[1]
      /\ Tail(s) \in Seq(S) /\ Len(Tail(s)) = Len(s) - 1
      /\ \A i \in 1..(Len(s) - 1) : Tail(s)[i] = s[i + 1]
  BY <1>1
<1>3. DOMAIN Tail(s) = 1..(Len(s) - 1)
  BY <1>2
<1>4. Elements(Tail(s)) = {s[i + 1] : i \in 1..(Len(s) - 1)}
  BY <1>2, <1>3 DEF Elements
<1>5. \A i \in 1..Len(s) : i = 1 \/ \E j \in 1..(Len(s) - 1) : i = j + 1
  <2> TAKE i \in 1..Len(s)
  <2>1. i # 1 => i - 1 \in 1..(Len(s) - 1) /\ i = (i - 1) + 1
    BY <1>2
  <2> QED BY <2>1
<1>6. \A j \in 1..(Len(s) - 1) : j + 1 \in 1..Len(s)
  BY <1>2
<1>7. 1 \in 1..Len(s)
  BY <1>2
<1>8. Elements(s) = {Head(s)} \cup Elements(Tail(s))
  <2>1. \A x \in Elements(s) : x \in {Head(s)} \cup Elements(Tail(s))
    <3>1. SUFFICES ASSUME NEW i \in 1..Len(s) PROVE s[i] \in {Head(s)} \cup Elements(Tail(s))
      BY <1>2 DEF Elements
    <3> QED BY <1>2, <1>4, <1>5
  <2>2. \A x \in Elements(Tail(s)) : x \in Elements(s)
    BY <1>2, <1>4, <1>6 DEF Elements
  <2>3. Head(s) \in Elements(s)
    BY <1>2, <1>7 DEF Elements
  <2> QED BY <2>1, <2>2, <2>3
<1>9. IsSeq(Tail(s))
  BY <1>2, SeqOfElements
<1> QED BY <1>2, <1>7, <1>8, <1>9

\* Replacing the head leaves the tail.
LEMMA ReplaceHead ==
  ASSUME NEW s, IsSeq(s), s # <<>>, NEW c, NEW t, t = [s EXCEPT ![1] = c]
  PROVE  /\ IsSeq(t) /\ t # <<>> /\ Head(t) = c /\ Tail(t) = Tail(s)
         /\ Elements(t) = {c} \cup Elements(Tail(s))
<1> DEFINE S == Elements(s) \cup {c}
<1>1. s \in Seq(S) /\ 1 \in DOMAIN s /\ s # <<>>
  BY HeadTail DEF IsSeq
<1>2. t \in Seq(S) /\ Len(t) = Len(s) /\ t[1] = c /\ Len(s) \in Nat \ {0}
  BY <1>1
<1>3. t # <<>> /\ Head(t) = c
  BY <1>2
<1>4. Tail(t) = Tail(s)
  <2>1. Tail(t) \in Seq(S) /\ Tail(s) \in Seq(S) /\ Len(Tail(t)) = Len(Tail(s))
    BY <1>1, <1>2, <1>3
  <2>2. \A i \in 1..(Len(s) - 1) : Tail(t)[i] = Tail(s)[i]
    BY <1>1, <1>2, <1>3
  <2>3. Len(Tail(s)) = Len(s) - 1
    BY <1>1
  <2> QED BY <2>1, <2>2, <2>3
<1>5. IsSeq(t)
  BY <1>2, SeqOfElements
<1> QED BY <1>3, <1>4, <1>5, HeadTail

\* A sequence of one element.
LEMMA OneElement ==
  ASSUME NEW c
  PROVE  /\ IsSeq(<<c>>) /\ Elements(<<c>>) = {c}
         /\ <<c>> # <<>> /\ Head(<<c>>) = c /\ Tail(<<c>>) = <<>>
<1>1. <<c>> \in Seq({c}) /\ Len(<<c>>) = 1 /\ <<c>>[1] = c
  OBVIOUS
<1>2. DOMAIN <<c>> = {1}
  BY <1>1
<1>3. Elements(<<c>>) = {c}
  BY <1>1, <1>2 DEF Elements
<1>4. <<c>> # <<>> /\ Head(<<c>>) = c /\ Tail(<<c>>) = <<>>
  OBVIOUS
<1> QED BY <1>1, <1>3, <1>4 DEF IsSeq

\* Concatenation unites the elements.
LEMMA ConcatSeq ==
  ASSUME NEW s, IsSeq(s), NEW t, IsSeq(t)
  PROVE  IsSeq(s \o t) /\ Elements(s \o t) = Elements(s) \cup Elements(t)
<1> DEFINE S == Elements(s) \cup Elements(t)
<1>1. s \in Seq(S) /\ t \in Seq(S)
  BY DEF IsSeq
<1>2. /\ s \o t \in Seq(S) /\ Len(s) \in Nat /\ Len(t) \in Nat
      /\ Len(s \o t) = Len(s) + Len(t)
      /\ DOMAIN s = 1..Len(s) /\ DOMAIN t = 1..Len(t)
      /\ DOMAIN (s \o t) = 1..(Len(s) + Len(t))
  BY <1>1
<1>3. /\ \A i \in 1..Len(s) : (s \o t)[i] = s[i]
      /\ \A i \in 1..Len(t) : (s \o t)[Len(s) + i] = t[i]
  BY <1>1, <1>2
<1>4. /\ \A i \in 1..Len(s) : i \in 1..(Len(s) + Len(t))
      /\ \A i \in 1..Len(t) : Len(s) + i \in 1..(Len(s) + Len(t))
  BY <1>2
<1>5. S \subseteq Elements(s \o t)
  <2>1. \A x \in Elements(s) : x \in Elements(s \o t)
    BY <1>2, <1>3, <1>4 DEF Elements
  <2>2. \A x \in Elements(t) : x \in Elements(s \o t)
    BY <1>2, <1>3, <1>4 DEF Elements
  <2> QED BY <2>1, <2>2
<1>6. Elements(s \o t) \subseteq S
  BY <1>2 DEF Elements
<1> QED BY <1>2, <1>5, <1>6 DEF IsSeq

\* The calls that the kids of a manifest lead to.
LEMMA KidCalls ==
  ASSUME NEW kids, IsSeq(kids), NEW s, s = [i \in DOMAIN kids |-> Call(kids[i], FALSE)]
  PROVE  IsSeq(s) /\ Elements(s) = {Call(k, FALSE) : k \in Elements(kids)}
<1>1. kids \in Seq(Elements(kids))
  BY DEF IsSeq
<1>2. Len(kids) \in Nat /\ DOMAIN kids = 1..Len(kids)
  BY <1>1
<1>3. Elements(s) = {Call(k, FALSE) : k \in Elements(kids)}
  BY DEF Elements
<1>4. \A i \in 1..Len(kids) : s[i] \in Elements(s)
  BY <1>2 DEF Elements
<1>5. s \in [1..Len(kids) -> Elements(s)]
  BY <1>2, <1>4
<1>6. s \in Seq(Elements(s))
  BY <1>2, <1>5, SeqIntro
<1> QED BY <1>3, <1>6 DEF IsSeq

-------------------------------------------------------------------------------
(* Resolution *)

\* The manifest of a source that is resolved is one there is.
LEMMA ManifestOf == ASSUME NEW s \in Sources PROVE MetadataOf(s) \in Manifests
<1>1. CASE IsLocal(s)
  <2>1. s.project \in DOMAIN Local
    BY <1>1 DEF IsLocal, Sources
  <2> QED BY <1>1, <2>1 DEF MetadataOf, Manifests
<1>2. CASE ~ IsLocal(s)
  <2>1. s.project \in Project /\ s.version \in DOMAIN Published[s.project]
    BY <1>2 DEF IsLocal, Sources
  <2>2. Published[s.project][s.version] \in Manifests
    BY <2>1 DEF Manifests
  <2> QED BY <1>2, <2>2 DEF MetadataOf
<1> QED BY <1>1, <1>2

\* What a version is resolved to: it meets the requirement, and it is a locked
\* one unless none of them does or the command is forced.
LEMMA VersionFacts ==
  ASSUME WorldOK, IsTable(opt.old), NEW e, e.project \in Project, e.req \subseteq Nat \ {0},
         NEW v \in Versions(e)
  PROVE  /\ v \in e.req /\ v \in DOMAIN Published[e.project]
         /\ v \in FromLockfile(e) \/ FromLockfile(e) = {} \/ opt.force
         /\ \A w \in Versions(e) : w = v
<1>1. \A w \in FromLockfile(e) : w \in e.req /\ w \in DOMAIN Published[e.project]
  BY DEF FromLockfile, IsTable, Sources
<1>2. \A w \in FromLatest(e) : w \in e.req /\ w \in DOMAIN Published[e.project]
  BY DEF FromLatest, WorldOK
<1>3. PICK vs : /\ Versions(e) = Newest(vs)
                /\ vs = FromLockfile(e) \/ (vs = FromLatest(e)
                                            /\ (FromLockfile(e) = {} \/ opt.force))
  BY DEF Versions
<1>4. v \in vs /\ \A w \in vs : w <= v
  BY <1>3 DEF Newest
<1>5. \A w \in Versions(e) : w = v
  <2> TAKE w \in Versions(e)
  <2>1. w \in vs /\ v <= w /\ w <= v
    BY <1>3, <1>4 DEF Newest
  <2>2. v \in Nat /\ w \in Nat
    BY <1>1, <1>2, <1>3, <1>4, <2>1
  <2> QED BY <2>1, <2>2
<1> QED BY <1>1, <1>2, <1>3, <1>4, <1>5

\* What an entry of a manifest is resolved to is a source.
LEMMA ResolvedFacts ==
  ASSUME WorldOK, IsTable(opt.old), NEW m \in Manifests, NEW n \in DOMAIN m.dependencies,
         NEW root \in BOOLEAN, NEW e, e = m.dependencies[n],
         NEW s \in ResolveDependency(e, root)
  PROVE  /\ s \in Sources /\ s.project = e.project
         /\ e.kind = "git" =>
              /\ s.version \in e.req
              /\ s.version \in FromLockfile(e) \/ FromLockfile(e) = {} \/ opt.force
<1>1. CASE e.kind = "git"
  <2>1. PICK v \in Versions(e) : s = Source("git", e.project, v, root /\ e.override)
    BY <1>1 DEF ResolveDependency
  <2>2. e.project \in Project /\ e.req \subseteq Nat \ {0}
    BY <1>1, LockfileAssumption
  <2>3. /\ v \in e.req /\ v \in DOMAIN Published[e.project] /\ v \in Nat
        /\ v \in FromLockfile(e) \/ FromLockfile(e) = {} \/ opt.force
    BY <2>2, VersionFacts
  <2>4. (root /\ e.override) \in BOOLEAN
    OBVIOUS
  <2>5. s.kind = "git" /\ s.project = e.project /\ s.version = v
    BY <2>1 DEF Source
  <2>6. s \in [kind : {"git", "path"}, project : Project, version : Nat, override : BOOLEAN]
    BY <2>1, <2>2, <2>3, <2>4 DEF Source
  <2>7. s \in Sources
    BY <2>3, <2>5, <2>6 DEF Sources
  <2> QED BY <2>3, <2>5, <2>7
<1>2. CASE e.kind = "path" /\ e.project \in DOMAIN Local
  <2>1. s = Source("path", e.project, 0, FALSE)
    BY <1>2 DEF ResolveDependency
  <2>2. e.project \in Project
    BY <1>2, LockfileAssumption
  <2>3. s \in Sources
    BY <1>2, <2>1, <2>2 DEF Sources, Source
  <2> QED BY <1>2, <2>1, <2>3 DEF Source
<1>3. CASE e.kind # "git" /\ ~ (e.kind = "path" /\ e.project \in DOMAIN Local)
  BY <1>3 DEF ResolveDependency
<1> QED BY <1>1, <1>2, <1>3

-------------------------------------------------------------------------------
(* The actions of gen_locks by what they do to the elements of a sequence *)

\* Resolve takes an entry from the current call.
LEMMA ResolveFacts ==
  ASSUME TypeInv, NEW name, Resolve(name)
  PROVE  /\ pc = "gen" /\ pc' = "lock" /\ UNCHANGED <<world, opt, locks, moved>>
         /\ calls # <<>> /\ IsCall(Head(calls)) /\ name \in Head(calls).todo
         /\ IsSeq(calls') /\ calls' # <<>> /\ Tail(calls') = Tail(calls)
         /\ Head(calls') = [deps |-> Head(calls).deps, todo |-> Head(calls).todo \ {name},
                            root |-> Head(calls).root, kids |-> Head(calls).kids]
         /\ Elements(calls) = {Head(calls)} \cup Elements(Tail(calls))
         /\ Elements(calls') = {Head(calls')} \cup Elements(Tail(calls))
         /\ \E source \in ResolveDependency(Head(calls).deps[name], Head(calls).root) :
            \E lockName :
              /\ lockName \notin names /\ names' = names \cup {lockName}
              /\ Head(calls).root => lockName = name
              /\ cur' = [name |-> lockName, source |-> source,
                         properties |-> Properties(Head(calls).deps[name], MetadataOf(source)),
                         todo |-> DOMAIN MetadataOf(source).dependencies,
                         dependencies |-> {}]
<1> DEFINE call == Head(calls)
<1>1. pc = "gen" /\ calls # <<>> /\ name \in call.todo
      /\ UNCHANGED <<world, opt, locks, moved>> /\ pc' = "lock"
  BY DEF Resolve
<1>2. IsSeq(calls) /\ Head(calls) = calls[1] /\ Head(calls) \in Elements(calls)
      /\ Elements(calls) = {Head(calls)} \cup Elements(Tail(calls)) /\ 1 \in DOMAIN calls
  BY <1>1, HeadTail DEF TypeInv, GenOK
<1>3. IsCall(call)
  BY <1>2 DEF TypeInv, GenOK
<1>4. calls' = [calls EXCEPT ![1].todo = @ \ {name}]
  BY DEF Resolve
<1> DEFINE new == [deps |-> call.deps, todo |-> call.todo \ {name},
                   root |-> call.root, kids |-> call.kids]
<1>5. [calls[1] EXCEPT !.todo = @ \ {name}] = new
  <2>1. call = [deps |-> call.deps, todo |-> call.todo, root |-> call.root,
                kids |-> call.kids]
    BY <1>3 DEF IsCall
  <2>2. [call EXCEPT !.todo = @ \ {name}] = new
    BY <2>1
  <2>3. QED
    BY <1>2, <2>2
<1>6. calls' = [calls EXCEPT ![1] = new]
  BY <1>2, <1>4, <1>5
<1>7. /\ IsSeq(calls') /\ calls' # <<>> /\ Tail(calls') = Tail(calls) /\ Head(calls') = new
      /\ Elements(calls') = {new} \cup Elements(Tail(calls))
  <2> HIDE DEF new
  <2> QED BY <1>1, <1>2, <1>6, ReplaceHead
<1>8. \E source \in ResolveDependency(call.deps[name], call.root), lockName \in LockName(name) :
        /\ names' = names \cup {lockName}
        /\ call.root => lockName = name
        /\ cur' = [name |-> lockName, source |-> source,
                   properties |-> Properties(call.deps[name], MetadataOf(source)),
                   todo |-> DOMAIN MetadataOf(source).dependencies,
                   dependencies |-> {}]
  BY DEF Resolve
<1>9. \A lockName \in LockName(name) : lockName \notin names
  BY DEF LockName
<1> QED BY <1>1, <1>2, <1>3, <1>7, <1>8, <1>9

NewLock ==
  [name |-> cur.name, source |-> cur.source, properties |-> cur.properties,
   dependencies |-> cur.dependencies, visible |-> Head(calls).root]

\* Seal locks the dependency at hand, or finds that it is locked.
LEMMA SealFacts ==
  ASSUME TypeInv, Seal
  PROVE  /\ pc = "lock" /\ pc' = "gen" /\ UNCHANGED <<world, opt, names, moved>>
         /\ cur.todo = {} /\ IsCur(cur)
         /\ calls # <<>> /\ IsCall(Head(calls)) /\ IsSeq(calls)
         /\ Elements(calls) = {Head(calls)} \cup Elements(Tail(calls))
         /\ \/ /\ Uuid(NewLock) \in Uuids(locks) /\ ~ Head(calls).root
               /\ UNCHANGED <<locks, calls>>
            \/ /\ Uuid(NewLock) \notin Uuids(locks)
               /\ locks' = Append(locks, NewLock)
               /\ IsSeq(calls') /\ calls' # <<>> /\ Tail(calls') = Tail(calls)
               /\ Elements(calls') = {Head(calls')} \cup Elements(Tail(calls))
               /\ Head(calls') =
                    [deps |-> Head(calls).deps, todo |-> Head(calls).todo,
                     root |-> Head(calls).root,
                     kids |-> Append(Head(calls).kids, MetadataOf(cur.source))]
<1> DEFINE call == Head(calls)
           known == Uuid(NewLock) \in Uuids(locks)
<1>1. /\ pc = "lock" /\ pc' = "gen" /\ cur.todo = {} /\ (known => ~ call.root)
      /\ UNCHANGED <<world, opt, names, moved>>
      /\ locks' = IF known THEN locks ELSE Append(locks, NewLock)
      /\ calls' = IF known THEN calls
                  ELSE [calls EXCEPT ![1].kids = Append(@, MetadataOf(NewLock.source))]
  BY DEF Seal, NewLock
<1>2. calls # <<>> /\ IsCur(cur) /\ IsSeq(calls)
  BY <1>1 DEF TypeInv, GenOK
<1>3. Head(calls) = calls[1] /\ Head(calls) \in Elements(calls) /\ 1 \in DOMAIN calls
      /\ Elements(calls) = {Head(calls)} \cup Elements(Tail(calls))
  BY <1>2, HeadTail
<1>4. IsCall(call)
  BY <1>3 DEF TypeInv, GenOK
<1>5. CASE known
  BY <1>1, <1>2, <1>3, <1>4, <1>5
<1>6. CASE ~ known
  <2> DEFINE new == [deps |-> call.deps, todo |-> call.todo, root |-> call.root,
                     kids |-> Append(call.kids, MetadataOf(cur.source))]
  <2>1. NewLock.source = cur.source
    BY DEF NewLock
  <2>2. [calls[1] EXCEPT !.kids = Append(@, MetadataOf(cur.source))] = new
    BY <1>3, <1>4 DEF IsCall
  <2>3. calls' = [calls EXCEPT ![1] = new]
    BY <1>1, <1>3, <1>6, <2>1, <2>2
  <2>4. /\ IsSeq(calls') /\ calls' # <<>> /\ Tail(calls') = Tail(calls) /\ Head(calls') = new
        /\ Elements(calls') = {new} \cup Elements(Tail(calls))
    <3> HIDE DEF new
    <3> QED BY <1>2, <2>3, ReplaceHead
  <2> QED BY <1>1, <1>2, <1>3, <1>4, <1>6, <2>4
<1> QED BY <1>5, <1>6

\* Descend replaces a manifest by those it led to.
LEMMA DescendFacts ==
  ASSUME TypeInv, Descend
  PROVE  /\ pc = "gen" /\ UNCHANGED <<world, pc, opt, cur, names, locks, moved>>
         /\ calls # <<>> /\ IsCall(Head(calls)) /\ Head(calls).todo = {}
         /\ Elements(calls) = {Head(calls)} \cup Elements(Tail(calls))
         /\ IsSeq(calls')
         /\ Elements(calls') = {Call(k, FALSE) : k \in Elements(Head(calls).kids)}
                                 \cup Elements(Tail(calls))
<1> DEFINE call == Head(calls)
           new == [i \in DOMAIN call.kids |-> Call(call.kids[i], FALSE)]
<1>1. /\ pc = "gen" /\ UNCHANGED <<world, pc, opt, cur, names, locks, moved>>
      /\ calls # <<>> /\ call.todo = {} /\ calls' = new \o Tail(calls)
  BY DEF Descend
<1>2. /\ Head(calls) \in Elements(calls) /\ IsSeq(Tail(calls))
      /\ Elements(calls) = {Head(calls)} \cup Elements(Tail(calls))
  BY <1>1, HeadTail DEF TypeInv, GenOK
<1>3. IsCall(call) /\ IsSeq(call.kids)
  BY <1>2 DEF TypeInv, GenOK, IsCall
<1>4. IsSeq(new) /\ Elements(new) = {Call(k, FALSE) : k \in Elements(call.kids)}
  BY <1>3, KidCalls
<1>5. /\ IsSeq(new \o Tail(calls))
      /\ Elements(new \o Tail(calls)) = Elements(new) \cup Elements(Tail(calls))
  <2> HIDE DEF new
  <2> QED BY <1>2, <1>4, ConcatSeq
<1> QED BY <1>1, <1>2, <1>3, <1>4, <1>5

\* Nested records one dependency of the dependency at hand.
LEMMA NestedFacts ==
  ASSUME TypeInv, NEW name, Nested(name)
  PROVE  /\ pc = "lock" /\ UNCHANGED <<world, pc, opt, calls, names, locks, moved>>
         /\ IsCur(cur) /\ name \in cur.todo /\ calls # <<>> /\ IsCall(Head(calls))
         /\ \E source \in ResolveDependency(Deps(cur.source)[name], Head(calls).root) :
              cur' = [name |-> cur.name, source |-> cur.source,
                      properties |-> cur.properties, todo |-> cur.todo \ {name},
                      dependencies |-> cur.dependencies
                                         \cup {[name |-> name, source |-> source]}]
<1>1. /\ pc = "lock" /\ UNCHANGED <<world, pc, opt, calls, names, locks, moved>>
      /\ name \in cur.todo
  BY DEF Nested
<1>2. IsCur(cur) /\ calls # <<>> /\ IsSeq(calls)
  BY <1>1 DEF TypeInv, GenOK
<1>3. IsCall(Head(calls))
  BY <1>2, HeadTail DEF TypeInv, GenOK
<1>4. PICK source \in ResolveDependency(Deps(cur.source)[name], Head(calls).root) :
        cur' = [cur EXCEPT !.todo = @ \ {name},
                           !.dependencies = @ \cup {[name |-> name, source |-> source]}]
  BY DEF Nested, Deps
<1>5. cur' = [name |-> cur.name, source |-> cur.source,
              properties |-> cur.properties, todo |-> cur.todo \ {name},
              dependencies |-> cur.dependencies \cup {[name |-> name, source |-> source]}]
  BY <1>2, <1>4 DEF IsCur
<1> QED BY <1>1, <1>2, <1>3, <1>5

\* A new call is one of a manifest.
LEMMA CallType == ASSUME NEW m \in Manifests, NEW root \in BOOLEAN PROVE IsCall(Call(m, root))
BY NoElements DEF IsCall, Call

\* The empty state of gen_locks.
LEMMA NoCalls == IsTable(<<>>)
BY NoElements DEF IsTable

-------------------------------------------------------------------------------
(* Types are kept *)

\* Every action keeps the types.
LEMMA TypeStep == TypeInv /\ [Next]_vars => TypeInv'
<1> SUFFICES ASSUME TypeInv, [Next]_vars PROVE TypeInv'
  OBVIOUS
<1> USE DEF TypeInv
<1>1. CASE UNCHANGED vars
  BY <1>1 DEF vars, world, gen, WorldOK, CommandOK, GenOK
<1>2. ASSUME NEW force \in BOOLEAN, Start(force) PROVE TypeInv'
  <2>1. WorldOK'
    BY <1>2 DEF Start, world, WorldOK
  <2>2. opt'.metadata = toml /\ opt'.force = force
        /\ opt'.old = (IF disk = None THEN <<>> ELSE disk)
    BY <1>2 DEF Start
  <2>3. CommandOK'
    BY <1>2, <2>2, NoCalls DEF Start, CommandOK, WorldOK
  <2>4. IsCall(Call(toml, TRUE))
    BY CallType DEF WorldOK, Manifests
  <2>5. IsSeq(<<Call(toml, TRUE)>>) /\ Elements(<<Call(toml, TRUE)>>) = {Call(toml, TRUE)}
    BY OneElement
  <2>6. GenOK'
    BY <1>2, <2>4, <2>5, NoCalls DEF Start, GenOK
  <2> QED BY <2>1, <2>3, <2>6
<1>3. ASSUME NEW name, Resolve(name) PROVE TypeInv'
  <2>1. WorldOK' /\ CommandOK'
    BY <1>3, ResolveFacts DEF world, WorldOK, CommandOK
  <2>2. /\ IsCall(Head(calls)) /\ name \in Head(calls).todo /\ pc = "gen"
        /\ UNCHANGED locks /\ calls' # <<>> /\ IsSeq(calls')
        /\ Head(calls') = [deps |-> Head(calls).deps, todo |-> Head(calls).todo \ {name},
                           root |-> Head(calls).root, kids |-> Head(calls).kids]
        /\ Elements(calls) = {Head(calls)} \cup Elements(Tail(calls))
        /\ Elements(calls') = {Head(calls')} \cup Elements(Tail(calls))
    BY <1>3, ResolveFacts
  <2>3. IsCall(Head(calls'))
    BY <2>2 DEF IsCall
  <2>4. \A c \in Elements(calls') : IsCall(c)
    BY <2>2, <2>3 DEF GenOK
  <2>5. PICK source \in ResolveDependency(Head(calls).deps[name], Head(calls).root) :
          \E lockName : cur' = [name |-> lockName, source |-> source,
                         properties |-> Properties(Head(calls).deps[name], MetadataOf(source)),
                         todo |-> DOMAIN MetadataOf(source).dependencies,
                         dependencies |-> {}]
    BY <1>3, ResolveFacts
  <2>6. PICK m \in Manifests : Head(calls).deps = m.dependencies
    BY <2>2 DEF IsCall
  <2>7. source \in Sources
    BY <2>2, <2>5, <2>6, ResolvedFacts DEF IsCall, CommandOK
  <2>8. IsCur(cur')
    BY <2>5, <2>7 DEF IsCur, Deps
  <2>9. GenOK'
    BY <2>2, <2>4, <2>8 DEF GenOK
  <2> QED BY <2>1, <2>9
<1>4. ASSUME NEW name, Nested(name) PROVE TypeInv'
  <2>1. WorldOK' /\ CommandOK'
    BY <1>4, NestedFacts DEF world, WorldOK, CommandOK
  <2>2. IsCur(cur')
    BY <1>4, NestedFacts DEF IsCur
  <2>3. GenOK'
    BY <1>4, <2>2, NestedFacts DEF GenOK
  <2> QED BY <2>1, <2>3
<1>5. CASE Seal
  <2>1. WorldOK' /\ CommandOK'
    BY <1>5, SealFacts DEF world, WorldOK, CommandOK
  <2>2. CASE UNCHANGED <<locks, calls>>
    BY <1>5, <2>1, <2>2, SealFacts DEF GenOK
  <2>3. CASE ~ UNCHANGED <<locks, calls>>
    <3>1. /\ pc' = "gen" /\ locks' = Append(locks, NewLock) /\ IsCur(cur)
          /\ IsCall(Head(calls)) /\ IsSeq(calls')
          /\ Elements(calls) = {Head(calls)} \cup Elements(Tail(calls))
          /\ Elements(calls') = {Head(calls')} \cup Elements(Tail(calls))
          /\ Head(calls') =
                    [deps |-> Head(calls).deps, todo |-> Head(calls).todo,
                     root |-> Head(calls).root,
                     kids |-> Append(Head(calls).kids, MetadataOf(cur.source))]
      BY <1>5, <2>3, SealFacts
    <3>2. NewLock.source = cur.source
      BY DEF NewLock
    <3>3. IsTable(locks')
      BY <3>1, <3>2, AppendSeq DEF GenOK, IsTable, IsCur
    <3>4. MetadataOf(cur.source) \in Manifests
      BY <3>1, ManifestOf DEF IsCur
    <3>5. /\ IsSeq(Append(Head(calls).kids, MetadataOf(cur.source)))
          /\ Elements(Append(Head(calls).kids, MetadataOf(cur.source))) \subseteq Manifests
      BY <3>1, <3>4, AppendSeq DEF IsCall
    <3>6. IsCall(Head(calls'))
      <4> DEFINE kids == Append(Head(calls).kids, MetadataOf(cur.source))
      <4> HIDE DEF kids
      <4>1. IsSeq(kids) /\ Elements(kids) \subseteq Manifests
        BY <3>5 DEF kids
      <4>2. Head(calls') = [deps |-> Head(calls).deps, todo |-> Head(calls).todo,
                            root |-> Head(calls).root, kids |-> kids]
        BY <3>1 DEF kids
      <4> QED BY <3>1, <4>1, <4>2 DEF IsCall
    <3> QED BY <2>1, <3>1, <3>3, <3>6 DEF GenOK
  <2> QED BY <2>1, <2>2, <2>3
<1>6. CASE Descend
  <2>1. WorldOK' /\ CommandOK'
    BY <1>6, DescendFacts DEF world, WorldOK, CommandOK
  <2>2. \A k \in Elements(Head(calls).kids) : IsCall(Call(k, FALSE))
    BY <1>6, DescendFacts, CallType DEF IsCall
  <2>3. \A c \in Elements(Tail(calls)) : IsCall(c)
    BY <1>6, DescendFacts DEF GenOK
  <2>4. \A c \in Elements(calls') : IsCall(c)
    BY <1>6, <2>2, <2>3, DescendFacts
  <2> QED BY <1>6, <2>1, <2>4, DescendFacts DEF GenOK
<1>7. CASE Finish
  BY <1>7 DEF Finish, Table, WorldOK, CommandOK, GenOK
<1>8. CASE End
  BY <1>8, NoElements, NoCalls DEF End, world, WorldOK, CommandOK, GenOK
<1>9. ASSUME NEW metadata \in Roots, EditToml(metadata) PROVE TypeInv'
  BY <1>9 DEF EditToml, gen, WorldOK, CommandOK, GenOK
<1>10. ASSUME NEW project \in Project, NEW v, Publish(project, v) PROVE TypeInv'
  <2>1. v \in DOMAIN Published[project] /\ v \in Nat
    BY <1>10, LockfileAssumption DEF Publish
  <2>2. WorldOK'
    BY <1>10, <2>1 DEF Publish, WorldOK
  <2>3. moved' \in BOOLEAN
    BY <1>10 DEF Publish
  <2> QED BY <1>10, <2>2, <2>3 DEF Publish, gen, CommandOK, GenOK
<1> QED
  BY <1>1, <1>2, <1>3, <1>4, <1>5, <1>6, <1>7, <1>8, <1>9, <1>10 DEF Next

\* They hold at the start.
LEMMA TypeInit == Init => TypeInv
<1> SUFFICES ASSUME Init PROVE TypeInv
  OBVIOUS
<1>1. WorldOK
  BY LockfileAssumption DEF Init, WorldOK
<1> QED BY <1>1, NoElements, NoCalls DEF Init, TypeInv, CommandOK, GenOK

-------------------------------------------------------------------------------
(* Names *)

\* The names stay apart: a name is chosen outside name_table, and it is in it
\* from then on.
LEMMA NamesUsedStep == TypeInv /\ NamesUsed /\ [Next]_vars => NamesUsed'
<1> SUFFICES ASSUME TypeInv, NamesUsed, [Next]_vars PROVE NamesUsed'
  OBVIOUS
<1>1. CASE UNCHANGED vars
  BY <1>1 DEF vars, gen, NamesUsed
<1>2. ASSUME NEW force \in BOOLEAN, Start(force) PROVE NamesUsed'
  BY <1>2, NoElements DEF Start, NamesUsed
<1>3. ASSUME NEW name, Resolve(name) PROVE NamesUsed'
  <2>1. pc = "gen" /\ UNCHANGED locks
    BY <1>3, ResolveFacts
  <2>2. PICK lockName : /\ lockName \notin names /\ names' = names \cup {lockName}
                        /\ cur'.name = lockName
    BY <1>3, ResolveFacts
  <2> QED BY <2>1, <2>2 DEF NamesUsed
<1>4. ASSUME NEW name, Nested(name) PROVE NamesUsed'
  <2>1. cur'.name = cur.name /\ UNCHANGED <<pc, names, locks>>
    BY <1>4, NestedFacts
  <2> QED BY <2>1 DEF NamesUsed
<1>5. CASE Seal
  <2>1. pc = "lock" /\ pc' = "gen" /\ UNCHANGED names
    BY <1>5, SealFacts
  <2>2. CASE UNCHANGED locks
    BY <2>1, <2>2 DEF NamesUsed
  <2>3. CASE locks' = Append(locks, NewLock)
    <3>1. NewLock.name = cur.name /\ IsSeq(locks)
      BY DEF NewLock, TypeInv, GenOK, IsTable
    <3>2. /\ Elements(locks') = Elements(locks) \cup {NewLock}
          /\ Len(locks) \in Nat /\ DOMAIN locks = 1..Len(locks)
          /\ DOMAIN locks' = 1..(Len(locks) + 1) /\ locks'[Len(locks) + 1] = NewLock
          /\ \A i \in 1..Len(locks) : locks'[i] = locks[i]
      BY <2>3, <3>1, AppendSeq
    <3>3. \A l \in Elements(locks') : l.name \in names'
      BY <2>1, <3>1, <3>2 DEF NamesUsed
    <3>4. \A i \in 1..Len(locks) : locks[i].name # cur.name
      BY <2>1, <3>2 DEF NamesUsed, Elements
    <3>5. ASSUME NEW i \in DOMAIN locks', NEW j \in DOMAIN locks',
                 locks'[i].name = locks'[j].name
          PROVE  i = j
      <4>1. (i \in 1..Len(locks) \/ i = Len(locks) + 1) /\ (j \in 1..Len(locks) \/ j = Len(locks) + 1)
        BY <3>2
      <4>2. CASE i \in 1..Len(locks) /\ j \in 1..Len(locks)
        BY <3>2, <3>5, <4>2 DEF NamesUsed
      <4>3. CASE ~ (i \in 1..Len(locks) /\ j \in 1..Len(locks))
        BY <3>1, <3>2, <3>4, <3>5, <4>1, <4>3
      <4> QED BY <4>2, <4>3
    <3> QED BY <2>1, <3>3, <3>5 DEF NamesUsed
  <2> QED BY <1>5, <2>2, <2>3, SealFacts
<1>6. CASE Descend
  BY <1>6 DEF Descend, NamesUsed
<1>7. CASE Finish
  BY <1>7 DEF Finish, Table, NamesUsed
<1>8. CASE End
  BY <1>8, NoElements DEF End, NamesUsed
<1>9. ASSUME NEW metadata \in Roots, EditToml(metadata) PROVE NamesUsed'
  BY <1>9 DEF EditToml, gen, NamesUsed
<1>10. ASSUME NEW project \in Project, NEW v, Publish(project, v) PROVE NamesUsed'
  BY <1>10 DEF Publish, gen, NamesUsed
<1> QED
  BY <1>1, <1>2, <1>3, <1>4, <1>5, <1>6, <1>7, <1>8, <1>9, <1>10 DEF Next

\* Veryl.toml comes first and keeps its names.
LEMMA RootFirstStep == TypeInv /\ RootFirst /\ [Next]_vars => RootFirst'
<1> SUFFICES ASSUME TypeInv, RootFirst, [Next]_vars PROVE RootFirst'
  OBVIOUS
<1> USE DEF Running
<1>1. CASE UNCHANGED vars
  BY <1>1 DEF vars, gen, RootFirst, InRoot, BelowRoot, RootNames, VisibleNames
<1>2. ASSUME NEW force \in BOOLEAN, Start(force) PROVE RootFirst'
  <2>1. pc' = "gen" /\ calls' = <<Call(toml, TRUE)>> /\ locks' = <<>> /\ opt'.metadata = toml
    BY <1>2 DEF Start
  <2>2. calls' # <<>> /\ Tail(calls') = <<>> /\ Head(calls') = Call(toml, TRUE)
    BY <2>1, OneElement
  <2>3. VisibleNames' = {}
    BY <2>1, NoElements DEF VisibleNames
  <2>4. /\ Head(calls').root /\ Head(calls').deps = toml.dependencies
        /\ Head(calls').todo = DOMAIN toml.dependencies
    BY <2>2 DEF Call
  <2> QED BY <2>1, <2>2, <2>3, <2>4 DEF RootFirst, InRoot, RootNames
<1>3. ASSUME NEW name, Resolve(name) PROVE RootFirst'
  <2>1. /\ pc = "gen" /\ pc' = "lock" /\ UNCHANGED <<opt, locks>> /\ calls # <<>> /\ calls' # <<>>
        /\ Tail(calls') = Tail(calls) /\ name \in Head(calls).todo
        /\ Elements(calls) = {Head(calls)} \cup Elements(Tail(calls))
        /\ Elements(calls') = {Head(calls')} \cup Elements(Tail(calls))
    BY <1>3, ResolveFacts
  <2>2. /\ Head(calls').root = Head(calls).root /\ Head(calls').deps = Head(calls).deps
        /\ Head(calls').todo = Head(calls).todo \ {name}
    BY <1>3, ResolveFacts
  <2>3. Head(calls).root => cur'.name = name
    BY <1>3, ResolveFacts
  <2>4. RootNames' = RootNames /\ VisibleNames' = VisibleNames
    BY <2>1 DEF RootNames, VisibleNames
  <2>5. CASE InRoot
    <3>1. RootNames = VisibleNames \cup Head(calls).todo /\ Head(calls).root
      BY <2>1, <2>5 DEF InRoot
    <3>2. RootNames' = VisibleNames' \cup Head(calls').todo \cup {cur'.name}
      BY <2>1, <2>2, <2>3, <2>4, <3>1
    <3> QED BY <2>1, <2>2, <2>5, <3>2 DEF RootFirst, InRoot
  <2>6. CASE BelowRoot
    BY <2>1, <2>2, <2>4, <2>6 DEF RootFirst, BelowRoot
  <2> QED BY <2>1, <2>5, <2>6 DEF RootFirst
<1>4. ASSUME NEW name, Nested(name) PROVE RootFirst'
  <2>1. cur'.name = cur.name /\ UNCHANGED <<pc, opt, calls, locks>>
    BY <1>4, NestedFacts
  <2> QED BY <2>1 DEF RootFirst, InRoot, BelowRoot, RootNames, VisibleNames
<1>5. CASE Seal
  <2>1. pc = "lock" /\ pc' = "gen" /\ UNCHANGED opt /\ calls # <<>>
        /\ Elements(calls) = {Head(calls)} \cup Elements(Tail(calls)) /\ RootNames' = RootNames
    BY <1>5, SealFacts DEF RootNames
  <2>2. CASE ~ Head(calls).root /\ UNCHANGED <<locks, calls>>
    BY <2>1, <2>2 DEF RootFirst, InRoot, BelowRoot, VisibleNames
  <2>3. CASE ~ (~ Head(calls).root /\ UNCHANGED <<locks, calls>>)
    <3>1. /\ locks' = Append(locks, NewLock) /\ calls' # <<>> /\ Tail(calls') = Tail(calls)
          /\ Elements(calls') = {Head(calls')} \cup Elements(Tail(calls))
      BY <1>5, <2>3, SealFacts
    <3>2. /\ Head(calls').root = Head(calls).root /\ Head(calls').deps = Head(calls).deps
          /\ Head(calls').todo = Head(calls).todo
      BY <1>5, <2>3, SealFacts
    <3>3. Elements(locks') = Elements(locks) \cup {NewLock}
      BY <3>1, AppendSeq DEF TypeInv, GenOK, IsTable
    <3>4. NewLock.name = cur.name /\ NewLock.visible = Head(calls).root
      BY DEF NewLock
    <3>5. CASE InRoot
      <4>1. VisibleNames' = VisibleNames \cup {cur.name}
        BY <3>3, <3>4, <3>5 DEF VisibleNames, InRoot
      <4> QED BY <2>1, <3>1, <3>2, <3>5, <4>1 DEF RootFirst, InRoot
    <3>6. CASE BelowRoot
      <4>1. ~ Head(calls).root
        BY <2>1, <3>6 DEF BelowRoot
      <4>2. VisibleNames' = VisibleNames
        BY <3>3, <3>4, <4>1 DEF VisibleNames
      <4> QED BY <2>1, <3>1, <3>2, <3>6, <4>1, <4>2 DEF RootFirst, BelowRoot
    <3> QED BY <2>1, <3>5, <3>6 DEF RootFirst
  <2> QED BY <2>2, <2>3
<1>6. CASE Descend
  <2>1. /\ pc = "gen" /\ UNCHANGED <<pc, opt, locks>> /\ calls # <<>> /\ Head(calls).todo = {}
        /\ Elements(calls) = {Head(calls)} \cup Elements(Tail(calls))
        /\ Elements(calls') = {Call(k, FALSE) : k \in Elements(Head(calls).kids)}
                                 \cup Elements(Tail(calls))
    BY <1>6, DescendFacts
  <2>2. \A k : ~ Call(k, FALSE).root
    BY DEF Call
  <2>3. RootNames' = RootNames /\ VisibleNames' = VisibleNames
    BY <2>1 DEF RootNames, VisibleNames
  <2>4. InRoot => Elements(Tail(calls)) = {} /\ RootNames = VisibleNames
    BY <2>1, NoElements DEF InRoot
  <2>5. BelowRoot'
    BY <2>1, <2>2, <2>3, <2>4 DEF RootFirst, BelowRoot
  <2> QED BY <2>1, <2>5 DEF RootFirst
<1>7. CASE Finish
  BY <1>7 DEF Finish, Table, RootFirst, InRoot, BelowRoot, RootNames, VisibleNames
<1>8. CASE End
  BY <1>8 DEF End, RootFirst
<1>9. ASSUME NEW metadata \in Roots, EditToml(metadata) PROVE RootFirst'
  BY <1>9 DEF EditToml, gen, RootFirst, InRoot, BelowRoot, RootNames, VisibleNames
<1>10. ASSUME NEW project \in Project, NEW v, Publish(project, v) PROVE RootFirst'
  BY <1>10 DEF Publish, gen, RootFirst, InRoot, BelowRoot, RootNames, VisibleNames
<1> QED
  BY <1>1, <1>2, <1>3, <1>4, <1>5, <1>6, <1>7, <1>8, <1>9, <1>10 DEF Next

\* The names of the lock table are distinct, and "root has top priority of
\* name": gen_locks, for every graph and every order of its hash tables.
THEOREM NamesDistinctHolds == Spec => []NamesDistinct
<1>1. Init => NameInv
  BY TypeInit, NoElements DEF Init, NameInv, NamesUsed, RootFirst, Running
<1>2. NameInv /\ [Next]_vars => NameInv'
  BY TypeStep, NamesUsedStep, RootFirstStep DEF NameInv
<1>3. NameInv => NamesDistinct
  BY DEF NameInv, NamesUsed, RootFirst, RootNames, VisibleNames, NamesDistinct
<1> QED
  BY <1>1, <1>2, <1>3, PTL DEF Spec

-------------------------------------------------------------------------------
(* Where the manifests come from, and what is respected of the old locks *)

\* The manifests to come are those of Veryl.toml and of locks.
LEMMA OriginStep == TypeInv /\ Origin /\ [Next]_vars => Origin'
<1> SUFFICES ASSUME TypeInv, Origin, [Next]_vars PROVE Origin'
  OBVIOUS
<1> USE DEF Running
<1>1. CASE UNCHANGED vars
  BY <1>1 DEF vars, gen, Origin
<1>2. ASSUME NEW force \in BOOLEAN, Start(force) PROVE Origin'
  <2>1. calls' = <<Call(toml, TRUE)>> /\ opt'.metadata = toml
    BY <1>2 DEF Start
  <2>2. Elements(calls') = {Call(toml, TRUE)}
    BY <2>1, OneElement
  <2>3. /\ Call(toml, TRUE).root /\ Call(toml, TRUE).deps = toml.dependencies
        /\ Elements(Call(toml, TRUE).kids) = {}
    BY NoElements DEF Call
  <2> QED BY <2>1, <2>2, <2>3 DEF Origin
<1>3. ASSUME NEW name, Resolve(name) PROVE Origin'
  <2>1. /\ pc = "gen" /\ UNCHANGED <<opt, locks>>
        /\ Elements(calls) = {Head(calls)} \cup Elements(Tail(calls))
        /\ Elements(calls') = {Head(calls')} \cup Elements(Tail(calls))
    BY <1>3, ResolveFacts
  <2>2. /\ Head(calls').root = Head(calls).root /\ Head(calls').deps = Head(calls).deps
        /\ Head(calls').kids = Head(calls).kids
    BY <1>3, ResolveFacts
  <2> QED BY <2>1, <2>2 DEF Origin
<1>4. ASSUME NEW name, Nested(name) PROVE Origin'
  BY <1>4, NestedFacts DEF Origin
<1>5. CASE Seal
  <2>1. pc = "lock" /\ UNCHANGED opt /\ IsCall(Head(calls))
        /\ Elements(calls) = {Head(calls)} \cup Elements(Tail(calls))
    BY <1>5, SealFacts
  <2>2. CASE UNCHANGED <<locks, calls>>
    BY <2>1, <2>2 DEF Origin
  <2>3. CASE ~ UNCHANGED <<locks, calls>>
    <3>1. /\ locks' = Append(locks, NewLock)
          /\ Elements(calls') = {Head(calls')} \cup Elements(Tail(calls))
      BY <1>5, <2>3, SealFacts
    <3>2. /\ Head(calls').root = Head(calls).root /\ Head(calls').deps = Head(calls).deps
          /\ Head(calls').kids = Append(Head(calls).kids, MetadataOf(cur.source))
      BY <1>5, <2>3, SealFacts
    <3>3. Elements(Head(calls').kids) = Elements(Head(calls).kids) \cup {MetadataOf(cur.source)}
      <4>1. IsSeq(Head(calls).kids)
        BY <2>1 DEF IsCall
      <4>2. Elements(Append(Head(calls).kids, MetadataOf(cur.source)))
              = Elements(Head(calls).kids) \cup {MetadataOf(cur.source)}
        BY <4>1, AppendSeq
      <4> QED BY <3>2, <4>2
    <3>4. Elements(locks') = Elements(locks) \cup {NewLock} /\ NewLock.source = cur.source
      BY <3>1, AppendSeq DEF TypeInv, GenOK, IsTable, NewLock
    <3> QED BY <2>1, <3>1, <3>2, <3>3, <3>4 DEF Origin
  <2> QED BY <2>2, <2>3
<1>6. CASE Descend
  <2>1. /\ pc = "gen" /\ UNCHANGED <<opt, locks>>
        /\ Elements(calls) = {Head(calls)} \cup Elements(Tail(calls))
        /\ Elements(calls') = {Call(k, FALSE) : k \in Elements(Head(calls).kids)}
                                 \cup Elements(Tail(calls))
    BY <1>6, DescendFacts
  <2>2. \A k : /\ ~ Call(k, FALSE).root /\ Call(k, FALSE).deps = k.dependencies
               /\ Elements(Call(k, FALSE).kids) = {}
    BY NoElements DEF Call
  <2>3. \A k \in Elements(Head(calls).kids) :
          \E p \in Elements(locks) : k.dependencies = Deps(p.source)
    BY <2>1 DEF Origin, Deps
  <2>4. \A c \in Elements(Tail(calls)) :
          /\ \/ c.root /\ c.deps = opt.metadata.dependencies
             \/ ~ c.root /\ \E p \in Elements(locks) : c.deps = Deps(p.source)
          /\ \A k \in Elements(c.kids) : \E p \in Elements(locks) : k = MetadataOf(p.source)
    BY <2>1 DEF Origin
  <2>5. \A c \in {Call(k, FALSE) : k \in Elements(Head(calls).kids)} :
          /\ ~ c.root /\ Elements(c.kids) = {}
          /\ \E p \in Elements(locks) : c.deps = Deps(p.source)
    BY <2>2, <2>3
  <2> QED BY <2>1, <2>4, <2>5 DEF Origin
<1>7. CASE Finish
  BY <1>7 DEF Finish, Origin
<1>8. CASE End
  BY <1>8 DEF End, Origin
<1>9. ASSUME NEW metadata \in Roots, EditToml(metadata) PROVE Origin'
  BY <1>9 DEF EditToml, gen, Origin
<1>10. ASSUME NEW project \in Project, NEW v, Publish(project, v) PROVE Origin'
  BY <1>10 DEF Publish, gen, Origin
<1> QED
  BY <1>1, <1>2, <1>3, <1>4, <1>5, <1>6, <1>7, <1>8, <1>9, <1>10 DEF Next

\* A requirement that resolve_version_from_lockfile finds nothing for is met
\* by no lock at all: a path has no version.
LEMMA NothingOld ==
  ASSUME IsTable(opt.old), NEW e, e.req \subseteq Nat \ {0}, FromLockfile(e) = {}
  PROVE  OldVersions(e.project) \cap e.req = {}
<1> SUFFICES ASSUME NEW l \in Elements(opt.old), l.source.project = e.project,
                    l.source.version \in e.req
             PROVE  FALSE
  BY DEF OldVersions
<1>1. l.source \in Sources /\ l.source.version # 0
  BY DEF IsTable
<1>2. l.source.kind = "git"
  BY <1>1 DEF Sources
<1> QED BY <1>2 DEF FromLockfile

\* What is wanted only grows.
LEMMA RespectedStays ==
  ASSUME UNCHANGED opt, Elements(locks) \subseteq Elements(locks'), NEW s, Respected(s)
  PROVE  Respected(s)'
<1>1. Wanted \subseteq Wanted'
  BY DEF Wanted, WantedBy
<1>2. \A project : OldVersions(project)' = OldVersions(project)
  BY DEF OldVersions
<1> QED BY <1>1, <1>2 DEF Respected

\* Each source that is chosen respects the old locks.
LEMMA RespectStep == RespectInv /\ [Next]_vars => RespectInv'
<1> SUFFICES ASSUME TypeInv, Origin, Respect, [Next]_vars PROVE Respect'
  BY TypeStep, OriginStep DEF RespectInv
<1>1. CASE UNCHANGED vars
  <2>1. UNCHANGED <<pc, opt, locks, cur>>
    BY <1>1 DEF vars, gen
  <2> QED BY <2>1, RespectedStays DEF Respect
<1>2. ASSUME NEW force \in BOOLEAN, Start(force) PROVE Respect'
  BY <1>2, NoElements DEF Start, Respect
<1>3. ASSUME NEW name, Resolve(name) PROVE Respect'
  <2> DEFINE call == Head(calls)
             e == call.deps[name]
  <2>1. /\ pc = "gen" /\ pc' = "lock" /\ UNCHANGED <<opt, locks>> /\ IsCall(call)
        /\ name \in call.todo /\ call \in Elements(calls)
    BY <1>3, ResolveFacts
  <2>2. PICK source \in ResolveDependency(e, call.root) : cur'.source = source
    BY <1>3, ResolveFacts
  <2>3. PICK m \in Manifests : call.deps = m.dependencies
    BY <2>1 DEF IsCall
  <2>4. name \in DOMAIN m.dependencies /\ e = m.dependencies[name] /\ call.root \in BOOLEAN
    BY <2>1, <2>3 DEF IsCall
  <2>5. WorldOK /\ IsTable(opt.old)
    BY <2>1 DEF TypeInv, CommandOK
  <2>6. /\ source.project = e.project
        /\ e.kind = "git" =>
              /\ source.version \in e.req
              /\ source.version \in FromLockfile(e) \/ FromLockfile(e) = {} \/ opt.force
    BY <2>2, <2>4, <2>5, ResolvedFacts
  <2>7. e \in Wanted
    <3>1. \/ call.deps = opt.metadata.dependencies
          \/ \E p \in Elements(locks) : call.deps = MetadataOf(p.source).dependencies
      BY <2>1 DEF Origin, Running, Deps
    <3>2. \E w \in {opt.metadata} \cup {MetadataOf(l.source) : l \in Elements(locks)} :
            e \in Entries(w)
      BY <2>3, <2>4, <3>1 DEF Entries
    <3> QED BY <3>2 DEF Wanted, WantedBy
  <2>8. ~ opt.force => Respected(source)
    <3> HAVE ~ opt.force
    <3>1. CASE e.kind # "git"
      BY <2>6, <2>7, <3>1 DEF Respected
    <3>2. CASE e.kind = "git" /\ source.version \in FromLockfile(e)
      <4>1. source.version \in OldVersions(e.project)
        BY <3>2 DEF FromLockfile, OldVersions
      <4> QED BY <2>6, <4>1 DEF Respected
    <3>3. CASE e.kind = "git" /\ FromLockfile(e) = {}
      <4>1. e.req \subseteq Nat \ {0}
        BY <2>3, <2>4, <3>3, LockfileAssumption
      <4>2. OldVersions(e.project) \cap e.req = {}
        BY <2>5, <3>3, <4>1, NothingOld
      <4> QED BY <2>6, <2>7, <3>3, <4>2 DEF Respected
    <3> QED BY <2>6, <3>1, <3>2, <3>3
  <2>9. \A s : Respected(s) => Respected(s)'
    BY <2>1, RespectedStays
  <2>10. ~ opt.force => Respected(source)'
    BY <2>8, <2>9
  <2>11. ~ opt.force => \A l \in Elements(locks) : Respected(l.source)'
    BY <2>1, <2>9 DEF Respect
  <2>12. ~ opt.force => (Respected(cur.source))'
    BY <2>2, <2>10 DEF Respected
  <2> QED BY <2>1, <2>11, <2>12 DEF Respect
<1>4. ASSUME NEW name, Nested(name) PROVE Respect'
  <2>1. cur'.source = cur.source /\ UNCHANGED <<pc, opt, locks>>
    BY <1>4, NestedFacts
  <2> QED BY <2>1, RespectedStays DEF Respect
<1>5. CASE Seal
  <2>1. pc = "lock" /\ pc' = "gen" /\ UNCHANGED opt
    BY <1>5, SealFacts
  <2>a. Elements(locks') = Elements(locks) \/ Elements(locks') = Elements(locks) \cup {NewLock}
    <3>1. UNCHANGED locks \/ locks' = Append(locks, NewLock)
      BY <1>5, SealFacts
    <3> QED BY <3>1, AppendSeq DEF TypeInv, GenOK, IsTable
  <2>2. \A l \in Elements(locks') : l \in Elements(locks) \/ l.source = cur.source
    BY <2>a DEF NewLock
  <2>3. Elements(locks) \subseteq Elements(locks')
    BY <2>a
  <2> QED BY <2>1, <2>2, <2>3, RespectedStays DEF Respect
<1>6. CASE Descend
  <2>1. UNCHANGED <<pc, opt, cur, locks>>
    BY <1>6 DEF Descend
  <2> QED BY <2>1, RespectedStays DEF Respect
<1>7. CASE Finish
  <2>1. pc = "gen" /\ pc' = "done" /\ UNCHANGED <<opt, locks>>
    BY <1>7 DEF Finish, Table
  <2> QED BY <2>1, RespectedStays DEF Respect
<1>8. CASE End
  BY <1>8 DEF End, Respect
<1>9. ASSUME NEW metadata \in Roots, EditToml(metadata) PROVE Respect'
  <2>1. UNCHANGED <<pc, opt, cur, locks>>
    BY <1>9 DEF EditToml, gen
  <2> QED BY <2>1, RespectedStays DEF Respect
<1>10. ASSUME NEW project \in Project, NEW v, Publish(project, v) PROVE Respect'
  <2>1. UNCHANGED <<pc, opt, cur, locks>>
    BY <1>10 DEF Publish, gen
  <2> QED BY <2>1, RespectedStays DEF Respect
<1> QED
  BY <1>1, <1>2, <1>3, <1>4, <1>5, <1>6, <1>7, <1>8, <1>9, <1>10 DEF Next

\* A build without force_update takes a new release only for a requirement
\* that no locked one meets (resolve_version), whatever is published while
\* gen_locks is at work.
THEOREM LocksRespectedHolds == Spec => []LocksRespected
<1>1. Init => RespectInv
  BY TypeInit DEF Init, RespectInv, Origin, Respect, Running
<1>2. RespectInv => LocksRespected
  <2> SUFFICES ASSUME RespectInv, pc = "done", ~ opt.force PROVE LocksRespected
    BY DEF LocksRespected
  <2>1. \A l \in Elements(locks) : Respected(l.source)
    BY DEF RespectInv, Respect
  <2> QED BY <2>1 DEF Respected, Wanted, WantedBy, Entries, OldVersions, LocksRespected
<1> QED
  BY <1>1, <1>2, RespectStep, PTL DEF Spec

-------------------------------------------------------------------------------
(* No project is locked twice *)

\* src_table: an identity is locked at most once.
LEMMA UniqueStep == TypeInv /\ Unique /\ [Next]_vars => Unique'
<1> SUFFICES ASSUME TypeInv, Unique, [Next]_vars PROVE Unique'
  OBVIOUS
<1>1. UNCHANGED locks => Unique'
  BY DEF Unique
<1>2. ASSUME locks' = <<>> PROVE Unique'
  BY <1>2 DEF Unique
<1>3. CASE Seal
  <2>1. CASE UNCHANGED locks
    BY <1>1, <2>1
  <2>2. CASE ~ UNCHANGED locks
    <3>1. locks' = Append(locks, NewLock) /\ Uuid(NewLock) \notin Uuids(locks)
      BY <1>3, <2>2, SealFacts
    <3>2. /\ Len(locks) \in Nat /\ DOMAIN locks = 1..Len(locks)
          /\ DOMAIN locks' = 1..(Len(locks) + 1) /\ locks'[Len(locks) + 1] = NewLock
          /\ \A i \in 1..Len(locks) : locks'[i] = locks[i]
      BY <3>1, AppendSeq DEF TypeInv, GenOK, IsTable
    <3>3. \A i \in 1..Len(locks) : Uuid(locks[i]) # Uuid(NewLock)
      BY <3>1, <3>2 DEF Uuids, Elements
    <3>4. ASSUME NEW i \in DOMAIN locks', NEW j \in DOMAIN locks',
                 Uuid(locks'[i]) = Uuid(locks'[j])
          PROVE  i = j
      <4>1. (i \in 1..Len(locks) \/ i = Len(locks) + 1) /\ (j \in 1..Len(locks) \/ j = Len(locks) + 1)
        BY <3>2
      <4>2. CASE i \in 1..Len(locks) /\ j \in 1..Len(locks)
        BY <3>2, <3>4, <4>2 DEF Unique
      <4>3. CASE ~ (i \in 1..Len(locks) /\ j \in 1..Len(locks))
        BY <3>2, <3>3, <3>4, <4>1, <4>3
      <4> QED BY <4>2, <4>3
    <3> QED BY <3>4 DEF Unique
  <2> QED BY <2>1, <2>2
<1>4. CASE UNCHANGED vars
  BY <1>1, <1>4 DEF vars, gen
<1> QED
  BY <1>1, <1>2, <1>3, <1>4
  DEF Next, Start, Resolve, Nested, Descend, Finish, Table, End, EditToml, Publish, gen

\* A table without doubles has as many identities as locks.
LEMMA UniqueCount ==
  ASSUME IsSeq(locks), Unique PROVE Cardinality(Uuids(locks)) = Len(locks)
<1> DEFINE n == Len(locks)
           f == [i \in 1..n |-> Uuid(locks[i])]
           U == Uuids(locks)
<1>1. n \in Nat /\ DOMAIN locks = 1..n
  BY LenProperties DEF IsSeq
<1>2. f \in [1..n -> U]
  BY <1>1 DEF Uuids, Elements
<1>3. \A a, b \in 1..n : f[a] = f[b] => a = b
  BY <1>1 DEF Unique
<1>4. \A t \in U : \E i \in 1..n : f[i] = t
  BY <1>1 DEF Uuids, Elements
<1>5. f \in Bijection(1..n, U)
  <2> HIDE DEF f, n, U
  <2> QED BY <1>2, <1>3, <1>4, Fun_IsBij
<1>6. ExistsBijection(1..n, U)
  BY <1>5 DEF ExistsBijection
<1> QED BY <1>1, <1>6, FS_CountingElements

-------------------------------------------------------------------------------
(* The graph is complete *)

\* Without overrides the current manifest makes no difference to what an entry
\* resolves to, and it resolves to one source at most.
LEMMA SrcFacts ==
  ASSUME NoOverrides, WorldOK, IsTable(opt.old), NEW m \in Manifests,
         NEW n \in DOMAIN m.dependencies, NEW e, e = m.dependencies[n],
         NEW root \in BOOLEAN, NEW s \in ResolveDependency(e, root)
  PROVE  s \in Src(e) /\ Src(e) = {s} /\ Plain(s)
<1>1. e.override = FALSE
  BY DEF NoOverrides, Entries
<1>2. CASE e.kind = "git"
  <2>1. PICK v \in Versions(e) : s = Source("git", e.project, v, root /\ e.override)
    BY <1>2 DEF ResolveDependency
  <2>2. e.project \in Project /\ e.req \subseteq Nat \ {0}
    BY <1>2, LockfileAssumption
  <2>3. Versions(e) = {v}
    BY <2>2, VersionFacts
  <2>4. (root /\ e.override) = FALSE /\ (FALSE /\ e.override) = FALSE
    BY <1>1
  <2>5. s = Source("git", e.project, v, FALSE)
    BY <2>1, <2>4
  <2>6. Src(e) = {Source("git", e.project, w, FALSE) : w \in Versions(e)}
    BY <1>2, <2>4 DEF Src, ResolveDependency
  <2>7. Src(e) = {s}
    BY <2>3, <2>5, <2>6
  <2> QED BY <2>5, <2>7 DEF Plain, Source
<1>3. CASE e.kind # "git"
  <2>1. s = Source("path", e.project, 0, FALSE) /\ Src(e) = {s}
    BY <1>3 DEF ResolveDependency, Src
  <2> QED BY <2>1 DEF Plain, Source
<1> QED BY <1>2, <1>3

\* As long as nothing is published, entries resolve as before.
LEMMA SrcSame == ASSUME UNCHANGED <<published, opt>> PROVE \A e : Src(e)' = Src(e)
BY DEF Src, ResolveDependency, Versions, Newest, FromLockfile, FromLatest

\* What is recorded stays right.
LEMMA RecordedSame ==
  ASSUME UNCHANGED <<published, opt>>
  PROVE  \A s, ds, todo : Recorded(s, ds, todo)' <=> Recorded(s, ds, todo)
BY SrcSame DEF Recorded

\* The entry that Resolve takes, and what it makes of it.
LEMMA ResolveSrc ==
  ASSUME NoOverrides, TypeInv, NEW name, Resolve(name)
  PROVE  /\ name \in DOMAIN Head(calls).deps
         /\ Src(Head(calls).deps[name]) = {cur'.source} /\ Plain(cur'.source)
         /\ cur'.properties = Properties(Head(calls).deps[name], MetadataOf(cur'.source))
         /\ cur'.todo = DOMAIN Deps(cur'.source) /\ cur'.dependencies = {}
<1> DEFINE call == Head(calls)
           e == call.deps[name]
<1>1. pc = "gen" /\ IsCall(call) /\ name \in call.todo
  BY ResolveFacts
<1>2. PICK source \in ResolveDependency(e, call.root) :
        \E lockName :
          cur' = [name |-> lockName, source |-> source,
                  properties |-> Properties(e, MetadataOf(source)),
                  todo |-> DOMAIN MetadataOf(source).dependencies,
                  dependencies |-> {}]
  BY ResolveFacts
<1>3. PICK m \in Manifests : call.deps = m.dependencies
  BY <1>1 DEF IsCall
<1>4. name \in DOMAIN m.dependencies /\ e = m.dependencies[name] /\ call.root \in BOOLEAN
  BY <1>1, <1>3 DEF IsCall
<1>5. WorldOK /\ IsTable(opt.old)
  BY <1>1 DEF TypeInv, CommandOK
<1>6. Src(e) = {source} /\ Plain(source)
  BY <1>2, <1>3, <1>4, <1>5, SrcFacts
<1>7. cur'.source = source /\ cur'.properties = Properties(e, MetadataOf(source))
      /\ cur'.todo = DOMAIN MetadataOf(source).dependencies /\ cur'.dependencies = {}
  BY <1>2
<1> QED BY <1>3, <1>4, <1>6, <1>7 DEF Deps

\* The sources have no override.
LEMMA PlainStep == NoOverrides /\ TypeInv /\ AllPlain /\ [Next]_vars => AllPlain'
<1> SUFFICES ASSUME NoOverrides, TypeInv, AllPlain, [Next]_vars PROVE AllPlain'
  OBVIOUS
<1>1. CASE UNCHANGED vars
  BY <1>1 DEF vars, gen, AllPlain, Plain
<1>2. ASSUME NEW force \in BOOLEAN, Start(force) PROVE AllPlain'
  BY <1>2, NoElements DEF Start, AllPlain
<1>3. ASSUME NEW name, Resolve(name) PROVE AllPlain'
  <2>1. Plain(cur'.source) /\ UNCHANGED locks
    BY <1>3, ResolveSrc, ResolveFacts
  <2> QED BY <2>1 DEF AllPlain, Plain
<1>4. ASSUME NEW name, Nested(name) PROVE AllPlain'
  <2>1. cur'.source = cur.source /\ UNCHANGED <<pc, locks>>
    BY <1>4, NestedFacts
  <2> QED BY <2>1 DEF AllPlain, Plain
<1>5. CASE Seal
  <2>1. pc = "lock" /\ pc' = "gen" /\ (UNCHANGED locks \/ locks' = Append(locks, NewLock))
    BY <1>5, SealFacts
  <2>2. \A l \in Elements(locks') : l \in Elements(locks) \/ l.source = cur.source
    <3>1. Elements(locks') = Elements(locks) \/ Elements(locks') = Elements(locks) \cup {NewLock}
      BY <2>1, AppendSeq DEF TypeInv, GenOK, IsTable
    <3> QED BY <3>1 DEF NewLock
  <2> QED BY <2>1, <2>2 DEF AllPlain, Plain
<1>6. CASE Descend
  BY <1>6 DEF Descend, AllPlain, Plain
<1>7. CASE Finish
  BY <1>7 DEF Finish, Table, AllPlain, Plain
<1>8. CASE End
  BY <1>8, NoElements DEF End, AllPlain
<1>9. ASSUME NEW metadata \in Roots, EditToml(metadata) PROVE AllPlain'
  BY <1>9 DEF EditToml, gen, AllPlain, Plain
<1>10. ASSUME NEW project \in Project, NEW v, Publish(project, v) PROVE AllPlain'
  BY <1>10 DEF Publish, gen, AllPlain, Plain
<1> QED
  BY <1>1, <1>2, <1>3, <1>4, <1>5, <1>6, <1>7, <1>8, <1>9, <1>10 DEF Next

\* What is recorded is what the dependencies resolve to.
LEMMA RecordedStep == NoOverrides /\ TypeInv /\ AllRecorded /\ [Next]_vars => AllRecorded'
<1> SUFFICES ASSUME NoOverrides, TypeInv, AllRecorded, [Next]_vars PROVE AllRecorded'
  OBVIOUS
<1> USE DEF Running
<1>1. CASE UNCHANGED vars
  <2>1. UNCHANGED <<published, opt, pc, moved, locks, cur>>
    BY <1>1 DEF vars, gen, world
  <2> QED BY <2>1, RecordedSame DEF AllRecorded
<1>2. ASSUME NEW force \in BOOLEAN, Start(force) PROVE AllRecorded'
  BY <1>2, NoElements DEF Start, AllRecorded
<1>3. ASSUME NEW name, Resolve(name) PROVE AllRecorded'
  <2>1. pc = "gen" /\ UNCHANGED <<published, opt, locks, moved>>
    BY <1>3, ResolveFacts DEF world
  <2>2. cur'.todo = DOMAIN Deps(cur'.source) /\ cur'.dependencies = {}
    BY <1>3, ResolveSrc
  <2>3. Recorded(cur.source, cur.dependencies, cur.todo)'
    BY <2>2 DEF Recorded
  <2> QED BY <2>1, <2>3, RecordedSame DEF AllRecorded
<1>4. ASSUME NEW name, Nested(name) PROVE AllRecorded'
  <2> SUFFICES ASSUME ~ moved PROVE AllRecorded'
    BY <1>4, NestedFacts DEF AllRecorded
  <2>1. /\ pc = "lock" /\ UNCHANGED <<published, pc, opt, calls, locks, moved>>
        /\ IsCur(cur) /\ name \in cur.todo /\ IsCall(Head(calls))
    BY <1>4, NestedFacts DEF world
  <2>2. PICK source \in ResolveDependency(Deps(cur.source)[name], Head(calls).root) :
          /\ cur'.source = cur.source /\ cur'.todo = cur.todo \ {name}
          /\ cur'.dependencies = cur.dependencies \cup {[name |-> name, source |-> source]}
    BY <1>4, NestedFacts
  <2>3. name \in DOMAIN Deps(cur.source) /\ MetadataOf(cur.source) \in Manifests
    BY <2>1, ManifestOf DEF IsCur
  <2>4. Src(Deps(cur.source)[name]) = {source}
    <3>1. WorldOK /\ IsTable(opt.old) /\ Head(calls).root \in BOOLEAN
      BY <2>1 DEF IsCall, TypeInv, CommandOK
    <3> QED BY <2>2, <2>3, <3>1, SrcFacts DEF Deps
  <2>5. Recorded(cur.source, cur.dependencies, cur.todo)
    BY <2>1 DEF AllRecorded
  <2>6. [name |-> name, source |-> source].name = name
        /\ [name |-> name, source |-> source].source = source
    OBVIOUS
  <2>7. Recorded(cur.source, cur'.dependencies, cur'.todo)
    BY <2>2, <2>3, <2>4, <2>5, <2>6 DEF Recorded
  <2>8. Recorded(cur.source, cur.dependencies, cur.todo)'
    BY <2>1, <2>2, <2>7, SrcSame DEF Recorded
  <2> QED BY <2>1, <2>8, RecordedSame DEF AllRecorded
<1>5. CASE Seal
  <2>1. /\ pc = "lock" /\ pc' = "gen" /\ UNCHANGED <<published, opt, moved>> /\ cur.todo = {}
        /\ (UNCHANGED locks \/ locks' = Append(locks, NewLock))
    BY <1>5, SealFacts DEF world
  <2>2. Elements(locks') = Elements(locks) \/ Elements(locks') = Elements(locks) \cup {NewLock}
    BY <2>1, AppendSeq DEF TypeInv, GenOK, IsTable
  <2>3. ~ moved => Recorded(NewLock.source, NewLock.dependencies, {})
    BY <2>1 DEF AllRecorded, NewLock
  <2>4. ~ moved => \A l \in Elements(locks') : Recorded(l.source, l.dependencies, {})
    BY <2>1, <2>2, <2>3 DEF AllRecorded
  <2> QED BY <2>1, <2>4, RecordedSame DEF AllRecorded
<1>6. CASE Descend
  <2>1. UNCHANGED <<published, opt, pc, moved, locks, cur>>
    BY <1>6 DEF Descend, world
  <2> QED BY <2>1, RecordedSame DEF AllRecorded
<1>7. CASE Finish
  BY <1>7 DEF Finish, AllRecorded
<1>8. CASE End
  BY <1>8 DEF End, AllRecorded
<1>9. ASSUME NEW metadata \in Roots, EditToml(metadata) PROVE AllRecorded'
  <2>1. UNCHANGED <<published, opt, pc, moved, locks, cur>>
    BY <1>9 DEF EditToml, gen
  <2> QED BY <2>1, RecordedSame DEF AllRecorded
<1>10. ASSUME NEW project \in Project, NEW v, Publish(project, v) PROVE AllRecorded'
  BY <1>10 DEF Publish, AllRecorded
<1> QED
  BY <1>1, <1>2, <1>3, <1>4, <1>5, <1>6, <1>7, <1>8, <1>9, <1>10 DEF Next

\* A lock that is there stays, and so does what it is the lock of.
LEMMA LockedStays ==
  ASSUME UNCHANGED <<published, opt>>, Elements(locks) \subseteq Elements(locks')
  PROVE  \A e : IsLocked(e) => IsLocked(e)'
BY SrcSame DEF IsLocked

\* The identity of a lock without override determines its source.
LEMMA SameUuid ==
  ASSUME NEW l, NEW m, Plain(l.source), Plain(m.source), Uuid(l) = Uuid(m)
  PROVE  l.source = m.source /\ l.properties = m.properties
BY DEF Uuid, Plain, Source

\* The entries of the manifests of locks are locked or to come: one that is
\* taken from a call becomes the dependency at hand, and that becomes a lock.
LEMMA FollowedStep ==
  NoOverrides /\ TypeInv /\ AllPlain /\ AllFollowed /\ [Next]_vars => AllFollowed'
<1> SUFFICES ASSUME NoOverrides, TypeInv, AllPlain, AllFollowed, [Next]_vars
             PROVE  AllFollowed'
  OBVIOUS
<1> USE DEF Running
<1>1. CASE UNCHANGED vars
  <2>1. UNCHANGED <<published, opt, pc, moved, locks, calls, cur>>
    BY <1>1 DEF vars, gen, world
  <2>2. \A e : (IsLocked(e) => IsLocked(e)') /\ (Pending(e) => Pending(e)')
    BY <2>1, LockedStays, SrcSame DEF Pending
  <2> QED BY <2>1, <2>2 DEF AllFollowed
<1>2. ASSUME NEW force \in BOOLEAN, Start(force) PROVE AllFollowed'
  BY <1>2, NoElements DEF Start, AllFollowed
<1>3. ASSUME NEW name, Resolve(name) PROVE AllFollowed'
  <2>1. /\ pc = "gen" /\ pc' = "lock" /\ UNCHANGED <<published, opt, locks, moved>>
        /\ Elements(calls) = {Head(calls)} \cup Elements(Tail(calls))
        /\ Elements(calls') = {Head(calls')} \cup Elements(Tail(calls))
    BY <1>3, ResolveFacts DEF world
  <2>2. /\ Head(calls').deps = Head(calls).deps /\ Head(calls').kids = Head(calls).kids
        /\ Head(calls').todo = Head(calls).todo \ {name}
    BY <1>3, ResolveFacts
  <2>3. /\ Src(Head(calls).deps[name]) = {cur'.source}
        /\ cur'.properties = Properties(Head(calls).deps[name], MetadataOf(cur'.source))
    BY <1>3, ResolveSrc
  <2>4. ASSUME NEW e, Pending(e) PROVE Pending(e)'
    <3>1. PICK c \in Elements(calls) : \/ \E k \in Elements(c.kids) : e \in Entries(k)
                                       \/ \E n \in c.todo : e = c.deps[n]
      BY <2>1, <2>4 DEF Pending
    <3>2. CASE c \in Elements(calls')
      BY <3>1, <3>2 DEF Pending
    <3>3. CASE c = Head(calls) /\ \E k \in Elements(c.kids) : e \in Entries(k)
      BY <2>1, <2>2, <3>3 DEF Pending
    <3>4. CASE c = Head(calls) /\ \E n \in c.todo \ {name} : e = c.deps[n]
      BY <2>1, <2>2, <3>4 DEF Pending
    <3>5. CASE c = Head(calls) /\ e = c.deps[name]
      <4>1. Src(e)' = Src(e)
        BY <2>1, SrcSame
      <4>2. cur'.source \in Src(e) /\ cur'.properties = Properties(e, MetadataOf(cur'.source))
        BY <2>3, <3>5
      <4> QED BY <2>1, <4>1, <4>2 DEF Pending
    <3> QED BY <2>1, <3>1, <3>2, <3>3, <3>4, <3>5
  <2> QED BY <2>1, <2>4, LockedStays DEF AllFollowed
<1>4. ASSUME NEW name, Nested(name) PROVE AllFollowed'
  <2>1. /\ UNCHANGED <<published, opt, pc, moved, locks, calls>>
        /\ cur'.source = cur.source /\ cur'.properties = cur.properties
    BY <1>4, NestedFacts DEF world
  <2>2. \A e : Pending(e) => Pending(e)'
    BY <2>1, SrcSame DEF Pending
  <2> QED BY <2>1, <2>2, LockedStays DEF AllFollowed
<1>5. CASE Seal
  <2>1. /\ pc = "lock" /\ pc' = "gen" /\ UNCHANGED <<published, opt, moved>>
        /\ Elements(calls) = {Head(calls)} \cup Elements(Tail(calls)) /\ IsCall(Head(calls))
    BY <1>5, SealFacts DEF world
  <2>2. /\ NewLock.source = cur.source /\ NewLock.properties = cur.properties
        /\ Plain(cur.source)
    BY <2>1 DEF NewLock, AllPlain
  <2>3. CASE Uuid(NewLock) \in Uuids(locks) /\ UNCHANGED <<locks, calls>>
    <3>1. PICK m \in Elements(locks) : Uuid(m) = Uuid(NewLock)
      BY <2>3 DEF Uuids
    <3>2. m.source = cur.source /\ m.properties = cur.properties
      BY <2>2, <3>1, SameUuid DEF AllPlain
    <3>3. ASSUME NEW e, Pending(e) PROVE IsLocked(e) \/ Pending(e)'
      BY <2>1, <2>3, <3>2, <3>3 DEF Pending, IsLocked
    <3> QED BY <2>1, <2>3, <3>3, LockedStays DEF AllFollowed
  <2>4. CASE ~ (Uuid(NewLock) \in Uuids(locks) /\ UNCHANGED <<locks, calls>>)
    <3>1. /\ locks' = Append(locks, NewLock)
          /\ Elements(calls') = {Head(calls')} \cup Elements(Tail(calls))
      BY <1>5, <2>4, SealFacts
    <3>2. /\ Head(calls').todo = Head(calls).todo /\ Head(calls').deps = Head(calls).deps
          /\ Head(calls').kids = Append(Head(calls).kids, MetadataOf(cur.source))
      BY <1>5, <2>4, SealFacts
    <3>3. Elements(Head(calls').kids) = Elements(Head(calls).kids) \cup {MetadataOf(cur.source)}
      <4>1. IsSeq(Head(calls).kids)
        BY <2>1 DEF IsCall
      <4>2. Elements(Append(Head(calls).kids, MetadataOf(cur.source)))
              = Elements(Head(calls).kids) \cup {MetadataOf(cur.source)}
        BY <4>1, AppendSeq
      <4> QED BY <3>2, <4>2
    <3>4. Elements(locks') = Elements(locks) \cup {NewLock}
      BY <3>1, AppendSeq DEF TypeInv, GenOK, IsTable
    <3>5. \A e : IsLocked(e) => IsLocked(e)'
      BY <2>1, <3>4, LockedStays
    <3>6. ASSUME NEW e, Pending(e) PROVE IsLocked(e)' \/ Pending(e)'
      <4>1. CASE cur.source \in Src(e)
                 /\ cur.properties = Properties(e, MetadataOf(cur.source))
        <5>1. Src(e)' = Src(e)
          BY <2>1, SrcSame
        <5> QED BY <2>2, <3>4, <4>1, <5>1 DEF IsLocked
      <4>2. CASE \E c \in Elements(calls) : \/ \E k \in Elements(c.kids) : e \in Entries(k)
                                            \/ \E n \in c.todo : e = c.deps[n]
        BY <2>1, <3>1, <3>2, <3>3, <4>2 DEF Pending
      <4> QED BY <3>6, <4>1, <4>2 DEF Pending
    <3>7. ASSUME NEW e \in Entries(MetadataOf(NewLock.source)) PROVE Pending(e)'
      BY <2>2, <3>1, <3>3 DEF Pending
    <3> QED BY <2>1, <3>4, <3>5, <3>6, <3>7 DEF AllFollowed
  <2> QED BY <2>3, <2>4
<1>6. CASE Descend
  <2>1. /\ pc = "gen" /\ UNCHANGED <<published, opt, pc, moved, locks, cur>>
        /\ Head(calls).todo = {}
        /\ Elements(calls) = {Head(calls)} \cup Elements(Tail(calls))
        /\ Elements(calls') = {Call(k, FALSE) : k \in Elements(Head(calls).kids)}
                                 \cup Elements(Tail(calls))
    BY <1>6, DescendFacts DEF world
  <2>2. ASSUME NEW e, Pending(e) PROVE Pending(e)'
    <3>1. PICK c \in Elements(calls) : \/ \E k \in Elements(c.kids) : e \in Entries(k)
                                       \/ \E n \in c.todo : e = c.deps[n]
      BY <2>1, <2>2 DEF Pending
    <3>2. CASE c \in Elements(Tail(calls))
      BY <2>1, <3>1, <3>2 DEF Pending
    <3>3. CASE c = Head(calls)
      <4>1. PICK k \in Elements(Head(calls).kids) : e \in Entries(k)
        BY <2>1, <3>1, <3>3
      <4>2. Call(k, FALSE) \in Elements(calls')
        BY <2>1
      <4>3. \E n \in Call(k, FALSE).todo : e = Call(k, FALSE).deps[n]
        BY <4>1 DEF Call, Entries
      <4> QED BY <4>2, <4>3 DEF Pending
    <3> QED BY <2>1, <3>2, <3>3
  <2> QED BY <2>1, <2>2, LockedStays DEF AllFollowed
<1>7. CASE Finish
  BY <1>7 DEF Finish, AllFollowed
<1>8. CASE End
  BY <1>8 DEF End, AllFollowed
<1>9. ASSUME NEW metadata \in Roots, EditToml(metadata) PROVE AllFollowed'
  <2>1. UNCHANGED <<published, opt, pc, moved, locks, calls, cur>>
    BY <1>9 DEF EditToml, gen
  <2>2. \A e : (IsLocked(e) => IsLocked(e)') /\ (Pending(e) => Pending(e)')
    BY <2>1, LockedStays, SrcSame DEF Pending
  <2> QED BY <2>1, <2>2 DEF AllFollowed
<1>10. ASSUME NEW project \in Project, NEW v, Publish(project, v) PROVE AllFollowed'
  BY <1>10 DEF Publish, AllFollowed
<1> QED
  BY <1>1, <1>2, <1>3, <1>4, <1>5, <1>6, <1>7, <1>8, <1>9, <1>10 DEF Next

\* When gen_locks returns nothing is to come, and what was recorded is locked.
LEMMA CompleteStep ==
  TypeInv /\ AllRecorded /\ AllFollowed /\ Complete /\ [Next]_vars => Complete'
<1> SUFFICES ASSUME TypeInv, AllRecorded, AllFollowed, Complete, [Next]_vars,
                    (pc = "done")', (~ moved)'
             PROVE  (\A l \in Elements(locks) : \A d \in l.dependencies :
                      \E m \in Elements(locks) :
                        /\ m.source = d.source
                        /\ m.properties =
                             Properties(Deps(l.source)[d.name], MetadataOf(d.source)))'
  BY DEF Complete, Settled
<1>1. CASE pc = "done" /\ ~ moved /\ UNCHANGED locks
  BY <1>1 DEF Complete, Settled
<1>2. CASE Finish
  <2>1. pc = "gen" /\ calls = <<>> /\ UNCHANGED <<locks, moved>>
    BY <1>2 DEF Finish, Table
  <2>2. \A e : ~ Pending(e)
    BY <2>1, NoElements DEF Pending
  <2> SUFFICES ASSUME NEW l \in Elements(locks), NEW d \in l.dependencies
               PROVE  \E m \in Elements(locks) :
                        /\ m.source = d.source
                        /\ m.properties =
                             Properties(Deps(l.source)[d.name], MetadataOf(d.source))
    BY <2>1
  <2> DEFINE e == Deps(l.source)[d.name]
  <2>3. d.name \in DOMAIN Deps(l.source) /\ Src(e) = {d.source}
    BY <2>1 DEF AllRecorded, Running, Recorded
  <2>4. e \in Entries(MetadataOf(l.source))
    BY <2>3 DEF Entries, Deps
  <2>5. IsLocked(e)
    BY <2>1, <2>2, <2>4 DEF AllFollowed, Running
  <2> QED BY <2>3, <2>5 DEF IsLocked
<1>3. CASE UNCHANGED vars
  BY <1>1, <1>3 DEF vars, gen
<1>4. ASSUME NEW project \in Project, NEW v, Publish(project, v)
      PROVE  pc = "done" /\ ~ moved /\ UNCHANGED locks
  BY <1>4 DEF Publish, gen
<1>5. ASSUME NEW metadata \in Roots, EditToml(metadata)
      PROVE  pc = "done" /\ ~ moved /\ UNCHANGED locks
  BY <1>5 DEF EditToml, gen
<1>6. ASSUME NEW name, Nested(name) PROVE FALSE
  BY <1>6 DEF Nested
<1>7. ASSUME Descend PROVE FALSE
  BY <1>7 DEF Descend
<1>8. ~ (\E force \in BOOLEAN : Start(force)) /\ ~ Seal /\ ~ End
  BY DEF Start, Seal, End
<1>9. ASSUME NEW name, Resolve(name) PROVE FALSE
  BY <1>9 DEF Resolve
<1> QED
  BY <1>1, <1>2, <1>3, <1>4, <1>5, <1>6, <1>7, <1>8, <1>9 DEF Next

\* Together they are inductive.
LEMMA GraphStep == NoOverrides /\ GraphInv /\ [Next]_vars => GraphInv'
BY TypeStep, PlainStep, RecordedStep, FollowedStep, CompleteStep DEF GraphInv

\* They hold at the start.
LEMMA GraphInit == Init => GraphInv
BY TypeInit, NoElements
DEF Init, GraphInv, AllPlain, AllRecorded, AllFollowed, Complete, Running, Settled

\* Analyzer::new finds every dependency of a lock by its source ("unwrap"),
\* in any graph of projects without path overrides, unless a release appeared
\* while gen_locks was at work.
THEOREM LookupSucceedsHolds == NoOverrides => (Spec => []LookupSucceeds)
<1> SUFFICES ASSUME NoOverrides PROVE Spec => []LookupSucceeds
  OBVIOUS
<1>1. GraphInv /\ [Next]_vars => GraphInv'
  BY GraphStep
<1>2. GraphInv => LookupSucceeds
  BY DEF GraphInv, Complete, LookupSucceeds
<1> QED
  BY <1>1, <1>2, GraphInit, PTL DEF Spec

\* A dependency is locked once with each set of properties it is used with
\* (Lock::uuid, src_table), under the same conditions.
THEOREM VariantsLockedHolds == NoOverrides => (Spec => []VariantsLocked)
<1> SUFFICES ASSUME NoOverrides PROVE Spec => []VariantsLocked
  OBVIOUS
<1>1. GraphInv /\ Unique /\ [Next]_vars => (GraphInv /\ Unique)'
  BY GraphStep, UniqueStep DEF GraphInv
<1>2. GraphInv /\ Unique => VariantsLocked
  <2> SUFFICES ASSUME GraphInv, Unique PROVE VariantsLocked
    OBVIOUS
  <2>1. Cardinality(Uuids(locks)) = Len(locks)
    BY UniqueCount DEF GraphInv, TypeInv, GenOK, IsTable
  <2> QED BY <2>1 DEF GraphInv, Complete, VariantsLocked, Deps
<1>3. Init => GraphInv /\ Unique
  BY GraphInit DEF Init, Unique
<1> QED
  BY <1>1, <1>2, <1>3, PTL DEF Spec

-------------------------------------------------------------------------------
(* Nothing is locked that is not needed *)

\* The dependency at hand is one of Veryl.toml's, or recorded in a lock.
LEMMA ParentStep ==
  NoOverrides /\ TypeInv /\ AllRecorded /\ Origin /\ Parent /\ [Next]_vars => Parent'
<1> SUFFICES ASSUME NoOverrides, TypeInv, AllRecorded, Origin, Parent, [Next]_vars
             PROVE  Parent'
  OBVIOUS
<1>1. CASE UNCHANGED vars
  BY <1>1 DEF vars, gen, Parent
<1>2. ASSUME NEW force \in BOOLEAN, Start(force) PROVE Parent'
  BY <1>2 DEF Start, Parent
<1>3. ASSUME NEW name, Resolve(name) PROVE Parent'
  <2>1. /\ pc = "gen" /\ pc' = "lock" /\ UNCHANGED <<locks, moved>>
        /\ name \in Head(calls).todo /\ Head(calls) \in Elements(calls)
    BY <1>3, ResolveFacts
  <2>2. Head(calls').root = Head(calls).root
    BY <1>3, ResolveFacts
  <2>3. CASE Head(calls).root
    BY <2>2, <2>3 DEF Parent
  <2>4. CASE ~ Head(calls).root /\ ~ moved
    <3>1. PICK p \in Elements(locks) : Head(calls).deps = Deps(p.source)
      BY <2>1, <2>4 DEF Origin, Running
    <3>2. Recorded(p.source, p.dependencies, {})
      BY <2>1, <2>4 DEF AllRecorded, Running
    <3>3. name \in DOMAIN Deps(p.source) /\ Src(Deps(p.source)[name]) = {cur'.source}
      BY <1>3, <3>1, ResolveSrc
    <3>4. PICK d \in p.dependencies : d.name = name
      BY <3>2, <3>3 DEF Recorded
    <3>5. Src(Deps(p.source)[name]) = {d.source}
      BY <3>2, <3>4 DEF Recorded
    <3>6. d.source = cur'.source
      BY <3>3, <3>5
    <3> QED BY <2>1, <3>4, <3>6 DEF Parent
  <2> QED BY <2>1, <2>3, <2>4 DEF Parent
<1>4. ASSUME NEW name, Nested(name) PROVE Parent'
  <2>1. cur'.source = cur.source /\ UNCHANGED <<pc, moved, locks, calls>>
    BY <1>4, NestedFacts
  <2> QED BY <2>1 DEF Parent
<1>5. CASE Seal
  BY <1>5 DEF Seal, Parent
<1>6. CASE Descend
  BY <1>6 DEF Descend, Parent
<1>7. CASE Finish
  BY <1>7 DEF Finish, Parent
<1>8. CASE End
  BY <1>8 DEF End, Parent
<1>9. ASSUME NEW metadata \in Roots, EditToml(metadata) PROVE Parent'
  BY <1>9 DEF EditToml, gen, Parent
<1>10. ASSUME NEW project \in Project, NEW v, Publish(project, v) PROVE Parent'
  BY <1>10 DEF Publish, gen, Parent
<1> QED
  BY <1>1, <1>2, <1>3, <1>4, <1>5, <1>6, <1>7, <1>8, <1>9, <1>10 DEF Next

\* A lock that is added is visible, or reached from one that is there.
LEMMA ReachedStep == TypeInv /\ Parent /\ Reached /\ [Next]_vars => Reached'
<1> SUFFICES ASSUME TypeInv, Parent, Reached, [Next]_vars, (pc # "idle" /\ ~ moved)'
             PROVE  \A S : Closed(S)' => \A l \in Elements(locks') : l.source \in S
  BY DEF Reached
<1> DEFINE Goal == \A S : Closed(S)' => \A l \in Elements(locks') : l.source \in S
<1>1. ASSUME pc # "idle", ~ moved, UNCHANGED locks PROVE Goal
  BY <1>1 DEF Reached, Closed
<1>2. ASSUME locks' = <<>> PROVE Goal
  BY <1>2, NoElements
<1>3. CASE Seal
  <2>1. /\ pc = "lock" /\ ~ moved /\ (UNCHANGED locks \/ locks' = Append(locks, NewLock))
    BY <1>3, SealFacts
  <2>2. CASE UNCHANGED locks
    BY <1>1, <2>1, <2>2
  <2>3. CASE locks' = Append(locks, NewLock)
    <3>1. Elements(locks') = Elements(locks) \cup {NewLock}
      BY <2>3, AppendSeq DEF TypeInv, GenOK, IsTable
    <3> SUFFICES ASSUME NEW S, Closed(S)' PROVE \A l \in Elements(locks') : l.source \in S
      OBVIOUS
    <3>2. Closed(S)
      BY <3>1 DEF Closed
    <3>3. \A l \in Elements(locks) : l.source \in S
      BY <2>1, <3>2 DEF Reached
    <3>4. NewLock.source = cur.source /\ NewLock.visible = Head(calls).root
      BY DEF NewLock
    <3>5. NewLock.source \in S
      <4>1. CASE Head(calls).root
        <5>1. NewLock \in Elements(locks') /\ NewLock.visible
          BY <3>1, <3>4, <4>1
        <5> QED BY <5>1 DEF Closed
      <4>2. CASE ~ Head(calls).root
        <5>1. PICK p \in Elements(locks) : \E d \in p.dependencies : d.source = cur.source
          BY <2>1, <4>2 DEF Parent
        <5> QED BY <3>2, <3>3, <3>4, <5>1 DEF Closed
      <4> QED BY <4>1, <4>2
    <3> QED BY <3>1, <3>3, <3>5
  <2> QED BY <2>1, <2>2, <2>3
<1>4. CASE UNCHANGED vars
  BY <1>1, <1>4 DEF vars, gen
<1>5. ASSUME NEW force \in BOOLEAN, Start(force) PROVE Goal
  BY <1>2, <1>5 DEF Start
<1>6. ASSUME NEW name, Resolve(name) PROVE Goal
  BY <1>1, <1>6 DEF Resolve
<1>7. ASSUME NEW name, Nested(name) PROVE Goal
  BY <1>1, <1>7 DEF Nested
<1>8. CASE Descend
  BY <1>1, <1>8 DEF Descend
<1>9. CASE Finish
  BY <1>1, <1>9 DEF Finish, Table
<1>10. CASE End
  BY <1>10 DEF End
<1>11. ASSUME NEW metadata \in Roots, EditToml(metadata) PROVE Goal
  BY <1>1, <1>11 DEF EditToml, gen
<1>12. ASSUME NEW project \in Project, NEW v, Publish(project, v) PROVE Goal
  BY <1>1, <1>12 DEF Publish, gen
<1> QED
  BY <1>3, <1>4, <1>5, <1>6, <1>7, <1>8, <1>9, <1>10, <1>11, <1>12 DEF Next

\* What nothing needs any more is not kept (update rebuilds the lock table):
\* every lock is reached from Veryl.toml along the recorded dependencies.
THEOREM NoOrphansHolds == NoOverrides => (Spec => []NoOrphans)
<1> SUFFICES ASSUME NoOverrides PROVE Spec => []NoOrphans
  OBVIOUS
<1>1. OrphanInv /\ [Next]_vars => OrphanInv'
  BY GraphStep, OriginStep, ReachedStep, ParentStep DEF OrphanInv, GraphInv
<1>2. OrphanInv => NoOrphans
  <2> DEFINE sources == {l.source : l \in Elements(locks)}
  <2> SUFFICES ASSUME OrphanInv, Settled, NEW S \in SUBSET sources, Closed(S)
               PROVE  S = sources
    BY DEF NoOrphans, Closed
  <2>1. \A l \in Elements(locks) : l.source \in S
    BY DEF OrphanInv, Reached, Settled
  <2> QED BY <2>1
<1>3. Init => OrphanInv
  BY GraphInit DEF Init, OrphanInv, Origin, Reached, Parent, Running
<1> QED
  BY <1>1, <1>2, <1>3, PTL DEF Spec

===============================================================================
