-------------------------------- MODULE Lockfile --------------------------------
(***************************************************************************)
(* Veryl.lock: Lockfile::new, load, update and save as the commands run    *)
(* them, one at a time, while Veryl.toml is edited and its dependencies    *)
(* publish.                                                                *)
(*                                                                         *)
(* gen_locks walks the dependencies breadth first, a call per manifest.    *)
(* Each dependency is resolved and its manifest read (Resolve), its own    *)
(* dependencies are resolved for the record (Nested), it is locked unless  *)
(* the same source is locked already (Seal), and when a manifest is done   *)
(* the manifests it led to follow (Descend).  Every resolution may ask the *)
(* remote, which may have published since the one before.                  *)
(*                                                                         *)
(* A repository holds one project; a release is its version.  A name is a  *)
(* sequence, as the suffix of a conflict is appended to it; a property     *)
(* value is a pair of its type and itself.                                 *)
(***************************************************************************)
EXTENDS Naturals, Sequences, FiniteSets

CONSTANTS
  Project,
  Published,  \* Published[p][v]: the manifest of release v of project p
  Local,      \* the manifests of the projects at local paths
  Roots,      \* the contents Veryl.toml may have
  MaxSuffix,  \* the largest suffix tried for a name
  None

Manifests ==
  Roots \cup {Local[p] : p \in DOMAIN Local}
        \cup UNION {{Published[p][v] : v \in DOMAIN Published[p]} : p \in Project}

\* Versions start at 1: a source at a path has version 0.
ASSUME LockfileAssumption ==
  /\ DOMAIN Local \subseteq Project
  /\ \A p \in Project : DOMAIN Published[p] \subseteq Nat \ {0}
  /\ MaxSuffix \in Nat
  /\ \A m \in Manifests : \A n \in DOMAIN m.dependencies :
       m.dependencies[n].kind = "git" =>
         /\ m.dependencies[n].project \in Project
         /\ m.dependencies[n].req \subseteq Nat \ {0}

VARIABLES
  published,  \* the versions the remote lists in Veryl.pub
  toml,       \* Veryl.toml
  disk,       \* the locks in Veryl.lock, None if there is no file
  pc,         \* "idle", "gen", "lock" (at a dependency) or "done"
  opt,        \* its Metadata, force_update and the locks it loaded
  calls,      \* the calls of gen_locks to come, the current one first
  cur,        \* the dependency the current call works at
  names,      \* name_table
  locks,      \* the locks so far; src_table holds their identities
  moved       \* a release appeared since the command began

world == <<published, toml, disk>>
gen == <<calls, cur, names, locks>>
vars == <<world, pc, opt, gen, moved>>

-------------------------------------------------------------------------------
(* Locks *)

Source(kind, project, version, override) ==
  [kind |-> kind, project |-> project, version |-> version,
   override |-> override]

Elements(s) == {s[i] : i \in DOMAIN s}

\* Mutation of Uuid: the version is not part of the identity.
UuidWithoutVersion(lock) ==
  <<lock.source.kind, lock.source.project, lock.properties>>

\* Mutation of Uuid: the properties are not part of the identity.
UuidWithoutProperties(lock) ==
  <<lock.source.kind, lock.source.project, lock.source.version>>

\* Lock::uuid: the path override is not part of the identity.
Uuid(lock) ==
  <<lock.source.kind, lock.source.project, lock.source.version,
    lock.properties>>

Uuids(table) == {Uuid(l) : l \in Elements(table)}

\* get_metadata: the manifest of a source.  A path that does not exist stops
\* a path dependency, and lets an overridden one fall back to the release.
IsLocal(source) ==
  \/ source.kind = "path"
  \/ source.override /\ source.project \in DOMAIN Local

MetadataOf(source) ==
  IF IsLocal(source) THEN Local[source.project]
                     ELSE Published[source.project][source.version]

-------------------------------------------------------------------------------
(* Resolution *)

\* resolve_version_from_lockfile: the locked versions that fit.
FromLockfile(entry) ==
  {l.source.version : l \in {l \in Elements(opt.old) :
      /\ l.source.kind = "git"
      /\ l.source.project = entry.project
      /\ l.source.version \in entry.req}}

\* resolve_version_from_latest: the published versions that fit.
FromLatest(entry) == published[entry.project] \cap entry.req

\* Both candidates are tried from the newest on.
Newest(versions) == {v \in versions : \A w \in versions : w <= v}

\* Mutation of Versions: what is locked is looked at only if nothing newer is
\* published.
VersionsEager(entry) ==
  Newest(FromLockfile(entry) \cup FromLatest(entry))

\* resolve_version: no version if the dependency cannot be resolved.
Versions(entry) ==
  Newest(IF FromLockfile(entry) # {} /\ ~ opt.force
         THEN FromLockfile(entry) ELSE FromLatest(entry))

\* resolve_dependency: the possible sources, none if the entry is in error.
ResolveDependency(entry, root) ==
  CASE entry.kind = "git" ->
         {Source("git", entry.project, v, root /\ entry.override) :
            v \in Versions(entry)}
    [] entry.kind = "path" /\ entry.project \in DOMAIN Local ->
         {Source("path", entry.project, 0, FALSE)}
    [] OTHER -> {}

\* The manifest's properties, those the entry gives in their place; an entry
\* that gives an unknown one or one of another type is in error.
KnownProperties(entry, metadata) ==
  \A n \in DOMAIN entry.properties :
    /\ n \in DOMAIN metadata.properties
    /\ metadata.properties[n][1] = entry.properties[n][1]
Properties(entry, metadata) ==
  [n \in DOMAIN metadata.properties |->
     IF n \in DOMAIN entry.properties THEN entry.properties[n]
                                      ELSE metadata.properties[n]]

\* Mutation of LockName: one suffix is tried.
LockNameOnce(name) ==
  IF name \notin names THEN {name} ELSE {Append(name, 0)}

\* "avoid name conflict by adding suffix": the first that is free.
LockName(name) ==
  IF name \notin names THEN {name}
  ELSE {Append(name, k) : k \in {k \in 0..MaxSuffix :
          /\ Append(name, k) \notin names
          /\ \A j \in 0..k : j < k => Append(name, j) \in names}}

-------------------------------------------------------------------------------
(* Commands *)

Call(metadata, root) ==
  [deps |-> metadata.dependencies, todo |-> DOMAIN metadata.dependencies,
   root |-> root, kids |-> <<>>]

Init ==
  /\ published = [p \in Project |-> DOMAIN Published[p] \cap {1}]
  /\ toml \in Roots
  /\ disk = None
  /\ pc = "idle"
  /\ opt = None
  /\ calls = <<>> /\ cur = None /\ names = {} /\ locks = <<>>
  /\ moved = FALSE

\* update_lockfile and veryl update: Veryl.lock is read if there is one.
Start(force) ==
  /\ pc = "idle"
  /\ pc' = "gen"
  /\ opt' = [metadata |-> toml, force |-> force, isNew |-> disk = None,
             old |-> IF disk = None THEN <<>> ELSE disk]
  /\ calls' = <<Call(toml, TRUE)>>
  /\ cur' = None /\ names' = {} /\ locks' = <<>>
  /\ moved' = FALSE
  /\ UNCHANGED world

\* A dependency of the current manifest, in the order of a hash table, is
\* resolved, its manifest is read and its name is chosen.
Resolve(name) ==
  LET call == Head(calls)
      entry == call.deps[name]
  IN  /\ pc = "gen" /\ calls # <<>>
      /\ name \in call.todo
      /\ \E source \in ResolveDependency(entry, call.root),
            lockName \in LockName(name) :
           /\ KnownProperties(entry, MetadataOf(source))
           /\ call.root => lockName = name
           /\ pc' = "lock"
           /\ calls' = [calls EXCEPT ![1].todo = @ \ {name}]
           /\ names' = names \cup {lockName}
           /\ cur' = [name |-> lockName, source |-> source,
                      properties |-> Properties(entry, MetadataOf(source)),
                      todo |-> DOMAIN MetadataOf(source).dependencies,
                      dependencies |-> {}]
      /\ UNCHANGED <<world, opt, locks, moved>>

\* A dependency of the dependency, recorded with the source it resolves to.
Nested(name) ==
  LET entry == MetadataOf(cur.source).dependencies[name]
  IN  /\ pc = "lock"
      /\ name \in cur.todo
      /\ \E source \in ResolveDependency(entry, Head(calls).root) :
           cur' = [cur EXCEPT
             !.todo = @ \ {name},
             !.dependencies = @ \cup {[name |-> name, source |-> source]}]
      /\ UNCHANGED <<world, pc, opt, calls, names, locks, moved>>

\* The dependency is locked, unless the same one is; in the root that is an
\* error.
Seal ==
  LET lock == [name |-> cur.name, source |-> cur.source,
               properties |-> cur.properties,
               dependencies |-> cur.dependencies,
               visible |-> Head(calls).root]
      known == Uuid(lock) \in Uuids(locks)
  IN  /\ pc = "lock"
      /\ cur.todo = {}
      /\ known => ~ Head(calls).root
      /\ pc' = "gen"
      /\ cur' = None
      /\ locks' = IF known THEN locks ELSE Append(locks, lock)
      /\ calls' = IF known THEN calls
                  ELSE [calls EXCEPT
                          ![1].kids = Append(@, MetadataOf(lock.source))]
      /\ UNCHANGED <<world, opt, names, moved>>

\* The manifest is done: those of its new dependencies follow.
Descend ==
  LET call == Head(calls)
  IN  /\ pc = "gen" /\ calls # <<>>
      /\ call.todo = {}
      /\ calls' = [i \in DOMAIN call.kids |-> Call(call.kids[i], FALSE)]
                    \o Tail(calls)
      /\ UNCHANGED <<world, pc, opt, cur, names, locks, moved>>

\* Mutation of Modified: any change of a lock counts.
ModifiedByContent(old, table) == Elements(old) # Elements(table)

\* update: whether a lock was added or removed.
Modified(old, table) == Uuids(old) # Uuids(table)

\* Mutation of Table: the locks of the old table stay.
TableKept ==
  locks \o SelectSeq(opt.old, LAMBDA l : Uuid(l) \notin Uuids(locks))

\* The lock table of the new Lockfile.
Table == locks

\* gen_locks returns; Veryl.lock is written, atomically, if need be.
Finish ==
  /\ pc = "gen" /\ calls = <<>>
  /\ pc' = "done"
  /\ locks' = Table
  /\ disk' = IF opt.isNew \/ Modified(opt.old, Table) THEN Table ELSE disk
  /\ UNCHANGED <<published, toml, opt, calls, cur, names, moved>>

\* The command has used its Lockfile and ends; or an error is returned, a
\* fetch fails or the process is killed, with nothing written.
End ==
  /\ pc # "idle"
  /\ pc' = "idle"
  /\ opt' = None
  /\ calls' = <<>> /\ cur' = None /\ names' = {} /\ locks' = <<>>
  /\ moved' = FALSE
  /\ UNCHANGED world

-------------------------------------------------------------------------------
(* The world around them *)

\* The user edits Veryl.toml.
EditToml(metadata) ==
  /\ metadata # toml
  /\ toml' = metadata
  /\ UNCHANGED <<published, disk, pc, opt, gen, moved>>

\* A project publishes its next release.
Publish(project, v) ==
  /\ v \in DOMAIN Published[project]
  /\ published[project] = {w \in DOMAIN Published[project] : w < v}
  /\ published' = [published EXCEPT ![project] = @ \cup {v}]
  /\ moved' = (pc \in {"gen", "lock"} \/ moved)
  /\ UNCHANGED <<toml, disk, pc, opt, gen>>

Next ==
  \/ \E force \in BOOLEAN : Start(force)
  \/ \E name \in UNION {c.todo : c \in Elements(calls)} : Resolve(name)
  \/ pc = "lock" /\ (Seal \/ \E name \in cur.todo : Nested(name))
  \/ Descend
  \/ Finish
  \/ End
  \/ \E metadata \in Roots : EditToml(metadata)
  \/ \E project \in Project, v \in UNION {DOMAIN Published[q] : q \in Project} :
       Publish(project, v)

Spec == Init /\ [][Next]_vars

-------------------------------------------------------------------------------
(* Properties *)

\* A finished command, whose dependencies nobody published meanwhile.
Settled == pc = "done" /\ ~ moved

\* Analyzer::new looks every dependency of a lock up by its source, "unwrap":
\* it is locked, over shared dependencies and cycles walked in any order, unless
\* a release appeared while the dependencies were being resolved.  (Not so, if
\* the root overrides by a path what another of its dependencies uses as well.)
LookupSucceeds ==
  Settled => \A l \in Elements(locks) : \A d \in l.dependencies :
               \E m \in Elements(locks) : m.source = d.source

\* A dependency that is used with different properties is locked once with
\* each of them, and only once.
VariantsLocked ==
  Settled =>
    /\ Cardinality(Uuids(locks)) = Len(locks)
    /\ \A l \in Elements(locks) : \A d \in l.dependencies :
         LET entry == MetadataOf(l.source).dependencies[d.name]
         IN  \E m \in Elements(locks) :
               /\ m.source = d.source
               /\ m.properties = Properties(entry, MetadataOf(d.source))

\* Every project in the lock table has a name of its own, and "root has top
\* priority of name": what Veryl.toml names keeps that name, whatever the
\* dependencies call theirs.
NamesDistinct ==
  /\ \A i, j \in DOMAIN locks : locks[i].name = locks[j].name => i = j
  /\ pc = "done" =>
       {l.name : l \in {l \in Elements(locks) : l.visible}}
         = DOMAIN opt.metadata.dependencies

\* What nothing needs any more is not kept: every lock is reached from those
\* of Veryl.toml along the dependencies.
NoOrphans ==
  Settled =>
    LET sources == {l.source : l \in Elements(locks)}
        Closed(S) == \A l \in Elements(locks) :
                       /\ l.visible => l.source \in S
                       /\ l.source \in S =>
                            \A d \in l.dependencies : d.source \in S
    IN  \A S \in SUBSET sources : Closed(S) => S = sources

\* A build without force_update takes a release that is not in Veryl.lock only
\* for a requirement that none of the locked ones meets, whatever has been
\* published since.
LocksRespected ==
  pc = "done" /\ ~ opt.force =>
    LET wanted == UNION {{m.dependencies[n] : n \in DOMAIN m.dependencies} :
                    m \in {opt.metadata} \cup
                          {MetadataOf(l.source) : l \in Elements(locks)}}
        InOld(project) == {l.source.version : l \in
                    {l \in Elements(opt.old) : l.source.project = project}}
    IN  \A l \in Elements(locks) :
          \/ l.source.version \in InOld(l.source.project)
          \/ \E e \in wanted :
               /\ e.project = l.source.project
               /\ e.kind = "git" => /\ l.source.version \in e.req
                                    /\ InOld(e.project) \cap e.req = {}

\* Veryl.lock does not flap: once Veryl.toml is left alone, builds and updates
\* come to agree on it, though each walks the dependencies in an order of its
\* own.
Converges == <>[][toml' = toml]_vars => <>[][disk' = disk]_vars

===============================================================================
