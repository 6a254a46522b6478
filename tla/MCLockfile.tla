------------------------------- MODULE MCLockfile -------------------------------
(* A small world of projects: a and c use b, c uses a and a uses c (a cycle), *)
(* and the releases of a ask for different releases of b.                     *)
EXTENDS Lockfile, TLC

Empty == [x \in {} |-> x]
Wide(w) == "wide" :> <<"bool", w>>

Git(project, req) ==
  [kind |-> "git", project |-> project, req |-> req, override |-> FALSE,
   properties |-> Empty]
Path(project) == [Git(project, {}) EXCEPT !.kind = "path"]
Wider(entry) == [entry EXCEPT !.properties = Wide(TRUE)]
Overridden(entry) == [entry EXCEPT !.override = TRUE]
Invalid == [Git("b", {}) EXCEPT !.kind = "version"]

Manifest(dependencies) ==
  [dependencies |-> dependencies, properties |-> Wide(FALSE)]

MCProject == {"a", "b", "c", "d"}

MCPublished ==
  [p \in MCProject |->
     CASE p = "a" -> << Manifest(<<"b">> :> Git("b", {1, 2})),
                        Manifest((<<"b">> :> Git("b", {2}))
                              @@ (<<"c">> :> Git("c", {1}))) >>
       [] p = "b" -> << Manifest(Empty), Manifest(Empty) >>
       [] p = "c" -> << Manifest((<<"b">> :> Wider(Git("b", {1})))
                              @@ (<<"a">> :> Git("a", {1, 2}))) >>
       [] p = "d" -> << >>]

MCLocal == ("b" :> Manifest(Empty)) @@ ("d" :> Manifest(<<"b">> :> Git("b", {2})))

\* Veryl.toml: an overridden dependency; a shared one; a cycle beside a name
\* that looks like a suffix; an entry without a source.
MCRoots ==
  { Manifest(<<"b">> :> Overridden(Git("b", {1, 2}))),
    Manifest((<<"b">> :> Git("b", {1, 2})) @@ (<<"a">> :> Git("a", {1, 2}))),
    Manifest((<<"b", 0>> :> Path("d")) @@ (<<"c">> :> Git("c", {1}))),
    Manifest((<<"b">> :> Invalid) @@ (<<"a">> :> Git("a", {2}))) }

\* The root overrides a dependency that another of its dependencies shares.
OverrideRoots ==
  { Manifest((<<"b">> :> Overridden(Git("b", {1, 2})))
          @@ (<<"a">> :> Git("a", {1, 2}))) }

\* "Lock names are conflict-disambiguated during lock generation, so they are
\* stable ids" (metadata_output.rs): a project keeps the name it is locked by.
StableNames ==
  pc = "done" /\ disk # None =>
    \A l \in Elements(locks), m \in Elements(disk) :
      Uuid(l) = Uuid(m) => l.name = m.name
===============================================================================
