--------------------------- MODULE MCLanguageServer ---------------------------
(* Instances of LanguageServer for TLC. *)
EXTENDS LanguageServer, TLC

CONSTANTS a, b, c, lib, r1, r2

TwoKinds == r1 :> "hover" @@ r2 :> "completion"

\* Two files to open, edit and rename; one file and a dependency; one file and
\* questions about it.
Sessions == {[files |-> {a, b}, requests |-> {}],
             [files |-> {a, lib}, requests |-> {}],
             [files |-> {a}, requests |-> {r1, r2}]}
Questions == {[files |-> {a}, requests |-> {r1, r2}]}
Silence == {[files |-> {a, b}, requests |-> {}]}
===============================================================================
