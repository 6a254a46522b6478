---------------------------- MODULE LanguageServer ----------------------------
(***************************************************************************)
(* veryl-ls.  The editor's messages are handled by async tasks of the      *)
(* Backend (backend.rs), several at a time; each puts a message into the   *)
(* channel to the one Server thread (server.rs), and those that are asked  *)
(* something wait for an answer on a channel they all share.  Whenever no  *)
(* message is waiting the Server goes on with its background analysis of   *)
(* the project, one file at a time.                                        *)
(*                                                                         *)
(* A text is its number; a path has at most one text on disk and one in    *)
(* an editor buffer.  `tables' stands for the symbol table, the scopes and *)
(* the other analyzer tables: per file, the text whose pass1 results they  *)
(* hold.  The fragment store of the background analysis is CacheStore: a   *)
(* restored file is one analysed from the same text.                       *)
(***************************************************************************)
EXTENDS Naturals, Sequences, FiniteSets

CONSTANTS
  File,             \* paths of sources of the project and its dependencies
  Cached,           \* those under the cache directory: read-only dependencies
  MaxText,          \* texts are 1..MaxText; every file has text 1 at first
  Unparsable,       \* texts with a syntax error
  Request,          \* what the editor may ask, each at most once
  KindOf,           \* hover, completion, ...: the type of its answer
  MaxRequests,      \* requests in flight; tower-lsp-server handles 4 at once
  MaxNotifications, \* notifications in flight
  MaxTasks,         \* bounds background_tasks
  MaxFailures,      \* how often a project may fail to load
  Start,            \* [files, requests]: the files there are at first, and what
                    \* of Request the editor will ask
  Habit,            \* what the user does that the server copes badly with
  None

Text == 1..MaxText

ASSUME LanguageServerAssumption ==
  /\ Cached \subseteq File
  /\ Start \subseteq [files: SUBSET File, requests: SUBSET Request]
  /\ MaxText \in Nat \ {0}
  /\ Unparsable \subseteq Text
  /\ Request = DOMAIN KindOf
  /\ MaxRequests \in Nat /\ MaxNotifications \in Nat /\ MaxTasks \in Nat
  /\ MaxFailures \in Nat
  /\ Habit \subseteq {"switches", "moves_early", "moves_edited", "reuses_paths",
                      "asks_early", "cancels_any", "discards"}
  /\ None \notin Text \cup File \cup Request \cup (File \X (File \cup {None}))
  /\ None \notin [file: File, text: Text]

VARIABLES
  disk,           \* the text of each file on disk
  buffer,         \* its text in the editor, None if it is not open
  moving,         \* the file being renamed or deleted, and its new path
  handlers,       \* notifications whose handlers have not sent them yet
  handler,        \* what the handler of each request is doing
  reply,          \* what it has returned to the editor
  toServer,       \* Backend.snd to Server.rcv
  fromServer,     \* Server.snd to Backend.rcv
  document,       \* Server.document_map
  tables,         \* the analyzer's tables
  published,      \* the diagnostics last published for each file
  tasks,          \* Server.background_tasks: the paths left of each
  backgroundDone, \* Server.background_done
  latest,         \* Server.latest_change
  known,          \* the keys of Server.metadata_map
  failures        \* how often the metadata or the paths did not load

editor  == <<disk, buffer, moving>>
backend == <<handlers, handler, reply, fromServer>>
server  == <<document, tables, published, tasks, backgroundDone, latest,
             known, failures>>
vars == <<editor, backend, toServer, server>>

-------------------------------------------------------------------------------

Option(S) == S \cup {None}

Notification == [kind: {"open", "change"}, file: File, text: Text]
                  \cup [kind: {"remove", "did_rename"}, file: File]
Question == [kind: {"request"}, file: File, text: Text, request: Request]
\* An answer; fresh: computed from the text the editor had when it asked.
Answer == [request: Request, fresh: BOOLEAN]

TypeOK ==
  /\ disk \in [File -> Option(Text)]
  /\ buffer \in [File -> Option(Text)]
  /\ moving \in Option(File \X Option(File))
  /\ handlers \in SUBSET Notification
  /\ handler \in [Request -> {"none", "waiting", "returned", "cancelled"}]
  /\ reply \in [Request -> Option(Answer)]
  /\ toServer \in Seq(Notification \cup Question)
  /\ fromServer \in Seq(Answer)
  /\ document \in [File -> Option(Text)]
  /\ tables \in [File -> Option(Text)]
  /\ published \in [File -> Option([text: Text, whole: BOOLEAN])]
  /\ tasks \in Seq(SUBSET File)
  /\ backgroundDone \in BOOLEAN
  /\ latest \in Option([file: File, text: Text])
  /\ known \subseteq File
  /\ failures \in 0..MaxFailures

Init ==
  /\ \E s \in Start :
       /\ disk = [f \in File |-> IF f \in s.files THEN 1 ELSE None]
       /\ handler = [r \in Request |-> IF r \in s.requests THEN "none"
                                                           ELSE "cancelled"]
  /\ buffer = [f \in File |-> None]
  /\ moving = None
  /\ handlers = {}
  /\ reply = [r \in Request |-> None]
  /\ toServer = <<>>
  /\ fromServer = <<>>
  /\ document = [f \in File |-> None]
  /\ tables = [f \in File |-> None]
  /\ published = [f \in File |-> None]
  /\ tasks = <<>>
  /\ backgroundDone = TRUE
  /\ latest = None
  /\ known = {}
  /\ failures = 0

-------------------------------------------------------------------------------
(* Server: analysis *)

\* Mutation of Parsed: a file that does not parse is taken for an empty one.
ParsedAsEmpty(t) == IF t \in Unparsable THEN 0 ELSE t

\* A file that does not parse leaves nothing in the tables.
Parsed(t) == IF t \in Unparsable THEN None ELSE t

\* The text the user means by a path.
TextOf(f) == IF buffer[f] # None /\ f \notin Cached THEN buffer[f] ELSE disk[f]

\* No identifier is undefined for want of a file.
Complete(t) ==
  \A f \in File : TextOf(f) # None /\ Parsed(TextOf(f)) # None => t[f] # None

\* Mutation of OnChange: a syntax error leaves the previous analysis in place.
OnChangeKeepsOld(t, f, text, done) ==
  IF f \in Cached
  THEN tables' = t /\ UNCHANGED <<document, published>>
  ELSE LET after == [t EXCEPT ![f] = IF text \in Unparsable THEN @ ELSE text]
       IN  /\ tables' = after
           /\ document' = [document EXCEPT ![f] = text]
           /\ published' = [published EXCEPT ![f] =
                [text |-> text,
                 whole |-> text \in Unparsable \/ (done /\ Complete(after))]]

\* on_change, on tables t.  Until the background analysis is done, errors that
\* an unresolved identifier may cause are left out; a syntax error is all that
\* is reported of a file that does not parse.
OnChange(t, f, text, done) ==
  IF f \in Cached
  THEN tables' = t /\ UNCHANGED <<document, published>>
  ELSE LET after == [t EXCEPT ![f] = Parsed(text)]
       IN  /\ tables' = after
           /\ document' = [document EXCEPT ![f] = text]
           /\ published' = [published EXCEPT ![f] =
                [text |-> text,
                 whole |-> text \in Unparsable \/ (done /\ Complete(after))]]

\* on_change for a file whose project does not load: its text is kept, nothing
\* is analysed or published.
OnChangeUnloaded(t, f, text) ==
  /\ tables' = t
  /\ document' = IF f \in Cached THEN document ELSE [document EXCEPT ![f] = text]
  /\ UNCHANGED published

\* Reading Veryl.toml, or the lockfile and the dependencies, fails.
Fail == failures < MaxFailures /\ failures' = failures + 1

\* get_metadata: what was loaded for a path is kept.
Load(f) == known' = known \cup {f}
LoadFails(f) == f \notin known /\ Fail /\ UNCHANGED known

\* metadata.paths: the files there are when a task is made.
Paths == {f \in File : disk[f] # None}

Received(kind) ==
  /\ toServer # <<>>
  /\ Head(toServer).kind = kind
  /\ toServer' = Tail(toServer)

\* Mutation of ServeDidOpen: background_done stays cleared without paths.
ServeDidOpenStuck ==
  LET m == Head(toServer)
  IN  /\ Received("open")
      /\ latest' = [file |-> m.file, text |-> m.text]
      /\ \/ /\ Load(m.file)
            /\ OnChange(tables, m.file, m.text, FALSE)
            /\ \/ /\ m.file \in Cached
                  /\ backgroundDone' = TRUE
                  /\ UNCHANGED <<tasks, failures>>
               \/ /\ m.file \notin Cached
                  /\ backgroundDone' = FALSE
                  /\ tasks' = Append(tasks, Paths)
                  /\ UNCHANGED failures
               \/ /\ m.file \notin Cached
                  /\ backgroundDone' = FALSE
                  /\ Fail
                  /\ UNCHANGED tasks
         \/ /\ LoadFails(m.file)
            /\ OnChangeUnloaded(tables, m.file, m.text)
            /\ UNCHANGED <<tasks, backgroundDone>>
      /\ UNCHANGED <<editor, backend>>

\* did_open.  A file under the cache directory starts no background analysis,
\* nor does one whose project has no paths to offer; background_done, cleared
\* for on_change, is set again.  (A url that is no path has failed to load.)
ServeDidOpen ==
  LET m == Head(toServer)
  IN  /\ Received("open")
      /\ latest' = [file |-> m.file, text |-> m.text]
      /\ \/ /\ Load(m.file)
            /\ OnChange(tables, m.file, m.text, FALSE)
            /\ \/ /\ m.file \in Cached
                  /\ backgroundDone' = TRUE
                  /\ UNCHANGED <<tasks, failures>>
               \/ /\ m.file \notin Cached
                  /\ backgroundDone' = FALSE
                  /\ tasks' = Append(tasks, Paths)
                  /\ UNCHANGED failures
               \/ /\ m.file \notin Cached
                  /\ backgroundDone' = TRUE
                  /\ Fail
                  /\ UNCHANGED tasks
         \/ /\ LoadFails(m.file)
            /\ OnChangeUnloaded(tables, m.file, m.text)
            /\ UNCHANGED <<tasks, backgroundDone>>
      /\ UNCHANGED <<editor, backend>>

\* did_change, on tables t, when background_done is done.
Change(t, f, text, done) ==
  \/ Load(f) /\ OnChange(t, f, text, done) /\ UNCHANGED failures
  \/ LoadFails(f) /\ OnChangeUnloaded(t, f, text)

\* Mutation of ServeDidChange: the change is not kept for the replay.
ServeDidChangeForgotten ==
  LET m == Head(toServer)
  IN  /\ Received("change")
      /\ Change(tables, m.file, m.text, backgroundDone)
      /\ UNCHANGED <<editor, backend, backgroundDone, tasks, latest>>

ServeDidChange ==
  LET m == Head(toServer)
  IN  /\ Received("change")
      /\ Change(tables, m.file, m.text, backgroundDone)
      /\ latest' = [file |-> m.file, text |-> m.text]
      /\ UNCHANGED <<editor, backend, backgroundDone, tasks>>

\* Mutation of ServeOnRemove: nothing is dropped.
ServeOnRemoveNothing ==
  /\ Received("remove")
  /\ UNCHANGED <<editor, backend, server>>

\* on_remove, for will_rename_files and will_delete_files: the tables forget
\* the file, document_map and latest_change do not.
ServeOnRemove ==
  LET m == Head(toServer)
  IN  /\ Received("remove")
      /\ tables' = [tables EXCEPT ![m.file] = None]
      /\ UNCHANGED <<editor, backend, document, published, tasks,
                     backgroundDone, latest, known, failures>>

\* did_rename_files: no new task while there is a pending analysis, nor if the
\* project does not load.
ServeDidRename ==
  LET m == Head(toServer)
  IN  /\ Received("did_rename")
      /\ \/ /\ ~ backgroundDone
            /\ UNCHANGED <<backgroundDone, tasks, known, failures>>
         \/ /\ backgroundDone
            /\ Load(m.file)
            /\ backgroundDone' = FALSE
            /\ tasks' = Append(tasks, Paths)
            /\ UNCHANGED failures
         \/ /\ backgroundDone
            /\ \/ Load(m.file) /\ Fail
               \/ LoadFails(m.file)
            /\ UNCHANGED <<backgroundDone, tasks>>
      /\ UNCHANGED <<editor, backend, document, tables, published, latest>>

\* completion, hover, ...: one answer, from the text the server has.  Some kinds
\* load the project if it is not; if that fails, the answer is empty.
ServeRequest ==
  LET m == Head(toServer)
  IN  /\ Received("request")
      /\ fromServer' = Append(fromServer,
           [request |-> m.request, fresh |-> document[m.file] = m.text])
      /\ Load(m.file) \/ UNCHANGED known
      /\ UNCHANGED <<editor, handlers, handler, reply, document, tables, published,
                     tasks, backgroundDone, latest, failures>>

Serve == \/ ServeDidOpen \/ ServeDidChange \/ ServeOnRemove \/ ServeDidRename
         \/ ServeRequest

\* background_analyze, if f is one of the task's paths: open files are skipped,
\* and so is a file that cannot be read.
Scanned(f) ==
  IF f \in Head(tasks) /\ document[f] = None /\ disk[f] # None
  THEN [tables EXCEPT ![f] = Parsed(disk[f])]
  ELSE tables

\* Mutation of Background: the path is not taken off its task.
BackgroundAgain(f) ==
  /\ toServer = <<>>
  /\ tasks # <<>>
  /\ f \in Head(tasks)
  /\ tables' = Scanned(f)
  /\ UNCHANGED <<editor, backend, toServer, document, published, tasks,
                 backgroundDone, latest, known, failures>>

\* One turn of the loop behind the message: a path of the first task.
Background(f) ==
  /\ toServer = <<>>
  /\ tasks # <<>>
  /\ tables' = Scanned(f)
  /\ \/ f \in Head(tasks) /\ Head(tasks) # {f}
        /\ tasks' = <<Head(tasks) \ {f}>> \o Tail(tasks)
     \/ Head(tasks) \subseteq {f} /\ Len(tasks) > 1
        /\ tasks' = Tail(tasks)
  /\ UNCHANGED <<editor, backend, toServer, document, published,
                 backgroundDone, latest, known, failures>>

\* The last path of the last task: the latest change is analysed again, so as
\* to publish what was filtered.
BackgroundLast(f) ==
  /\ toServer = <<>>
  /\ Len(tasks) = 1
  /\ Head(tasks) \subseteq {f}
  /\ tasks' = <<>>
  /\ backgroundDone' = TRUE
  /\ latest' = None
  /\ IF latest = None
     THEN /\ tables' = Scanned(f)
          /\ UNCHANGED <<document, published, known, failures>>
     ELSE Change(Scanned(f), latest.file, latest.text, TRUE)
  /\ UNCHANGED <<editor, backend, toServer>>

-------------------------------------------------------------------------------
(* Backend *)

\* did_open, did_change, will_rename_files, ...: the handler logs, which may
\* suspend it, and then sends.
SendNotification(m) ==
  /\ m \in handlers
  /\ handlers' = handlers \ {m}
  /\ toServer' = Append(toServer, m)
  /\ UNCHANGED <<editor, handler, reply, fromServer, server>>

\* Mutation of Recv: the first message is taken for the answer.
RecvAny(r) ==
  /\ handler[r] = "waiting"
  /\ fromServer # <<>>
  /\ fromServer' = Tail(fromServer)
  /\ handler' = [handler EXCEPT ![r] = "returned"]
  /\ reply' = [reply EXCEPT ![r] = Head(fromServer)]
  /\ UNCHANGED <<editor, handlers, toServer, server>>

\* The receive loop of a request's handler: it returns the first message of
\* its kind and disposes of any other.
Recv(r) ==
  /\ handler[r] = "waiting"
  /\ fromServer # <<>>
  /\ fromServer' = Tail(fromServer)
  /\ IF KindOf[Head(fromServer).request] = KindOf[r]
     THEN /\ handler' = [handler EXCEPT ![r] = "returned"]
          /\ reply' = [reply EXCEPT ![r] = Head(fromServer)]
     ELSE UNCHANGED <<handler, reply>>
  /\ UNCHANGED <<editor, handlers, toServer, server>>

-------------------------------------------------------------------------------
(* The editor and its user *)

Idle == /\ handlers = {}
        /\ toServer = <<>>
        /\ tasks = <<>>
        /\ moving = None

Waiting == {r \in Request : handler[r] = "waiting"}

\* Unless he switches between files, the user waits for the background
\* analysis before turning to another one.
MayTouch(f) ==
  \/ "switches" \in Habit
  \/ Idle
  \/ /\ moving = None
     /\ latest # None /\ latest.file = f
     /\ \A m \in handlers : m.file = f
     /\ \A i \in DOMAIN toServer : toServer[i].file = f

Notify(m) ==
  /\ Cardinality(handlers) < MaxNotifications
  /\ handlers' = handlers \cup {m}

DidOpen(f) ==
  /\ Idle \/ "switches" \in Habit
  /\ Len(tasks) < MaxTasks
  /\ disk[f] # None /\ buffer[f] = None
  /\ moving = None
  /\ buffer' = [buffer EXCEPT ![f] = disk[f]]
  /\ Notify([kind |-> "open", file |-> f, text |-> disk[f]])
  /\ UNCHANGED <<disk, moving, handler, reply, toServer, fromServer, server>>

DidChange(f) ==
  /\ MayTouch(f)
  /\ f \notin Cached
  /\ buffer[f] # None /\ buffer[f] < MaxText
  /\ buffer' = [buffer EXCEPT ![f] = @ + 1]
  /\ Notify([kind |-> "change", file |-> f, text |-> buffer[f] + 1])
  /\ UNCHANGED <<disk, moving, handler, reply, toServer, fromServer, server>>

\* Saving and closing tell the server nothing: Backend handles neither.
DidSave(f) ==
  /\ buffer[f] # None
  /\ disk[f] \notin {None, buffer[f]}
  /\ disk' = [disk EXCEPT ![f] = buffer[f]]
  /\ UNCHANGED <<buffer, moving, backend, toServer, server>>

DidClose(f) ==
  /\ buffer[f] # None
  /\ buffer[f] = disk[f] \/ "discards" \in Habit
  /\ buffer' = [buffer EXCEPT ![f] = None]
  /\ UNCHANGED <<disk, moving, backend, toServer, server>>

\* The editor asks before it renames or deletes a closed file.
WillMove(f, g) ==
  /\ Idle \/ "moves_early" \in Habit
  /\ f \notin Cached /\ disk[f] # None /\ buffer[f] = None
  /\ latest # None => latest.file # f \/ "moves_edited" \in Habit
  /\ moving = None
  /\ g # None => /\ disk[g] = None /\ g \notin Cached
                 /\ document[g] = None \/ "reuses_paths" \in Habit
  /\ moving' = <<f, g>>
  /\ Notify([kind |-> "remove", file |-> f])
  /\ UNCHANGED <<disk, buffer, handler, reply, toServer, fromServer, server>>

\* It goes on once will_rename_files or will_delete_files has returned, and
\* only a rename is notified: did_rename_files passes the old path on.
Move ==
  /\ moving # None
  /\ [kind |-> "remove", file |-> moving[1]] \notin handlers
  /\ LET f == moving[1]
         g == moving[2]
     IN  IF g = None
         THEN /\ disk' = [disk EXCEPT ![f] = None]
              /\ UNCHANGED handlers
         ELSE /\ disk' = [disk EXCEPT ![f] = None, ![g] = disk[f]]
              /\ Notify([kind |-> "did_rename", file |-> f])
  /\ moving' = None
  /\ UNCHANGED <<buffer, handler, reply, toServer, fromServer, server>>

\* The handler of a request sends at once.
Ask(r, f) ==
  /\ handler[r] = "none"
  /\ Cardinality(Waiting) < MaxRequests
  /\ handlers = {} \/ "asks_early" \in Habit
  /\ f \notin Cached /\ buffer[f] # None
  /\ toServer' = Append(toServer, [kind |-> "request", file |-> f,
                                   text |-> buffer[f], request |-> r])
  /\ handler' = [handler EXCEPT ![r] = "waiting"]
  /\ UNCHANGED <<editor, handlers, reply, fromServer, server>>

\* The editor cancels: the handler is dropped, its answer still comes.
Cancel(r) ==
  /\ handler[r] = "waiting"
  /\ \/ "cancels_any" \in Habit
     \/ \A q \in Request \ {r} : KindOf[q] # KindOf[r]
  /\ handler' = [handler EXCEPT ![r] = "cancelled"]
  /\ UNCHANGED <<editor, handlers, reply, toServer, fromServer, server>>

-------------------------------------------------------------------------------

Next ==
  \/ Serve
  \/ \E f \in File : Background(f) \/ BackgroundLast(f)
  \/ \E m \in handlers : SendNotification(m)
  \/ \E r \in Request : \/ Recv(r)
                        \/ Cancel(r)
                        \/ \E f \in File : Ask(r, f)
  \/ \E f \in File : \/ DidOpen(f)
                     \/ DidChange(f)
                     \/ DidSave(f)
                     \/ DidClose(f)
                     \/ \E g \in Option(File) : WillMove(f, g)
  \/ Move

\* The server thread and the tasks of the runtime are scheduled; the editor
\* need not do anything.
Fairness ==
  /\ WF_vars(Serve)
  /\ WF_vars(\E f \in File : Background(f) \/ BackgroundLast(f))
  /\ WF_vars(\E m \in handlers : SendNotification(m))
  /\ \A r \in Request : WF_vars(Recv(r))

Spec == Init /\ [][Next]_vars /\ Fairness

-------------------------------------------------------------------------------
(* Properties *)

\* What a request returns to the editor is the answer to that request, from
\* the text the editor had when it asked: nothing overtakes a change, and a
\* message the loop takes for the answer is the answer.
AnswersRight ==
  \A r \in Request :
    reply[r] # None => reply[r] = [request |-> r, fresh |-> TRUE]

\* A handler that waits for the server returns, unless the editor cancels it.
\* "Dispose unexpected messages": those a loop disposes of nobody expects.
EveryoneAnswered ==
  \A r \in Request : handler[r] = "waiting" ~> handler[r] # "waiting"

\* "call did_change after background_done to notify filtered errors": once the
\* server is idle, the diagnostics of every open file are those of its text,
\* with nothing filtered and no other file missing from the analysis, as long
\* as nothing has failed to load.  (did_open filters before it asks for paths.)
DiagnosticsCurrent ==
  Idle /\ failures = 0 =>
    \A f \in File \ Cached :
      buffer[f] # None => published[f] = [text |-> buffer[f], whole |-> TRUE]

\* Once the server is idle the tables hold what the user sees: the buffers of
\* the open files and the other files as they are on disk.  A file that was
\* renamed while the server was idle is found by the task of did_rename_files,
\* and an edit during a scan is not overwritten by what the scan reads from
\* disk, as long as nothing has failed to load.
TablesComplete ==
  Idle /\ failures = 0 /\ (\E f \in File : document[f] # None) =>
    \A f \in File : TextOf(f) # None => tables[f] = Parsed(TextOf(f))

\* A file that was renamed or deleted does not come back into the tables, where
\* its declarations would clash with those of the file it became.
NoGhosts ==
  Idle => \A f \in File : TextOf(f) = None => tables[f] = None

\* Errors are not filtered for good: did_open and did_rename_files, which clear
\* background_done first, set it again or leave a task that will, whether the
\* metadata and the paths load or not and whatever else is queued.
FilterEnds == tasks = <<>> => backgroundDone

\* Messages and background work are always worked off.
AnalysisSettles == []<>(toServer = <<>> /\ tasks = <<>>)

===============================================================================
