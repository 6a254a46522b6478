------------------------ MODULE LanguageServerProofs ------------------------
(* What LanguageServer guarantees whatever the user does. *)
EXTENDS LanguageServer, TLAPS, SequenceTheorems, FiniteSetTheorems

Message == Notification \cup Question

\* What Received leaves in the channel, and what it takes out.
LEMMA ReceivedType ==
  ASSUME TypeOK, NEW kind, Received(kind)
  PROVE  /\ toServer' \in Seq(Message)
         /\ Head(toServer) \in Message
         /\ Head(toServer).kind = kind
  BY DEF TypeOK, Received, Message

\* What is left of a text in the tables is the text or nothing.
LEMMA ParsedType == \A t \in Text : Parsed(t) \in Option(Text)
  BY DEF Parsed, Option

\* on_change, whether the metadata load or not.
Handled(t, f, text) ==
  (\E done : OnChange(t, f, text, done)) \/ OnChangeUnloaded(t, f, text)

\* A message with a text is handled.
LEMMA ServedText ==
  ASSUME ServeDidOpen \/ ServeDidChange
  PROVE  Handled(tables, Head(toServer).file, Head(toServer).text)
<1>1. CASE ServeDidOpen
  BY <1>1 DEF ServeDidOpen, Handled
<1>2. CASE ServeDidChange
  BY <1>2 DEF ServeDidChange, Change, Handled
<1>3. QED
  BY <1>1, <1>2

\* So is the one that is analysed again.
LEMMA ReplayedText ==
  ASSUME NEW f, BackgroundLast(f), latest # None
  PROVE  Handled(Scanned(f), latest.file, latest.text)
  BY DEF BackgroundLast, Change, Handled

\* What happens to the documents and the tables.
LEMMA HandledText ==
  ASSUME NEW t \in [File -> Option(Text)], NEW f \in File, NEW text, Handled(t, f, text)
  PROVE  /\ document' = IF f \in Cached THEN document ELSE [document EXCEPT ![f] = text]
         /\ \A g \in File \ {f} : tables'[g] = t[g]
<1>1. ASSUME NEW done, OnChange(t, f, text, done)
      PROVE  /\ document' = IF f \in Cached THEN document
                                            ELSE [document EXCEPT ![f] = text]
             /\ \A g \in File \ {f} : tables'[g] = t[g]
  BY <1>1 DEF OnChange
<1>2. QED
  BY <1>1 DEF Handled, OnChangeUnloaded

\* on_change leaves well-typed documents, tables and diagnostics.
LEMMA OnChangeType ==
  ASSUME TypeOK, NEW t \in [File -> Option(Text)], NEW f \in File,
         NEW text \in Text, NEW done, OnChange(t, f, text, done)
  PROVE  /\ document' \in [File -> Option(Text)]
         /\ tables' \in [File -> Option(Text)]
         /\ published' \in [File -> Option([text: Text, whole: BOOLEAN])]
<1>1. Parsed(text) \in Option(Text)
  BY ParsedType
<1>2. text \in Option(Text)
  BY DEF Option
<1>3. CASE f \in Cached
  BY <1>3 DEF OnChange, TypeOK
<1>4. CASE f \notin Cached
  <2> DEFINE after == [t EXCEPT ![f] = Parsed(text)]
             whole == text \in Unparsable \/ (done /\ Complete(after))
  <2>1. tables' = after /\ document' = [document EXCEPT ![f] = text]
    BY <1>4 DEF OnChange
  <2>2. published' = [published EXCEPT ![f] = [text |-> text, whole |-> whole]]
    BY <1>4 DEF OnChange
  <2>3. whole \in BOOLEAN
    BY DEF Complete
  <2>4. [text |-> text, whole |-> whole] \in [text: Text, whole: BOOLEAN]
    BY <2>3
  <2> HIDE DEF whole
  <2>5. published' \in [File -> Option([text: Text, whole: BOOLEAN])]
    BY <2>2, <2>4 DEF TypeOK, Option
  <2>6. QED
    BY <2>1, <2>5, <1>1, <1>2 DEF TypeOK
<1>5. QED
  BY <1>3, <1>4

\* Whether the metadata load or not.
LEMMA HandledType ==
  ASSUME TypeOK, NEW t \in [File -> Option(Text)], NEW f \in File,
         NEW text \in Text, Handled(t, f, text)
  PROVE  /\ document' \in [File -> Option(Text)]
         /\ tables' \in [File -> Option(Text)]
         /\ published' \in [File -> Option([text: Text, whole: BOOLEAN])]
<1>1. CASE OnChangeUnloaded(t, f, text)
  BY <1>1 DEF OnChangeUnloaded, TypeOK, Option
<1>2. QED
  BY <1>1, OnChangeType DEF Handled

\* The paths whose metadata are kept, and the count of failures.
LoadsType == known' \subseteq File /\ failures' \in 0..MaxFailures

\* Loading, or failing to, keeps the types.
LEMMA LoadType ==
  ASSUME TypeOK, NEW f \in File,
         \/ (Load(f) \/ UNCHANGED known) /\ (UNCHANGED failures \/ Fail)
         \/ LoadFails(f)
  PROVE  LoadsType
<1>1. known' \subseteq File
  BY DEF TypeOK, Load, LoadFails
<1>2. failures \in Nat /\ failures <= MaxFailures /\ MaxFailures \in Nat
  BY LanguageServerAssumption DEF TypeOK
<1>3. ASSUME Fail PROVE failures' \in 0..MaxFailures
  BY <1>2, <1>3 DEF Fail
<1>4. failures' \in 0..MaxFailures
  BY <1>2, <1>3 DEF LoadFails
<1>5. QED
  BY <1>1, <1>4 DEF LoadsType

\* A background scan keeps the tables well typed.
LEMMA ScannedType ==
  ASSUME TypeOK, NEW f \in File
  PROVE  Scanned(f) \in [File -> Option(Text)]
<1>1. disk[f] # None => disk[f] \in Text
  BY DEF TypeOK, Option
<1>2. disk[f] # None => Parsed(disk[f]) \in Option(Text)
  BY <1>1, ParsedType
<1>3. QED
  BY <1>2 DEF Scanned, TypeOK

-----------------------------------------------------------------------------
(* Type correctness *)

\* The initial states are well typed.
LEMMA InitTypeOK == Init => TypeOK
<1>1. SUFFICES ASSUME Init PROVE TypeOK
  OBVIOUS
<1>2. 1 \in Text
  BY LanguageServerAssumption DEF Text
<1>3. PICK s \in Start :
        /\ disk = [f \in File |-> IF f \in s.files THEN 1 ELSE None]
        /\ handler = [r \in Request |-> IF r \in s.requests THEN "none"
                                                            ELSE "cancelled"]
  BY <1>1 DEF Init
<1>4. failures \in 0..MaxFailures
  BY <1>1, LanguageServerAssumption DEF Init
<1>5. known \subseteq File
  BY <1>1 DEF Init
<1>6. QED
  BY <1>1, <1>2, <1>3, <1>4, <1>5 DEF Init, TypeOK, Option

\* Every step preserves the types.
LEMMA NextTypeOK == TypeOK /\ [Next]_vars => TypeOK'
<1> SUFFICES ASSUME TypeOK, [Next]_vars PROVE TypeOK'
  OBVIOUS
<1>1. CASE ServeDidOpen
  <2> DEFINE m == Head(toServer)
  <2>1. /\ toServer' \in Seq(Message)
        /\ m.file \in File /\ m.text \in Text
    BY <1>1, ReceivedType
       DEF ServeDidOpen, Message, Notification, Question
  <2>2. /\ document' \in [File -> Option(Text)]
        /\ tables' \in [File -> Option(Text)]
        /\ published' \in [File -> Option([text: Text, whole: BOOLEAN])]
    <3>1. tables \in [File -> Option(Text)]
      BY DEF TypeOK
    <3>2. Handled(tables, m.file, m.text)
      BY <1>1, ServedText
    <3> HIDE DEF m
    <3>3. QED
      BY <2>1, <3>1, <3>2, HandledType
  <2>3. tasks' \in Seq(SUBSET File)
    <3>1. tasks \in Seq(SUBSET File) /\ Paths \in SUBSET File
      BY DEF TypeOK, Paths
    <3>2. Append(tasks, Paths) \in Seq(SUBSET File)
      BY <3>1
    <3>3. tasks' = tasks \/ tasks' = Append(tasks, Paths)
      BY <1>1, Zenon DEF ServeDidOpen
    <3>4. QED
      BY <3>1, <3>2, <3>3
  <2>4. latest' \in Option([file: File, text: Text])
    BY <1>1, <2>1 DEF ServeDidOpen, Option
  <2>5. backgroundDone' \in BOOLEAN
    BY <1>1 DEF ServeDidOpen, TypeOK
  <2>10. LoadsType
    BY <1>1, <2>1, LoadType DEF ServeDidOpen
  <2>6. UNCHANGED <<disk, buffer, moving, handlers, handler, reply, fromServer>>
    BY <1>1 DEF ServeDidOpen, editor, backend
  <2>7. toServer' \in Seq(Notification \cup Question)
    BY <2>1 DEF Message
  <2>8. /\ disk' \in [File -> Option(Text)]
        /\ buffer' \in [File -> Option(Text)]
        /\ moving' \in Option(File \X Option(File))
        /\ handlers' \in SUBSET Notification
        /\ handler' \in [Request -> {"none", "waiting", "returned", "cancelled"}]
        /\ reply' \in [Request -> Option(Answer)]
        /\ fromServer' \in Seq(Answer)
    BY <2>6, Zenon DEF TypeOK
  <2>9. QED
    BY <2>2, <2>3, <2>4, <2>5, <2>7, <2>8, <2>10, Zenon DEF TypeOK, LoadsType
<1>2. CASE ServeDidChange
  <2> DEFINE m == Head(toServer)
  <2>1. /\ toServer' \in Seq(Message)
        /\ m.file \in File /\ m.text \in Text
    BY <1>2, ReceivedType
       DEF ServeDidChange, Message, Notification, Question
  <2>2. /\ document' \in [File -> Option(Text)]
        /\ tables' \in [File -> Option(Text)]
        /\ published' \in [File -> Option([text: Text, whole: BOOLEAN])]
    <3>1. tables \in [File -> Option(Text)]
      BY DEF TypeOK
    <3>2. Handled(tables, m.file, m.text)
      BY <1>2, ServedText
    <3> HIDE DEF m
    <3>3. QED
      BY <2>1, <3>1, <3>2, HandledType
  <2>3. latest' \in Option([file: File, text: Text])
    BY <1>2, <2>1 DEF ServeDidChange, Option
  <2>5. LoadsType
    BY <1>2, <2>1, LoadType DEF ServeDidChange, Change
  <2>4. QED
    BY <1>2, <2>1, <2>2, <2>3, <2>5
       DEF ServeDidChange, TypeOK, Message, editor, backend, LoadsType
<1>3. CASE ServeOnRemove
  <2>1. toServer' \in Seq(Message)
    BY <1>3, ReceivedType DEF ServeOnRemove
  <2>2. QED
    BY <1>3, <2>1 DEF ServeOnRemove, TypeOK, Message, Option, editor, backend
<1>4. CASE ServeDidRename
  <2>1. toServer' \in Seq(Message)
    BY <1>4, ReceivedType DEF ServeDidRename
  <2>2. Append(tasks, Paths) \in Seq(SUBSET File)
    BY DEF TypeOK, Paths
  <2>3. tasks' \in Seq(SUBSET File) /\ backgroundDone' \in BOOLEAN
    BY <1>4, <2>2 DEF ServeDidRename, TypeOK
  <2>5. Head(toServer).file \in File
    BY <1>4, ReceivedType DEF ServeDidRename, Message, Notification, Question
  <2>6. LoadsType
    BY <1>4, <2>5, LoadType DEF ServeDidRename
  <2>4. QED
    BY <1>4, <2>1, <2>3, <2>6
       DEF ServeDidRename, TypeOK, Message, editor, backend, LoadsType
<1>5. CASE ServeRequest
  <2>1. /\ toServer' \in Seq(Message)
        /\ Head(toServer).request \in Request
        /\ Head(toServer).file \in File
    BY <1>5, ReceivedType
       DEF ServeRequest, Message, Notification, Question
  <2>2. fromServer' \in Seq(Answer)
    BY <1>5, <2>1 DEF ServeRequest, TypeOK, Answer
  <2>3. LoadsType
    BY <1>5, <2>1, LoadType DEF ServeRequest
  <2>4. QED
    BY <1>5, <2>1, <2>2, <2>3 DEF ServeRequest, TypeOK, Message, editor, LoadsType
<1>6. CASE \E f \in File : Background(f)
  <2>1. PICK f \in File : Background(f)
    BY <1>6
  <2>2. tables' \in [File -> Option(Text)]
    BY <2>1, ScannedType DEF Background
  <2>3. tasks' \in Seq(SUBSET File)
    <3>1. Tail(tasks) \in Seq(SUBSET File) /\ Head(tasks) \in SUBSET File
      BY <2>1 DEF Background, TypeOK
    <3>2. <<Head(tasks) \ {f}>> \in Seq(SUBSET File)
      BY <3>1
    <3>3. <<Head(tasks) \ {f}>> \o Tail(tasks) \in Seq(SUBSET File)
      BY <3>1, <3>2
    <3>4. QED
      BY <2>1, <3>1, <3>3 DEF Background
  <2>4. QED
    BY <2>1, <2>2, <2>3 DEF Background, TypeOK, editor, backend
<1>7. CASE \E f \in File : BackgroundLast(f)
  <2>1. PICK f \in File : BackgroundLast(f)
    BY <1>7
  <2>2. /\ document' \in [File -> Option(Text)]
        /\ tables' \in [File -> Option(Text)]
        /\ published' \in [File -> Option([text: Text, whole: BOOLEAN])]
    <3>1. CASE latest = None
      BY <2>1, <3>1, ScannedType DEF BackgroundLast, TypeOK
    <3>2. CASE latest # None
      <4>1. latest.file \in File /\ latest.text \in Text
        BY <3>2 DEF TypeOK, Option
      <4>2. Handled(Scanned(f), latest.file, latest.text)
        BY <2>1, <3>2, ReplayedText
      <4>3. QED
        BY <4>1, <4>2, ScannedType, HandledType
    <3>3. QED
      BY <3>1, <3>2
  <2>3. tasks' \in Seq(SUBSET File) /\ latest' \in Option([file: File, text: Text])
    BY <2>1 DEF BackgroundLast, Option
  <2>5. LoadsType
    <3>1. CASE latest = None
      BY <2>1, <3>1 DEF BackgroundLast, TypeOK, LoadsType
    <3>2. CASE latest # None
      <4>1. latest.file \in File
        BY <3>2 DEF TypeOK, Option
      <4>2. QED
        BY <2>1, <3>2, <4>1, LoadType DEF BackgroundLast, Change
    <3>3. QED
      BY <3>1, <3>2
  <2>4. QED
    BY <2>1, <2>2, <2>3, <2>5 DEF BackgroundLast, TypeOK, editor, backend, LoadsType
<1>8. CASE \E m \in handlers : SendNotification(m)
  <2>1. PICK m \in handlers : SendNotification(m)
    BY <1>8
  <2>2. m \in Notification
    BY DEF TypeOK
  <2>3. toServer' \in Seq(Message)
    BY <2>1, <2>2 DEF SendNotification, TypeOK, Message
  <2>4. QED
    BY <2>1, <2>3 DEF SendNotification, TypeOK, Message, editor, server
<1>9. CASE \E r \in Request : Recv(r)
  <2>1. PICK r \in Request : Recv(r)
    BY <1>9
  <2>2. Head(fromServer) \in Answer /\ fromServer' \in Seq(Answer)
    BY <2>1 DEF Recv, TypeOK
  <2>3. QED
    BY <2>1, <2>2 DEF Recv, TypeOK, Option, editor, server
<1>10. CASE \E r \in Request : Cancel(r)
  BY <1>10 DEF Cancel, TypeOK, editor, server
<1>11. CASE \E r \in Request, f \in File : Ask(r, f)
  <2>1. PICK r \in Request, f \in File : Ask(r, f)
    BY <1>11
  <2>2. [kind |-> "request", file |-> f, text |-> buffer[f], request |-> r]
          \in Question
    BY <2>1 DEF Ask, TypeOK, Option, Question
  <2>3. toServer' \in Seq(Message)
    BY <2>1, <2>2 DEF Ask, TypeOK, Message
  <2>4. QED
    BY <2>1, <2>3 DEF Ask, TypeOK, Message, editor, server
<1>12. CASE \E f \in File : DidOpen(f)
  <2>1. PICK f \in File : DidOpen(f)
    BY <1>12
  <2>2. disk[f] \in Text
    BY <2>1 DEF DidOpen, TypeOK, Option
  <2>3. [kind |-> "open", file |-> f, text |-> disk[f]] \in Notification
    BY <2>2 DEF Notification
  <2>4. handlers' \in SUBSET Notification
    BY <2>1, <2>3 DEF DidOpen, Notify, TypeOK
  <2>5. QED
    BY <2>1, <2>2, <2>4 DEF DidOpen, TypeOK, Option, server
<1>13. CASE \E f \in File : DidChange(f)
  <2>1. PICK f \in File : DidChange(f)
    BY <1>13
  <2>2. buffer[f] + 1 \in Text
    BY <2>1, LanguageServerAssumption DEF DidChange, TypeOK, Option, Text
  <2>3. [kind |-> "change", file |-> f, text |-> buffer[f] + 1] \in Notification
    BY <2>2 DEF Notification
  <2>4. handlers' \in SUBSET Notification
    BY <2>1, <2>3 DEF DidChange, Notify, TypeOK
  <2>5. QED
    BY <2>1, <2>2, <2>4 DEF DidChange, TypeOK, Option, server
<1>14. CASE \E f \in File : DidSave(f) \/ DidClose(f)
  <2>1. PICK f \in File : DidSave(f) \/ DidClose(f)
    BY <1>14
  <2>2. disk' \in [File -> Option(Text)] /\ buffer' \in [File -> Option(Text)]
    BY <2>1 DEF DidSave, DidClose, TypeOK, Option
  <2>3. QED
    BY <2>1, <2>2 DEF DidSave, DidClose, TypeOK, backend, server
<1>15. CASE \E f \in File, g \in Option(File) : WillMove(f, g)
  <2>1. PICK f \in File, g \in Option(File) : WillMove(f, g)
    BY <1>15
  <2>2. [kind |-> "remove", file |-> f] \in Notification
    BY DEF Notification
  <2>3. handlers' \in SUBSET Notification
    BY <2>1, <2>2 DEF WillMove, Notify, TypeOK
  <2>4. moving' \in Option(File \X Option(File))
    BY <2>1 DEF WillMove, Option
  <2>5. QED
    BY <2>1, <2>3, <2>4 DEF WillMove, TypeOK, server
<1>16. CASE Move
  <2> DEFINE f == moving[1]
             g == moving[2]
  <2>1. f \in File /\ g \in Option(File)
    BY <1>16 DEF Move, TypeOK, Option
  <2>2. [kind |-> "did_rename", file |-> f] \in Notification
    BY <2>1 DEF Notification
  <2>3. handlers' \in SUBSET Notification
    <3>1. handlers' \subseteq handlers \cup {[kind |-> "did_rename", file |-> f]}
      BY <1>16 DEF Move, Notify
    <3>2. QED
      BY <2>2, <3>1 DEF TypeOK
  <2>4. disk' \in [File -> Option(Text)]
    <3>1. disk[f] \in Option(Text) /\ None \in Option(Text)
      BY <2>1 DEF TypeOK, Option
    <3>2. \/ disk' = [disk EXCEPT ![f] = None]
          \/ disk' = [disk EXCEPT ![f] = None, ![g] = disk[f]]
      BY <1>16 DEF Move
    <3>3. QED
      BY <3>1, <3>2 DEF TypeOK
  <2>5. QED
    BY <1>16, <2>3, <2>4 DEF Move, TypeOK, Option, server
<1>17. CASE UNCHANGED vars
  BY <1>17 DEF vars, editor, backend, server, TypeOK
<1>18. QED
  BY <1>1, <1>2, <1>3, <1>4, <1>5, <1>6, <1>7, <1>8, <1>9, <1>10, <1>11,
     <1>12, <1>13, <1>14, <1>15, <1>16, <1>17 DEF Next, Serve

\* Whatever the user does, and however many handlers run at once, channels,
\* maps and tasks of the language server hold what their types say.
THEOREM TypeCorrect == Spec => []TypeOK
<1>1. Init => TypeOK
  BY InitTypeOK
<1>2. TypeOK /\ [Next]_vars => TypeOK'
  BY NextTypeOK
<1>3. QED
  BY <1>1, <1>2, PTL DEF Spec

-----------------------------------------------------------------------------
(* Errors are not filtered for good *)

\* Every step preserves FilterEnds.
LEMMA NextFilterEnds ==
  TypeOK /\ FilterEnds /\ [Next]_vars => FilterEnds'
<1> SUFFICES ASSUME TypeOK, FilterEnds, [Next]_vars PROVE FilterEnds'
  OBVIOUS
<1>1. tasks \in Seq(SUBSET File) /\ Paths \in SUBSET File
  BY DEF TypeOK, Paths
<1>2. Append(tasks, Paths) # <<>>
  BY <1>1
<1>3. CASE ServeDidOpen \/ ServeDidRename
  BY <1>2, <1>3 DEF ServeDidOpen, ServeDidRename, FilterEnds
<1>4. CASE \E f \in File : Background(f)
  <2>1. PICK f \in File : Background(f)
    BY <1>4
  <2>2. tasks' # <<>>
    <3>1. Tail(tasks) \in Seq(SUBSET File) /\ Len(Tail(tasks)) = Len(tasks) - 1
      BY <1>1, <2>1 DEF Background
    <3>2. <<Head(tasks) \ {f}>> \o Tail(tasks) # <<>>
      BY <3>1
    <3>3. Len(tasks) > 1 => Tail(tasks) # <<>>
      <4>1. Len(<<>>) = 0
        OBVIOUS
      <4>0. Len(tasks) \in Nat
        BY <1>1
      <4>2. ASSUME Len(tasks) > 1 PROVE Len(Tail(tasks)) # 0
        BY <3>1, <4>0, <4>2
      <4>3. QED
        BY <4>1, <4>2
    <3>4. QED
      BY <2>1, <3>2, <3>3 DEF Background
  <2>3. QED
    BY <2>2 DEF FilterEnds
<1>5. CASE \E f \in File : BackgroundLast(f)
  BY <1>5 DEF BackgroundLast, FilterEnds
<1>6. CASE UNCHANGED <<tasks, backgroundDone>>
  BY <1>6 DEF FilterEnds
<1>7. QED
  BY <1>3, <1>4, <1>5, <1>6
     DEF Next, Serve, ServeDidChange, ServeOnRemove, ServeRequest,
         SendNotification, Recv, Cancel, Ask, DidOpen, DidChange, DidSave,
         DidClose, WillMove, Move, vars, server

\* Whatever the user does, and whichever metadata or paths fail to load, errors
\* are filtered only while a background task is pending that will end the
\* filtering (background_done).
THEOREM FilterEndsCorrect == Spec => []FilterEnds
<1>1. Init => TypeOK /\ FilterEnds
  BY InitTypeOK DEF Init, FilterEnds
<1>2. TypeOK /\ FilterEnds /\ [Next]_vars => (TypeOK /\ FilterEnds)'
  BY NextTypeOK, NextFilterEnds
<1>3. QED
  BY <1>1, <1>2, PTL DEF Spec

-----------------------------------------------------------------------------
(* Files that were renamed or deleted *)

\* The messages in the channel to the server, and those on their way.
Sent == {toServer[i] : i \in DOMAIN toServer}
InFlight == handlers \cup Sent

Remove(f) == [kind |-> "remove", file |-> f]
Changing == {"open", "change"}

\* The server takes one message out of the channel and leaves the others.
LEMMA ReceivedSent ==
  ASSUME TypeOK, NEW kind, Received(kind)
  PROVE  /\ Sent = Sent' \cup {Head(toServer)}
         /\ Head(toServer) \in InFlight
         /\ Head(toServer).kind = kind
<1>1. toServer \in Seq(Message) /\ toServer # <<>> /\ toServer' = Tail(toServer)
  BY DEF TypeOK, Received, Message
<1>2. /\ Len(toServer) \in Nat /\ Len(toServer) # 0
      /\ Len(toServer') = Len(toServer) - 1
      /\ DOMAIN toServer = 1..Len(toServer) /\ DOMAIN toServer' = 1..Len(toServer')
      /\ Head(toServer) = toServer[1]
      /\ \A i \in 1..Len(toServer') : toServer'[i] = toServer[i + 1]
  BY <1>1
<1>3. Sent \subseteq Sent' \cup {Head(toServer)}
  <2> SUFFICES ASSUME NEW i \in 1..Len(toServer), i # 1
               PROVE  toServer[i] \in Sent'
    BY <1>2 DEF Sent
  <2>1. i - 1 \in 1..Len(toServer') /\ toServer'[i - 1] = toServer[i]
    BY <1>2
  <2>2. QED
    BY <1>2, <2>1 DEF Sent
<1>4. Sent' \cup {Head(toServer)} \subseteq Sent
  <2>1. \A i \in 1..Len(toServer') : i + 1 \in 1..Len(toServer)
    BY <1>2
  <2>2. 1 \in 1..Len(toServer)
    BY <1>2
  <2>3. QED
    BY <1>2, <2>1, <2>2 DEF Sent
<1>5. QED
  BY <1>3, <1>4 DEF InFlight, Received

\* Putting a message into the channel.
LEMMA AppendSent ==
  ASSUME TypeOK, NEW m \in Message, toServer' = Append(toServer, m)
  PROVE  Sent' = Sent \cup {m}
<1>1. toServer \in Seq(Message)
  BY DEF TypeOK, Message
<1>2. /\ Len(toServer) \in Nat
      /\ Len(toServer') = Len(toServer) + 1
      /\ DOMAIN toServer = 1..Len(toServer) /\ DOMAIN toServer' = 1..Len(toServer')
      /\ toServer'[Len(toServer) + 1] = m
      /\ \A i \in 1..Len(toServer) : toServer'[i] = toServer[i]
  BY <1>1
<1>3. 1..Len(toServer') = 1..Len(toServer) \cup {Len(toServer) + 1}
  BY <1>2
<1>4. QED
  BY <1>2, <1>3 DEF Sent

\* What is in flight about a text is about a file.
LEMMA ChangingType ==
  ASSUME TypeOK
  PROVE  \A m \in InFlight : m.kind \in Changing => m.file \in File /\ m.text \in Text
<1>1. Sent \subseteq Message
  BY DEF Sent, TypeOK, Message
<1>2. QED
  BY <1>1 DEF InFlight, TypeOK, Message, Notification, Question, Changing

\* The file exists and nobody is about to move it.
Staying(f) == disk[f] # None /\ (moving # None => moving[1] # f)

\* What the server was told about, and what it will analyse again, stays; a
\* file being moved has left the tables, or is about to, and no analysis can
\* bring it back; one that has gone has left the tables, or is about to.
ChangesStay == \A m \in InFlight : m.kind \in Changing => Staying(m.file)
LatestStays == latest # None => Staying(latest.file)
BuffersStay == \A f \in File : buffer[f] # None => Staying(f)
MovingQuietly ==
  moving # None =>
    /\ disk[moving[1]] # None
    /\ tasks = <<>>
    /\ \A m \in InFlight : m.kind \notin {"open", "did_rename"}
    /\ Remove(moving[1]) \in InFlight \/ tables[moving[1]] = None
GoneForgotten ==
  \A f \in File : tables[f] # None => disk[f] # None \/ Remove(f) \in Sent

GhostInv == /\ ChangesStay
            /\ LatestStays
            /\ BuffersStay
            /\ MovingQuietly
            /\ GoneForgotten

\* The user moves files only while the server is idle, and not the one he has
\* edited last.
MovesLate == Habit \cap {"moves_early", "moves_edited"} = {}

\* At first there is nothing in the tables and nothing to be told.
LEMMA GhostInit == Init => GhostInv
<1> SUFFICES ASSUME Init PROVE GhostInv
  OBVIOUS
<1>1. InFlight = {}
  BY DEF Init, InFlight, Sent
<1>2. QED
  BY <1>1 DEF Init, GhostInv, ChangesStay, LatestStays, BuffersStay,
              MovingQuietly, GoneForgotten

\* The types of what the editor is moving.
LEMMA MovingType ==
  ASSUME TypeOK, moving # None
  PROVE  moving[1] \in File /\ moving[2] \in Option(File)
  BY DEF TypeOK, Option

\* The server's steps preserve GhostInv.
LEMMA GhostServer ==
  ASSUME TypeOK, GhostInv,
         Serve \/ \E f \in File : Background(f) \/ BackgroundLast(f)
  PROVE  GhostInv'
<1> DEFINE m == Head(toServer)
<1>1. CASE ServeDidOpen \/ ServeDidChange
  <2>1. /\ UNCHANGED <<disk, buffer, moving, handlers>>
        /\ latest' = [file |-> m.file, text |-> m.text]
        /\ Handled(tables, m.file, m.text)
        /\ m.kind # "open" => tasks' = tasks
    BY <1>1, ServedText, ReceivedSent DEF ServeDidOpen, ServeDidChange, editor, backend
  <2>2. /\ Sent = Sent' \cup {m}
        /\ m \in InFlight /\ m.kind \in Changing /\ m \in Message
    BY <1>1, ReceivedSent, ReceivedType DEF ServeDidOpen, ServeDidChange, Changing
  <2>3. m.file \in File
    BY <2>2 DEF Message, Notification, Question
  <2>4. \A f \in File \ {m.file} : tables'[f] = tables[f]
    BY <2>1, <2>3, HandledText DEF TypeOK
  <2>5. Staying(m.file)
    BY <2>2 DEF GhostInv, ChangesStay
  <2>6. \A f : Remove(f) \in Sent => Remove(f) \in Sent'
    BY <2>2 DEF Remove, Changing
  <2>7. InFlight' \subseteq InFlight
    BY <2>1, <2>2 DEF InFlight
  <2>8. ChangesStay' /\ LatestStays' /\ BuffersStay'
    BY <2>1, <2>5, <2>7 DEF GhostInv, ChangesStay, LatestStays, BuffersStay, Staying
  <2>9. MovingQuietly'
    <3> SUFFICES ASSUME moving # None PROVE MovingQuietly'
      BY <2>1 DEF MovingQuietly
    <3>1. m.kind # "open" /\ moving[1] # m.file /\ moving[1] \in File
      BY <2>2, <2>5, MovingType DEF GhostInv, MovingQuietly, Staying
    <3>2. Remove(moving[1]) \in InFlight => Remove(moving[1]) \in InFlight'
      BY <2>1, <2>6 DEF InFlight
    <3>3. QED
      BY <2>1, <2>4, <2>7, <3>1, <3>2 DEF GhostInv, MovingQuietly
  <2>10. GoneForgotten'
    BY <2>1, <2>4, <2>5, <2>6 DEF GhostInv, GoneForgotten, Staying
  <2>11. QED
    BY <2>8, <2>9, <2>10 DEF GhostInv
<1>2. CASE ServeOnRemove
  <2>1. /\ UNCHANGED <<disk, buffer, moving, handlers, tasks, latest>>
        /\ tables' = [tables EXCEPT ![m.file] = None]
    BY <1>2 DEF ServeOnRemove, editor, backend
  <2>2. Sent = Sent' \cup {m}
    BY <1>2, ReceivedSent DEF ServeOnRemove
  <2>3. \A f \in File : /\ tables'[f] # None => tables[f] # None /\ f # m.file
                        /\ tables[f] = None => tables'[f] = None
                        /\ m = Remove(f) => tables'[f] = None
    BY <2>1 DEF TypeOK, Remove
  <2>4. InFlight' \subseteq InFlight /\ InFlight \subseteq InFlight' \cup {m}
    BY <2>1, <2>2 DEF InFlight
  <2>5. ChangesStay' /\ LatestStays' /\ BuffersStay'
    BY <2>1, <2>4 DEF GhostInv, ChangesStay, LatestStays, BuffersStay, Staying
  <2>6. MovingQuietly'
    BY <2>1, <2>3, <2>4, MovingType DEF GhostInv, MovingQuietly
  <2>7. GoneForgotten'
    BY <2>1, <2>2, <2>3 DEF GhostInv, GoneForgotten
  <2>8. QED
    BY <2>5, <2>6, <2>7 DEF GhostInv
<1>3. CASE ServeDidRename \/ ServeRequest
  <2>1. UNCHANGED <<disk, buffer, moving, handlers, latest, tables>>
    BY <1>3 DEF ServeDidRename, ServeRequest, editor, backend, server
  <2>2. /\ Sent = Sent' \cup {m} /\ m \in InFlight
        /\ m.kind \in {"did_rename", "request"}
        /\ m.kind = "request" => tasks' = tasks
    BY <1>3, ReceivedSent DEF ServeDidRename, ServeRequest, server
  <2>3. \A f : Remove(f) \in Sent => Remove(f) \in Sent'
    BY <2>2 DEF Remove
  <2>4. InFlight' \subseteq InFlight
    BY <2>1, <2>2 DEF InFlight
  <2>5. ChangesStay' /\ LatestStays' /\ BuffersStay'
    BY <2>1, <2>4 DEF GhostInv, ChangesStay, LatestStays, BuffersStay, Staying
  <2>6. MovingQuietly'
    BY <2>1, <2>2, <2>3, <2>4 DEF GhostInv, MovingQuietly, InFlight
  <2>7. GoneForgotten'
    BY <2>1, <2>3 DEF GhostInv, GoneForgotten
  <2>8. QED
    BY <2>5, <2>6, <2>7 DEF GhostInv
<1>4. ASSUME NEW f \in File, Background(f) \/ BackgroundLast(f)
      PROVE  GhostInv'
  <2>1. /\ UNCHANGED <<disk, buffer, moving, handlers, toServer>>
        /\ latest' \in {latest, None}
    BY <1>4 DEF Background, BackgroundLast, editor, backend
  <2>0. tasks # <<>>
    <3>1. Len(<<>>) = 0
      OBVIOUS
    <3>2. tasks # <<>> \/ Len(tasks) = 1
      BY <1>4 DEF Background, BackgroundLast
    <3>3. QED
      BY <3>1, <3>2
  <2>2. moving = None
    BY <2>0 DEF GhostInv, MovingQuietly
  <2>3. \A g \in File : Scanned(f)[g] # None => tables[g] # None \/ disk[g] # None
    BY DEF Scanned, TypeOK
  <2>4. \A g \in File : tables'[g] # None => tables[g] # None \/ disk[g] # None
    <3>1. CASE Background(f) \/ latest = None
      BY <1>4, <2>3, <3>1 DEF Background, BackgroundLast
    <3>2. CASE BackgroundLast(f) /\ latest # None
      <4>1. /\ latest.file \in File
            /\ Handled(Scanned(f), latest.file, latest.text)
        BY <3>2, ReplayedText DEF TypeOK, Option
      <4>2. \A g \in File \ {latest.file} : tables'[g] = Scanned(f)[g]
        BY <4>1, HandledText, ScannedType
      <4>3. disk[latest.file] # None
        BY <3>2 DEF GhostInv, LatestStays, Staying
      <4>4. QED
        BY <2>3, <4>2, <4>3
    <3>3. QED
      BY <1>4, <3>1, <3>2
  <2>5. Sent' = Sent /\ InFlight' = InFlight
    BY <2>1 DEF Sent, InFlight
  <2>6. ChangesStay' /\ LatestStays' /\ BuffersStay' /\ MovingQuietly'
    BY <2>1, <2>2, <2>5
       DEF GhostInv, ChangesStay, LatestStays, BuffersStay, MovingQuietly, Staying
  <2>7. GoneForgotten'
    BY <2>1, <2>4, <2>5 DEF GhostInv, GoneForgotten
  <2>8. QED
    BY <2>6, <2>7 DEF GhostInv
<1>5. QED
  BY <1>1, <1>2, <1>3, <1>4 DEF Serve

\* The steps of the handlers and of the editor preserve GhostInv.
LEMMA GhostEditor ==
  ASSUME MovesLate, TypeOK, GhostInv,
         \/ \E m \in handlers : SendNotification(m)
         \/ \E r \in Request : \/ Recv(r)
                               \/ Cancel(r)
                               \/ \E f \in File : Ask(r, f)
         \/ \E f \in File : \/ DidOpen(f)
                            \/ DidChange(f)
                            \/ DidSave(f)
                            \/ DidClose(f)
                            \/ \E g \in Option(File) : WillMove(f, g)
         \/ Move
  PROVE  GhostInv'
<1>1. ASSUME NEW m \in handlers, SendNotification(m)
      PROVE  GhostInv'
  <2>1. /\ handlers' = handlers \ {m}
        /\ UNCHANGED <<disk, buffer, moving, tables, tasks, latest>>
    BY <1>1 DEF SendNotification, editor, server
  <2>2. Sent' = Sent \cup {m}
    BY <1>1, AppendSent DEF SendNotification, TypeOK, Message
  <2>3. InFlight' = InFlight
    BY <2>1, <2>2 DEF InFlight
  <2>4. QED
    BY <2>1, <2>2, <2>3
       DEF GhostInv, ChangesStay, LatestStays, BuffersStay, MovingQuietly,
           GoneForgotten, Staying
<1>2. ASSUME NEW r \in Request, Recv(r) \/ Cancel(r)
      PROVE  GhostInv'
  BY <1>2 DEF Recv, Cancel, editor, server, GhostInv, ChangesStay, LatestStays,
              BuffersStay, MovingQuietly, GoneForgotten, Staying, InFlight, Sent
<1>3. ASSUME NEW r \in Request, NEW f \in File, Ask(r, f)
      PROVE  GhostInv'
  <2> DEFINE q == [kind |-> "request", file |-> f, text |-> buffer[f], request |-> r]
  <2>1. /\ UNCHANGED <<disk, buffer, moving, handlers, tables, tasks, latest>>
        /\ toServer' = Append(toServer, q)
    BY <1>3 DEF Ask, editor, server
  <2>2. q \in Message
    BY <1>3 DEF Ask, TypeOK, Option, Question, Message
  <2>3. q.kind = "request"
    OBVIOUS
  <2> HIDE DEF q
  <2>4. Sent' = Sent \cup {q} /\ InFlight' = InFlight \cup {q}
    BY <2>1, <2>2, AppendSent DEF InFlight
  <2>5. QED
    BY <2>1, <2>3, <2>4
       DEF GhostInv, ChangesStay, LatestStays, BuffersStay, MovingQuietly,
           GoneForgotten, Staying, Changing
<1>4. ASSUME NEW f \in File, DidOpen(f) \/ DidChange(f)
      PROVE  GhostInv'
  <2>1. PICK m : /\ handlers' = handlers \cup {m}
                 /\ m.file = f /\ m.kind \in Changing
                 /\ m.kind = "open" => moving = None
    <3>1. CASE DidOpen(f)
      <4> DEFINE o == [kind |-> "open", file |-> f, text |-> disk[f]]
      <4>1. /\ handlers' = handlers \cup {o} /\ moving = None
            /\ o.file = f /\ o.kind \in Changing
        BY <3>1 DEF DidOpen, Notify, Changing
      <4> HIDE DEF o
      <4>2. QED
        BY <4>1
    <3>2. CASE DidChange(f)
      <4> DEFINE o == [kind |-> "change", file |-> f, text |-> buffer[f] + 1]
      <4>1. /\ handlers' = handlers \cup {o}
            /\ o.file = f /\ o.kind = "change"
        BY <3>2 DEF DidChange, Notify
      <4> HIDE DEF o
      <4>2. QED
        BY <4>1 DEF Changing
    <3>3. QED
      BY <1>4, <3>1, <3>2
  <2>2. /\ UNCHANGED <<disk, moving, toServer, tables, tasks, latest>>
        /\ \A g \in File : g # f => buffer'[g] = buffer[g]
    BY <1>4 DEF DidOpen, DidChange, server, TypeOK
  <2>3. Staying(f)
    BY <1>4 DEF DidOpen, DidChange, GhostInv, BuffersStay, Staying
  <2>4. Sent' = Sent /\ InFlight' = InFlight \cup {m}
    BY <2>1, <2>2 DEF Sent, InFlight
  <2>5. ChangesStay' /\ LatestStays' /\ BuffersStay'
    BY <2>1, <2>2, <2>3, <2>4
       DEF GhostInv, ChangesStay, LatestStays, BuffersStay, Staying
  <2>6. MovingQuietly'
    BY <2>1, <2>2, <2>4 DEF GhostInv, MovingQuietly, Changing
  <2>7. GoneForgotten'
    BY <2>2, <2>4 DEF GhostInv, GoneForgotten
  <2>8. QED
    BY <2>5, <2>6, <2>7 DEF GhostInv
<1>5. ASSUME NEW f \in File, DidSave(f) \/ DidClose(f)
      PROVE  GhostInv'
  <2>1. /\ UNCHANGED <<moving, handlers, toServer, tables, tasks, latest>>
        /\ \A g \in File : /\ disk[g] # None => disk'[g] # None
                           /\ buffer'[g] \in {buffer[g], None}
    BY <1>5 DEF DidSave, DidClose, backend, server, TypeOK
  <2>2. Sent' = Sent /\ InFlight' = InFlight
    BY <2>1 DEF Sent, InFlight
  <2>3. \A g \in File : Staying(g) => Staying(g)'
    BY <2>1 DEF Staying
  <2>4. ChangesStay'
    BY <2>2, <2>3, ChangingType DEF GhostInv, ChangesStay
  <2>5. LatestStays' /\ BuffersStay'
    BY <2>1, <2>3 DEF GhostInv, LatestStays, BuffersStay, TypeOK, Option
  <2>6. MovingQuietly' /\ GoneForgotten'
    BY <2>1, <2>2, MovingType DEF GhostInv, MovingQuietly, GoneForgotten
  <2>7. QED
    BY <2>4, <2>5, <2>6 DEF GhostInv
<1>6. ASSUME NEW f \in File, NEW g \in Option(File), WillMove(f, g)
      PROVE  GhostInv'
  <2>1. /\ handlers = {} /\ toServer = <<>> /\ tasks = <<>> /\ moving = None
        /\ disk[f] # None /\ buffer[f] = None
        /\ latest # None => latest.file # f
        /\ moving' = <<f, g>>
        /\ handlers' = handlers \cup {Remove(f)}
        /\ UNCHANGED <<disk, buffer, toServer, tables, tasks, latest>>
    BY <1>6 DEF WillMove, Notify, MovesLate, Idle, Remove, server
  <2>2. Sent' = Sent /\ Sent = {} /\ InFlight' = {Remove(f)}
    BY <2>1 DEF Sent, InFlight
  <2>3. moving'[1] = f
    BY <2>1
  <2>4. \A h : Staying(h) /\ h # f => Staying(h)'
    BY <2>1, <2>3 DEF Staying
  <2>5. ChangesStay' /\ LatestStays' /\ BuffersStay'
    BY <2>1, <2>2, <2>4
       DEF GhostInv, ChangesStay, LatestStays, BuffersStay, Changing, Remove
  <2>6. MovingQuietly'
    BY <2>1, <2>2, <2>3 DEF MovingQuietly, Remove
  <2>7. GoneForgotten'
    BY <2>1, <2>2 DEF GhostInv, GoneForgotten
  <2>8. QED
    BY <2>5, <2>6, <2>7 DEF GhostInv
<1>7. CASE Move
  <2> DEFINE f == moving[1]
             g == moving[2]
  <2>1. /\ moving # None /\ moving' = None
        /\ Remove(f) \notin handlers
        /\ disk' = IF g = None THEN [disk EXCEPT ![f] = None]
                               ELSE [disk EXCEPT ![f] = None, ![g] = disk[f]]
        /\ UNCHANGED <<buffer, toServer, tables, tasks, latest>>
    BY <1>7 DEF Move, Remove, server
  <2>2. f \in File /\ g \in Option(File) /\ disk[f] # None
    BY <2>1, MovingType DEF GhostInv, MovingQuietly
  <2>3. \A h \in File : h # f /\ disk[h] # None => disk'[h] # None
    BY <2>1, <2>2 DEF TypeOK, Option
  <2> DEFINE D == IF g = None THEN {} ELSE {[kind |-> "did_rename", file |-> f]}
  <2>4. handlers' = handlers \cup D /\ \A m \in D : m.kind = "did_rename"
    BY <1>7 DEF Move, Notify
  <2> HIDE DEF D
  <2>5. Sent' = Sent /\ InFlight' = InFlight \cup D
    BY <2>1, <2>4 DEF Sent, InFlight
  <2>6. \A h \in File : Staying(h) => Staying(h)'
    BY <2>1, <2>3 DEF Staying
  <2>8. ChangesStay'
    BY <2>4, <2>5, <2>6, ChangingType DEF GhostInv, ChangesStay, Changing
  <2>9. LatestStays' /\ BuffersStay'
    BY <2>1, <2>6 DEF GhostInv, LatestStays, BuffersStay, TypeOK, Option
  <2>10. MovingQuietly'
    BY <2>1 DEF MovingQuietly
  <2>11. GoneForgotten'
    BY <2>1, <2>3, <2>5 DEF GhostInv, GoneForgotten, MovingQuietly, InFlight
  <2>12. QED
    BY <2>8, <2>9, <2>10, <2>11 DEF GhostInv
<1>8. QED
  BY <1>1, <1>2, <1>3, <1>4, <1>5, <1>6, <1>7

\* A user who moves files only while the server is idle, and never the one he
\* edited last, leaves no ghosts, however many notifications are in flight,
\* whatever else he does and in whatever order the handlers send: between
\* will_rename_files and the move no background task can restore the file.
THEOREM NoGhostsHolds ==
  ASSUME MovesLate
  PROVE  Spec => []NoGhosts
<1>1. Init => TypeOK /\ GhostInv
  BY InitTypeOK, GhostInit
<1>2. TypeOK /\ GhostInv /\ [Next]_vars => (TypeOK /\ GhostInv)'
  <2> SUFFICES ASSUME TypeOK, GhostInv, [Next]_vars PROVE GhostInv'
    BY NextTypeOK
  <2>1. CASE Serve \/ \E f \in File : Background(f) \/ BackgroundLast(f)
    BY <2>1, GhostServer
  <2>2. CASE UNCHANGED vars
    BY <2>2 DEF vars, editor, backend, server, GhostInv, ChangesStay,
                LatestStays, BuffersStay, MovingQuietly, GoneForgotten, Staying,
                InFlight, Sent
  <2>3. QED
    BY <2>1, <2>2, GhostEditor DEF Next
<1>3. GhostInv => NoGhosts
  <2> SUFFICES ASSUME GhostInv, Idle, NEW f \in File, TextOf(f) = None,
                      tables[f] # None
               PROVE  FALSE
    BY DEF NoGhosts
  <2>1. Sent = {}
    BY DEF Idle, Sent
  <2>2. disk[f] = None
    BY DEF TextOf
  <2>3. QED
    BY <2>1, <2>2 DEF GhostInv, GoneForgotten
<1>4. QED
  BY <1>1, <1>2, <1>3, PTL DEF Spec

-----------------------------------------------------------------------------
(* The answers *)

\* Message m tells the server a text of f.
Changes(m, f) == m.kind \in Changing /\ m.file = f

\* Once the server, whose documents are d, has worked off the first n messages
\* of s, its text of f is t.
Settled(s, d, f, t, n) ==
  \/ /\ d[f] = t
     /\ \A j \in 1..n : ~Changes(s[j], f)
  \/ \E i \in 1..n : /\ Changes(s[i], f)
                     /\ s[i].text = t
                     /\ \A j \in (i + 1)..n : ~Changes(s[j], f)

\* What settles a text still does when the first message has been worked off.
LEMMA SettledTail ==
  ASSUME NEW s \in Seq(Message), s # <<>>, NEW d, NEW e, NEW f, NEW t,
         NEW n \in 1..Len(s), Settled(s, d, f, t, n),
         e[f] = IF Changes(Head(s), f) THEN Head(s).text ELSE d[f]
  PROVE  Settled(Tail(s), e, f, t, n - 1)
<1>1. /\ Len(s) \in Nat /\ Head(s) = s[1]
      /\ Len(Tail(s)) = Len(s) - 1
      /\ \A i \in 1..(Len(s) - 1) : Tail(s)[i] = s[i + 1]
  OBVIOUS
<1> DEFINE u == Tail(s)
<1>2. \A j \in 1..(n - 1) : u[j] = s[j + 1] /\ j + 1 \in 1..n
  BY <1>1
<1> HIDE DEF u, Changes
<1>3. CASE d[f] = t /\ \A j \in 1..n : ~Changes(s[j], f)
  <2>1. e[f] = t
    BY <1>1, <1>3
  <2>2. \A j \in 1..(n - 1) : ~Changes(u[j], f)
    BY <1>2, <1>3
  <2>3. QED
    BY <2>1, <2>2 DEF Settled, u
<1>4. CASE \E i \in 1..n : /\ Changes(s[i], f)
                           /\ s[i].text = t
                           /\ \A j \in (i + 1)..n : ~Changes(s[j], f)
  <2>1. PICK i \in 1..n : /\ Changes(s[i], f)
                          /\ s[i].text = t
                          /\ \A j \in (i + 1)..n : ~Changes(s[j], f)
    BY <1>4
  <2>2. CASE i = 1
    <3>1. e[f] = t
      BY <1>1, <2>1, <2>2
    <3>2. \A j \in 1..(n - 1) : j + 1 \in (i + 1)..n
      BY <2>2
    <3>3. \A j \in 1..(n - 1) : ~Changes(u[j], f)
      BY <1>2, <2>1, <3>2
    <3>4. QED
      BY <3>1, <3>3 DEF Settled, u
  <2>3. CASE i # 1
    <3>1. i - 1 \in 1..(n - 1) /\ u[i - 1] = s[i]
      BY <1>2, <2>3
    <3>2. \A j \in ((i - 1) + 1)..(n - 1) : j \in 1..(n - 1) /\ j + 1 \in (i + 1)..n
      BY <2>3
    <3>3. \A j \in ((i - 1) + 1)..(n - 1) : ~Changes(u[j], f)
      BY <1>2, <2>1, <3>2
    <3>4. QED
      BY <2>1, <3>1, <3>3 DEF Settled, u
  <2>4. QED
    BY <2>2, <2>3
<1>5. QED
  BY <1>3, <1>4 DEF Settled

\* Messages behind do not matter, one about another file does not either, and
\* one about the file settles its text.
LEMMA SettledAppend ==
  ASSUME NEW s \in Seq(Message), NEW m \in Message, NEW d, NEW f, NEW t
  PROVE  /\ \A n \in 0..Len(s) : Settled(s, d, f, t, n) <=> Settled(Append(s, m), d, f, t, n)
         /\ Settled(s, d, f, t, Len(s)) /\ ~Changes(m, f) =>
              Settled(Append(s, m), d, f, t, Len(s) + 1)
         /\ Changes(m, f) => Settled(Append(s, m), d, f, m.text, Len(s) + 1)
<1> DEFINE u == Append(s, m)
           k == Len(s)
<1>1. /\ k \in Nat /\ u[k + 1] = m
      /\ \A i \in 1..k : u[i] = s[i]
  OBVIOUS
<1> HIDE DEF u, k, Changes
<1>2. ASSUME NEW n \in 0..k PROVE Settled(s, d, f, t, n) <=> Settled(u, d, f, t, n)
  <2>1. \A i \in 1..n : u[i] = s[i]
    BY <1>1
  <2>2. \A i \in 1..n : \A j \in (i + 1)..n : u[j] = s[j]
    BY <1>1
  <2>3. QED
    BY <2>1, <2>2 DEF Settled
<1>3. ASSUME Settled(u, d, f, t, k), ~Changes(m, f)
      PROVE  Settled(u, d, f, t, k + 1)
  <2>1. \A j \in 1..(k + 1) : j \in 1..k \/ j = k + 1
    BY <1>1
  <2>2. CASE d[f] = t /\ \A j \in 1..k : ~Changes(u[j], f)
    BY <1>1, <1>3, <2>1, <2>2 DEF Settled
  <2>3. CASE \E i \in 1..k : /\ Changes(u[i], f)
                             /\ u[i].text = t
                             /\ \A j \in (i + 1)..k : ~Changes(u[j], f)
    <3>1. PICK i \in 1..k : /\ Changes(u[i], f)
                            /\ u[i].text = t
                            /\ \A j \in (i + 1)..k : ~Changes(u[j], f)
      BY <2>3
    <3>2. i \in 1..(k + 1)
      BY <1>1
    <3>3. \A j \in (i + 1)..(k + 1) : j \in (i + 1)..k \/ j = k + 1
      BY <1>1
    <3>4. \A j \in (i + 1)..(k + 1) : ~Changes(u[j], f)
      BY <1>1, <1>3, <3>1, <3>3
    <3>5. QED
      BY <3>1, <3>2, <3>4 DEF Settled
  <2>4. QED
    BY <1>3, <2>2, <2>3 DEF Settled
<1>4. ASSUME Changes(m, f) PROVE Settled(u, d, f, m.text, k + 1)
  <2>1. k + 1 \in 1..(k + 1) /\ (k + 1 + 1)..(k + 1) = {}
    BY <1>1
  <2>2. QED
    BY <1>1, <1>4, <2>1 DEF Settled
<1>5. k \in 0..k
  BY <1>1
<1>6. QED
  BY <1>2, <1>3, <1>4, <1>5 DEF u, k

\* There is one notification in flight at a time; the replay repeats what the
\* server has; what the editor shows of a file is on its way to the server, or
\* will be there when the channel is empty; what a question is about will be
\* there when the question is; and every answer is fresh.
OneInFlight == \A m, n \in handlers : m = n
ReplayIdle ==
  latest # None /\ latest.file \notin Cached => document[latest.file] = latest.text
BuffersSettle ==
  \A f \in File \ Cached : buffer[f] # None =>
    /\ \A m \in handlers : Changes(m, f) => m.text = buffer[f]
    /\ \/ \E m \in handlers : Changes(m, f)
       \/ Settled(toServer, document, f, buffer[f], Len(toServer))
IsQuestion(m) == m.kind = "request"
QuestionsSettle ==
  \A i \in 1..Len(toServer) : IsQuestion(toServer[i]) =>
    /\ toServer[i].file \notin Cached
    /\ Settled(toServer, document, toServer[i].file, toServer[i].text, i - 1)
AnswersFresh == \A i \in 1..Len(fromServer) : fromServer[i].fresh = TRUE

FreshInv == /\ OneInFlight
            /\ ReplayIdle
            /\ BuffersSettle
            /\ QuestionsSettle
            /\ AnswersFresh

\* Notifications come one at a time, and questions when they have been sent.
NotifiesOne == MaxNotifications <= 1 /\ "asks_early" \notin Habit

\* A handler that may start is alone.
LEMMA NotifyAlone ==
  ASSUME MaxNotifications <= 1, OneInFlight, NEW m, Notify(m)
  PROVE  handlers = {} /\ handlers' = {m}
<1>1. SUFFICES ASSUME NEW x \in handlers PROVE FALSE
  BY DEF Notify
<1>2. handlers = {x}
  BY <1>1 DEF OneInFlight
<1>3. Cardinality(handlers) = 1
  BY <1>2, FS_Singleton
<1>4. QED
  BY <1>3, LanguageServerAssumption DEF Notify

\* At first nothing is open and nothing was asked.
LEMMA FreshInit == Init => FreshInv
  BY DEF Init, FreshInv, OneInFlight, ReplayIdle, BuffersSettle,
         QuestionsSettle, AnswersFresh

\* Working off one message keeps the texts settled, if the documents change as
\* the message says.
LEMMA FreshServed ==
  ASSUME TypeOK, BuffersSettle, QuestionsSettle, NEW kind, Received(kind),
         UNCHANGED <<buffer, handlers>>,
         \A f \in File \ Cached :
           document'[f] = IF Changes(Head(toServer), f) THEN Head(toServer).text
                                                        ELSE document[f]
  PROVE  BuffersSettle' /\ QuestionsSettle'
<1>1. /\ toServer \in Seq(Message) /\ toServer # <<>> /\ toServer' = Tail(toServer)
  BY DEF TypeOK, Received, Message
<1>2. /\ Len(toServer) \in Nat \ {0} /\ Len(toServer') = Len(toServer) - 1
      /\ \A i \in 1..Len(toServer') : toServer'[i] = toServer[i + 1]
  BY <1>1
<1>3. \A i \in 1..Len(toServer) : toServer[i] \in Message
  BY <1>1
<1>4. ASSUME NEW f \in File \ Cached, NEW t, NEW n \in 1..Len(toServer),
             Settled(toServer, document, f, t, n)
      PROVE  Settled(toServer', document', f, t, n - 1)
  BY <1>1, <1>4, SettledTail
<1>5. BuffersSettle'
  <2> SUFFICES ASSUME NEW f \in File \ Cached, buffer[f] # None
               PROVE  /\ \A m \in handlers : Changes(m, f) => m.text = buffer[f]
                      /\ \/ \E m \in handlers : Changes(m, f)
                         \/ Settled(toServer', document', f, buffer[f], Len(toServer'))
    BY DEF BuffersSettle, Changes
  <2>1. Len(toServer) \in 1..Len(toServer)
    BY <1>2
  <2>2. Settled(toServer, document, f, buffer[f], Len(toServer)) =>
          Settled(toServer', document', f, buffer[f], Len(toServer'))
    BY <1>2, <1>4, <2>1
  <2>3. QED
    BY <2>2 DEF BuffersSettle
<1>6. QuestionsSettle'
  <2> SUFFICES ASSUME NEW i \in 1..Len(toServer'), IsQuestion(toServer'[i])
               PROVE  /\ toServer'[i].file \notin Cached
                      /\ Settled(toServer', document', toServer'[i].file,
                                 toServer'[i].text, i - 1)
    BY DEF QuestionsSettle, IsQuestion
  <2> DEFINE q == toServer[i + 1]
  <2>1. i + 1 \in 1..Len(toServer) /\ toServer'[i] = q /\ i \in 1..Len(toServer)
    BY <1>2
  <2>2. q \in Message /\ IsQuestion(q)
    BY <1>3, <2>1
  <2>3. q.file \in File
    BY <2>2 DEF Message, Notification, Question, IsQuestion
  <2>4. q.file \notin Cached /\ Settled(toServer, document, q.file, q.text, (i + 1) - 1)
    BY <2>1, <2>2 DEF QuestionsSettle
  <2>5. (i + 1) - 1 = i
    BY <1>2
  <2> HIDE DEF q
  <2>6. Settled(toServer', document', q.file, q.text, i - 1)
    BY <1>4, <2>1, <2>3, <2>4, <2>5
  <2>7. QED
    BY <2>1, <2>4, <2>6
<1>7. QED
  BY <1>5, <1>6

\* The server's steps preserve FreshInv.
LEMMA FreshServer ==
  ASSUME TypeOK, FreshInv,
         Serve \/ \E f \in File : Background(f) \/ BackgroundLast(f)
  PROVE  FreshInv'
<1> DEFINE m == Head(toServer)
<1>1. CASE ServeDidOpen \/ ServeDidChange
  <2>1. /\ UNCHANGED <<buffer, handlers, fromServer>>
        /\ latest' = [file |-> m.file, text |-> m.text]
        /\ Handled(tables, m.file, m.text)
        /\ Received("open") \/ Received("change")
    BY <1>1, ServedText DEF ServeDidOpen, ServeDidChange, editor, backend
  <2>2. m \in Message /\ m.kind \in Changing
    BY <2>1, ReceivedType DEF Changing
  <2>3. m.file \in File
    BY <2>2 DEF Message, Notification, Question
  <2>4. document' = IF m.file \in Cached THEN document
                                         ELSE [document EXCEPT ![m.file] = m.text]
    BY <2>1, <2>3, HandledText DEF TypeOK
  <2>5. \A f \in File \ Cached :
          document'[f] = IF Changes(m, f) THEN m.text ELSE document[f]
    BY <2>2, <2>3, <2>4 DEF TypeOK, Changes
  <2>6. BuffersSettle' /\ QuestionsSettle'
    BY <2>1, <2>5, FreshServed DEF FreshInv
  <2>7. ReplayIdle'
    BY <2>1, <2>3, <2>4 DEF ReplayIdle, TypeOK
  <2>8. OneInFlight' /\ AnswersFresh'
    BY <2>1 DEF FreshInv, OneInFlight, AnswersFresh
  <2>9. QED
    BY <2>6, <2>7, <2>8 DEF FreshInv
<1>2. CASE ServeOnRemove \/ ServeDidRename \/ ServeRequest
  <2>1. /\ UNCHANGED <<buffer, handlers, document, latest>>
        /\ Received("remove") \/ Received("did_rename") \/ Received("request")
    BY <1>2 DEF ServeOnRemove, ServeDidRename, ServeRequest, editor, backend, server
  <2>2. m \in Message /\ m.kind \notin Changing
    BY <2>1, ReceivedType DEF Changing
  <2>3. \A f \in File \ Cached :
          document'[f] = IF Changes(m, f) THEN m.text ELSE document[f]
    BY <2>1, <2>2 DEF Changes
  <2>4. BuffersSettle' /\ QuestionsSettle'
    BY <2>1, <2>3, FreshServed DEF FreshInv
  <2>5. OneInFlight' /\ ReplayIdle'
    BY <2>1 DEF FreshInv, OneInFlight, ReplayIdle
  <2>6. AnswersFresh'
    <3>1. CASE ServeRequest
      <4>1. /\ toServer \in Seq(Message) /\ toServer # <<>>
            /\ fromServer \in Seq(Answer)
            /\ fromServer' = Append(fromServer,
                 [request |-> m.request, fresh |-> document[m.file] = m.text])
            /\ m.kind = "request"
        BY <3>1 DEF ServeRequest, Received, TypeOK, Message
      <4>2. 1 \in 1..Len(toServer) /\ m = toServer[1] /\ 1 - 1 = 0 /\ 1..0 = {}
        BY <4>1
      <4>3. Settled(toServer, document, m.file, m.text, 0)
        BY <4>1, <4>2 DEF FreshInv, QuestionsSettle, IsQuestion
      <4>4. document[m.file] = m.text
        BY <4>2, <4>3 DEF Settled
      <4> DEFINE a == [request |-> m.request, fresh |-> document[m.file] = m.text]
      <4>5. a.fresh = TRUE
        BY <4>4
      <4> HIDE DEF a
      <4>6. a \in Answer
        BY <3>1, ReceivedType
           DEF ServeRequest, Message, Notification, Question, Answer, a
      <4>7. /\ Len(fromServer) \in Nat /\ Len(fromServer') = Len(fromServer) + 1
            /\ fromServer'[Len(fromServer) + 1] = a
            /\ \A i \in 1..Len(fromServer) : fromServer'[i] = fromServer[i]
        BY <4>1, <4>6 DEF a
      <4>8. \A i \in 1..Len(fromServer') :
              i \in 1..Len(fromServer) \/ i = Len(fromServer) + 1
        BY <4>7
      <4>9. QED
        BY <4>5, <4>7, <4>8 DEF FreshInv, AnswersFresh
    <3>2. CASE ~ServeRequest
      BY <1>2, <3>2 DEF ServeOnRemove, ServeDidRename, backend, FreshInv, AnswersFresh
    <3>3. QED
      BY <3>1, <3>2
  <2>7. QED
    BY <2>4, <2>5, <2>6 DEF FreshInv
<1>3. ASSUME NEW f \in File, Background(f) \/ BackgroundLast(f)
      PROVE  FreshInv'
  <2>1. /\ UNCHANGED <<buffer, handlers, toServer, fromServer>>
        /\ latest' \in {latest, None}
    BY <1>3 DEF Background, BackgroundLast, editor, backend
  <2>2. document' = document
    <3>1. CASE Background(f) \/ latest = None
      BY <1>3, <3>1 DEF Background, BackgroundLast
    <3>2. CASE BackgroundLast(f) /\ latest # None
      <4>1. latest.file \in Cached \/ document[latest.file] = latest.text
        BY <3>2 DEF FreshInv, ReplayIdle
      <4>3. latest.file \in File
        BY <3>2 DEF TypeOK, Option
      <4>2. document' = IF latest.file \in Cached THEN document
                          ELSE [document EXCEPT ![latest.file] = latest.text]
        BY <3>2, <4>3, ReplayedText, HandledText, ScannedType
      <4>4. QED
        BY <4>1, <4>2, <4>3 DEF TypeOK
    <3>3. QED
      BY <1>3, <3>1, <3>2
  <2>3. QED
    BY <2>1, <2>2 DEF FreshInv, OneInFlight, ReplayIdle, BuffersSettle,
                      QuestionsSettle, AnswersFresh
<1>4. QED
  BY <1>1, <1>2, <1>3 DEF Serve

\* The steps of the handlers and of the editor preserve FreshInv.
LEMMA FreshEditor ==
  ASSUME NotifiesOne, TypeOK, FreshInv,
         \/ \E m \in handlers : SendNotification(m)
         \/ \E r \in Request : \/ Recv(r)
                               \/ Cancel(r)
                               \/ \E f \in File : Ask(r, f)
         \/ \E f \in File : \/ DidOpen(f)
                            \/ DidChange(f)
                            \/ DidSave(f)
                            \/ DidClose(f)
                            \/ \E g \in Option(File) : WillMove(f, g)
         \/ Move
  PROVE  FreshInv'
<1>0. toServer \in Seq(Message) /\ Len(toServer) \in Nat
  BY DEF TypeOK, Message
<1>1. ASSUME NEW m \in handlers, SendNotification(m)
      PROVE  FreshInv'
  <2>1. /\ handlers' = {}
        /\ toServer' = Append(toServer, m)
        /\ UNCHANGED <<buffer, fromServer, document, latest>>
    BY <1>1 DEF SendNotification, FreshInv, OneInFlight, editor, server
  <2>2. m \in Message /\ ~IsQuestion(m)
    BY DEF TypeOK, Message, Notification, IsQuestion
  <2>3. /\ Len(toServer') = Len(toServer) + 1
        /\ toServer'[Len(toServer) + 1] = m
        /\ \A i \in 1..Len(toServer) : toServer'[i] = toServer[i]
    BY <1>0, <2>1, <2>2
  <2>4. BuffersSettle'
    <3> SUFFICES ASSUME NEW f \in File \ Cached, buffer[f] # None
                 PROVE  Settled(toServer', document, f, buffer[f], Len(toServer'))
      BY <2>1 DEF BuffersSettle
    <3>1. CASE Changes(m, f)
      <4>1. m.text = buffer[f]
        BY <3>1 DEF FreshInv, BuffersSettle
      <4>2. Settled(Append(toServer, m), document, f, m.text, Len(toServer) + 1)
        BY <1>0, <2>2, <3>1, SettledAppend
      <4>3. QED
        BY <2>1, <2>3, <4>1, <4>2
    <3>2. CASE ~Changes(m, f)
      <4>1. Settled(toServer, document, f, buffer[f], Len(toServer))
        BY <3>2 DEF FreshInv, BuffersSettle, OneInFlight
      <4>2. QED
        BY <1>0, <2>1, <2>2, <2>3, <3>2, <4>1, SettledAppend
    <3>3. QED
      BY <3>1, <3>2
  <2>5. QuestionsSettle'
    <3> SUFFICES ASSUME NEW i \in 1..Len(toServer'), IsQuestion(toServer'[i])
                 PROVE  /\ toServer'[i].file \notin Cached
                        /\ Settled(toServer', document, toServer'[i].file,
                                   toServer'[i].text, i - 1)
      BY <2>1 DEF QuestionsSettle, IsQuestion
    <3>1. i \in 1..Len(toServer) /\ i - 1 \in 0..Len(toServer)
      BY <1>0, <2>2, <2>3
    <3>2. /\ toServer[i].file \notin Cached
          /\ Settled(toServer, document, toServer[i].file, toServer[i].text, i - 1)
      BY <2>3, <3>1 DEF FreshInv, QuestionsSettle
    <3>3. QED
      BY <1>0, <2>1, <2>2, <2>3, <3>1, <3>2, SettledAppend
  <2>6. OneInFlight' /\ ReplayIdle' /\ AnswersFresh'
    BY <2>1 DEF FreshInv, OneInFlight, ReplayIdle, AnswersFresh
  <2>7. QED
    BY <2>4, <2>5, <2>6 DEF FreshInv
<1>2. ASSUME NEW r \in Request, Recv(r) \/ Cancel(r)
      PROVE  FreshInv'
  <2>1. UNCHANGED <<buffer, handlers, toServer, document, latest>>
    BY <1>2 DEF Recv, Cancel, editor, server
  <2>2. AnswersFresh'
    <3>1. CASE Recv(r)
      <4>1. /\ fromServer \in Seq(Answer) /\ fromServer # <<>>
            /\ fromServer' = Tail(fromServer)
        BY <3>1 DEF Recv, TypeOK
      <4>2. \A i \in 1..Len(fromServer') : /\ i + 1 \in 1..Len(fromServer)
                                           /\ fromServer'[i] = fromServer[i + 1]
        BY <4>1
      <4>3. QED
        BY <4>2 DEF FreshInv, AnswersFresh
    <3>2. CASE Cancel(r)
      BY <3>2 DEF Cancel, FreshInv, AnswersFresh
    <3>3. QED
      BY <1>2, <3>1, <3>2
  <2>3. QED
    BY <2>1, <2>2 DEF FreshInv, OneInFlight, ReplayIdle, BuffersSettle,
                      QuestionsSettle
<1>3. ASSUME NEW r \in Request, NEW f \in File, Ask(r, f)
      PROVE  FreshInv'
  <2> DEFINE q == [kind |-> "request", file |-> f, text |-> buffer[f], request |-> r]
  <2>1. /\ handlers = {} /\ f \notin Cached /\ buffer[f] # None
        /\ toServer' = Append(toServer, q)
        /\ UNCHANGED <<buffer, handlers, fromServer, document, latest>>
    BY <1>3 DEF Ask, NotifiesOne, editor, server
  <2>2. q \in Message
    BY <2>1 DEF TypeOK, Option, Question, Message
  <2>3. q.file = f /\ q.text = buffer[f] /\ q.kind = "request"
    OBVIOUS
  <2> HIDE DEF q
  <2>4. /\ Len(toServer') = Len(toServer) + 1
        /\ toServer'[Len(toServer) + 1] = q
        /\ \A i \in 1..Len(toServer) : toServer'[i] = toServer[i]
    BY <1>0, <2>1, <2>2
  <2>5. \A g \in File \ Cached : buffer[g] # None =>
          Settled(toServer, document, g, buffer[g], Len(toServer))
    BY <2>1 DEF FreshInv, BuffersSettle
  <2>6. \A g : ~Changes(q, g)
    BY <2>3 DEF Changes, Changing
  <2>7. BuffersSettle'
    <3> SUFFICES ASSUME NEW g \in File \ Cached, buffer[g] # None
                 PROVE  Settled(toServer', document, g, buffer[g], Len(toServer'))
      BY <2>1 DEF BuffersSettle
    <3>1. QED
      BY <1>0, <2>1, <2>2, <2>4, <2>5, <2>6, SettledAppend
  <2>8. QuestionsSettle'
    <3> SUFFICES ASSUME NEW i \in 1..Len(toServer'), IsQuestion(toServer'[i])
                 PROVE  /\ toServer'[i].file \notin Cached
                        /\ Settled(toServer', document, toServer'[i].file,
                                   toServer'[i].text, i - 1)
      BY <2>1 DEF QuestionsSettle, IsQuestion
    <3>1. i - 1 \in 0..Len(toServer) /\ (i \in 1..Len(toServer) \/ i = Len(toServer) + 1)
      BY <1>0, <2>4
    <3>2. toServer'[i].file \notin Cached
      BY <2>1, <2>3, <2>4, <3>1 DEF FreshInv, QuestionsSettle
    <3>3. Settled(toServer, document, toServer'[i].file, toServer'[i].text, i - 1)
      <4>1. CASE i \in 1..Len(toServer)
        BY <2>4, <4>1 DEF FreshInv, QuestionsSettle
      <4>2. CASE i = Len(toServer) + 1
        <5>1. i - 1 = Len(toServer)
          BY <1>0, <4>2
        <5>2. QED
          BY <2>1, <2>3, <2>4, <2>5, <4>2, <5>1
      <4>3. QED
        BY <3>1, <4>1, <4>2
    <3>4. QED
      BY <1>0, <2>1, <2>2, <3>1, <3>2, <3>3, SettledAppend
  <2>9. OneInFlight' /\ ReplayIdle' /\ AnswersFresh'
    BY <2>1 DEF FreshInv, OneInFlight, ReplayIdle, AnswersFresh
  <2>10. QED
    BY <2>7, <2>8, <2>9 DEF FreshInv
<1>4. ASSUME NEW f \in File, DidOpen(f) \/ DidChange(f)
      PROVE  FreshInv'
  <2>1. PICK m : Notify(m) /\ Changes(m, f) /\ m.text = buffer'[f]
    <3>1. CASE DidOpen(f)
      <4> DEFINE o == [kind |-> "open", file |-> f, text |-> disk[f]]
      <4>1. Notify(o) /\ Changes(o, f) /\ o.text = buffer'[f]
        BY <3>1 DEF DidOpen, Changes, Changing, TypeOK
      <4> HIDE DEF o
      <4>2. QED
        BY <4>1
    <3>2. CASE DidChange(f)
      <4> DEFINE o == [kind |-> "change", file |-> f, text |-> buffer[f] + 1]
      <4>1. Notify(o) /\ Changes(o, f) /\ o.text = buffer'[f]
        BY <3>2 DEF DidChange, Changes, Changing, TypeOK
      <4> HIDE DEF o
      <4>2. QED
        BY <4>1
    <3>3. QED
      BY <1>4, <3>1, <3>2
  <2>2. /\ UNCHANGED <<toServer, fromServer, document, latest>>
        /\ \A g \in File : g # f => buffer'[g] = buffer[g]
    BY <1>4 DEF DidOpen, DidChange, server, TypeOK
  <2>3. handlers = {} /\ handlers' = {m}
    BY <2>1, NotifyAlone DEF NotifiesOne, FreshInv
  <2>4. \A g \in File : g # f => ~Changes(m, g)
    BY <2>1 DEF Changes
  <2>5. BuffersSettle'
    BY <2>1, <2>2, <2>3, <2>4 DEF FreshInv, BuffersSettle
  <2>6. OneInFlight' /\ ReplayIdle' /\ QuestionsSettle' /\ AnswersFresh'
    BY <2>2, <2>3 DEF FreshInv, OneInFlight, ReplayIdle, QuestionsSettle, AnswersFresh
  <2>7. QED
    BY <2>5, <2>6 DEF FreshInv
<1>5. ASSUME NEW f \in File, DidSave(f) \/ DidClose(f)
      PROVE  FreshInv'
  <2>1. /\ UNCHANGED <<handlers, toServer, fromServer, document, latest>>
        /\ \A g \in File : buffer'[g] \in {buffer[g], None}
    BY <1>5 DEF DidSave, DidClose, backend, server, TypeOK
  <2>2. BuffersSettle'
    BY <2>1 DEF FreshInv, BuffersSettle
  <2>3. QED
    BY <2>1, <2>2 DEF FreshInv, OneInFlight, ReplayIdle, QuestionsSettle, AnswersFresh
<1>6. ASSUME UNCHANGED <<buffer, toServer, fromServer, document, latest>>,
             NEW m, m.kind \notin Changing, Notify(m)
      PROVE  FreshInv'
  <2>1. handlers = {} /\ handlers' = {m}
    BY <1>6, NotifyAlone DEF NotifiesOne, FreshInv
  <2>2. \A f : ~Changes(m, f)
    BY <1>6 DEF Changes
  <2>3. BuffersSettle'
    BY <1>6, <2>1, <2>2 DEF FreshInv, BuffersSettle
  <2>4. QED
    BY <1>6, <2>1, <2>3
       DEF FreshInv, OneInFlight, ReplayIdle, QuestionsSettle, AnswersFresh
<1>7. ASSUME NEW f \in File, NEW g \in Option(File), WillMove(f, g)
      PROVE  FreshInv'
  <2> DEFINE m == [kind |-> "remove", file |-> f]
  <2>1. /\ Notify(m) /\ m.kind \notin Changing
        /\ UNCHANGED <<buffer, toServer, fromServer, document, latest>>
    BY <1>7 DEF WillMove, Changing, server
  <2> HIDE DEF m
  <2>2. QED
    BY <1>6, <2>1
<1>8. CASE Move
  <2> DEFINE m == [kind |-> "did_rename", file |-> moving[1]]
  <2>1. /\ Notify(m) \/ UNCHANGED handlers
        /\ m.kind \notin Changing
        /\ UNCHANGED <<buffer, toServer, fromServer, document, latest>>
    BY <1>8 DEF Move, Changing, server
  <2> HIDE DEF m
  <2>2. CASE Notify(m)
    BY <1>6, <2>1, <2>2
  <2>3. CASE UNCHANGED handlers
    BY <2>1, <2>3
       DEF FreshInv, OneInFlight, ReplayIdle, BuffersSettle, QuestionsSettle,
           AnswersFresh
  <2>4. QED
    BY <2>1, <2>2, <2>3
<1>9. QED
  BY <1>1, <1>2, <1>3, <1>4, <1>5, <1>7, <1>8

\* Every step preserves FreshInv.
LEMMA FreshStep ==
  ASSUME NotifiesOne, TypeOK, FreshInv, [Next]_vars
  PROVE  FreshInv'
<1>1. CASE UNCHANGED vars
  BY <1>1 DEF vars, editor, backend, server, FreshInv, OneInFlight, ReplayIdle,
              BuffersSettle, QuestionsSettle, AnswersFresh
<1>2. QED
  BY <1>1, FreshServer, FreshEditor DEF Next

\* Whose answer is still to come: a handler that waits, or one that was dropped
\* when no other request is answered by the same kind of message.
Expected(h, q) ==
  \/ h[q] = "waiting"
  \/ /\ h[q] = "cancelled"
     /\ \A r \in Request \ {q} : KindOf[r] # KindOf[q]

\* One handler waits at a time, and what is under way is expected, once.
OneWaits == \A q, r \in Waiting : q = r
QuestionsExpected ==
  \A i \in 1..Len(toServer) : IsQuestion(toServer[i]) =>
    /\ Expected(handler, toServer[i].request)
    /\ \A j \in 1..Len(toServer) :
         IsQuestion(toServer[j]) /\ toServer[j].request = toServer[i].request => j = i
    /\ \A j \in 1..Len(fromServer) : fromServer[j].request # toServer[i].request
AnswersExpected ==
  \A i \in 1..Len(fromServer) :
    /\ Expected(handler, fromServer[i].request)
    /\ \A j \in 1..Len(fromServer) : fromServer[j].request = fromServer[i].request => j = i

PairInv == OneWaits /\ QuestionsExpected /\ AnswersExpected

\* Requests come one at a time, and one that is cancelled is the only one of
\* its kind; or else every kind is asked once.
AsksOne == MaxRequests <= 1 /\ "cancels_any" \notin Habit
DistinctKinds == \A q, r \in Request : KindOf[q] = KindOf[r] => q = r

\* Then the message a handler takes for its answer is its answer.
LEMMA PairMatch ==
  ASSUME TypeOK, (AsksOne /\ PairInv) \/ DistinctKinds, NEW r \in Request,
         handler[r] = "waiting", fromServer # <<>>,
         KindOf[Head(fromServer).request] = KindOf[r]
  PROVE  Head(fromServer).request = r
<1>1. /\ fromServer \in Seq(Answer)
      /\ 1 \in 1..Len(fromServer) /\ Head(fromServer) = fromServer[1]
  BY DEF TypeOK
<1>2. Head(fromServer).request \in Request
  <2>1. Head(fromServer) \in Answer
    BY <1>1
  <2>2. QED
    BY <2>1 DEF Answer
<1>3. CASE DistinctKinds
  BY <1>2, <1>3 DEF DistinctKinds
<1>4. CASE PairInv
  <2>1. Expected(handler, Head(fromServer).request)
    BY <1>1, <1>4 DEF PairInv, AnswersExpected
  <2>2. QED
    BY <1>2, <1>4, <2>1 DEF PairInv, OneWaits, Waiting, Expected
<1>5. QED
  BY <1>3, <1>4

\* Every step preserves PairInv.
LEMMA PairStep ==
  ASSUME AsksOne, TypeOK, PairInv, [Next]_vars
  PROVE  PairInv'
<1>0. /\ toServer \in Seq(Message) /\ Len(toServer) \in Nat
      /\ fromServer \in Seq(Answer) /\ Len(fromServer) \in Nat
  BY DEF TypeOK, Message
<1>1. ASSUME UNCHANGED <<handler, fromServer>>, NEW kind, Received(kind)
      PROVE  PairInv'
  <2>1. \A i \in 1..Len(toServer') : /\ i + 1 \in 1..Len(toServer)
                                     /\ toServer'[i] = toServer[i + 1]
    BY <1>0, <1>1 DEF Received
  <2>2. \A q : Expected(handler', q) <=> Expected(handler, q)
    BY <1>1 DEF Expected
  <2>3. \A i, j \in 1..Len(toServer') : i + 1 = j + 1 => i = j
    OBVIOUS
  <2>4. QuestionsExpected'
    <3> SUFFICES ASSUME NEW i \in 1..Len(toServer'), IsQuestion(toServer'[i])
                 PROVE  /\ Expected(handler, toServer'[i].request)
                        /\ \A j \in 1..Len(toServer') :
                             IsQuestion(toServer'[j])
                             /\ toServer'[j].request = toServer'[i].request => j = i
                        /\ \A j \in 1..Len(fromServer) :
                             fromServer[j].request # toServer'[i].request
      BY <1>1 DEF QuestionsExpected, IsQuestion
    <3>1. i + 1 \in 1..Len(toServer) /\ IsQuestion(toServer[i + 1])
      BY <2>1
    <3>2. \A j \in 1..Len(toServer') :
            IsQuestion(toServer'[j])
            /\ toServer'[j].request = toServer'[i].request => j = i
      <4>1. \A j \in 1..Len(toServer) :
              IsQuestion(toServer[j])
              /\ toServer[j].request = toServer[i + 1].request => j = i + 1
        BY <3>1 DEF PairInv, QuestionsExpected
      <4>2. QED
        BY <2>1, <2>3, <4>1
    <3>3. QED
      BY <2>1, <3>1, <3>2 DEF PairInv, QuestionsExpected
  <2>5. OneWaits' /\ AnswersExpected'
    BY <1>1 DEF PairInv, OneWaits, Waiting, AnswersExpected
  <2>6. QED
    BY <2>4, <2>5 DEF PairInv
<1>2. CASE ServeRequest
  <2> DEFINE m == Head(toServer)
             a == [request |-> m.request, fresh |-> document[m.file] = m.text]
  <2>1. /\ UNCHANGED handler
        /\ fromServer' = Append(fromServer, a)
        /\ toServer # <<>> /\ toServer' = Tail(toServer)
        /\ IsQuestion(m)
    BY <1>2 DEF ServeRequest, Received, IsQuestion
  <2>2. a \in Answer /\ a.request = m.request
    BY <1>2, ReceivedType
       DEF ServeRequest, Message, Notification, Question, Answer
  <2> HIDE DEF a
  <2>3. /\ Len(fromServer') = Len(fromServer) + 1
        /\ fromServer'[Len(fromServer) + 1] = a
        /\ \A i \in 1..Len(fromServer) : fromServer'[i] = fromServer[i]
    BY <1>0, <2>1, <2>2
  <2>4. /\ \A i \in 1..Len(toServer') : /\ i + 1 \in 1..Len(toServer) /\ i + 1 # 1
                                        /\ toServer'[i] = toServer[i + 1]
        /\ 1 \in 1..Len(toServer) /\ m = toServer[1]
    BY <1>0, <2>1
  <2> HIDE DEF m
  <2>5. \A i \in 1..Len(fromServer') :
          i \in 1..Len(fromServer) \/ i = Len(fromServer) + 1
    BY <1>0, <2>3
  <2>6. /\ Expected(handler, m.request)
        /\ \A j \in 1..Len(toServer) :
             IsQuestion(toServer[j]) /\ toServer[j].request = m.request => j = 1
        /\ \A j \in 1..Len(fromServer) : fromServer[j].request # m.request
    BY <2>1, <2>4 DEF PairInv, QuestionsExpected
  <2>7. QuestionsExpected'
    <3> SUFFICES ASSUME NEW i \in 1..Len(toServer'), IsQuestion(toServer'[i])
                 PROVE  /\ Expected(handler, toServer'[i].request)
                        /\ \A j \in 1..Len(toServer') :
                             IsQuestion(toServer'[j])
                             /\ toServer'[j].request = toServer'[i].request => j = i
                        /\ \A j \in 1..Len(fromServer') :
                             fromServer'[j].request # toServer'[i].request
      BY <2>1 DEF QuestionsExpected, IsQuestion
    <3>1. Expected(handler, toServer'[i].request)
      BY <2>4 DEF PairInv, QuestionsExpected
    <3>2. \A j \in 1..Len(toServer') : j + 1 = i + 1 => j = i
      OBVIOUS
    <3>3. \A j \in 1..Len(toServer') :
            IsQuestion(toServer'[j])
            /\ toServer'[j].request = toServer'[i].request => j = i
      BY <2>4, <3>2 DEF PairInv, QuestionsExpected
    <3>4. toServer'[i].request # m.request
      BY <2>4, <2>6
    <3>5. \A j \in 1..Len(fromServer') : fromServer'[j].request # toServer'[i].request
      <4>1. \A j \in 1..Len(fromServer) : fromServer[j].request # toServer'[i].request
        BY <2>4 DEF PairInv, QuestionsExpected
      <4>2. QED
        BY <2>2, <2>3, <2>5, <3>4, <4>1
    <3>6. QED
      BY <3>1, <3>3, <3>5
  <2>8. AnswersExpected'
    <3> SUFFICES ASSUME NEW i \in 1..Len(fromServer')
                 PROVE  /\ Expected(handler, fromServer'[i].request)
                        /\ \A j \in 1..Len(fromServer') :
                             fromServer'[j].request = fromServer'[i].request => j = i
      BY <2>1 DEF AnswersExpected
    <3>1. QED
      BY <2>2, <2>3, <2>5, <2>6 DEF PairInv, AnswersExpected
  <2>9. OneWaits'
    BY <2>1 DEF PairInv, OneWaits, Waiting
  <2>10. QED
    BY <2>7, <2>8, <2>9 DEF PairInv
<1>3. ASSUME NEW m \in handlers, SendNotification(m)
      PROVE  PairInv'
  <2>1. /\ toServer' = Append(toServer, m)
        /\ UNCHANGED <<handler, fromServer>>
    BY <1>3 DEF SendNotification
  <2>2. m \in Message /\ ~IsQuestion(m)
    BY DEF TypeOK, Message, Notification, IsQuestion
  <2>3. /\ Len(toServer') = Len(toServer) + 1
        /\ toServer'[Len(toServer) + 1] = m
        /\ \A i \in 1..Len(toServer) : toServer'[i] = toServer[i]
    BY <1>0, <2>1, <2>2
  <2>4. \A i \in 1..Len(toServer') : IsQuestion(toServer'[i]) =>
          i \in 1..Len(toServer) /\ toServer'[i] = toServer[i]
    BY <1>0, <2>2, <2>3
  <2>5. QuestionsExpected'
    <3> SUFFICES ASSUME NEW i \in 1..Len(toServer'), IsQuestion(toServer'[i])
                 PROVE  /\ Expected(handler, toServer'[i].request)
                        /\ \A j \in 1..Len(toServer') :
                             IsQuestion(toServer'[j])
                             /\ toServer'[j].request = toServer'[i].request => j = i
                        /\ \A j \in 1..Len(fromServer) :
                             fromServer[j].request # toServer'[i].request
      BY <2>1 DEF QuestionsExpected, IsQuestion
    <3>1. QED
      BY <2>4 DEF PairInv, QuestionsExpected
  <2>6. OneWaits' /\ AnswersExpected'
    BY <2>1 DEF PairInv, OneWaits, Waiting, AnswersExpected
  <2>7. QED
    BY <2>5, <2>6 DEF PairInv
<1>4. ASSUME NEW r \in Request, Recv(r)
      PROVE  PairInv'
  <2>1. /\ UNCHANGED toServer
        /\ fromServer # <<>> /\ fromServer' = Tail(fromServer)
        /\ \/ UNCHANGED handler
           \/ /\ handler' = [handler EXCEPT ![r] = "returned"]
              /\ KindOf[Head(fromServer).request] = KindOf[r]
              /\ handler[r] = "waiting"
    BY <1>4 DEF Recv
  <2>2. /\ \A i \in 1..Len(fromServer') : /\ i + 1 \in 1..Len(fromServer) /\ i + 1 # 1
                                          /\ fromServer'[i] = fromServer[i + 1]
        /\ 1 \in 1..Len(fromServer) /\ Head(fromServer) = fromServer[1]
    BY <1>0, <2>1
  <2>3. \A q \in Request : q # Head(fromServer).request /\ Expected(handler, q) => Expected(handler', q)
    BY <2>1, PairMatch DEF Expected, TypeOK
  <2>4. /\ \A i \in 1..Len(fromServer) : fromServer[i].request \in Request
        /\ \A i \in 1..Len(toServer) : IsQuestion(toServer[i]) =>
             toServer[i].request \in Request
    <3>1. \A i \in 1..Len(fromServer) : fromServer[i] \in Answer
      BY <1>0
    <3>2. \A i \in 1..Len(toServer) : toServer[i] \in Message
      BY <1>0
    <3>3. QED
      BY <3>1, <3>2 DEF Answer, Message, Question, Notification, IsQuestion
  <2>5. QuestionsExpected'
    <3>1. \A i \in 1..Len(toServer) : IsQuestion(toServer[i]) =>
            toServer[i].request # Head(fromServer).request
      BY <2>2 DEF PairInv, QuestionsExpected
    <3> SUFFICES ASSUME NEW i \in 1..Len(toServer), IsQuestion(toServer[i])
                 PROVE  /\ Expected(handler', toServer[i].request)
                        /\ \A j \in 1..Len(toServer) :
                             IsQuestion(toServer[j])
                             /\ toServer[j].request = toServer[i].request => j = i
                        /\ \A j \in 1..Len(fromServer') :
                             fromServer'[j].request # toServer[i].request
      BY <2>1 DEF QuestionsExpected, IsQuestion
    <3>2. Expected(handler', toServer[i].request)
      BY <2>3, <2>4, <3>1 DEF PairInv, QuestionsExpected
    <3>3. \A j \in 1..Len(toServer) :
            IsQuestion(toServer[j])
            /\ toServer[j].request = toServer[i].request => j = i
      BY DEF PairInv, QuestionsExpected
    <3>4. \A j \in 1..Len(fromServer') : fromServer'[j].request # toServer[i].request
      BY <2>2 DEF PairInv, QuestionsExpected
    <3>5. QED
      BY <3>2, <3>3, <3>4
  <2>6. AnswersExpected'
    <3> SUFFICES ASSUME NEW i \in 1..Len(fromServer')
                 PROVE  /\ Expected(handler', fromServer'[i].request)
                        /\ \A j \in 1..Len(fromServer') :
                             fromServer'[j].request = fromServer'[i].request => j = i
      BY DEF AnswersExpected
    <3>1. PICK q \in Request : q = fromServer'[i].request
      BY <2>2, <2>4
    <3>2. q # Head(fromServer).request /\ Expected(handler, q)
      BY <2>2, <3>1 DEF PairInv, AnswersExpected
    <3>3. Expected(handler', q)
      BY <2>3, <3>2
    <3>4. \A j \in 1..Len(fromServer') : j + 1 = i + 1 => j = i
      OBVIOUS
    <3>5. \A j \in 1..Len(fromServer') :
            fromServer'[j].request = fromServer'[i].request => j = i
      BY <2>2, <3>4 DEF PairInv, AnswersExpected
    <3>6. QED
      BY <3>1, <3>3, <3>5
  <2>7. OneWaits'
    BY <2>1 DEF PairInv, OneWaits, Waiting, TypeOK
  <2>8. QED
    BY <2>5, <2>6, <2>7 DEF PairInv
<1>5. ASSUME NEW r \in Request, Cancel(r)
      PROVE  PairInv'
  <2>1. /\ UNCHANGED <<toServer, fromServer>>
        /\ handler' = [handler EXCEPT ![r] = "cancelled"]
        /\ \A q \in Request \ {r} : KindOf[q] # KindOf[r]
    BY <1>5 DEF Cancel, AsksOne
  <2>2. \A q \in Request : Expected(handler, q) => Expected(handler', q)
    BY <2>1 DEF Expected, TypeOK
  <2>3. /\ \A i \in 1..Len(fromServer) : fromServer[i].request \in Request
        /\ \A i \in 1..Len(toServer) : IsQuestion(toServer[i]) =>
             toServer[i].request \in Request
    <3>1. \A i \in 1..Len(fromServer) : fromServer[i] \in Answer
      BY <1>0
    <3>2. \A i \in 1..Len(toServer) : toServer[i] \in Message
      BY <1>0
    <3>3. QED
      BY <3>1, <3>2 DEF Answer, Message, Question, Notification, IsQuestion
  <2>4. QuestionsExpected' /\ AnswersExpected'
    BY <2>1, <2>2, <2>3 DEF PairInv, QuestionsExpected, AnswersExpected
  <2>5. OneWaits'
    BY <2>1 DEF PairInv, OneWaits, Waiting, TypeOK
  <2>6. QED
    BY <2>4, <2>5 DEF PairInv
<1>6. ASSUME NEW r \in Request, NEW f \in File, Ask(r, f)
      PROVE  PairInv'
  <2> DEFINE q == [kind |-> "request", file |-> f, text |-> buffer[f], request |-> r]
  <2>1. /\ UNCHANGED fromServer
        /\ handler[r] = "none"
        /\ handler' = [handler EXCEPT ![r] = "waiting"]
        /\ Cardinality(Waiting) < MaxRequests
        /\ toServer' = Append(toServer, q)
    BY <1>6 DEF Ask
  <2>2. q \in Message
    BY <1>6 DEF Ask, TypeOK, Option, Question, Message
  <2>3. q.request = r /\ IsQuestion(q)
    BY DEF IsQuestion
  <2> HIDE DEF q
  <2>4. Waiting = {}
    <3>1. SUFFICES ASSUME NEW x \in Waiting PROVE FALSE
      OBVIOUS
    <3>2. Waiting = {x}
      BY <3>1 DEF PairInv, OneWaits
    <3>3. Cardinality(Waiting) = 1
      BY <3>2, FS_Singleton
    <3>4. QED
      BY <2>1, <3>3, LanguageServerAssumption DEF AsksOne
  <2>5. /\ Len(toServer') = Len(toServer) + 1
        /\ toServer'[Len(toServer) + 1] = q
        /\ \A i \in 1..Len(toServer) : toServer'[i] = toServer[i]
    BY <1>0, <2>1, <2>2
  <2>6. \A i \in 1..Len(toServer') : i \in 1..Len(toServer) \/ i = Len(toServer) + 1
    BY <1>0, <2>5
  <2>7. \A x : Expected(handler, x) => x # r
    BY <2>1 DEF Expected
  <2>8. \A x \in Request : (Expected(handler, x) \/ x = r) => Expected(handler', x)
    BY <2>1 DEF Expected, TypeOK
  <2>9. /\ \A i \in 1..Len(fromServer) : fromServer[i].request \in Request
        /\ \A i \in 1..Len(toServer) : IsQuestion(toServer[i]) =>
             toServer[i].request \in Request
    <3>1. \A i \in 1..Len(fromServer) : fromServer[i] \in Answer
      BY <1>0
    <3>2. \A i \in 1..Len(toServer) : toServer[i] \in Message
      BY <1>0
    <3>3. QED
      BY <3>1, <3>2 DEF Answer, Message, Question, Notification, IsQuestion
  <2>10. AnswersExpected'
    BY <2>1, <2>8, <2>9 DEF PairInv, AnswersExpected
  <2>11. QuestionsExpected'
    <3> SUFFICES ASSUME NEW i \in 1..Len(toServer'), IsQuestion(toServer'[i])
                 PROVE  /\ Expected(handler', toServer'[i].request)
                        /\ \A j \in 1..Len(toServer') :
                             IsQuestion(toServer'[j])
                             /\ toServer'[j].request = toServer'[i].request => j = i
                        /\ \A j \in 1..Len(fromServer) :
                             fromServer[j].request # toServer'[i].request
      BY <2>1 DEF QuestionsExpected, IsQuestion
    <3>1. PICK x \in Request : x = toServer'[i].request
      BY <2>3, <2>5, <2>6, <2>9
    <3>2. Expected(handler, x) \/ x = r
      BY <2>3, <2>5, <2>6, <3>1 DEF PairInv, QuestionsExpected
    <3>3. Expected(handler', x)
      BY <2>8, <3>2
    <3>4. \A j \in 1..Len(toServer') :
            IsQuestion(toServer'[j])
            /\ toServer'[j].request = toServer'[i].request => j = i
      BY <2>3, <2>5, <2>6, <2>7 DEF PairInv, QuestionsExpected
    <3>5. \A j \in 1..Len(fromServer) : fromServer[j].request # toServer'[i].request
      BY <2>3, <2>5, <2>6, <2>7 DEF PairInv, QuestionsExpected, AnswersExpected
    <3>6. QED
      BY <3>1, <3>3, <3>4, <3>5
  <2>12. OneWaits'
    BY <2>1, <2>4 DEF OneWaits, Waiting, TypeOK
  <2>13. QED
    BY <2>10, <2>11, <2>12 DEF PairInv
<1>7. CASE UNCHANGED <<handler, toServer, fromServer>>
  BY <1>7 DEF PairInv, OneWaits, Waiting, QuestionsExpected, AnswersExpected
<1>8. CASE ServeDidOpen \/ ServeDidChange \/ ServeOnRemove \/ ServeDidRename
  BY <1>1, <1>8 DEF ServeDidOpen, ServeDidChange, ServeOnRemove, ServeDidRename, backend
<1>9. CASE \E f \in File : \/ Background(f)
                           \/ BackgroundLast(f)
                           \/ DidOpen(f)
                           \/ DidChange(f)
                           \/ DidSave(f)
                           \/ DidClose(f)
                           \/ \E g \in Option(File) : WillMove(f, g)
  BY <1>7, <1>9 DEF Background, BackgroundLast, DidOpen, DidChange, DidSave, DidClose,
                    WillMove, backend
<1>10. CASE Move \/ UNCHANGED vars
  BY <1>7, <1>10 DEF Move, vars, backend
<1>11. QED
  BY <1>2, <1>3, <1>4, <1>5, <1>6, <1>8, <1>9, <1>10 DEF Next, Serve

\* Every reply is the answer.
LEMMA AnswersStep ==
  ASSUME TypeOK, FreshInv, (AsksOne /\ PairInv) \/ DistinctKinds, AnswersRight,
         [Next]_vars
  PROVE  AnswersRight'
<1>1. ASSUME NEW r \in Request, Recv(r)
      PROVE  AnswersRight'
  <2>1. CASE UNCHANGED reply
    BY <2>1 DEF AnswersRight
  <2>2. CASE ~UNCHANGED reply
    <3> DEFINE a == Head(fromServer)
    <3>1. /\ reply' = [reply EXCEPT ![r] = a]
          /\ handler[r] = "waiting" /\ fromServer # <<>>
          /\ KindOf[a.request] = KindOf[r]
      BY <1>1, <2>2 DEF Recv
    <3>2. a.request = r
      BY <3>1, PairMatch
    <3>3. fromServer \in Seq(Answer) /\ 1 \in 1..Len(fromServer) /\ a = fromServer[1]
      BY <3>1 DEF TypeOK
    <3>4. a.fresh = TRUE /\ a \in Answer
      BY <3>3 DEF FreshInv, AnswersFresh
    <3>5. a = [request |-> r, fresh |-> TRUE]
      BY <3>2, <3>4 DEF Answer
    <3>6. QED
      BY <3>1, <3>5 DEF AnswersRight, TypeOK
  <2>3. QED
    BY <2>1, <2>2
<1>2. CASE UNCHANGED reply
  BY <1>2 DEF AnswersRight
<1>3. QED
  BY <1>1, <1>2
     DEF Next, Serve, ServeDidOpen, ServeDidChange, ServeOnRemove, ServeDidRename,
         ServeRequest, Background, BackgroundLast, SendNotification, Cancel, Ask,
         DidOpen, DidChange, DidSave, DidClose, WillMove, Move, vars, backend

\* What a request returns is its answer, from the text the editor had when it
\* asked: whatever else the user does and whatever the background analysis
\* replays, as long as notifications are sent one by one, before a question is
\* asked, and the requests either come one by one, or are of distinct kinds,
\* however many wait at once.
THEOREM AnswersRightHolds ==
  ASSUME NotifiesOne, AsksOne \/ DistinctKinds
  PROVE  Spec => []AnswersRight
<1> DEFINE Inv == /\ TypeOK
                  /\ FreshInv
                  /\ (AsksOne /\ PairInv) \/ DistinctKinds
                  /\ AnswersRight
<1>1. Init => Inv
  <2> SUFFICES ASSUME Init PROVE Inv
    OBVIOUS
  <2>1. PairInv
    <3>1. Waiting = {}
      BY DEF Init, Waiting
    <3>2. Len(toServer) = 0 /\ Len(fromServer) = 0 /\ 1..0 = {}
      BY DEF Init
    <3>3. QED
      BY <3>1, <3>2 DEF PairInv, OneWaits, QuestionsExpected, AnswersExpected
  <2>2. AnswersRight
    BY DEF Init, AnswersRight
  <2>3. QED
    BY <2>1, <2>2, InitTypeOK, FreshInit
<1>2. Inv /\ [Next]_vars => Inv'
  <2> SUFFICES ASSUME Inv, [Next]_vars PROVE Inv'
    OBVIOUS
  <2>1. TypeOK' /\ FreshInv' /\ AnswersRight'
    BY NextTypeOK, FreshStep, AnswersStep
  <2>2. (AsksOne /\ PairInv')  \/ DistinctKinds
    BY PairStep
  <2>3. QED
    BY <2>1, <2>2 DEF AsksOne, DistinctKinds
<1>3. Inv => AnswersRight
  OBVIOUS
<1> HIDE DEF Inv
<1>4. QED
  BY <1>1, <1>2, <1>3, PTL DEF Spec

-----------------------------------------------------------------------------
(* The tables of an idle server *)

\* The server, whose documents are d, knows of f before message n + 1 of s.
Opens(m, f) == m.kind = "open" /\ m.file = f
Informed(s, d, f, n) == d[f] # None \/ \E j \in 1..n : Opens(s[j], f)

\* Who is informed still is when the first message has been worked off.
LEMMA InformedTail ==
  ASSUME NEW s \in Seq(Message), s # <<>>, NEW d, NEW e, NEW f,
         NEW n \in 1..Len(s), Informed(s, d, f, n),
         d[f] # None \/ Opens(Head(s), f) => e[f] # None
  PROVE  Informed(Tail(s), e, f, n - 1)
<1>1. /\ Len(s) \in Nat /\ Head(s) = s[1]
      /\ \A i \in 1..(Len(s) - 1) : Tail(s)[i] = s[i + 1]
  OBVIOUS
<1>2. CASE d[f] # None
  BY <1>2 DEF Informed
<1>3. CASE \E j \in 1..n : Opens(s[j], f)
  <2>1. PICK j \in 1..n : Opens(s[j], f)
    BY <1>3
  <2>2. CASE j = 1
    BY <1>1, <2>1, <2>2 DEF Informed
  <2>3. CASE j # 1
    <3>1. j - 1 \in 1..(n - 1) /\ Tail(s)[j - 1] = s[j]
      BY <1>1, <2>3
    <3>2. QED
      BY <2>1, <3>1 DEF Informed
  <2>4. QED
    BY <2>2, <2>3
<1>4. QED
  BY <1>2, <1>3 DEF Informed

\* Nor does a message behind matter, unless it informs.
LEMMA InformedAppend ==
  ASSUME NEW s \in Seq(Message), NEW m \in Message, NEW d, NEW f
  PROVE  /\ \A n \in 0..Len(s) : Informed(s, d, f, n) =>
              /\ Informed(Append(s, m), d, f, n)
              /\ Informed(Append(s, m), d, f, Len(s) + 1)
         /\ Opens(m, f) => Informed(Append(s, m), d, f, Len(s) + 1)
<1> DEFINE u == Append(s, m)
           k == Len(s)
<1>1. k \in Nat /\ u[k + 1] = m /\ \A i \in 1..k : u[i] = s[i]
  OBVIOUS
<1> HIDE DEF u, k
<1>2. ASSUME NEW n \in 0..k, Informed(s, d, f, n)
      PROVE  Informed(u, d, f, n) /\ Informed(u, d, f, k + 1)
  <2>1. \A j \in 1..n : j \in 1..(k + 1) /\ u[j] = s[j]
    BY <1>1
  <2>2. QED
    BY <1>2, <2>1 DEF Informed
<1>3. k + 1 \in 1..(k + 1)
  BY <1>1
<1>4. Opens(m, f) => Informed(u, d, f, k + 1)
  BY <1>1, <1>3 DEF Informed
<1>5. QED
  BY <1>2, <1>4 DEF u, k

\* Read-only files have no document and are never edited.
CachedAlone == \A f \in Cached : document[f] = None /\ buffer[f] \in {None, disk[f]}

\* The server has, or will have, a text of f from the editor.
Told(f) == document[f] # None \/ \E m \in InFlight : Changes(m, f)

\* That text is, or will be, the one the user sees, open or closed.
TextsSettle ==
  \A f \in File \ Cached : TextOf(f) # None /\ Told(f) =>
    /\ \A m \in handlers : Changes(m, f) => m.text = TextOf(f)
    /\ \/ \E m \in handlers : Changes(m, f)
       \/ Settled(toServer, document, f, TextOf(f), Len(toServer))

\* The server hears of a file by did_open before any change of it.
OpenFirst ==
  /\ \A i \in 1..Len(toServer) : toServer[i].kind = "change" =>
       /\ toServer[i].file \notin Cached
       /\ Informed(toServer, document, toServer[i].file, i - 1)
  /\ \A m \in handlers : m.kind = "change" =>
       /\ m.file \notin Cached
       /\ Informed(toServer, document, m.file, Len(toServer))
  /\ \A f \in File \ Cached : buffer[f] # None =>
       \/ Informed(toServer, document, f, Len(toServer))
       \/ \E m \in handlers : Opens(m, f)

\* Only what is gone, or about to go, is about to be dropped.
RemovedLeave == \A f \in File : Remove(f) \in InFlight => ~Staying(f)

\* A file is moved to a path the server has never heard of.
MovesToNew ==
  moving # None =>
    /\ moving[1] \notin Cached
    /\ \A f \in File : Remove(f) \in InFlight => f = moving[1]
    /\ moving[2] # None => /\ moving[2] \notin Cached
                           /\ disk[moving[2]] = None
                           /\ ~Told(moving[2])

\* The tables hold the documents, and the other files as soon as the tasks that
\* are there, or will be made, have been worked off.
ToldAnalysed ==
  \A f \in File \ Cached :
    document[f] # None /\ Staying(f) => tables[f] = Parsed(document[f])
Coming(m) == \/ m.kind = "did_rename" /\ backgroundDone
             \/ m.kind = "open" /\ m.file \notin Cached
UntoldAnalysed ==
  \A f \in File : Staying(f) /\ (f \in Cached \/ ~Told(f)) =>
    \/ tables[f] = Parsed(disk[f])
    \/ \E i \in 1..Len(tasks) : f \in tasks[i]
    \/ \E m \in InFlight : Coming(m)
    \/ \A g \in File : document[g] = None

TablesInv == /\ CachedAlone
             /\ TextsSettle
             /\ OpenFirst
             /\ RemovedLeave
             /\ MovesToNew
             /\ ToldAnalysed
             /\ UntoldAnalysed

\* The user sends notifications one by one, moves files while the server is
\* idle, not the one he edited last and not to a path he has used, and saves
\* before he closes.
Careful == /\ MaxNotifications <= 1
           /\ Habit \cap {"moves_early", "moves_edited", "reuses_paths", "discards"} = {}

Base == TypeOK /\ FilterEnds /\ GhostInv /\ OneInFlight /\ ReplayIdle

\* The server's steps when everything loads.
OpenLoaded ==
  LET m == Head(toServer)
  IN  /\ Received("open")
      /\ OnChange(tables, m.file, m.text, FALSE)
      /\ latest' = [file |-> m.file, text |-> m.text]
      /\ backgroundDone' = (m.file \in Cached)
      /\ tasks' = IF m.file \in Cached THEN tasks ELSE Append(tasks, Paths)
      /\ UNCHANGED <<editor, backend>>
ChangeLoaded ==
  LET m == Head(toServer)
  IN  /\ Received("change")
      /\ OnChange(tables, m.file, m.text, backgroundDone)
      /\ latest' = [file |-> m.file, text |-> m.text]
      /\ UNCHANGED <<editor, backend, backgroundDone, tasks>>
RenameLoaded ==
  /\ Received("did_rename")
  /\ IF backgroundDone
     THEN backgroundDone' = FALSE /\ tasks' = Append(tasks, Paths)
     ELSE UNCHANGED <<backgroundDone, tasks>>
  /\ UNCHANGED <<editor, backend, document, tables, published, latest>>
LastLoaded(f) ==
  /\ toServer = <<>>
  /\ Len(tasks) = 1
  /\ Head(tasks) \subseteq {f}
  /\ tasks' = <<>>
  /\ backgroundDone' = TRUE
  /\ latest' = None
  /\ IF latest = None
     THEN tables' = Scanned(f) /\ UNCHANGED <<document, published>>
     ELSE OnChange(Scanned(f), latest.file, latest.text, TRUE)
  /\ UNCHANGED <<editor, backend, toServer>>
ServeLoaded == \/ OpenLoaded \/ ChangeLoaded \/ ServeOnRemove \/ RenameLoaded
               \/ ServeRequest

\* As long as nothing has failed, those are the steps.
LEMMA NothingFails ==
  ASSUME TypeOK, failures' = 0
  PROVE  /\ Serve => ServeLoaded
         /\ \A f : BackgroundLast(f) => LastLoaded(f)
<1>1. ~ Fail
  BY LanguageServerAssumption DEF TypeOK, Fail
<1>2. ASSUME ServeDidOpen PROVE OpenLoaded
  <2> DEFINE m == Head(toServer)
  <2>1. /\ Received("open")
        /\ OnChange(tables, m.file, m.text, FALSE)
        /\ latest' = [file |-> m.file, text |-> m.text]
        /\ UNCHANGED <<editor, backend>>
    BY <1>1, <1>2, Zenon DEF ServeDidOpen, LoadFails
  <2>2. \/ m.file \in Cached /\ backgroundDone' = TRUE /\ tasks' = tasks
        \/ m.file \notin Cached /\ backgroundDone' = FALSE
             /\ tasks' = Append(tasks, Paths)
    BY <1>1, <1>2, Zenon DEF ServeDidOpen, LoadFails
  <2>3. backgroundDone' = (m.file \in Cached)
    <3>1. CASE m.file \in Cached
      <4>1. (m.file \in Cached) = TRUE
        BY <3>1
      <4>2. QED
        BY <2>2, <3>1, <4>1, Zenon
    <3>2. CASE m.file \notin Cached
      <4>1. (m.file \in Cached) = FALSE
        BY <3>2
      <4>2. QED
        BY <2>2, <3>2, <4>1, Zenon
    <3>3. QED
      BY <3>1, <3>2
  <2>4. tasks' = IF m.file \in Cached THEN tasks ELSE Append(tasks, Paths)
    BY <2>2, Zenon
  <2>5. QED
    BY <2>1, <2>3, <2>4, Zenon DEF OpenLoaded
<1>3. ServeDidChange => ChangeLoaded
  BY <1>1 DEF ServeDidChange, Change, LoadFails, ChangeLoaded
<1>4. ServeDidRename => RenameLoaded
  BY <1>1 DEF ServeDidRename, LoadFails, RenameLoaded
<1>5. ASSUME NEW f, BackgroundLast(f) PROVE LastLoaded(f)
  BY <1>1, <1>5 DEF BackgroundLast, Change, LoadFails, LastLoaded
<1>6. QED
  BY <1>2, <1>3, <1>4, <1>5 DEF Serve, ServeLoaded

\* And nothing had failed before.
LEMMA FailuresStay ==
  ASSUME TypeOK, [Next]_vars, failures' = 0
  PROVE  failures = 0
<1>1. ~ Fail
  BY LanguageServerAssumption DEF TypeOK, Fail
<1>2. ASSUME ServeDidOpen \/ ServeDidChange \/ ServeDidRename
      PROVE  UNCHANGED failures
  BY <1>1, <1>2 DEF ServeDidOpen, ServeDidChange, ServeDidRename, Change, LoadFails
<1>3. ASSUME NEW f, BackgroundLast(f) PROVE UNCHANGED failures
  BY <1>1, <1>3 DEF BackgroundLast, Change, LoadFails
<1>4. UNCHANGED failures
  BY <1>2, <1>3
     DEF Next, Serve, ServeOnRemove, ServeRequest, Background, SendNotification, Recv,
         Cancel, Ask, DidOpen, DidChange, DidSave, DidClose, WillMove, Move, vars, server
<1>5. QED
  BY <1>4

\* At first the server has heard of nothing.
LEMMA TablesInit == Init => TablesInv
<1> SUFFICES ASSUME Init PROVE TablesInv
  OBVIOUS
<1>1. InFlight = {} /\ Len(toServer) = 0 /\ 1..0 = {} /\ handlers = {}
  BY DEF Init, InFlight, Sent
<1>2. \A f \in File : document[f] = None /\ buffer[f] = None /\ ~Told(f)
  BY <1>1 DEF Init, Told
<1>3. moving = None
  BY DEF Init
<1>4. CachedAlone /\ TextsSettle /\ OpenFirst /\ ToldAnalysed /\ UntoldAnalysed
  BY <1>1, <1>2, LanguageServerAssumption
     DEF CachedAlone, TextsSettle, OpenFirst, ToldAnalysed, UntoldAnalysed
<1>5. RemovedLeave /\ MovesToNew
  BY <1>1, <1>3 DEF RemovedLeave, MovesToNew
<1>6. QED
  BY <1>4, <1>5 DEF TablesInv

\* Working off one message, if the documents change as the message says.
LEMMA TablesServed ==
  ASSUME Base, TablesInv, NEW kind, Received(kind),
         UNCHANGED <<disk, buffer, moving, handlers>>,
         \A f \in Cached : document'[f] = document[f],
         \A f \in File \ Cached :
           document'[f] = IF Changes(Head(toServer), f) THEN Head(toServer).text
                                                        ELSE document[f]
  PROVE  /\ CachedAlone' /\ TextsSettle' /\ OpenFirst' /\ RemovedLeave' /\ MovesToNew'
         /\ \A f \in File : Told(f)' => Told(f)
         /\ \A f \in File : Told(f) /\ ~Changes(Head(toServer), f) => Told(f)'
         /\ \A f \in File \ Cached : Told(f) => Told(f)'
         /\ Sent = Sent' \cup {Head(toServer)} /\ InFlight' \subseteq InFlight
         /\ Head(toServer) \in InFlight
<1> DEFINE m == Head(toServer)
<1>0. TypeOK
  BY DEF Base
<1>1. /\ toServer \in Seq(Message) /\ toServer # <<>> /\ toServer' = Tail(toServer)
      /\ m \in Message
  BY <1>0, ReceivedType DEF TypeOK, Received, Message
<1>2. /\ Len(toServer) \in Nat \ {0} /\ Len(toServer') = Len(toServer) - 1
      /\ \A i \in 1..Len(toServer') : toServer'[i] = toServer[i + 1]
      /\ Len(toServer) \in 1..Len(toServer)
  BY <1>1
<1>3. \A i \in 1..Len(toServer) : toServer[i] \in Message
  BY <1>1
<1>4. /\ Sent = Sent' \cup {m} /\ InFlight' \subseteq InFlight /\ m \in InFlight
      /\ \A x \in InFlight : x # m => x \in InFlight'
  BY <1>0, ReceivedSent DEF InFlight
<1>5. \A f \in File : Changes(m, f) => m.text \in Text /\ m.text # None
  BY <1>0, <1>4, ChangingType, LanguageServerAssumption DEF Changes
<1> HIDE DEF m
<1>6. /\ \A f \in File : Told(f)' => Told(f)
      /\ \A f \in File : Told(f) /\ ~Changes(m, f) => Told(f)'
      /\ \A f \in File \ Cached : Told(f) => Told(f)'
  <2>1. \A f \in File \ Cached :
          document'[f] = IF Changes(m, f) THEN m.text ELSE document[f]
    BY DEF m
  <2>2. QED
    BY <1>4, <1>5, <2>1 DEF Told, Changes
<1>7. CachedAlone'
  BY DEF TablesInv, CachedAlone
<1>8. TextsSettle'
  <2> SUFFICES ASSUME NEW f \in File \ Cached, TextOf(f) # None, Told(f)
               PROVE  /\ \A x \in handlers : Changes(x, f) => x.text = TextOf(f)
                      /\ \/ \E x \in handlers : Changes(x, f)
                         \/ Settled(toServer', document', f, TextOf(f), Len(toServer'))
    BY <1>6 DEF TextsSettle, TextOf, Changes
  <2> DEFINE t == TextOf(f)
  <2>1. Settled(toServer, document, f, t, Len(toServer)) =>
          Settled(toServer', document', f, t, Len(toServer) - 1)
    BY <1>1, <1>2, SettledTail
  <2>2. QED
    BY <1>2, <2>1 DEF TablesInv, TextsSettle
<1>9. OpenFirst'
  <2>1. ASSUME NEW f \in File \ Cached, NEW n \in 1..Len(toServer),
               Informed(toServer, document, f, n)
        PROVE  Informed(toServer', document', f, n - 1)
    <3>1. document[f] # None \/ Opens(m, f) => document'[f] # None
      BY <1>5 DEF m, Opens, Changes, Changing
    <3>2. QED
      BY <1>1, <2>1, <3>1, InformedTail DEF m
  <2>2. \A i \in 1..Len(toServer') : toServer'[i].kind = "change" =>
          /\ toServer'[i].file \notin Cached
          /\ Informed(toServer', document', toServer'[i].file, i - 1)
    <3> SUFFICES ASSUME NEW i \in 1..Len(toServer'), toServer'[i].kind = "change"
                 PROVE  /\ toServer'[i].file \notin Cached
                        /\ Informed(toServer', document', toServer'[i].file, i - 1)
      OBVIOUS
    <3> DEFINE q == toServer[i + 1]
    <3>1. /\ i + 1 \in 1..Len(toServer) /\ toServer'[i] = q /\ i \in 1..Len(toServer)
          /\ (i + 1) - 1 = i
      BY <1>2
    <3>2. q \in Message /\ q.kind = "change"
      BY <1>3, <3>1
    <3>3. q.file \in File
      BY <3>2 DEF Message, Notification, Question
    <3>4. q.file \notin Cached /\ Informed(toServer, document, q.file, i)
      BY <3>1, <3>2 DEF TablesInv, OpenFirst
    <3> HIDE DEF q
    <3>5. QED
      BY <2>1, <3>1, <3>3, <3>4
  <2>3. \A x \in handlers : x.kind = "change" =>
          /\ x.file \notin Cached
          /\ Informed(toServer', document', x.file, Len(toServer'))
    <3>1. \A x \in handlers : x.kind = "change" => x.file \in File
      BY <1>0 DEF TypeOK, Notification
    <3>2. QED
      BY <1>2, <2>1, <3>1 DEF TablesInv, OpenFirst
  <2>4. \A f \in File \ Cached : buffer[f] # None =>
          \/ Informed(toServer', document', f, Len(toServer'))
          \/ \E x \in handlers : Opens(x, f)
    BY <1>2, <2>1 DEF TablesInv, OpenFirst
  <2>5. QED
    BY <2>2, <2>3, <2>4 DEF OpenFirst, Opens
<1>10. RemovedLeave'
  BY <1>4 DEF TablesInv, RemovedLeave, Staying
<1>11. MovesToNew'
  <2>1. moving # None => moving[2] \in Option(File)
    BY <1>0, MovingType
  <2>2. moving # None /\ moving[2] # None => moving[2] \in File
    BY <2>1 DEF Option
  <2>3. ASSUME moving # None, moving[2] # None PROVE ~Told(moving[2])'
    <3>1. PICK g \in File : g = moving[2]
      BY <2>2, <2>3
    <3>2. ~Told(g)'
      BY <1>6, <2>3, <3>1 DEF TablesInv, MovesToNew
    <3>3. QED
      BY <3>1, <3>2 DEF Told
  <2>4. QED
    BY <1>4, <2>3 DEF TablesInv, MovesToNew
<1>12. QED
  BY <1>4, <1>6, <1>7, <1>8, <1>9, <1>10, <1>11 DEF m

\* The server's work on a message preserves TablesInv.
LEMMA TablesServe ==
  ASSUME Base, TablesInv, ServeLoaded
  PROVE  TablesInv'
<1> DEFINE m == Head(toServer)
<1>0. TypeOK
  BY DEF Base
<1>1. CASE OpenLoaded \/ ChangeLoaded
  <2>1. /\ UNCHANGED <<disk, buffer, moving, handlers>>
        /\ \E done : OnChange(tables, m.file, m.text, done)
        /\ Received("open") \/ Received("change")
    BY <1>1 DEF OpenLoaded, ChangeLoaded, editor, backend
  <2>2. m \in Message /\ m.kind \in Changing
    BY <1>0, <2>1, ReceivedType DEF Changing
  <2>3. m.file \in File /\ m.text \in Text /\ m.text # None
    BY <2>2, LanguageServerAssumption DEF Message, Notification, Question, Changing
  <2>4. /\ document' = IF m.file \in Cached THEN document
                                            ELSE [document EXCEPT ![m.file] = m.text]
        /\ tables' = IF m.file \in Cached THEN tables
                                          ELSE [tables EXCEPT ![m.file] = Parsed(m.text)]
    BY <2>1 DEF OnChange
  <2>5. /\ \A f \in Cached : document'[f] = document[f]
        /\ \A f \in File \ Cached :
             document'[f] = IF Changes(m, f) THEN m.text ELSE document[f]
    BY <1>0, <2>2, <2>3, <2>4, LanguageServerAssumption DEF TypeOK, Changes
  <2>6. /\ CachedAlone' /\ TextsSettle' /\ OpenFirst' /\ RemovedLeave' /\ MovesToNew'
        /\ \A f \in File : Told(f)' => Told(f)
        /\ \A f \in File : Told(f) /\ ~Changes(m, f) => Told(f)'
        /\ \A f \in File \ Cached : Told(f) => Told(f)'
        /\ Sent = Sent' \cup {m} /\ m \in InFlight
    BY <2>1, <2>5, TablesServed
  <2>7. \A f \in File : Staying(f)' <=> Staying(f)
    BY <2>1 DEF Staying
  <2>8. ToldAnalysed'
    <3> SUFFICES ASSUME NEW f \in File \ Cached, document'[f] # None, Staying(f)
                 PROVE  tables'[f] = Parsed(document'[f])
      BY <2>7 DEF ToldAnalysed, Parsed
    <3>1. CASE f = m.file
      BY <1>0, <2>3, <2>4, <3>1 DEF TypeOK
    <3>2. CASE f # m.file
      <4>1. document'[f] = document[f] /\ tables'[f] = tables[f]
        BY <1>0, <2>3, <2>4, <3>2 DEF TypeOK
      <4>2. QED
        BY <4>1 DEF TablesInv, ToldAnalysed
    <3>3. QED
      BY <3>1, <3>2
  <2>9. UntoldAnalysed'
    <3> SUFFICES ASSUME NEW f \in File, Staying(f), f \in Cached \/ ~Told(f)'
                 PROVE  \/ tables'[f] = Parsed(disk[f])
                        \/ \E i \in 1..Len(tasks') : f \in tasks'[i]
                        \/ \E x \in InFlight' : Coming(x)'
                        \/ \A g \in File : document'[g] = None
      BY <2>1, <2>7 DEF UntoldAnalysed, Parsed
    <3>1. CASE OpenLoaded /\ m.file \notin Cached
      <4>1. tasks' = Append(tasks, Paths) /\ tasks \in Seq(SUBSET File)
            /\ Paths \in SUBSET File
        BY <1>0, <3>1 DEF OpenLoaded, TypeOK, Paths
      <4>2. /\ Len(tasks') = Len(tasks) + 1 /\ Len(tasks) \in Nat
            /\ tasks'[Len(tasks) + 1] = Paths
        BY <4>1
      <4>3. Len(tasks) + 1 \in 1..Len(tasks') /\ f \in Paths
        BY <4>2 DEF Paths, Staying
      <4>4. QED
        BY <4>2, <4>3
    <3>2. CASE OpenLoaded /\ m.file \in Cached
      <4>1. /\ tables' = tables /\ document' = document /\ tasks' = tasks
            /\ backgroundDone' = TRUE /\ m.kind = "open"
        BY <2>4, <3>2 DEF OpenLoaded, Received
      <4>2. f \in Cached \/ ~Told(f)
        BY <2>6 DEF Changes
      <4>3. \A x \in InFlight : Coming(x) => x \in InFlight' /\ Coming(x)'
        <5>1. \A x \in InFlight : x = m \/ x \in InFlight'
          BY <2>1, <2>6 DEF InFlight
        <5>2. ~Coming(m)
          BY <3>2, <4>1 DEF Coming
        <5>3. \A x \in InFlight : Coming(x) => Coming(x)'
          BY <4>1 DEF Coming
        <5>4. QED
          BY <5>1, <5>2, <5>3
      <4>4. QED
        BY <4>1, <4>2, <4>3 DEF TablesInv, UntoldAnalysed
    <3>3. CASE ChangeLoaded
      <4>1. /\ tasks' = tasks /\ backgroundDone' = backgroundDone
            /\ m.kind = "change"
        BY <3>3 DEF ChangeLoaded, Received
      <4>2. m.file \notin Cached /\ document[m.file] # None
        <5>1. toServer \in Seq(Message) /\ toServer # <<>>
          BY <1>0, <3>3 DEF ChangeLoaded, Received, TypeOK, Message
        <5>2. 1 \in 1..Len(toServer) /\ m = toServer[1] /\ 1 - 1 = 0 /\ 1..0 = {}
          BY <5>1
        <5>3. /\ toServer[1].file \notin Cached
              /\ Informed(toServer, document, toServer[1].file, 1 - 1)
          BY <4>1, <5>2 DEF TablesInv, OpenFirst
        <5>4. QED
          BY <5>2, <5>3 DEF Informed
      <4>3. f # m.file
        BY <2>3, <2>4, <4>2 DEF Told, Base, TypeOK
      <4>4. f \in Cached \/ ~Told(f)
        BY <2>6, <4>3 DEF Changes
      <4>5. tables'[f] = tables[f]
        BY <1>0, <2>3, <2>4, <4>3 DEF TypeOK
      <4>6. \A x \in InFlight : Coming(x) => x \in InFlight' /\ Coming(x)'
        <5>1. \A x \in InFlight : x = m \/ x \in InFlight'
          BY <2>1, <2>6 DEF InFlight
        <5>2. ~Coming(m)
          BY <4>1 DEF Coming
        <5>3. \A x \in InFlight : Coming(x) => Coming(x)'
          BY <4>1 DEF Coming
        <5>4. QED
          BY <5>1, <5>2, <5>3
      <4>7. ~\A g \in File : document[g] = None
        BY <2>3, <4>2
      <4>8. QED
        BY <4>1, <4>4, <4>5, <4>6, <4>7 DEF TablesInv, UntoldAnalysed
    <3>4. QED
      BY <1>1, <3>1, <3>2, <3>3
  <2>10. QED
    BY <2>6, <2>8, <2>9 DEF TablesInv
<1>2. CASE ServeOnRemove \/ RenameLoaded \/ ServeRequest
  <2>1. /\ UNCHANGED <<disk, buffer, moving, handlers, document>>
        /\ Received("remove") \/ Received("did_rename") \/ Received("request")
    BY <1>2 DEF ServeOnRemove, RenameLoaded, ServeRequest, editor, backend, server
  <2>2. m \in Message /\ m.kind \notin Changing
    BY <1>0, <2>1, ReceivedType DEF Changing
  <2>3. \A f \in File \ Cached :
          document'[f] = IF Changes(m, f) THEN m.text ELSE document[f]
    BY <2>1, <2>2 DEF Changes
  <2>4. \A f \in Cached : document'[f] = document[f]
    BY <2>1
  <2>5. /\ CachedAlone' /\ TextsSettle' /\ OpenFirst' /\ RemovedLeave' /\ MovesToNew'
        /\ \A f \in File : Told(f) /\ ~Changes(m, f) => Told(f)'
        /\ Sent = Sent' \cup {m} /\ m \in InFlight
    BY <2>1, <2>3, <2>4, TablesServed
  <2>6. /\ \A f \in File : Staying(f)' <=> Staying(f)
        /\ \A f \in File : Told(f) => Told(f)'
    BY <2>1, <2>2, <2>5 DEF Staying, Changes
  <2>7. \A f \in File : Staying(f) => tables'[f] = tables[f]
    <3>1. CASE ServeOnRemove
      <4>1. tables' = [tables EXCEPT ![m.file] = None] /\ m.kind = "remove"
        BY <3>1 DEF ServeOnRemove, Received
      <4>2. m = Remove(m.file) /\ m.file \in File
        <5>1. m \in [kind: {"remove", "did_rename"}, file: File]
          BY <2>2, <4>1 DEF Message, Notification, Question
        <5> HIDE DEF m
        <5>2. QED
          BY <4>1, <5>1 DEF Remove
      <4>3. ~Staying(m.file)
        BY <2>5, <4>2 DEF TablesInv, RemovedLeave
      <4>4. QED
        BY <1>0, <4>1, <4>2, <4>3 DEF TypeOK
    <3>2. CASE RenameLoaded \/ ServeRequest
      BY <3>2 DEF RenameLoaded, ServeRequest, server
    <3>3. QED
      BY <1>2, <3>1, <3>2
  <2>8. ToldAnalysed'
    BY <2>1, <2>6, <2>7 DEF TablesInv, ToldAnalysed, Parsed
  <2>9. UntoldAnalysed'
    <3> SUFFICES ASSUME NEW f \in File, Staying(f), f \in Cached \/ ~Told(f)
                 PROVE  \/ tables'[f] = Parsed(disk[f])
                        \/ \E i \in 1..Len(tasks') : f \in tasks'[i]
                        \/ \E x \in InFlight' : Coming(x)'
                        \/ \A g \in File : document[g] = None
      BY <2>1, <2>6 DEF UntoldAnalysed, Parsed
    <3>1. CASE RenameLoaded /\ backgroundDone
      <4>1. tasks' = Append(tasks, Paths) /\ tasks \in Seq(SUBSET File)
            /\ Paths \in SUBSET File
        BY <1>0, <3>1 DEF RenameLoaded, TypeOK, Paths
      <4>2. /\ Len(tasks') = Len(tasks) + 1 /\ Len(tasks) \in Nat
            /\ tasks'[Len(tasks) + 1] = Paths
        BY <4>1
      <4>3. Len(tasks) + 1 \in 1..Len(tasks') /\ f \in Paths
        BY <4>2 DEF Paths, Staying
      <4>4. QED
        BY <4>2, <4>3
    <3>2. CASE ~(RenameLoaded /\ backgroundDone)
      <4>1. tasks' = tasks /\ backgroundDone' = backgroundDone
        BY <1>2, <3>2 DEF ServeOnRemove, RenameLoaded, ServeRequest, server
      <4>2. ~Coming(m)
        BY <1>2, <2>2, <3>2
           DEF ServeOnRemove, RenameLoaded, ServeRequest, Received, Coming, Changing
      <4>3. \A x \in InFlight : Coming(x) => x \in InFlight' /\ Coming(x)'
        <5>1. \A x \in InFlight : x = m \/ x \in InFlight'
          BY <2>1, <2>5 DEF InFlight
        <5>2. \A x \in InFlight : Coming(x) => Coming(x)'
          BY <4>1 DEF Coming
        <5>3. QED
          BY <4>2, <5>1, <5>2
      <4>4. QED
        BY <2>7, <4>1, <4>3 DEF TablesInv, UntoldAnalysed
    <3>3. QED
      BY <3>1, <3>2
  <2>10. QED
    BY <2>5, <2>8, <2>9 DEF TablesInv
<1>3. QED
  BY <1>1, <1>2 DEF ServeLoaded

\* The background analysis preserves TablesInv: a path that leaves its task has
\* been analysed, and the replay repeats what the tables hold.
LEMMA TablesBackground ==
  ASSUME Base, TablesInv, NEW p \in File, Background(p) \/ LastLoaded(p)
  PROVE  TablesInv'
<1>0. TypeOK
  BY DEF Base
<1>1. /\ UNCHANGED <<disk, buffer, moving, handlers, toServer>>
      /\ backgroundDone' = backgroundDone \/ backgroundDone' = TRUE
  BY DEF Background, LastLoaded, editor, backend
<1>2. \A f \in File : Scanned(p)[f] =
        IF f = p /\ p \in Head(tasks) /\ document[p] = None /\ disk[p] # None
        THEN Parsed(disk[p]) ELSE tables[f]
  BY <1>0 DEF Scanned, TypeOK
<1>3. /\ document' = document
      /\ \A f \in File : \/ tables'[f] = Scanned(p)[f]
                         \/ /\ f \notin Cached /\ document[f] # None
                            /\ tables'[f] = Parsed(document[f])
  <2>1. CASE Background(p) \/ latest = None
    BY <2>1 DEF Background, LastLoaded
  <2>2. CASE LastLoaded(p) /\ latest # None
    <3>1. latest.file \in File /\ latest.text \in Text /\ latest.text # None
      BY <1>0, <2>2, LanguageServerAssumption DEF TypeOK, Option
    <3>2. latest.file \in Cached \/ document[latest.file] = latest.text
      BY <2>2 DEF Base, ReplayIdle
    <3>3. OnChange(Scanned(p), latest.file, latest.text, TRUE)
      BY <2>2 DEF LastLoaded
    <3>4. document' = IF latest.file \in Cached THEN document
                        ELSE [document EXCEPT ![latest.file] = latest.text]
      BY <3>3 DEF OnChange
    <3>5. document' = document
      BY <1>0, <3>1, <3>2, <3>4 DEF TypeOK
    <3>6. /\ tables' = IF latest.file \in Cached THEN Scanned(p)
                       ELSE [Scanned(p) EXCEPT ![latest.file] = Parsed(latest.text)]
          /\ Scanned(p) \in [File -> Option(Text)]
      <4>1. Scanned(p) \in [File -> Option(Text)]
        BY <1>0, ScannedType
      <4>2. QED
        BY <3>3, <4>1 DEF OnChange
    <3>7. QED
      BY <3>1, <3>2, <3>5, <3>6
  <2>3. QED
    BY <2>1, <2>2
<1>4. \A f \in File : (\E i \in 1..Len(tasks) : f \in tasks[i]) =>
        \/ f = p /\ p \in Head(tasks)
        \/ \E i \in 1..Len(tasks') : f \in tasks'[i]
  <2> SUFFICES ASSUME NEW f \in File, NEW i \in 1..Len(tasks), f \in tasks[i],
                      ~(f = p /\ p \in Head(tasks))
               PROVE  \E j \in 1..Len(tasks') : f \in tasks'[j]
    OBVIOUS
  <2>1. /\ tasks \in Seq(SUBSET File) /\ Len(tasks) \in Nat /\ tasks # <<>>
        /\ Head(tasks) = tasks[1] /\ Head(tasks) \in SUBSET File
        /\ Tail(tasks) \in Seq(SUBSET File) /\ Len(Tail(tasks)) = Len(tasks) - 1
        /\ \A j \in 1..(Len(tasks) - 1) : Tail(tasks)[j] = tasks[j + 1]
    <3>1. tasks \in Seq(SUBSET File) /\ Len(tasks) \in Nat
      BY <1>0 DEF TypeOK
    <3>2. tasks # <<>>
      BY <3>1
    <3>3. QED
      BY <3>1, <3>2
  <2>2. i = 1 => f \in Head(tasks) /\ f # p
    BY <2>1
  <2>3. i # 1 => i - 1 \in 1..(Len(tasks) - 1) /\ Tail(tasks)[i - 1] = tasks[i]
    BY <2>1
  <2>4. CASE tasks' = Tail(tasks) /\ Head(tasks) \subseteq {p}
    BY <2>1, <2>2, <2>3, <2>4
  <2>5. CASE tasks' = <<Head(tasks) \ {p}>> \o Tail(tasks)
    <3> DEFINE h == Head(tasks) \ {p}
    <3>1. h \in SUBSET File
      BY <2>1
    <3> HIDE DEF h
    <3>2. /\ Len(<<h>> \o Tail(tasks)) = Len(tasks)
          /\ (<<h>> \o Tail(tasks))[1] = h
          /\ \A j \in 1..(Len(tasks) - 1) : (<<h>> \o Tail(tasks))[j + 1] = Tail(tasks)[j]
      <4>1. <<h>> \in Seq(SUBSET File) /\ Len(<<h>>) = 1 /\ <<h>>[1] = h
        BY <3>1
      <4> DEFINE u == <<h>>
                 v == Tail(tasks)
      <4>2. /\ Len(u \o v) = Len(u) + Len(v)
            /\ \A j \in 1..Len(u) : (u \o v)[j] = u[j]
            /\ \A j \in 1..Len(v) : (u \o v)[j + Len(u)] = v[j]
        <5>1. u \in Seq(SUBSET File) /\ v \in Seq(SUBSET File)
          BY <2>1, <4>1
        <5> HIDE DEF u, v
        <5>2. QED
          BY <5>1
      <4>3. QED
        BY <2>1, <4>1, <4>2
    <3>3. tasks'[1] = h /\ Len(tasks') = Len(tasks)
          /\ \A j \in 1..(Len(tasks) - 1) : tasks'[j + 1] = Tail(tasks)[j]
      BY <2>5, <3>2 DEF h
    <3>4. CASE i = 1
      <4>1. f \in h
        BY <2>2, <3>4 DEF h
      <4>2. QED
        BY <3>3, <3>4, <4>1
    <3>5. CASE i # 1
      <4>1. (i - 1) + 1 = i /\ i - 1 \in 1..(Len(tasks) - 1)
        BY <2>3, <3>5
      <4>2. tasks'[i] = tasks[i]
        BY <2>3, <3>3, <3>5, <4>1
      <4>3. QED
        BY <3>3, <4>2
    <3>6. QED
      BY <3>4, <3>5
  <2>6. CASE Len(tasks) = 1 /\ Head(tasks) \subseteq {p}
    BY <2>1, <2>2, <2>6
  <2>7. QED
    BY <2>4, <2>5, <2>6 DEF Background, LastLoaded
<1>5. Sent' = Sent /\ InFlight' = InFlight
  BY <1>1 DEF Sent, InFlight
<1>6. /\ \A f \in File : Staying(f)' <=> Staying(f)
      /\ \A f \in File : Told(f)' <=> Told(f)
  BY <1>1, <1>3, <1>5 DEF Staying, Told
<1>7. CachedAlone' /\ TextsSettle' /\ OpenFirst' /\ RemovedLeave'
  BY <1>1, <1>3, <1>5, <1>6
     DEF TablesInv, CachedAlone, TextsSettle, TextOf, OpenFirst, RemovedLeave
<1>8. MovesToNew'
  BY <1>1, <1>3, <1>5 DEF TablesInv, MovesToNew, Told
<1>9. ToldAnalysed'
  BY <1>2, <1>3, <1>6 DEF TablesInv, ToldAnalysed, Parsed
<1>10. UntoldAnalysed'
  <2> SUFFICES ASSUME NEW f \in File, Staying(f), f \in Cached \/ ~Told(f)
               PROVE  \/ tables'[f] = Parsed(disk[f])
                      \/ \E i \in 1..Len(tasks') : f \in tasks'[i]
                      \/ \E x \in InFlight : Coming(x)'
                      \/ \A g \in File : document[g] = None
    BY <1>1, <1>3, <1>5, <1>6 DEF UntoldAnalysed, Parsed
  <2>1. document[f] = None /\ disk[f] # None
    BY DEF TablesInv, CachedAlone, Told, Staying
  <2>2. tables'[f] = IF f = p /\ p \in Head(tasks) THEN Parsed(disk[f]) ELSE tables[f]
    BY <1>2, <1>3, <2>1
  <2>3. \A x \in InFlight : Coming(x) => Coming(x)'
    BY <1>1 DEF Coming
  <2>4. QED
    BY <1>4, <2>2, <2>3 DEF TablesInv, UntoldAnalysed
<1>11. QED
  BY <1>7, <1>8, <1>9, <1>10 DEF TablesInv

\* Sending a notification moves it from its handler into the channel.
LEMMA TablesSend ==
  ASSUME Base, TablesInv, NEW m \in handlers, SendNotification(m)
  PROVE  TablesInv'
<1>0. TypeOK /\ m \in Message /\ toServer \in Seq(Message)
  BY DEF Base, TypeOK, Message
<1>1. /\ handlers' = {} /\ handlers = {m} /\ toServer' = Append(toServer, m)
      /\ UNCHANGED <<disk, buffer, moving, document, tables, tasks, backgroundDone>>
  BY DEF SendNotification, editor, server, Base, OneInFlight
<1>2. InFlight' = InFlight
  <2>1. Sent' = Sent \cup {m}
    BY <1>0, <1>1, AppendSent
  <2>2. QED
    BY <1>1, <2>1 DEF InFlight
<1>3. /\ Len(toServer) \in Nat /\ Len(toServer') = Len(toServer) + 1
      /\ toServer'[Len(toServer) + 1] = m
      /\ \A i \in 1..Len(toServer) : toServer'[i] = toServer[i] /\ i - 1 \in 0..Len(toServer)
      /\ \A i \in 1..Len(toServer') : i \in 1..Len(toServer) \/ i = Len(toServer) + 1
      /\ Len(toServer) \in 0..Len(toServer) /\ Len(toServer') - 1 = Len(toServer)
  BY <1>0, <1>1
<1>4. \A f \in File : (Told(f)' <=> Told(f)) /\ (Staying(f)' <=> Staying(f))
  BY <1>1, <1>2 DEF Told, Staying
<1>5. TextsSettle'
  <2> SUFFICES ASSUME NEW f \in File \ Cached, TextOf(f) # None, Told(f)
               PROVE  Settled(toServer', document, f, TextOf(f), Len(toServer'))
    BY <1>1, <1>4 DEF TextsSettle, TextOf
  <2> DEFINE t == TextOf(f)
  <2> HIDE DEF t
  <2>1. /\ Changes(m, f) => m.text = t
        /\ Changes(m, f) \/ Settled(toServer, document, f, t, Len(toServer))
    BY <1>1 DEF TablesInv, TextsSettle, t
  <2>2. /\ Settled(toServer, document, f, t, Len(toServer)) /\ ~Changes(m, f) =>
             Settled(toServer', document, f, t, Len(toServer'))
        /\ Changes(m, f) => Settled(toServer', document, f, m.text, Len(toServer'))
    <3>1. /\ Settled(toServer, document, f, t, Len(toServer)) /\ ~Changes(m, f) =>
               Settled(Append(toServer, m), document, f, t, Len(toServer) + 1)
          /\ Changes(m, f) =>
               Settled(Append(toServer, m), document, f, m.text, Len(toServer) + 1)
      BY <1>0, SettledAppend
    <3>2. QED
      BY <1>1, <1>3, <3>1
  <2>3. Settled(toServer', document, f, t, Len(toServer'))
    BY <2>1, <2>2
  <2>4. QED
    BY <2>3 DEF t
<1>6. OpenFirst'
  <2>1. \A f : \A n \in 0..Len(toServer) : Informed(toServer, document, f, n) =>
          /\ Informed(toServer', document, f, n)
          /\ Informed(toServer', document, f, Len(toServer'))
    BY <1>0, <1>1, <1>3, InformedAppend
  <2>2. \A f : Opens(m, f) => Informed(toServer', document, f, Len(toServer'))
    BY <1>0, <1>1, <1>3, InformedAppend
  <2>3. \A i \in 1..Len(toServer') : toServer'[i].kind = "change" =>
          /\ toServer'[i].file \notin Cached
          /\ Informed(toServer', document, toServer'[i].file, i - 1)
    <3> SUFFICES ASSUME NEW i \in 1..Len(toServer'), toServer'[i].kind = "change"
                 PROVE  /\ toServer'[i].file \notin Cached
                        /\ Informed(toServer', document, toServer'[i].file, i - 1)
      OBVIOUS
    <3>1. CASE i \in 1..Len(toServer)
      <4>1. /\ toServer[i].file \notin Cached
            /\ Informed(toServer, document, toServer[i].file, i - 1)
        BY <1>3, <3>1 DEF TablesInv, OpenFirst
      <4>2. QED
        BY <1>3, <2>1, <3>1, <4>1
    <3>2. CASE i = Len(toServer) + 1
      <4>1. /\ m.file \notin Cached
            /\ Informed(toServer, document, m.file, Len(toServer))
        BY <1>1, <1>3, <3>2 DEF TablesInv, OpenFirst
      <4>2. i - 1 = Len(toServer) /\ toServer'[i] = m
        BY <1>3, <3>2
      <4>3. Informed(toServer', document, m.file, Len(toServer))
        BY <1>3, <2>1, <4>1
      <4>4. QED
        BY <4>1, <4>2, <4>3
    <3>3. QED
      BY <1>3, <3>1, <3>2
  <2>4. \A f \in File \ Cached : buffer[f] # None =>
          Informed(toServer', document, f, Len(toServer'))
    BY <1>1, <1>3, <2>1, <2>2 DEF TablesInv, OpenFirst
  <2>5. QED
    BY <1>1, <2>3, <2>4 DEF OpenFirst
<1>7. CachedAlone' /\ RemovedLeave' /\ ToldAnalysed'
  BY <1>1, <1>2, <1>4 DEF TablesInv, CachedAlone, RemovedLeave, ToldAnalysed, Parsed
<1>8. MovesToNew'
  BY <1>1, <1>2 DEF TablesInv, MovesToNew, Told
<1>9. UntoldAnalysed'
  BY <1>1, <1>2, <1>4 DEF TablesInv, UntoldAnalysed, Parsed, Coming
<1>10. QED
  BY <1>5, <1>6, <1>7, <1>8, <1>9 DEF TablesInv

\* Questions are not about the tables.
LEMMA TablesAsk ==
  ASSUME Base, TablesInv, NEW r \in Request, NEW f \in File, Ask(r, f)
  PROVE  TablesInv'
<1> DEFINE q == [kind |-> "request", file |-> f, text |-> buffer[f], request |-> r]
<1>0. TypeOK /\ toServer \in Seq(Message)
  BY DEF Base, TypeOK, Message
<1>1. /\ toServer' = Append(toServer, q)
      /\ UNCHANGED <<disk, buffer, moving, handlers, document, tables, tasks, backgroundDone>>
  BY DEF Ask, editor, server
<1>2. q \in Message
  BY <1>0 DEF Ask, TypeOK, Option, Question, Message
<1>3. q.kind = "request"
  OBVIOUS
<1> HIDE DEF q
<1>4. Sent' = Sent \cup {q} /\ InFlight' = InFlight \cup {q}
  BY <1>0, <1>1, <1>2, AppendSent DEF InFlight
<1>5. \A g : ~Changes(q, g) /\ Remove(g) # q
  BY <1>3 DEF Changes, Changing, Remove
<1>6. \A g : (Told(g)' <=> Told(g)) /\ (Staying(g)' <=> Staying(g))
  BY <1>1, <1>4, <1>5 DEF Told, Staying
<1>7. /\ Len(toServer) \in Nat /\ Len(toServer') = Len(toServer) + 1
      /\ toServer'[Len(toServer) + 1] = q
      /\ \A i \in 1..Len(toServer) : toServer'[i] = toServer[i] /\ i - 1 \in 0..Len(toServer)
      /\ \A i \in 1..Len(toServer') : i \in 1..Len(toServer) \/ i = Len(toServer) + 1
      /\ Len(toServer) \in 0..Len(toServer)
  BY <1>0, <1>1, <1>2
<1>8. TextsSettle'
  <2>1. ASSUME NEW g, NEW t, Settled(toServer, document, g, t, Len(toServer))
        PROVE  Settled(toServer', document, g, t, Len(toServer'))
    <3>1. Settled(Append(toServer, q), document, g, t, Len(toServer) + 1)
      BY <1>0, <1>2, <1>5, <2>1, SettledAppend
    <3>2. QED
      BY <1>1, <1>7, <3>1
  <2>2. QED
    BY <1>1, <1>6, <2>1 DEF TablesInv, TextsSettle, TextOf
<1>9. OpenFirst'
  <2>1. \A g : \A n \in 0..Len(toServer) : Informed(toServer, document, g, n) =>
          /\ Informed(toServer', document, g, n)
          /\ Informed(toServer', document, g, Len(toServer'))
    BY <1>0, <1>1, <1>2, <1>7, InformedAppend
  <2>2. \A i \in 1..Len(toServer') : toServer'[i].kind = "change" =>
          /\ toServer'[i].file \notin Cached
          /\ Informed(toServer', document, toServer'[i].file, i - 1)
    <3> SUFFICES ASSUME NEW i \in 1..Len(toServer'), toServer'[i].kind = "change"
                 PROVE  /\ toServer'[i].file \notin Cached
                        /\ Informed(toServer', document, toServer'[i].file, i - 1)
      OBVIOUS
    <3>1. i \in 1..Len(toServer)
      BY <1>3, <1>7
    <3>2. /\ toServer[i].file \notin Cached
          /\ Informed(toServer, document, toServer[i].file, i - 1)
      BY <1>7, <3>1 DEF TablesInv, OpenFirst
    <3>3. QED
      BY <1>7, <2>1, <3>1, <3>2
  <2>3. \A m \in handlers : m.kind = "change" =>
          /\ m.file \notin Cached
          /\ Informed(toServer', document, m.file, Len(toServer'))
    BY <1>7, <2>1 DEF TablesInv, OpenFirst
  <2>4. \A g \in File \ Cached : buffer[g] # None =>
          \/ Informed(toServer', document, g, Len(toServer'))
          \/ \E m \in handlers : Opens(m, g)
    BY <1>7, <2>1 DEF TablesInv, OpenFirst
  <2>5. QED
    BY <1>1, <2>2, <2>3, <2>4 DEF OpenFirst
<1>10. CachedAlone' /\ RemovedLeave' /\ ToldAnalysed'
  BY <1>1, <1>4, <1>5, <1>6 DEF TablesInv, CachedAlone, RemovedLeave, ToldAnalysed, Parsed
<1>11. MovesToNew'
  <2>1. moving # None => (Told(moving[2])' <=> Told(moving[2]))
    BY <1>1, <1>4, <1>5 DEF Told
  <2>2. QED
    BY <1>1, <1>4, <1>5, <2>1 DEF TablesInv, MovesToNew
<1>12. UntoldAnalysed'
  <2>1. \A m \in InFlight : Coming(m) => m \in InFlight' /\ Coming(m)'
    BY <1>1, <1>4 DEF Coming
  <2>2. QED
    BY <1>1, <1>6, <2>1 DEF TablesInv, UntoldAnalysed, Parsed
<1>13. QED
  BY <1>8, <1>9, <1>10, <1>11, <1>12 DEF TablesInv

\* What is opened or changed is told, and a file that is opened for the first
\* time, unless it is read-only, has all the others analysed.
LEMMA TablesEdit ==
  ASSUME MaxNotifications <= 1, Base, TablesInv, NEW f \in File, DidOpen(f) \/ DidChange(f)
  PROVE  TablesInv'
<1>0. TypeOK
  BY DEF Base
<1>1. PICK m : /\ handlers = {} /\ handlers' = {m} /\ m.file = f /\ m.kind \in Changing
               /\ buffer'[f] = m.text /\ m.text \in Text
               /\ DidOpen(f) => m.kind = "open" /\ m.text = disk[f]
               /\ DidChange(f) => f \notin Cached
               /\ m.kind = "open" \/ buffer[f] # None
               /\ m.kind = "open" => DidOpen(f)
  <2>1. CASE DidOpen(f)
    <3> DEFINE o == [kind |-> "open", file |-> f, text |-> disk[f]]
    <3>1. handlers = {} /\ handlers' = {o}
      BY <2>1, NotifyAlone DEF DidOpen, Base
    <3>2. o.file = f /\ o.kind = "open" /\ o.text = disk[f]
      OBVIOUS
    <3>3. buffer'[f] = disk[f] /\ disk[f] \in Text /\ ~DidChange(f)
      BY <1>0, <2>1 DEF DidOpen, DidChange, TypeOK, Option
    <3> HIDE DEF o
    <3>4. QED
      BY <2>1, <3>1, <3>2, <3>3 DEF Changing
  <2>2. CASE DidChange(f)
    <3> DEFINE o == [kind |-> "change", file |-> f, text |-> buffer[f] + 1]
    <3>1. handlers = {} /\ handlers' = {o}
      BY <2>2, NotifyAlone DEF DidChange, Base
    <3>2. o.file = f /\ o.kind = "change" /\ o.text = buffer[f] + 1
      OBVIOUS
    <3>3. /\ buffer'[f] = buffer[f] + 1 /\ buffer[f] + 1 \in Text
          /\ buffer[f] # None /\ ~DidOpen(f) /\ f \notin Cached
      <4>1. buffer[f] \in Text /\ buffer[f] < MaxText
        BY <1>0, <2>2 DEF DidChange, TypeOK, Option
      <4>2. buffer[f] + 1 \in Text
        BY <4>1, LanguageServerAssumption DEF Text
      <4>3. QED
        BY <1>0, <2>2, <4>2 DEF DidChange, DidOpen, TypeOK
    <3> HIDE DEF o
    <3>4. QED
      BY <2>2, <3>1, <3>2, <3>3 DEF Changing
  <2>3. QED
    BY <2>1, <2>2
<1>2. /\ UNCHANGED <<disk, moving, toServer, document, tables, tasks, backgroundDone>>
      /\ \A g \in File : g # f => buffer'[g] = buffer[g]
      /\ f \in Cached => buffer'[f] = disk[f]
      /\ m.text # None
  BY <1>0, <1>1, LanguageServerAssumption DEF DidOpen, DidChange, server, TypeOK
<1>3. Sent' = Sent /\ InFlight' = InFlight \cup {m}
  BY <1>1, <1>2 DEF Sent, InFlight
<1>4. /\ \A g : Changes(m, g) <=> g = f
      /\ \A g : Remove(g) # m
      /\ \A g : Opens(m, g) <=> g = f /\ m.kind = "open"
  BY <1>1 DEF Changes, Remove, Changing, Opens
<1>5. \A g \in File : /\ g # f => (Told(g)' <=> Told(g))
                      /\ Told(g) => Told(g)'
                      /\ Staying(g)' <=> Staying(g)
  BY <1>2, <1>3, <1>4 DEF Told, Staying
<1>6. CachedAlone' /\ ToldAnalysed' /\ RemovedLeave'
  <2>1. CachedAlone'
    BY <1>2, LanguageServerAssumption DEF TablesInv, CachedAlone
  <2>2. QED
    BY <1>2, <1>3, <1>4, <1>5, <2>1 DEF TablesInv, ToldAnalysed, Parsed, RemovedLeave
<1>7. TextsSettle'
  <2> SUFFICES ASSUME NEW g \in File \ Cached, TextOf(g)' # None, Told(g)'
               PROVE  /\ Changes(m, g) => m.text = TextOf(g)'
                      /\ Changes(m, g) \/ Settled(toServer, document, g, TextOf(g)', Len(toServer))
    BY <1>1, <1>2 DEF TextsSettle, Changes
  <2>1. CASE g = f
    <3>1. TextOf(f)' = m.text
      BY <1>1, <1>2, <2>1 DEF TextOf
    <3>2. QED
      BY <1>4, <2>1, <3>1
  <2>2. CASE g # f
    <3>1. TextOf(g)' = TextOf(g) /\ Told(g) /\ ~Changes(m, g)
      BY <1>2, <1>4, <1>5, <2>2 DEF TextOf
    <3>2. QED
      BY <1>1, <3>1 DEF TablesInv, TextsSettle
  <2>3. QED
    BY <2>1, <2>2
<1>8. OpenFirst'
  <2>1. m.kind = "change" =>
          f \notin Cached /\ Informed(toServer, document, f, Len(toServer))
    <3>1. m.kind = "change" => DidChange(f) /\ buffer[f] # None
      BY <1>1 DEF DidOpen
    <3>2. QED
      BY <1>1, <3>1 DEF TablesInv, OpenFirst
  <2>2. \A g \in File \ Cached : buffer'[g] # None =>
          \/ Informed(toServer, document, g, Len(toServer))
          \/ Opens(m, g)
    <3>1. m.kind \in {"open", "change"}
      BY <1>1 DEF Changing
    <3>2. QED
      BY <1>1, <1>2, <1>4, <2>1, <3>1 DEF TablesInv, OpenFirst
  <2>3. QED
    BY <1>1, <1>2, <2>1, <2>2 DEF TablesInv, OpenFirst
<1>9. MovesToNew'
  <2> SUFFICES ASSUME moving # None PROVE MovesToNew'
    BY <1>2 DEF MovesToNew
  <2>1. moving[2] # None => moving[2] \in File /\ moving[2] # f
    <3>1. moving[2] \in Option(File)
      BY <1>0, MovingType
    <3>2. disk[f] # None
      BY DEF DidOpen, DidChange, Base, GhostInv, BuffersStay, Staying
    <3>3. QED
      BY <3>1, <3>2 DEF Option, TablesInv, MovesToNew
  <2>2. moving[2] # None => (Told(moving[2])' <=> Told(moving[2]))
    BY <1>2, <1>3, <1>4, <2>1 DEF Told
  <2>3. QED
    BY <1>2, <1>3, <1>4, <2>1, <2>2 DEF TablesInv, MovesToNew
<1>10. UntoldAnalysed'
  <2>1. \A x \in InFlight : Coming(x) => x \in InFlight' /\ Coming(x)'
    BY <1>2, <1>3 DEF Coming
  <2>2. QED
    BY <1>2, <1>5, <2>1 DEF TablesInv, UntoldAnalysed, Parsed
<1>11. QED
  BY <1>6, <1>7, <1>8, <1>9, <1>10 DEF TablesInv

\* Saving and closing change nothing the user sees, and a file that is open is
\* one the server has been told about.
LEMMA TablesKeep ==
  ASSUME Careful, Base, TablesInv, NEW f \in File, DidSave(f) \/ DidClose(f)
  PROVE  TablesInv'
<1>0. TypeOK
  BY DEF Base
<1>1. /\ UNCHANGED <<moving, handlers, toServer, document, tables, tasks, backgroundDone>>
      /\ \A g \in File : g # f => disk'[g] = disk[g] /\ buffer'[g] = buffer[g]
      /\ buffer[f] # None /\ disk[f] # None /\ disk'[f] = buffer[f]
      /\ buffer'[f] \in {None, buffer[f]}
      /\ disk[f] # buffer[f] => disk'[f] = buffer'[f] /\ f \notin Cached
  <2>1. CASE DidSave(f)
    <3>1. f \notin Cached
      BY <2>1 DEF DidSave, TablesInv, CachedAlone
    <3>2. QED
      BY <1>0, <2>1, <3>1 DEF DidSave, backend, server, TypeOK
  <2>2. CASE DidClose(f)
    BY <1>0, <2>2 DEF DidClose, Careful, backend, server, TypeOK, Base, GhostInv,
                      BuffersStay, Staying
  <2>3. QED
    BY <2>1, <2>2
<1>2. Sent' = Sent /\ InFlight' = InFlight
  BY <1>1 DEF Sent, InFlight
<1>3. \A g \in File : /\ TextOf(g)' = TextOf(g)
                      /\ Told(g)' <=> Told(g)
                      /\ Staying(g)' <=> Staying(g)
  BY <1>1, <1>2 DEF TextOf, Told, Staying
<1>4. CachedAlone' /\ TextsSettle' /\ RemovedLeave' /\ ToldAnalysed'
  <2>1. CachedAlone'
    BY <1>1, LanguageServerAssumption DEF TablesInv, CachedAlone
  <2>2. TextsSettle'
    BY <1>1, <1>3 DEF TablesInv, TextsSettle
  <2>3. QED
    BY <1>1, <1>2, <1>3, <2>1, <2>2 DEF TablesInv, RemovedLeave, ToldAnalysed, Parsed
<1>5. OpenFirst'
  BY <1>1 DEF TablesInv, OpenFirst
<1>6. MovesToNew'
  <2> SUFFICES ASSUME moving # None PROVE MovesToNew'
    BY <1>1 DEF MovesToNew
  <2>1. moving[2] # None => moving[2] \in File /\ moving[2] # f
    BY <1>0, <1>1, MovingType DEF Option, TablesInv, MovesToNew
  <2>2. Told(moving[2])' <=> Told(moving[2])
    BY <1>1, <1>2 DEF Told
  <2>3. QED
    BY <1>1, <1>2, <2>1, <2>2 DEF TablesInv, MovesToNew
<1>7. UntoldAnalysed'
  <2>1. f \in Cached \/ Told(f)
    <3>1. toServer \in Seq(Message)
      BY <1>0 DEF TypeOK, Message
    <3>2. \A j \in 1..Len(toServer) : toServer[j] \in InFlight
      BY <3>1 DEF InFlight, Sent
    <3>3. \A x : Opens(x, f) => Changes(x, f)
      BY DEF Opens, Changes, Changing
    <3>4. \A x \in handlers : x \in InFlight
      BY DEF InFlight
    <3>5. QED
      BY <1>1, <3>2, <3>3, <3>4 DEF TablesInv, OpenFirst, Informed, Told
  <2>2. \A g \in File : g \in Cached \/ ~Told(g) => disk'[g] = disk[g]
    BY <1>1, <2>1
  <2>3. \A x \in InFlight : Coming(x) => x \in InFlight' /\ Coming(x)'
    BY <1>1, <1>2 DEF Coming
  <2>4. QED
    BY <1>1, <1>3, <2>2, <2>3 DEF TablesInv, UntoldAnalysed, Parsed
<1>8. QED
  BY <1>4, <1>5, <1>6, <1>7 DEF TablesInv

\* A file about to move is dropped from the tables of an idle server.
LEMMA TablesWillMove ==
  ASSUME Careful, Base, TablesInv, NEW f \in File, NEW g \in Option(File), WillMove(f, g)
  PROVE  TablesInv'
<1>0. TypeOK
  BY DEF Base
<1>1. /\ handlers = {} /\ toServer = <<>> /\ moving = None
      /\ f \notin Cached /\ moving' = <<f, g>>
      /\ g # None => disk[g] = None /\ g \notin Cached /\ document[g] = None
      /\ handlers' = {Remove(f)}
      /\ UNCHANGED <<disk, buffer, toServer, document, tables, tasks, backgroundDone>>
  BY DEF WillMove, Notify, Careful, Idle, Remove, server
<1>2. InFlight = {} /\ InFlight' = {Remove(f)}
  BY <1>1 DEF Sent, InFlight
<1>3. \A x : ~Changes(Remove(f), x) /\ ~Opens(Remove(f), x)
  BY DEF Remove, Changes, Changing, Opens
<1>4. /\ moving'[1] = f /\ moving'[2] = g /\ moving' # None
      /\ \A h \in File : Remove(h) = Remove(f) => h = f
  <2>1. \A h \in File : Remove(h).file = h
    BY DEF Remove
  <2>2. <<f, g>> # None
    BY LanguageServerAssumption DEF Option
  <2>3. QED
    BY <1>1, <2>1, <2>2
<1>5. /\ \A h : Told(h)' <=> Told(h)
      /\ \A h : Told(h) <=> document[h] # None
      /\ \A h : Staying(h)' => Staying(h)
      /\ \A h : h # f => (Staying(h) => Staying(h)')
      /\ ~Staying(f)'
      /\ \A h : TextOf(h)' = TextOf(h)
  BY <1>1, <1>2, <1>3, <1>4 DEF Told, Staying, TextOf
<1>6. CachedAlone' /\ TextsSettle' /\ OpenFirst' /\ ToldAnalysed'
  <2>1. TextsSettle'
    BY <1>1, <1>3, <1>5 DEF TablesInv, TextsSettle
  <2>2. OpenFirst'
    <3>1. Remove(f).kind # "change"
      BY DEF Remove
    <3>2. QED
      BY <1>1, <1>3, <3>1 DEF TablesInv, OpenFirst
  <2>3. QED
    BY <1>1, <1>5, <2>1, <2>2 DEF TablesInv, CachedAlone, ToldAnalysed, Parsed
<1>7. RemovedLeave'
  <2> SUFFICES ASSUME NEW h \in File, Remove(h) \in InFlight' PROVE ~Staying(h)'
    BY DEF RemovedLeave, Remove
  <2>1. h = f
    BY <1>2, <1>4
  <2>2. QED
    BY <1>5, <2>1
<1>8. MovesToNew'
  <2>1. \A h \in File : Remove(h) \in InFlight' => h = f
    BY <1>2, <1>4
  <2>2. g # None => ~Told(g)'
    BY <1>1, <1>5
  <2>3. Told(moving[2])' <=> Told(g)'
    BY <1>1, <1>4 DEF Told
  <2>4. QED
    BY <1>1, <1>4, <2>1, <2>2, <2>3 DEF MovesToNew, Remove
<1>9. UntoldAnalysed'
  BY <1>1, <1>2, <1>5 DEF TablesInv, UntoldAnalysed, Parsed
<1>10. QED
  BY <1>6, <1>7, <1>8, <1>9 DEF TablesInv

\* The move itself: background_done holds when did_rename_files arrives, so
\* that the task it makes analyses the file at its new path.
LEMMA TablesMove ==
  ASSUME MaxNotifications <= 1, Base, TablesInv, Move
  PROVE  TablesInv'
<1>f. PICK f, g : f = moving[1] /\ g = moving[2]
  OBVIOUS
<1>0. TypeOK
  BY DEF Base
<1>1. /\ moving # None /\ moving' = None
      /\ disk' = IF g = None THEN [disk EXCEPT ![f] = None]
                             ELSE [disk EXCEPT ![f] = None, ![g] = disk[f]]
      /\ UNCHANGED <<buffer, toServer, document, tables, tasks, backgroundDone>>
  BY <1>f DEF Move, server
<1>2. /\ f \in File /\ g \in Option(File) /\ disk[f] # None /\ backgroundDone = TRUE
      /\ f \notin Cached
      /\ \A h \in File : Remove(h) \in InFlight => h = f
      /\ g # None => /\ g \in File \ Cached /\ disk[g] = None /\ ~Told(g) /\ g # f
                     /\ buffer[g] = None
      /\ buffer[f] = None
  <2>1. f \in File /\ g \in Option(File) /\ disk[f] # None /\ tasks = <<>>
    BY <1>f, <1>0, <1>1, MovingType DEF Base, GhostInv, MovingQuietly
  <2>2. backgroundDone = TRUE
    BY <1>0, <2>1 DEF Base, FilterEnds, TypeOK
  <2>3. g # None => /\ g \in File \ Cached /\ disk[g] = None /\ ~Told(g) /\ g # f
    BY <1>f, <1>1, <2>1 DEF TablesInv, MovesToNew, Option
  <2>4. ~Staying(f) /\ (g # None => ~Staying(g))
    BY <1>f, <1>1, <2>3 DEF Staying
  <2>5. QED
    BY <1>f, <1>1, <2>1, <2>2, <2>3, <2>4
       DEF TablesInv, MovesToNew, Base, GhostInv, BuffersStay
<1> DEFINE d == [kind |-> "did_rename", file |-> f]
<1>3. IF g = None THEN handlers' = handlers ELSE handlers = {} /\ handlers' = {d}
  BY <1>f, NotifyAlone DEF Move, Base
<1>4. d.kind = "did_rename"
  OBVIOUS
<1> HIDE DEF d
<1>5. /\ Sent' = Sent /\ handlers \subseteq handlers' /\ handlers' \subseteq handlers \cup {d}
      /\ InFlight \subseteq InFlight' /\ InFlight' \subseteq InFlight \cup {d}
      /\ g # None => d \in InFlight'
  BY <1>1, <1>3 DEF Sent, InFlight
<1>6. \A h : ~Changes(d, h) /\ ~Opens(d, h) /\ Remove(h) # d
  BY <1>4 DEF Changes, Changing, Opens, Remove
<1>7. /\ \A h : Told(h)' <=> Told(h)
      /\ \A h \in File : h # f /\ h # g => disk'[h] = disk[h]
      /\ disk'[f] = None
      /\ g # None => disk'[g] # None
  <2>1. \A h : Told(h)' <=> Told(h)
    BY <1>1, <1>5, <1>6 DEF Told
  <2>2. QED
    BY <1>0, <1>1, <1>2, <2>1 DEF TypeOK, Option
<1>8. /\ \A h \in File : h # f /\ h # g => (Staying(h)' <=> Staying(h))
      /\ ~Staying(f)'
      /\ \A h \in File : h # f /\ h # g => TextOf(h)' = TextOf(h)
      /\ TextOf(f)' = None
  <2>1. ~Staying(f)' /\ TextOf(f)' = None
    BY <1>1, <1>2, <1>7 DEF Staying, TextOf
  <2>2. ASSUME NEW h \in File, h # f, h # g
        PROVE  (Staying(h)' <=> Staying(h)) /\ TextOf(h)' = TextOf(h)
    BY <1>f, <1>1, <1>7, <2>2 DEF Staying, TextOf
  <2>3. QED
    BY <2>1, <2>2
<1>9. CachedAlone'
  <2>1. \A h \in Cached : h \in File /\ h # f /\ h # g
    BY <1>2, LanguageServerAssumption
  <2>2. QED
    BY <1>1, <1>7, <2>1 DEF TablesInv, CachedAlone
<1>10. TextsSettle'
  <2> SUFFICES ASSUME NEW h \in File \ Cached, TextOf(h)' # None, Told(h)
               PROVE  /\ \A m \in handlers' : Changes(m, h) => m.text = TextOf(h)'
                      /\ \/ \E m \in handlers' : Changes(m, h)
                         \/ Settled(toServer, document, h, TextOf(h)', Len(toServer))
    BY <1>1, <1>7 DEF TextsSettle
  <2>1. h # f /\ h # g
    BY <1>2, <1>8, LanguageServerAssumption
  <2>2. TextOf(h)' = TextOf(h)
    BY <1>8, <2>1
  <2>3. QED
    BY <1>5, <1>6, <2>2 DEF TablesInv, TextsSettle
<1>11. OpenFirst'
  BY <1>1, <1>4, <1>5 DEF TablesInv, OpenFirst
<1>12. RemovedLeave'
  <2> SUFFICES ASSUME NEW h \in File, Remove(h) \in InFlight' PROVE ~Staying(h)'
    BY DEF RemovedLeave, Remove
  <2>1. h = f
    BY <1>2, <1>5, <1>6
  <2>2. QED
    BY <1>8, <2>1
<1>13. MovesToNew'
  BY <1>1 DEF MovesToNew
<1>14. ToldAnalysed'
  <2> SUFFICES ASSUME NEW h \in File \ Cached, document[h] # None, Staying(h)'
               PROVE  tables[h] = Parsed(document[h])
    BY <1>1 DEF ToldAnalysed, Parsed
  <2>1. h # f /\ h # g
    BY <1>2, <1>8, LanguageServerAssumption DEF Told
  <2>2. QED
    BY <1>8, <2>1 DEF TablesInv, ToldAnalysed
<1>15. UntoldAnalysed'
  <2> SUFFICES ASSUME NEW h \in File, Staying(h)', h \in Cached \/ ~Told(h)
               PROVE  \/ tables[h] = Parsed(disk'[h])
                      \/ \E i \in 1..Len(tasks) : h \in tasks[i]
                      \/ \E m \in InFlight' : Coming(m)'
                      \/ \A k \in File : document[k] = None
    BY <1>1, <1>7 DEF UntoldAnalysed, Parsed
  <2>1. CASE g # None
    <3>1. PICK m \in InFlight' : m.kind = "did_rename"
      BY <1>4, <1>5, <2>1
    <3>2. Coming(m)'
      BY <1>1, <1>2, <3>1 DEF Coming
    <3>3. QED
      BY <3>2
  <2>2. CASE g = None
    <3>1. h # f /\ h # g
      BY <1>8, <2>2, LanguageServerAssumption
    <3>2. Staying(h) /\ disk'[h] = disk[h]
      BY <1>7, <1>8, <3>1
    <3>3. \A m \in InFlight : Coming(m) => m \in InFlight' /\ Coming(m)'
      BY <1>1, <1>5 DEF Coming
    <3>4. QED
      BY <3>2, <3>3 DEF TablesInv, UntoldAnalysed
  <2>3. QED
    BY <2>1, <2>2
<1>16. QED
  BY <1>9, <1>10, <1>11, <1>12, <1>13, <1>14, <1>15 DEF TablesInv

\* With one notification at a time, one handler runs and the replay repeats
\* what the server has.
LEMMA CalmStep ==
  ASSUME MaxNotifications <= 1, TypeOK, OneInFlight, ReplayIdle, Next
  PROVE  OneInFlight' /\ ReplayIdle'
<1>1. OneInFlight'
  <2>1. handlers' \subseteq handlers \/ \E m : Notify(m)
    BY DEF Next, Serve, ServeDidOpen, ServeDidChange, ServeOnRemove, ServeDidRename,
           ServeRequest, Background, BackgroundLast, SendNotification, Recv, Cancel,
           Ask, DidOpen, DidChange, DidSave, DidClose, WillMove, Move, backend
  <2>2. ASSUME NEW m, Notify(m) PROVE OneInFlight'
    <3>1. handlers' = {m}
      BY <2>2, NotifyAlone
    <3>2. QED
      BY <3>1 DEF OneInFlight
  <2>3. QED
    BY <2>1, <2>2 DEF OneInFlight
<1>2. ReplayIdle'
  <2>1. CASE ServeDidOpen \/ ServeDidChange
    <3> DEFINE m == Head(toServer)
    <3>1. /\ latest' = [file |-> m.file, text |-> m.text]
          /\ Handled(tables, m.file, m.text)
          /\ Received("open") \/ Received("change")
      BY <2>1, ServedText DEF ServeDidOpen, ServeDidChange
    <3>2. m \in Message /\ m.kind \in Changing
      BY <3>1, ReceivedType DEF Changing
    <3>3. m.file \in File
      BY <3>2 DEF Message, Notification, Question
    <3>4. m.file \notin Cached => document' = [document EXCEPT ![m.file] = m.text]
      <4>1. tables \in [File -> Option(Text)]
        BY DEF TypeOK
      <4> HIDE DEF m
      <4>2. QED
        BY <3>1, <3>3, <4>1, HandledText
    <3>5. document \in [File -> Option(Text)]
      BY DEF TypeOK
    <3>6. latest'.file = m.file /\ latest'.text = m.text
      BY <3>1
    <3>7. m.file \notin Cached => document'[m.file] = m.text
      BY <3>3, <3>4, <3>5
    <3>8. QED
      BY <3>6, <3>7 DEF ReplayIdle
  <2>2. CASE \E f \in File : Background(f)
    BY <2>2 DEF Background, ReplayIdle
  <2>3. CASE \E f \in File : BackgroundLast(f)
    BY <2>3 DEF BackgroundLast, ReplayIdle
  <2>4. CASE UNCHANGED <<document, latest>>
    BY <2>4 DEF ReplayIdle
  <2>5. QED
    BY <2>1, <2>2, <2>3, <2>4
       DEF Next, Serve, ServeOnRemove, ServeDidRename,
           ServeRequest, SendNotification, Recv, Cancel,
           Ask, DidOpen, DidChange, DidSave, DidClose, WillMove, Move, server
<1>3. QED
  BY <1>1, <1>2

\* Every step preserves the first invariant, whatever fails to load.
LEMMA BaseStep ==
  ASSUME Careful, Base, [Next]_vars
  PROVE  Base'
<1>1. TypeOK' /\ FilterEnds'
  BY NextTypeOK, NextFilterEnds DEF Base
<1>2. CASE UNCHANGED vars
  <2>1. UNCHANGED <<disk, buffer, moving, handlers, toServer, document, tables,
                    tasks, latest>>
    BY <1>2 DEF vars, editor, backend, server
  <2>2. Sent' = Sent /\ InFlight' = InFlight
    BY <2>1 DEF Sent, InFlight
  <2>3. GhostInv' /\ OneInFlight' /\ ReplayIdle'
    BY <2>1, <2>2 DEF Base, GhostInv, ChangesStay, LatestStays, BuffersStay, MovingQuietly,
                      GoneForgotten, Staying, OneInFlight, ReplayIdle
  <2>4. QED
    BY <1>1, <2>3 DEF Base
<1>3. CASE Next
  <2>1. MovesLate /\ MaxNotifications <= 1
    BY DEF Careful, MovesLate
  <2>2. GhostInv'
    BY <1>3, <2>1, GhostServer, GhostEditor DEF Base, Next
  <2>3. OneInFlight' /\ ReplayIdle'
    BY <1>3, <2>1, CalmStep DEF Base
  <2>4. QED
    BY <1>1, <2>2, <2>3 DEF Base
<1>4. QED
  BY <1>2, <1>3

\* And the second, if nothing does.
LEMMA TablesStep ==
  ASSUME Careful, Base, TablesInv, [Next]_vars, failures' = 0
  PROVE  TablesInv'
<1>1. CASE UNCHANGED vars
  <2>1. UNCHANGED <<disk, buffer, moving, handlers, toServer, document, tables,
                    tasks, backgroundDone, latest>>
    BY <1>1 DEF vars, editor, backend, server
  <2>3. Sent' = Sent /\ InFlight' = InFlight
    BY <2>1 DEF Sent, InFlight
  <2>5. \A f : Told(f)' <=> Told(f)
    BY <2>1, <2>3 DEF Told
  <2>6. CachedAlone' /\ TextsSettle' /\ OpenFirst'
    BY <2>1, <2>5 DEF TablesInv, CachedAlone, TextsSettle, OpenFirst, TextOf
  <2>7. RemovedLeave' /\ MovesToNew'
    BY <2>1, <2>3 DEF TablesInv, RemovedLeave, MovesToNew, Staying, Told
  <2>8. ToldAnalysed' /\ UntoldAnalysed'
    BY <2>1, <2>3, <2>5 DEF TablesInv, ToldAnalysed, UntoldAnalysed, Staying, Parsed, Coming
  <2>9. QED
    BY <2>6, <2>7, <2>8 DEF TablesInv
<1>2. CASE Next
  <2>0. MovesLate /\ MaxNotifications <= 1
    BY DEF Careful, MovesLate
  <2>1. /\ Serve => ServeLoaded
        /\ \A f : BackgroundLast(f) => LastLoaded(f)
    BY NothingFails DEF Base
  <2>4. CASE \E r \in Request : Recv(r) \/ Cancel(r)
    <3>1. UNCHANGED <<disk, buffer, moving, handlers, toServer, document, tables,
                      tasks, backgroundDone>>
      BY <2>4 DEF Recv, Cancel, editor, server
    <3>2. Sent' = Sent /\ InFlight' = InFlight
      BY <3>1 DEF Sent, InFlight
    <3>3. \A f : Told(f)' <=> Told(f)
      BY <3>1, <3>2 DEF Told
    <3>4. CachedAlone' /\ TextsSettle' /\ OpenFirst'
      BY <3>1, <3>3 DEF TablesInv, CachedAlone, TextsSettle, OpenFirst, TextOf
    <3>5. RemovedLeave' /\ MovesToNew'
      BY <3>1, <3>2 DEF TablesInv, RemovedLeave, MovesToNew, Staying, Told
    <3>6. ToldAnalysed' /\ UntoldAnalysed'
      BY <3>1, <3>2, <3>3 DEF TablesInv, ToldAnalysed, UntoldAnalysed, Staying, Parsed, Coming
    <3>7. QED
      BY <3>4, <3>5, <3>6 DEF TablesInv
  <2>5. QED
    BY <1>2, <2>0, <2>1, <2>4, TablesServe, TablesBackground, TablesSend, TablesAsk, TablesEdit,
       TablesKeep, TablesWillMove, TablesMove
       DEF Next
<1>3. QED
  BY <1>1, <1>2

\* Nothing that is on its way, or being done, concerns a text or a path.
Calm == /\ moving = None /\ tasks = <<>>
        /\ \A m \in InFlight : m.kind \notin Changing \cup {"did_rename"}
        /\ \E g \in File : document[g] # None
AllCurrent == \A f \in File : TextOf(f) # None => tables[f] = Parsed(TextOf(f))

\* In a calm state everything has been analysed.
LEMMA AllAnalysed == Base /\ TablesInv /\ Calm => AllCurrent
<1> SUFFICES ASSUME Base, TablesInv, Calm, NEW f \in File, TextOf(f) # None
             PROVE  tables[f] = Parsed(TextOf(f))
  BY DEF AllCurrent
<1>1. PICK g \in File : document[g] # None
  BY DEF Calm
<1>2. /\ moving = None /\ Len(tasks) = 0 /\ 1..0 = {}
      /\ \A m \in InFlight : ~Changes(m, f) /\ ~Coming(m)
  BY DEF Calm, Changes, Coming, Changing
<1>3. \A j \in 1..Len(toServer) : toServer[j] \in InFlight
  BY DEF InFlight, Sent, Base, TypeOK
<1>4. Staying(f)
  BY <1>2 DEF TextOf, Base, GhostInv, BuffersStay, Staying
<1>5. CASE f \notin Cached /\ Told(f)
  <2>1. Settled(toServer, document, f, TextOf(f), Len(toServer))
    BY <1>2, <1>5 DEF TablesInv, TextsSettle, InFlight
  <2>2. document[f] = TextOf(f)
    BY <1>2, <1>3, <2>1 DEF Settled
  <2>3. QED
    BY <1>4, <1>5, <2>2 DEF TablesInv, ToldAnalysed
<1>6. CASE f \in Cached \/ ~Told(f)
  <2>1. TextOf(f) = disk[f]
    <3>1. CASE f \in Cached
      BY <3>1 DEF TextOf
    <3>2. CASE f \notin Cached /\ ~Told(f)
      <4>1. \A m \in InFlight : ~Opens(m, f)
        BY <1>2 DEF Opens, Changes, Changing
      <4>2. document[f] = None
        BY <3>2 DEF Told
      <4>3. ~Informed(toServer, document, f, Len(toServer))
        BY <1>3, <4>1, <4>2 DEF Informed
      <4>4. buffer[f] = None
        BY <3>2, <4>1, <4>3 DEF TablesInv, OpenFirst, InFlight
      <4>5. QED
        BY <4>4 DEF TextOf
    <3>3. QED
      BY <1>6, <3>1, <3>2
  <2>2. QED
    BY <1>1, <1>2, <1>4, <1>6, <2>1 DEF TablesInv, UntoldAnalysed
<1>7. QED
  BY <1>5, <1>6

\* For a user who lets one notification through at a time, moves files while
\* the server is idle, not the one edited last nor to a path used before, and
\* saves before closing, an idle server that has opened a file has analysed all
\* of them from what the user sees, however he switches between files, as long
\* as no metadata or paths have failed to load.
THEOREM TablesCompleteHolds ==
  ASSUME Careful
  PROVE  Spec => []TablesComplete
<1> DEFINE Inv == Base /\ (failures = 0 => TablesInv)
<1>1. Init => Inv
  <2> SUFFICES ASSUME Init PROVE Inv
    OBVIOUS
  <2>1. TypeOK /\ GhostInv /\ TablesInv
    BY InitTypeOK, GhostInit, TablesInit
  <2>2. FilterEnds /\ OneInFlight /\ ReplayIdle
    BY DEF Init, FilterEnds, OneInFlight, ReplayIdle
  <2>3. QED
    BY <2>1, <2>2 DEF Base
<1>2. Inv /\ [Next]_vars => Inv'
  <2> SUFFICES ASSUME Inv, [Next]_vars PROVE Inv'
    OBVIOUS
  <2>1. Base'
    BY BaseStep
  <2>2. failures' = 0 => failures = 0
    BY FailuresStay DEF Base
  <2>3. failures' = 0 => TablesInv'
    BY <2>2, TablesStep
  <2>4. QED
    BY <2>1, <2>3
<1>3. Inv => TablesComplete
  <2> SUFFICES ASSUME Inv, Idle, failures = 0, \E f \in File : document[f] # None
               PROVE  AllCurrent
    BY DEF TablesComplete, AllCurrent
  <2>1. Calm
    BY DEF Idle, Calm, InFlight, Sent
  <2>2. QED
    BY <2>1, AllAnalysed
<1>4. QED
  BY <1>1, <1>2, <1>3, PTL DEF Spec

-----------------------------------------------------------------------------
(* The diagnostics of an idle server *)

Leaving == {"remove", "did_rename"}

\* Texts on their way are of one file, and of none while a path is moved; the
\* old path is gone when a rename is notified, once; while there are tasks, the
\* texts on their way are of the file that is analysed again at the end.
OneTopic ==
  \A m, n \in InFlight : m.kind \in Changing /\ n.kind \in Changing => m.file = n.file
Apart == \A m, n \in InFlight : m.kind \in Leaving => n.kind \notin Changing
QuietMove == moving # None => \A m \in InFlight : m.kind \notin Changing
RenamedGone == \A m \in InFlight : m.kind = "did_rename" => disk[m.file] = None
RenameOnce ==
  \A m \in handlers : m.kind = "did_rename" =>
    tasks = <<>> /\ \A n \in Sent : n.kind # "did_rename"
ReplayTopic ==
  tasks # <<>> =>
    \A m \in InFlight : m.kind \in Changing => latest # None /\ m.file = latest.file

TopicInv == OneTopic /\ Apart /\ QuietMove /\ RenamedGone /\ RenameOnce /\ ReplayTopic

\* The diagnostics of an open file are right, or will be: its text is on its
\* way, or it will be analysed again when the tasks are worked off.
Whole(text) == [text |-> text, whole |-> TRUE]
PublishedInTime ==
  \A f \in File \ Cached : buffer[f] # None =>
    \/ \E m \in InFlight : Changes(m, f)
    \/ tasks # <<>> /\ latest # None /\ latest.file = f
    \/ published[f] = Whole(buffer[f])

\* The user is careful and waits for the analysis before he turns to another
\* file.
OneFile == Careful /\ "switches" \notin Habit

\* What on_change publishes: nothing but of the file.
LEMMA OnChangePublishes ==
  ASSUME TypeOK, NEW t \in [File -> Option(Text)], NEW f \in File, NEW text,
         NEW done, OnChange(t, f, text, done)
  PROVE  /\ \A g \in File : g # f \/ f \in Cached => published'[g] = published[g]
         /\ f \notin Cached => document' = [document EXCEPT ![f] = text]
  BY DEF OnChange, TypeOK

\* And, when the background analysis is done, all there is to say of it.
LEMMA OnChangeWhole ==
  ASSUME TypeOK, NEW t \in [File -> Option(Text)], NEW f \in File \ Cached, NEW text,
         OnChange(t, f, text, TRUE), Complete(tables')
  PROVE  published'[f] = Whole(text)
<1>1. /\ tables' = [t EXCEPT ![f] = Parsed(text)]
      /\ published' = [published EXCEPT ![f] =
           [text |-> text,
            whole |-> text \in Unparsable \/ (TRUE /\ Complete([t EXCEPT ![f] = Parsed(text)]))]]
  BY DEF OnChange
<1>2. (text \in Unparsable \/ (TRUE /\ Complete([t EXCEPT ![f] = Parsed(text)]))) = TRUE
  BY <1>1, Zenon
<1>3. published' = [published EXCEPT ![f] = [text |-> text, whole |-> TRUE]]
  BY <1>1, <1>2, Zenon
<1>4. QED
  BY <1>3 DEF TypeOK, Whole

\* Files that are all in the tables are complete.
LEMMA CurrentComplete ==
  ASSUME AllCurrent', buffer' = buffer, disk' = disk
  PROVE  Complete(tables')
<1>1. \A f : TextOf(f)' = TextOf(f)
  BY DEF TextOf
<1>2. \A f \in File : TextOf(f) # None => tables'[f] = Parsed(TextOf(f))
  BY <1>1 DEF AllCurrent, Parsed
<1>3. QED
  BY <1>2 DEF Complete

\* An open file no text of which is on its way is known by what the user sees.
Known ==
  \A f \in File \ Cached :
    /\ buffer[f] # None /\ document[f] # None
    /\ \A m \in InFlight : ~Changes(m, f)
    => document[f] = buffer[f]

\* That is so.
LEMMA KnownText == Base /\ TablesInv => Known
<1> SUFFICES ASSUME Base, TablesInv, NEW f \in File \ Cached, buffer[f] # None,
                    document[f] # None, \A m \in InFlight : ~Changes(m, f)
             PROVE  document[f] = buffer[f]
  BY DEF Known
<1>1. TextOf(f) = buffer[f] /\ Told(f)
  BY DEF TextOf, Told
<1>2. \A j \in 1..Len(toServer) : toServer[j] \in InFlight
  BY DEF InFlight, Sent, Base, TypeOK
<1>3. Settled(toServer, document, f, TextOf(f), Len(toServer))
  BY <1>1 DEF TablesInv, TextsSettle, InFlight
<1>4. QED
  BY <1>1, <1>2, <1>3 DEF Settled

\* Serving a message.
LEMMA DiagnosticsServe ==
  ASSUME Base, TablesInv, TopicInv, PublishedInTime, Base', TablesInv', ServeLoaded
  PROVE  TopicInv' /\ PublishedInTime'
<1> DEFINE m == Head(toServer)
<1>1. /\ disk' = disk /\ buffer' = buffer /\ moving' = moving /\ handlers' = handlers
      /\ \E kind : Received(kind)
  BY DEF ServeLoaded, OpenLoaded, ChangeLoaded, ServeOnRemove, RenameLoaded,
         ServeRequest, editor, backend
<1>2. TypeOK /\ tables \in [File -> Option(Text)]
  BY DEF Base, TypeOK
<1>3. /\ Sent = Sent' \cup {m} /\ m \in InFlight /\ m \in Sent
  BY <1>1, <1>2, ReceivedSent
<1>4. InFlight = InFlight' \cup {m}
  BY <1>1, <1>3 DEF InFlight
<1>5. OneTopic' /\ Apart' /\ QuietMove' /\ RenamedGone'
  BY <1>1, <1>4 DEF TopicInv, OneTopic, Apart, QuietMove, RenamedGone
<1>6. /\ OpenLoaded => m.kind = "open"
      /\ ChangeLoaded => m.kind = "change"
      /\ RenameLoaded => m.kind = "did_rename"
  BY DEF OpenLoaded, ChangeLoaded, RenameLoaded, Received
<1>7. m.kind \in Changing => m.file \in File /\ m.text \in Text
  BY <1>2, <1>3, ChangingType
<1>8. RenameOnce'
  <2> SUFFICES ASSUME NEW n \in handlers, n.kind = "did_rename"
               PROVE  tasks' = <<>> /\ \A k \in Sent' : k.kind # "did_rename"
    BY <1>1 DEF RenameOnce
  <2>1. tasks = <<>> /\ \A k \in Sent : k.kind # "did_rename"
    BY DEF TopicInv, RenameOnce
  <2>2. m.kind \notin Changing /\ m.kind # "did_rename"
    BY <1>3, <2>1 DEF TopicInv, Apart, Leaving, InFlight
  <2>3. tasks' = tasks
    BY <1>6, <2>2 DEF ServeLoaded, Changing, ServeOnRemove, ServeRequest, server
  <2>4. QED
    BY <1>3, <2>1, <2>3
<1>9. CASE OpenLoaded
  <2>1. /\ m.kind \in Changing /\ m.file \in File
        /\ latest' = [file |-> m.file, text |-> m.text]
        /\ OnChange(tables, m.file, m.text, FALSE)
        /\ m.file \notin Cached => tasks' = Append(tasks, Paths)
        /\ m.file \in Cached => tasks' = tasks
    BY <1>6, <1>7, <1>9 DEF OpenLoaded, Changing
  <2>2. ReplayTopic'
    <3>1. latest' # None
      BY <1>7, <2>1, LanguageServerAssumption
    <3>2. QED
      BY <1>3, <1>4, <2>1, <3>1 DEF TopicInv, OneTopic, ReplayTopic
  <2>3. PublishedInTime'
    <3> SUFFICES ASSUME NEW f \in File \ Cached, buffer[f] # None
                 PROVE  \/ \E n \in InFlight' : Changes(n, f)
                        \/ tasks' # <<>> /\ latest' # None /\ latest'.file = f
                        \/ published'[f] = Whole(buffer[f])
      BY <1>1 DEF PublishedInTime
    <3>1. CASE f = m.file
      <4>1. latest' # None
        BY <1>7, <2>1, LanguageServerAssumption
      <4>2. tasks' # <<>>
        BY <1>2, <2>1, <3>1 DEF TypeOK
      <4>3. QED
        BY <2>1, <3>1, <4>1, <4>2
    <3>2. CASE f # m.file
      <4>1. published'[f] = published[f]
        BY <1>2, <2>1, <3>2, OnChangePublishes
      <4>2. \A n \in InFlight : ~Changes(n, f)
        BY <1>3, <2>1, <3>2 DEF TopicInv, OneTopic, Changes
      <4>3. ~(tasks # <<>> /\ latest # None /\ latest.file = f)
        BY <1>3, <2>1, <3>2 DEF TopicInv, ReplayTopic
      <4>4. QED
        BY <4>1, <4>2, <4>3 DEF PublishedInTime
    <3>3. QED
      BY <3>1, <3>2
  <2>4. QED
    BY <1>5, <1>8, <2>2, <2>3 DEF TopicInv
<1>10. CASE ChangeLoaded
  <2>1. /\ m.kind \in Changing /\ m.kind = "change" /\ m.file \in File
        /\ latest' = [file |-> m.file, text |-> m.text]
        /\ OnChange(tables, m.file, m.text, backgroundDone)
        /\ tasks' = tasks
    BY <1>6, <1>7, <1>10 DEF ChangeLoaded, Changing
  <2>2. m.file \notin Cached
    <3>1. PICK i \in DOMAIN toServer : m = toServer[i]
      BY <1>3 DEF Sent
    <3>2. DOMAIN toServer = 1..Len(toServer)
      BY <1>2 DEF TypeOK
    <3>3. QED
      BY <2>1, <3>1, <3>2 DEF TablesInv, OpenFirst
  <2>3. latest' # None
    BY <1>7, <2>1, LanguageServerAssumption
  <2>4. ReplayTopic'
    BY <1>3, <1>4, <2>1, <2>3 DEF TopicInv, OneTopic, ReplayTopic
  <2>5. PublishedInTime'
    <3> SUFFICES ASSUME NEW f \in File \ Cached, buffer[f] # None,
                        \A n \in InFlight' : ~Changes(n, f),
                        ~(tasks' # <<>> /\ latest' # None /\ latest'.file = f)
                 PROVE  published'[f] = Whole(buffer[f])
      BY <1>1 DEF PublishedInTime
    <3>1. CASE f = m.file
      <4>1. tasks = <<>> /\ tasks' = <<>> /\ backgroundDone
        BY <2>1, <2>3, <3>1 DEF Base, FilterEnds
      <4>2. document'[f] = m.text /\ document'[f] # None
        <5>1. document' = [document EXCEPT ![f] = m.text]
          BY <1>2, <2>1, <2>2, <3>1, OnChangePublishes
        <5>2. QED
          BY <1>2, <1>7, <2>1, <5>1, LanguageServerAssumption DEF TypeOK
      <4>3. Calm'
        <5>1. moving' = None
          BY <1>1, <1>3, <2>1 DEF TopicInv, QuietMove
        <5>2. \A n \in InFlight' : n.kind \notin Changing
          BY <1>3, <1>4, <2>1, <3>1 DEF TopicInv, OneTopic, Changes
        <5>3. \A n \in InFlight' : n.kind # "did_rename"
          BY <1>3, <1>4, <2>1 DEF TopicInv, Apart, Leaving
        <5>4. QED
          BY <4>1, <4>2, <5>1, <5>2, <5>3 DEF Calm
      <4>4. AllCurrent'
        BY <4>3, AllAnalysed, PTL
      <4>5. Complete(tables')
        BY <1>1, <4>4, CurrentComplete
      <4>6. published'[f] = Whole(m.text)
        <5>1. backgroundDone = TRUE
          BY <1>2, <4>1, Zenon DEF TypeOK
        <5>2. OnChange(tables, f, m.text, TRUE)
          BY <2>1, <3>1, <5>1, Zenon
        <5>3. QED
          BY <1>2, <4>5, <5>2, OnChangeWhole
      <4>7. m.text = buffer[f]
        <5>1. Known'
          BY KnownText, PTL
        <5>2. QED
          BY <1>1, <4>2, <5>1 DEF Known, Changes
      <4>8. QED
        BY <4>6, <4>7
    <3>2. CASE f # m.file
      <4>1. published'[f] = published[f]
        BY <1>2, <2>1, <3>2, OnChangePublishes
      <4>2. \A n \in InFlight : ~Changes(n, f)
        BY <1>3, <2>1, <3>2 DEF TopicInv, OneTopic, Changes
      <4>3. ~(tasks # <<>> /\ latest # None /\ latest.file = f)
        BY <1>3, <2>1, <3>2 DEF TopicInv, ReplayTopic
      <4>4. QED
        BY <4>1, <4>2, <4>3 DEF PublishedInTime
    <3>3. QED
      BY <3>1, <3>2
  <2>6. QED
    BY <1>5, <1>8, <2>4, <2>5 DEF TopicInv
<1>11. CASE ServeOnRemove \/ RenameLoaded \/ ServeRequest
  <2>1. /\ m.kind \notin Changing /\ latest' = latest /\ published' = published
        /\ tasks # <<>> => tasks' # <<>>
    BY <1>2, <1>11 DEF ServeOnRemove, RenameLoaded, ServeRequest, Received, server,
                       Changing, TypeOK
  <2>2. ReplayTopic'
    <3>1. CASE tasks' = tasks
      BY <1>4, <2>1, <3>1 DEF TopicInv, ReplayTopic
    <3>2. CASE tasks' # tasks
      <4>1. m.kind = "did_rename"
        BY <1>6, <1>11, <3>2 DEF ServeOnRemove, ServeRequest, server
      <4>2. \A n \in InFlight' : n.kind \notin Changing
        BY <1>3, <1>4, <4>1 DEF TopicInv, Apart, Leaving
      <4>3. QED
        BY <4>2 DEF ReplayTopic
    <3>3. QED
      BY <3>1, <3>2
  <2>3. PublishedInTime'
    BY <1>1, <1>4, <2>1 DEF PublishedInTime, Changes
  <2>4. QED
    BY <1>5, <1>8, <2>2, <2>3 DEF TopicInv
<1>12. QED
  BY <1>9, <1>10, <1>11 DEF ServeLoaded

\* Going on with the background analysis.
LEMMA DiagnosticsBackground ==
  ASSUME Base, TablesInv, TopicInv, PublishedInTime, Base', TablesInv',
         NEW p \in File, Background(p) \/ LastLoaded(p)
  PROVE  TopicInv' /\ PublishedInTime'
<1>1. /\ disk' = disk /\ buffer' = buffer /\ moving' = moving /\ handlers' = handlers
      /\ toServer' = toServer /\ toServer = <<>> /\ tasks # <<>>
  <2>1. Len(<<>>) = 0
    OBVIOUS
  <2>2. tasks # <<>>
    <3>1. CASE Background(p)
      BY <3>1 DEF Background
    <3>2. CASE LastLoaded(p)
      BY <2>1, <3>2 DEF LastLoaded
    <3>3. QED
      BY <3>1, <3>2
  <2>3. QED
    BY <2>2 DEF Background, LastLoaded, editor, backend
<1>2. Sent' = {} /\ Sent = {} /\ InFlight' = InFlight /\ InFlight = handlers
  BY <1>1 DEF Sent, InFlight
<1>3. OneTopic' /\ Apart' /\ QuietMove' /\ RenamedGone'
  BY <1>1, <1>2 DEF TopicInv, OneTopic, Apart, QuietMove, RenamedGone
<1>4. \A m \in handlers : m.kind # "did_rename"
  BY <1>1 DEF TopicInv, RenameOnce
<1>5. RenameOnce'
  BY <1>1, <1>4 DEF RenameOnce
<1>6. TypeOK
  BY DEF Base
<1>7. CASE Background(p)
  <2>1. latest' = latest /\ published' = published
    BY <1>7 DEF Background
  <2>2. tasks' # <<>>
    BY <1>1, <1>6, <1>7 DEF Background, TypeOK
  <2>3. ReplayTopic'
    BY <1>1, <1>2, <2>1 DEF TopicInv, ReplayTopic
  <2>4. PublishedInTime'
    BY <1>1, <1>2, <2>1, <2>2 DEF PublishedInTime, Changes
  <2>5. QED
    BY <1>3, <1>5, <2>3, <2>4 DEF TopicInv
<1>8. CASE LastLoaded(p)
  <2>1. tasks' = <<>> /\ latest' = None
    BY <1>8 DEF LastLoaded
  <2>2. ReplayTopic'
    BY <2>1 DEF ReplayTopic
  <2>3. PublishedInTime'
    <3> SUFFICES ASSUME NEW f \in File \ Cached, buffer[f] # None,
                        \A n \in InFlight : ~Changes(n, f)
                 PROVE  published'[f] = Whole(buffer[f])
      BY <1>1, <1>2 DEF PublishedInTime, Changes
    <3>1. CASE latest = None \/ latest.file # f
      <4>1. published'[f] = published[f]
        <5>1. CASE latest = None
          BY <1>8, <5>1 DEF LastLoaded
        <5>2. CASE latest # None
          <6>1. latest.file \in File /\ Scanned(p) \in [File -> Option(Text)]
            BY <1>6, <5>2, ScannedType DEF TypeOK, Option
          <6>2. OnChange(Scanned(p), latest.file, latest.text, TRUE)
            BY <1>8, <5>2 DEF LastLoaded
          <6>3. QED
            BY <1>6, <3>1, <5>2, <6>1, <6>2, OnChangePublishes
        <5>3. QED
          BY <5>1, <5>2
      <4>2. QED
        BY <3>1, <4>1 DEF PublishedInTime
    <3>2. CASE latest # None /\ latest.file = f
      <4>1. /\ Scanned(p) \in [File -> Option(Text)] /\ latest.text \in Text
            /\ OnChange(Scanned(p), f, latest.text, TRUE)
        BY <1>6, <1>8, <3>2, ScannedType DEF LastLoaded, TypeOK, Option
      <4>2. document[f] = latest.text /\ document[f] # None
        BY <3>2, <4>1, LanguageServerAssumption DEF Base, ReplayIdle
      <4>3. latest.text = buffer[f]
        BY <4>2, KnownText DEF Known
      <4>4. document'[f] # None
        <5>1. document' = [document EXCEPT ![f] = latest.text]
          BY <4>1 DEF OnChange
        <5>2. QED
          BY <1>6, <4>1, <5>1, LanguageServerAssumption DEF TypeOK
      <4>5. Calm'
        <5>1. moving' = None
          BY <1>1 DEF Base, GhostInv, MovingQuietly
        <5>2. \A n \in InFlight : n.kind \notin Changing
          BY <1>1, <3>2 DEF TopicInv, ReplayTopic, Changes
        <5>3. QED
          BY <1>2, <1>4, <2>1, <4>4, <5>1, <5>2 DEF Calm
      <4>6. AllCurrent'
        BY <4>5, AllAnalysed, PTL
      <4>7. Complete(tables')
        BY <1>1, <4>6, CurrentComplete
      <4>8. published'[f] = Whole(latest.text)
        BY <1>6, <4>1, <4>7, OnChangeWhole
      <4>9. QED
        BY <4>3, <4>8
    <3>3. QED
      BY <3>1, <3>2
  <2>4. QED
    BY <1>3, <1>5, <2>2, <2>3 DEF TopicInv
<1>9. QED
  BY <1>7, <1>8

\* What the handlers and the editor do without a new notification.
LEMMA DiagnosticsKeep ==
  ASSUME Base, TablesInv, TopicInv, PublishedInTime,
         \/ \E m \in handlers : SendNotification(m)
         \/ \E r \in Request : Recv(r) \/ Cancel(r) \/ \E f \in File : Ask(r, f)
         \/ \E f \in File : DidSave(f) \/ DidClose(f)
  PROVE  TopicInv' /\ PublishedInTime'
<1>1. UNCHANGED <<moving, published, tasks, latest>>
  BY DEF SendNotification, Recv, Cancel, Ask, DidSave, DidClose, editor, server
<1>2. TypeOK
  BY DEF Base
<1>3. /\ \A m \in InFlight : m \in InFlight'
      /\ \A m \in InFlight' : m \in InFlight \/ m.kind = "request"
      /\ \A m \in handlers' : /\ m \in handlers
                              /\ \A n \in Sent' : n \in Sent \/ n.kind = "request"
  <2>1. CASE \E m \in handlers : SendNotification(m)
    <3>1. PICK m \in handlers : SendNotification(m)
      BY <2>1
    <3>2. handlers' = {} /\ handlers = {m}
      BY <3>1 DEF SendNotification, Base, OneInFlight
    <3>3. m \in Message
      BY <1>2 DEF TypeOK, Message
    <3>4. Sent' = Sent \cup {m}
      BY <1>2, <3>1, <3>3, AppendSent DEF SendNotification
    <3>5. QED
      BY <3>2, <3>4 DEF InFlight
  <2>2. CASE \E r \in Request, f \in File : Ask(r, f)
    <3>1. PICK r \in Request, f \in File : Ask(r, f)
      BY <2>2
    <3>2. PICK m : m = [kind |-> "request", file |-> f, text |-> buffer[f], request |-> r]
      OBVIOUS
    <3>3. m \in Message /\ m.kind = "request"
      BY <1>2, <3>1, <3>2 DEF Ask, TypeOK, Message, Question, Option
    <3>4. Sent' = Sent \cup {m} /\ handlers' = handlers
      BY <1>2, <3>1, <3>2, <3>3, AppendSent DEF Ask
    <3>5. QED
      BY <3>3, <3>4 DEF InFlight
  <2>3. CASE UNCHANGED <<handlers, toServer>>
    BY <2>3 DEF InFlight, Sent
  <2>4. QED
    BY <2>1, <2>2, <2>3 DEF Recv, Cancel, DidSave, DidClose, backend
<1>4. \A f \in File : disk'[f] = None <=> disk[f] = None
  <2>1. ASSUME NEW f \in File, DidSave(f)
        PROVE  \A g \in File : disk'[g] = None <=> disk[g] = None
    BY <1>2, <2>1 DEF DidSave, TypeOK
  <2>2. QED
    BY <2>1 DEF SendNotification, Recv, Cancel, Ask, DidClose, editor
<1>5. \A f \in File : buffer'[f] # None => buffer'[f] = buffer[f]
  <2>1. ASSUME NEW f \in File, DidClose(f)
        PROVE  \A g \in File : buffer'[g] # None => buffer'[g] = buffer[g]
    BY <1>2, <2>1 DEF DidClose, TypeOK
  <2>2. QED
    BY <2>1 DEF SendNotification, Recv, Cancel, Ask, DidSave, editor
<1>6. \A m \in InFlight : m.file \in File
  <2>1. InFlight \subseteq Message
    BY <1>2 DEF InFlight, Sent, TypeOK, Message
  <2>2. QED
    BY <2>1 DEF Message, Notification, Question
<1>7. "request" \notin Changing /\ "request" \notin Leaving /\ "request" # "did_rename"
  BY DEF Changing, Leaving
<1>8. OneTopic' /\ Apart' /\ QuietMove'
  BY <1>1, <1>3, <1>7 DEF TopicInv, OneTopic, Apart, QuietMove
<1>9. RenamedGone'
  BY <1>3, <1>4, <1>6 DEF TopicInv, RenamedGone
<1>10. RenameOnce' /\ ReplayTopic'
  BY <1>1, <1>3, <1>7 DEF TopicInv, RenameOnce, ReplayTopic
<1>11. PublishedInTime'
  BY <1>1, <1>3, <1>5 DEF PublishedInTime, Changes
<1>12. QED
  BY <1>8, <1>9, <1>10, <1>11 DEF TopicInv

\* Opening and changing a file.
LEMMA DiagnosticsEdit ==
  ASSUME OneFile, Base, TablesInv, TopicInv, PublishedInTime,
         NEW f \in File, DidOpen(f) \/ DidChange(f)
  PROVE  TopicInv' /\ PublishedInTime'
<1>1. PICK m : /\ m = [kind |-> "open", file |-> f, text |-> disk[f]]
                  \/ m = [kind |-> "change", file |-> f, text |-> buffer[f] + 1]
               /\ Notify(m)
  BY DEF DidOpen, DidChange
<1>2. m.kind \in Changing /\ m.file = f
  BY <1>1 DEF Changing
<1>3. /\ UNCHANGED <<disk, moving, toServer, published, tasks, latest>>
      /\ \A g \in File : g # f => buffer'[g] = buffer[g]
  BY DEF DidOpen, DidChange, server, Base, TypeOK
<1>4. Sent' = Sent /\ handlers' = handlers \cup {m} /\ InFlight' = InFlight \cup {m}
  BY <1>1, <1>3 DEF Notify, Sent, InFlight
<1>5. moving = None
  BY DEF DidOpen, DidChange, MayTouch, Idle, OneFile
<1>6. \/ InFlight = {} /\ tasks = <<>>
      \/ /\ latest # None /\ latest.file = f
         /\ \A n \in InFlight : n.file = f
  <2>1. Idle => InFlight = {} /\ tasks = <<>>
    BY DEF Idle, InFlight, Sent
  <2>2. Idle \/ MayTouch(f)
    BY DEF DidOpen, DidChange, OneFile
  <2>3. MayTouch(f) /\ ~Idle => /\ latest # None /\ latest.file = f
                                /\ \A n \in InFlight : n.file = f
    BY DEF MayTouch, OneFile, InFlight, Sent
  <2>4. QED
    BY <2>1, <2>2, <2>3
<1>7. \A n \in InFlight : n.kind \notin Leaving
  <2> SUFFICES ASSUME NEW n \in InFlight, n.kind \in Leaving PROVE FALSE
    OBVIOUS
  <2>1. n.file = f /\ Staying(f)
    BY <1>6 DEF Base, GhostInv, LatestStays
  <2>2. n \in Notification
    BY DEF InFlight, Sent, Base, TypeOK, Notification, Question, Leaving
  <2>3. CASE n.kind = "remove"
    <3>1. n = Remove(f)
      BY <2>1, <2>2, <2>3 DEF Notification, Remove
    <3>2. QED
      BY <2>1, <3>1 DEF TablesInv, RemovedLeave
  <2>4. CASE n.kind = "did_rename"
    BY <2>1, <2>4 DEF TopicInv, RenamedGone, Staying
  <2>5. QED
    BY <2>3, <2>4 DEF Leaving
<1>8. OneTopic'
  BY <1>2, <1>4, <1>6 DEF TopicInv, OneTopic
<1>9. Apart' /\ QuietMove' /\ RenamedGone' /\ RenameOnce'
  <2>1. \A n \in InFlight' : n.kind \notin Leaving /\ n.kind # "did_rename"
    BY <1>2, <1>4, <1>7 DEF Leaving, Changing
  <2>2. QED
    BY <1>3, <1>5, <2>1 DEF Apart, QuietMove, RenamedGone, RenameOnce, InFlight
<1>10. ReplayTopic'
  BY <1>2, <1>3, <1>4, <1>6 DEF TopicInv, ReplayTopic
<1>11. PublishedInTime'
  BY <1>2, <1>3, <1>4 DEF PublishedInTime, Changes
<1>12. QED
  BY <1>8, <1>9, <1>10, <1>11 DEF TopicInv

\* Moving a file.
LEMMA DiagnosticsMove ==
  ASSUME OneFile, Base, TablesInv, TopicInv, PublishedInTime,
         Move \/ \E f \in File, g \in Option(File) : WillMove(f, g)
  PROVE  TopicInv' /\ PublishedInTime'
<1>1. CASE Move
  <2>1. /\ moving # None /\ moving' = None
        /\ UNCHANGED <<buffer, toServer, published, tasks, latest>>
    BY <1>1 DEF Move, server
  <2>2. /\ moving[1] \in File /\ disk[moving[1]] # None /\ tasks = <<>>
        /\ \A n \in InFlight : n.kind \notin Changing \cup {"did_rename"}
    BY <2>1 DEF Base, TypeOK, GhostInv, MovingQuietly, TopicInv, QuietMove, Option
  <2>3. Sent' = Sent
    BY <2>1 DEF Sent
  <2>4. PICK m : m = [kind |-> "did_rename", file |-> moving[1]]
    OBVIOUS
  <2>5. handlers' \subseteq handlers \cup {m}
    BY <1>1, <2>4 DEF Move, Notify
  <2>6. InFlight' \subseteq InFlight \cup {m} /\ \A n \in InFlight : n \in InFlight'
    BY <1>1, <2>3, <2>5 DEF InFlight, Move, Notify
  <2>7. \A n \in InFlight' : n.kind \notin Changing
    BY <2>2, <2>4, <2>6 DEF Changing
  <2>8. disk'[moving[1]] = None
    <3>1. moving[2] # None => moving[2] # moving[1]
      BY <2>1, <2>2 DEF TablesInv, MovesToNew
    <3>2. moving[2] # None => moving[2] \in File
      BY <2>1 DEF Base, TypeOK, Option
    <3>3. disk \in [File -> Option(Text)]
      BY DEF Base, TypeOK
    <3>4. CASE moving[2] = None
      BY <1>1, <2>2, <3>3, <3>4 DEF Move
    <3>5. CASE moving[2] # None
      <4>1. disk' = [disk EXCEPT ![moving[1]] = None, ![moving[2]] = disk[moving[1]]]
        BY <1>1, <3>5 DEF Move
      <4>2. QED
        BY <2>2, <3>1, <3>2, <3>3, <3>5, <4>1
    <3>6. QED
      BY <3>4, <3>5
  <2>9. OneTopic' /\ Apart' /\ QuietMove' /\ ReplayTopic'
    BY <2>7 DEF OneTopic, Apart, QuietMove, ReplayTopic
  <2>10. RenamedGone'
    BY <2>2, <2>4, <2>6, <2>8 DEF RenamedGone
  <2>11. RenameOnce'
    BY <2>1, <2>2, <2>3 DEF RenameOnce, InFlight
  <2>12. PublishedInTime'
    BY <2>1, <2>6 DEF PublishedInTime, Changes
  <2>13. QED
    BY <2>9, <2>10, <2>11, <2>12 DEF TopicInv
<1>2. ASSUME NEW f \in File, NEW g \in Option(File), WillMove(f, g)
      PROVE  TopicInv' /\ PublishedInTime'
  <2>1. Idle /\ UNCHANGED <<disk, buffer, toServer, published, tasks, latest>>
    BY <1>2 DEF WillMove, OneFile, Careful, server
  <2>2. InFlight = {} /\ handlers' = {Remove(f)} /\ Sent' = {} /\ tasks' = <<>>
    BY <1>2, <2>1 DEF WillMove, Notify, Remove, Idle, InFlight, Sent
  <2>3. InFlight' = {Remove(f)} /\ Remove(f).kind = "remove"
    BY <2>2 DEF InFlight, Remove
  <2>4. OneTopic' /\ Apart' /\ QuietMove' /\ RenamedGone' /\ RenameOnce' /\ ReplayTopic'
    BY <2>2, <2>3 DEF OneTopic, Apart, QuietMove, RenamedGone, RenameOnce, ReplayTopic,
                      Changing
  <2>5. PublishedInTime'
    BY <2>1, <2>2 DEF PublishedInTime
  <2>6. QED
    BY <2>4, <2>5 DEF TopicInv
<1>3. QED
  BY <1>1, <1>2

\* "call did_change after background_done to notify filtered errors": for a
\* careful user who waits for the analysis before he turns to another file, the
\* diagnostics of every open file are, once the server is idle, those of its
\* text, unfiltered and with all files analysed, as long as no metadata or
\* paths have failed to load.
THEOREM DiagnosticsCurrentHolds ==
  ASSUME OneFile
  PROVE  Spec => []DiagnosticsCurrent
<1> DEFINE Good == TablesInv /\ TopicInv /\ PublishedInTime
           Inv == Base /\ (failures = 0 => Good)
<1>0. Careful
  BY DEF OneFile
<1>1. Init => Inv
  <2> SUFFICES ASSUME Init PROVE Inv
    OBVIOUS
  <2>1. TypeOK /\ GhostInv /\ TablesInv
    BY InitTypeOK, GhostInit, TablesInit
  <2>2. FilterEnds /\ OneInFlight /\ ReplayIdle
    BY DEF Init, FilterEnds, OneInFlight, ReplayIdle
  <2>3. handlers = {} /\ InFlight = {} /\ tasks = <<>> /\ moving = None
        /\ \A f \in File : buffer[f] = None
    BY DEF Init, InFlight, Sent
  <2>4. TopicInv /\ PublishedInTime
    BY <2>3 DEF TopicInv, OneTopic, Apart, QuietMove, RenamedGone, RenameOnce, ReplayTopic,
                PublishedInTime
  <2>5. QED
    BY <2>1, <2>2, <2>4 DEF Base
<1>2. Inv /\ [Next]_vars => Inv'
  <2>0. ASSUME Inv, [Next]_vars PROVE Base' /\ (failures' = 0 => failures = 0)
    BY <1>0, <2>0, BaseStep, FailuresStay DEF Base
  <2> SUFFICES ASSUME Base, Good, [Next]_vars, failures' = 0, Base' PROVE Good'
    BY <2>0
  <2>1. TablesInv'
    BY <1>0, TablesStep
  <2>2. CASE UNCHANGED vars
    <3>1. UNCHANGED <<disk, buffer, moving, handlers, toServer, published, tasks, latest>>
      BY <2>2 DEF vars, editor, backend, server
    <3>2. Sent' = Sent /\ InFlight' = InFlight
      BY <3>1 DEF Sent, InFlight
    <3>3. TopicInv' /\ PublishedInTime'
      BY <3>1, <3>2 DEF TopicInv, OneTopic, Apart, QuietMove, RenamedGone, RenameOnce,
                        ReplayTopic, PublishedInTime
    <3>4. QED
      BY <2>1, <3>3
  <2>3. CASE Next
    <3>1. /\ Serve => ServeLoaded
          /\ \A f : BackgroundLast(f) => LastLoaded(f)
      BY NothingFails DEF Base
    <3>2. QED
      BY <2>1, <2>3, <3>1, DiagnosticsServe, DiagnosticsBackground, DiagnosticsKeep,
       DiagnosticsEdit, DiagnosticsMove
       DEF Next
  <2>4. QED
    BY <2>2, <2>3
<1>3. Inv => DiagnosticsCurrent
  <2> SUFFICES ASSUME Inv, Idle, failures = 0 PROVE DiagnosticsCurrent
    BY DEF DiagnosticsCurrent
  <2>1. InFlight = {} /\ tasks = <<>>
    BY DEF Idle, InFlight, Sent
  <2>2. QED
    BY <2>1 DEF PublishedInTime, DiagnosticsCurrent, Whole
<1>4. QED
  BY <1>1, <1>2, <1>3, PTL DEF Spec

=============================================================================
