----------------------------- MODULE SourceFiles -----------------------------
(* How the Client gets the text of source files: FileCollection and the       *)
(* search-path dialog in the Client's main thread, the two directions of the   *)
(* connection (FIFO channels, see TGChannel), and the XML server's             *)
(* check_socket with the file search that calls back into it.                  *)
(* Source: Client/filecollection.cpp, Client/mainview.cpp,                     *)
(* Xmlserver/TGxmlserver.cpp, Utils/tg_source_reader.cpp.                      *)
(*                                                                             *)
(* The Client has one thread, but every wait in it is an event loop that may   *)
(* call into FileCollection again, so its state is a call stack of which only  *)
(* the last frame runs.                                                        *)
EXTENDS Naturals, Sequences, FiniteSets

CONSTANTS Files,        \* source file names the views ask for
          Paths,        \* search paths the user may set
          Path0,        \* the search path of the SourcePath file
          Exists,       \* set of <<file, path>>: the path leads to the file
          Unreadable,   \* files that stat finds but open refuses
          None,         \* no file
          MaxRequests,  \* bound: DPCL_READ_FILE messages sent
          MaxDepth,     \* bound: nested calls in the Client
          MaxDialogs,   \* bound: times the search-path dialog is opened
          MaxBeats,     \* bound: heartbeat messages sent
          MaxDescents   \* bound: directories a search descends into

ASSUME SourceAssumption ==
    /\ None \notin Files
    /\ Path0 \in Paths
    /\ Exists \subseteq Files \X Paths
    /\ Unreadable \subseteq Files
    /\ {MaxRequests, MaxDepth, MaxDialogs, MaxBeats, MaxDescents} \subseteq Nat

VARIABLES
    stack,     \* Client: the frames of createFileInfo and setSearchPath
    table,     \* Client: fileInfoTable, file |-> key of its FileInfo, 0 is NULL
    pending,   \* Client: the keys in pendingFileInfoTable
    reading,   \* Client: sourceState = readingFile
    infos,     \* Client: the FileInfo allocated for each key, in key order
    progress,  \* Client: the progress dialog: "none", "shown", "stopped"
    up,        \* Client: the process runs
    guiPath,   \* Client: the search path the user asked for last
    dialogs,   \* Client: times the dialog was opened
    beats,     \* Client: heartbeats sent
    toServer, toClient,  \* messages sent and not yet received
    searches,  \* server: the calls of read_file it is in, outermost first
    path,      \* server: the search path sourcePath holds
    reader,    \* server: sourceReader has been created
    server     \* server: "running" or "exited"

fileVars == <<table, pending, reading, infos, progress>>
guiVars == <<stack, fileVars, up, guiPath, dialogs, beats>>
serverVars == <<searches, path, reader, server>>
vars == <<guiVars, serverVars, toServer, toClient>>

-------------------------------------------------------------------------------
(* Frames and records.                                                         *)
Frame(where, f, id) == [at |-> where, file |-> f, id |-> id, canceled |-> FALSE]

\* createFileInfo is in its first loop ("wait"), or will not enter it ("call").
Called(f) == Frame(IF reading THEN "wait" ELSE "call", f, 0)
Reading(f, id) == Frame("read", f, id)   \* createFileInfo in its second loop
Dialog == Frame("dialog", None, 0)       \* setSearchPath in sd->exec

\* What a search came to: the path it used, and how it ended.
Ends == {"found", "missing", "stopped", "interrupted"}
Result == [path : Paths, end : Ends]

Blank(f) == [file |-> f, text |-> << >>, fullPath |-> << >>, live |-> TRUE]

Top == stack[Len(stack)]
Below == SubSeq(stack, 1, Len(stack) - 1)
IsAt(where) == stack # << >> /\ Top.at = where

\* The running frame is inside processEvents, or in the exec of the dialog or of
\* the application.  One processEvents may handle many events.
InEventLoop == up /\ ~IsAt("call")

\* The first loop of createFileInfo is over.
AfterWaiting == up /\ ~reading /\ (IsAt("wait") \/ IsAt("call"))

Init ==
    /\ stack = << >>
    /\ table = [f \in Files |-> 0]
    /\ pending = {}
    /\ reading = FALSE
    /\ infos = << >>
    /\ progress = "none"
    /\ up = TRUE
    /\ guiPath = Path0
    /\ dialogs = 0 /\ beats = 0
    /\ toServer = << >> /\ toClient = << >>
    /\ searches = << >>
    /\ path = Path0
    /\ reader = FALSE
    /\ server = "running"

ToServer(msgs) == toServer' = toServer \o msgs
ToClient(msgs) == toClient' = toClient \o msgs

-------------------------------------------------------------------------------
(* The Client: FileCollection.                                                 *)

Waits == {i \in 1..Len(stack) : stack[i].at \in {"wait", "call"}}

\* Room under the bounds for one more call that may have to read a file.
MayCall == /\ Len(stack) < MaxDepth
           /\ Len(infos) + Cardinality(Waits) < MaxRequests

\* A view asks for a line or the size of f, which is not in the cache: from an
\* event handler, so possibly on top of other calls.
GetSource(f) ==
    /\ InEventLoop /\ MayCall
    /\ table[f] = 0
    /\ stack' = Append(stack, Called(f))
    /\ UNCHANGED <<fileVars, up, guiPath, dialogs, beats, serverVars, toServer, toClient>>

\* The first loop is over and the file has arrived meanwhile.
FoundAfterWaiting ==
    /\ AfterWaiting
    /\ table[Top.file] # 0
    /\ stack' = Below
    /\ UNCHANGED <<fileVars, up, guiPath, dialogs, beats, serverVars, toServer, toClient>>

\* nextPendingFileInfoKey (the code counts from 0).
NextKey == Len(infos) + 1

\* The FileInfo is allocated and the file asked for.
SendReadFile ==
    /\ LET id == NextKey IN
           /\ stack' = Append(Below, Reading(Top.file, id))
           /\ infos' = Append(infos, Blank(Top.file))
           /\ pending' = pending \cup {id}
           /\ ToServer(<<[tag |-> "READ_FILE", id |-> id, file |-> Top.file]>>)
    /\ reading' = TRUE
    /\ UNCHANGED <<table, progress, up, guiPath, dialogs, beats, serverVars, toClient>>

\* Mutant: no second look in fileInfoTable after waiting.
RequestWithoutRecheck == AfterWaiting /\ SendReadFile
\* The first loop is over and the file is still to be read.
RequestFile == AfterWaiting /\ table[Top.file] = 0 /\ SendReadFile

\* Two seconds have passed: the second loop shows the progress dialog.  It does
\* so once per call, and not again after the user stopped the search.
ShowProgress ==
    /\ up /\ reading /\ IsAt("read")
    /\ progress = "none" /\ ~Top.canceled
    /\ progress' = "shown"
    /\ UNCHANGED <<stack, table, pending, reading, infos, up, guiPath, dialogs, beats,
                   serverVars, toServer, toClient>>

\* The user presses Stop.
PressStop ==
    /\ InEventLoop
    /\ progress = "shown"
    /\ progress' = "stopped"
    /\ UNCHANGED <<stack, table, pending, reading, infos, up, guiPath, dialogs, beats,
                   serverVars, toServer, toClient>>

\* Mutant: a cancelled call does not wait for the collector's answer.
SendCancelAndLeave ==
    /\ up /\ IsAt("read") /\ progress = "stopped"
    /\ ToServer(<<[tag |-> "CANCEL", id |-> Top.id]>>)
    /\ stack' = Append(Below, [Top EXCEPT !.canceled = TRUE])
    /\ progress' = "none"
    /\ reading' = FALSE
    /\ UNCHANGED <<table, pending, infos, up, guiPath, dialogs, beats, serverVars, toClient>>
\* After processEvents the second loop finds that the user pressed Stop, even
\* when the same processEvents brought the file.
SendCancel ==
    /\ up /\ IsAt("read") /\ progress = "stopped"
    /\ ToServer(<<[tag |-> "CANCEL", id |-> Top.id]>>)
    /\ stack' = Append(Below, [Top EXCEPT !.canceled = TRUE])
    /\ progress' = "none"
    /\ UNCHANGED <<table, pending, reading, infos, up, guiPath, dialogs, beats,
                   serverVars, toClient>>

\* The second loop is over; the timer and the progress dialog go away and the
\* caller gets the FileInfo allocated by this call.
ReturnInfo ==
    /\ up /\ ~reading /\ IsAt("read") /\ progress # "stopped"
    /\ stack' = Below
    /\ progress' = "none"
    /\ UNCHANGED <<table, pending, reading, infos, up, guiPath, dialogs, beats,
                   serverVars, toServer, toClient>>

\* setFullPath and insertSourceFile, called when the reply comes in.
SetFullPath(id, r) == [infos EXCEPT ![id].fullPath = <<r>>]
FillIn(id, r) == [infos EXCEPT ![id].text = <<r>>]

HandleReply ==
    /\ toClient' = Tail(toClient)
    /\ LET msg == Head(toClient) IN
       \/ /\ msg.tag = "FULL_PATH"
          /\ infos' = SetFullPath(msg.id, msg.result)
          /\ UNCHANGED <<table, pending, reading>>
       \/ /\ msg.tag = "READ_COMPLETE"
          /\ infos' = FillIn(msg.id, msg.result)
          /\ pending' = pending \ {msg.id}
          /\ table' = [table EXCEPT ![infos[msg.id].file] = msg.id]
          /\ reading' = FALSE
       \/ /\ msg.tag \in {"SUBDIRS", "SEARCH_PATH", "SAYS_QUIT"}
          /\ UNCHANGED <<table, pending, reading, infos>>
    /\ UNCHANGED <<stack, progress, up, guiPath, dialogs, beats, serverVars, toServer>>

\* Mutant: the polling timer does not fire inside itself.
GetPendingDataNotNested == InEventLoop /\ Len(stack) < 2 /\ toClient # << >> /\ HandleReply
\* The polling timer fires in the event loop of the running frame.
GetPendingData == InEventLoop /\ toClient # << >> /\ HandleReply

\* timerEvent of GUIActionSender: the Client runs with heartbeats on.
Heartbeat ==
    /\ InEventLoop /\ beats < MaxBeats
    /\ beats' = beats + 1
    /\ ToServer(<<[tag |-> "HEARTBEAT"]>>)
    /\ UNCHANGED <<stack, fileVars, up, guiPath, dialogs, serverVars, toClient>>

\* The last window is closed while a file is being read: exit at once.
ReportWindowClosed ==
    /\ InEventLoop /\ reading
    /\ ToServer(<<[tag |-> "GUI_QUIT"]>>)
    /\ up' = FALSE
    /\ UNCHANGED <<stack, fileVars, guiPath, dialogs, beats, serverVars, toClient>>

-------------------------------------------------------------------------------
(* The Client: the search-path dialog, modal like the progress dialog.         *)

PushDialog ==
    /\ InEventLoop
    /\ dialogs < MaxDialogs /\ Len(stack) < MaxDepth
    /\ progress = "none"
    /\ \A i \in 1..Len(stack) : stack[i].at # "dialog"
    /\ dialogs' = dialogs + 1
    /\ stack' = Append(stack, Dialog)

\* Mutant: the dialog shows what it knows and asks for nothing.
OpenDialogCached ==
    /\ PushDialog
    /\ UNCHANGED <<fileVars, up, guiPath, beats, serverVars, toServer, toClient>>
\* setSearchPath asks for the directories and the path, then runs the dialog.
OpenDialog ==
    /\ PushDialog
    /\ ToServer(<<[tag |-> "GET_SUBDIRS"], [tag |-> "REPORT_SEARCH_PATH"]>>)
    /\ UNCHANGED <<fileVars, up, guiPath, beats, serverVars, toClient>>

\* FileCollection::clear deletes every FileInfo in the table.
Cleared == [id \in DOMAIN infos |->
               IF \E f \in Files : table[f] = id
               THEN [infos[id] EXCEPT !.live = FALSE]
               ELSE infos[id]]

\* OK: set the path, clear the cache, and let the view that displays one of the
\* files ask for it again, all before setSearchPath returns.
AcceptDialog(p) ==
    /\ up /\ IsAt("dialog")
    /\ guiPath' = p
    /\ ToServer(<<[tag |-> "SET_SEARCH_PATH", path |-> p]>>)
    /\ infos' = Cleared
    /\ table' = [f \in Files |-> 0]
    /\ \/ stack' = Below
       \/ \E f \in Files : /\ table[f] # 0
                           /\ MayCall
                           /\ stack' = Append(Below, Called(f))
    /\ UNCHANGED <<pending, reading, progress, up, dialogs, beats, serverVars, toClient>>

RejectDialog ==
    /\ up /\ IsAt("dialog")
    /\ stack' = Below
    /\ UNCHANGED <<fileVars, up, guiPath, dialogs, beats, serverVars, toServer, toClient>>

-------------------------------------------------------------------------------
(* The XML server.  The callback of a running search calls check_socket again, *)
(* so check_socket is one operator, used at both levels.                       *)

Search == searches[Len(searches)]
Outer == SubSeq(searches, 1, Len(searches) - 1)

\* A call of read_file: the search works on the path of this moment; "stop" is
\* how the callback has told it to stop, if it has.
NewSearch(msg) == [id |-> msg.id, file |-> msg.file, on |-> path, steps |-> 0, stop |-> "no"]

\* What check_socket does with a message, other than starting read_file.
CheckSocket(msg) ==
    /\ reader' = (reader \/ msg.tag \in {"READ_FILE", "GET_SUBDIRS", "REPORT_SEARCH_PATH"})
    /\ path' = IF msg.tag = "SET_SEARCH_PATH" THEN msg.path ELSE path
    /\ ToClient(CASE msg.tag = "GET_SUBDIRS" -> <<[tag |-> "SUBDIRS"]>>
                  [] msg.tag = "REPORT_SEARCH_PATH" -> <<[tag |-> "SEARCH_PATH"]>>
                  [] msg.tag = "GUI_QUIT" -> <<[tag |-> "SAYS_QUIT"]>>
                  [] msg.tag \in {"READ_FILE", "SET_SEARCH_PATH", "CANCEL", "HEARTBEAT"} -> << >>)

\* The main loop handles the next message; a cancel or a heartbeat changes
\* nothing here, and after GUI_SAYS_QUIT the loop ends.
ServeMessage ==
    /\ server = "running" /\ searches = << >> /\ toServer # << >>
    /\ LET msg == Head(toServer) IN
           /\ CheckSocket(msg)
           /\ searches' = IF msg.tag = "READ_FILE" THEN <<NewSearch(msg)>> ELSE << >>
           /\ server' = IF msg.tag = "GUI_QUIT" THEN "exited" ELSE "running"
    /\ toServer' = Tail(toServer)
    /\ UNCHANGED guiVars

\* Mutant: the main loop goes on after SOCKET_ERROR.
ServeEOFForever ==
    /\ server = "running" /\ searches = << >>
    /\ ~up /\ toServer = << >>
    /\ UNCHANGED vars
\* The main loop reads the end of the stream.
ServeEOF ==
    /\ server = "running" /\ searches = << >>
    /\ ~up /\ toServer = << >>
    /\ server' = "exited"
    /\ UNCHANGED <<guiVars, searches, path, reader, toServer, toClient>>

\* The search is about to descend into a directory.
AtDescent == /\ server = "running" /\ searches # << >>
             /\ Search.stop = "no" /\ Search.steps < MaxDescents

Step(s, stop) == [s EXCEPT !.steps = @ + 1, !.stop = stop]

\* The callback polls the socket and sees nothing (or not yet).
DescendUndisturbed ==
    /\ AtDescent
    /\ up \/ toServer # << >>
    /\ searches' = Append(Outer, Step(Search, "no"))
    /\ UNCHANGED <<guiVars, path, reader, server, toServer, toClient>>

\* Mutant: only a cancel stops the search, as in the dynTG collector.
VerdictOfCollector(tag) == IF tag = "CANCEL" THEN "stopped" ELSE "no"
\* How check_continue_search judges the tag of the message it has handled:
\* cancel stops the search, heartbeat and quit do not, any other message does.
Verdict(tag) == CASE tag = "CANCEL" -> "stopped"
                  [] tag \in {"HEARTBEAT", "GUI_QUIT"} -> "no"
                  [] OTHER -> "interrupted"

\* The callback finds a message and has check_socket handle it.  A quit is
\* answered, and forgotten once the callback returns.
DescendWithMessage ==
    /\ AtDescent /\ toServer # << >>
    /\ LET msg == Head(toServer) IN
           /\ CheckSocket(msg)
           /\ searches' = Append(Outer, Step(Search, Verdict(msg.tag)))
                          \o (IF msg.tag = "READ_FILE" THEN <<NewSearch(msg)>> ELSE << >>)
    /\ toServer' = Tail(toServer)
    /\ UNCHANGED <<guiVars, server>>

\* The callback reads the end of the stream.
DescendAtEOF ==
    /\ AtDescent /\ ~up /\ toServer = << >>
    /\ searches' = Append(Outer, Step(Search, "interrupted"))
    /\ UNCHANGED <<guiVars, path, reader, server, toServer, toClient>>

EndOf(s) == IF s.stop # "no" THEN s.stop
            ELSE IF <<s.file, s.on>> \in Exists THEN "found" ELSE "missing"

ResultOf(s) == [path |-> s.on, end |-> EndOf(s)]
FullPath(s) == [tag |-> "FULL_PATH", id |-> s.id, result |-> ResultOf(s)]
Text(s) == [tag |-> "READ_COMPLETE", id |-> s.id, result |-> ResultOf(s)]

\* Mutant: nothing is sent for a file that was not found.
RepliesIfFound(s) == IF EndOf(s) # "found" THEN << >> ELSE <<FullPath(s), Text(s)>>
\* What read_file sends back: the full path and the text, or an empty text for
\* whatever was not found; nothing after the path when open fails.
Replies(s) == IF EndOf(s) # "found" THEN <<Text(s)>>
              ELSE IF s.file \in Unreadable THEN <<FullPath(s)>>
              ELSE <<FullPath(s), Text(s)>>

\* The search ends, and read_file answers.  Writing to a Client that is gone may
\* kill the server.
FinishSearch ==
    /\ server = "running" /\ searches # << >>
    /\ searches' = Outer
    /\ ToClient(Replies(Search))
    /\ server' \in {"running"} \cup (IF up THEN {} ELSE {"exited"})
    /\ UNCHANGED <<guiVars, path, reader, toServer>>

-------------------------------------------------------------------------------
FrameLeaves == FoundAfterWaiting \/ RequestFile \/ SendCancel \/ ReturnInfo

User == \/ \E f \in Files : GetSource(f)
        \/ ShowProgress \/ PressStop
        \/ OpenDialog \/ RejectDialog
        \/ \E p \in Paths : AcceptDialog(p)
        \/ ReportWindowClosed

Client == FrameLeaves \/ GetPendingData \/ Heartbeat \/ User

Server == \/ ServeMessage \/ ServeEOF
          \/ DescendUndisturbed \/ DescendWithMessage \/ DescendAtEOF
          \/ FinishSearch

Next == Client \/ Server

Spec == Init /\ [][Next]_vars

(* Every event loop of the Client polls the connection (a 10 ms timer) and     *)
(* returns from processEvents; the server never sleeps while a message or the  *)
(* end of the stream is there to read, and a search visits finitely many       *)
(* directories.  Nothing is assumed of the user.                               *)
FairSpec == Spec /\ WF_vars(FrameLeaves) /\ WF_vars(GetPendingData) /\ WF_vars(Server)

-------------------------------------------------------------------------------
(* Properties.                                                                 *)

Id == 1..MaxRequests
Message == [tag : {"READ_FILE"}, id : Id, file : Files]
           \cup [tag : {"CANCEL"}, id : Id]
           \cup [tag : {"HEARTBEAT", "GUI_QUIT", "GET_SUBDIRS", "REPORT_SEARCH_PATH"}]
           \cup [tag : {"SET_SEARCH_PATH"}, path : Paths]
Reply == [tag : {"FULL_PATH", "READ_COMPLETE"}, id : Id, result : Result]
         \cup [tag : {"SUBDIRS", "SEARCH_PATH", "SAYS_QUIT"}]

FrameRecord == [at : {"wait", "call", "read", "dialog"}, file : Files \cup {None},
                id : Id \cup {0}, canceled : BOOLEAN]
Outcome == {<< >>} \cup {<<r>> : r \in Result}
FileInfo == [file : Files, text : Outcome, fullPath : Outcome, live : BOOLEAN]
SearchRecord == [id : Id, file : Files, on : Paths, steps : 0..MaxDescents,
                 stop : {"no"} \cup Ends]

\* Type invariant of the Client's tables, the call stack, both channels and the
\* server.
TypeOK ==
    /\ stack \in Seq(FrameRecord)
    /\ table \in [Files -> Id \cup {0}]
    /\ pending \subseteq Id
    /\ reading \in BOOLEAN /\ up \in BOOLEAN /\ reader \in BOOLEAN
    /\ infos \in Seq(FileInfo) /\ Len(infos) <= MaxRequests
    /\ progress \in {"none", "shown", "stopped"}
    /\ guiPath \in Paths /\ path \in Paths
    /\ dialogs \in 0..MaxDialogs /\ beats \in 0..MaxBeats
    /\ toServer \in Seq(Message) /\ toClient \in Seq(Reply)
    /\ searches \in Seq(SearchRecord)
    /\ server \in {"running", "exited"}

Asks(k) == toServer[k].tag = "READ_FILE"
IsFullPath(k) == toClient[k].tag = "FULL_PATH"
IsText(k) == toClient[k].tag = "READ_COMPLETE"
Numbered(k) == IsFullPath(k) \/ IsText(k)

\* However the Client's calls nest, requests and answers match (createFileInfo,
\* setFullPath, insertSourceFile):
\*  - at most one request is outstanding, the shared sourceState tells exactly
\*    that, and the server is not asked for a file while it searches for another;
\*  - a call whose request is still unanswered never finds the flag cleared by the
\*    answer to another call;
\*  - every reply under way belongs to the outstanding request, a full path comes
\*    before the text and each at most once, so the tables always find the key.
RequestsMatched ==
    /\ Cardinality(pending) <= 1
    /\ reading <=> pending # {}
    /\ Len(searches) <= 1
    /\ \A i \in 1..Len(stack) :
           stack[i].at = "read" /\ ~reading => infos[stack[i].id].text # << >>
    /\ \A k \in 1..Len(toClient) : Numbered(k) => toClient[k].id \in pending
    /\ \A j, k \in 1..Len(toClient) :
           Numbered(j) /\ Numbered(k) /\ j < k => IsFullPath(j) /\ IsText(k)

\* The cache is consistent: an entry is a record of that name that was not deleted,
\* it carries a full path just when its file was found, from the same search, and
\* insertSourceFile never meets an entry for the same name, on which the table
\* punts and the Client exits.
CacheSound ==
    /\ \A f \in Files : table[f] # 0 =>
           LET i == infos[table[f]] IN
               /\ i.file = f /\ i.live
               /\ i.text # << >>
               /\ i.fullPath = IF i.text[1].end = "found" THEN i.text ELSE << >>
    /\ \A id \in pending : table[infos[id].file] = 0

\* A change of the search path never pulls something from under the server: no
\* search goes on over a path that setPath has freed, and check_socket, which uses
\* sourceReader for COLLECTOR_SET_SEARCH_PATH without making it, finds one that an
\* earlier message has made.
PathsSafe ==
    /\ \A i \in 1..Len(searches) : searches[i].stop = "no" => searches[i].on = path
    /\ toServer # << >> /\ Head(toServer).tag = "SET_SEARCH_PATH" => reader

\* The outstanding request has a record, not yet filled in and not yet in the table.
OneOutstanding ==
    /\ pending \subseteq DOMAIN infos
    /\ \A i, j \in pending : i = j
    /\ reading <=> pending # {}
    /\ \A id \in pending : /\ infos[id].text = << >> /\ infos[id].live
                           /\ table[infos[id].file] = 0

\* It is in one place at most: under way to the server, searched for, or answered.
Unanswered(id) ==
    /\ id \in pending /\ infos[id].fullPath = << >>
    /\ \A k \in 1..Len(toClient) : ~Numbered(k)
OnePlace ==
    /\ \A k \in 1..Len(toServer) : Asks(k) =>
           /\ Unanswered(toServer[k].id)
           /\ searches = << >>
           /\ \A j \in 1..Len(toServer) : Asks(j) => j = k
    /\ Len(searches) <= 1
    /\ \A i \in 1..Len(searches) : Unanswered(searches[i].id)

\* The answer has the full path before the text, just when the file was found.
OneAnswer ==
    /\ \A k \in 1..Len(toClient) : Numbered(k) => toClient[k].id \in pending
    /\ \A j, k \in 1..Len(toClient) : Numbered(j) /\ Numbered(k) /\ j < k =>
           IsFullPath(j) /\ IsText(k) /\ toClient[j].result = toClient[k].result
    /\ \A k \in 1..Len(toClient) : IsFullPath(k) => toClient[k].result.end = "found"
    /\ \A k \in 1..Len(toClient) : IsText(k) =>
           \/ \E j \in 1..(k - 1) : IsFullPath(j)
           \/ infos[toClient[k].id].fullPath =
                  IF toClient[k].result.end = "found" THEN <<toClient[k].result>> ELSE << >>

\* Who waits asks for a file, and who reads has a record of a request that is
\* outstanding until it is filled in.
FramesSound ==
    /\ Len(infos) + Cardinality(Waits) <= MaxRequests
    /\ \A i \in 1..Len(stack) :
           /\ stack[i].at \in {"wait", "call"} => stack[i].file \in Files
           /\ stack[i].at = "read" =>
                  /\ stack[i].id \in DOMAIN infos
                  /\ infos[stack[i].id].text = << >> => stack[i].id \in pending

\* The dialog's first message makes sourceReader before its last one needs it.
ReaderMade ==
    /\ \A k \in 1..Len(toServer) : toServer[k].tag = "SET_SEARCH_PATH" =>
           reader \/ \E j \in 1..(k - 1) : toServer[j].tag = "GET_SUBDIRS"
    /\ \A i \in 1..Len(stack) : stack[i].at = "dialog" =>
           reader \/ \E j \in 1..Len(toServer) : toServer[j].tag = "GET_SUBDIRS"

\* What the table holds is the key of a record.
KeysAllocated == \A f \in Files : table[f] # 0 => table[f] \in DOMAIN infos

\* Why the properties hold.
IInv ==
    /\ TypeOK
    /\ OneOutstanding /\ OnePlace /\ OneAnswer
    /\ FramesSound
    /\ CacheSound /\ KeysAllocated
    /\ PathsSafe /\ ReaderMade

\* A request does not stay unanswered: while the Client runs, the state
\* readingFile is left, whatever the user does meanwhile.
ReadEnds == reading ~> (~reading \/ ~up)

\* getSourceLine and getSourceSize return, unless the user keeps the search-path
\* dialog open above them.
CallsReturn ==
    stack # << >> ~> (stack = << >> \/ ~up \/ \E i \in 1..Len(stack) : stack[i].at = "dialog")

\* When the Client exits in the middle of a read, the server exits as well, even
\* if its search has swallowed the quit message.
ServerExits == ~up ~> server = "exited"

-------------------------------------------------------------------------------
(* What comments say and the code does not do.                                 *)

\* createFileInfo "Returns pointer to FileInfo structure created": the record a
\* call is about to return has not been deleted.
ReturnsLiveInfo == IsAt("read") /\ ~reading => infos[Top.id].live

\* After clear() "any requests for file source or size will reload the file": no
\* cached text comes from another search path than the user's.
ClearReloads == \A f \in Files : table[f] # 0 => infos[table[f]].text[1].path = guiPath

\* The callback sees "if the user has asked to cancel the search": nothing else
\* makes a file of the running Client count as not found.
OnlyUserStops == \A i \in DOMAIN infos :
                     infos[i].text # << >> => infos[i].text[1].end # "interrupted"

\* createFileInfo waits until the collector has answered "file not found", also
\* for a file that it cannot open.
UnreadableAnswered == reading ~> (~reading \/ ~up)
===============================================================================
