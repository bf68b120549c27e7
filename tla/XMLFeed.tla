------------------------------- MODULE XMLFeed -------------------------------
(* The XML path of the tool: TGxmlserver follows the file a tool is still       *)
(* writing (Xmlserver/TGxmlserver.cpp), cuts it into snippets that end with a   *)
(* known top-level element, and sends them to the Client, whose UIXMLParser     *)
(* reads them event by event (Client/uimanager.cpp) and fills the UIManager.    *)
(*                                                                              *)
(* The file is a sequence of units: "<", "/", ">", the name in a tag, and the   *)
(* characters of the texts.  Attributes, comments and entities are left out.    *)
(* XMLDocument says what the window must show of it.                            *)
EXTENDS Naturals, Sequences, FiniteSets, SequencesExt, Accumulate

CONSTANTS Documents,             \* what the tool may write: sequences of elements
          Numbers,               \* the texts that are numbers
          MAX_MESSAGE_FOLDERS,   \* folders one message may be in
          Piece                  \* units the tool writes at a time

ASSUME FeedAssumption == MAX_MESSAGE_FOLDERS \in Nat /\ Piece \in Nat \ {0}

VARIABLES doc,        \* the elements the tool writes
          written,    \* units of its file that are on the disk
          server,     \* "start", "serving", "gone"
          parser,     \* the server's XMLSnippetParser
          statusSet,  \* the server has seen a status of the tool's own
          toClient,   \* messages on their way to the Client
          db          \* what the Client's UIManager and window hold

vars == <<doc, written, server, parser, statusSet, toClient, db>>

Complete == <<"Data read complete">>

\* The window without the message the server itself has put into its status line.
Shown == [db EXCEPT !.status = IF @ = Complete THEN << >> ELSE @]

Display == INSTANCE XMLDocument WITH shown <- Shown

NL == "\n"

-----------------------------------------------------------------------------
(* The tool and its file. *)

StartTag(name) == <<"<", name, ">">>
EndTag(name) == <<"<", "/", name, ">">>

RECURSIVE Render(_)
Render(element) ==
    IF element.name = Display!StrayText THEN element.text
    ELSE StartTag(element.name)
         \o (IF element.kids = << >> THEN element.text
             ELSE <<NL>> \o FlattenSeq([k \in 1..Len(element.kids) |->
                                         Append(Render(element.kids[k]), NL)]))
         \o EndTag(element.name)

\* The first n elements, each on a line of its own, and all of them.
Units(elements, n) ==
    StartTag("tool_gear") \o <<NL>>
    \o FlattenSeq([k \in 1..n |-> Append(Render(elements[k]), NL)])

Files == [elements \in Documents |->
              Units(elements, Len(elements)) \o EndTag("tool_gear") \o <<NL>>]

\* Where in its file each element of a document ends.
Ends == [elements \in Documents |->
             [n \in 1..Len(elements) |-> Len(Units(elements, n)) - 1]]

File == Files[doc]

Write ==
    /\ written < Len(File)
    /\ written' = Min({written + Piece, Len(File)})
    /\ UNCHANGED <<doc, server, parser, statusSet, toClient, db>>

-----------------------------------------------------------------------------
(* The server: XMLSnippetParser and its loop. *)

SnippetEnds == {"message", "site_data", "message_folder", "site_priority", "tool_title",
                "site_column", "about", "status"}

\* A slip that would lose the part of a snippet read so far.
StartSnippetAnew(p) == [p EXCEPT !.sbuf = << >>, !.lastLT = 0, !.snippetLineOffset = p.lineNo - 1]

\* getNextSnippet up to its first fgetc: unless the last call ended within a
\* snippet, a new one starts here.
StartSnippet(p) ==
    IF p.partialParse THEN p
    ELSE [p EXCEPT !.sbuf = << >>, !.lastLT = 0, !.snippetLineOffset = p.lineNo - 1]

\* getNextSnippet has returned sbuf, and parse_input sends it and calls again.
ReturnSnippet(p) ==
    StartSnippet([p EXCEPT !.partialParse = FALSE,
                           !.sent = Append(@, [text |-> p.sbuf, offset |-> p.snippetLineOffset])])

\* A '>' has been read: what it closes starts at the last '<'.
CloseElement(p) ==
    LET element == SubSeq(p.sbuf, p.lastLT + 1, Len(p.sbuf))
        truncated == [p EXCEPT !.sbuf = SubSeq(@, 1, p.lastLT)]
    IN  CASE p.sbuf[p.lastLT + 1] # "<" -> [p EXCEPT !.exited = TRUE]
          [] element = StartTag("tool_gear") -> truncated
          [] element \in {EndTag(name) : name \in SnippetEnds} ->
                 ReturnSnippet([p EXCEPT !.statusSet = @ \/ element = EndTag("status")])
          [] element = EndTag("tool_gear") ->
                 IF "<" \in Range(truncated.sbuf) THEN ReturnSnippet(truncated) ELSE truncated
          [] OTHER -> p

ReadChar(p, ch) ==
    LET appended == [p EXCEPT !.sbuf = Append(@, ch),
                              !.lastLT = IF ch = "<" THEN Len(p.sbuf) ELSE @,
                              !.lineNo = IF ch = NL THEN @ + 1 ELSE @,
                              !.pos = @ + 1]
    IN  IF p.exited THEN p
        ELSE IF ch = ">" THEN The({CloseElement(q) : q \in {appended}}) ELSE appended

\* parse_input: every complete snippet is sent, until the end of the file.
ReadFile(p) ==
    LET start == StartSnippet(p) @@ [sent |-> << >>, exited |-> FALSE, statusSet |-> statusSet]
        units == SubSeq(File, p.pos + 1, written)
    IN  [Accumulated(ReadChar, start, units) EXCEPT !.partialParse = TRUE]

ParserOf(p) == [field \in DOMAIN parser |-> p[field]]

\* The first time, main also says that the data is complete, if the tool says nothing of
\* its own.
Look ==
    /\ \E read \in {ReadFile(parser)} :
           LET snippets == [k \in 1..Len(read.sent) |->
                               [tag |-> "DB_PROCESS_XML_SNIPPET", snippet |-> read.sent[k]]]
               complete == IF server = "start" /\ ~read.statusSet /\ ~read.exited
                           THEN <<[tag |-> "DB_STATIC_DATA_COMPLETE"]>> ELSE << >>
           IN  /\ parser' = ParserOf(read)
               /\ statusSet' = read.statusSet
               /\ toClient' = toClient \o snippets \o complete
               /\ server' = IF read.exited THEN "gone" ELSE "serving"
    /\ UNCHANGED <<doc, written, db>>

\* A slip that would read the file once, and then wait for the Client only.
parse_inputOnce == server = "start" /\ Look

\* Between two selects; a look at a file that has not grown changes nothing.
parse_input == (server = "start" \/ (server = "serving" /\ parser.pos < written)) /\ Look

-----------------------------------------------------------------------------
(* The Client. *)

Reader == INSTANCE UIXMLParser

\* GUISocketReader takes the next message.
ReadMessage ==
    /\ toClient # << >>
    /\ db.alive
    /\ LET message == Head(toClient)
       IN  db' = IF message.tag = "DB_STATIC_DATA_COMPLETE" THEN [db EXCEPT !.status = Complete]
                 ELSE Reader!processXMLSnippet(db, message.snippet.text, message.snippet.offset)
    /\ toClient' = Tail(toClient)
    /\ UNCHANGED <<doc, written, server, parser, statusSet>>

Init ==
    /\ doc \in Documents
    /\ written = 0
    /\ server = "start"
    /\ parser = [pos |-> 0, sbuf |-> << >>, lastLT |-> 0, lineNo |-> 1,
                 snippetLineOffset |-> 0, partialParse |-> FALSE]
    /\ statusSet = FALSE
    /\ toClient = << >>
    /\ db = Display!Nothing

Next == Write \/ parse_input \/ ReadMessage

\* The server looks at the file after each select, at the latest after a second; the
\* Client's event loop reads its socket.  The tool may stop writing at any time.
Spec == Init /\ [][Next]_vars /\ WF_vars(parse_input) /\ WF_vars(ReadMessage)

-----------------------------------------------------------------------------
(* Properties. *)

\* Whatever the pieces the file is read in, and whenever, the window goes from what
\* some first elements say to what some more of them say: no element is lost, split,
\* repeated or read with the leftovers of another, nothing overwrites the tool's own
\* status, and a warning names the line of the file.
SameAsReadAtOnce == Display!Spec

\* The elements the server can know to be complete: it cuts only after a known
\* element or at the end of the file.
Cut == {n \in 1..Len(doc) :
            \/ doc[n].name \in SnippetEnds /\ Ends[doc][n] <= written
            \/ n = Len(doc) /\ Len(File) - 1 <= written}

CaughtUp == \A n \in Cut : \E m \in n..Len(doc) : Shown = Display!Meaning(doc, m)

\* The server ends on a '>' outside every element, the Client on a message it cannot
\* place.
Ended == server = "gone" \/ ~db.alive

\* Like tail -f: whenever the tool pauses, all it has written as a whole is shown at
\* last; and the user is told that the data is complete, unless the tool speaks of its
\* status itself.
Followed ==
    /\ []<>(CaughtUp \/ server = "gone")
    /\ <>(db.status # << >> \/ Ended)
=============================================================================
