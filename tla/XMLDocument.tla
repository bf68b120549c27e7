----------------------------- MODULE XMLDocument -----------------------------
(* What the XML a tool writes says to its user: the promise of TGui, "works     *)
(* like tail -f".  The tool writes a sequence of top-level elements, and the    *)
(* window shows what the first few of them say.                                 *)
(*                                                                              *)
(* An element is a tree of [name, text, kids]; a text is a sequence of          *)
(* characters and has no tag in it.  An element is read here as a whole;        *)
(* XMLFeed cuts a growing file into pieces, sends them, and reads them event by *)
(* event.                                                                       *)
EXTENDS Naturals, Sequences, FiniteSets, SequencesExt, Accumulate

CONSTANTS Documents,             \* what the tool may write: sequences of elements
          Numbers,               \* the texts that are numbers
          MAX_MESSAGE_FOLDERS    \* folders one message may be in

VARIABLES doc,     \* what the tool writes
          shown    \* what the window shows of it

NL == "\n"
Policies == {<<"show">>, <<"hide">>, <<"disable">>}

\* The name of a text between two elements, which says nothing.
StrayText == ""

\* The elements of level 0.
Commands == {"format", "version", "about", "tool_title", "message_folder", "message",
             "site_column", "site_data", "site_priority", "status"}

Nothing ==
    [folders |-> << >>,      \* the message folders, in the order they were declared
     caption |-> << >>,      \* title of the window
     status |-> << >>,       \* status line
     about |-> << >>,        \* text of the about box
     priorities |-> << >>,   \* what addSitePriority was given
     warnings |-> << >>,     \* what was printed, with the line of the file
     alive |-> TRUE]         \* FALSE once TG_error has ended the Client

-----------------------------------------------------------------------------
Texts(element, name) ==
    LET kids == SelectSeq(element.kids, LAMBDA kid : kid.name = name)
    IN  [k \in 1..Len(kids) |-> kids[k].text]

\* The first text of that name that is not empty, or an empty one.
FirstText(element, name) ==
    LET texts == SelectSeq(Texts(element, name), LAMBDA text : text # << >>)
    IN  IF texts = << >> THEN << >> ELSE Head(texts)

LastOf(texts, default) == IF texts = << >> THEN default ELSE Last(texts)

RECURSIVE Newlines(_)
\* Lines an element goes on for: a newline follows its start tag and each of its
\* kids, if it has any.
Newlines(element) ==
    IF element.kids = << >>
    THEN Len(SelectSeq(element.text, LAMBDA ch : ch = NL))
    ELSE 1 + FoldSeq(LAMBDA kid, n : n + 1 + Newlines(kid), 0, element.kids)

\* Every element is on a line of its own, the first one on line 2.
LineOf(elements, k) ==
    2 + FoldSeq(LAMBDA element, n : n + 1 + Newlines(element), 0, SubSeq(elements, 1, k - 1))

Warn(db, what, line) == [db EXCEPT !.warnings = Append(@, [what |-> what, line |-> line])]

-----------------------------------------------------------------------------
(* What each element says. *)

FoldersOf(db, tag) == {k \in 1..Len(db.folders) : db.folders[k].tag = tag}

DeclareFolder(db, element, line) ==
    LET tag == FirstText(element, "tag")
        title == FirstText(element, "title")
        policies == SelectSeq(Texts(element, "if_empty"), LAMBDA text : text \in Policies)
    IN  IF tag = << >> \/ title = << >> THEN [db EXCEPT !.alive = FALSE]
        ELSE IF FoldersOf(db, tag) = {}
        THEN [db EXCEPT !.folders = Append(@,
                 [tag |-> tag, title |-> title, if_empty |-> LastOf(policies, <<"show">>),
                  messages |-> << >>])]
        ELSE IF \E k \in FoldersOf(db, tag) : db.folders[k].title # title
        THEN Warn(db, <<"redeclared">>, line + Newlines(element))
        ELSE db

Traceback(element) ==
    LET sites(annot) == SelectSeq(annot.kids, LAMBDA kid : kid.name = "site")
        lines(annot) == [title |-> FirstText(annot, "title"),
                         sites |-> [k \in 1..Len(sites(annot)) |->
                             [part \in {"file", "line", "desc"} |->
                                 FirstText(sites(annot)[k], part)]]]
        annots == SelectSeq(element.kids, LAMBDA kid : kid.name = "annot")
    IN  [k \in 1..Len(annots) |-> lines(annots[k])]

PutMessage(db, tag, message) ==
    IF ~db.alive THEN db
    ELSE IF FoldersOf(db, tag) = {} THEN [db EXCEPT !.alive = FALSE]
    ELSE [db EXCEPT !.folders[CHOOSE k \in FoldersOf(db, tag) : TRUE].messages =
             Append(@, message)]

\* A message without a heading, or in a folder nobody has declared, ends the Client.
AddMessage(db, element) ==
    LET folders == Texts(element, "folder")
        wanted == SubSeq(folders, 1, IF Len(folders) < MAX_MESSAGE_FOLDERS
                                       THEN Len(folders) ELSE MAX_MESSAGE_FOLDERS)
        message == [heading |-> FirstText(element, "heading"),
                    body |-> FirstText(element, "body"),
                    traceback |-> Traceback(element)]
    IN  IF message.heading = << >> \/ << >> \in Range(wanted)
        THEN [db EXCEPT !.alive = FALSE]
        ELSE FoldLeft(LAMBDA d, tag : PutMessage(d, tag, message), db, wanted)

AddPriority(db, element, line) ==
    LET modifiers == Texts(element, "modifier")
        modifier == LastOf(modifiers, << >>)
        parts == [part \in {"file", "desc", "line"} |-> FirstText(element, part)]
    IN  IF modifier \notin Numbers THEN Warn(db, <<"no modifier">>, line + Newlines(element))
        ELSE IF \A part \in DOMAIN parts : parts[part] = << >>
        THEN Warn(db, <<"no expression">>, line + Newlines(element))
        ELSE [db EXCEPT !.priorities = Append(@, <<modifier, parts>>)]

\* A text goes before or after the others on lines of its own; a blank line is
\* left before one that goes after.
AddAbout(db, element) ==
    LET gap(about) == CASE about = << >>      -> << >>
                        [] Last(about) = NL   -> <<NL>>
                        [] OTHER              -> <<NL, NL>>
        rest(about) == IF about = << >> THEN << >> ELSE <<NL>> \o about
    IN  FoldLeft(LAMBDA d, kid :
                     CASE kid.name = "prepend" -> [d EXCEPT !.about = kid.text \o rest(@)]
                       [] kid.name = "append"  -> [d EXCEPT !.about = @ \o gap(@) \o kid.text]
                       [] OTHER                -> d,
                 db, element.kids)

\* A command that says nothing is warned about once, like a name nobody knows.
WarnOnce(db, element, line) ==
    LET what == <<"ignored", element.name, 0>>
    IN  IF \E k \in 1..Len(db.warnings) : db.warnings[k].what = what THEN db
        ELSE Warn(db, what, IF element.name \in Commands
                            THEN line + Newlines(element) ELSE line)

Apply(db, element, line) ==
    CASE ~db.alive                           -> db
      [] element.name = "message_folder"     -> DeclareFolder(db, element, line)
      [] element.name = "message"            -> AddMessage(db, element)
      [] element.name = "site_priority"      -> AddPriority(db, element, line)
      [] element.name = "about"              -> AddAbout(db, element)
      [] element.name = "tool_title"         -> [db EXCEPT !.caption = element.text]
      [] element.name = "status"             -> [db EXCEPT !.status = element.text]
      [] element.name \in {"format", "version", StrayText} -> db
      [] OTHER                               -> WarnOnce(db, element, line)

\* What the first n elements say.
Meaning(elements, n) ==
    Accumulated(LAMBDA db, k : Apply(db, elements[k], LineOf(elements, k)),
                Nothing, [k \in 1..n |-> k])

-----------------------------------------------------------------------------
Init ==
    /\ doc \in Documents
    /\ shown = Nothing

Show ==
    /\ \E n, m \in 0..Len(doc) :
           /\ n < m
           /\ shown = Meaning(doc, n)
           /\ shown' = Meaning(doc, m)
    /\ UNCHANGED doc

Spec == Init /\ [][Show]_<<doc, shown>>
=============================================================================
