---------------------------- MODULE TracebackView ----------------------------
(* The lower half of a message window (Client/tracebackview.cpp): the list of   *)
(* the sites of a traceback, and the source of one of them with its line        *)
(* highlighted.  A traceback is a sequence of sites, each [file, line];         *)
(* titles within it, and several tabs, are left out.                            *)
EXTENDS Naturals, Sequences

CONSTANTS NoFile,          \* the empty file name
          Missing,         \* files the server does not find
          Priority(_)      \* calcLevelPriority: of a site

NoSite == [file |-> NoFile, line |-> 0]

\* Nothing is displayed; the one entry of the list is a notice.
NewTraceback == [tracebackString |-> << >>, tracebackIndex |-> 1,
                 grid |-> NoFile, highlighted |-> {},
                 displayedFile |-> NoFile, displayedLine |-> 0]

SiteAt(tb, level) == IF tb.tracebackString = << >> THEN NoSite ELSE tb.tracebackString[level]

\* The highest priority; the first of several.
DefaultLevel(traceback) ==
    IF traceback = << >> THEN 1
    ELSE CHOOSE level \in DOMAIN traceback :
             \A other \in DOMAIN traceback :
                 \/ Priority(traceback[other]) < Priority(traceback[level])
                 \/ Priority(traceback[other]) = Priority(traceback[level]) /\ level <= other

\* showFileLine before it asks for the file's size: the last highlighting is undone.
UndoHighlight(tb) == [tb EXCEPT !.highlighted = @ \ {tb.displayedLine}, !.displayedLine = 0]

setTraceback(tb, traceback) ==
    UndoHighlight([tb EXCEPT !.tracebackString = traceback,
                             !.tracebackIndex = DefaultLevel(traceback)])

tracebackIndexSelectedHandler(tb, level) == UndoHighlight([tb EXCEPT !.tracebackIndex = level])

Notice(tb) == [tb EXCEPT !.grid = NoFile, !.highlighted = {}, !.displayedFile = NoFile]

Source(tb, site) ==
    LET filled == IF tb.displayedFile = site.file THEN tb
                  ELSE [tb EXCEPT !.grid = site.file, !.highlighted = {}]
    IN  [filled EXCEPT !.highlighted = @ \cup {site.line},
                       !.displayedFile = site.file, !.displayedLine = site.line]

\* showFileLine once the size is known.
ShowSite(tb, site) ==
    IF site.file \in Missing \cup {NoFile} THEN Notice(tb) ELSE Source(tb, site)

\* What the view should show of a site.
Shows(tb, site) ==
    IF site.file \in Missing \cup {NoFile} THEN tb.grid = NoFile /\ tb.highlighted = {}
    ELSE tb.grid = site.file /\ tb.highlighted = {site.line}
=============================================================================
