---------------------------- MODULE MessageViewer ----------------------------
(* A message window of the Client (Client/messageviewer.cpp): the messages of   *)
(* the UIManager in MessageView, the source of the selected one in              *)
(* TracebackView.                                                               *)
(*                                                                              *)
(* Everything happens in one thread, but the source file may have to be read    *)
(* from the server, and FileCollection runs the event loop until it is there:   *)
(* timers fire, messages arrive and the user acts while showFileLine waits, and *)
(* may make it wait again.  calls is the stack of these waits.                  *)
EXTENDS MessageView, TracebackView, FiniteSets

CONSTANTS Declarations,  \* the folders a tool may declare, by their policies
          Files,         \* names of source files
          Texts,         \* messages: number of lines and traceback
          MaxMessages,     \* messages in all folders
          MaxRefreshes,    \* events 1101 in the queue when the user selects a folder
          MaxWaits         \* waits within each other when the user selects a site

Policies == {"show", "hide", "disable"}

Sites == [file : Files, line : Nat]

\* addMessage stores one line at least, of an empty text too.  A number stands for
\* each priority that a site may have.
ASSUME ViewerAssumption ==
    /\ Declarations \subseteq Seq(Policies)
    /\ Texts \subseteq [lines : Nat \ {0}, traceback : Seq(Sites)]
    /\ \A text \in Texts : \A level \in DOMAIN text.traceback :
           Priority(text.traceback[level]) \in Nat
    /\ MaxMessages \in Nat /\ MaxRefreshes \in Nat /\ MaxWaits \in Nat

VARIABLES um,         \* the UIManager's folders and their messages
          open,       \* the window has been created
          view,       \* its MessageView
          tb,         \* its TracebackView
          loaded,     \* files FileCollection has, or knows not to be found
          requested,  \* the file it reads (sourceState), or NoFile
          calls,      \* showFileLine's calls that wait for a file, the outermost first
          overtaken   \* history: another site or folder was chosen during a wait

vars == <<um, open, view, tb, loaded, requested, calls, overtaken>>

-----------------------------------------------------------------------------
(* The UIManager. *)

\* addMessage and declareMessageFolder tell the window at once.
DeclareFolder ==
    /\ \E policies \in Declarations :
           /\ Len(um) < Len(policies)
           /\ \A folder \in DOMAIN um : um[folder].ifEmpty = policies[folder]
           /\ um' = Append(um, [ifEmpty |-> policies[Len(um) + 1], messages |-> << >>])
    /\ view' = IF open THEN messageFolderDeclaredHandler(um', view, Len(um')) ELSE view
    /\ UNCHANGED <<open, tb, loaded, requested, calls, overtaken>>

AddMessage ==
    /\ SumFunction([folder \in DOMAIN um |-> Len(um[folder].messages)]) < MaxMessages
    /\ \E folder \in DOMAIN um, text \in Texts :
           um' = [um EXCEPT ![folder].messages = Append(@, text)]
    /\ view' = [view EXCEPT !.messagesAdded = @ \/ open]
    /\ UNCHANGED <<open, tb, loaded, requested, calls, overtaken>>

OpenWindow ==
    /\ ~open
    /\ open' = TRUE
    /\ view' = Construct(um)
    /\ UNCHANGED <<um, tb, loaded, requested, calls, overtaken>>

-----------------------------------------------------------------------------
(* Showing a source line. *)

Callers == {"selectDefaultMessage", "messageClickedHandler", "tracebackIndexSelectedHandler"}

\* showFileLine(site) has been called, in a view that is now asking: with the file at
\* hand the line is shown at once, and the caller goes on; otherwise it waits, for a file
\* that is being read or for its own.
ShowFileLine(asking, site, caller) ==
    /\ IF site.file \in loaded \cup {NoFile}
       THEN tb' = ShowSite(asking, site) /\ UNCHANGED <<requested, calls>>
       ELSE /\ tb' = asking
            /\ calls' = Append(calls, [site |-> site, caller |-> caller])
            /\ requested' = IF requested = NoFile THEN site.file ELSE requested
    /\ overtaken' = (overtaken \/ \E k \in DOMAIN calls : calls[k].site # site)

\* messageSelectedHandler.
SetTraceback(traceback, caller) ==
    LET asking == setTraceback(tb, traceback)
    IN  ShowFileLine(asking, SiteAt(asking, asking.tracebackIndex), caller)

FileArrives ==
    /\ requested # NoFile
    /\ loaded' = loaded \cup {requested}
    /\ requested' = NoFile
    /\ UNCHANGED <<um, open, view, tb, calls, overtaken>>

\* No file is being read: the innermost wait is over, which is the one that runs.
Resumes == calls # << >> /\ requested = NoFile

\* It was for another call's file, and its own has not come in the meantime.
RequestFile ==
    /\ Resumes
    /\ Last(calls).site.file \notin loaded
    /\ requested' = Last(calls).site.file
    /\ UNCHANGED <<um, open, view, tb, loaded, calls, overtaken>>

\* The innermost call goes on, with its own site.
CallReturns ==
    /\ Resumes
    /\ Last(calls).site.file \in loaded
    /\ LET call == Last(calls)
       IN  /\ tb' = ShowSite(tb, call.site)
           /\ view' = IF call.caller = "selectDefaultMessage" THEN Refreshed(view) ELSE view
    /\ calls' = Front(calls)
    /\ UNCHANGED <<um, open, loaded, requested, overtaken>>

-----------------------------------------------------------------------------
(* The window's own events, and the user. *)

Flush ==
    /\ open
    /\ UNCHANGED <<um, open, tb, loaded, requested, calls, overtaken>>
    /\ view' = flushMessageUpdates(um, view)

midUpdate == \E k \in DOMAIN calls : calls[k].caller = "selectDefaultMessage"

\* Event 1101; during another selectDefaultMessage it is dropped.
selectDefaultMessage ==
    /\ view.refreshes > 0
    /\ LET taken == [view EXCEPT !.refreshes = @ - 1]
           cleared == ForgetSelected(taken)
           row == DefaultRow(taken)
           clicked == messageClickedHandler(cleared, row)
       IN  IF midUpdate \/ ~StateOf(view).refreshView
           THEN view' = taken /\ UNCHANGED <<tb, requested, calls, overtaken>>
           ELSE /\ SetTraceback(SelectedTraceback(um, view, row), "selectDefaultMessage")
                /\ view' = IF calls' = calls THEN Refreshed(clicked) ELSE clicked
    /\ UNCHANGED <<um, open, loaded>>

SelectFolder ==
    /\ view.refreshes < MaxRefreshes
    /\ \E combo \in DOMAIN view.items :
           view' = messageFolderSelectedHandler(um, view, combo)
    /\ overtaken' = (overtaken \/ calls # << >>)
    /\ UNCHANGED <<um, open, tb, loaded, requested, calls>>

ClickMessage ==
    /\ Len(calls) < MaxWaits
    /\ \E row \in Rows(view) :
           /\ Emits(view, row)
           /\ view' = messageClickedHandler(view, row)
           /\ SetTraceback(SelectedTraceback(um, view, row), "messageClickedHandler")
    /\ UNCHANGED <<um, open, loaded>>

\* The user picks another site of the traceback.
SelectLevel ==
    /\ Len(calls) < MaxWaits
    /\ \E level \in DOMAIN tb.tracebackString \ {tb.tracebackIndex} :
           ShowFileLine(tracebackIndexSelectedHandler(tb, level),
                        tb.tracebackString[level], "tracebackIndexSelectedHandler")
    /\ UNCHANGED <<um, open, view, loaded>>

ChangeFont ==
    /\ open
    /\ view' = labelFontChanged(view)
    /\ UNCHANGED <<um, open, tb, loaded, requested, calls, overtaken>>

Init ==
    /\ um = << >>
    /\ open = FALSE
    /\ view = NewView
    /\ tb = NewTraceback
    /\ loaded = {}
    /\ requested = NoFile
    /\ calls = << >>
    /\ overtaken = FALSE

Next ==
    \/ DeclareFolder \/ AddMessage \/ OpenWindow
    \/ FileArrives \/ RequestFile \/ CallReturns
    \/ Flush \/ selectDefaultMessage
    \/ SelectFolder \/ ClickMessage \/ SelectLevel \/ ChangeFont

\* The event loop delivers the timer's events, in every wait too.
Spec == Init /\ [][Next]_vars /\ WF_vars(Flush)

-----------------------------------------------------------------------------
(* Properties. *)

TypeOK ==
    /\ um \in Seq([ifEmpty : Policies, messages : Seq(Texts)])
    /\ open \in BOOLEAN /\ overtaken \in BOOLEAN
    /\ requested \in Files \cup {NoFile}
    /\ ViewType(view)
    /\ DOMAIN tb = DOMAIN NewTraceback /\ tb.tracebackString \in Seq(Sites)
    /\ calls \in Seq([site : Sites, caller : Callers])
    /\ Len(calls) <= MaxWaits + 1

\* All that the window has to do has been done.
Quiet == calls = << >> /\ view.refreshes = 0 /\ view.displayedFolder # None

\* One message is selected and highlighted if there is one, the list of sites is its
\* traceback, and the source shown is the site chosen in it.
Settled ==
    LET state == StateOf(view)
        messages == um[view.displayedFolder].messages
    IN  /\ view.heads # << >> =>
               /\ state.selectedMessage # None
               /\ view.highlighted = {view.heads[state.selectedMessage]}
        /\ tb.tracebackString = IF state.selectedMessage = None THEN << >>
                                ELSE messages[state.selectedMessage].traceback
        /\ Shows(tb, SiteAt(tb, tb.tracebackIndex))

\* What a user relies on who looks at a window at rest.
SelectionShown == Quiet => Settled

\* Whatever order the timer, the posted events, the user and the files come in, the
\* window is consistent, and at rest it shows what is selected in it, unless another
\* site or folder was chosen while one waited for its source.
WindowSound ==
    /\ TypeOK
    /\ ComboSound(view)
    /\ GridSound(um, view)
    /\ ~overtaken => SelectionShown

-----------------------------------------------------------------------------
(* Why the window is sound. *)

\* Calls wait only for files, of the sites of a message; without the user's doing
\* they all wait for one site.
CallsSound ==
    /\ \A k \in DOMAIN calls : calls[k].site.file # NoFile
    /\ midUpdate \/ Len(calls) <= MaxWaits
    /\ view.displayedFolder = None =>
           calls = << >> /\ tb.tracebackString = << >>
    /\ ~overtaken =>
           /\ \A k, l \in DOMAIN calls : calls[k].site = calls[l].site
           /\ midUpdate => view.heads # << >>

\* Only the line displayed is highlighted, which is the one that is waited for.
SourceSound ==
    /\ tb.grid = tb.displayedFile
    /\ ~overtaken =>
           /\ tb.highlighted \subseteq {tb.displayedLine}
           /\ \A k \in DOMAIN calls : tb.highlighted \subseteq {calls[k].site.line}

\* A refresh of the folder shown is on its way, and will not be dropped.
Owed == ~midUpdate /\ StateOf(view).refreshView /\ view.refreshes > 0

\* If not, the window has what is selected in it, but for the source waited for.
Chosen ==
    LET state == StateOf(view)
        site == SiteAt(tb, tb.tracebackIndex)
    IN  /\ view.heads # << >> =>
               /\ state.selectedMessage # None
               /\ view.highlighted = {view.heads[state.selectedMessage]}
        /\ tb.tracebackString =
               IF state.selectedMessage = None THEN << >>
               ELSE um[view.displayedFolder].messages[state.selectedMessage].traceback
        /\ \A k \in DOMAIN calls : calls[k].site = site
        /\ calls = << >> => Shows(tb, site)
ChosenOrOwed == view.displayedFolder # None /\ ~overtaken => Chosen \/ Owed

\* Each folder has its state from its declaration on, once the window is there.
StatesKept == Len(view.folderState) = IF open THEN Len(um) ELSE 0

IInv ==
    /\ TypeOK /\ StatesKept /\ ViewSound(um, view)
    /\ CallsSound /\ SourceSound /\ ChosenOrOwed

-----------------------------------------------------------------------------
\* Every entry shows how many messages its folder has, the grid has all of them, and no
\* folder is left out but empty ones to be hidden.
UpToDate ==
    /\ view.displayedFolder # None =>
           Len(view.heads) = Len(um[view.displayedFolder].messages)
    /\ \A folder \in DOMAIN um :
           \/ um[folder].messages = << >> /\ um[folder].ifEmpty = "hide"
           \/ /\ folder \in DOMAIN view.folder2combo
              /\ view.items[view.folder2combo[folder]].count = Len(um[folder].messages)

\* The 200 ms timer brings everything to the screen, also in the middle of a wait.
Follows == []<>(open => UpToDate)
=============================================================================
