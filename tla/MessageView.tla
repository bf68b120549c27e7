----------------------------- MODULE MessageView -----------------------------
(* The upper half of a message window (Client/messageview.cpp): a combo box of  *)
(* the message folders and a grid with the messages of the folder shown.        *)
(*                                                                              *)
(* um is what the UIManager holds: for each folder, in the order of their       *)
(* declaration, what to do with it while it is empty (ifEmpty) and its          *)
(* messages, each with its number of lines and the sites of its traceback.      *)
(* Folders, combo box entries, messages and rows are counted from 1.            *)
EXTENDS Naturals, Sequences, FiniteSetsExt, SequencesExt, Functions

None == 0

\* The only member of a set.  The({Step(v) : v \in {value}}) is Step(value), with the
\* value computed once: TLC evaluates an argument anew wherever it is looked at.
The(S) == CHOOSE member \in S : TRUE

NewFolderState == [selectedMessage |-> None, selectedRow |-> None, refreshView |-> FALSE]

\* A window before the constructor has looked for folders.
NewView == [folder2combo |-> << >>, combo2folder |-> << >>,
            items |-> << >>, currentItem |-> None,    \* the combo box: folder and count
            displayedCount |-> << >>,                 \* by folder, once it has been counted
            selectedFolder |-> None, displayedFolder |-> None,
            rows |-> << >>, heads |-> << >>,          \* row to message, message to its first row
            highlighted |-> {},                       \* rows in selectedMessageStyle
            folderState |-> << >>, messagesAdded |-> TRUE,
            refreshes |-> 0]                          \* events 1101 in the event queue

-----------------------------------------------------------------------------
(* The grid. *)

\* A folder is shown for the first time, or its first messages are.
PostRefresh(view, folder) ==
    [view EXCEPT !.folderState[folder].refreshView = TRUE, !.refreshes = @ + 1]

PrepareFolder(um, view, folder) ==
    IF view.displayedFolder = folder THEN view
    ELSE LET cleared == [view EXCEPT !.rows = << >>, !.heads = << >>, !.highlighted = {},
                                     !.displayedFolder = folder]
         IN  IF um[folder].messages = << >> THEN PostRefresh(cleared, folder) ELSE cleared

AppendMessage(um, view, message) ==
    LET lines == um[view.displayedFolder].messages[message].lines
    IN  [view EXCEPT !.heads = Append(@, Len(view.rows) + 1),
                     !.rows = @ \o [line \in 1..lines |-> message]]

\* All messages of the folder that are not in the grid, one after the other.
AppendMessages(um, view, folder) ==
    LET total == Len(um[folder].messages)
        appended[n \in 0..total] ==
            IF n <= Len(view.heads) THEN view
            ELSE The({AppendMessage(um, v, n) : v \in {appended[n - 1]}})
    IN  appended[total]

Fill(um, view, folder) ==
    LET filled == AppendMessages(um, view, folder)
    IN  IF Len(view.heads) < Len(um[folder].messages) /\ view.rows = << >>
        THEN PostRefresh(filled, folder) ELSE filled

updateMessageDisplay(um, view, folder) ==
    IF folder = None THEN view
    ELSE Fill(um, PrepareFolder(um, view, folder), folder)

-----------------------------------------------------------------------------
(* The combo box.  Its current item is a number: an item inserted before it     *)
(* moves it to another title.                                                   *)

messageFolderSelectedHandler(um, view, combo) ==
    LET folder == view.combo2folder[combo]
        current == [view EXCEPT !.currentItem = combo, !.selectedFolder = folder]
    IN  IF view.selectedFolder = folder THEN current
        ELSE updateMessageDisplay(um, current, folder)

\* The first entry of an empty combo box becomes its current item.
InsertItem(view, combo, folder) ==
    [view EXCEPT !.items = InsertAt(@, combo, [folder |-> folder, count |-> 0]),
                 !.currentItem = IF view.items = << >> THEN 1 ELSE @]

\* A folder gets its entry after the nearest one before it; the maps of all later
\* folders move by one.
Place(view, folder) ==
    LET placed == DOMAIN view.folder2combo
        before == {g \in placed : g < folder}
        later == {g \in placed : g > folder}
        combo == IF before = {} THEN 1 ELSE view.folder2combo[Max(before)] + 1
        moved == {view.folder2combo[g] : g \in later}
        kept == DOMAIN view.combo2folder \ moved
    IN  InsertItem(
            [view EXCEPT
                !.folder2combo = [g \in placed \cup {folder} |->
                    IF g = folder THEN combo ELSE IF g \in later THEN @[g] + 1 ELSE @[g]],
                !.combo2folder = [c \in kept \cup {m + 1 : m \in moved} \cup {combo} |->
                    IF c = combo THEN folder ELSE IF c - 1 \in moved THEN @[c - 1] ELSE @[c]]],
            combo, folder)

\* A title in grey is not selected by default.
SelectFirst(um, view, folder) ==
    IF view.selectedFolder # None \/ (um[folder].messages = << >> /\ um[folder].ifEmpty = "disable")
    THEN view ELSE messageFolderSelectedHandler(um, view, view.folder2combo[folder])

FollowSelected(view, selected, oldCombo) ==
    IF selected = None \/ view.folder2combo[selected] = oldCombo THEN view
    ELSE [view EXCEPT !.currentItem = view.folder2combo[selected]]

SetTitle(um, view, folder) ==
    [view EXCEPT !.items[view.folder2combo[folder]].count = Len(um[folder].messages)]

ShowTitle(um, view, folder) ==
    LET selected == view.selectedFolder
        oldCombo == IF selected = None THEN None ELSE view.folder2combo[selected]
        placed == IF folder \in DOMAIN view.folder2combo THEN view ELSE Place(view, folder)
    IN  FollowSelected(SelectFirst(um, SetTitle(um, placed, folder), folder),
                       selected, oldCombo)

updateMessageFolderTitle(um, view, folder) ==
    LET count == Len(um[folder].messages)
        counted == [view EXCEPT !.displayedCount =
                        [f \in DOMAIN @ \cup {folder} |-> IF f = folder THEN count ELSE @[f]]]
    IN  IF folder \in DOMAIN view.displayedCount /\ view.displayedCount[folder] = count THEN view
        ELSE IF count = 0 /\ um[folder].ifEmpty = "hide" THEN counted
        ELSE ShowTitle(um, counted, folder)

messageFolderDeclaredHandler(um, view, folder) ==
    updateMessageFolderTitle(
        um, [view EXCEPT !.folderState = Append(@, NewFolderState)], folder)

\* The constructor: the folders declared so far.
Construct(um) ==
    LET declared[n \in 0..Len(um)] ==
            IF n = 0 THEN NewView
            ELSE The({messageFolderDeclaredHandler(um, v, n) : v \in {declared[n - 1]}})
    IN  declared[Len(um)]

UpdateTitles(um, view) ==
    LET titled[n \in 0..Len(um)] ==
            IF n = 0 THEN view
            ELSE The({updateMessageFolderTitle(um, v, n) : v \in {titled[n - 1]}})
    IN  titled[Len(um)]

\* A slip that would bring new messages to the grid only.
flushGrid(um, view) == updateMessageDisplay(um, view, view.displayedFolder)

\* Every 200 ms.
flushMessageUpdates(um, view) ==
    LET displayed == updateMessageDisplay(um, view, view.displayedFolder)
    IN  IF view.messagesAdded
        THEN [UpdateTitles(um, displayed) EXCEPT !.messagesAdded = FALSE]
        ELSE displayed

\* The titles are drawn again with the new font.
labelFontChanged(view) == [view EXCEPT !.displayedCount = << >>, !.messagesAdded = TRUE]

-----------------------------------------------------------------------------
(* The selected message. *)

Empty(view) == view.rows = << >>

\* The line in an empty grid is row 1, too.
Rows(view) == IF view.selectedFolder = None THEN {} ELSE 1..Max({1, Len(view.rows)})

StateOf(view) == view.folderState[view.displayedFolder]

\* Whether a click on the row says anything to the traceback view, ...
Emits(view, row) == ~Empty(view) => StateOf(view).selectedMessage # view.rows[row]

\* ... and what.
SelectedTraceback(um, view, row) ==
    IF Empty(view) THEN << >> ELSE um[view.selectedFolder].messages[view.rows[row]].traceback

messageClickedHandler(view, row) ==
    IF Empty(view) \/ ~Emits(view, row) THEN view
    ELSE LET message == view.rows[row]
         IN  [view EXCEPT
                 !.highlighted = (@ \ {StateOf(view).selectedRow}) \cup {view.heads[message]},
                 !.folderState[view.displayedFolder].selectedMessage = message,
                 !.folderState[view.displayedFolder].selectedRow = view.heads[message]]

\* selectDefaultMessage up to its click: where it clicks, and the state it clears so that
\* the click does something (a slip would forget to).
DefaultRow(view) ==
    IF StateOf(view).selectedMessage = None THEN 1 ELSE view.heads[StateOf(view).selectedMessage]
KeepSelected(view) == view
ForgetSelected(view) ==
    [view EXCEPT !.folderState[view.displayedFolder].selectedMessage = None,
                 !.folderState[view.displayedFolder].selectedRow = None]

\* After the click, whatever folder is displayed by then.
Refreshed(view) == [view EXCEPT !.folderState[view.displayedFolder].refreshView = FALSE]

-----------------------------------------------------------------------------
(* What holds of a view at every moment. *)

FolderStates == [selectedMessage : Nat, selectedRow : Nat, refreshView : BOOLEAN]

ViewType(view) ==
    /\ DOMAIN view = DOMAIN NewView
    /\ view.items \in Seq([folder : Nat, count : Nat])
    /\ view.currentItem \in 0..Len(view.items)
    /\ view.heads \in Seq(Nat) /\ view.rows \in Seq(Nat)
    /\ view.folderState \in Seq(FolderStates)
    /\ view.messagesAdded \in BOOLEAN /\ view.refreshes \in Nat

\* The two maps between folders and the entries of the combo box agree, and the entries
\* are those of the folders that have been drawn, in the order of their declaration.
MapsSound(view) ==
    /\ DOMAIN view.combo2folder = DOMAIN view.items
    /\ Range(view.combo2folder) = DOMAIN view.folder2combo
    /\ \A folder \in DOMAIN view.folder2combo :
           /\ view.folder2combo[folder] \in DOMAIN view.items
           /\ view.combo2folder[view.folder2combo[folder]] = folder
    /\ \A combo \in DOMAIN view.items :
           /\ view.items[combo].folder = view.combo2folder[combo]
           /\ \A later \in combo + 1..Len(view.items) :
                  view.items[combo].folder < view.items[later].folder

\* Once one of them is selected the combo box and the grid are that folder's.
ComboSound(view) ==
    /\ MapsSound(view)
    /\ view.selectedFolder = view.displayedFolder
    /\ view.selectedFolder # None =>
           /\ view.currentItem # None
           /\ view.items[view.currentItem].folder = view.selectedFolder

\* Every row belongs to the message it shows, and only the folder's selected message
\* is highlighted.
GridSound(um, view) ==
    view.displayedFolder # None =>
        LET state == StateOf(view)
            messages == um[view.displayedFolder].messages
        IN  /\ \A message \in DOMAIN view.heads :
                   Cardinality({row \in DOMAIN view.rows : view.rows[row] = message})
                       = messages[message].lines
            /\ \A row \in DOMAIN view.rows :
                   /\ row >= view.heads[view.rows[row]]
                   /\ row < view.heads[view.rows[row]] + messages[view.rows[row]].lines
            /\ view.highlighted \subseteq
                   (IF state.selectedMessage = None THEN {} ELSE {view.heads[state.selectedMessage]})

\* A view shows folders it has been told of.
FoldersKnown(um, view) ==
    /\ Len(view.folderState) <= Len(um)
    /\ \A combo \in DOMAIN view.items : view.items[combo].folder \in DOMAIN view.folderState
    /\ view.displayedFolder \in {None} \cup DOMAIN view.folderState

\* The rows of a message follow each other, from its head.
RowsSound(um, view) ==
    /\ view.displayedFolder = None =>
           /\ view.heads = << >> /\ view.rows = << >>
           /\ view.highlighted = {} /\ view.refreshes = 0
    /\ view.displayedFolder # None =>
           LET messages == um[view.displayedFolder].messages
           IN  /\ Len(view.heads) <= Len(messages)
               /\ \A message \in DOMAIN view.heads :
                      /\ view.heads[message] >= 1
                      /\ view.heads[message] + messages[message].lines <= Len(view.rows) + 1
                      /\ \A row \in DOMAIN view.rows :
                             view.rows[row] = message
                             <=> /\ row >= view.heads[message]
                                 /\ row < view.heads[message] + messages[message].lines
               /\ \A row \in DOMAIN view.rows : view.rows[row] \in DOMAIN view.heads

\* A selected message exists; the row remembered of it counts as long as it is
\* highlighted, which it is not when its folder is shown again.
SelectionKept(um, view) ==
    /\ \A folder \in DOMAIN view.folderState :
           view.folderState[folder].selectedMessage <= Len(um[folder].messages)
    /\ view.displayedFolder # None =>
           LET state == StateOf(view)
           IN  /\ state.selectedMessage <= Len(view.heads)
               /\ view.highlighted # {} =>
                      /\ state.selectedMessage # None
                      /\ state.selectedRow = view.heads[state.selectedMessage]
                      /\ view.highlighted = {state.selectedRow}

ViewSound(um, view) ==
    /\ ComboSound(view) /\ FoldersKnown(um, view)
    /\ RowsSound(um, view) /\ SelectionKept(um, view)
=============================================================================
