-------------------------------- MODULE Actions --------------------------------
(* Instrumentation of the target program: the user turns actions on and off at   *)
(* points of the program, one by one or with a dialog, and dynTG installs them.  *)
(*                                                                               *)
(* Client: TreeView::actionMenuClickHandler, UIManager (activateAction,          *)
(* deactivateAction, isActionActivated), GUIActionSender, GUISocketReader.       *)
(* Collector: dpcl_socket.cpp, dpcl_instrument_app.cpp, parse_program.cpp and    *)
(* ActionPoint (action.cpp).  A function has one point.  Messages arrive         *)
(* unchanged and in order: TGSocket.                                             *)
EXTENDS Naturals, Sequences, FiniteSets, SequencesExt

CONSTANTS Points,       \* instrumentation points, one in each function
          Tags,         \* the kinds of action (actionList)
          NULL,         \* an empty slot of an ActionPoint
          Lists,        \* what the user may ask for with the dialog: sequences of
                        \* [tag, insert, matches (a set of points), length]
          BUFFER_SIZE,  \* no specification is longer
          IntSize,      \* length of a packed integer
          MaxPairs,     \* bound: task/thread pairs
          MaxClicks,    \* bound: uses of the action menu
          MaxDialogs    \* bound: uses of the dialog

Specification == [tag : Tags, insert : BOOLEAN, matches : SUBSET Points, length : Nat]

ASSUME ActionsAssumption ==
    /\ NULL \notin Tags
    /\ Lists \subseteq Seq(Specification)
    /\ {BUFFER_SIZE, IntSize, MaxPairs, MaxClicks, MaxDialogs} \subseteq Nat
    /\ MaxPairs > 0

VARIABLES
    parse,          \* functionState of the function of each point
    pairs,          \* PTPairCount()
    order,          \* orderId of an action at a point for a pair, 0 if it is off
    maxOrder,       \* maxActivationOrderId
    clicks, dialogs,
    ipinfo,         \* points the collector has parsed
    ap_list,        \* the slots of the ActionPoint of each point
    requests,       \* Client to collector
    replies,        \* collector to Client
    asked,          \* specifications the user asked for
    received,       \* specifications the collector has read
    auto            \* what instrument_app has installed

clientVars == <<parse, pairs, order, maxOrder, clicks, dialogs, asked>>
collectorVars == <<ipinfo, ap_list, received, auto>>
vars == <<clientVars, collectorVars, requests, replies>>

Pairs == 0 .. (pairs - 1)

\* The program has been created and the Client has been told of its first task.
Init ==
    /\ parse = [p \in Points |-> "Unparsed"]
    /\ pairs = 1
    /\ order = [p \in Points |-> [t \in Tags |-> [i \in 0 .. (MaxPairs - 1) |-> 0]]]
    /\ maxOrder = 0
    /\ clicks = 0
    /\ dialogs = 0
    /\ ipinfo = {}
    /\ ap_list = [p \in Points |-> <<>>]
    /\ requests = <<>>
    /\ replies = <<>>
    /\ asked = {}
    /\ received = {}
    /\ auto = {}

-----------------------------------------------------------------------------
(* The Client.  *)

\* The user opens a function: it is parsed the first time.
expandFunction(p) ==
    /\ parse[p] = "Unparsed"
    /\ parse' = [parse EXCEPT ![p] = "ParseRequested"]
    /\ requests' = Append(requests, [op |-> "PARSE_FUNCTION", point |-> p])
    /\ UNCHANGED <<pairs, order, maxOrder, clicks, dialogs, asked, collectorVars,
                   replies>>

\* The entries of the function, the actions enabled there and the end of them.
unpack_and_set_function_parse_complete ==
    /\ replies # <<>>
    /\ replies' = Tail(replies)
    /\ parse' = [parse EXCEPT ![Head(replies)] = "Parsed"]
    /\ UNCHANGED <<pairs, order, maxOrder, clicks, dialogs, asked, collectorVars,
                   requests>>

\* The Client is told of another task, or gets data of one.
insertPTPair ==
    /\ pairs < MaxPairs
    /\ pairs' = pairs + 1
    /\ UNCHANGED <<parse, order, maxOrder, clicks, dialogs, asked, collectorVars,
                   requests, replies>>

isActionActivated(p, t, i) == order[p][t][i] # 0

\* One message for all the tasks, or one for each task that changes.
Signals(op, p, t, changed) ==
    LET n == IF changed = Pairs THEN 1 ELSE Cardinality(changed)
    IN  [k \in 1 .. n |-> [op |-> op, point |-> p, tag |-> t]]

activateAction(p, t) ==
    LET off == {i \in Pairs : ~isActionActivated(p, t, i)}
    IN  /\ maxOrder' = maxOrder + (IF off = {} THEN 0 ELSE 1)
        /\ order' = [order EXCEPT ![p][t] =
               [i \in DOMAIN @ |-> IF i \in off THEN maxOrder' ELSE @[i]]]
        /\ requests' = requests \o Signals("ACTIVATE_ACTION", p, t, off)

deactivateAction(p, t) ==
    LET on == {i \in Pairs : isActionActivated(p, t, i)}
    IN  /\ order' = [order EXCEPT ![p][t] =
               [i \in DOMAIN @ |-> IF i \in on THEN 0 ELSE @[i]]]
        /\ requests' = requests \o Signals("DEACTIVATE_ACTION", p, t, on)
        /\ UNCHANGED maxOrder

\* The menu shows the actions of a parsed function; it looks at the first pair
\* and changes them all.
actionMenuClickHandler(p, t) ==
    /\ parse[p] = "Parsed"
    /\ clicks < MaxClicks
    /\ clicks' = clicks + 1
    /\ \/ isActionActivated(p, t, 0) /\ deactivateAction(p, t)
       \/ ~isActionActivated(p, t, 0) /\ activateAction(p, t)
    /\ UNCHANGED <<parse, pairs, dialogs, asked, collectorVars, replies>>

InstrumentMessage(list, count) == [op |-> "INSTRUMENT_APP", specs |-> list, count |-> count]

\* An empty buffer: the messages sent before it, and what is left to count.
NewBuffer(sent, left) == [sent |-> sent, specs |-> <<>>, count |-> left, length |-> IntSize]

\* The k-th item goes into the buffer; a full buffer is sent with the index of its
\* last item as the count.
Pack(list, k, before) ==
    LET n == Len(list)
        specs == Append(before.specs, list[k])
        length == before.length + list[k].length
    IN  IF n * BUFFER_SIZE - length < BUFFER_SIZE
        THEN NewBuffer(Append(before.sent, InstrumentMessage(specs, k - 1)), n - k)
        ELSE [before EXCEPT !.specs = specs, !.length = length]

\* The messages instrumentApp makes of a list.
InstrumentMessages(list) ==
    LET packed[k \in 0 .. Len(list)] ==
            IF k = 0 THEN NewBuffer(<<>>, Len(list)) ELSE Pack(list, k, packed[k - 1])
        last == packed[Len(list)]
    IN  Append(last.sent, InstrumentMessage(last.specs, last.count))

instrumentApp(list) ==
    /\ dialogs < MaxDialogs
    /\ dialogs' = dialogs + 1
    /\ asked' = asked \cup ToSet(list)
    /\ requests' = requests \o InstrumentMessages(list)
    /\ UNCHANGED <<parse, pairs, order, maxOrder, clicks, collectorVars, replies>>

-----------------------------------------------------------------------------
(* The collector.  *)

\* The collector takes its next request, of kind op.
Receive(op) ==
    /\ requests # <<>>
    /\ Head(requests).op = op
    /\ requests' = Tail(requests)
    /\ UNCHANGED clientVars

unpack_parse_function(p) ==
    /\ Receive("PARSE_FUNCTION")
    /\ Head(requests).point = p
    /\ ipinfo' = ipinfo \cup {p}
    /\ replies' = Append(replies, p)
    /\ UNCHANGED <<ap_list, received, auto>>

\* Bugs the code does not have: no check for a duplicate; the first free slot.
ApplyInstrumentationTwice(slots, t) == Append(slots, t)

ApplyInstrumentationFirst(slots, t) ==
    IF \E i \in 1 .. Len(slots) : slots[i] = t THEN slots
    ELSE IF \E i \in 1 .. Len(slots) : slots[i] = NULL
         THEN [slots EXCEPT ![SelectInSeq(slots, LAMBDA s : s = NULL)] = t]
         ELSE Append(slots, t)

\* The slots of a point after ApplyInstrumentation with an action: it is put in
\* a new slot unless the point has it.
ApplyInstrumentation(slots, t) ==
    IF \E i \in 1 .. Len(slots) : slots[i] = t THEN slots ELSE Append(slots, t)

\* An action may be asked for at any place the collector has parsed.
activate_action(p) ==
    /\ Receive("ACTIVATE_ACTION")
    /\ Head(requests).point = p
    /\ ap_list' = IF p \in ipinfo /\ Head(requests).tag \in Tags
                  THEN [ap_list EXCEPT ![p] =
                           ApplyInstrumentation(@, Head(requests).tag)]
                  ELSE ap_list
    /\ UNCHANGED <<ipinfo, received, auto, replies>>

\* A bug the code does not have: the first slot is not looked at.
remove_actionButFirst(slots, t) ==
    [i \in 1 .. Len(slots) |-> IF slots[i] = t /\ i > 1 THEN NULL ELSE slots[i]]

\* Whatever the task, the first slot with the action is emptied, and stays so.
remove_action(slots, t) ==
    [i \in 1 .. Len(slots) |->
        IF slots[i] = t /\ \A j \in 1 .. (i - 1) : slots[j] # t THEN NULL
        ELSE slots[i]]

deactivate_action(p) ==
    /\ Receive("DEACTIVATE_ACTION")
    /\ Head(requests).point = p
    /\ ap_list' = [ap_list EXCEPT ![p] = remove_action(@, Head(requests).tag)]
    /\ UNCHANGED <<ipinfo, received, auto, replies>>

\* The action of the first specification that matches a point, if one does.
Matched(specs, p) ==
    {t \in Tags : \E k \in 1 .. Len(specs) :
        /\ p \in specs[k].matches
        /\ specs[k].tag = t
        /\ \A j \in 1 .. (k - 1) : p \notin specs[j].matches}

\* It reads as many specifications as the message says.  The last of them says
\* whether all are to be inserted; removal is not supported.
instrument_app ==
    /\ Receive("INSTRUMENT_APP")
    /\ LET specs == SubSeq(Head(requests).specs, 1, Head(requests).count)
           insert == specs # <<>> /\ Last(specs).insert
       IN  /\ ap_list' = [p \in Points |->
                  IF insert /\ Matched(specs, p) # {}
                  THEN ApplyInstrumentation(ap_list[p],
                                            CHOOSE t \in Matched(specs, p) : TRUE)
                  ELSE ap_list[p]]
           /\ auto' = auto \cup {pt \in Points \X Tags :
                                     insert /\ pt[2] \in Matched(specs, pt[1])}
           /\ received' = received \cup ToSet(specs)
    /\ UNCHANGED <<ipinfo, replies>>

-----------------------------------------------------------------------------
Next ==
    \/ \E p \in Points : expandFunction(p)
    \/ unpack_and_set_function_parse_complete
    \/ insertPTPair
    \/ \E p \in Points, t \in Tags : actionMenuClickHandler(p, t)
    \/ \E list \in Lists : instrumentApp(list)
    \/ \E p \in Points : unpack_parse_function(p)
    \/ \E p \in Points : activate_action(p)
    \/ \E p \in Points : deactivate_action(p)
    \/ instrument_app

Spec == Init /\ [][Next]_vars

-----------------------------------------------------------------------------
(* Properties.  *)

Request == [op : {"PARSE_FUNCTION"}, point : Points]
           \cup [op : {"ACTIVATE_ACTION", "DEACTIVATE_ACTION"}, point : Points, tag : Tags]
           \cup [op : {"INSTRUMENT_APP"}, specs : Seq(Specification), count : Nat]

\* Type invariant: also, the slots of every point hold actions or nothing, and the
\* collector only knows points of the program.
TypeOK ==
    /\ parse \in [Points -> {"Unparsed", "ParseRequested", "Parsed"}]
    /\ pairs \in 1 .. MaxPairs
    /\ order \in [Points -> [Tags -> [0 .. (MaxPairs - 1) -> Nat]]]
    /\ maxOrder \in Nat
    /\ ap_list \in [Points -> Seq(Tags \cup {NULL})]
    /\ ipinfo \subseteq Points
    /\ requests \in Seq(Request) /\ replies \in Seq(Points)

Once(slots) ==
    \A i, j \in 1 .. Len(slots) : slots[i] = slots[j] /\ slots[i] # NULL => i = j

\* An action is never installed twice at a point, however menu and dialog are
\* mixed: a second copy would count everything twice and no click could reach it
\* (ApplyInstrumentation looks for a duplicate, deactivate_action removes one).
AtMostOne == \A p \in Points : Once(ap_list[p])

Slot(p, t) == {i \in 1 .. Len(ap_list[p]) : ap_list[p][i] = t}

\* Once the collector has read everything, an action the Client shows as active
\* is installed, and one it shows as inactive is not, unless the dialog asked for
\* it: also after tasks have come between, when the Client takes an action off
\* task by task and the collector does not look at the task.
Agreement ==
    requests = <<>> => \A p \in Points, t \in Tags :
        IF isActionActivated(p, t, 0) THEN Slot(p, t) # {}
        ELSE <<p, t>> \in auto \/ Slot(p, t) = {}

\* The order in which the Client shows the actions of a point (isActionActivated:
\* "are executed in the order activated") is the order of their slots.
OrderAgrees ==
    requests = <<>> => \A p \in Points : \A t, u \in Tags :
        /\ isActionActivated(p, t, 0) /\ isActionActivated(p, u, 0)
        /\ <<p, t>> \notin auto /\ <<p, u>> \notin auto
        /\ order[p][t][0] < order[p][u][0]
        => \A i \in Slot(p, t), j \in Slot(p, u) : i < j

\* The Client turns actions on only where the collector can install them.
KnownPoints ==
    /\ \A p \in Points : parse[p] = "Parsed" => p \in ipinfo
    /\ \A k \in 1 .. Len(replies) : replies[k] \in ipinfo
    /\ \A k \in 1 .. Len(requests) :
           requests[k].op = "ACTIVATE_ACTION" => requests[k].point \in ipinfo

\* An action that is on for some pair is on for the first, and none has come later
\* than the last.
Uniform ==
    \A p \in Points, t \in Tags, i \in 0 .. (MaxPairs - 1) :
        /\ order[p][t][i] <= maxOrder
        /\ isActionActivated(p, t, i) => i < pairs /\ isActionActivated(p, t, 0)

\* The requests under way that concern an action at a point.
Activates(k, p, t) == requests[k] = [op |-> "ACTIVATE_ACTION", point |-> p, tag |-> t]
Deactivates(k, p, t) == requests[k] = [op |-> "DEACTIVATE_ACTION", point |-> p, tag |-> t]
Concerns(k, p, t) == Activates(k, p, t) \/ Deactivates(k, p, t)
Pending(p, t) == \E k \in 1 .. Len(requests) : Concerns(k, p, t)
LastWord(k, p, t) ==
    Concerns(k, p, t) /\ \A j \in (k + 1) .. Len(requests) : ~Concerns(j, p, t)

\* The last of them says what the Client shows; without one the slots do.
WordKept(p, t) ==
    /\ \A k \in 1 .. Len(requests) :
           LastWord(k, p, t) => (Activates(k, p, t) <=> isActionActivated(p, t, 0))
    /\ ~Pending(p, t) =>
           IF isActionActivated(p, t, 0) THEN Slot(p, t) # {}
           ELSE <<p, t>> \in auto \/ Slot(p, t) = {}

\* An action is not installed when it is to be activated, so it gets a new slot.
Alternate(p, t) ==
    \A k \in 1 .. Len(requests) : Activates(k, p, t) =>
        /\ \A i \in 1 .. (k - 1) : Activates(i, p, t) =>
               \E j \in (i + 1) .. (k - 1) : Deactivates(j, p, t)
        /\ Slot(p, t) = {} \/ \E j \in 1 .. (k - 1) : Deactivates(j, p, t)

\* What the Client activated first is activated first, and is in an earlier slot.
InOrder(p, t, u) ==
    /\ \A k, l \in 1 .. Len(requests) : LastWord(k, p, t) /\ LastWord(l, p, u) => k < l
    /\ Pending(p, t) => Pending(p, u)
    /\ ~Pending(p, u) => \A i \in Slot(p, t), j \in Slot(p, u) : i < j

Precedes(p, t, u) ==
    /\ isActionActivated(p, t, 0) /\ isActionActivated(p, u, 0)
    /\ order[p][t][0] < order[p][u][0]

AllWords ==
    \A p \in Points, t \in Tags :
        WordKept(p, t) /\ (<<p, t>> \notin auto => Alternate(p, t))

AllOrdered ==
    \A p \in Points : \A t, u \in Tags :
        Precedes(p, t, u) /\ <<p, t>> \notin auto /\ <<p, u>> \notin auto
        => InOrder(p, t, u)

\* Why the properties hold.
IInv == TypeOK /\ AtMostOne /\ KnownPoints /\ Uniform /\ AllWords /\ AllOrdered

\* Every specification the user asked for reaches the collector (instrumentApp:
\* "send what we have now and start over on this buffer").
AllReceived == requests = <<>> => asked \subseteq received
===============================================================================
