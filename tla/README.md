# Tool Gear: TLA+ models, checks and proofs

Tool Gear (LLNL) is a framework for performance and memory tools. A Qt client
shows data next to the source code of a target program; a separate process
(dynTG, the *collector* that instruments the program, or TGxmlserver, which
follows an XML file a tool writes) sends it that data over a socket. This
directory holds TLA+ models of the parts of Tool Gear whose correctness depends
on the order in which things happen, the TLC runs that check them on small
instances, and TLAPS proofs for every size of the instance. Paths below are
relative to `src/src` of the repository.

    tlc -workers 2 -config MCSession.cfg MCSession     # one run
    tlapm Connection_proofs.tla                        # one proof module

`PROJECT.json` lists the components, the runs with their properties, for every
property a mutant of the model that breaks it (definitions that no specification
uses, said to be a slip where they stand), the source lines of every definition,
the hazards and the theorems.

## 1. Inventory

### The parts

| Part | Where | State | Operations | Modelled |
|---|---|---|---|---|
| Transport | `Utils/tg_socket.c` | per socket: reader thread, linked queue with mutex and condition variable | TG_send, TG_recv, TG_nb_recv, TG_read_data_queued, TG_poll_socket | TGSocket |
| Session | `Client/gui_main.cpp`, `tg_collector.cpp`, `tg_gui_listener.cpp`; `main` of `Xmlserver/TGxmlserver.cpp` | collector status, child process, its stdin and stdout, the connection, where each `main` is | launch, accept, recognise, wait for the view, send parameters, quit, kill | Session |
| Source files | `Client/filecollection.cpp`, `mainview.cpp`; `Utils/tg_source_reader.cpp`; `check_socket` of the server | file table, pending table, sourceState, progress dialog; the server's search path | getSourceLine/getSourceSize, createFileInfo, insertSourceFile, setFullPath, clear, setSearchPath; read_file, get_subdirs | SourceFiles |
| Search path | `Utils/search_path.cpp` | list of directories, per-search table of names seen | findFile, findFileInPath, setPath, getPath, getSubdirs | SearchPath |
| XML path | `Xmlserver/TGxmlserver.cpp`; UIXMLParser in `Client/uimanager.cpp` | the snippet parser's buffer and position; the handler's open elements and collected fields | getNextSnippet, parse_input; startElement, characters, endElement, processXMLSnippet | XMLFeed, UIXMLParser |
| Statistics of the data | `Client/datastats.cpp`, `uimanager.cpp` | per entry, function, file and application: sums, counts, two best values, a cache | setInt and its kin, the DataStat queries, the rebuilds | DataStats, DataRollup |
| Program control | `Client/gui_action_sender.cpp`, `gui_socket_reader.cpp`, `mainview.cpp`; `dynTG/instrument` | what the program does, what the Client shows of it, the button, the heartbeat and its alarm | run, pause, startup, breakpoint, termination, shutdown, heartbeat | Program, Heartbeat |
| Actions | `Client/uimanager.cpp`, `treeview.cpp`, `gui_action_sender.cpp`; `dynTG/instrument` | which action is on, where and in which order; the slots of each point | menu, instrumentation dialog, parse, activate, deactivate, instrument_app | Actions |
| Message window | `Client/messageview.cpp`, `tracebackview.cpp`, `messageviewer.cpp` | combo box, grid, selection, traceback, source shown | declare, add, flush, select, click, show a site | MessageViewer |
| Packing | `Utils/tg_pack.cpp`, `socketmanager.h` | none | TG_pack, TG_unpack | no |
| Rest of the Client database | `Client/uimanager.cpp` | tables of names, files and functions | inserts, queries, signals to the views | no |
| dynTG modules, probes | `dynTG/modules` | counters and timers inside the target | start, stop, read | HaltTarget_cb only |
| Symbol tables, allocator, md | `Utils/*_symbol.c`, `l_alloc_new.c`, `md.c` | hash tables, free lists | add, find, delete, resize | no |
| Small containers | `Utils/intset.h`, `heapsort.c`, `messagebuffer.cpp`, ... | arrays, buffers | insert, sort, append | no |
| Converters | `Memcheckview`, `Mpipview` | one pass over text | line handlers | no |
| Other views | `Client/cellgrid.cpp`, `treeview.cpp`, ... | widgets | Qt events | no |
| Scripts, demos, `boost` | `src/bin`, `boost` | none | none | no |

### How they interact

*Client and server are two processes.* The Client (gui_main.cpp) opens a
listening port, forks a child (the server, or `ssh` to it on another machine),
and writes a number into the child's standard input. The server connects to the
port and echoes the number: that is how the Client knows it. After that both
send messages (tag, id, size, body: `TG_send`) and dispatch on the tag:
`GUISocketReader::check_socket` in the Client, `check_socket` in TGxmlserver,
`dpcl_socket_handler` in dynTG.

*The Client has two threads per socket.* It is built with USE_READ_THREAD
(`Client/tgclient.pro:55`): a reader thread takes complete messages from the
kernel and appends them to a list; the main thread takes them off in
`TG_recv`. Everything else in the Client is in the main thread, but it is not
sequential: while it waits for a source file, for a dialog or for the server to
quit it runs Qt's event loop (`qApp->processEvents`, `exec`), and any timer,
socket message or user action can call back into the code that waits.

*The server has one thread*, and the same kind of nesting: a search for a file
calls `check_continue_search` before each descent, which reads and serves a
whole message in the middle of the search. dynTG's one thread is in DPCL's main
loop, which calls its socket handler and its callbacks one after the other.

*Shared state:* the reader thread's queue; `sourceState` and the progress dialog,
which all nested calls of createFileInfo share; the search path, which one
message may replace while a search walks over it; the connection `sock` of the
collector object; the statistics, which writers and queries of three kinds of
node change; the window state of a message window, across nested waits.

### What is hard, and what correct means

| Part | Hard behaviour | Correct means |
|---|---|---|
| Transport | two threads, one list; partial reads and writes; signal outside the mutex; end of stream | messages whole, in order, once; no thread sleeps beside a message; TG_nb_recv does not block |
| Session | crashes of either side, handshake without timeout, strangers on the port, late answer to a quit | the Client talks only to its own server; no server is left behind; quitting ends; what can hang is known |
| Source files | nested event loops in the Client, callback in the server, cancel against answer, path change during a read | one request at a time, each answered once; the cache holds what the server sent; calls return |
| Search path | links that make cycles and second names; order of entries | the first entry that leads to the file wins; no name is looked at twice; the search ends |
| XML path | the file grows while it is read, and the cut may be anywhere; fields kept from one element to the next | the window shows what the elements, each read as a whole, say; all that has been written is shown |
| Statistics | only two best values are kept; one update may take away what a function, file or the application gave | an answer is what the values say; what is not known is marked |
| Program control | reports that arrive late against a user's click; breakpoints of several processes; heartbeats against an alarm | a program is started once parsed; a halt of all is told; a living Client's collector is never ended by the alarm |
| Actions | menu and dialog mixed; tasks that are seen between on and off | no action twice at a point; what the Client shows is installed, in that order |
| Message window | timer, posted events and waits that run the event loop | folders, rows, selection and source agree; new messages get to the screen |
| Packing | width and order of bytes | unpack of pack is the identity on what both sides support |
| Symbol tables, allocator | resize while chains are walked; free lists | what was added and not deleted is found |

The hazards, each at its line, are in `PROJECT.json`; the ones without a property
say why.

## 2. The modules

    TGChannel        <--implements--  TGSocket      --proved in-->  Connection_proofs
    Heartbeat                                       --proved in-->  Connection_proofs
    FileLookup       <--implements--  SearchPath    --proved in-->  SearchPath_proofs
    XMLDocument      <--implements--  XMLFeed  (its Client is UIXMLParser)
    DataStats  (operators)  <-- DataStatsOwner      --proved in-->  DataStats_proofs
               (the same)   <-- DataRollup          --proved in-->  DataStats_proofs
    MessageView, TracebackView (operators)
               <-- MessageViewer                    --proved in-->  MessageViewer_proofs
    Program, Actions, Session, SourceFiles          --proved in-->  *_proofs, of each its own
    SourceFiles   (two FIFO channels between Client and server, as TGChannel allows)
    Session       (the same, over the life of the two processes)
    Accumulate    (folds that TLC evaluates once; no part of the system)
    MC*           small instances of the module they are named after (Heartbeat and
                  Program, whose constants need no definitions, are run as they are,
                  with MCHeartbeat*.cfg and MCProgram*.cfg)

### TGChannel, TGSocket (`Utils/tg_socket.c`)

`TGChannel` is what the rest of Tool Gear relies on: a channel that delivers
the messages sent, in order and once. `TGSocket` is one direction of a
connection as built, from the peer to the Client. A message is `HeaderLen` units
of header and a body of one of `Sizes` units, and the kernel moves one unit at a
time through a buffer of `Cap`, so every partial `read` and `write` is a
behaviour. `TGInternalWrite` is one round of the loop of TG_internal_write
(TG_send writes at once and TG_flush does nothing: USE_WRITE_THREAD is not
built); `ReaderSelect`, `ReadHeader`, `ReadBody`, `ReaderLock`, `ReaderEnqueue`
and `ReaderSignal` are the reader thread from its `select` to
`pthread_cond_signal`, in the order of the code (the signal comes after the
unlock); `CallRecv`, `RecvLock`, `CondWait` and `Dequeue` are TG_recv, with
spurious wakeups; `CallNbRecv` and `ReadDataQueued` are TG_nb_recv. `mem` is the
heap of Queue_entry records and `head` and `tail` are the two pointers, 0 for
NULL, so a pointer left to a freed entry can be seen. `started` stands for the
thread being made on the first TG_recv (`TG_init_read_thread`).

### SourceFiles (`filecollection.cpp`, `mainview.cpp`, `TGxmlserver.cpp`, `tg_source_reader.cpp`)

The Client's state is its call stack: a frame is a createFileInfo in its first
loop (`wait`) or second loop (`read`), or a setSearchPath in the dialog's event
loop (`dialog`). Only the last frame runs. While it is in an event loop the
user may ask for a file (a new frame), open the dialog, press Stop or OK, close
the window, and the 10 ms timer may take a message (`GetPendingData`).
`AfterWaiting`, `RequestFile`, `SendCancel`, `ReturnInfo` are the points where
createFileInfo looks at `sourceState`. `infos` is every FileInfo allocated,
with `live` cleared by the delete in `clear()`; `table` and `pending` are the two
tables. The server's `searches` is its stack of read_file calls:
`DescendUndisturbed`, `DescendWithMessage` and `DescendAtEOF` are the three
outcomes of check_continue_search, whose message is served by the same
`CheckSocket` as in the main loop. How a search finds a file is not in this
module (`Exists` says it): that is SearchPath.

### FileLookup, SearchPath (`Utils/search_path.cpp`)

`FileLookup` is the promise: the first entry that leads to the file, or missing if
none does, or cancelled. `SearchPath` is findFileInPath with its recursion as a
stack of frames: `SkipSeen` and `SkipLong` are the two `continue`s, `Found`,
`NotHere` and `NotHereRecursive` what follows `stat`, `CancelSearch` and
`Descend` the callback and the recursive call. `Real` maps a name to the
directory it leads to, so that a directory has several names and links make
cycles: the code compares *names* (dirs_seen), the file system has *directories*.

### Session (`gui_main.cpp`, `tg_collector.cpp`, `tg_gui_listener.cpp`, `TGxmlserver.cpp`)

The life of both processes. `phase` is where the Client's `main`, or a slot it
called, is; listenerConnected is called from an event loop and blocks, so
`phase = "auth"` remembers in `back` where it returns. `server` is where the
server's `main` is: connecting, waiting for the number, greeting, in the loop
that waits for the parameters, parsing, serving, in the five-second sleep
of exit_cleanup (`flushing`), gone. `status` and `sock` are TGCollector's members.
A `stray` program may connect to the port at any time and send a wrong number,
hang up, or say nothing. Both programs may crash at any moment (`Interrupt`,
`Crash`). `remote` chooses between a local child, which SIGKILL ends, and `ssh`,
where SIGKILL only cuts the link. `remoteDir` is the option -d.

### XMLDocument, XMLFeed, UIXMLParser (`TGxmlserver.cpp`, `uimanager.cpp`)

`XMLDocument` is the promise of TGui, "works like tail -f": the tool writes a
sequence of top-level elements and the window shows what the first few of them
say, each read as a whole (`Meaning`). `XMLFeed` is the code: the file is a
sequence of units (`<`, `/`, `>`, names, characters) of which the tool writes
`Piece` at a time; `parse_input` is the server's loop over getNextSnippet, with
the parser's buffer, the position of the last `<`, and the line numbers kept from
one call to the next (`ReadChar` is one round of its `fgetc` loop, `CloseElement`
what it does at a `>`); `ReadMessage` is the Client, whose `UIXMLParser` reads a
snippet event by event, with the open elements (`path`), the text collected per
level (`values`) and the fields that setIfEmpty and endElement fill.
The wrapper that processXMLSnippet puts around a snippet is part of it.

### DataStats, DataStatsOwner, DataRollup (`datastats.cpp`, `uimanager.cpp`)

`DataStats` has the operators: updateStats, invalidateStats and resetStats on a
record of sums, count and the two best values of either side. The halves for
maximum and minimum are one operator with a sign. `DataStatsOwner` is an object
and an owner who keeps the rules of the header comment. `DataRollup` is the owner
in the code: values per entry and task/thread pair, the statistics of an entry,
the rollups of every function, file and the application (a *node*, the set of its
entries), and the cache of one further statistic in each. `SetValue` is a write
with the whole of updateEntryStats; `dataStat` a query that has to rebuild. Means
and variances are quotients: they are kept times `L`, a common multiple of the
numbers of values there can be, so that they stay integers.

### Program (`gui_action_sender.cpp`, `gui_socket_reader.cpp`, `mainview.cpp`, `dynTG/instrument`)

The Run button, dynTG and the processes of the target. `activity` and `runButton`
are what the Client believes, `app` and `hasrun` what dynTG knows, `proc` what
is true. `callbacks` holds what DPCL has still to report of each process, so
that a report may be late against everything else. DPCL is external: it does to
the processes what it is asked and reports each breakpoint and exit once. The
collector's handlers are one action each; `startup_cb` and `startup_cb_returns`
are the two ends of a handler in which DPCL may call others.

### Heartbeat (`gui_action_sender.cpp`, `dpcl_socket.cpp`)

The lease between Client and dynTG, in ticks. `Tick` is the clock, which cannot
pass the moment by which the Client's timer (`Interval + MaxBlock`) or the
collector's reading (`MaxBusy`) must have come; `alarm` is setitimer, `signal`
the SIGALRM whose handler DPCL calls. `dpcl_socket_handler` at a closed socket
does not return, or ends the collector.

### Actions (`treeview.cpp`, `uimanager.cpp`, `gui_action_sender.cpp`, `dynTG/instrument`)

Which actions are on at which instrumentation point: in the Client an order
number per action, point and task/thread pair (`order`), in dynTG the slots of
each ActionPoint (`ap_list`). The menu, the dialog (a list of specifications,
each with the points it matches), the parse requests and the tasks that are
seen one after the other are actions; `instrumentApp` cuts a list into messages
as the code does, lengths included.

### MessageView, TracebackView, MessageViewer (`Client/message*.cpp`, `tracebackview.cpp`)

A message window. MessageView has the operators on its upper half (the combo box
of folders with the maps folder2combo and combo2folder, the grid with the
selected message), TracebackView those on the lower half (the sites and the
source). `MessageViewer` has the state and the actions: what the tool declares
and adds, the 200 ms timer (`Flush`), the posted event 1101
(`selectDefaultMessage`), and the user's choices. showFileLine may wait for the
file in an event loop: `calls` is the stack of such waits and `requested` the one
file that is being read. When it has come (`FileArrives`) the innermost call goes on:
it returns if its own file is there (`CallReturns`), whatever the others wait for, and
asks for it otherwise (`RequestFile`).

## 3. The runs

| Run | Checks | Distinct states |
|---|---|---|
| `socket` | delivery, wakeups, non-blocking call, inductive invariant, TGChannel, progress of TG_recv | 25 502 |
| `source_files` | requests matched, sound cache, no search over a freed path, inductive invariant; requests are answered, calls return, the server ends with its Client | 587 124 |
| `source_files_freed` | *violated*: createFileInfo returns a live record | |
| `search_path` | no name twice, inductive invariant, FileLookup, termination | 4 796 |
| `session` | authenticity, the quit handshake, inductive invariant, no hasty kill, known hangs, no orphan | 17 556 |
| `xml_feed` | the window shows what the elements say, XMLDocument; all that is written is shown | 21 678 |
| `data_stats` | what a statistics object gives is true, its sums, inductive invariant | 85 157 |
| `data_rollup` | inductive invariant (what is kept is true or marked), answers are right | 359 251 |
| `program` | inductive invariant (with: started once parsed), halts are told, the button is off when nothing is left | 125 689 |
| `heartbeat` | no false alarm, a silent Client ends the collector | 325 |
| `actions` | inductive invariant (with: no action twice), what is shown is installed and in that order | 550 140 |
| `message_viewer` | folders, rows, selection and source agree; new messages get to the screen | 369 294 |

What the passing runs show:

* **socket.** `Delivered`, `NeverStuck` (the main thread never sleeps beside a
  message, and TG_nb_recv never blocks) and `IInv` hold under every interleaving
  of the three threads. Signalling after the unlock loses no wakeup, because the
  main thread checks the head and begins to wait under the same mutex.
  TG_nb_recv, which looks under one hold of the mutex and takes under another,
  never blocks, because only the main thread takes entries off. `RecvReturns`:
  once a message is complete the TG_recv that waits for it returns.
* **source_files.** However calls nest, the one flag `sourceState` is enough: a
  waiting outer call never takes an inner call's answer for its own
  (`RequestsMatched`), because a nested request is only sent when the flag is
  clear and the outer call can go on only after the inner ones have returned.
  The re-check of the table after the wait is what keeps `CacheSound`.
  The server never searches on over a path that setPath has freed
  (`PathsSafe`), because its callback ends the search on any message but a
  heartbeat or a quit. A quit that is swallowed in the middle of a search does
  not leave the server behind (`ServerExits`): the end of the stream stops it.
* **search_path.** For an *orderly* list (no flat entry before a recursive one
  whose tree contains it) the code is exactly FileLookup.
* **session.** `OnlyKnownHangs` states where the Client may stay for ever, as a
  list (`Hung`) that the run shows to be complete: nowhere else does a launch
  fail to end in a window or an exit.
* **xml_feed.** Wherever the file is cut and whenever it is looked at, the window
  goes from what n elements say to what m > n of them say: nothing is lost,
  split, repeated or read with the leftovers of another element, a warning names
  the line of the file, and the tool's own status is not overwritten
  (`SameAsReadAtOnce`). `Followed`: what is complete is shown at last, unless
  the server or the Client has ended, as both do on malformed input.
* **data_stats, data_rollup.** What is given is true, whatever was forgotten and
  rebuilt on the way; the check that ends the Client when a rebuild counts other
  values than the updates did never fires.
* **program.** Whatever is late, the program is not started before startup_cb
  has parsed it, and a halt of all processes is told. This does not extend to
  the status shown: see below.
* **heartbeat.** With bounds that keep the lease no delay ends the collector of a
  living Client; what the bound is, is the theorem of section 6. The bound on the
  collector's reading leaves out a cancel outside a search (`dpcl_socket.cpp:150`),
  after which it reads no more: that hazard is named and not caught.
* **actions.** Menu and dialog never install an action twice (`IInv`), and what
  the Client shows agrees with the slots once dynTG has read everything, also
  after tasks have come between, when the Client takes an action off task by task.
* **message_viewer.** The maps, the combo box's current item, the rows and the
  highlighting agree at every moment, in the middle of a wait too. At rest the
  source is that of the selected site, as long as nothing else was chosen while
  one waited for its source (`~overtaken`).

### Where the code and its words differ

`source_files_freed` is a run (`findings` in PROJECT.json). The other
disagreements have a configuration that shows them, with one property that TLC
finds violated (those of MCProgram* and MCHeartbeat* are for the modules Program
and Heartbeat); none of them is among the runs of PROJECT.json:

| Configuration | Property | What it shows |
|---|---|---|
| MCTGSocketClose | CloseReported | a polling Client is never told of the end of the stream: `socket_closed` is never assigned (`tg_socket.c:783`) |
| MCSourceFilesStale | ClearReloads | after clear() an answer from the old search path is cached (`filecollection.cpp:369`) |
| MCSourceFilesStale, with OnlyUserStops instead | OnlyUserStops | any message in the middle of a search stops it, and the file is taken to be missing (`TGxmlserver.cpp:640`) |
| MCSourceFilesUnreadable | UnreadableAnswered | a file that stat finds and open does not open is never answered (`tg_source_reader.cpp:75`) |
| MCSearchPathMixed | RecursiveEntriesSearched | a directory searched as a flat entry is not searched recursively later |
| MCSessionDir | DirectoryStartsUp | with -d the view type is read as the answer to the change of directory, and no window appears (`gui_main.cpp:195`) |
| MCProgramStatus | StatusTrue | a halt reported while the user presses Run leaves "Stopped" beside a running program (`gui_socket_reader.cpp:1978`) |
| MCProgramShutdown | AlreadyShutDown | shutdown_app looks at the first process only, and leaves the others running (`dpcl_socket.cpp:671`) |
| MCHeartbeatClosed | CrashEnds | a collector whose Client has closed the socket may spin in dpcl_socket_handler, and its alarm is never handled |
| MCActionsLost | AllReceived | a list that does not fit is repacked with the index of its last item; a single such item is sent with a count of 0 (`gui_action_sender.cpp:295`) |
| MCMessageViewerNested | SelectionShown | a site chosen while another waits for its source is shown and then overwritten; a refresh posted in the wait of another folder is dropped by the static midUpdate (`messageview.cpp:929`) |

Seen on the way, part of a model where it says so, without a configuration:

* TG_nb_recv and TG_read_data_queued say 0 for a socket no TG_recv was called on,
  whatever has arrived (`tg_socket.c:779`, comment `:439-442`; TGSocket).
* The handshake reads without a timeout (`tg_collector.cpp:564`), and after
  `read` has returned 0 looks at an `errno` nobody has set (`:567`): the phases
  `auth` with a silent stray, and `spinning`, of Session.
* A server that dies before the view type leaves the Client in check_socket,
  outside its event loop (`gui_main.cpp:249`), because the transport never
  reports the end of the stream. For the same reason a Client whose server has
  crashed unnoticed waits the full ten seconds to quit (`tg_collector.cpp:204-212`;
  both in Session).
* A second connection replaces `sock`, and its failed handshake kills the server
  of a running session (`tg_gui_listener.cpp:51`; Session).
* `findFile` is told its buffer has PATH_MAX + 1 bytes (`tg_source_reader.cpp:40`,
  `:45`), and accepts a name of exactly the length it was given, which snprintf
  has cut (`search_path.cpp:276`). SearchPath lets `stat` say anything for it.
* A `>` between two elements ends the server, a message in an undeclared folder
  ends the Client (XMLFeed: the documents Misplaced and Undeclared). A known
  element inside an unknown top-level one cuts the snippet in the middle.
  Newlines in comments and tags are not counted, so the lines that are named
  drift. Text outside every element is written
  before the first level's buffer (`characters` at level -1).
* Specifications of one list that match the same point: the first wins; a list
  of insertions and removals mixed is governed by its last item; actions the
  dialog has installed are not shown to the Client; the removal of an empty
  ActionPoint never happens, as get_num_actions is a high-water mark (Actions).
* The replies to parse_module and parse_function are missing when nothing is
  found, so the file or function stays "requested"; parse_module counts children
  by the wrong index. Not modelled.
* The usage text offers `-h`, the option string asks for an argument
  (`tg_parse_opts.cpp:29`, `:63`). Not modelled.

## 4. Bounds, and why they are enough

* **MCTGSocket:** a header of 2 units (so that it can be split), bodies of 0 and 2
  units (empty, and splittable), 3 messages (an entry taken, one at the head and
  one being appended at once), a kernel buffer of 3 (less than a message, so the
  writer meets EAGAIN in a header and in a body). The proofs remove all four.
* **MCSourceFiles:** two files, two paths, one file on both and one on the second
  only; 3 requests, of which 2 nested (a read and a caller that waits for it),
  one dialog, one heartbeat, 3 descents (a search with a message before, between
  and after). Every counted event can happen at every point of a read.
* **MCSearchPath:** seven names of four directories, with a cycle, two names of one
  directory, a name that is too long, and an alias; all lists of up to two
  entries over four of the names, flat or recursive, and every set of directories
  that holds the file. Two entries are what an entry can hide from another. The
  theorems hold for every file system.
* **MCSession:** one stray of each kind, one heartbeat, one piece of data; local
  and remote, with and without -d. Each counted thing matters by being there at
  the wrong moment, which one of it can be.
* **MCXMLFeed:** ten documents of up to five elements that between them hold every
  element, kid and warning of the model, and are written 3 units at a time:
  the cuts fall inside tags, texts and between elements, and the server may look
  after each. Two folders per message, so that a third is dropped.
* **MCDataStats, MCDataRollup:** four ids over four values, -1 to 2: a best, a second
  best, one that ties and one that is worse, of either sign. Two entries with two
  pairs and the values 0 to 2; two nodes that share an entry, as a function and
  its file do; one rollup and two statistics for the cache (one that needs the
  values and one that only counts), so that one can replace the other. `L` is 2:
  no entry has more than two values.
* **Program (MCProgram.cfg):** two processes (one may be halted, or gone, while the other runs),
  five presses of the button and three breakpoints of each process: a halt can be
  late against a stop, a start and a second stop.
* **Heartbeat (MCHeartbeat.cfg):** Interval 2, delays up to 3 and 2, Timeout 8, one more than their
  sum: the tightest lease that holds.
* **MCActions:** two points, two actions, three lists of the dialog (one with a
  removal, one too long for a message), two tasks, five clicks, one dialog.
* **MCMessageViewer:** three folders, one of each policy, the hidden one first so
  that it is inserted before others; two messages, of one and two lines and one
  and two sites, one of them in a file that is not found; one posted refresh when
  the user selects a folder, two waits within each other.

A run says CHECK_DEADLOCK FALSE where the program really ends, or where the
bounds end what the user does: Session, SourceFiles, SearchPath, XMLFeed (the
tool has written all, or server or Client has ended), Program, Actions,
MessageViewer. TGSocket's run checks deadlock (the Client can always poll), and
so do Heartbeat's, DataStats' and DataRollup's.

## 5. Fairness, and why the code justifies it

* **TGSocket:** weak fairness of the reader thread (it is in `select` or runnable),
  strong fairness of taking the mutex and of the main thread's steps inside a
  call: a thread that waits for a mutex the other takes again and again gets
  it. Critical sections are a few instructions. Nothing is assumed of the peer,
  which may stop in the middle of a message, nor of spurious wakeups.
  MCTGSocketClose also takes it that a main thread that only polls
  (`PollingSpec`) goes on polling.
* **SourceFiles:** weak fairness of the running frame (processEvents returns), of
  `GetPendingData` (a 10 ms timer) and of the server (it never sleeps while
  there is a message or the end of the stream to read, and a search visits
  finitely many directories). Nothing of the user, who may leave a dialog open.
* **SearchPath:** weak fairness of the next step: it is one call.
* **Session:** weak fairness of the Client's start-up, of its reader, of the quit
  loop and its clock, and of the server's own steps. Nothing of the user, of
  crashes or of strays.
* **XMLFeed:** weak fairness of the server's look at the file (its `select` times
  out after a second) and of the Client's reader. The tool may stop at any time.
* **Heartbeat:** weak fairness of the clock, the Client's timer and the handlers
  that DPCL's main loop calls. Nothing of crashes.
* **MessageViewer:** weak fairness of the 200 ms timer, which every event loop
  serves, those of the waits too. Nothing of the server that is to send a file.
* **Program, Actions, DataStats, DataRollup** have safety properties only.

## 6. What is proved

For every value of the constants that satisfies the ASSUMEs of the modules, which
TLC also evaluates in the runs:

* **`Connection_proofs`.** Of the transport: `Invariance` (IInv), `FIFODelivery` (Delivered),
  `SoundQueue` (QueueShape), `NoSleeper` (NeverStuck), `Refinement`
  (ImplementsChannel). Assumed: SocketAssumption (a header is not
  empty, sizes are naturals, the kernel buffers at least one unit). `Delivered`
  alone is not inductive: it says nothing of what is on its way. IInv adds where
  the reader is in the byte stream: `Framed` says the kernel's buffer is the
  stretch of the stream between the unit the reader must read next and the one
  the peer writes next; `InHand` that the header and the part of the body it
  holds are those of the next message; `Stored` that entry k of the list
  carries message k; `QueueShape` that the list has the entries not yet taken,
  in order. What TG_nb_recv saw is still there (`SeenEntry`), and who holds the
  mutex (`Exclusion`) decides who may wait (`NoLostWakeup`). The proof
  has a lemma per action; the refinement follows since only TGSend changes what
  was sent and only Dequeue what was received.
  Of the lease (Heartbeat): `LeaseInvariance` (LeaseIInv) and `NoFalseAlarmTheorem`
  (NoFalseAlarm), for every interval, timeout and delay with
  Interval + MaxBlock + MaxBusy < Timeout. The invariant weighs the time left on
  the alarm against the age of the last heartbeat, in the two cases that it was
  read or not.
* **`SearchPath_proofs`.** `Invariance` (IInv), `NoNameTwice` (LookedOnce),
  `DepthBound` (BoundedRecursion), for every file system, with any links, and
  every search path, orderly or not; `Refinement` (ImplementsLookup), for every file
  system and every path that is `Regular`. LookedOnce needs that every name looked at is
  in dirs_seen as long as the search goes on (a name that was *found* is not
  added, but the search then ends). BoundedRecursion needs the count one step
  ahead: between the look at a node and the descent below it there is one name
  more in dirs_seen than there are calls. The refinement says two things: the entry
  a file is taken from is the first that leads to it, and a search that gives up
  has looked below every entry. IInv has what both need (`Searched`). The outermost call
  has what is left of the list, the others have names below the entry it is at
  (`RestOfList`, `BelowEntry`). No name in dirs_seen has the file (`NotThere`), and all
  that is directly below one is in dirs_seen or on the list of a call (`Explored`).
  When the search goes on to the next entry no list is left but the first, so that
  dirs_seen is closed: it has the whole tree of the entry (`Covered`). The tree is
  defined as what every closed set has, and the step needs no induction over the
  directories. `Regular` excludes what is known to go wrong: a path on
  which a flat entry hides a part of a later recursive one
  (RecursiveEntriesSearched, section 3), and a name that fills the buffer to the
  last character, which snprintf has cut (`StatSays`).
* **`SourceFiles_proofs`.** `Invariance` (IInv), `RequestsAreMatched`
  (RequestsMatched), `CacheIsSound` (CacheSound) and `PathsAreSafe` (PathsSafe),
  for any files, directories, nesting of calls and bounds. None of the three is
  inductive: they look at the two ends. IInv follows the one outstanding request
  from end to end: it has a record that is neither filled in nor in the table
  (`OneOutstanding`), it is in one place, under way to the server, searched for or
  answered (`OnePlace`), and its answer is the full path, just when the file was
  found, and then the text (`OneAnswer`). `FramesSound` ties this to the call stack, and
  `ReaderMade` says why the dialog's last message always finds the sourceReader
  that its first one has made.
* **`DataStats_proofs`.** Of one object: `OwnerInvariance` (OwnerIInv),
  `ExtremaTheorem` (Extrema) and `SumsTheorem` (Sums), for every set of ids and of
  integers and every sequence of updates. The lemmas are about the order in which
  one value is ahead of another (`Ahead`: total, with the lower id first among
  equals) and say for each case of updateStats and invalidateStats that the two
  best stay the two best, or are forgotten; the count is part of it: with one id
  there is no second best to know. The sums need that the sum of a finite set does not
  depend on the order in which it is added up (`SumRecursion`, `SumRemove`).
  Of the owner in the code (DataRollup): `Invariance` (IInv),
  `StatsSoundTheorem` (StatsSound) and `AnswersTheorem` (AnswersRight), for any
  entries, pairs, nodes and statistics. StatsSound is not inductive:
  updateEntryStats takes the old statistic of an entry off the sums of its nodes,
  which is right only if that statistic was known. IInv adds that a rollup whose sums are known has
  only entries whose statistic is known (`KnownTogether`), which every step keeps
  because what makes an entry's statistic unknown makes the sums of its nodes
  unknown too.
* **`Program_proofs`.** `Invariance` (IInv), `ReadyTheorem` (ReadyBeforeStart),
  `HaltsAreReported` (NoSilentHalt) and `EndGreysOut` (GreyedOut), for any number of
  processes. That a start is asked for only when the program is ready
  follows from the whole chain: the button is off until the result is
  received, the result is sent when startup_cb returns, the application is asked
  for once. That no halt of all is silent needs the count of
  halted processes: since the last start every process that stands still has been counted
  (`Counted`), and the count comes full only with a message. That the button goes off
  needs that of what DPCL has to report of a process the exit is the last (`ExitLast`),
  and that after the last exit there is a report to come, a message under way
  that nothing behind it undoes, or a button that is off (`EndTold`).
* **`Actions_proofs`.** `Invariance` (IInv), `InstalledAsShown` (Agreement) and
  `RunsInShownOrder` (OrderAgrees), for any points, actions, lists and numbers of
  tasks. Agreement speaks of the moments when everything is read; in between,
  IInv says what is under way: the requests about one action at one
  point alternate between activate and deactivate and the last is what the
  Client shows (`AllWords`), the first is not what is installed already, an action
  that is on for some task is on for the first (`Uniform`), and what is activated has been parsed
  (`KnownPoints`). For the order, the slots followed by the activations under way
  are in the order of the Client's numbers (`AllOrdered`): a number given is
  above all that were given before at the point.
* **`Session_proofs`.** `Invariance` (IInv), `Authenticity` (Authentic),
  `TerminatedIsDown` (TerminatedServerDown), `AnswerNotStolen` (NoStolenAnswer)
  and `KillsLate` (NoHastyKill), for any strays and any number of messages.
  NoStolenAnswer alone is not inductive: IInv adds that GUI_SAYS_QUIT is under
  way, or was answered, only when main waits for the answer or a slot will
  return there (`Leaving`), so that the readers of the other phases have no
  answer to take. NoHastyKill needs that DPCL_SAYS_QUIT under way means a server
  that has left its loop, and that past the launch a Client which is not
  connected has given the server up (`Launched`).
* **`MessageViewer_proofs`.** `Invariance` (IInv) and `WindowIsSound` (WindowSound), for
  any files, texts, tracebacks, priorities and policies and any bounds on messages,
  posted refreshes and nested waits. Assumed (ViewerAssumption): a message has one line
  at least, as addMessage stores it (`Client/uimanager.cpp:6735`), and a number stands for
  each priority. WindowSound is not inductive in three ways. That the maps of the combo
  box agree (`ComboSound`) needs that folders are placed in the order of their
  declaration, and is carried through the constructor and the flush, in which each
  title may be inserted before the selected one. That every message has as
  many rows as lines (`GridSound`) needs where they are: from the message's head on,
  without a gap (`RowsSound`). That what is selected is what is shown holds only when
  nothing is under way; in between, either the window has its selection and
  every call that waits waits for that site (`Chosen`, `CallsSound`, `SourceSound`),
  or a refresh of the folder shown is in the event queue and will not be dropped
  (`Owed`). The loops over messages and folders are recursive functions: a lemma says
  that such a function exists (`AppendingExists`, `DeclaringExists`, `TitlingExists`)
  and the next ones what it keeps from step to step.

The induction theorems of the library take an operator as a parameter and cannot
be used with these provers. Where a proof needs an induction over a finite set it is
made by hand, from the least natural number in a set of counterexamples
(`LeastElement` and `Induction` in Actions_proofs, DataStats_proofs and
MessageViewer_proofs, `SubsetInduction` in DataStats_proofs).

Only model-checked: everything temporal beyond a step (`RecvReturns`, `ReadEnds`,
`CallsReturn`, the two `ServerExits`, `Terminates`, `OnlyKnownHangs`, `QuitEnds`,
`Followed`, `SilenceEnds`, `Follows`), since the prover has no rules for fairness;
that XMLFeed implements XMLDocument, in modules with recursive operators, which the
prover does not take.

## 7. Plan

Done: transport, source files, search path, session, XML path, statistics,
program control, heartbeat, actions, message window. What is left, in order:

1. **PathList**: setPath, getPath and the empty entries, as a round trip; the
   cached subdirectories, and the dialog whose address travels to the server.
2. **Pack**: TG_pack and TG_unpack round trip with widths and byte order.
3. **SymbolTable**, **IntSet**, **Heapsort**, **MessageBuffer**: each against a
   reference definition (a function, a set, a permutation in order).
4. **Parse states**: files and functions that late parse messages complete.

## 8. What the models leave out, and why

* *Transport:* the opposite direction (the server reads without a thread), the
  descriptors of several connections at once, exits when malloc fails.
* *Source files:* a Client without a server (`sock` is -1), the contents of the
  dialog's tree and when Qt deletes the dialog.
* *Search path:* the reading of directories, absolute names (one `stat`), changes
  of the file system during a search.
* *Session:* the text of the server's output, ssh's prompts, more than one
  collector object.
* *XML path:* attributes, comments, entities and the `<?xml?>` line; site_column
  and site_data beyond the clearing of their fields; a file that is replaced or
  shortened; a text longer than the handler's buffers. `fgetc` after the end of
  the file is taken to see what was written since (the code clears nothing; with
  a C library that keeps the end of file it would not).
  The XML reader itself (QXmlSimpleReader) is external.
* *Statistics:* floating point (values are integers; a mean is kept times a common
  multiple of the counts, a standard deviation as its square); the three copies
  of the query for function, file and application are one node.
* *Program:* what DPCL does inside; the text of the status bar. A process that
  exits is taken to be reported.
* *Heartbeat:* intervals below a second, which the Client never asks for.
* *Actions:* points of a function beyond the first; activation per task, which no
  menu reaches; an empty list from the dialog.
* *Message window:* several tabs and titles in a traceback, open and closed
  messages, widths, several windows (which share the static midUpdate), the
  reload after a new search path; popupFolderSelection is never set in the code.
* *Components not modelled:* message packing, symbol tables and allocator, small
  containers: sequential code, planned above. The parse of a target into modules
  and functions is DPCL's. The other views are Qt widgets: their calls are inputs of
  SourceFiles, the roll-up they show is DataRollup's. Converters are filters over
  one text. The probes of `dynTG/modules` call hardware libraries inside the
  target. Scripts, demos and the vendored boost hold no state of Tool Gear.

Message bodies, wording, layout and logging are abstracted everywhere.
