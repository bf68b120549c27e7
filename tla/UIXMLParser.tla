----------------------------- MODULE UIXMLParser -----------------------------
(* How the Client reads one snippet of XML (UIXMLParser in Client/uimanager.cpp):*)
(* a SAX handler, called for each tag and each text, that collects what an      *)
(* element says and hands it to the UIManager when the element ends.            *)
(*                                                                              *)
(* The state s of a run over a snippet holds the UIManager (db), the elements   *)
(* that are open, with (open) and without (path) the wrapper's, the text read   *)
(* so far at each level (values), what was collected (fields, folders, ...),    *)
(* and the guess at the line (line).                                            *)
EXTENDS Naturals, Sequences, FiniteSets, SequencesExt, Accumulate

CONSTANTS Numbers,               \* the texts that are numbers
          MAX_MESSAGE_FOLDERS    \* folders one message may be in

LOCAL NL == "\n"
Wrapper == "tool_gear_XML_snippet"

\* The table of the tokens: the names known at each level.
TokenTable ==
    <<{"format", "version", "about", "tool_title", "message_folder", "message",
       "site_column", "site_data", "site_priority", "status"},
      {"prepend", "append", "tag", "title", "if_empty", "folder", "heading", "body", "annot",
       "site_mask", "hide_if_empty", "position", "tooltip", "align", "min_width",
       "max_width", "col", "file", "set", "line", "desc", "modifier"},
      {"title", "site", "l", "v"},
      {"file", "line", "desc"}>>

Known(path) == Len(path) <= Len(TokenTable) /\ Last(path) \in TokenTable[Len(path)]

Kids(element, names) == {<<element, name>> : name \in names}
Annot == <<"message", "annot">>
Site == <<"message", "annot", "site">>

\* The texts kept the first time they are not empty (setIfEmpty).
Fields == Kids("message_folder", {"tag", "title"})
          \cup Kids("message", {"heading", "body"}) \cup {Append(Annot, "title")}
          \cup {Append(Site, part) : part \in {"file", "line", "desc"}}
          \cup Kids("site_priority", {"file", "line", "desc"})
          \cup Kids("site_column", {"tag", "title", "tooltip"})
          \cup Kids("site_data", {"col", "file"})

\* What endElement does something about.
Handled == Fields \cup {Annot, Site, <<"message", "folder">>, <<"message_folder", "if_empty">>,
                        <<"site_priority", "modifier">>}
           \cup Kids("about", {"prepend", "append"})
           \cup Kids("site_column", {"site_mask", "hide_if_empty", "position", "align",
                                     "min_width", "max_width"})
           \cup {<<name>> : name \in TokenTable[1] \ {"site_column", "site_data"}}

Warn(s, what) ==
    [s EXCEPT !.db.warnings = Append(@, [what |-> what, line |-> s.line + s.lineOffset])]

\* unknownXMLTable: an ignored name is printed once for its level.
WarnIgnored(s) ==
    LET what == <<"ignored", Last(s.path), Len(s.path) - 1>>
    IN  IF \E k \in 1..Len(s.db.warnings) : s.db.warnings[k].what = what THEN s
        ELSE Warn(s, what)

TG_error(s) == [s EXCEPT !.db.alive = FALSE]

-----------------------------------------------------------------------------
(* What endElement makes of the element it ends. *)

FolderIndices(db, tag) == {k \in 1..Len(db.folders) : db.folders[k].tag = tag}

declareMessageFolder(s) ==
    LET tag == s.fields[<<"message_folder", "tag">>]
        title == s.fields[<<"message_folder", "title">>]
        ifEmpty == IF s.if_empty = << >> THEN <<"show">> ELSE s.if_empty
        declared == FolderIndices(s.db, tag)
    IN  CASE tag = << >> \/ title = << >> -> TG_error(s)
          [] declared = {} ->
                 [s EXCEPT !.db.folders = Append(@, [tag |-> tag, title |-> title,
                                            if_empty |-> ifEmpty, messages |-> << >>])]
          [] \E k \in declared : s.db.folders[k].title # title -> Warn(s, <<"redeclared">>)
          [] OTHER -> s

addMessage(s, tag) ==
    LET message == [heading |-> s.fields[<<"message", "heading">>],
                    body |-> s.fields[<<"message", "body">>], traceback |-> s.annots]
        declared == FolderIndices(s.db, tag)
    IN  IF ~s.db.alive THEN s
        ELSE IF declared = {} THEN TG_error(s)
        ELSE [s EXCEPT !.db.folders[CHOOSE k \in declared : TRUE].messages = Append(@, message)]

EndMessage(s) ==
    IF << >> \in Range(s.folders) \/ s.fields[<<"message", "heading">>] = << >> THEN TG_error(s)
    ELSE FoldLeft(addMessage, s, s.folders)

EndPriority(s) ==
    LET parts == [part \in {"file", "desc", "line"} |-> s.fields[<<"site_priority", part>>]]
    IN  CASE s.modifier = << >> -> Warn(s, <<"no modifier">>)
          [] \A part \in DOMAIN parts : parts[part] = << >> -> Warn(s, <<"no expression">>)
          [] OTHER -> [s EXCEPT !.db.priorities = Append(@, <<s.modifier, parts>>)]

addAboutText(about, text, prepend) ==
    IF about = << >> THEN text
    ELSE IF prepend THEN text \o <<NL>> \o about
    ELSE about \o (IF Last(about) # NL THEN <<NL>> ELSE << >>) \o <<NL>> \o text

\* The lines of the annotations; a site is one line of its annotation.
EndAnnot(s) ==
    [s EXCEPT !.annots = Append(@, [title |-> s.fields[Append(Annot, "title")],
                                    sites |-> s.sites])]
EndSite(s) ==
    [s EXCEPT !.sites = Append(@, [part \in {"file", "line", "desc"} |->
                                      s.fields[Append(Site, part)]])]

EndKnown(s) ==
    LET path == s.path
        value == Last(s.values)
    IN  CASE path = <<"message">>        -> EndMessage(s)
          [] path = <<"message_folder">> -> declareMessageFolder(s)
          [] path = <<"site_priority">>  -> EndPriority(s)
          [] path = <<"tool_title">>     -> [s EXCEPT !.db.caption = value]
          [] path = <<"status">>         -> [s EXCEPT !.db.status = value]
          [] path = Annot                -> EndAnnot(s)
          [] path = Site                 -> EndSite(s)
          [] path = <<"message", "folder">> ->
                 IF Len(s.folders) >= MAX_MESSAGE_FOLDERS THEN s
                 ELSE [s EXCEPT !.folders = Append(@, value)]
          [] path = <<"message_folder", "if_empty">> ->
                 IF value \in {<<"show">>, <<"hide">>, <<"disable">>}
                 THEN [s EXCEPT !.if_empty = value] ELSE s
          [] path = <<"site_priority", "modifier">> ->
                 [s EXCEPT !.modifier = IF value \in Numbers THEN value ELSE << >>]
          [] path \in Kids("about", {"prepend", "append"}) ->
                 [s EXCEPT !.db.about = addAboutText(@, value, path[2] = "prepend")]
          [] path \in Fields /\ s.fields[path] = << >> -> [s EXCEPT !.fields[path] = value]
          [] path \notin Handled /\ Known(path) -> WarnIgnored(s)
          [] OTHER -> s

-----------------------------------------------------------------------------
(* The handler's events. *)

\* A new element clears what was collected of the last one.
ClearFields(s) ==
    LET path == s.path
        cleared == [s EXCEPT !.fields = [f \in Fields |->
                       IF IsPrefix(path, f) THEN << >> ELSE @[f]]]
    IN  CASE path = <<"message_folder">> -> [cleared EXCEPT !.if_empty = << >>]
          [] path = <<"message">> -> [cleared EXCEPT !.folders = << >>, !.annots = << >>]
          [] path = <<"site_priority">> -> [cleared EXCEPT !.modifier = << >>]
          [] path = Annot -> [cleared EXCEPT !.sites = << >>]
          [] path \in {<<"site_column">>, <<"site_data">>, Site} -> cleared
          [] OTHER -> s

startElement(s, name) ==
    LET opened == [s EXCEPT !.open = Append(@, name)]
        entered == [opened EXCEPT !.path = Append(@, name), !.values = Append(@, << >>)]
    IN  IF s.path = << >> /\ name \in {"tool_gear", Wrapper} THEN opened
        ELSE The({IF Known(t.path) THEN t ELSE WarnIgnored(t) : t \in {ClearFields(entered)}})

endElement(s, name) ==
    LET closed == [s EXCEPT !.open = Front(@)]
    IN  IF s.path = << >> /\ name \in {"tool_gear", Wrapper} THEN closed
        ELSE [The({EndKnown(t) : t \in {closed}}) EXCEPT !.path = Front(@), !.values = Front(@)]

\* The text between the wrapper's tag and the first element belongs to no level.
characters(s, ch) ==
    [s EXCEPT !.line = IF ch = NL THEN @ + 1 ELSE @,
              !.values = IF @ = << >> THEN @ ELSE [@ EXCEPT ![Len(@)] = Append(@, ch)]]

\* A tag that does not close the last open element ends the snippet.
fatalError(s) == [Warn(s, <<"parse error">>) EXCEPT !.ok = FALSE]

CloseTag(s) ==
    LET read == [s EXCEPT !.tag = << >>]
    IN  IF s.tag[2] # "/" THEN startElement(read, s.tag[2])
        ELSE IF s.open # << >> /\ Last(s.open) = s.tag[3] THEN endElement(read, s.tag[3])
        ELSE fatalError(read)

\* QXmlSimpleReader, one unit at a time: tag holds the tag being read.
ReadUnit(s, unit) ==
    CASE ~s.ok \/ ~s.db.alive        -> s
      [] unit = "<"                  -> [s EXCEPT !.tag = <<"<">>]
      [] s.tag # << >> /\ unit = ">" -> CloseTag(s)
      [] s.tag # << >>               -> [s EXCEPT !.tag = Append(@, unit)]
      [] OTHER                       -> characters(s, unit)

\* The snippet, between the tags of the wrapper on lines of their own.
processXMLSnippet(db, snippet, lineNoOffset) ==
    LET wrapped == <<"<", Wrapper, ">", NL>> \o snippet \o <<NL, "<", "/", Wrapper, ">">>
        handler == [db |-> db, open |-> << >>, path |-> << >>, values |-> << >>,
                    fields |-> [f \in Fields |-> << >>], folders |-> << >>, if_empty |-> << >>,
                    modifier |-> << >>, annots |-> << >>, sites |-> << >>, tag |-> << >>,
                    line |-> 1, lineOffset |-> lineNoOffset - 1, ok |-> TRUE]
    IN  Accumulated(ReadUnit, handler, wrapped).db
=============================================================================
