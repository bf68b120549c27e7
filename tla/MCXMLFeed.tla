------------------------------ MODULE MCXMLFeed ------------------------------
(* Short files that between them hold every element, every kid and every        *)
(* warning, for TLC.                                                            *)
EXTENDS XMLFeed

Leaf(name, ch) == [name |-> name, text |-> <<ch>>, kids |-> << >>]
Node(name, kids) == [name |-> name, text |-> << >>, kids |-> kids]

\* A character between two elements (StrayText of XMLDocument).
Stray(ch) == Leaf("", ch)

MCNumbers == {<<"1">>, <<"2">>}

Folder(tag) == Node("message_folder", <<Leaf("tag", tag), Leaf("title", "T")>>)
Message(tag, heading) == Node("message", <<Leaf("folder", tag), Leaf("heading", heading)>>)

\* A folder's policy, and a title given twice; the next folder has none.
Policy == <<Node("message_folder", <<Leaf("tag", "a"), Leaf("if_empty", "hide"),
                                     Leaf("if_empty", "x"), Leaf("title", "A"),
                                     Leaf("title", "Z")>>),
            Folder("b")>>

\* A traceback; the next message has none.
Stack == Node("annot", <<Leaf("title", "t"), Node("site", <<Leaf("file", "f"), Leaf("line", "1")>>),
                         Node("site", <<Leaf("desc", "d")>>)>>)
Traced == <<Folder("a"),
            Node("message", <<Leaf("folder", "a"), Leaf("heading", ">"), Leaf("body", NL), Stack>>),
            Message("a", "h")>>

\* A message in more folders than one may be in.
Shared == <<Folder("a"), Folder("b"),
            Node("message", <<Leaf("heading", "h"), Leaf("folder", "b"), Leaf("folder", "a"),
                              Leaf("folder", "c")>>)>>

\* Warnings, and the lines they name.
Unknown == <<Leaf("extra", NL), Folder("a"), Leaf("extra", "x"), Leaf("site_data", "x"),
             Leaf("site_data", "y")>>
Redeclared == <<Folder("a"), Leaf("format", "1"),
                Node("message_folder", <<Leaf("tag", "a"), Leaf("title", "Z")>>), Folder("a")>>
Priorities == <<Node("site_priority", <<Leaf("file", "f"), Leaf("modifier", "1"),
                                        Leaf("modifier", "x")>>),
                Node("site_priority", <<Leaf("modifier", "1")>>),
                Node("site_priority", <<Leaf("desc", "d"), Leaf("modifier", "2")>>)>>

\* What the window says of the tool; the last element has no known end.
About == <<Node("about", <<Leaf("prepend", "p"), Leaf("append", NL), Leaf("append", "q"),
                           Leaf("prepend", "r")>>),
           Leaf("tool_title", "T"), Leaf("extra", "x")>>
Status == <<Leaf("version", "1"), Leaf("status", "s"), Folder("a"), Leaf("status", "t")>>

\* A folder nobody has declared ends the Client, ...
Undeclared == <<Folder("a"), Message("b", "h"), Message("a", "i")>>

\* ... and a '>' that closes nothing ends the server.
Misplaced == <<Leaf("tool_title", "T"), Stray("x"), Folder("a"),
           Stray(">"), Message("a", "h")>>

MCDocuments == {Policy, Traced, Shared, Unknown, Redeclared, Priorities, About, Status,
                Undeclared, Misplaced}
=============================================================================
