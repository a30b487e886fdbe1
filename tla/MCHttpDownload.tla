---------------------------- MODULE MCHttpDownload ----------------------------
(* Kinds of tasks and servers for HttpDownload.  One server sends validators   *)
(* with every reply or honours If-Range, else nothing can tell versions apart. *)
EXTENDS HttpDownload, TLC

CONSTANTS p1, p2

MCPinned == {p1, p2}
Symmetry == Permutations(MCPinned)

\* Segments over several nodes, on a server that honours If-Range.
Pooled ==
    [probe |-> TRUE, early |-> FALSE, plans |-> {TRUE}, ifRange |-> TRUE,
     tags |-> "always", pool |-> TRUE, auto |-> TRUE]

\* The validators of the replies alone.
TagsOnly ==
    [probe |-> TRUE, early |-> FALSE, plans |-> {TRUE}, ifRange |-> FALSE,
     tags |-> "always", pool |-> FALSE, auto |-> TRUE]

\* The size is a hint: nothing to compare the first reply with.
Hinted ==
    [probe |-> FALSE, early |-> FALSE, plans |-> {TRUE}, ifRange |-> TRUE,
     tags |-> "always", pool |-> FALSE, auto |-> FALSE]

\* One stream, or segments after a change of the settings.
Either ==
    [probe |-> TRUE, early |-> TRUE, plans |-> BOOLEAN, ifRange |-> TRUE,
     tags |-> "sometimes", pool |-> FALSE, auto |-> FALSE]

Usual == {Pooled, TagsOnly, Hinted, Either}
=============================================================================
