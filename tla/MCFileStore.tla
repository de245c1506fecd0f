---------------------------- MODULE MCFileStore ----------------------------
(* The Files API on one or two files, for TLC. *)
EXTENDS FilesApi, TLC, SequencesExt

CONSTANT Named  \* the file that requests refer to

Symmetry ==
    Permutations(Deletes) \cup Permutations(Reads) \cup Permutations(Prunes)

MCMime == [f \in Files |-> "text"]
MCEncoded == [f \in Files |-> 2]

Ref(at, type, file) ==
    [at |-> at, type |-> type, form |-> "file", file |-> file, named |-> FALSE]
MCRequests ==
    {<<Ref("content", "document", Named), Ref("tool_input", "document", Named),
       Ref("content", "image", None)>>,
     <<Ref("content", "document", Named), Ref("tool_result", "document", Named)>>}

\* Every kind of file at every place: what can be expanded has nothing left to
\* expand, and what is not local stays as it is.
AllRefs == {Ref(at, type, file) : at \in Visited \cup {"tool_input", "custom_tool_output"},
                                  type \in {"image", "document", "file"}, file \in {Named, None}}
ASSUME ExpandsAll ==
    \A a, b \in AllRefs, kind \in {"image", "pdf", "text", "other"} :
        LET mime == [f \in Files |-> kind]
            expanded == Expanded(<<a, b>>, mime)
        IN Expandable(<<a, b>>, mime) =>
            /\ LocalIds(expanded) = {}
            /\ expanded[2] # b => Local(b)
            /\ Expanded(expanded, mime) = expanded

\* Pages that follow each other, in either direction, hold every file once.
Shelf == <<"a", "b", "c", "d", "e">>
Forth[n \in 0..5, limit \in 1..6] ==
    LET page == Page(Shelf, IF n = 0 THEN None ELSE Shelf[n], None, limit)
    IN IF page.more THEN page.data \o Forth[n + Len(page.data), limit] ELSE page.data
Back[n \in 1..6, limit \in 1..6] ==
    LET page == Page(Shelf, None, Shelf[n], limit)
    IN IF page.more THEN Back[n - Len(page.data), limit] \o page.data ELSE page.data
ASSUME PagesHoldAll ==
    \A limit \in 1..6 : Forth[0, limit] = Shelf /\ Back[5, limit] = SubSeq(Shelf, 1, 4)
============================================================================
