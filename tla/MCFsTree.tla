------------------------------ MODULE MCFsTree ------------------------------
(****************************************************************************)
(* FsTree with two names, so that a name can be new, there already, or      *)
(* there as the other kind.                                                 *)
(****************************************************************************)
EXTENDS FsStream

\* All paths of two components, and of three those with something to resolve
\* between, behind or in front of names.
MCPaths == LET Symbols == {"a", "b", ".", "..", "/"}
           IN UNION {[1..n -> Symbols] : n \in 0..2}
                \cup {<<x, c, y>> : x \in {"a"}, c \in Symbols, y \in {"a", "b"}}
                \cup {<<x, y, "..">> : x \in {"a", "b"}, y \in {"a", ".", ".."}}

MCNameSize == [n \in Names |-> 1]
MCDataSize == [d \in Data \cup {NoData} |-> IF d = NoData THEN 0 ELSE 1]
=============================================================================
