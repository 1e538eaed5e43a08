------------------------------- MODULE FsTree -------------------------------
(****************************************************************************)
(* The file system in memory (src/core/fs.c, dir.c, path.c) as ls, cat,     *)
(* mkdir and cp use it, one call after the other: a path is parsed,         *)
(* normalized in place, and followed one directory at a time.  The two      *)
(* loops are steps, so that what they keep true is an invariant.            *)
(*                                                                          *)
(* A failed allocation is not modelled: it ends the command, and what is in *)
(* memory is never saved.                                                   *)
(****************************************************************************)
EXTENDS Integers, FiniteSets, SequencesExt

CONSTANTS Names,      \* the names of files and directories
          Dot,        \* "."
          DotDot,     \* ".."
          Separator,  \* what is between two separators that follow each other
          Freed,      \* what is read of a name that has been freed
          Data,       \* what a file may contain,
          NoData,     \*   and what a new one does
          Paths,      \* the components of the paths that are asked for
          MaxNodes    \* bound: the files and directories made

ASSUME NamesAssumption ==
  Names \cap {Dot, DotDot, Separator, Freed} = {} /\ Cardinality({Dot, DotDot, Separator, Freed}) = 4

Components == Names \cup {Dot, DotDot, Separator}

ASSUME PathsAssumption == Paths \subseteq Seq(Components)

ASSUME DataAssumption == "directory" \notin Data \cup {NoData}

ASSUME BoundAssumption == MaxNodes \in Nat

VARIABLES nodes,  \* the files and directories in the order they were made
          pc,     \* "idle", or the loop the call is in
          call,   \* the call and the components of its path
          path,   \* path.name_array
          i,      \* the loop's index, from 1
          dir,    \* parent_dir
          ret     \* what the last call returned, and the node it found

vars == <<nodes, pc, call, path, i, dir, ret>>

(* -- Directories ----------------------------------------------------------- *)

\* The root is no one's subdirectory and has no place among the nodes.
Root == 0
Node(parent, kind, name) == [parent |-> parent, kind |-> kind, name |-> name, data |-> NoData]

\* The subdirs, or the files, of a directory, as they follow in its array.
Children(parent, kind) == {n \in DOMAIN nodes : nodes[n].parent = parent /\ nodes[n].kind = kind}
Named(parent, kind, name) == {n \in Children(parent, kind) : nodes[n].name = name}

\* The loops over an array stop at the first match.
FirstOf(S) == CHOOSE n \in S : \A m \in S : n <= m

NameExistsAmongFiles(parent, name) == Named(parent, "file", name) # {}
NameExists(parent, name) == \E kind \in {"file", "dir"} : Named(parent, kind, name) # {}

(* -- Calls ----------------------------------------------------------------- *)

Operations == {"mkdir", "make file", "open dir", "open file"}
NoCall == [op |-> "none", path |-> <<>>]

Returned(word) == [says |-> word, node |-> Root]
Found(node) == [says |-> "opened", node |-> node]

\* What separators enclose is a name, unless it is empty.
Parsed(p) ==
  LET names[n \in 0..Len(p)] == IF n = 0 THEN <<>>
                                ELSE IF p[n] = Separator THEN names[n - 1]
                                ELSE Append(names[n - 1], p[n])
  IN names[Len(p)]

Begin(op, p) == /\ pc = "idle"
                /\ pc' = "normalize"
                /\ call' = [op |-> op, path |-> p]
                /\ path' = Parsed(p) /\ i' = 1 /\ dir' = Root
                /\ ret' = Returned("none")
                /\ UNCHANGED nodes

Return(result) == /\ ret' = result
                  /\ pc' = "idle" /\ call' = NoCall
                  /\ path' = <<>> /\ i' = 1 /\ dir' = Root

(* -- bootable_path_normalize ------------------------------------------------ *)

Normalizing == pc = "normalize" /\ i <= Len(path)

PassName == /\ Normalizing /\ path[i] \notin {Dot, DotDot}
            /\ i' = i + 1
            /\ UNCHANGED <<nodes, pc, call, path, dir, ret>>

\* Mutant: the array is moved up and keeps its length.
DropDotKeepCount ==
  /\ Normalizing /\ path[i] = Dot
  /\ path' = [j \in DOMAIN path |-> IF j < i \/ j = Len(path) THEN path[j] ELSE path[j + 1]]
  /\ UNCHANGED <<nodes, pc, call, i, dir, ret>>
DropDot == /\ Normalizing /\ path[i] = Dot
           /\ path' = RemoveAt(path, i)
           /\ UNCHANGED <<nodes, pc, call, i, dir, ret>>

\* Mutants: only ".." is removed, and the index is not taken back.
ClimbKeepingName == /\ Normalizing /\ path[i] = DotDot /\ i > 1
                    /\ path' = RemoveAt(path, i)
                    /\ i' = i - 1
                    /\ UNCHANGED <<nodes, pc, call, dir, ret>>
ClimbAndStay == /\ Normalizing /\ path[i] = DotDot /\ i > 1
                /\ path' = RemoveAt(RemoveAt(path, i), i - 1)
                /\ UNCHANGED <<nodes, pc, call, i, dir, ret>>
Climb == /\ Normalizing /\ path[i] = DotDot /\ i > 1
         /\ path' = RemoveAt(RemoveAt(path, i), i - 1)
         /\ i' = i - 1
         /\ UNCHANGED <<nodes, pc, call, dir, ret>>

(* The first name is freed and the array made one shorter at its end: the   *)
(* names are not moved.  What the freed name then reads as is not defined:  *)
(* what it was, or some name that no file has.                              *)
ClimbAtRoot == /\ Normalizing /\ path[i] \in {DotDot, Freed} /\ i = 1
               /\ path' = [j \in 1..(Len(path) - 1) |-> IF j = 1 THEN Freed ELSE path[j]]
               /\ UNCHANGED <<nodes, pc, call, i, dir, ret>>

\* A path of no names is the root: it can be opened, but not made.
EndNormalize == /\ pc = "normalize" /\ i > Len(path)
                /\ \/ /\ path = <<>> /\ call.op # "open dir"
                      /\ Return(Returned(IF call.op = "open file" THEN "not found" ELSE "EINVAL"))
                   \/ /\ path # <<>> \/ call.op = "open dir"
                      /\ pc' = "walk" /\ i' = 1
                      /\ UNCHANGED <<call, path, dir, ret>>
                /\ UNCHANGED nodes

(* -- Following the path ----------------------------------------------------- *)

\* All but open_dir leave the last name for what follows the loop.
Steps == IF call.op = "open dir" THEN Len(path) ELSE Len(path) - 1
\* Mutant: the names are not compared.
AnySubdirs == Children(dir, "dir")
Subdirs == Named(dir, "dir", path[i])

WalkDown == /\ pc = "walk" /\ i <= Steps /\ Subdirs # {}
            /\ dir' = FirstOf(Subdirs) /\ i' = i + 1
            /\ UNCHANGED <<nodes, pc, call, path, ret>>

WalkFails == /\ pc = "walk" /\ i <= Steps /\ Subdirs = {}
             /\ Return(Returned(IF call.op \in {"mkdir", "make file"} THEN "ENOENT"
                                                                     ELSE "not found"))
             /\ UNCHANGED nodes

Walked(op) == pc = "walk" /\ i > Steps /\ call.op = op

\* bootable_dir_add_subdir and bootable_dir_add_file.
\* Mutant: a name that a subdirectory has is not looked for.
AddUnlessFile(op, kind) ==
  /\ Walked(op)
  /\ \/ NameExistsAmongFiles(dir, path[i]) /\ Return(Returned("EEXIST")) /\ UNCHANGED nodes
     \/ /\ ~NameExistsAmongFiles(dir, path[i])
        /\ nodes' = Append(nodes, Node(dir, kind, path[i]))
        /\ Return(Returned("ok"))
Add(op, kind) ==
  /\ Walked(op)
  /\ \/ NameExists(dir, path[i]) /\ Return(Returned("EEXIST")) /\ UNCHANGED nodes
     \/ /\ ~NameExists(dir, path[i])
        /\ nodes' = Append(nodes, Node(dir, kind, path[i]))
        /\ Return(Returned("ok"))

OpenDir == /\ Walked("open dir") /\ Return(Found(dir)) /\ UNCHANGED nodes

Files == Named(dir, "file", path[i])

OpenFile == /\ Walked("open file")
            /\ Return(IF Files = {} THEN Returned("not found") ELSE Found(FirstOf(Files)))
            /\ UNCHANGED nodes

\* cp reads the host's file into the one it has made and opened.
FillFile(d) == /\ pc = "idle" /\ ret.says = "opened" /\ ret.node # Root
               /\ nodes[ret.node].kind = "file"
               /\ nodes' = [nodes EXCEPT ![ret.node].data = d]
               /\ ret' = Returned("ok")
               /\ UNCHANGED <<pc, call, path, i, dir>>

(* -- The behaviours --------------------------------------------------------- *)

Init == /\ nodes = <<>>
        /\ pc = "idle" /\ call = NoCall
        /\ path = <<>> /\ i = 1 /\ dir = Root
        /\ ret = Returned("none")

CallStep == \/ PassName \/ DropDot \/ Climb \/ ClimbAtRoot \/ EndNormalize
            \/ WalkDown \/ WalkFails
            \/ Add("mkdir", "dir") \/ Add("make file", "file")
            \/ OpenDir \/ OpenFile

HasRoom(op) == op \in {"mkdir", "make file"} => Len(nodes) < MaxNodes

\* The directory that a directory or file is in was made before it.
PathOf ==
  LET P[n \in 0..Len(nodes)] ==
        IF n = Root THEN <<>> ELSE Append(P[nodes[n].parent], nodes[n].name)
  IN P

Content(p) == IF p = <<>> THEN "directory"
              ELSE LET n == FirstOf({m \in DOMAIN nodes : PathOf[m] = p})
                   IN IF nodes[n].kind = "dir" THEN "directory" ELSE nodes[n].data

\* What the file system promises, and what of it the tree stands for.
Promise == INSTANCE Namespace
             WITH contents <- [p \in {PathOf[n] : n \in 0..Len(nodes)} |-> Content(p)],
                  request <- call,
                  answer <- [says |-> ret.says, place |-> PathOf[ret.node]]

(* A path climbs out of the root if ".." is in it where only the root is    *)
(* left, with more behind it.                                               *)
ClimbsOut(p) == \E j \in 1..(Len(p) - 1) : /\ p[j] = DotDot
                                           /\ Promise!Meaning(SubSeq(p, 1, j - 1)) = <<>>

Next == \/ \E op \in Operations, p \in Paths : HasRoom(op) /\ ~ClimbsOut(Parsed(p)) /\ Begin(op, p)
        \/ CallStep
        \/ \E d \in Data : FillFile(d)

\* The program goes on with a call it has begun.
Spec == Init /\ [][Next]_vars /\ WF_vars(CallStep)

\* Any path that can be typed.
AnyPathNext == Next \/ \E op \in Operations, p \in Paths : HasRoom(op) /\ Begin(op, p)

AnyPathSpec == Init /\ [][AnyPathNext]_vars /\ WF_vars(CallStep)

(* -- What ls, cat, mkdir and cp rely on -------------------------------------- *)

\* Type invariant: the nodes are a tree whose inner nodes are directories, and
\* the loops stay inside the path.
TypeOK ==
  /\ nodes \in Seq([parent : 0..MaxNodes, kind : {"dir", "file"},
                    name : Names \cup {Freed}, data : Data \cup {NoData}])
  /\ \A n \in DOMAIN nodes : /\ nodes[n].parent < n
                             /\ nodes[n].parent # Root => nodes[nodes[n].parent].kind = "dir"
  /\ pc \in {"idle", "normalize", "walk"}
  /\ call \in [op : Operations, path : Paths] \cup {NoCall}
  /\ path \in Seq((Components \ {Separator}) \cup {Freed})
  /\ i \in 1..(Len(path) + 1)
  /\ dir \in {Root} \cup {n \in DOMAIN nodes : nodes[n].kind = "dir"}
  /\ ret.says \in {"none", "ok", "EINVAL", "ENOENT", "EEXIST", "not found", "opened"}
  /\ ret.node \in 0..Len(nodes)

\* No directory holds a name twice, as a file or as a directory: what is saved
\* can all be reached by a path.
UniqueNames ==
  \A n, m \in DOMAIN nodes :
    n # m => nodes[n].parent # nodes[m].parent \/ nodes[n].name # nodes[m].name

\* Normalizing a path changes what is written, never what is meant, and what
\* it has passed is plain.
NormalizeKeepsMeaning ==
  pc = "normalize" => /\ Promise!Meaning(path) = Promise!Meaning(call.path)
                      /\ \A j \in 1..(i - 1) : path[j] \notin {Dot, DotDot}

\* The directory that the walk has come to is the one that the names passed
\* so far lead to.
WalkedPath == pc = "walk" => PathOf[dir] = SubSeq(path, 1, i - 1)

\* Every answer is the one the promise gives, from whatever was made before.
ImplementsNamespace == Promise!NsSpec

\* No path keeps a call busy for ever.
CallsEnd == pc # "idle" ~> pc = "idle"

\* path.h: where there are more ".." than names, "the root directory will be
\* leftover": what is followed is what the path means.
RootLeftOver == pc = "walk" => path = Promise!Meaning(call.path)
=============================================================================
