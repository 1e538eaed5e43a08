------------------------------ MODULE Namespace ------------------------------
(****************************************************************************)
(* What the file system of an image promises to ls, cat, mkdir and cp: a    *)
(* set of paths, each a directory or a file with some data, that a request  *)
(* looks up or adds one to, and that outlasts the command.                  *)
(****************************************************************************)
EXTENDS Integers, SequencesExt

CONSTANTS Names,      \* the names of files and directories
          Dot,        \* "."
          DotDot,     \* ".."
          Separator,  \* what is between two separators that follow each other
          Data,       \* what a file may contain,
          NoData,     \*   and what a new one does
          Paths       \* the components of the paths that are asked for

VARIABLES contents,   \* the paths there are: Dir, or what the file holds
          request,    \* what is asked, NoRequest between two requests
          answer      \* the answer to the last request

Dir == "directory"
Root == <<>>

Operations == {"mkdir", "make file", "open dir", "open file"}
NoRequest == [op |-> "none", path |-> <<>>]

\* An answer is a word, or what was opened.
Answer(word) == [says |-> word, place |-> Root]
Opened(place) == [says |-> "opened", place |-> place]

\* What a path means: ".." leads to the parent, and from the root nowhere.
Follow(place, component) ==
  IF component \in {Dot, Separator} THEN place
  ELSE IF component = DotDot THEN IF place = Root THEN Root ELSE Front(place)
  ELSE Append(place, component)
Meaning(path) ==
  LET place[n \in 0..Len(path)] == IF n = 0 THEN Root ELSE Follow(place[n - 1], path[n])
  IN place[Len(path)]

IsDir(place) == place \in DOMAIN contents /\ contents[place] = Dir
IsFile(place) == place \in DOMAIN contents /\ contents[place] # Dir

NsInit == /\ contents = [p \in {Root} |-> Dir]
          /\ request = NoRequest /\ answer = Answer("none")

Ask(op, path) == /\ request = NoRequest
                 /\ request' = [op |-> op, path |-> path]
                 /\ answer' = Answer("none")
                 /\ UNCHANGED contents

Place == Meaning(request.path)

\* A new name needs a parent that is a directory, and must be new.
Make(op, value) ==
  /\ request.op = op
  /\ \/ Place = Root /\ answer' = Answer("EINVAL") /\ UNCHANGED contents
     \/ Place # Root /\ ~IsDir(Front(Place)) /\ answer' = Answer("ENOENT") /\ UNCHANGED contents
     \/ /\ Place # Root /\ IsDir(Front(Place)) /\ Place \in DOMAIN contents
        /\ answer' = Answer("EEXIST") /\ UNCHANGED contents
     \/ /\ Place # Root /\ IsDir(Front(Place)) /\ Place \notin DOMAIN contents
        /\ answer' = Answer("ok")
        /\ contents' = [p \in DOMAIN contents \cup {Place} |->
                          IF p = Place THEN value ELSE contents[p]]
  /\ request' = NoRequest

\* What is opened is what the path means, or nothing.
Open(op, there) ==
  /\ request.op = op
  /\ answer' = IF there THEN Opened(Place) ELSE Answer("not found")
  /\ request' = NoRequest
  /\ UNCHANGED contents

\* A file that has been opened is given its data.
Fill == \E place \in DOMAIN contents, d \in Data :
          /\ IsFile(place) /\ answer = Opened(place)
          /\ contents' = [contents EXCEPT ![place] = d]
          /\ answer' = Answer("ok")
          /\ UNCHANGED request

\* Another command begins.
Reopen == /\ request = NoRequest
          /\ answer' = Answer("none")
          /\ UNCHANGED <<contents, request>>

NsNext == \/ \E op \in Operations, path \in Paths : Ask(op, path)
          \/ Make("mkdir", Dir) \/ Make("make file", NoData)
          \/ Open("open dir", IsDir(Place)) \/ Open("open file", IsFile(Place))
          \/ Fill \/ Reopen

NsSpec == NsInit /\ [][NsNext]_<<contents, request, answer>>
=============================================================================
