------------------------------ MODULE FsStream ------------------------------
(****************************************************************************)
(* The file system of FsTree from one command to the next: exported as a    *)
(* stream of records by bootable_fs_export, imported by bootable_fs_import. *)
(****************************************************************************)
EXTENDS FsTree

CONSTANTS NameSize,  \* the characters of a name,
          DataSize   \*   and the bytes of a file

LOCAL INSTANCE FiniteSetsExt

ASSUME SizesAssumption == NameSize \in [Names -> Nat] /\ DataSize \in [Data \cup {NoData} -> Nat]

(* -- Export and import ----------------------------------------------------- *)

InOrder(S) == SetToSortSeq(S, <)

(* bootable_fs_export: a directory, its subdirectories with all that is in  *)
(* them, and its files.  A node is made after the directory it is in.       *)
Record(kind, name, subdirs, files, data) ==
  [kind |-> kind, name |-> name, subdir_count |-> subdirs, file_count |-> files, data |-> data]
FileRecord(n) == Record("file", nodes[n].name, 0, 0, nodes[n].data)
NoName == Separator
DirRecord(d) == Record("dir", IF d = Root THEN NoName ELSE nodes[d].name,
                       Cardinality(Children(d, "dir")), Cardinality(Children(d, "file")), NoData)

Exported ==
  LET From[d \in 0..Len(nodes)] ==
        LET subdirs == InOrder(Children(d, "dir"))
            files == InOrder(Children(d, "file"))
        IN <<DirRecord(d)>>
             \o FlattenSeq([j \in 1..Len(subdirs) |-> From[subdirs[j]]])
             \o [j \in 1..Len(files) |-> FileRecord(files[j])]
  IN From[Root]

(* bootable_fs_import: what the counts of the directories begun so far say  *)
(* the next record is, and whose.  A frame is a directory that is being     *)
(* read, the one read last in front.                                        *)
Frame(d, r) == [dir |-> d, subdirs |-> r.subdir_count, files |-> r.file_count]

\* Mutant: the files are taken to come before the subdirectories.
ReadFilesFirst(done, r) ==
  LET open == SelectSeq(done.frames, LAMBDA f : f.subdirs + f.files > 0)
      top == open[1]
      n == Len(done.nodes) + 1
      new == [Node(top.dir, IF top.files > 0 THEN "file" ELSE "dir", r.name) EXCEPT !.data = r.data]
  IN [nodes |-> Append(done.nodes, new),
      frames |-> IF top.files > 0 THEN <<[top EXCEPT !.files = @ - 1]>> \o Tail(open)
                 ELSE <<Frame(n, r), [top EXCEPT !.subdirs = @ - 1]>> \o Tail(open)]
ReadRecord(done, r) ==
  LET open == SelectSeq(done.frames, LAMBDA f : f.subdirs + f.files > 0)
      top == open[1]
      n == Len(done.nodes) + 1
      new == [Node(top.dir, IF top.subdirs > 0 THEN "dir" ELSE "file", r.name) EXCEPT !.data = r.data]
  IN [nodes |-> Append(done.nodes, new),
      frames |-> IF top.subdirs > 0
                 THEN <<Frame(n, r), [top EXCEPT !.subdirs = @ - 1]>> \o Tail(open)
                 ELSE <<[top EXCEPT !.files = @ - 1]>> \o Tail(open)]

Imported(stream) == FoldLeft(ReadRecord, [nodes |-> <<>>, frames |-> <<Frame(Root, stream[1])>>],
                             Tail(stream)).nodes

(* -- Sizes ----------------------------------------------------------------- *)

\* bootable_fs_size, which the header of the stream holds.
FsSize ==
  LET DirSize[d \in 0..Len(nodes)] ==
        24 + MapThenSumSet(LAMBDA n : DirSize[n], Children(d, "dir"))
           + MapThenSumSet(LAMBDA n : 16 + NameSize[nodes[n].name] + DataSize[nodes[n].data],
                           Children(d, "file"))
  IN 16 + DirSize[Root]

\* The bytes of the stream: its signature and size, and its records.
RecordBytes(r) == (IF r.kind = "dir" THEN 24 ELSE 16)
                    + (IF r.name = NoName THEN 0 ELSE NameSize[r.name]) + DataSize[r.data]
StreamBytes == 16 + FoldLeft(LAMBDA sum, r : sum + RecordBytes(r), 0, Exported)

(* -- The behaviours -------------------------------------------------------- *)

\* A command saves what it has made, and the next one reads it: to the promise
\* of the file system, nothing happens to what it holds.
Reopen == /\ pc = "idle"
          /\ nodes' = Imported(Exported)
          /\ ret' = Returned("none")
          /\ UNCHANGED <<pc, call, path, i, dir>>

StreamNext == Next \/ Reopen

StreamSpec == Init /\ [][StreamNext]_vars /\ WF_vars(CallStep)

(* -- What fs.h says of the size --------------------------------------------- *)

\* fs.h: the size of a file system is the number of bytes it occupies.
SizeIsOccupied == FsSize = StreamBytes
=============================================================================
