------------------------------- MODULE MCUtil -------------------------------
(****************************************************************************)
(* Util on an image of a few sectors.  Four entries fill one sector, so the *)
(* tables take sectors 1-2 and the last two of the image, and partitions    *)
(* begin in sector 3.                                                       *)
(****************************************************************************)
EXTENDS UtilInvariant

\* Stage two takes sectors 3-4, stage three sector 5, the file system the
\* three after it, which hold any tree of two nodes.
WithFs == [disk_size |-> 11 * SectorSize, fs_size |-> 3 * SectorSize,
           fs_loader |-> TRUE, partitions |-> <<"pure64">>]
\* A kernel in place of the loader and the file system.
WithKernel == [WithFs EXCEPT !.fs_loader = FALSE, !.partitions = <<>>]
\* No room for the file system: init fails when it has written half an image.
TooSmall == [WithFs EXCEPT !.disk_size = 9 * SectorSize]

MCConfigs == {WithFs, WithKernel, TooSmall}
MCDiskSizes == {c.disk_size : c \in MCConfigs}
MCSizes == {512, 600, 1024, 1536}

\* Boot code that, read as a header, leads to sectors of the image, and bytes
\* that are an entry behind its end.
MCRawHeader == [current_lba |-> 5, backup_lba |-> 6, first_usable_lba |-> 7,
                last_usable_lba |-> 8, partition_entries_lba |-> 9, partition_entry_count |-> 3]
MCRawEntry == [type |-> "other", name |-> "pure64", first_lba |-> 40, last_lba |-> 50]

\* One node, or one that is new and one that is there already.
MCArgs == {<<>>, <<"/a">>, <<"/boot">>, <<"/a", "/boot">>}

\* And of the images that init has not finished, only one that is new.
HalfMadeArgs == {<<>>, <<"/a">>}

\* Only init reads the size of the disk: to every other command TooSmall is
\* WithFs once more.  A half-made image whose sector 0 has been written over
\* is still saved to, by ls, but no more nodes are made on it.
MCUtilNext ==
  /\ UtilNext
  /\ cmd = NoCommand => /\ cmd'.args \in MCArgs
                        /\ cmd'.op = "init" \/ config' # TooSmall
                        /\ layout = {} => cmd'.args \in HalfMadeArgs
                        /\ Holds(0, "header") => cmd'.op # "make"

MCUtilSpec == UtilInit /\ [][MCUtilNext]_utilVars /\ WF_utilVars(CommandStep)
=============================================================================
