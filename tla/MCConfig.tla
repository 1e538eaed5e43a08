------------------------------ MODULE MCConfig ------------------------------
(****************************************************************************)
(* Config with three families of sources: what the scanner can meet, what   *)
(* the parser can meet between brackets, and files of several variables.    *)
(****************************************************************************)
EXTENDS Language, TLC

MCNumbers == ("2K" :> 2) @@ ("16384K" :> 16384)
MCUnits == ("2K" :> "K") @@ ("16384K" :> "K")
MCKernelFiles == {<<"file">>}
MCWords == {"arch", "x86_64", "bootsector", "pxe", "partition_scheme", "none", "fs_loader",
            "true", "kernel_path", "file", "disk_size", "2K", "16384K", "partitions",
            "name", "size", "word"}

Touch(s) == \E n \in 1..(Len(s) - 1) : {s[n], s[n + 1]} \subseteq MCWords

\* Every sequence of up to four symbols that the scanner tells apart.
Scans == {s \in UNION {[1..n -> {"word", "space", "newline", "#", "'", "double quote", ":", "?"}] :
                         n \in 0..4} : ~Touch(s)}

\* One token on each line.
Spread(s) == FlattenSeq([n \in DOMAIN s |-> <<s[n], "newline">>])

\* Every sequence of up to three tokens, in a list that is closed or not, and as a
\* field of a partition.
Between == UNION {[1..n -> {"name", ":", ",", "{", "}", "[", "]"}] : n \in 0..3}
Nested == {Spread(<<"partitions", ":", "[">> \o s \o end) : s \in Between, end \in {<<>>, <<"]">>}}
            \cup {Spread(<<"partitions", ":", "[", "{", "name", ":">> \o s \o <<"}", "]">>) : s \in Between}

\* Files with nothing, an architecture, or that and a kernel in front of up to
\* two variables.
ListVar(s) == <<"partitions", ":", "[">> \o s \o <<"]", "newline">>
Partition(s) == <<"{">> \o s \o <<"}">>
Variables == {<<"bootsector", ":", "pxe", "newline">>, <<"bootsector", ":", "word", "newline">>,
              <<"partition_scheme", ":", "none", "newline">>,
              <<"fs_loader", ":", "true", "newline">>, <<"fs_loader", ":", "'", "true", "'", "newline">>,
              <<"kernel_path", ":", "file", "newline">>, <<"kernel_path", ":", "word", "newline">>,
              <<"disk_size", ":", "2K", "newline">>, <<"disk_size", ":", "16384K", "newline">>,
              <<"word", ":", "2K", "newline">>,
              ListVar(Partition(<<"name", ":", "word", ",", "size", ":", "2K">>) \o <<",">> \o Partition(<<>>)),
              ListVar(Partition(<<"name", ":", "word">>) \o <<",">> \o Partition(<<"word", ":", "word">>))}
Arch == <<"arch", ":", "x86_64", "newline">>
Kernel == <<"kernel_path", ":", "file", "newline">>
Files == {a \o s : a \in {<<>>, Arch, Arch \o Kernel},
                   s \in {<<>>} \cup Variables \cup {v \o w : v \in Variables, w \in Variables}}

MCSources == Scans \cup Nested \cup Files
=============================================================================
