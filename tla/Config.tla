------------------------------- MODULE Config -------------------------------
(****************************************************************************)
(* A configuration that is loaded (src/lang/config.c): the file is read,    *)
(* scanned and parsed, its variables are handled one after the other, and   *)
(* what they have set is validated.                                         *)
(****************************************************************************)
EXTENDS Parser

CONSTANTS Word,         \* an integer of 64 bits wraps here
          Numbers,      \* the words that begin with a number: what it is,
          Units,        \*   and the words that end with a unit: which it is
          KernelFiles   \* the texts that name a file on the host

\* The sizes that a configuration begins with fit.
ASSUME WordAssumption == Word \in Nat /\ Word > 1024 * 1024

ASSUME NumbersAssumption == Numbers \in [DOMAIN Numbers -> 0..(Word - 1)] /\ DOMAIN Numbers \subseteq Words

\* The units that parse_size knows.
KnownUnits == {"T", "TiB", "G", "GiB", "M", "MiB", "K", "KiB", "TB", "GB", "MB", "KB"}
ASSUME UnitsAssumption == \A word \in DOMAIN Units : Units[word] \in KnownUnits

VARIABLES config,   \* struct bootable_config
          var       \* parser->var_index, from 1

configVars == <<parserVars, config, var>>

(* -- Values ---------------------------------------------------------------- *)

\* The multipliers of parse_size.
Multiplier(suffix) == CASE suffix \in {"T", "TiB"} -> 1024 * 1024 * 1024 * 1024
                        [] suffix \in {"G", "GiB"} -> 1024 * 1024 * 1024
                        [] suffix \in {"M", "MiB"} -> 1024 * 1024
                        [] suffix \in {"K", "KiB"} -> 1024
                        [] suffix = "TB" -> 1000 * 1000 * 1000 * 1000
                        [] suffix = "GB" -> 1000 * 1000 * 1000
                        [] suffix = "MB" -> 1000 * 1000
                        [] suffix = "KB" -> 1000

(* The number is what sscanf finds behind blanks, and the unit is at the    *)
(* very end of the text, wherever the number was.                           *)
Leading(data) == SelectSeq(data, LAMBDA symbol : symbol \notin Blanks)
HasSize(data) == LET lead == Leading(data) IN lead # <<>> /\ lead[1] \in DOMAIN Numbers
SizeOf(data) ==
  LET last == data[Len(data)]
  IN (Numbers[Leading(data)[1]] * IF last \in DOMAIN Units THEN Multiplier(Units[last]) ELSE 1)
       % Word

IsString(value) == value.type = "string"
IsSize(value) == IsString(value) /\ HasSize(value.data)

NotGiven == <<"not given">>
NoScheme == <<"none">>

\* struct bootable_config_partition.
NewPartition == [name |-> NotGiven, file |-> NotGiven, size |-> NotGiven, offset |-> NotGiven]

(* -- The handlers ---------------------------------------------------------- *)

Is(v, id) == v.key.id = <<id>>

PartitionFields == {"name", "file", "size", "offset"}
IsField(field) == \E id \in PartitionFields : Is(field, id)
FieldTaken(field) == /\ IsField(field)
                     /\ IF Is(field, "name") \/ Is(field, "file") THEN IsString(field.value)
                                                                  ELSE IsSize(field.value)
FieldValue(field) == IF Is(field, "name") \/ Is(field, "file") THEN field.value.data
                                                               ELSE <<SizeOf(field.value.data)>>

\* The fields of a partition are handled in order: the last of a name counts.
WithField(partition, field) ==
  [partition EXCEPT ![field.key.id[1]] = FieldValue(field)]
PartitionOf(object) == FoldLeft(WithField, NewPartition, object.items)

IsPartition(value) == /\ value.type = "object"
                      /\ \A n \in DOMAIN value.items : FieldTaken(value.items[n])

FirstOf(S) == CHOOSE n \in S : \A m \in S : n <= m
BadItems(value) == {n \in DOMAIN value.items : ~IsPartition(value.items[n])}

\* The partitions in front of one that is refused are kept.
Partitions(value) ==
  [n \in 1..(FirstOf(BadItems(value) \cup {Len(value.items) + 1}) - 1) |-> PartitionOf(value.items[n])]

\* The type and the range that each handler asks for.
Taken(v) ==
  LET value == v.value
  IN \/ Is(v, "arch") /\ IsString(value) /\ value.data = <<"x86_64">>
     \/ /\ Is(v, "bootsector") /\ IsString(value)
        /\ value.data \in {<<"mbr">>, <<"pxe">>, <<"multiboot">>, <<"multiboot2">>}
     \/ Is(v, "partition_scheme") /\ IsString(value) /\ value.data \in {<<"none">>, <<"gpt">>}
     \/ Is(v, "fs_loader") /\ value.type = "boolean"
     \/ Is(v, "kernel_path") /\ IsString(value) /\ value.data \in KernelFiles
     \/ Is(v, "resource_path") /\ IsString(value)
     \/ (Is(v, "disk_size") \/ Is(v, "fs_size")) /\ IsSize(value)
     \/ /\ Is(v, "partitions") /\ value.type = "list"
        /\ BadItems(value) = {}

Keys == {"arch", "bootsector", "partition_scheme", "fs_loader", "kernel_path",
         "resource_path", "disk_size", "fs_size", "partitions"}

ValueOf(v) == IF Is(v, "fs_loader") THEN v.value.data = <<"true">>
              ELSE IF Is(v, "disk_size") \/ Is(v, "fs_size") THEN SizeOf(v.value.data)
              ELSE v.value.data

\* Mutant: a second list takes the place of the first.
SetAnew(c, v) == IF Is(v, "partitions") THEN [c EXCEPT !.partitions = Partitions(v.value)]
                 ELSE [c EXCEPT ![v.key.id[1]] = ValueOf(v)]
Set(c, v) == IF Is(v, "partitions") THEN [c EXCEPT !.partitions = @ \o Partitions(v.value)]
             ELSE [c EXCEPT ![v.key.id[1]] = ValueOf(v)]

(* -- Loading --------------------------------------------------------------- *)

DefaultDiskSize == 1024 * 1024
DefaultFsSize == 512 * 1024

\* bootable_config_init.
InitConfig == [arch |-> NotGiven, bootsector |-> NotGiven, partition_scheme |-> NoScheme,
               fs_loader |-> FALSE, disk_size |-> DefaultDiskSize, fs_size |-> DefaultFsSize,
               kernel_path |-> NotGiven, resource_path |-> NotGiven, partitions |-> <<>>]

Init == /\ source \in Sources /\ pc = "load"
        /\ i = 1 /\ line = 1 /\ column = 1 /\ tokens = <<>>
        /\ j = 1 /\ stack = <<Open("file")>> /\ expect = "key" /\ error = NoPlace
        /\ config = InitConfig /\ var = 1

\* The file is read, or it cannot be.
Load == /\ pc = "load"
        /\ \/ pc' = "scan"
           \/ pc' = "refused"
        /\ UNCHANGED <<source, i, line, column, tokens, j, stack, expect, error, config, var>>

\* A value has no place of its own: bootable_value_parse sets none.
ValuePlace == Place(1, 1)

KeyPlace(v) == Place(v.key.line, v.key.column)

\* Where a variable is refused: names that no handler knows have a place.
PlaceOfField(partition) ==
  LET field == partition.items[FirstOf({n \in DOMAIN partition.items : ~FieldTaken(partition.items[n])})]
  IN IF IsField(field) THEN ValuePlace ELSE KeyPlace(field)
RefusedAt(v) ==
  IF v.key.id \notin {<<id>> : id \in Keys} THEN KeyPlace(v)
  ELSE IF ~(Is(v, "partitions") /\ v.value.type = "list") THEN ValuePlace
  ELSE LET bad == v.value.items[FirstOf(BadItems(v.value))]
       IN IF bad.type = "object" THEN PlaceOfField(bad) ELSE ValuePlace

Vars == stack[1].items

HandleVar == /\ pc = "handle" /\ var <= Len(Vars)
             /\ LET v == Vars[var]
                IN \/ /\ Taken(v)
                      /\ config' = Set(config, v)
                      /\ var' = var + 1
                      /\ UNCHANGED <<pc, error>>
                   \/ /\ ~Taken(v)
                      /\ config' = IF Is(v, "partitions") /\ v.value.type = "list"
                                   THEN Set(config, v) ELSE config
                      /\ error' = RefusedAt(v)
                      /\ pc' = "refused"
                      /\ UNCHANGED var
             /\ UNCHANGED <<scannerVars, j, stack, expect>>

WithDefaults(c) ==
  [c EXCEPT !.bootsector = IF @ = NotGiven THEN <<"mbr">> ELSE @,
            !.partition_scheme = IF @ = NoScheme THEN <<"gpt">> ELSE @]

\* Mutant: no kernel is asked for.
IsBootableWithout(c) == c.fs_loader => c.bootsector = <<"mbr">>
IsBootable(c) == IF c.fs_loader THEN c.bootsector = <<"mbr">> ELSE c.kernel_path # NotGiven

\* validate_vars: without an architecture nothing is set any more.
Validate == /\ pc = "handle" /\ var > Len(Vars)
            /\ config' = IF config.arch = NotGiven THEN config ELSE WithDefaults(config)
            /\ pc' = IF config.arch # NotGiven /\ IsBootable(WithDefaults(config))
                     THEN "accepted" ELSE "refused"
            /\ UNCHANGED <<scannerVars, j, stack, expect, error, var>>

IsOver == pc \in {"accepted", "syntax error", "refused"}

\* The next process loads the file again.
Again == /\ IsOver
         /\ pc' = "load" /\ UNCHANGED source
         /\ i' = 1 /\ line' = 1 /\ column' = 1 /\ tokens' = <<>>
         /\ j' = 1 /\ stack' = <<Open("file")>> /\ expect' = "key" /\ error' = NoPlace
         /\ config' = InitConfig /\ var' = 1

LoadStep == \/ Load \/ HandleVar \/ Validate
            \/ (ScanToken \/ EndScan) /\ UNCHANGED <<j, stack, expect, error, config, var>>
            \/ ParseStep /\ UNCHANGED <<config, var>>

Next == LoadStep \/ Again

\* A load that has begun goes on.
Spec == Init /\ [][Next]_configVars /\ WF_configVars(LoadStep)

(* -- What a command relies on ---------------------------------------------- *)

\* Type invariant: the loops of the scanner, the parser and the handlers stay
\* inside what they go through.
TypeOK ==
  /\ pc \in {"load", "scan", "parse", "handle", "accepted", "syntax error", "refused"}
  /\ i \in 1..(Len(source) + 1) /\ line >= 1 /\ column >= 1
  /\ Len(tokens) <= Len(source) + 1
  /\ j \in 1..(IF IsScanned THEN Len(tokens) ELSE 1)
  /\ Len(stack) \in 1..(Len(tokens) + 1) /\ stack[1].kind = "file"
  /\ expect \in {"key", "colon", "value", "first", "separator"}
  /\ var \in 1..(Len(Vars) + 1)
  /\ config.disk_size \in 0..(Word - 1) /\ config.fs_size \in 0..(Word - 1)

\* What a variable is in the end is what the last one of that name says, or the
\* default, wherever in the file it stands; the lists of partitions add up.
LastOfName(id) == {n \in DOMAIN Vars : Is(Vars[n], id) /\ \A m \in (n + 1)..Len(Vars) : ~Is(Vars[m], id)}
Default == WithDefaults(InitConfig)

LastOneCounts ==
  pc = "accepted" =>
    /\ \A id \in Keys \ {"partitions", "bootsector", "partition_scheme"} :
         config[id] = IF LastOfName(id) = {} THEN Default[id]
                      ELSE ValueOf(Vars[CHOOSE n \in LastOfName(id) : TRUE])
    /\ Len(config.partitions) =
         Cardinality(UNION {{<<n, m>> : m \in DOMAIN Vars[n].value.items} :
                              n \in {h \in DOMAIN Vars : Is(Vars[h], "partitions")}})

\* What init builds on: an accepted configuration has a partition table and
\* something to boot, the loader with the one boot sector that starts it, or a
\* kernel that was there.
SomethingToBoot ==
  pc = "accepted" => /\ config.arch = <<"x86_64">>
                     /\ config.partition_scheme = <<"gpt">>
                     /\ config.fs_loader => config.bootsector = <<"mbr">>
                     /\ ~config.fs_loader => config.kernel_path \in KernelFiles

\* Every file is accepted or refused in the end.
LoadsEnd == pc = "scan" ~> IsOver
=============================================================================
