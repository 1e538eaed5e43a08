# Bootable: a formal model

Bootable makes and edits bootable disk images: an `init` command lays out an
image (boot sector, GPT, two boot-loader stages or a kernel, a small file
system), and `ls`, `cat`, `mkdir` and `cp` work on the file system of an image
that exists. It is a single-threaded C program. What is hard about it is not
threads but *state that lives in two places* (a table in memory and twice on
the disk, a tree in memory and once on the disk), *calls whose result depends
on the calls before* (room for a partition, names in a directory), *loops that
move their own bounds* (the search for room, the normalizing of a path), and
*stopping half way* (a kill, a full disk or a failed read between any two of
the several hundred writes that save an image in place).

## Inventory

| Component | State it keeps | Operations | Interacts with | Correct when |
|---|---|---|---|---|
| GUID partition table (`core/gpt.c`) | two headers, two arrays of entries | format, set type / name / size, find unused, export, import | reads and writes a stream | partitions disjoint, clear of both table copies, no room lost; the copies agree; export over a table can be torn without losing the layout; what a torn first export leaves is sound as far as it goes; checksums right |
| Utility (`util/util.c`, `util/pure64.c`) | configuration, image file, `util.fs` | `init`, `ls`, `cat`, `mkdir`, `cp`: open, work, save | everything below | a refused command writes nothing; a killed one loses nothing that was saved before it began to write; boot data stay where sector 0 says |
| Boot sector and address packets (`core/mbr.c`, `dap.c`) | sector 0 | read, write | utility | lead to the stages, with the right sector counts |
| Partition stream (`core/partition.c`) | offset, size, position | read, write, set position | file system on one side, image on the other | stays in the partition |
| File system (`core/fs.c`, `dir.c`, `file.c`, `path.c`) | a tree of arrays | make dir / file, open dir / file, export, import | utility, partition stream | paths mean what they say; names unique; what is exported is what is imported; size field right |
| Host file streams (`util/fstream.c`, `core/stream.c`) | `FILE *` | open, zero, seek, read, write, close | all I/O | writes reach the image in order |
| Configuration language (`lang/*.c`) | tokens, variables, `struct bootable_config` | scan, parse, interpret, validate | utility | accepts the grammar; sizes exact; defaults as documented |
| Encodings, UUIDs, strings, errors, memory | none | pure functions | all | round trips |
| `util/rc.c`, tests, headers, build | none | | | |

Calls go downwards only and there are no callbacks but the stream functions.
The shared state is the image: each command is a process that starts from what
the last one left there. `PROJECT.json` lists every component with its status,
and under `hazards` the places where a mistake would be hard to find by test.

## Modules

| Module | Models |
|---|---|
| `Gpt` | the table in memory: `gpt.c` without I/O |
| `Allocator` | abstract: sectors given out from the lowest on, or refused when the disk is full |
| `GptAllocator` | `Gpt` implements `Allocator`: the refinement mapping |
| `GptProofs` | the theorems about `Gpt` |
| `GptImage` | `bootable_gpt_export` as its writes and `bootable_gpt_import`, on an image of sectors (extends `Gpt`) |
| `Util` | the commands as processes on that image (extends `GptImage`) |
| `UtilInvariant` | why an image stays usable: the inductive invariant of `Util`, by the place a script has come to |
| `ImageProofs` | what a write to one sector leaves of an image, and what the steps of an export do to the table on it |
| `UtilProofs` | what call a script has at which place, and the theorems about `Util` |
| `Namespace` | abstract: a set of paths, each a directory or a file with data |
| `FsTree` | the file system in memory, normalizing and walking step by step; it implements `Namespace` |
| `FsStream` | the file system exported and imported again (extends `FsTree`) |
| `FsTreeProofs` | the theorems about `FsTree` |
| `Scanner` | the text of a configuration into tokens with their places: `token.c`, `scanner.c` |
| `Syntax` | what tokens and values are to the parser and to the grammar |
| `Parser` | tokens into variables, a token a step: `parser.c`, `var.c` (extends `Scanner`, `Syntax`) |
| `Config` | loading a configuration: `config.c` (extends `Parser`) |
| `Grammar` | abstract: what a sequence of tokens can be read as (extends `Syntax`) |
| `Language` | what the parser makes of a file, held against the grammar (extends `Config`, `Grammar`) |
| `ConfigProofs` | the theorems about `Config` |
| `GrammarProofs` | the theorems of `Language`: the parser reads the grammar (extends `ConfigProofs`) |
| `HostFile` | a stream on a file of the host: `fstream.c` through `stream.c` |
| `PartitionStream` | streams on parts of a disk: `partition.c` (extends `HostFile`) |
| `Volume` | abstract: a medium of its own |
| `PartitionVolume` | every partition stream implements a `Volume`: the refinement mapping |
| `PartitionProofs` | the theorems about `PartitionStream` |
| `Encoding`, `Uuid` | numbers as bytes, and identifiers as text: `misc.c`, `uuid.c` |
| `Records` | header, entry and boot sector field by field and byte by byte: the reading and writing in `gpt.c`, `mbr.c`, `dap.c` (extends `Uuid`) |
| `Fields` | abstract: a record as fields with names |
| `RecordProofs` | the theorems about `Encoding` and `Records` |
| `MCGpt`, `MCGptApi`, `MCUtil`, `MCUtilDocs`, `MCFsTree`, `MCConfig`, `MCStreams`, `MCRecords` | constants for TLC, and, in `MCUtilDocs`, properties that comments state |

### Gpt

`primary_header`, `backup_header`, `primary_entries`, `backup_entries` are the
fields of `struct bootable_gpt`. One action is one call, except
`bootable_gpt_set_entry_size`: `SetEntrySize` is its head, `PassEntry` and
`MoveBehindEntry` are a round of its loop, `FinishSetEntrySize` is its tail;
`scan` holds its locals. 64-bit arithmetic wraps at `Word`. Header signature,
revision, sizes and the disk UUID are constants or unused and left out.

`Spec` lets a caller size only an entry behind all used ones, which is what
`write_gpt_partitions` does; `TableUsedAsSpecified`, checked on `Util`, shows
that every table the utility handles is used that way. `ApiSpec` lets any
entry be sized at any time, as the interface allows.

### GptImage

A sector is blank, a header with its two checksums, four entries, or something
that `Util` puts there. A CRC is the set of what was summed, empty while the
field is zero: collisions are left out. Each write of `bootable_gpt_export` is
one step: a header (with zero sums), an entry, then the four sums in the order
of `calculate_checksums`. The fields of one header or entry are written
together, and a loop over no entries writes none (`ToEntries`), so that the
backup header then goes where its entries would have begun
(`BehindBackupEntries`). A header that holds a sum already is summed with it
(`SumOverSum`).

`Import` reads the four parts as the code does, each found by the one before.
Nothing looks at a signature or a checksum, so it fails only where the image
ends (`CanImport`), and takes any sector for a header or for entries
(`HeaderAt`, `EntriesAt`): zeros are a header and entries of zeros
(`InitHeader`, `InitEntry`), and other bytes some header and some entry
(`RawHeader`, `RawEntry`, of which only `RawAssumption` is known).

### Util

A command is a *script* of calls, computed from the command line and the
configuration (`CreateDisk`; `OpenDisk`, `Work`, `SaveDisk`), and `place` and
`k` say how far it has come. One sector of data, one node of the file system's
stream, and one write of the table are each a step. `Interrupt` ends the
process after any of them: a kill, or an I/O error, after which the code
returns through its callers and exits without another write. The C library's
buffer delays writes but keeps them in order, because every seek flushes it,
so a kill leaves a prefix of the writes. Zeroing the image is a single step: a
partly zeroed image is a short one, with nothing on it.

What a killed `init` leaves is opened by the commands that follow. Before the
export has begun (`gpt.c:683`) sector 1 is zeros: the import takes sector 0,
zeros or boot code, for the backup header, and succeeds with an empty table
unless that leads behind the end of the image. A command without the file
system loader then succeeds and writes nothing, and one with it finds no file
system where entry 2 points, in sector 0. Between the first header and the
second (`gpt.c:683-703`) the primary header and the entries written so far are
good and the backup header is zeros. If entry 2 is among them the tree opens and
is saved in place, and the save goes on to write the zero backup header over
sector 0, puts sums into the blank sector of the backup header, and succeeds:
the image lists its files and does not boot. The model has all of this.

A tree is a set of nodes here, exported as one chunk for the root and one for
each node; `FsTree` and `FsStream` say what is in them. What is read of a torn
stream is an error or any tree. Every command reads the configuration anew and
may find another one than the image was made with (`made`): whether there is a
file system at all is believed from it. A partition name of the configuration is
read after `bootable_config_load` has freed the text it points into, so `Util`
lets it be any name. `layout`, `made`, `saved`, `unsaved` and `changed` are history
variables.

### FsTree and FsStream

`nodes` holds files and directories in the order they were made; the `subdirs`
and `files` arrays of a directory are its nodes of either kind, in that order.
`Begin` parses a path (components that are empty disappear); `PassName`,
`DropDot`, `Climb`, `ClimbAtRoot` are rounds of `bootable_path_normalize`,
which works in place; `WalkDown` and `WalkFails` are rounds of the four walks;
`Add`, `OpenDir`, `OpenFile` end a call, and `FillFile` is what `cp` does with
the file it has opened. `Spec` asks for paths that do not climb out of the root
with names behind: there the code reads freed memory (`AnyPathSpec`, run
`fs_climb`). `Reopen` is a save followed by the next command's import, through
`Exported` and `Imported`, which are the recursions of `dir.c`.

### Scanner, Parser, Config and Grammar

A source is a sequence of symbols, in which a word is one symbol and one
column, so that the lines and columns that tokens and messages carry can be
held against the text. `ScanToken` is a round of `bootable_tokenbuf_parse`,
with white space and comments rejected as `bootable_parser_parse` has it.

The functions of `var.c` call each other; `stack` holds the objects and lists
that are open, and each action takes, or looks at, one token: `Key`, `Colon`,
`Scalar`, `OpenBracket`, `First` (the look behind an opening bracket, after
which the index is put back), `Close`, `Separator`. `Grammar` says the same
declaratively, as the set of all readings of a sequence of tokens, so that
`ParsesTheGrammar`, in `Language`, also says that there is never more than one.
The grammar has the language as the code takes it: *any* token separates two
items. The readings of a sequence are a function computed from its last token
to its first, what begins at a place from what begins behind it, so that
theorems can be proved about them.

`HandleVar` is a round of the loop of `bootable_config_parse`, `Validate` is
`validate_vars`. A number is what `Numbers` says of a word, times its unit,
modulo `Word`. `Util` takes what `SomethingToBoot` promises of a configuration.

### HostFile, PartitionStream and PartitionVolume

`bytes`, `size` and `pos` are the host's file and the one position all its
users share. A call is one action, except `bootable_fstream_zero`, whose loop
is `BeginZero`, `ZeroBuffer` and `ZeroRest`; a transfer may stop after any of
its bytes. A partition stream seeks before each transfer and moves its own
position before it knows how the transfer ends (`MoveOn`). Its callers stay
inside it here, and the direct user (the table's reader and writer) keeps off
open partitions: that the code checks neither is the subject of
`session_bounds`. `Volume` says what a stream is worth then, and
`EachIsPrivate` is `Private(s)!Spec` for every stream at once.

### Encoding, Uuid and Records

A record is a sequence of fields, one sequence for reading it and one for
writing it, each as its function has them; `ReadField` and `WriteField` are one
`decode_` or `encode_` call, where the stream stands. `PutAt` writes the
checksums at the places `gpt.c` has as numbers. `FormatHeader`, `SetDiskUuid`, `SetEntryType`
and `UpdateMbr` are what happens to the structures in between. `Fields` knows
names only, so `ImplementsFields` says that the two sequences, the widths and
those numbers agree, whatever is cut off where. A byte has `Base` values and a
digit of an identifier `Radix`. The checksum is any function of the bytes.

## Runs

| Run | Shows |
|---|---|
| `gpt_layout` | On two disks, one with no room at all and one with four sectors and a ragged end, for sizes zero, a sector and a byte, three sectors and nearly 2^64: partitions are disjoint, clear of the tables and packed, copies agree, and `Gpt` implements `Allocator`. `IInv`, the invariant of the proofs, holds. |
| `gpt_order` (violation) | `gpt.h` says set_entry_size finds the appropriate space; out of ascending order it can hand out sectors twice. |
| `session` | Any number of commands, each with any of three configurations and killed anywhere, also on what a killed `init` has left: once an `init` has ended, the layout, both stages and the last tree survive, also the commands whose configuration is not the image's; refused commands write nothing; checksums are complete after success and never stale; the table is used in the order the proofs assume; commands end. `UtilInv`, the invariant of the proofs, holds. |
| `session_bounds` (violation) | A grown file system is written behind its partition. |
| `session_count` (violation) | With a kernel, sector 0 holds the sector count of `fs-loader.sys`. |
| `session_saved` (violation) | Without the loader, `mkdir` succeeds and nothing is saved. |
| `fs_tree` | Normalizing keeps meaning, the walk is where the names lead, names are unique, answers are those of `Namespace`, also across save and import, and calls end. |
| `fs_climb` (violation) | `path.h` says the root is left over when ".." climbs too far. |
| `fs_size` (violation) | The size field leaves out directory names. |
| `config` | Some six thousand files: tokens are where they say and nothing between them is lost; the parser accepts what the grammar reads, in its only reading, and stops at the first token that cannot be right; the last value of a name counts; what is accepted has something to boot; every load ends. |
| `streams` | Two partition streams that touch and direct use of the disk, in any order, with failures half way: each stream is a medium of its own, and zeroing by buffers clears exactly what it was asked to. |
| `records` | A header, an entry or a boot sector, written and read again and again, with one writing cut off anywhere: every name is read where it is written, a header that has been written verifies, the boot code stays, a sector count fits its field, and an entry is of the type it was given under every spelling of it and under no other. |

Every property of a passing run has a mutant of the model, listed in
`PROJECT.json`, that TLC finds violating it.

### Bounds, and why they are enough

* `EntryCount = 4`: the arrays fill one sector, the least with which sector and
  entry arithmetic differ; the utility uses three fixed entries, the fourth is
  where partitions of the configuration go. The proofs cover every multiple of 4.
* `Word = 16384` keeps wrapping within reach: `Word - SectorSize` is a size
  that no disk has room for.
* Disks of 7 to 12 sectors: full, exactly fitting, and one sector too small all
  occur. `TooSmall` makes `init` fail half way, with the stages written and no
  table, and a kill during the export makes all the images with a part of one.
* `MCRawHeader` leads inside the image and `MCRawEntry` behind its end: boot
  code is read as a header whenever sector 1 is zeros, and as entries whenever
  the backup header is.
* `MCUtilSpec` leaves out commands other than `init` with `TooSmall`, which
  differs from another configuration in the size of the disk only (nothing but
  `init` reads that), and arguments but for one node and for one that is new
  followed by one that is there: other pairs fail or succeed as one node does. On
  images that no `init` has finished, the arguments are nothing or one new node
  (`HalfMadeArgs`), and once sector 0 has been written over, nodes are not made
  any more (`ls` still saves); the theorems have no such bounds.
* One name for the partitions of `session`, as no code looks at names: that
  `LayoutSurvives` holds whatever name has been read is part of the theorem, for
  any set of names.
* Two nodes and two arguments for `mkdir`: an argument that fails after one
  that succeeded, and trees that grow. Images torn by one command are opened,
  and torn again, by the next: nothing bounds the number of commands.
* `FsTree`: three nodes are nesting and both kinds of sibling; paths are all
  those of two components and 14 of three, chosen so that something is resolved
  in front of, between and behind names. Two names are new, equal, or equal to
  one of the other kind.
* `config`: every text of up to four of eight symbols that the scanner tells
  apart, which closes quotes over lines, comments in quotes and quotes in
  comments; every sequence of up to three tokens in a list, closed or not, and
  as the value of a partition's field, which nests three deep; every file of up
  to two of twelve variables with nothing, an architecture, or that and a kernel
  in front. One variable more than two changes no more than a second does:
  handlers see one at a time.

* `streams`: four bytes, partitions of one and of two of them, two values of a
  byte, buffers of two: transfers of nothing, to the end and past a border,
  zeroing of less than, of exactly and of more than a buffer.
* `records`: nine values of a byte make the digits of an identifier ternary and
  a 16-bit number end at 80, so that a stage of 82 sectors is cut; code, names
  and the rest of the sector are short, as no field looks into another. The two
  headers differ in every field. `MaxCuts = 1`: what a cut leaves behind is
  read and written again without bound.

### Fairness

`Util` assumes `WF(CommandStep)`, `FsTree` `WF(CallStep)` and `Config`
`WF(LoadStep)`: a process that is
not killed goes on with the command it runs. The program waits for nothing but
its own reads and writes, so it is always able to. No fairness is assumed of
`Start`, `Interrupt` or `Begin`: nothing need happen.

## Proofs

`GptProofs` proves that `Spec` implies the invariants of `gpt_layout`, and that
each step of `Gpt` is a step of `Allocator` or a stutter, for every instance
that meets the assumptions of `Gpt` and `GptAllocator`: an entry count divisible
by four, any word size that is a multiple of the sector size, any set of disk sizes of at least one sector more than
`BOOTABLE_GPT_MINIMUM_SIZE` (`RoomAssumption`), and any set of partition sizes
that do not wrap when rounded up to sectors (`NoWrapAssumption`).

None of the properties is inductive. What makes them so is the loop of
`set_entry_size`, which looks at entries in index order and not in the order of
their sectors. `IInv` adds what the calling order brings about: used entries
ascend with their index, the first begins at `first_usable_lba`, each next one
follows on the one before (so a candidate that has passed entry *i* stands
right behind it), and `ScanBehindPassed`, that everything in front of the
candidate is taken by entries it has passed. With it `FinishSetEntrySize`
hands out exactly the least free sectors. Without the calling order the
theorems are false, as `gpt_order` shows.

`UtilProofs` proves the safety properties of the run `session` for every
image, configuration, tree and argument: `LayoutSurvives`, `ChecksumsComplete`,
`NoStaleChecksum`, `StagesIntact`, `TreeSurvives`, `UtilTypeOK`, and the action
properties `AllOrNothing` and `TableUsedAsSpecified`. None is inductive: whether
a kill is harmless depends on what the process that was killed had in memory,
and that on how far its script had come. `UtilInv` says so place by place:

* `ControlInv` and `MemoryInv`: where a command is, and what is in memory there:
  nothing, the table that the image holds (when a tree is read, and again from
  the second import on, `Saving`), or the table `init` is making, which then
  satisfies `IInv` and has the partitions of the stages so far (`Granted`).
* `ImageInv`: what can be read of an image, which is something of every image.
  Without a primary header its table is empty. With a primary header and no
  backup one it is half made, and sound as far as it goes (`PrimarySound`): the
  header is one that `format` computes, the entries that are there are
  partitions that `init` may have made, and the place of the backup header holds
  zeros, perhaps with sums of them (`NoBackup`). With both (`IsWhole`) it is a
  table that `init` may have made (`TableSound`), with a boot sector in front,
  and carries no wrong sum.
* `LayoutInv`: after an `init` that has ended, the table is whole and the
  promised one, sector 0 leads to the stages, and the tree is there unless
  another one has been begun.
* `MakingInv`: what `init` has filled by each place, and that there is nothing of
  a table before the last call (`NoTable`). `FreshExport`: a new table is half
  made from its primary header on, with the entries written so far and zeros
  behind them, and whole with the last of its parts and not before.
* `UsingInv`: another command has changed nothing until it saves, and saves over
  the table it has read. On a whole image every part it writes is what is there
  already (`Rewriting`), but for the sums, which are zeroed with the headers and
  come back one by one (`SumsSoFar`). On a half-made one (`HalfMade`,
  `HalfExporting` in `ImageProofs`) that is so of the primary table; the backup
  header is zeros and goes to sector 0, and the sums are those of whatever is
  there. The image stays half made (`HalfKept`): no later command but `init`
  makes it pass for a whole one.

The argument has three layers. The first part of `UtilProofs` computes the
scripts: which call comes where, for any number of arguments and of chunks of
data (`MakingCall`, `UsingCall`). `ImageProofs` has the table on the image: each of the eight kinds
of write an export consists of, over a blank image, over the same table and over
a half-made one, and that the sectors of a partition are none of the table's. The rest of `UtilProofs` has a lemma
for each call, which combines the two, and `UtilNextInv` puts them together;
`IInv` is carried along by the lemmas of `GptProofs`.

What is assumed, beyond what `Gpt` assumes (`UtilInvariant` names each):
`StagesFitAssumption`, bootable.sys fits the 4096 bytes (`BOOTABLE_SIZE`,
`util.c:41`) its entry is made for and the 16 bits of its sector count;
`TypesAreUuidsAssumption`, the types `util.c` gives partitions parse;
`WholeSectorsAssumption`, the size read back from an image, in whole sectors, is
a size an image may have; `RawAssumption` (`GptImage`), any bytes are some header
and some entry; and `FsFitsAssumption`, a partition for a file system
holds any tree that can be made. The code does *not* see to the last one, and
without it the theorems are false: the tree would run over the backup table, as
the run `session_bounds` shows. Of what
`Util` models, nothing else loses an image whose `init` has ended: the theorems
hold for every kill and every order of commands. Of an image whose `init` was
killed they say less, that what is read of it has its types (`UtilTypeCorrect`)
and that it is as sound as `ImageInv` has it (`UtilInvariance`). That sector 0 counts the sectors of `fs-loader.sys` for a
kernel (`session_count`) is no part of what is proved: `StagesIntact` asks for
the first sector of stage three and for its contents.

`FsTreeProofs` proves, for every set of names, paths and data and any number of
nodes, that the tree is well-formed and names stay unique (`TreeTypeCorrect`,
`NamesStayUnique`: whatever paths are asked for, climbing or not), that
normalizing keeps what a path means (`NormalizingKeepsMeaning`), that a walk is
where its names lead (`WalkLeadsRight`), and that `FsTree` implements
`Namespace` (`FsTreeImplementsNamespace`). The invariants build on each other:

* `TypeInv`: each node has a parent that is the root or a directory made before
  it; a call that runs has a path, and an idle one none.
* `NamesInv` adds that no two nodes share parent and name. An add is the only
  step that makes two nodes siblings, and it looks among files *and*
  subdirectories, so among all nodes, first; `cp` fills a file but moves nothing.
* `MeaningInv` adds that the path being normalized means what was asked, that it
  is plain up to the index, and that what is left of it does *not* climb out of
  the root. The last part is what makes it inductive: `ClimbAtRoot` frees a name
  without moving the others, which is right only when nothing follows, and
  removing `.` or a name and its `..` could otherwise bring a `..` to the front.
  Without it the theorem is false, as the run `fs_climb` shows.
* `WalkInv` adds that the names passed so far are the path of `dir`.

For the refinement a path stands for at most one node (`PathsDiffer`, from
`NamesInv`), a prefix of a node's path is the path of a directory
(`PrefixIsDir`), and adding or filling a node changes the contents at one path
(`AddedContents`, `FilledContents`). So the walk fails exactly where the promise
has no directory (`FailedPrefix`), and its last name is looked up among the same
names (`AtLastName`).

What a path means, what is parsed of it and the path of a node are recursive
functions, and the library's induction theorems take an operator, which the
provers here cannot instantiate. The first part of `FsTreeProofs` does without:
that a set of numbers that is not empty has a least one (`Least`) follows from
the library's theorem that strict inclusion of finite sets is well-founded,
which speaks of a set; from it, that two functions which follow the same
recursion agree (`SameRecursion`), and that the functions defined recursively in
the model do follow theirs (`Recursion`).

Assumed are `NamesAssumption` (no name is `.`, `..`, empty or what a freed name
reads as), `PathsAssumption`, `BoundAssumption`, and `DataAssumption`, that what
a file contains is not the mark that stands for a directory.

`ConfigProofs` proves for every vocabulary, every set of sources, however long,
and every set of numbers, units and kernel files, that a load keeps its types
(`LoadTypeCorrect`), that tokens are where they say (`PositionsAlwaysRight`) and
that nothing between them is lost (`NothingEverLost`), that the last value of a
name counts (`LastAlwaysCounts`), and that what is accepted can be booted
(`AlwaysSomethingToBoot`). `ConfigInv` has four parts:

* `ScanInv`: what is in front of the scanner's place has been read as the tokens
  there are (`IsRead`). Each token is at the only place that has its line and
  column, and between the tokens is what may be skipped. The scanner's own line
  and column are those of its place; a lexeme moves them right (`MovedRight`)
  although the code only looks at its newlines, and no two places share both
  (`PlacesDiffer`): that is what makes the line and column of a token say where
  it is.
* `PhaseInv`: the phases there are, and which of them have all the tokens.
* `ParseInv`: the stack is a file with objects and lists in it, no deeper than
  tokens have been passed, and only the last token is the end.
* `HandleInv`: each setting is what the last of its name among the variables
  handled so far says, and the partitions are as many as the items of all lists
  among them (`Reflects`); after `validate_vars`, that with the defaults
  (`Accepted`).

Assumed are `WordsAssumption` and `SourcesAssumption` (a source is words and
other symbols, and two words do not touch), `WordAssumption` (the default size
of a disk fits an integer), `NumbersAssumption` and `UnitsAssumption` (a number
fits an integer and has one of the units the code knows).

`GrammarProofs` proves under the same assumptions that the parser of `var.c`
reads the grammar: what it accepts has one reading, which is what it has read,
and what it refuses has none (`GrammarAlwaysParsed`); and that it stops at the
first token that cannot be right (`FirstErrorAlwaysFound`). Neither is inductive,
as both speak of files that are read to their end. The argument:

* The readings are what the rules of the grammar give of them (`ReadingsFixed`,
  from the end of the tokens to their beginning), so each rule can be used as an
  equivalence: `SomeRule` for items, `RestRule` for what follows, `ValueRule`.
* What the parser has open can be completed by the tokens from a place on, with
  some result (`Leads`): each frame of the stack ends somewhere (`Ends`), and
  becomes a value of the frame around it, which ends later (`Linked`). One lemma
  for each step of the parser says that taking a token changes none of this
  (`KeyLeads`, `ScalarLeads`, `OpenLeads`, `CloseLeads`...). At the beginning
  `Leads` gives the readings of the file (`StartLeads`), and at its end what has
  been read and nothing else (`EndLeads`): that is why there is only one reading.
* `GrammarInv` has two halves. `Sound`: *whatever* tokens follow those that have
  been taken, what completes the file is a reading of it. `Complete`: each
  reading of the file there is can still be reached. Where the parser fails
  nothing completes the file (`NoneLeads`), so there was no reading. One state is
  neither: at the end of the file the code takes the end for a separator and
  looks for an item there (`IsStuck`), which is sound behind a separator only.
  `Sound` is about all sequences of tokens, so TLC checks what follows from the
  invariant (run `config`) and not the invariant itself.
* For the place of an error `Sound` is used with tokens the file does not have:
  a missing item and the brackets that are open complete it (`CanComplete`), so
  what is in front of the place begins a file.

`PartitionProofs` proves for any number of streams, of any places and lengths
that do not overlap (`ApartAssumption`, which is what `PartitionsDisjoint`
gives), that each implements `Volume`. `StreamInv` adds to the types that a
running `bootable_fstream_zero` stays off all open partitions (`ZeroKeepsOff`):
its buffers are written by steps that know nothing of them. `ZeroingIsExact`
says what such a call has done when it succeeds, for buffers of any size:
`ZeroInv` has, while the loop runs, a file that is what it was but for as many
zeroed bytes as the loop has counted, and the position behind them.

`RecordProofs` proves, for any number of values of a byte and of digits of an
identifier, for code, names and sectors of any length, and for every header,
identifier, type and stage:

* Numbers. Bytes that are decoded and encoded again come back, and so do
  numbers that fit (`BytesComeBack`, `NumbersComeBack`).
* `BootSectorAlwaysKept`: `update_mbr_gpt` changes nothing of the boot sector
  but the sectors and counts of the stages. `BootInv` says where the stream
  stands at each field, and that what memory holds of a field encodes to the
  bytes on the disk (`Holds`) while the field is still to be written: writing
  it, or any part of it, changes nothing.
* `RecordTypeCorrect` and `HeadersVerify`. `RecordInv` (`RecordInvariance`) is
  about all three kinds of record: `DoingOK` says that the stream stands at the
  field that is next, that the fields before it are in memory while a record is
  read and all of them are when it is written, and `MemoryOK` that each fits its
  field; `SumsOK` that the checksum of a header is zero from when its field has
  been written until it is put in, which is what it is computed over, and that
  the sum of the entries is in before. Types fit because a string that parses
  leaves sixteen bytes, whatever the stack held (`ParsedBytes`).
* `RecordsImplementFields`: the refinement. What is stored under a name is what
  the bytes at its place say (`StoredAt`); fields follow on each other and do
  not touch (`FieldsFollow`, `FieldsApart`), so a transfer changes what is
  stored under one name only (`FieldWritten`), and one that is cut off changes
  no other (`FieldCut`).
* `TypesAreFound`. `TypedInv` says that the type a known string was given is in
  memory from when it is set or read until it is written, and on the disk but
  while it is about to be written. A complete string fills each byte from its
  pair of digits (`FillsPairs`, by going through the loop of
  `bootable_uuid_parse` from the end of the string), so two of them give the same bytes
  if and only if their digits agree (`SameDigits`), and the bytes are the
  numbers that the digits write (`CompleteDenotes`).

Assumed are `SizesAssumption` (a header's fields are within a sector),
`FoundAssumption` (a sector or entry is bytes), `HeadersAssumption`,
`StagesAssumption`, `UuidsAssumption` and `SumsAssumption` (what the program puts into a structure fits
its fields), `LiteralsAssumption` (what `bootable_gpt_header_export` writes of
its own is for a header), and `RadixAssumption`, two digits make a byte. That
`crc32` gives 32 bits is a hypothesis of the theorems, `CrcFits`, and no
assumption of the model, as TLC could not go through all sequences of bytes.

Only model-checked: liveness (`CommandsEnd`, `CallsEnd`, `LoadsEnd`), which is
beyond the provers here; the round trip of `FsStream`, that what is exported and
imported again is the same tree: the run `fs_tree` takes it as a step (`Reopen`),
and the theorems are about the tree within one command.

## Not modelled

* Options, and messages but for the places they point to; the bits of CRC-32;
  the random or given UUID of a disk or entry, of which only bytes are kept.
* What a stream does to a caller that goes past its end, in `PartitionStream`:
  `session_bounds` shows it.
* Failed allocations while a configuration is read, signs in front of numbers,
  and `bootable_key_parse_s`, which only a test calls. That messages about a
  value point at 1:1 is modelled (`ValuePlace`) and nothing is asked of it.
* Failed allocations in the tree and in commands; in `Gpt` only those of format.
* The flat partition scheme: `validate_vars` replaces "none" by GPT
  (`config.c:674`), so it is not reached.
* The host: sizes of 2^63 and more, and a flush that fails at `fclose`.
* `bootable_mbr_check`, which nothing calls.
* That two partitions of the configuration share one entry is in `Util`, and
  that the two copies of the table overlap on a disk of exactly
  `BOOTABLE_GPT_MINIMUM_SIZE` follows from `TablesApart` and its assumption
  (`RoomAssumption`); neither has a run of its own.

## Plan

1. Done: `Gpt` with `Allocator` and its proofs; `GptImage`, `Util`; `Namespace`,
   `FsTree` with its proof, `FsStream`.
2. Done: `Scanner`, `Parser`, `Config` and their invariants; `Grammar`,
   `Language`, and that the parser reads the grammar.
3. Done: `HostFile`, `PartitionStream` and `Volume`, `Encoding`, `Uuid`,
   `Records` and `Fields`, with their proofs; a configuration for each command.
4. Done: the invariant of `Util` and the theorems that follow from it, with
   those about the writes of `GptImage` they rest on.
5. Done: the invariants of `Records`, its refinement of `Fields`, the types of
   entries, and the zeroing of `HostFile`.
6. Done: the invariants of `FsTree` and its refinement of `Namespace`.
7. The round trip of `FsStream`.
