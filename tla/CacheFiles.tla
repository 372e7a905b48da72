------------------------------ MODULE CacheFiles ------------------------------
(***************************************************************************)
(* Reading the game's cache (wfcompanion inspect/cache.rs): the tables of  *)
(* a package are parsed into entries, the entries a command asks for are   *)
(* unpacked block by block, and a search walks through what came out.      *)
(*                                                                         *)
(* The files are whatever they are: each row of a table, each block and    *)
(* each run of a compressed block is chosen when it is read.  Oodle is a   *)
(* library outside of the program; numbers and names are well formed or a  *)
(* row is broken.                                                          *)
(***************************************************************************)
EXTENDS EvidenceConstants, Naturals, Sequences, FiniteSets, FiniteSetsExt

VARIABLES options,     \* the command, and what it selects
          stage,       \* "table", "next", "block", "run", "match" or how it ended
          split,       \* the table that is read
          table,       \* its rows
          directories, \* parse_toc
          files,
          queue,       \* the entries selected
          selected,    \* how many there were
          declared,    \* the size of the resource
          output,      \* what is unpacked of it
          block,       \* the compressed block: [bytes, runs, last]
          found,       \* offsets emitted for it
          summary

cacheVars == <<options, stage, split, table, directories, files, queue, selected, declared,
               output, block, found, summary>>
toc  == <<split, table, directories, files, selected>>
Ends == {"done", "failed"}

Splits == <<"H", "B", "F">>
Names  == {"a", "b"}
Bytes  == {1, 2}
Needle == <<1, 1>>
Text(n) == [1..n -> Bytes]
NoBlock == [bytes |-> <<>>, runs |-> <<>>, last |-> FALSE]

---------------------------------------------------------------------------
(* entries and parse_toc                                                   *)

Joined(parent, name) == Append(directories[parent], name)

\* A path that comes again takes the place of the earlier one.
Filed(entry) ==
    IF \E i \in DOMAIN files : files[i].split = entry.split /\ files[i].path = entry.path
    THEN [i \in DOMAIN files |->
            IF files[i].split = entry.split /\ files[i].path = entry.path THEN entry ELSE files[i]]
    ELSE Append(files, entry)

Row ==
    /\ stage = "table" /\ Len(table) < MaxRows
    /\ \E kind \in {"file", "directory", "unnamed"}, parent \in 1..Len(directories), name \in Names :
         LET row == [split |-> split, path |-> Joined(parent, name), at |-> Len(table) + 1]
         IN  /\ table' = Append(table, [kind |-> kind, split |-> split, path |-> row.path])
             /\ files' = IF kind = "file" THEN Filed(row) ELSE files
             /\ directories' = IF kind = "directory" THEN Append(directories, row.path) ELSE directories
    /\ UNCHANGED <<options, stage, split, queue, selected, declared, output, block, found, summary>>

\* The directory is not there, a number is negative, a name is no name.
BrokenRow ==
    /\ stage = "table" /\ Len(table) < MaxRows /\ stage' = "failed"
    /\ UNCHANGED <<toc, options, queue, declared, output, block, found, summary>>

Wanted(entry) ==
    /\ options.split \in {0, entry.split}
    /\ options.name = "any" \/ \E i \in DOMAIN entry.path : entry.path[i] = options.name

\* The table of a split ends; after the last one the command selects.
TableEnds ==
    /\ stage = "table"
    /\ IF split < Len(Splits)
       THEN /\ split' = split + 1 /\ directories' = << <<>> >>
            /\ UNCHANGED <<stage, table, files, queue, selected>>
       ELSE LET chosen == SelectSeq(files, Wanted) IN
            /\ stage' = IF files = <<>> \/ (chosen = <<>> /\ options.command = "read")
                        THEN "failed" ELSE "next"
            /\ queue' = chosen /\ selected' = Len(chosen)
            /\ table' = <<>> /\ files' = <<>> /\ directories' = <<>>
            /\ UNCHANGED split
    /\ UNCHANGED <<options, declared, output, block, found, summary>>

---------------------------------------------------------------------------
(* Decoder::read                                                           *)

\* A resource that is not read is an error of a search, the end of it unless it goes on;
\* a visitor is told; the other commands fail.
Unread ==
    /\ output' = <<>> /\ block' = NoBlock
    /\ IF options.command = "search"
       THEN /\ summary' = [summary EXCEPT !.resources = @ + 1, !.errors = @ + 1, !.truncated = TRUE]
            /\ stage' = IF options.continue THEN "next" ELSE "done"
       ELSE /\ summary' = [summary EXCEPT !.errors = @ + 1]
            /\ stage' = IF options.command = "visit" THEN "next" ELSE "failed"

Loaded(bytes) ==
    /\ output' = bytes /\ block' = NoBlock
    /\ IF options.command = "search"
       THEN stage' = "match" /\ summary' = [summary EXCEPT !.resources = @ + 1]
       ELSE stage' = "next" /\ summary' = [summary EXCEPT !.resources = @ + 1]

TooLarge(size) == options.command # "read" /\ size > MaxResourceBytes

\* The next entry: too large, not to be opened, stored as it is, or packed.
TakeNext ==
    /\ stage = "next" /\ queue # <<>> /\ queue' = Tail(queue)
    /\ found' = {}
    /\ \E size \in 1..MaxSize :
         /\ declared' = size
         /\ \/ Unread
            \/ ~TooLarge(size) /\ \E bytes \in Text(size) : Loaded(bytes)
            \/ ~TooLarge(size) /\ stage' = "block" /\ output' = <<>> /\ UNCHANGED <<block, summary>>
    /\ UNCHANGED <<toc, options>>

\* A block is done: a block without a header was all of it.
Unpacked(bytes, last) ==
    LET whole == output \o bytes IN
    IF last \/ Len(whole) >= declared
    THEN IF Len(whole) = declared THEN Loaded(whole) ELSE Unread
    ELSE stage' = "block" /\ output' = whole /\ block' = NoBlock /\ UNCHANGED summary

\* A header gives the size of its block; without one the block is as large as the resource.
\* Past the declared size, damaged or oversized, it ends the resource.
TakeBlock ==
    /\ stage = "block"
    /\ \E size \in 0..MaxSize, last \in BOOLEAN :
         /\ last => size = declared
         /\ IF Len(output) + size > declared THEN Unread
            ELSE \/ Unread
                 \/ \E bytes \in Text(size) : Unpacked(bytes, last)
                 \/ /\ stage' = "run" /\ UNCHANGED <<output, summary>>
                    /\ block' = [bytes |-> [i \in 1..size |-> 0], runs |-> <<>>, last |-> last]
    /\ UNCHANGED <<toc, options, queue, declared, found>>

(* lzf_decompress: literal runs, and matches of at least three bytes that  *)
(* are copied from what is already there, byte after byte, so that a match *)
(* may reach into itself.                                                  *)

Place == IF block.runs = <<>> THEN 0
         ELSE LET run == block.runs[Len(block.runs)] IN run.at + run.length

Literal(bytes) ==
    LET n == Len(bytes) IN
    /\ Place + n <= Len(block.bytes)
    /\ block' = [block EXCEPT
         !.bytes = [i \in DOMAIN @ |-> IF i \in Place + 1..Place + n THEN bytes[i - Place] ELSE @[i]],
         !.runs  = Append(@, [at |-> Place, length |-> n, distance |-> 0, bytes |-> bytes])]

CopiedAtOnce(distance, length) ==
    [i \in DOMAIN block.bytes |->
       IF i \in Place + 1..Place + length THEN block.bytes[i - distance] ELSE block.bytes[i]]
Copied(distance, length) ==
    LET copy[i \in DOMAIN block.bytes] ==
          IF i \in Place + 1..Place + length THEN copy[i - distance] ELSE block.bytes[i]
    IN  [i \in DOMAIN block.bytes |-> copy[i]]

Repeat(distance, length) ==
    /\ distance <= Place /\ Place + length <= Len(block.bytes)
    /\ block' = [block EXCEPT
         !.bytes = Copied(distance, length),
         !.runs  = Append(@, [at |-> Place, length |-> length, distance |-> distance, bytes |-> <<>>])]

TakeRun ==
    /\ stage = "run"
    /\ \/ /\ \/ \E n \in 1..MaxSize : \E bytes \in Text(n) : Literal(bytes)
             \/ \E distance \in 1..MaxSize, length \in 3..MaxSize : Repeat(distance, length)
          /\ UNCHANGED <<stage, output, summary>>
       \/ Unread
    /\ UNCHANGED <<toc, options, queue, declared, found>>

RunsEnd ==
    /\ stage = "run"
    /\ IF Place = Len(block.bytes) THEN Unpacked(block.bytes, block.last) ELSE Unread
    /\ UNCHANGED <<toc, options, queue, declared, found>>

---------------------------------------------------------------------------
(* search                                                                  *)

Occurs(at) ==
    /\ at + Len(Needle) <= Len(output)
    /\ \A i \in DOMAIN Needle : output[at + i] = Needle[i]
From == IF found = {} THEN 0 ELSE Max(found) + Len(Needle)

\* memmem::find_iter: the next occurrence past the end of the last one.
Ahead == {at \in From..Len(output) : Occurs(at)}

Match ==
    /\ stage = "match" /\ Ahead # {}
    /\ found' = found \cup {Min(Ahead)}
    /\ summary' = [summary EXCEPT !.matches = @ + 1, !.truncated = @ \/ summary.matches + 1 = MaxMatches]
    /\ stage' = IF summary.matches + 1 = MaxMatches THEN "done" ELSE stage
    /\ UNCHANGED <<toc, options, queue, declared, output, block>>

NoMoreMatches ==
    /\ stage = "match" /\ Ahead = {} /\ stage' = "next"
    /\ UNCHANGED <<toc, options, queue, declared, output, block, found, summary>>

Finish ==
    /\ stage = "next" /\ queue = <<>> /\ stage' = "done"
    /\ UNCHANGED <<toc, options, queue, declared, output, block, found, summary>>

CacheInit ==
    /\ options \in [command : {"search", "visit", "read"}, split : {0, 1}, name : {"any", "a"},
                    continue : BOOLEAN]
    /\ stage = "table" /\ split = 1 /\ table = <<>> /\ directories = << <<>> >> /\ files = <<>>
    /\ queue = <<>> /\ selected = 0 /\ declared = 0 /\ output = <<>> /\ block = NoBlock /\ found = {}
    /\ summary = [resources |-> 0, matches |-> 0, errors |-> 0, truncated |-> FALSE]

CacheNext ==
    \/ Row \/ BrokenRow \/ TableEnds \/ TakeNext \/ TakeBlock \/ TakeRun \/ RunsEnd
    \/ Match \/ NoMoreMatches \/ Finish

CacheSpec == CacheInit /\ [][CacheNext]_cacheVars

---------------------------------------------------------------------------
(* Properties                                                              *)

CacheTypeOK ==
    /\ stage \in {"table", "next", "block", "run", "match"} \cup Ends
    /\ declared \in 0..MaxSize /\ Len(output) <= MaxSize
    /\ Len(queue) + summary.resources <= selected
    /\ summary.matches <= MaxMatches

\* A path names one entry of a split, the one of its last row, and no row is lost.
OneEntryEach ==
    /\ \A i, j \in DOMAIN files :
         files[i].split = files[j].split /\ files[i].path = files[j].path => i = j
    /\ stage = "table" => \A r \in DOMAIN table : table[r].kind = "file" =>
         \E i \in DOMAIN files :
           /\ files[i].split = table[r].split /\ files[i].path = table[r].path
           /\ files[i].at >= r

\* What is unpacked is what was packed: literals stand where they were put, and each byte of
\* a match equals the one its distance before it, one of the same match included.
PackedIsUnpacked ==
    \A r \in DOMAIN block.runs : LET run == block.runs[r] IN
      \A i \in run.at + 1..run.at + run.length :
        block.bytes[i] = IF run.distance = 0 THEN run.bytes[i - run.at]
                         ELSE block.bytes[i - run.distance]

\* A search that does not call itself truncated has read every entry it selected, and in
\* each one each occurrence is emitted or overlaps one that is.
NothingUnsearched ==
    /\ stage = "next" => \A at \in 0..Len(output) :
         options.command = "search" /\ Occurs(at) =>
           \E f \in found : Occurs(f) /\ f <= at /\ at < f + Len(Needle)
    /\ stage = "done" /\ options.command = "search" /\ ~summary.truncated =>
         summary.resources = selected /\ summary.errors = 0

\* Tables with repeated paths, overlapping copies and overlapping occurrences do not make
\* a search of the cache lose or invent anything.
CacheIsSearched == OneEntryEach /\ PackedIsUnpacked /\ NothingUnsearched
=============================================================================
