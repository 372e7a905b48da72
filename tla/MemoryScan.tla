----------------------------- MODULE MemoryScan -----------------------------
(***************************************************************************)
(* The scans of the game's memory (wfcompanion game_observer/ui and        *)
(* inspect/memory.rs).  A range is read in chunks; a read may be short or  *)
(* fail, and what is looked for may lie across two of them.                *)
(*                                                                         *)
(* Four scans share the loop: the bytes of a term in two encodings         *)
(* ("terms"), the paths of movies ("paths"), aligned pointers ("cells"),   *)
(* and the inspector's query for bytes or for pointers ("query").  A cell  *)
(* of the model is a few bytes, Cell of them are a pointer, and the        *)
(* memory does not change while it is scanned.  A range of the game or of a *)
(* capture of whole pages begins at a page, one of a capture of chosen      *)
(* addresses, or one that is chosen for a query, begins anywhere.           *)
(***************************************************************************)
EXTENDS EvidenceConstants, Naturals, Sequences, SequencesExt

VARIABLES text,     \* what each range holds
          begins,   \* how far from an aligned address it begins
          job,      \* the scan: its mode and its needles
          range,    \* the range being read
          at,       \* the cells of it that were read
          tail,     \* the last cells of the previous windows
          matches,  \* what was found, as <<needle, range, first cell>>
          limited,  \* not everything was looked at, and the report says so
          examined, \* the cells read of each range
          over

scanVars == <<text, begins, job, range, at, tail, matches, limited, examined, over>>

Ranges == 1..Len(ScanLengths)
Symbols == {"a", "b"}

Term(cells)    == [kind |-> "bytes", cells |-> cells]
Pointer(cells) == [kind |-> "pointer", cells |-> cells]
Utf16(cells)   == FoldLeft(LAMBDA s, c : s \o <<c, "b">>, <<>>, cells)
Encodings(cells) == <<Term(cells), Term(Utf16(cells))>>

\* "/Lotus/Interface/", terminated within MaxPath cells.
Path    == [kind |-> "path", cells |-> <<"a">>]
MaxPath == 3

\* The pointers to what was found: aligned words, read window by window without a tail.
References == [mode |-> "references", needles |-> <<Pointer([i \in 1..Cell |-> "a"])>>]

Jobs == {[mode |-> "terms", needles |-> Encodings(t)] : t \in {<<"a">>, <<"a", "a">>}}
        \cup {[mode |-> "paths", needles |-> <<Path>>],
              [mode |-> "cells", needles |-> <<Pointer([i \in 1..Cell |-> "a"])>>],
              References,
              [mode |-> "query", needles |-> <<Pointer([i \in 1..Cell |-> "a"])>>],
              [mode |-> "query", needles |-> <<Term(<<"a", "b", "a">>)>>]}

---------------------------------------------------------------------------
(* Finding                                                                 *)

IsAt(needle, s, i) ==
    /\ i + Len(needle.cells) - 1 <= Len(s)
    /\ SubSeq(s, i, i + Len(needle.cells) - 1) = needle.cells
    /\ needle.kind = "path" =>
         \E n \in 1..(MaxPath - 1) : i + n <= Len(s) /\ s[i + n] = "b"

OverlapOfFirst ==
    IF job.mode = "paths" THEN MaxPath
    ELSE IF job.mode \in {"cells", "references"} THEN 0
    ELSE Len(job.needles[1].cells) - 1

\* The needle's width decides what a window leaves for the next one.
Overlap ==
    IF job.mode = "paths" THEN MaxPath
    ELSE IF job.mode \in {"cells", "references"} THEN 0
    ELSE Len(job.needles[Len(job.needles)].cells) - 1

\* Aligned is the address in memory, not the place in the range or in what was read of it.
Aligned(needle, r, i) == needle.kind = "pointer" => (begins[r] + i - 1) % Cell = 0

\* A search from the left goes on behind what it found; paths and pointers are
\* looked for at each place.
Hits(needle, s, base) ==
    LET from[i \in 1..(Len(s) + 1)] ==
          IF i > Len(s) THEN <<>>
          ELSE IF IsAt(needle, s, i) /\ Aligned(needle, range, base + i)
          THEN <<i>> \o from[IF needle.kind = "bytes" THEN i + Len(needle.cells) ELSE i + 1]
          ELSE from[i + 1]
    IN from[1]

Keep(seen, match) ==
    IF Contains(seen.matches, match) THEN seen
    ELSE IF Len(seen.matches) >= MatchLimit THEN [seen EXCEPT !.limited = TRUE]
    ELSE [seen EXCEPT !.matches = Append(@, match)]

\* The term's needles share one list, and a full list is called truncated
\* whether or not there is more.
KeepNeedle(seen, n, s, base) ==
    IF Len(seen.matches) >= MatchLimit THEN [seen EXCEPT !.limited = TRUE]
    ELSE FoldLeft(LAMBDA acc, i : Keep(acc, <<n, range, base + i>>),
                  seen, Hits(job.needles[n], s, base))

\* The others stop at the match that fills the list.
KeepUntilFull(seen, s, base) ==
    LET hits == Hits(job.needles[1], s, base)
        room == MatchLimit - Len(seen.matches)
        kept == SubSeq(hits, 1, IF Len(hits) < room THEN Len(hits) ELSE room)
    IN [matches |-> seen.matches
                      \o [k \in DOMAIN kept |-> <<1, range, base + kept[k]>>],
        limited |-> seen.limited \/ Len(hits) >= room]

\* A path map has one entry for an address, however often it is met; the references to
\* a text that was found are counted out in the same way.
KeepPaths(seen, s, base) ==
    FoldLeft(LAMBDA acc, i : Keep(acc, <<1, range, base + i>>),
             seen, Hits(job.needles[1], s, base))

Search(s, base) ==
    LET seen == [matches |-> matches, limited |-> limited] IN
    CASE job.mode = "terms" ->
           FoldLeft(LAMBDA acc, n : KeepNeedle(acc, n, s, base), seen, <<1, 2>>)
      [] job.mode \in {"paths", "references"} -> KeepPaths(seen, s, base)
      [] OTHER -> KeepUntilFull(seen, s, base)

---------------------------------------------------------------------------
(* The scan                                                                *)

Examined == examined[1] + (IF Len(examined) = 1 THEN 0 ELSE examined[2])

ScanInit ==
    /\ text \in {t \in [Ranges -> UNION {[1..n -> Symbols] : n \in {ScanLengths[r] : r \in Ranges}}] :
                   \A r \in Ranges : Len(t[r]) = ScanLengths[r]}
    /\ begins \in [Ranges -> 0..(Cell - 1)]
    /\ job \in Jobs
    /\ range = 1 /\ at = 0 /\ tail = <<>>
    /\ matches = <<>> /\ limited = FALSE
    /\ examined = [r \in Ranges |-> 0] /\ over = FALSE

Rest(s, n) == SubSeq(s, Len(s) - (IF n < Len(s) THEN n ELSE Len(s)) + 1, Len(s))

\* A range begins without a tail.
NextRange ==
    /\ tail' = <<>> /\ at' = 0
    /\ IF range = Len(ScanLengths) THEN over' = TRUE /\ UNCHANGED range
       ELSE range' = range + 1 /\ UNCHANGED over

Left == ScanLengths[range] - at
Allowed ==
    LET chunk == IF Left < Chunk THEN Left ELSE Chunk IN
    IF job.mode = "query" /\ ByteBudget - Examined < chunk
    THEN ByteBudget - Examined ELSE chunk

\* A query can choose any range of the game; for the other scans only a capture has ranges that
\* begin anywhere, and of a range of a capture every read gives what was asked for.
FromGame == job.mode = "query" \/ \A r \in Ranges : begins[r] = 0

\* A read gives what was asked for or falls short at the end of a page.
Short == {k \in 1..(Allowed - 1) : FromGame /\ (begins[range] + at + k) % Cell = 0}

Reads ==
    /\ ~over /\ Left > 0 /\ Allowed > 0
    /\ \E n \in {Allowed} \cup Short :
         LET s     == tail \o SubSeq(text[range], at + 1, at + n)
             base  == at - Len(tail)
             found == Search(s, base)
         IN /\ matches' = found.matches /\ limited' = found.limited
            /\ examined' = [examined EXCEPT ![range] = at + n]
            /\ IF found.limited /\ job.mode \notin {"terms", "references"}
               THEN over' = TRUE /\ UNCHANGED <<tail, at>>
               ELSE tail' = Rest(s, Overlap) /\ at' = at + n /\ UNCHANGED over
    /\ UNCHANGED <<text, begins, job, range>>

\* An unreadable page ends the range; only the query tells.
Fails ==
    /\ ~over /\ Left > 0 /\ FromGame
    /\ job.mode = "query" => Allowed > 0
    /\ limited' = (limited \/ job.mode = "query")
    /\ NextRange
    /\ UNCHANGED <<text, begins, job, matches, examined>>

RangeEnds ==
    /\ ~over /\ Left = 0
    /\ NextRange
    /\ UNCHANGED <<text, begins, job, matches, limited, examined>>

\* The query's budget is spent and there is more to read.
BudgetSpent ==
    /\ ~over /\ Left > 0 /\ Allowed = 0
    /\ limited' = TRUE /\ over' = TRUE
    /\ UNCHANGED <<text, begins, job, range, at, tail, matches, examined>>

ScanNext == Reads \/ Fails \/ RangeEnds \/ BudgetSpent

ScanSpec == ScanInit /\ [][ScanNext]_scanVars

---------------------------------------------------------------------------
(* Properties                                                              *)

\* The matches have a range of the job's needles and lie in what was read.
ScanTypeOK ==
    /\ range \in Ranges /\ at \in 0..ScanLengths[range]
    /\ limited \in BOOLEAN /\ over \in BOOLEAN
    /\ Len(matches) <= MatchLimit
    /\ \A k \in DOMAIN matches :
         matches[k][1] \in DOMAIN job.needles /\ matches[k][2] \in Ranges

Occurrences(n, r) ==
    {i \in 1..examined[r] : /\ IsAt(job.needles[n], SubSeq(text[r], 1, examined[r]), i)
                            /\ Aligned(job.needles[n], r, i)}

Reported(n, r) ==
    {matches[k][3] : k \in {j \in DOMAIN matches : matches[j][1] = n /\ matches[j][2] = r}}

\* The scans for aligned words keep no tail, so they do not see a pointer that lies across two
\* reads.  Reads end at chunks from the beginning of the range, or at pages.
AcrossReads(n, i) ==
    /\ job.mode \in {"cells", "references"}
    /\ (i - 1) \div Chunk # (i + Len(job.needles[n].cells) - 2) \div Chunk

\* A finished scan that does not call itself truncated has reported what the
\* memory it could read holds: each report is an occurrence, none is reported
\* twice, and each occurrence is reported or overlaps a reported one of the same
\* needle.  Chunks, short reads and the ranges' borders make no difference, with
\* one exception: in a range of a capture that begins unaligned the scans for aligned
\* words miss the pointers across two chunks.  A query does not.
NothingMissed ==
    /\ \A j, k \in DOMAIN matches : matches[j] = matches[k] => j = k
    /\ \A n \in DOMAIN job.needles, r \in Ranges :
         /\ Reported(n, r) \subseteq Occurrences(n, r)
         /\ over /\ ~limited =>
              \A i \in Occurrences(n, r) :
                \/ begins[r] # 0 /\ AcrossReads(n, i)
                \/ \E j \in Reported(n, r) :
                     IF job.needles[n].kind = "bytes"
                     THEN i < j + Len(job.needles[n].cells) /\ j < i + Len(job.needles[n].cells)
                     ELSE i = j
=============================================================================
