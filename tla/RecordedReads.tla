---------------------------- MODULE RecordedReads ----------------------------
(***************************************************************************)
(* Reading a live game through a recording, and replaying the recording    *)
(* (wfcompanion game_observer/memory.rs, memory/recording.rs and           *)
(* observation/ui_capture/typed.rs).                                       *)
(*                                                                         *)
(* The reader of the screen asks for overlapping pieces while the game     *)
(* rewrites its memory.  The recording answers from what it already holds, *)
(* fetches only the gaps, keeps what it fetched in disjoint ranges up to   *)
(* its limits, and hands them out as blocks cut at the borders of the      *)
(* mappings; a capture made of these blocks answers in the game's stead.   *)
(***************************************************************************)
EXTENDS EvidenceConstants, Integers, FiniteSets, FiniteSetsExt, Sequences

VARIABLES memory,    \* the game's memory
          ranges,    \* the recording: start |-> the bytes fetched there
          short,     \* its truncated flag
          ask,       \* the read under way: where, how much, what it has
          told,      \* everything the reader was told: address |-> value
          asked,
          manifest,  \* the blocks of the finished recording
          stage

recVars == <<memory, ranges, short, ask, told, asked, manifest, stage>>

Addresses == 1..RecordedCells
Values    == {0, 1}
NoAsk     == [at |-> 0, length |-> 0, got |-> <<>>]

RecInit ==
    /\ memory = [a \in Addresses |-> 0]
    /\ ranges = <<>> /\ short = FALSE /\ ask = NoAsk
    /\ told = <<>> /\ asked = 0 /\ manifest = {} /\ stage = "reading"

\* The game rewrites a cell at any time.
Rewrites ==
    /\ stage = "reading"
    /\ \E a \in Addresses : memory' = [memory EXCEPT ![a] = 1 - @]
    /\ UNCHANGED <<ranges, short, ask, told, asked, manifest, stage>>

---------------------------------------------------------------------------
(* The recording                                                           *)

Starts   == DOMAIN ranges
Recorded == MapThenSumSet(LAMBDA s : Len(ranges[s]), Starts)

\* The range that begins last at or before an address, as the tree finds it.
Before(a, blocks) == {s \in DOMAIN blocks : s <= a}
Covers(a, blocks) ==
    Before(a, blocks) # {} /\ a - Max(Before(a, blocks)) < Len(blocks[Max(Before(a, blocks))])
Content(a, blocks) == LET s == Max(Before(a, blocks)) IN blocks[s][a - s + 1]

Wanted == ask.at + Len(ask.got)
Open  == ask.length - Len(ask.got)
GapToTheEnd == Open
Gap   == LET later == {s \in Starts : s >= Wanted} IN
         IF later = {} THEN Open ELSE Min({Open, Min(later) - Wanted})

Asks ==
    /\ stage = "reading" /\ ask = NoAsk /\ asked < MaxAsked
    /\ asked' = asked + 1
    /\ \E a \in Addresses, n \in 1..RecordedCells :
         a + n - 1 <= RecordedCells /\ ask' = [at |-> a, length |-> n, got |-> <<>>]
    /\ UNCHANGED <<memory, ranges, short, told, manifest, stage>>

\* First-seen bytes are reused.
Recalls ==
    /\ ask # NoAsk /\ Open > 0 /\ Covers(Wanted, ranges)
    /\ ask' = [ask EXCEPT !.got = Append(@, Content(Wanted, ranges))]
    /\ UNCHANGED <<memory, ranges, short, told, asked, manifest, stage>>

Limited == Cardinality(Starts) >= MaxRanges \/ Gap > MaxBytes - Recorded

\* The source fills a part of the gap.
Fetches ==
    /\ ask # NoAsk /\ Open > 0 /\ ~Covers(Wanted, ranges) /\ ~Limited
    /\ \E n \in 1..Gap :
         LET bytes == SubSeq(memory, Wanted, Wanted + n - 1) IN
         /\ ranges' = [s \in Starts \cup {Wanted} |-> IF s = Wanted THEN bytes ELSE ranges[s]]
         /\ ask' = [ask EXCEPT !.got = @ \o bytes]
    /\ UNCHANGED <<memory, short, told, asked, manifest, stage>>

Gave(at, got) ==
    told' = [a \in DOMAIN told \cup (at..(at + Len(got) - 1)) |->
               IF a \in DOMAIN told THEN told[a] \cup (IF a \in at..(at + Len(got) - 1)
                                                       THEN {got[a - at + 1]} ELSE {})
               ELSE {got[a - at + 1]}]

\* The gap cannot be read, or the recording is full.  What was got is an answer
\* for a read that may fall short and none for an exact one.
FallsShort ==
    /\ ask # NoAsk /\ Open > 0 /\ ~Covers(Wanted, ranges)
    /\ short' = (short \/ Limited)
    /\ Gave(ask.at, ask.got) \/ UNCHANGED told
    /\ ask' = NoAsk
    /\ UNCHANGED <<memory, ranges, asked, manifest, stage>>

Answers ==
    /\ ask # NoAsk /\ Open = 0
    /\ Gave(ask.at, ask.got)
    /\ ask' = NoAsk
    /\ UNCHANGED <<memory, ranges, short, asked, manifest, stage>>

---------------------------------------------------------------------------
(* The manifest and the capture made of it                                 *)

\* A range that lies across the border of two mappings is two blocks.
Cut(s) ==
    LET bytes == ranges[s] IN
    IF s < Border /\ s + Len(bytes) > Border
    THEN {<<s, SubSeq(bytes, 1, Border - s)>>,
          <<Border, SubSeq(bytes, Border - s + 1, Len(bytes))>>}
    ELSE {<<s, bytes>>}

Fragments == UNION {Cut(s) : s \in Starts}

Finishes ==
    /\ stage = "reading" /\ ask = NoAsk
    /\ IF Cardinality(Fragments) > MaxFragments
       THEN stage' = "failed" /\ UNCHANGED manifest
       ELSE stage' = "recorded" /\ manifest' = Fragments
    /\ UNCHANGED <<memory, ranges, short, ask, told, asked>>

\* CaptureMemory::new refuses blocks that are empty or overlap.
Loads ==
    \A b \in manifest : Len(b[2]) > 0 /\
      \A c \in manifest \ {b} : c[1] >= b[1] + Len(b[2]) \/ b[1] >= c[1] + Len(c[2])

Replay == [s \in {b[1] : b \in manifest} |-> (CHOOSE b \in manifest : b[1] = s)[2]]

RecNext ==
    \/ Rewrites \/ Asks \/ Recalls \/ Fetches \/ FallsShort \/ Answers \/ Finishes

RecSpec == RecInit /\ [][RecNext]_recVars

---------------------------------------------------------------------------
(* Properties                                                              *)

\* The recording keeps its limits.
RecTypeOK ==
    /\ Recorded <= MaxBytes /\ Cardinality(Starts) <= MaxRanges
    /\ Starts \subseteq Addresses /\ short \in BOOLEAN /\ asked \in 0..MaxAsked
    /\ stage \in {"reading", "recorded", "failed"}

\* Whatever the game did meanwhile, the reader was told one value for an address,
\* and the capture that is kept loads and answers with exactly that value: what a
\* replay finds is what the overlay was shown.
ReplaysWhatWasRead ==
    /\ \A a \in DOMAIN told : Cardinality(told[a]) = 1
    /\ stage = "recorded" =>
         /\ Loads
         /\ \A a \in DOMAIN told : Covers(a, Replay) /\ Content(a, Replay) \in told[a]
=============================================================================
