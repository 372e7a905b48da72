----------------------------- MODULE InspectWalk -----------------------------
(***************************************************************************)
(* The inspector's walk along pointers and the capture made of walks       *)
(* (wfcompanion inspect/query.rs, walk, and inspect/capture.rs, write).    *)
(*                                                                         *)
(* A block begins where a pointer points, so blocks overlap; the game      *)
(* rewrites its memory between two reads.  A walk with a target looks for  *)
(* one way to it, a walk without one collects what can be reached; each    *)
(* says what it left out, and a capture keeps each address once.           *)
(***************************************************************************)
EXTENDS EvidenceConstants, Integers, FiniteSets, FiniteSetsExt, Sequences

VARIABLES cells,     \* the game's memory: each cell a pointer, or 0 for none
          rewrites,
          target,    \* the addresses looked for
          walkQueue, \* addresses to read, each with its depth
          seen,      \* the addresses that entered the queue: how they were found
          walked,    \* the blocks of this walk: address |-> what it held
          leftOut,   \* the coverage of this walk is incomplete
          hops,      \* the way to the target
          rootsDone, \* walks that ended
          chunks,    \* the capture so far: address |-> what it holds
          total,
          partial,   \* the capture's truncated
          walkStage

walkVars == <<cells, rewrites, target, walkQueue, seen, walked, leftOut, hops, rootsDone, chunks, total,
              partial, walkStage>>

Held == 0..Places      \* 0: no pointer into the selection
Root == WalkRoots[rootsDone + 1]
NoHop == <<>>

Begun(n) ==
    IF n = Len(WalkRoots)
    THEN walkQueue' = <<>> /\ seen' = <<>> /\ walkStage' = "merging"
    ELSE /\ walkQueue' = <<<<WalkRoots[n + 1], 0>>>>
         /\ seen' = [a \in {WalkRoots[n + 1]} |-> NoHop]
         /\ UNCHANGED walkStage

WalkInit ==
    /\ cells \in [1..Places -> Held] /\ rewrites = 0 /\ target \in Targets
    /\ walkQueue = <<<<WalkRoots[1], 0>>>>
    /\ seen = [a \in {WalkRoots[1]} |-> NoHop]
    /\ walked = <<>> /\ leftOut = FALSE /\ hops = <<>> /\ rootsDone = 0
    /\ chunks = <<>> /\ total = 0 /\ partial = FALSE /\ walkStage = "walking"

\* The game goes on.
RewritesCell ==
    /\ rewrites < MaxRewrites /\ walkStage = "walking" /\ walked # <<>>
    /\ rewrites' = rewrites + 1
    /\ \E a \in 1..Places, v \in Held : v # cells[a] /\ cells' = [cells EXCEPT ![a] = v]
    /\ UNCHANGED <<target, walkQueue, seen, walked, leftOut, hops, rootsDone, chunks,
                   total, partial, walkStage>>

---------------------------------------------------------------------------
(* The walk                                                                *)

Length(a) == Min({BlockSize, Places - a + 1})

\* The pointers of a block, in order, until one lies in the target; a new one
\* enters the queue unless the walk is at its depth or has seen enough.
Scan(a, d, bytes) ==
    LET start == [queue |-> Tail(walkQueue), seen |-> seen, cut |-> FALSE, hit |-> 0]
        f[k \in 0..Len(bytes)] ==
          IF k = 0 THEN start
          ELSE LET s == f[k - 1]
                   p == bytes[k]
               IN IF s.hit # 0 THEN s
                  ELSE IF p \in target THEN [s EXCEPT !.hit = k]
                  ELSE IF p = 0 \/ p \in DOMAIN s.seen THEN s
                  ELSE IF d = WalkDepth \/ Cardinality(DOMAIN s.seen) >= MaxWalkBlocks
                  THEN [s EXCEPT !.cut = TRUE]
                  ELSE [s EXCEPT !.queue = Append(@, <<p, d + 1>>),
                                 !.seen  = [x \in DOMAIN @ \cup {p} |->
                                              IF x = p THEN <<a, k>> ELSE @[x]]]
    IN f[Len(bytes)]

\* From the block with the hit back to the root, each by the hop that found it.
WayFrom(a, k, p) ==
    LET up[n \in 0..Places] ==   \* n steps up from a
          IF n = 0 THEN a
          ELSE IF seen[up[n - 1]] = NoHop THEN up[n - 1] ELSE seen[up[n - 1]][1]
        deep == Min({n \in 0..Places : seen[up[n]] = NoHop})
        chain == [n \in 1..deep |->
                    [block |-> up[deep - n + 1], slot |-> seen[up[deep - n]][2],
                     to |-> up[deep - n]]]
    IN Append(chain, [block |-> a, slot |-> k, to |-> p])

Walked(a, bytes) ==
    walked' = [x \in DOMAIN walked \cup {a} |-> IF x = a THEN bytes ELSE walked[x]]

ReadsBlock ==
    /\ walkStage = "walking" /\ walkQueue # <<>>
    /\ LET a     == walkQueue[1][1]
           bytes == SubSeq(cells, a, a + Length(a) - 1)
           s     == Scan(a, walkQueue[1][2], bytes)
       IN   /\ Walked(a, bytes)
            /\ leftOut' = (leftOut \/ s.cut)
            /\ seen' = s.seen
            /\ IF s.hit = 0 THEN walkQueue' = s.queue /\ UNCHANGED hops
               ELSE walkQueue' = <<>> /\ hops' = WayFrom(a, s.hit, bytes[s.hit])
    /\ UNCHANGED <<cells, rewrites, target, rootsDone, chunks, total, partial, walkStage>>

BlockUnreadable ==
    /\ walkStage = "walking" /\ walkQueue # <<>>
    /\ walkQueue' = Tail(walkQueue) /\ leftOut' = TRUE
    /\ UNCHANGED <<cells, rewrites, target, seen, walked, hops, rootsDone, chunks, total, partial,
                   walkStage>>

---------------------------------------------------------------------------
(* The capture                                                             *)

Size(blocks) == MapThenSumSet(LAMBDA a : Len(blocks[a]), DOMAIN blocks)

\* The walk's blocks in address order while they fit; what an earlier walk kept
\* at an address stays.
Fitting == {a \in DOMAIN walked :
              total + MapThenSumSet(LAMBDA b : Len(walked[b]), {b \in DOMAIN walked : b <= a})
                <= MaxKept}

PartialByFit == partial \/ Fitting # DOMAIN walked
Partial == partial \/ leftOut \/ Fitting # DOMAIN walked

WalkEnds ==
    /\ walkStage = "walking" /\ walkQueue = <<>> /\ target = {}
    /\ chunks' = [a \in DOMAIN chunks \cup Fitting |->
                    IF a \in DOMAIN chunks THEN chunks[a] ELSE walked[a]]
    /\ total' = total + Size(walked)
    /\ partial' = Partial
    /\ walked' = <<>> /\ leftOut' = FALSE
    /\ rootsDone' = rootsDone + 1
    /\ IF Fitting # DOMAIN walked
       THEN walkQueue' = <<>> /\ seen' = <<>> /\ walkStage' = "merging"
       ELSE Begun(rootsDone + 1)
    /\ UNCHANGED <<cells, rewrites, target, hops>>

\* In address order, each chunk loses what the chunks before it cover.
Merge(all) ==
    LET order == [n \in 1..Cardinality(DOMAIN all) |->
                    CHOOSE a \in DOMAIN all : Cardinality({b \in DOMAIN all : b < a}) = n - 1]
        f[n \in 0..Len(order)] ==
          IF n = 0 THEN [end |-> 0, blocks |-> <<>>]
          ELSE LET m    == f[n - 1]
                   a    == order[n]
                   skip == IF m.end > a THEN Min({m.end - a, Len(all[a])}) ELSE 0
               IN IF skip = Len(all[a]) THEN m
                  ELSE [end    |-> a + Len(all[a]),
                        blocks |-> Append(m.blocks,
                          [at |-> a + skip, bytes |-> SubSeq(all[a], skip + 1, Len(all[a]))])]
    IN f[Len(order)].blocks

Blocks == Merge(chunks)

Writes ==
    /\ walkStage = "merging"
    /\ walkStage' = IF Blocks = <<>> THEN "failed" ELSE "written"
    /\ UNCHANGED <<cells, rewrites, target, walkQueue, seen, walked, leftOut, hops, rootsDone,
                   chunks, total, partial>>

WalkNext == RewritesCell \/ ReadsBlock \/ BlockUnreadable \/ WalkEnds \/ Writes

WalkSpec == WalkInit /\ [][WalkNext]_walkVars

---------------------------------------------------------------------------
(* Properties                                                              *)

WalkTypeOK ==
    /\ DOMAIN walked \subseteq DOMAIN seen
    /\ Cardinality(DOMAIN seen) <= MaxWalkBlocks
    /\ walkStage \in {"walking", "merging", "written", "failed"}

\* A way that is reported leads from the root to the target: each hop was read in
\* the block the hop before it points to.
WayLeads ==
    hops # <<>> =>
      /\ hops[1].block = Root /\ hops[Len(hops)].to \in target
      /\ \A k \in DOMAIN hops :
           /\ walked[hops[k].block][hops[k].slot] = hops[k].to
           /\ k > 1 => hops[k].block = hops[k - 1].to

\* A written capture loads again (its blocks are in order, disjoint and not empty)
\* and has every address that was read; if it does not call itself truncated, a
\* pointer it holds leads to an address it holds.
At(a) == CHOOSE k \in DOMAIN Blocks : Blocks[k].at <= a /\ a < Blocks[k].at + Len(Blocks[k].bytes)
Has(a) == \E k \in DOMAIN Blocks : Blocks[k].at <= a /\ a < Blocks[k].at + Len(Blocks[k].bytes)

CaptureStands ==
    walkStage = "written" =>
      /\ \A k \in DOMAIN Blocks :
           /\ Len(Blocks[k].bytes) > 0
           /\ k > 1 => Blocks[k].at >= Blocks[k - 1].at + Len(Blocks[k - 1].bytes)
      /\ \A a \in DOMAIN chunks : \A n \in 0..(Len(chunks[a]) - 1) : Has(a + n)
      /\ ~partial =>
           /\ \A n \in DOMAIN WalkRoots : Has(WalkRoots[n])
           /\ \A k \in DOMAIN Blocks : \A n \in DOMAIN Blocks[k].bytes :
                Blocks[k].bytes[n] # 0 => Has(Blocks[k].bytes[n])
=============================================================================
