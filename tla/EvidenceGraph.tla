---------------------------- MODULE EvidenceGraph ----------------------------
(***************************************************************************)
(* The memory kept with a recorded screen: the blocks that pointers reach  *)
(* from the movies (wfcompanion observation/ui_capture.rs, capture_graph). *)
(*                                                                         *)
(* The search is breadth first from each root, bounded in depth, in blocks *)
(* for a root, in pointers followed from a block and in blocks altogether; *)
(* a block is read once and its bytes serve every root.  What a block      *)
(* holds is chosen when it is read: the game runs on meanwhile.            *)
(***************************************************************************)
EXTENDS EvidenceConstants, Integers, FiniteSets, Sequences, FiniteSetsExt

VARIABLES captured,  \* the captured blocks, each with the pointers it held
          depth,     \* the least depth each was reached at
          missing,   \* blocks that could not be read when they were reached
          cut,       \* the manifest's truncated
          roots,     \* the roots whose search is to come
          queue,     \* of the search under way
          visited,
          stage

graphVars == <<captured, depth, missing, cut, roots, queue, visited, stage>>

Blocks == 1..BlockCount
Roots  == 1..RootCount

GraphInit ==
    /\ captured = <<>> /\ depth = <<>> /\ missing = {} /\ cut = FALSE
    /\ roots = Roots /\ queue = <<>> /\ visited = {} /\ stage = "headers"

Kept == DOMAIN captured
Smaller(a, b) == IF a < b THEN a ELSE b

\* MemoryGraph::retain: the block's pointers, unless it cannot be had.
Held(b) == b \in Kept
Full(b) == ~Held(b) /\ Cardinality(Kept) >= MaxBlocks

Retained(b, d, pointers) ==
    /\ captured' = IF Held(b) THEN captured
                   ELSE [x \in Kept \cup {b} |-> IF x = b THEN pointers ELSE captured[x]]
    /\ depth' = [x \in Kept \cup {b} |->
                   IF x # b THEN depth[x] ELSE IF Held(b) THEN Smaller(depth[b], d) ELSE d]
    /\ UNCHANGED missing

NotRetained(b) ==
    /\ missing' = IF Full(b) THEN missing ELSE missing \cup {b}
    /\ UNCHANGED <<captured, depth>>

\* The movies' own blocks come before any search spends the budget.
RetainsRoot ==
    /\ stage = "headers"
    /\ LET b == Min(roots) IN
         /\ \/ NotRetained(b) /\ ~Held(b) /\ cut' = (cut \/ Full(b))
            \/ ~Full(b) /\ UNCHANGED cut
               /\ \E pointers \in SUBSET Blocks : Retained(b, 0, pointers)
         /\ IF roots = {b} THEN roots' = Roots /\ stage' = "roots"
            ELSE roots' = roots \ {b} /\ UNCHANGED stage
    /\ UNCHANGED <<queue, visited>>

BeginsRoot ==
    /\ stage = "roots" /\ queue = <<>> /\ roots # {}
    /\ queue' = <<<<Min(roots), 0>>>> /\ visited' = {}
    /\ roots' = roots \ {Min(roots)}
    /\ UNCHANGED <<captured, depth, missing, cut, stage>>

Ascending(s) ==
    LET f[n \in 0..Cardinality(s)] ==
          IF n = 0 THEN <<>>
          ELSE Append(f[n - 1], CHOOSE x \in s : Cardinality({y \in s : y < x}) = n - 1)
    IN f[Cardinality(s)]

\* The children that are followed, in address order, and whether some are not.
Followed(pointers, d) ==
    LET sorted == Ascending(pointers)
        some   == SubSeq(sorted, 1, Smaller(Len(sorted), MaxChildBlocks))
    IN [k \in DOMAIN some |-> <<some[k], d + 1>>]

ExpandedQuietly(pointers, d) ==
    IF d >= MaxDepth
    THEN /\ UNCHANGED cut
         /\ queue' = Tail(queue)
    ELSE /\ cut' = (cut \/ Cardinality(pointers) > MaxChildBlocks)
         /\ queue' = Tail(queue) \o Followed(pointers, d)

Expanded(pointers, d) ==
    IF d >= MaxDepth
    THEN /\ cut' = (cut \/ \E p \in pointers : p \notin DOMAIN captured')
         /\ queue' = Tail(queue)
    ELSE /\ cut' = (cut \/ Cardinality(pointers) > MaxChildBlocks)
         /\ queue' = Tail(queue) \o Followed(pointers, d)

Visits ==
    /\ stage = "roots" /\ queue # <<>>
    /\ LET b == queue[1][1]
           d == queue[1][2]
       IN IF b \in visited
          THEN queue' = Tail(queue) /\ UNCHANGED <<captured, depth, missing, cut, visited>>
          ELSE /\ visited' = visited \cup {b}
               /\ IF Cardinality(visited') > MaxBlocksPerRoot
                  THEN cut' = TRUE /\ queue' = <<>> /\ UNCHANGED <<captured, depth, missing>>
                  ELSE \/ /\ ~Held(b) /\ NotRetained(b)
                          /\ cut' = (cut \/ Full(b)) /\ queue' = Tail(queue)
                       \/ /\ ~Full(b)
                          /\ \E pointers \in (IF Held(b) THEN {captured[b]} ELSE SUBSET Blocks) :
                               Retained(b, d, pointers) /\ Expanded(pointers, d)
    /\ UNCHANGED <<roots, stage>>

AllSearched ==
    /\ stage = "roots" /\ queue = <<>> /\ roots = {}
    /\ stage' = "over"
    /\ UNCHANGED <<captured, depth, missing, cut, roots, queue, visited>>

\* The deadline or the read limit: nothing is returned.
BudgetEnds ==
    /\ stage \in {"headers", "roots"}
    /\ stage' = "failed"
    /\ UNCHANGED <<captured, depth, missing, cut, roots, queue, visited>>

GraphNext == RetainsRoot \/ BeginsRoot \/ Visits \/ AllSearched \/ BudgetEnds

GraphSpec == GraphInit /\ [][GraphNext]_graphVars

---------------------------------------------------------------------------
(* Properties                                                              *)

GraphTypeOK ==
    /\ Kept \subseteq Blocks /\ DOMAIN depth = Kept /\ Cardinality(Kept) <= MaxBlocks
    /\ \A b \in Kept : captured[b] \subseteq Blocks /\ depth[b] \in 0..MaxDepth
    /\ stage \in {"headers", "roots", "over", "failed"}

\* A capture that does not call itself truncated can be replayed: a pointer in a
\* captured block leads to a captured block or to memory that could not be read
\* when it was reached, and every captured block is there for a root's sake, at
\* the distance it says.
GraphClosed ==
    stage = "over" /\ ~cut =>
      /\ \A b \in Kept : captured[b] \subseteq Kept \cup missing
      /\ \A b \in Kept : depth[b] > 0 => \E a \in Kept : b \in captured[a] /\ depth[a] = depth[b] - 1
      /\ \A a, b \in Kept : b \in captured[a] /\ depth[a] < MaxDepth => depth[b] <= depth[a] + 1
=============================================================================
