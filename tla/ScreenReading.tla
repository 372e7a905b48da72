---------------------------- MODULE ScreenReading ----------------------------
(***************************************************************************)
(* What a relic screen says, read in two ways (wfcompanion).               *)
(*                                                                         *)
(* Out of the game's memory (game_observer/ui/registry.rs, display.rs and  *)
(* relic.rs): the registry of movies, the display tree of each movie of    *)
(* the right path, the texts in it, and what these say: the era of a       *)
(* selection or the names of rewards.  The game redraws while it is read,  *)
(* so that each list, object and text is what it is when it is read, and   *)
(* may be gone: the choices are made then.  A read that fails is a failure *)
(* of its movie.                                                           *)
(*                                                                         *)
(* Out of a photograph (relic.rs scan_rewards, relic/enrichment.rs): which *)
(* layout the cards are in is not known, so the names are read at the      *)
(* places of one layout after another, the daemon looks them up, and what  *)
(* names most cards is taken.  The cards stand in the middle of the        *)
(* screen, so a layout of two cards less reads the cards in the middle; at *)
(* other places there is no name to read, and in the other geometry of the *)
(* screen a name may still be read.  An item that the daemon takes for a   *)
(* label without doubt is the card's.                                      *)
(***************************************************************************)
EXTENDS EvidenceConstants, Integers, Sequences, FiniteSets, FiniteSetsExt, SequencesExt

VARIABLES
  \* of what is read in memory
  asks,        \* "selection" or "rewards"
  step,        \* "registry", "movie", "container", "child" or how it ended
  movies,      \* the movies found
  movie,       \* the one that is read
  containers,  \* how many are left of it
  counted,     \* children the containers said they have
  children,    \* those of this container that are left
  visited,     \* the children met in the movie
  texts,       \* the matching texts: a sequence of [object, text]
  incomplete,
  answer,
  \* of a photograph
  rewardStage,  \* the layouts that are read next, or how it ended
  geometry,     \* of the screen
  cards,        \* what its cards read as, from the left
  acrossRead,   \* the cards that are also read in the other geometry
  tried,        \* the layouts read
  named,        \* the best of the normal ones
  rewards       \* what is shown: at each place, a card or 0

screenVars == <<asks, step, movies, movie, containers, counted, children, visited, texts,
                incomplete, answer>>
reading == <<movie, containers, counted, children, visited, texts, incomplete>>
rewardVars == <<rewardStage, geometry, cards, acrossRead, tried, named, rewards>>

Normal == {"lith", "meso"}
Labels == Normal \cup {"marker", "requiem"}
Names  == {"Forma", "loading"}
Plausible(name) == name # "loading"
Contents == IF asks = "selection" THEN Labels \cup {"cut"} ELSE Names \cup {"cut"}

---------------------------------------------------------------------------
(* registry::scan                                                          *)

\* The entries that lead to a movie, each record once, in the order of their addresses;
\* the descriptor may be invalid.
ScanRegistry ==
    /\ step = "registry"
    /\ \/ /\ \E found \in SUBSET (1..MaxMovies) :
               /\ found # {}
               /\ \E right \in SUBSET found :      \* those with the path asked for
                    /\ movies' = SetToSortSeq(right, <)
                    /\ step' = IF right = {} THEN "failed" ELSE "movie"
       \/ step' = "failed" /\ UNCHANGED movies
    /\ UNCHANGED <<asks, reading, answer>>

---------------------------------------------------------------------------
(* display::scan_text_objects                                              *)

\* The root names its owner, and the registry of its objects is read at once.
TakeMovie ==
    /\ step = "movie" /\ movies # <<>>
    /\ movie' = Head(movies) /\ movies' = Tail(movies)
    /\ counted' = 0 /\ children' = {} /\ visited' = {} /\ texts' = <<>> /\ incomplete' = FALSE
    /\ \/ \E n \in 0..MaxContainers : containers' = n /\ step' = "container"
       \/ containers' = 0 /\ step' = "movie"
    /\ UNCHANGED <<asks, answer>>

NoMovieLeft ==
    /\ step = "movie" /\ movies = <<>> /\ step' = "failed"
    /\ UNCHANGED <<asks, movies, reading, answer>>

MovieFails == step' = "movie" /\ UNCHANGED <<containers, counted, children>>

\* An object that is no container is passed over; more children than the limit, or a read
\* that fails, end the movie.
TakeContainer ==
    /\ step = "container" /\ containers > 0
    /\ \/ \E listed \in SUBSET Shapes :
            IF counted + Cardinality(listed) > MaxChildren THEN MovieFails
            ELSE /\ containers' = containers - 1 /\ counted' = counted + Cardinality(listed)
                 /\ children' = listed /\ step' = "child"
       \/ containers' = containers - 1 /\ UNCHANGED <<step, counted, children>>
       \/ MovieFails
    /\ UNCHANGED <<asks, movies, movie, visited, texts, incomplete, answer>>

\* A child that was met in another container is not read again.
NewlyOrAgain(object) == TRUE
Newly(object) == object \notin visited

\* scan_labels and scan_named_text: what matches is kept; a reward without all of its
\* text leaves the list incomplete.
Visit(object, content) ==
    /\ texts' = IF content = "cut" THEN texts ELSE Append(texts, [object |-> object, text |-> content])
    /\ incomplete' = (incomplete \/ (content = "cut" /\ asks = "rewards"))

TakeChild ==
    /\ step = "child" /\ children # {}
    /\ LET object == CHOOSE o \in children : TRUE IN
         /\ \/ /\ children' = children \ {object} /\ visited' = visited \cup {object}
               /\ \/ Newly(object) /\ \E content \in Contents : Visit(object, content)
                  \/ UNCHANGED <<texts, incomplete>>     \* met before, or no text
               /\ UNCHANGED <<step, containers, counted>>
            \/ MovieFails /\ UNCHANGED <<visited, texts, incomplete>>
    /\ UNCHANGED <<asks, movies, movie, answer>>

ContainerRead ==
    /\ step = "child" /\ children = {} /\ step' = "container"
    /\ UNCHANGED <<asks, movies, reading, answer>>

---------------------------------------------------------------------------
(* relic::selection_from_snapshot and rewards_from_snapshot                *)

Seen == {texts[i].text : i \in DOMAIN texts}

\* classify_selection_labels.
Era ==
    LET normal == Seen \cap Normal IN
    IF "marker" \notin Seen THEN "none"
    ELSE IF Cardinality(normal) = 1 THEN CHOOSE e \in normal : TRUE
    ELSE IF normal = Normal THEN "all"
    ELSE IF normal = {} /\ "requiem" \in Seen THEN "requiem" ELSE "none"

\* reward_names.
Ready == ~incomplete /\ Len(texts) \in 1..MaxNames /\ \A i \in DOMAIN texts : Plausible(texts[i].text)

Answers(said) ==
    /\ answer' = [movie |-> movie, era |-> said,
                  names |-> IF asks = "rewards" THEN [i \in DOMAIN texts |-> texts[i].text] ELSE <<>>]
    /\ step' = "done"

\* The first movie that says something is the answer.
MovieRead ==
    /\ step = "container" /\ containers = 0
    /\ IF asks = "selection"
       THEN IF Era # "none" THEN Answers(Era) ELSE step' = "movie" /\ UNCHANGED answer
       ELSE IF Ready THEN Answers("none") ELSE step' = "movie" /\ UNCHANGED answer
    /\ UNCHANGED <<asks, movies, reading>>

ScreenInit ==
    /\ asks \in {"selection", "rewards"} /\ step = "registry" /\ movies = <<>> /\ movie = 0
    /\ containers = 0 /\ counted = 0 /\ children = {} /\ visited = {} /\ texts = <<>>
    /\ incomplete = FALSE /\ answer = [movie |-> 0, era |-> "none", names |-> <<>>]

ScreenNext ==
    \/ ScanRegistry \/ TakeMovie \/ NoMovieLeft \/ TakeContainer \/ TakeChild \/ ContainerRead
    \/ MovieRead

ScreenSpec == ScreenInit /\ [][ScreenNext]_screenVars

---------------------------------------------------------------------------
(* Properties of what is read in memory                                    *)

ScreenTypeOK ==
    /\ step \in {"registry", "movie", "container", "child", "done", "failed"}
    /\ counted \in 0..MaxChildren /\ containers \in 0..MaxContainers
    /\ children \subseteq Shapes /\ visited \subseteq Shapes
    /\ Len(texts) <= Cardinality(visited)

\* However the tree of a movie is shared between its containers and whatever movies were
\* given up before, an answer is of one movie: each name is that of one text object, none
\* of them is missing or unfinished; an era is told only with the marker of the screen, and
\* no label of another era stands beside it.
AnswerIsOfOneScreen ==
    step = "done" =>
      /\ answer.movie = movie
      /\ \A i, j \in DOMAIN texts : texts[i].object = texts[j].object => i = j
      /\ asks = "rewards" =>
           /\ ~incomplete
           /\ Len(answer.names) \in 1..MaxNames /\ "loading" \notin Seen
      /\ asks = "selection" =>
           /\ "marker" \in Seen
           /\ answer.era \in Normal => Seen \cap Normal = {answer.era}
           /\ answer.era = "requiem" => Seen \cap Normal = {}

---------------------------------------------------------------------------
(* Photographs: the labels of the cards                                    *)

\* Matches of a label, best first: a name, one that is misread, one that is cut, and two
\* that are alike.  A confidence is in percent.
Lookup(label) ==
    CASE label = "exact"  -> <<[distance |-> 0, confidence |-> 100], [distance |-> 1, confidence |-> 97]>>
      [] label = "near"   -> <<[distance |-> 1, confidence |-> 97], [distance |-> 8, confidence |-> 73]>>
      [] label = "cut"    -> <<[distance |-> 5, confidence |-> 72]>>
      [] label = "alike"  -> <<[distance |-> 3, confidence |-> 75], [distance |-> 3, confidence |-> 74]>>
      [] OTHER            -> <<>>
CardLabels == {"exact", "cut", "alike", "forma"}

\* reward_regions, read_candidate: places count by half a card from the middle.
Place(i, count) == 2 * i - (count + 1)
Read(g, count) ==
    LET CardAt(place) == {j \in DOMAIN cards : /\ Place(j, Len(cards)) = place
                                               /\ g = geometry \/ j \in acrossRead}
        At(i) == CardAt(Place(i, count))
    IN  [geometry |-> g, count |-> count,
         labels |-> [i \in 1..count |-> IF At(i) = {} THEN [card |-> 0, text |-> "empty"]
                                        ELSE [card |-> Max(At(i)), text |-> cards[Max(At(i))]]]]

---------------------------------------------------------------------------
(* resolve_reward_candidates                                               *)

\* accepted_match: the percent by which the best is sure, or 0.
NoMatch == [card |-> 0, distance |-> 0, confidence |-> 0]
Accepted(label) ==
    LET matches == Lookup(label.text)
        best    == matches[1]
        second  == IF Len(matches) > 1 THEN matches[2].confidence ELSE 0
    IN  IF /\ matches # <<>> /\ (best.distance <= 2 \/ best.confidence >= 72)
           /\ best.distance = 0 \/ best.confidence - second >= 4
        THEN [card |-> label.card, distance |-> best.distance, confidence |-> best.confidence]
        ELSE NoMatch

\* What is asked of the daemon, and for which label of which layout.
AskedFor(label) == label.text \notin {"empty", "forma"}
AllPlaces(read) ==
    FlattenSeq([c \in DOMAIN read |-> [i \in DOMAIN read[c].labels |-> <<c, i>>]])
Positions(read) == SelectSeq(AllPlaces(read), LAMBDA p : AskedFor(read[p[1]].labels[p[2]]))
Replies(read) ==
    LET asked == SelectSeq(AllPlaces(read), LAMBDA p : AskedFor(read[p[1]].labels[p[2]]))
    IN  [k \in DOMAIN asked |-> Accepted(read[asked[k][1]].labels[asked[k][2]])]

Matched(read) ==
    LET positions == Positions(read)
        answers   == Replies(read)
        Match(c, i) == LET k == {k \in DOMAIN positions : positions[k] = <<c, i>>}
                       IN  IF k = {} THEN NoMatch ELSE answers[Max(k)]
    IN  [c \in DOMAIN read |-> [i \in DOMAIN read[c].labels |-> Match(c, i)]]

Recognized(layout, matches) ==
    {i \in DOMAIN layout.labels : layout.labels[i].text = "forma" \/ matches[i] # NoMatch}

\* candidate_score, 1200 to the unit: 12 is a multiple of every number of cards.
Score(layout, matches) ==
    LET seen == Recognized(layout, matches)
        Sure(i) == IF layout.labels[i].text = "forma" THEN 100 ELSE matches[i].confidence
    IN  IF seen = {} THEN 0
        ELSE Cardinality(seen) * 2400
             + (12 \div Cardinality(seen)) * MapThenSumSet(Sure, seen)
             + (IF Cardinality(seen) = layout.count THEN 600 ELSE 0)
             - 12 * MapThenSumSet(LAMBDA i : matches[i].distance, seen)

\* max_by takes the last of the best.
Nothing == [score |-> 0, complete |-> FALSE, geometry |-> "none", items |-> <<>>]
Resolve(read) ==
    LET matched == Matched(read)
        scores  == {<<c, Score(read[c], matched[c])>> : c \in DOMAIN read}
        top     == Max({s[2] : s \in scores})
        best    == Max({s[1] : s \in {s \in scores : s[2] = top}})
        seen    == Recognized(read[best], matched[best])
        Item(i) == IF read[best].labels[i].text = "forma" THEN read[best].labels[i].card
                   ELSE matched[best][i].card
    IN  IF top = 0 THEN Nothing
        ELSE [score |-> top, complete |-> seen = DOMAIN read[best].labels,
              geometry |-> read[best].geometry,
              items |-> [i \in DOMAIN read[best].labels |-> Item(i)]]

---------------------------------------------------------------------------
(* scan_rewards                                                            *)

Show(result) == rewardStage' = "shown" /\ rewards' = result.items
Fail == rewardStage' = "failed" /\ UNCHANGED rewards
GoOn(stage) == rewardStage' = stage /\ UNCHANGED rewards

\* A photograph cannot be read, or the daemon does not answer.
ReadingFails ==
    /\ rewardStage \in {"border", "fast", "normal", "legacy"}
    /\ rewardStage' = "trouble"
    /\ UNCHANGED <<geometry, cards, acrossRead, tried, named, rewards>>

\* The layouts of which borders are detected, rightly or not.
ReadBorders ==
    /\ rewardStage = "border"
    /\ \E normal, legacy \in 0..MaxPlayers :
         LET read   == (IF normal > 0 THEN <<Read("normal", normal)>> ELSE <<>>)
                       \o (IF legacy > 0 THEN <<Read("legacy", legacy)>> ELSE <<>>)
             result == IF read = <<>> THEN Nothing ELSE Resolve(read)
         IN  IF result.complete THEN tried' = read /\ Show(result)
             ELSE tried' = <<>> /\ GoOn("fast")
    /\ UNCHANGED <<geometry, cards, acrossRead, named>>

ReadFast ==
    /\ rewardStage = "fast"
    /\ LET read   == <<Read("normal", MaxPlayers)>>
           result == Resolve(read)
       IN  /\ tried' = read
           /\ IF result = Nothing THEN Fail
              ELSE IF result.complete THEN Show(result) ELSE GoOn("normal")
    /\ UNCHANGED <<geometry, cards, acrossRead, named>>

ReadNormal ==
    /\ rewardStage = "normal"
    /\ LET read   == tried \o [k \in 1..MaxPlayers - 1 |-> Read("normal", MaxPlayers - k)]
           result == Resolve(read)
       IN  /\ tried' = read /\ named' = result
           /\ IF result = Nothing THEN Fail
              ELSE IF result.complete THEN Show(result) ELSE GoOn("legacy")
    /\ UNCHANGED <<geometry, cards, acrossRead>>

\* The better ones, if there are any.
Preferred(legacy) == IF legacy.score > named.score THEN legacy ELSE named
ReadLegacy ==
    /\ rewardStage = "legacy"
    /\ LET read   == [k \in 1..MaxPlayers |-> Read("legacy", MaxPlayers + 1 - k)]
           result == Resolve(read)
       IN  /\ tried' = tried \o read
           /\ IF result = Nothing THEN Fail ELSE Show(Preferred(result))
    /\ UNCHANGED <<geometry, cards, acrossRead, named>>

RewardInit ==
    /\ rewardStage = "border" /\ geometry \in {"normal", "legacy"}
    /\ cards \in UNION {[1..n -> CardLabels] : n \in 1..MaxPlayers}
    /\ acrossRead \in SUBSET DOMAIN cards
    /\ tried = <<>> /\ named = Nothing /\ rewards = <<>>

RewardNext == ReadBorders \/ ReadFast \/ ReadNormal \/ ReadLegacy \/ ReadingFails
RewardSpec == RewardInit /\ [][RewardNext]_rewardVars

---------------------------------------------------------------------------
(* Properties of what is read in photographs                               *)

Shown == {rewards[i] : i \in DOMAIN rewards} \ {0}
Naming(layout) == {layout.labels[i].card : i \in
    {i \in DOMAIN layout.labels : layout.labels[i].text = "forma" \/ Accepted(layout.labels[i]) # NoMatch}}

RewardTypeOK ==
    /\ rewardStage \in {"border", "fast", "normal", "legacy", "shown", "failed", "trouble"}
    /\ Len(rewards) <= MaxPlayers /\ Shown \subseteq DOMAIN cards

\* What is shown are cards of the screen in their order, and no layout that was read names
\* more; and although layouts are read for cards that are not there, the scan fails only if
\* the layout of all players names nothing, or none of the legacy ones does.
NamesMostCards ==
    /\ rewardStage = "shown" =>
         /\ \A i, j \in DOMAIN rewards : i < j /\ 0 \notin {rewards[i], rewards[j]} => rewards[i] < rewards[j]
         /\ \A c \in DOMAIN tried : Cardinality(Naming(tried[c])) <= Cardinality(Shown)
    /\ rewardStage = "failed" =>
         Naming(tried[1]) = {} \/ \A c \in DOMAIN tried : tried[c].geometry = "legacy" => Naming(tried[c]) = {}
=============================================================================
