--------------------------- MODULE ScriptSnapshots ---------------------------
(***************************************************************************)
(* Snapshots of the game's scripts (wfcompanion inspect/luau/corpus.rs and *)
(* tracking.rs).                                                           *)
(*                                                                         *)
(* Processes of the inspector copy scripts from the cache of the game into *)
(* a workspace, as blobs named by their hash and a manifest that names the *)
(* blobs.  Captures exclude each other by a lock of the file system and    *)
(* may be killed at any point; an update of the game replaces the files    *)
(* they read, and a disk damages what they wrote.  A script's content      *)
(* stands for its hash; a blob is written beside its place and linked into *)
(* it, so that it appears at once.                                         *)
(*                                                                         *)
(* Two snapshots are compared script by script: their prototypes are       *)
(* matched, and for a feature the scripts it may depend on are followed to *)
(* say whether it has to be looked at again.  A prototype is its code and  *)
(* the atoms in it; a script may also differ in its layout or in the       *)
(* encoding of its opcodes only.                                           *)
(***************************************************************************)
EXTENDS EvidenceConstants, Naturals, Sequences, FiniteSets, Bags, FiniteSetsExt, SequencesExt

VARIABLES
  \* of a capture
  version,   \* of the game's files: [cache, executable]
  blobs,     \* content |-> whether it is intact
  manifests, \* name |-> snapshot
  owner,     \* who holds the workspace, or NoOne
  capture,   \* per process: what it is doing
  troubles,
  \* of a comparison
  phase,    \* "script", "depends", "feature" or "reported"
  todo,     \* the paths not yet compared
  pair,     \* the two scripts compared
  change,   \* what is said of them
  changes,  \* path |-> [status, depends]
  pending,  \* the scripts of a feature that are to be followed
  followed,
  review    \* those that are to be looked at

corpusVars == <<version, blobs, manifests, owner, capture, troubles>>
cmpVars == <<phase, todo, pair, change, changes, pending, followed, review>>

---------------------------------------------------------------------------
(* Captures                                                                *)

NoOne == "no one"
Trouble == troubles < MaxTroubles /\ troubles' = troubles + 1

(* Each version has a package more; the path "x" is in all of them, and a  *)
(* path "y" whose content no version changes.                              *)
Packages(v) == 1..v
Entries(package) == IF package = 1 THEN <<"x", "y">> ELSE <<"x">>
Content(v, package, path) == IF path = "y" THEN <<"y">> ELSE <<path, package, v>>

Asleep == [at |-> "idle", name |-> "", executable |-> 0, left |-> {}, before |-> 0,
           entries |-> <<>>, scripts |-> <<>>, read |-> {}, errors |-> {}]

Goes(i, fields) == capture' = [capture EXCEPT ![i] = fields]
Ends(i) == Goes(i, Asleep) /\ owner' = NoOne

---------------------------------------------------------------------------
(* capture                                                                 *)

\* The workspace is locked, and the name must be new; else the command fails.  The
\* executable is hashed.
Starts(i) ==
    /\ capture[i].at = "idle" /\ owner = NoOne
    /\ \E n \in SnapshotNames \ DOMAIN manifests :
         Goes(i, [Asleep EXCEPT !.at = "list", !.name = n, !.executable = version.executable])
    /\ owner' = i
    /\ UNCHANGED <<version, blobs, manifests, troubles>>

\* packages.
Lists(i) ==
    /\ capture[i].at = "list"
    /\ Goes(i, [capture[i] EXCEPT !.at = "stamp", !.left = Packages(version.cache)])
    /\ UNCHANGED <<version, blobs, manifests, owner, troubles>>

\* cache_stamp: sizes and times of the files.
Stamps(i) ==
    /\ capture[i].at = "stamp"
    /\ Goes(i, [capture[i] EXCEPT !.at = "visit", !.before = version.cache])
    /\ UNCHANGED <<version, blobs, manifests, owner, troubles>>

\* visit_resources reads the table of a package.
Package(i) == Min(capture[i].left)
NextPackage(i) == [capture[i] EXCEPT !.left = @ \ {Package(i)}, !.entries = <<>>, !.at = "visit"]

Opens(i) ==
    /\ capture[i].at = "visit" /\ capture[i].left # {}
    /\ \/ Goes(i, [capture[i] EXCEPT !.at = "read", !.entries = Entries(Package(i))])
          /\ UNCHANGED troubles
       \/ Goes(i, [NextPackage(i) EXCEPT !.errors = @ \cup {"package"}]) /\ Trouble
    /\ UNCHANGED <<version, blobs, manifests, owner>>

Advanced(i) ==
    IF Len(capture[i].entries) = 1 THEN NextPackage(i)
    ELSE [capture[i] EXCEPT !.entries = Tail(@)]

KnownUnchecked(content) == content \in DOMAIN blobs
Known(content) == content \in DOMAIN blobs /\ blobs[content]
Free(content) == content \notin DOMAIN blobs

Copied(i, path, content) ==
    Goes(i, [Advanced(i) EXCEPT
      !.scripts = [p \in DOMAIN @ \cup {path} |-> IF p = path THEN content ELSE @[p]],
      !.read = @ \cup {[content |-> content, from |-> version.cache]}])

\* store_script, for a path that is new to the snapshot: an intact blob is taken as it
\* is and a missing one is written.
Stores(i) ==
    /\ capture[i].at = "read"
    /\ LET path    == Head(capture[i].entries)
           content == Content(version.cache, Package(i), path)
       IN  /\ path \notin DOMAIN capture[i].scripts
           /\ \/ Known(content) /\ UNCHANGED blobs
              \/ Free(content) /\ blobs' = [c \in DOMAIN blobs \cup {content} |->
                                              IF c = content THEN TRUE ELSE blobs[c]]
           /\ Copied(i, path, content)
    /\ UNCHANGED <<version, manifests, owner, troubles>>

\* A blob that is damaged or cannot be written ends the visit of the package.
StoreFails(i) ==
    /\ capture[i].at = "read"
    /\ LET path    == Head(capture[i].entries)
           content == Content(version.cache, Package(i), path)
       IN  /\ path \notin DOMAIN capture[i].scripts
           /\ IF Known(content) \/ Free(content) THEN Trouble ELSE UNCHANGED troubles
    /\ Goes(i, [NextPackage(i) EXCEPT !.errors = @ \cup {"package"}])
    /\ UNCHANGED <<version, blobs, manifests, owner>>

\* A path seen in an earlier package, or a resource that cannot be read.
Skips(i) ==
    /\ capture[i].at = "read"
    /\ IF Head(capture[i].entries) \in DOMAIN capture[i].scripts THEN UNCHANGED troubles ELSE Trouble
    /\ Goes(i, [Advanced(i) EXCEPT !.errors = @ \cup {Head(capture[i].entries)}])
    /\ UNCHANGED <<version, blobs, manifests, owner>>

ChangedExecutable(i) == version.executable # capture[i].executable
Changed(i) == version.cache # capture[i].before \/ version.executable # capture[i].executable

\* The files are looked at once more.
Checks(i) ==
    /\ capture[i].at = "visit" /\ capture[i].left = {}
    /\ Goes(i, [capture[i] EXCEPT !.at = "publish",
                                  !.errors = @ \cup (IF Changed(i) THEN {"source"} ELSE {})])
    /\ UNCHANGED <<version, blobs, manifests, owner, troubles>>

\* write_new_json.
Publishes(i) ==
    /\ capture[i].at = "publish"
    /\ LET c == capture[i] IN
         manifests' = [n \in DOMAIN manifests \cup {c.name} |->
           IF n = c.name THEN [scripts |-> c.scripts, read |-> c.read, errors |-> c.errors,
                               executable |-> c.executable]
           ELSE manifests[n]]
    /\ Ends(i)
    /\ UNCHANGED <<version, blobs, troubles>>

\* The process is killed, or the manifest cannot be written: the lock goes with it.
Dies(i) ==
    /\ capture[i].at # "idle" /\ Trouble
    /\ Ends(i)
    /\ UNCHANGED <<version, blobs, manifests>>

---------------------------------------------------------------------------
(* The world                                                               *)

\* The launcher replaces the game's files one by one.
Updates ==
    /\ \E f \in {"cache", "executable"} :
         version[f] < MaxVersion /\ version' = [version EXCEPT ![f] = @ + 1]
    /\ UNCHANGED <<blobs, manifests, owner, capture, troubles>>

Damages ==
    /\ Trouble
    /\ \E c \in DOMAIN blobs : blobs' = [blobs EXCEPT ![c] = FALSE]
    /\ UNCHANGED <<version, manifests, owner, capture>>

CorpusInit ==
    /\ version = [cache |-> 1, executable |-> 1] /\ blobs = <<>> /\ manifests = <<>>
    /\ owner = NoOne /\ capture = [i \in Inspectors |-> Asleep] /\ troubles = 0

Captures(i) ==
    \/ Starts(i) \/ Lists(i) \/ Stamps(i) \/ Opens(i) \/ Stores(i) \/ StoreFails(i) \/ Skips(i)
    \/ Checks(i) \/ Publishes(i) \/ Dies(i)
CorpusNext == (\E i \in Inspectors : Captures(i)) \/ Updates \/ Damages

CorpusSpec == CorpusInit /\ [][CorpusNext]_corpusVars

---------------------------------------------------------------------------
(* Properties of captures                                                  *)

\* Every variable keeps its type, and who works holds the workspace.
CorpusTypeOK ==
    /\ version \in [{"cache", "executable"} -> 1..MaxVersion]
    /\ \A c \in DOMAIN blobs : blobs[c] \in BOOLEAN
    /\ DOMAIN manifests \subseteq SnapshotNames
    /\ \A i \in Inspectors : capture[i].at # "idle" <=> owner = i
    /\ troubles \in 0..MaxTroubles

\* load and read_script: the bytes the snapshot names, or an error.
Readable(n, path) == blobs[manifests[n].scripts[path]]

\* A snapshot that does not say that the game's files changed is of one version of
\* the cache; whatever was killed or updated meanwhile, all it names was stored, and
\* each script is accounted for: it is there or an error names it or its package.
SnapshotsStand ==
    \A n \in DOMAIN manifests :
      LET m == manifests[n] IN
      /\ \A p \in DOMAIN m.scripts : m.scripts[p] \in DOMAIN blobs
      /\ "source" \notin m.errors => \A r, s \in m.read : r.from = s.from
      /\ "package" \notin m.errors => {"x", "y"} \subseteq DOMAIN m.scripts \cup m.errors

\* A capture builds only on blobs it has found or made intact: a new snapshot cannot be
\* read only if the disk damaged a blob after it was stored.
AddsIntact ==
    \A i \in Inspectors :
      \A path \in DOMAIN capture'[i].scripts \ DOMAIN capture[i].scripts :
        blobs'[capture'[i].scripts[path]]

BuildsOnIntact == [][AddsIntact]_corpusVars

---------------------------------------------------------------------------
(* Comparisons                                                             *)

Prototype == [code : {1, 2}, atom : {1, 2}]
Scripts   == UNION {[1..n -> Prototype] : n \in 0..MaxPrototypes}
NoPair    == [old |-> <<>>, new |-> <<>>, main |-> TRUE, layout |-> TRUE, bytes |-> TRUE]
NoChange  == [status |-> "", matched |-> 0, anonymous |-> 0, matches |-> {}]

Bodies(script)    == script
Anonymous(script) == [i \in DOMAIN script |-> script[i].code]

\* common_bodies: each body of the one uses up a body of the other.
CommonAgain(old, new) == Cardinality({i \in DOMAIN new : \E j \in DOMAIN old : old[j] = new[i]})
Common(old, new) ==
    LET Use(body, left) == IF BagIn(body, left.bodies)
                           THEN [bodies |-> left.bodies (-) SetToBag({body}), count |-> left.count + 1]
                           ELSE left
        Bag(s) == [b \in {s[i] : i \in DOMAIN s} |-> Cardinality({i \in DOMAIN s : s[i] = b})]
    IN  FoldRight(Use, new, [bodies |-> Bag(old), count |-> 0]).count

Once(s, i) == \A j \in DOMAIN s : s[j] = s[i] => j = i

\* compare_parsed.
Status(p) ==
    IF p.main /\ Bodies(p.old) = Bodies(p.new)
    THEN IF ~p.layout THEN "metadata_or_layout_changed"
         ELSE IF p.bytes THEN "unchanged" ELSE "opcode_encoding_only"
    ELSE IF p.main /\ Anonymous(p.old) = Anonymous(p.new) THEN "atom_rebinding"
    ELSE "code_or_constants_changed"

Compared(p) ==
    LET old == Anonymous(p.old)  new == Anonymous(p.new) IN
    [status    |-> Status(p),
     matched   |-> Common(Bodies(p.old), Bodies(p.new)),
     anonymous |-> Common(old, new),
     matches   |-> {m \in (DOMAIN old) \X (DOMAIN new) :
                      old[m[1]] = new[m[2]] /\ Once(old, m[1]) /\ Once(new, m[2])}]

Review(status) == status \notin {"unchanged", "opcode_encoding_only"}

\* compare_script: in both snapshots, in one of them, or not to be read.
Compare ==
    /\ phase = "script" /\ todo # {} /\ phase' = "depends"
    /\ \/ \E old \in Scripts : \E new \in {s \in Scripts : Len(old) + Len(s) <= MaxPrototypes} :
          \E main, layout, bytes \in BOOLEAN :
            /\ (bytes => layout) /\ (layout => main /\ old = new)  \* the one implies the other
            /\ pair' = [old |-> old, new |-> new, main |-> main, layout |-> layout, bytes |-> bytes]
            /\ change' = Compared(pair')
       \/ /\ pair' = NoPair
          /\ \E s \in {"not_in_target_snapshot", "not_in_baseline_snapshot", "unsupported_or_corrupt"} :
               change' = [NoChange EXCEPT !.status = s]
    /\ UNCHANGED <<todo, changes, pending, followed, review>>

\* What either version may depend on; an instruction that is not known makes it corrupt.
Depend ==
    /\ phase = "depends" /\ phase' = "script"
    /\ LET path == CHOOSE p \in todo : TRUE IN
         /\ todo' = todo \ {path}
         /\ \E depends \in SUBSET (Paths \cup {Lost}), s \in {change.status, "unsupported_or_corrupt"} :
              changes' = [p \in DOMAIN changes \cup {path} |->
                IF p = path THEN [status |-> s, depends |-> depends] ELSE changes[p]]
    /\ pair' = NoPair /\ change' = NoChange
    /\ UNCHANGED <<pending, followed, review>>

---------------------------------------------------------------------------
(* A feature                                                               *)

StartFeature ==
    /\ phase = "script" /\ todo = {} /\ phase' = "feature"
    /\ \E first \in Paths \cup {Lost} : pending' = <<first>>
    /\ UNCHANGED <<todo, pair, change, changes, followed, review>>

\* The last one is taken; one that was followed before is not followed again.
Dependencies(path) == SetToSeq(changes[path].depends)

Follow ==
    /\ phase = "feature" /\ pending # <<>>
    /\ LET path == Last(pending) IN
         /\ followed' = followed \cup {path}
         /\ IF path \in followed THEN pending' = Front(pending) /\ UNCHANGED review
            ELSE IF path \in DOMAIN changes
            THEN /\ pending' = Front(pending) \o Dependencies(path)
                 /\ review' = IF Review(changes[path].status) THEN review \cup {path} ELSE review
            ELSE pending' = Front(pending) /\ review' = review \cup {path}
    /\ UNCHANGED <<phase, todo, pair, change, changes>>

Report ==
    /\ phase = "feature" /\ pending = <<>> /\ phase' = "reported"
    /\ UNCHANGED <<todo, pair, change, changes, pending, followed, review>>

CompareInit ==
    /\ phase = "script" /\ todo = Paths /\ pair = NoPair /\ change = NoChange
    /\ changes = <<>> /\ pending = <<>> /\ followed = {} /\ review = {}

CompareNext == Compare \/ Depend \/ StartFeature \/ Follow \/ Report
CompareSpec == CompareInit /\ [][CompareNext]_cmpVars

---------------------------------------------------------------------------
(* Properties of comparisons                                               *)

CompareTypeOK ==
    /\ phase \in {"script", "depends", "feature", "reported"}
    /\ DOMAIN changes \subseteq Paths /\ todo \subseteq Paths
    /\ followed \subseteq Paths \cup {Lost} /\ review \subseteq followed

Copies(s, b) == Cardinality({i \in DOMAIN s : s[i] = b})

\* A script that need not be looked at does the same as before; the prototypes matched are
\* as many as the two have in common, however often one is repeated, and a pair of them is
\* named only if it cannot be another.
MatchesAreTrue ==
    phase = "depends" /\ pair # NoPair =>
      /\ ~Review(change.status) => pair.main /\ pair.old = pair.new
      /\ change.matched = MapThenSumSet(
           LAMBDA b : Min({Copies(pair.old, b), Copies(pair.new, b)}), Prototype)
      /\ change.matched <= change.anonymous
      /\ \A m, n \in change.matches : m[1] = n[1] <=> m[2] = n[2]

\* A feature is told to need no review only if every script that it reaches, however it
\* gets there and whatever cycles there are, was captured and needs none.
FeaturesAreFollowed ==
    phase = "reported" =>
      /\ \A p \in followed \cap DOMAIN changes : changes[p].depends \subseteq followed
      /\ \A p \in followed : p \notin review =>
           p \in DOMAIN changes /\ changes[p].status \in {"unchanged", "opcode_encoding_only"}

ChangesAreFound == MatchesAreTrue /\ FeaturesAreFollowed
==============================================================================
