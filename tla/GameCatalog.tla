----------------------------- MODULE GameCatalog -----------------------------
(***************************************************************************)
(* What wfcompanion learns of the game's equipment from its memory         *)
(* (game_observer/metadata.rs): the registry of globals leads to the rules *)
(* of the game, these to the manifest of the store; its items become the   *)
(* catalog, and the inheritance of resources says which of them are        *)
(* variants of one another.                                                *)
(*                                                                         *)
(* The game goes on while it is read, and what was guessed from the layout *)
(* of another version may be no manifest at all: pointers, kinds and       *)
(* parents are whatever they are.  A number is an address; 0 is null.  An  *)
(* item's path is its place in the store, and a resource has the path of   *)
(* the first item that refers to it.                                       *)
(***************************************************************************)
EXTENDS EvidenceConstants, Naturals, Sequences, FiniteSets, FiniteSetsExt

VARIABLES registry,   \* the holders under the key of the game's rules
          moves,
          parent,     \* resource |-> parent
          variants,   \* resource |-> what it is a variant of
          based,      \* the resources named as a base
          stage,      \* what the capture does next, "done" or "failed"
          holders,    \* the registry as first read
          holder,     \* what it took from there
          stood,      \* the registry was still that one
          items,      \* the items read
          place,      \* how many of them are sorted
          catalog,    \* pool |-> items
          owned,      \* the suits and the weapons
          aliases,    \* of weapons: item |-> resource
          groups      \* of suits: <<item, group>>

world   == <<parent, variants, based>>
found   == <<holders, holder, stood>>
sorted  == <<place, catalog, owned, aliases, groups>>
catVars == <<registry, moves, world, stage, found, items, sorted>>

Pools == {"suits", "weapons"}
Item  == {i \in [pool : Pools, resource : 3..Resources, excluded : BOOLEAN, special : BOOLEAN] :
            i.special => i.pool = "weapons"}
Fails == stage' = "failed"

---------------------------------------------------------------------------
(* global_object                                                           *)

\* Nobody looks at the registry later.
RegistryMoves ==
    /\ stage \in {"registry", "again"} /\ moves < MaxMoves /\ moves' = moves + 1
    /\ registry' \in {<<>>, <<0>>, <<2>>, <<1, 2>>}
    /\ UNCHANGED <<world, stage, found, items, sorted>>

ReadRegistry ==
    /\ stage = "registry" /\ stage' = "again" /\ holders' = registry
    /\ UNCHANGED <<registry, moves, world, holder, stood, items, sorted>>

LookedAtOnce == Len(holders) = 1
Unmoved == registry = holders

\* The registry is read again: it must be as it was, and name one holder.
ReadAgain ==
    /\ stage = "again"
    /\ IF Len(holders) = 1 /\ holders[1] # 0 /\ Unmoved
       THEN stage' = "manifest" /\ holder' = holders[1] /\ stood' = (registry = holders)
       ELSE Fails /\ UNCHANGED <<holder, stood>>
    /\ holders' = <<>>
    /\ UNCHANGED <<registry, moves, world, items, sorted>>

---------------------------------------------------------------------------
(* store_manifest                                                          *)

\* The objects visited from a field of the rules: none points to itself.
Visited(points, field) ==
    LET visit[n \in 0..MaxHops] ==
          IF n = 0 THEN field
          ELSE LET last == visit[n - 1] IN
               IF last = 0 THEN 0 ELSE IF points[last] = last THEN 0 ELSE points[last]
    IN  {visit[n] : n \in 0..MaxHops} \ {0}

\* What is reached, inherits from the type of the manifest and has a sound vector; there must
\* be exactly one.
FindManifest ==
    /\ stage = "manifest"
    /\ \E points \in [1..Objects -> 0..Objects], manifests, fields \in SUBSET (1..Objects) :
         LET candidates == UNION {Visited(points, f) : f \in fields} \cap manifests IN
         IF Cardinality(candidates) = 1 THEN stage' = "items" ELSE Fails
    /\ UNCHANGED <<registry, moves, world, found, items, sorted>>

\* read_store_entries: empty places and other categories are passed over.
ReadItem ==
    /\ stage = "items" /\ Len(items) < MaxItems
    /\ \E i \in Item : items' = Append(items, i)
    /\ UNCHANGED <<registry, moves, world, stage, found, sorted>>

\* read_variant_manifest: the best candidate, if no other is as good.
ReadVariants ==
    /\ stage = "items"
    /\ \/ stage' = "sort" \/ Fails
    /\ UNCHANGED <<registry, moves, world, found, items, sorted>>

---------------------------------------------------------------------------
(* The inheritance of resources                                            *)

\* descriptor_chain: from a resource to the root; a resource that comes again is an error.
Chain(resource) ==
    LET chain[n \in 1..Resources + 1] ==
          IF n = 1 THEN <<resource>>
          ELSE LET c == chain[n - 1] IN
               IF parent[c[Len(c)]] = 0 THEN c ELSE Append(c, parent[c[Len(c)]])
    IN  chain[Resources + 1]
Endless(chain) == Cardinality({chain[i] : i \in DOMAIN chain}) < Len(chain)

Hits(chain) == {i \in DOMAIN chain : chain[i] \in DOMAIN variants}

\* variant_target_from_chain: the nearest resource that is a variant, unless a base or the
\* end of the weapons comes before it.
TargetPastBase(chain) ==
    LET hits == Hits(chain) IN IF hits = {} THEN 0 ELSE variants[chain[Min(hits)]]
Target(chain) ==
    LET hits == Hits(chain)
        Stops(i) == \/ chain[i] \in based
                    \/ ~\E w \in DOMAIN chain : chain[w] = 1 /\ w >= i
    IN  IF hits = {} THEN 0
        ELSE IF \E i \in 1..Min(hits) - 1 : Stops(i) THEN 0 ELSE variants[chain[Min(hits)]]

\* The resource right below PlayerPowerSuit.
Below(chain) ==
    IF \E i \in 2..Len(chain) : chain[i] = 2
    THEN chain[Min({i \in 2..Len(chain) : chain[i] = 2}) - 1] ELSE 0

---------------------------------------------------------------------------
(* build_archimedea                                                        *)

Put(pool, item) == catalog' = [catalog EXCEPT ![pool] = @ \cup {item}]

SortSuit(n, item) ==
    /\ owned' = owned \cup {n}
    /\ IF item.excluded THEN UNCHANGED catalog ELSE Put("suits", n)
    /\ UNCHANGED aliases

\* A weapon is owned under the name of what it is a variant of; special ones (Prime, event
\* or starter weapons) are in no pool.
SortWeapon(n, item) ==
    LET target == Target(Chain(item.resource)) IN
    /\ IF target # 0 /\ ~item.excluded
       THEN owned' = owned \cup {n} /\ aliases' = aliases \cup {<<n, target>>}
       ELSE UNCHANGED <<owned, aliases>>
    /\ IF item.excluded \/ item.special THEN UNCHANGED catalog ELSE Put("weapons", n)

Sort ==
    /\ stage = "sort" /\ place < Len(items)
    /\ LET n == place + 1  item == items[n] IN
         IF item.pool = "suits"
         THEN SortSuit(n, item) /\ place' = n /\ UNCHANGED stage
         ELSE IF ~item.excluded /\ Endless(Chain(item.resource))
         THEN Fails /\ UNCHANGED <<place, catalog, owned, aliases>>
         ELSE SortWeapon(n, item) /\ place' = n /\ UNCHANGED stage
    /\ UNCHANGED <<registry, moves, world, found, items, groups>>

CheckPools ==
    /\ stage = "sort" /\ place = Len(items) /\ place' = 0
    /\ IF \A p \in Pools : Cardinality(catalog[p]) >= MinPool THEN stage' = "suits" ELSE Fails
    /\ UNCHANGED <<registry, moves, world, found, items, catalog, owned, aliases, groups>>

\* suit_aliases: every suit's group, one that is excluded included.
Group ==
    /\ stage = "suits" /\ place < Len(items)
    /\ LET n == place + 1  chain == Chain(items[n].resource) IN
         IF items[n].pool # "suits" THEN place' = n /\ UNCHANGED <<stage, groups>>
         ELSE IF Endless(chain) THEN Fails /\ UNCHANGED <<place, groups>>
         ELSE /\ place' = n /\ UNCHANGED stage
              /\ groups' = IF Below(chain) = 0 THEN groups ELSE Append(groups, <<n, Below(chain)>>)
    /\ UNCHANGED <<registry, moves, world, found, items, catalog, owned, aliases>>

Publish ==
    /\ stage = "suits" /\ place = Len(items) /\ stage' = "done"
    /\ UNCHANGED <<registry, moves, world, found, items, sorted>>

\* suit_aliases_from_groups: each to the first of its group.
SuitAliases ==
    {<<groups[j][1], groups[i][1]>> : <<i, j>> \in
       {<<i, j>> \in (DOMAIN groups) \X (DOMAIN groups) :
          i < j /\ groups[i][2] = groups[j][2] /\ \A k \in 1..i - 1 : groups[k][2] # groups[i][2]}}

CatalogInit ==
    /\ registry = <<1>> /\ moves = 0
    /\ \E p \in [3..Resources -> 0..Resources] :
         parent = [r \in 1..Resources |-> IF r \in 1..2 THEN 0 ELSE p[r]]
    /\ variants \in {<<>>} \cup [{1} -> {3}] \cup [{Resources} -> {3}]
    /\ based \in SUBSET {Resources}
    /\ stage = "registry" /\ holders = <<>> /\ holder = 0 /\ stood = TRUE /\ items = <<>>
    /\ place = 0 /\ catalog = [p \in Pools |-> {}] /\ owned = {} /\ aliases = {} /\ groups = <<>>

CatalogNext ==
    \/ RegistryMoves \/ ReadRegistry \/ ReadAgain \/ FindManifest \/ ReadItem \/ ReadVariants
    \/ Sort \/ CheckPools \/ Group \/ Publish

CatalogSpec == CatalogInit /\ [][CatalogNext]_catVars

---------------------------------------------------------------------------
(* Properties                                                              *)

CatalogTypeOK ==
    /\ stage \in {"registry", "again", "manifest", "items", "sort", "suits", "done", "failed"}
    /\ place \in 0..Len(items) /\ Len(items) <= MaxItems
    /\ owned \subseteq DOMAIN items /\ UNION {catalog[p] : p \in Pools} \subseteq DOMAIN items

Inherits(resource) ==
    LET up[n \in 0..Resources] ==
          IF n = 0 THEN {resource} ELSE up[n - 1] \cup ({parent[r] : r \in up[n - 1] \ {0}} \ {0})
    IN  up[Resources]

\* Whatever moves while the game is read and however its resources inherit, a catalog that
\* is published is of a registry that stood while it was looked at; every item is in the
\* pool it belongs to; two suits stand for one another if and only if they derive from one
\* resource below PlayerPowerSuit, and then for one that stands for itself; a weapon stands
\* for a variant that it or an ancestor nearer than any base resource is listed under.
CatalogMeansIt ==
    /\ holder # 0 => stood
    /\ stage = "done" =>
         /\ \A n \in DOMAIN items : items[n].pool = "suits" =>
              (n \in catalog["suits"] <=> ~items[n].excluded)
         /\ \A i, j \in DOMAIN items :
              i < j /\ items[i].pool = "suits" /\ items[j].pool = "suits" =>
                LET Families(n) == {r \in Inherits(items[n].resource) : parent[r] = 2} IN
                Families(i) \cap Families(j) # {} <=>
                  \E k \in 1..i : <<j, k>> \in SuitAliases /\ (k = i \/ <<i, k>> \in SuitAliases)
         /\ \A a, b \in SuitAliases : a[2] # b[1]
         /\ \A a \in aliases : \E r \in Inherits(items[a[1]].resource) \cap DOMAIN variants :
              /\ variants[r] = a[2]
              /\ ~\E b \in based \cap Inherits(items[a[1]].resource) : b # r /\ r \in Inherits(b)
=============================================================================
