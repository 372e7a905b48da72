----------------------------- MODULE MemoryReads -----------------------------
(***************************************************************************)
(* wfcompanion reads the inventory and the account out of the memory of the *)
(* game while the game goes on changing it (game_observer/inventory.rs,     *)
(* game_observer/account.rs).  There is no lock: a reader follows pointers, *)
(* reads everything, then reads it again, and gives up on any difference.   *)
(*                                                                          *)
(* Memory is cells: a value, or the header of a vector or string, or what   *)
(* the header points at.  A cell has a version, its bytes; the bytes of one *)
(* cell never come back.  A cell is found through another one, its parent;  *)
(* through a pointer that is no longer in use a reader finds anything.      *)
(***************************************************************************)
EXTENDS EvidenceConstants

Value(name) == [name |-> name, part |-> "value"]
Header(name) == [name |-> name, part |-> "header"]
Data(name) == [name |-> name, part |-> "data"]

\* inventory::Reader::read.  Vector::verify looks at the bytes first, then at the header.
\* Between them jobs() follows the rows of "pending" to the strings that are stored apart.
ReadInventory ==
  <<Value("profile"), Value("sync"),
    Header("misc"), Data("misc"), Header("recipes"), Data("recipes"), Header("pending"), Data("pending"),
    Data("target"), Data("fingerprint"),
    Data("misc"), Header("misc"), Data("recipes"), Header("recipes"), Data("pending"), Header("pending"),
    Value("profile"), Value("sync")>>

\* account::Reader::read and engine_string, for an identifier that is stored apart and for
\* one within the profile; it is the one of the platform, or the primary one when that of
\* the platform is empty.
ReadAccount ==
  <<Value("manager"), Header("profiles"), Data("profiles"), Value("primary"), Value("identity"),
    Header("id"), Data("id"),
    Header("id"), Value("primary"), Value("identity"), Data("profiles"), Header("profiles"),
    Value("manager")>>

ReadShortAccountOnce ==
  <<Value("manager"), Header("profiles"), Data("profiles"), Value("primary"), Value("identity"),
    Header("id")>>

ReadShortAccount ==
  <<Value("manager"), Header("profiles"), Data("profiles"), Value("primary"), Value("identity"),
    Header("id"),
    Value("primary"), Value("identity"), Data("profiles"), Header("profiles"), Value("manager")>>

ReadPrimaryAccount ==
  <<Value("manager"), Header("profiles"), Data("profiles"), Value("primary"), Value("identity"),
    Header("platform"), Header("id"), Data("id"),
    Header("id"), Value("primary"), Value("identity"), Data("profiles"), Header("profiles"),
    Value("manager")>>

ReadShortPrimaryAccount ==
  <<Value("manager"), Header("profiles"), Data("profiles"), Value("primary"), Value("identity"),
    Header("platform"), Header("id"),
    Value("primary"), Value("identity"), Data("profiles"), Header("profiles"), Value("manager")>>

Readers == {"inventory", "account", "shortAccount", "primaryAccount", "shortPrimaryAccount"}
Plan(r) == CASE r = "inventory" -> ReadInventory
             [] r = "account" -> ReadAccount
             [] r = "shortAccount" -> ReadShortAccount
             [] r = "primaryAccount" -> ReadPrimaryAccount
             [] r = "shortPrimaryAccount" -> ReadShortPrimaryAccount
Cells(r) == {Plan(r)[k] : k \in 1..Len(Plan(r))}

\* Read once, and neither compared again nor the last to be read: the strings of the jobs, and
\* the empty identifier of the platform.
Unchecked == {Data("target"), Data("fingerprint"), Header("platform")}

\* The cell that holds the address of another one, and all cells on the way to it.
Roots == {Value("profile"), Value("manager")}
Parent(c) ==
  CASE c \in Roots -> c
    [] c \in {Data("target"), Data("fingerprint")} -> Data("pending")
    [] c.part = "data" /\ c.name \notin {"target", "fingerprint"} -> Header(c.name)
    [] c = Value("primary") -> Data("profiles")
    [] c = Header("profiles") -> Value("manager")
    [] c \in {Value("identity"), Header("id"), Header("platform")} -> Value("primary")
    [] OTHER -> Value("profile")

\* No way is longer than that to the bytes of an identifier that is stored apart.
Path(c) ==
  LET p == Parent(c)
      q == Parent(p)
      r == Parent(q)
      s == Parent(r)
  IN  {c, p, q, r, s, Parent(s)}

VARIABLES
  reader,   \* who reads
  memory,   \* per cell its version
  clock,    \* versions so far
  step,     \* how far the reader is, 0: it does not read
  seen,     \* per cell what it has read
  middle,   \* the memory when it read the last cell that is new to it, the unchecked left out
  result,   \* what it has returned, its middle, and whether the game has another profile by now
  reads     \* counts towards MaxReads

readerVars == <<reader, memory, clock, step, seen, middle, result, reads>>

NoResult == [cells |-> <<>>, middle |-> <<>>, replaced |-> FALSE]
Profile == {Value("profile"), Value("primary")}
Garbage == MaxChanges + 1

(***************************************************************************)
(* The game.                                                               *)
(***************************************************************************)
\* A change of a pointer is one of everything behind it, too.
Changes ==
  /\ clock < MaxChanges /\ clock' = clock + 1
  /\ \E c \in Cells(reader) :
       memory' = [d \in Cells(reader) |-> IF c \in Path(d) THEN clock' ELSE memory[d]]
  /\ UNCHANGED <<reader, step, seen, middle, result, reads>>

(***************************************************************************)
(* The reader.                                                             *)
(***************************************************************************)
\* What a read of a cell finds.  Garbage may well be the same the second time.
Found(c) ==
  IF c \in Roots \/ seen[Parent(c)] = memory[Parent(c)] THEN memory[c]
  ELSE IF c \in DOMAIN seen THEN seen[c] ELSE Garbage

StartsReading ==
  /\ step = 0 /\ reads < MaxReads
  /\ step' = 1 /\ reads' = reads + 1
  /\ seen' = <<>> /\ middle' = <<>> /\ result' = NoResult
  /\ UNCHANGED <<reader, memory, clock>>

\* The first read of a cell is kept, the second compared; reads of garbage fail, too.
Reads ==
  /\ step \in 1..Len(Plan(reader))
  /\ LET c == Plan(reader)[step]
     IN  IF c \notin DOMAIN seen
           THEN /\ seen' = [d \in DOMAIN seen \cup {c} |-> IF d = c THEN Found(c) ELSE seen[d]]
                /\ middle' = IF c \in Unchecked THEN middle ELSE memory
                /\ step' = step + 1
           ELSE /\ step' = IF seen[c] = Found(c) THEN step + 1 ELSE 0
                /\ UNCHANGED <<seen, middle>>
  /\ UNCHANGED <<reader, memory, clock, result, reads>>

Returns ==
  /\ step = Len(Plan(reader)) + 1
  /\ step' = 0
  /\ result' = [cells |-> seen, middle |-> middle,
                 replaced |-> \E c \in Profile \cap Cells(reader) : memory[c] # seen[c]]
  /\ UNCHANGED <<reader, memory, clock, seen, middle, reads>>

\* A read fails: the process is gone, or what was read makes no sense.
ReadFails ==
  /\ step # 0 /\ step' = 0
  /\ UNCHANGED <<reader, memory, clock, seen, middle, result, reads>>

(***************************************************************************)
(* The specification.                                                      *)
(***************************************************************************)
ReadsInit ==
  /\ reader \in Readers
  /\ memory = [c \in Cells(reader) |-> 0] /\ clock = 0
  /\ step = 0 /\ seen = <<>> /\ middle = <<>> /\ result = NoResult /\ reads = 0

ReadsNext == Changes \/ StartsReading \/ Reads \/ Returns \/ ReadFails

ReadsSpec == ReadsInit /\ [][ReadsNext]_readerVars

(***************************************************************************)
(* Properties.                                                             *)
(***************************************************************************)
ReadsTypeOK ==
  /\ reader \in Readers
  /\ memory \in [Cells(reader) -> 0..clock] /\ clock \in 0..MaxChanges
  /\ step \in 0..(Len(Plan(reader)) + 1)
  /\ DOMAIN seen \subseteq Cells(reader)
  /\ reads \in 0..MaxReads

\* What a reader returns is what the game had at one moment while it read: never the
\* stacks of before a change and the jobs of after, never the name of one account found
\* through the profile of another.  Except for a profile that was replaced meanwhile:
\* the second look at its sync or identity comes after that at the pointer to it.  And except
\* for what is read once: a job may have the target or fingerprint of another moment, an
\* account the primary identifier although the platform has one by then.  But these, too,
\* are what the rows or the profile of that moment pointed at, never what is left behind a
\* pointer that is no longer in use.
OneMoment ==
  result # NoResult =>
    \/ \A c \in DOMAIN result.cells :
         IF c \in Unchecked THEN result.cells[c] # Garbage
                           ELSE result.cells[c] = result.middle[c]
    \/ result.replaced

=============================================================================
