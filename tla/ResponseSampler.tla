--------------------------- MODULE ResponseSampler ---------------------------
(***************************************************************************)
(* How wfcompanion takes inventories from the HTTP response the game keeps   *)
(* in memory (observation/gep.rs, game_observer/gep.rs) and decodes them     *)
(* (inventory.rs).  A thread looks at the response every 7 ms and puts what  *)
(* has changed into a mailbox that drops its oldest entries rather than make *)
(* the thread wait; another thread decodes.                                  *)
(*                                                                           *)
(* The response is text the game overwrites while it is read, in Pieces that *)
(* are read one by one; each has the number of the response it is of.  It is *)
(* found directly or through one more pointer; both are read the same way,   *)
(* and one of them is modelled.                                              *)
(***************************************************************************)
EXTENDS CompanionConstants, Naturals, Sequences, FiniteSets, SequencesExt

VARIABLES
  text,        \* the response in memory
  at,          \* its address, 0: there is none
  account,     \* the account in memory, 0: not to be read
  current,     \* the game runs
  stopping,    \* the sampler is to stop
  parses,      \* mixtures of two responses are valid JSON
  phase,       \* the sampler: "wait", "look", "compare", "read", "done"
  place,       \* the address it looks at
  got,         \* what it has read of it
  remembered,  \* the address and text of the last response it has found
  known,       \* the account it has found, and whether it is to report on it
  recheck,     \* entries were dropped: what is in memory is to be found again
  emits,       \* what it is about to send
  mailbox,     \* what the decoder has not taken
  decoder,     \* "runs" or "done"
  decoded,     \* the texts accepted
  published,   \* the last one published
  heard        \* the account last published, and the last state of it

samplerGame == <<text, at, account, current, stopping, parses>>
samplerThread == <<phase, place, got, remembered, known, recheck, emits>>
samplerVars ==
  <<samplerGame, samplerThread, mailbox, decoder, decoded, published, heard>>

Text == [1..Pieces -> 0..MaxResponses]
Payload(t) == [kind |-> "payload", text |-> t]
State(a) == [kind |-> "state", available |-> a # 0]
Account(a) == [kind |-> "account", seed |-> a]
Nowhere == [address |-> 0, text |-> <<>>]

(***************************************************************************)
(* The game.                                                               *)
(***************************************************************************)
Latest == IF at = 0 THEN 0 ELSE Max({text[i] : i \in 1..Pieces})

\* It overwrites the next piece, or begins with another response, here or elsewhere.
Overwrites ==
  /\ \/ /\ \E i \in 1..Pieces : text[i] < Latest /\ text' = [text EXCEPT ![i] = Latest]
        /\ UNCHANGED at
     \/ /\ text[Pieces] < MaxResponses
        /\ \A i \in 1..Pieces : text[i] = text[Pieces]
        /\ \/ /\ at # 0 /\ text' = [text EXCEPT ![1] = text[Pieces] + 1] /\ UNCHANGED at
           \/ /\ text' = [i \in 1..Pieces |-> text[Pieces] + 1] /\ at' = at + 1
  /\ UNCHANGED <<account, current, stopping, parses>>
  /\ UNCHANGED <<samplerThread, mailbox, decoder, decoded, published, heard>>

AccountChanges ==
  /\ account < MaxAccounts /\ account' = account + 1
  /\ UNCHANGED <<text, at, current, stopping, parses>>
  /\ UNCHANGED <<samplerThread, mailbox, decoder, decoded, published, heard>>

\* The game ends, or the observer stops the collector.
Ends ==
  /\ \/ current /\ current' = FALSE /\ UNCHANGED stopping
     \/ ~stopping /\ stopping' = TRUE /\ UNCHANGED current
  /\ UNCHANGED <<text, at, account, parses>>
  /\ UNCHANGED <<samplerThread, mailbox, decoder, decoded, published, heard>>

(***************************************************************************)
(* The mailbox.                                                            *)
(***************************************************************************)
IsLarge(s) == s.kind = "payload" /\ s.text[1] \in Large
Bytes(q) == Cardinality({i \in DOMAIN q : IsLarge(q[i])})
Fits(q, s) == Len(q) < MaxSamples /\ ~(IsLarge(s) /\ Bytes(q) > 0)

\* How many of the oldest entries make room for another.
Evicted(s) ==
  CHOOSE n \in 0..Len(mailbox) :
    /\ Fits(SubSeq(mailbox, n + 1, Len(mailbox)), s)
    /\ \A m \in 0..(n - 1) : ~Fits(SubSeq(mailbox, m + 1, Len(mailbox)), s)

DropsCounted(n) == recheck' = (recheck \/ n > 0)
DropsForgotten(n) == recheck' = recheck
Noticed(n) == DropsCounted(n)

\* The sampler never waits for the decoder.
Emits ==
  /\ emits # <<>>
  /\ LET n == Evicted(Head(emits))
     IN  /\ mailbox' = Append(SubSeq(mailbox, n + 1, Len(mailbox)), Head(emits))
         /\ Noticed(n)
  /\ emits' = Tail(emits)
  /\ UNCHANGED <<samplerGame, phase, place, got, remembered, known>>
  /\ UNCHANGED <<decoder, decoded, published, heard>>

(***************************************************************************)
(* The sampler.                                                            *)
(***************************************************************************)
\* One poll: is there room to look at everything again; what of the account is new.
Polls ==
  /\ phase = "wait" /\ emits = <<>> /\ current /\ ~stopping
  /\ LET again == recheck /\ 2 * Len(mailbox) < MaxSamples /\ Bytes(mailbox) = 0
         old == IF again THEN [seed |-> 0, pending |-> TRUE, state |-> known.state] ELSE known
         status == old.pending \/ (old.state = 0) # (account = 0)
         seed == account # 0 /\ account # old.seed
     IN  /\ recheck' = (recheck /\ ~again)
         /\ remembered' = IF again THEN [remembered EXCEPT !.address = 0] ELSE remembered
         /\ known' = [seed |-> IF seed THEN account ELSE old.seed, pending |-> FALSE,
                      state |-> account]
         /\ emits' = (IF status THEN <<State(account)>> ELSE <<>>)
                       \o (IF seed THEN <<Account(account)>> ELSE <<>>)
  /\ phase' = "look"
  /\ UNCHANGED <<samplerGame, place, got, mailbox, decoder, decoded, published, heard>>

\* It follows the pointers, and compares the text if it knows one there.
Looks ==
  /\ phase = "look" /\ emits = <<>>
  /\ place' = at /\ got' = <<>>
  /\ phase' = CASE at = 0 -> "wait"
                [] at # 0 /\ remembered.address = at -> "compare"
                [] OTHER -> "read"
  /\ UNCHANGED <<samplerGame, remembered, known, recheck, emits>>
  /\ UNCHANGED <<mailbox, decoder, decoded, published, heard>>

\* The memory of a response that has moved may hold anything, which is no response.
Piece == IF place = at THEN text[Len(got) + 1] ELSE 0

Compares ==
  /\ phase = "compare"
  /\ IF Len(got) = Pieces
       THEN /\ phase' = (IF got = remembered.text THEN "wait" ELSE "read")
            /\ got' = <<>>
       ELSE got' = Append(got, Piece) /\ UNCHANGED phase
  /\ UNCHANGED <<samplerGame, place, remembered, known, recheck, emits>>
  /\ UNCHANGED <<mailbox, decoder, decoded, published, heard>>

\* The text is remembered as it was read, torn or not; what is no inventory by the mark
\* in its first piece is not sent.
Reads ==
  /\ phase = "read"
  /\ IF Len(got) = Pieces
       THEN /\ phase' = "wait"
            /\ remembered' = [address |-> place, text |-> got]
            /\ emits' = IF got[1] \in Inventories /\ remembered' # remembered
                          THEN <<Payload(got)>> ELSE <<>>
            /\ UNCHANGED got
       ELSE got' = Append(got, Piece) /\ UNCHANGED <<phase, remembered, emits>>
  /\ UNCHANGED <<samplerGame, place, known, recheck>>
  /\ UNCHANGED <<mailbox, decoder, decoded, published, heard>>

\* The read fails.
Misses ==
  /\ phase \in {"compare", "read"} /\ place # at
  /\ phase' = "wait"
  /\ UNCHANGED <<samplerGame, place, got, remembered, known, recheck, emits>>
  /\ UNCHANGED <<mailbox, decoder, decoded, published, heard>>

SamplerEnds ==
  /\ phase = "wait" /\ emits = <<>> /\ (current => stopping)
  /\ phase' = "done"
  /\ UNCHANGED <<samplerGame, place, got, remembered, known, recheck, emits>>
  /\ UNCHANGED <<mailbox, decoder, decoded, published, heard>>

(***************************************************************************)
(* The decoder.                                                            *)
(***************************************************************************)
IsWhole(t) == \A i \in 1..Pieces : t[i] = t[1]
IsValid(t) == t[1] \in Inventories /\ (IsWhole(t) \/ (parses /\ \A i \in 1..Pieces : t[i] # 0))

\* What is no inventory is rejected and may come again, what was accepted may not.
Decodes(t) ==
  IF t \notin decoded /\ IsValid(t)
    THEN decoded' = decoded \cup {t} /\ published' = t
    ELSE UNCHANGED <<decoded, published>>

Takes ==
  /\ decoder = "runs" /\ current /\ mailbox # <<>>
  /\ mailbox' = Tail(mailbox)
  /\ LET s == Head(mailbox)
     IN  CASE s.kind = "payload" -> Decodes(s.text) /\ UNCHANGED heard
           [] s.kind = "account" -> heard' = [heard EXCEPT !.seed = s.seed]
                                    /\ UNCHANGED <<decoded, published>>
           [] s.kind = "state" -> heard' = [heard EXCEPT !.available = s.available]
                                  /\ UNCHANGED <<decoded, published>>
  /\ UNCHANGED <<samplerGame, samplerThread, decoder>>

\* The game is gone, or the mailbox is empty and closed.
DecoderEnds ==
  /\ decoder = "runs" /\ (current => (mailbox = <<>> /\ phase = "done"))
  /\ decoder' = "done"
  /\ UNCHANGED <<samplerGame, samplerThread, mailbox, decoded, published, heard>>

(***************************************************************************)
(* The specification.                                                      *)
(***************************************************************************)
SamplerInit ==
  /\ text = [i \in 1..Pieces |-> 0] /\ at = 0 /\ account = 0
  /\ current = TRUE /\ stopping = FALSE /\ parses \in BOOLEAN
  /\ phase = "wait" /\ place = 0 /\ got = <<>> /\ remembered = Nowhere
  /\ known = [seed |-> 0, pending |-> TRUE, state |-> 0]
  /\ recheck = FALSE /\ emits = <<>> /\ mailbox = <<>>
  /\ decoder = "runs" /\ decoded = {} /\ published = <<>>
  /\ heard = [seed |-> 0, available |-> FALSE]

SamplerSteps == Polls \/ Looks \/ Compares \/ Reads \/ Misses \/ Emits \/ SamplerEnds
DecoderSteps == Takes \/ DecoderEnds
SamplerNext == Overwrites \/ AccountChanges \/ Ends \/ SamplerSteps \/ DecoderSteps

\* Each is the loop of a thread.
SamplerFairness == WF_samplerVars(SamplerSteps) /\ WF_samplerVars(DecoderSteps)

SamplerSpec == SamplerInit /\ [][SamplerNext]_samplerVars /\ SamplerFairness

(***************************************************************************)
(* Properties.                                                             *)
(***************************************************************************)
\* Every variable keeps its type.
SamplerTypeOK ==
  /\ text \in Text /\ at \in 0..MaxResponses /\ account \in 0..MaxAccounts
  /\ phase \in {"wait", "look", "compare", "read", "done"} /\ Len(got) <= Pieces
  /\ remembered.address \in 0..MaxResponses
  /\ Len(mailbox) <= MaxSamples /\ Bytes(mailbox) <= 1
  /\ decoded \subseteq Text /\ decoder \in {"runs", "done"}

\* However often a response was torn or thrown out of the mailbox, the inventory and the
\* account the game goes on holding are what was published last.
Arrived ==
  current /\ ~stopping =>
    /\ IsWhole(text) /\ text[1] \in Inventories => published = text
    /\ heard.available = (account # 0) /\ (account # 0 => heard.seed = account)

=============================================================================
