---------------------------- MODULE ScriptOpcodes ----------------------------
(***************************************************************************)
(* The opcodes of the game's scripts, which every version numbers anew     *)
(* (wfcompanion inspect/luau/infer.rs and luau.rs).                        *)
(*                                                                         *)
(* Bodies of scripts that look the same in two snapshots, one with a known *)
(* profile, tell which new number stands for which old operation, and      *)
(* which new atom for which old name.  The game numbers its operations by  *)
(* OldCode and NewCode and its atoms by NewAtom, and changes the slots it  *)
(* predicts; what it leaves of a script, drops or adds is every choice.    *)
(*                                                                         *)
(* With a profile a chunk of the game's dialect of Luau is read, checked   *)
(* and written again with the opcodes every decompiler knows; an           *)
(* inspection reads the same chunk and says how far it knows it.  A chunk  *)
(* is made of counts, words of code and constants; each is what it is when *)
(* it is read, and the chunk may end anywhere.  A byte of a number has     *)
(* GroupValues values and a bit that says that more follow: 128 of them    *)
(* and ten bytes in the code, of which the last may only be 0 or 1.        *)
(***************************************************************************)
EXTENDS EvidenceConstants, Naturals, Sequences, FiniteSets, SequencesExt

VARIABLES
  \* of an inference
  inferStage, \* "scripts" or "finished"
  baseline,   \* the profile of the old version: code |-> operation
  shown,      \* what a script in both snapshots may show, to that profile
  known,      \* the profile of the new one, as far as it is known
  evidence,   \* code |-> the operations it may be
  atomPairs,  \* new atom |-> the old ones seen in its place
  faithful,   \* no script could mislead
  inferred,   \* code |-> operation
  suggested,  \* new atom |-> old one
  \* of a chunk
  format,    \* "inspect" or "decompile"
  part,      \* what is read: "count", "code", "walk", "constants", "done" or "failed"
  left,      \* bytes of the chunk that are left
  bytes,     \* of the number read
  number,    \* its value
  words,     \* of a prototype, as read
  pc,        \* the next instruction
  output,    \* the words written
  coverage,  \* instructions counted
  constants, \* how many were read
  atoms      \* those that are a number no boolean is

inferVars == <<inferStage, baseline, shown, known, evidence, atomPairs, faithful,
               inferred, suggested>>
byteVars == <<format, part, left, bytes, number, words, pc, output, coverage, constants,
              atoms>>

---------------------------------------------------------------------------
(* Inference                                                               *)

Operations == {"add", "sub", "get", "prep"}
HasAux     == {"get"}    \* the next word is data
Predicted  == {"get"}    \* its last byte is a guess of the compiler
OldCode    == [add |-> 1, sub |-> 2, get |-> 3, prep |-> 4]
NewCode    == [add |-> 2, sub |-> 3, get |-> 4, prep |-> 1]
NewAtom(a) == IF a = 0 THEN 0 ELSE 10 + a

Meaning == [c \in {NewCode[o] : o \in Operations} |-> CHOOSE o \in Operations : NewCode[o] = c]
Complete == [c \in {OldCode[o] : o \in Operations} |-> CHOOSE o \in Operations : OldCode[o] = c]
\* The old profile may lack an operation.
Baselines == {Complete, [c \in DOMAIN Complete \ {OldCode["sub"]} |-> Complete[c]]}

\* A prototype as it is compiled: its words, its parameters when it is vararg or -1, an
\* atom among its constants or 0, and whether it has no children.
Compiled(body, atom, code, slot) ==
    LET Emit(i) == LET one == [raw |-> code[i.op], arg |-> i.arg,
                               slot |-> IF i.op \in Predicted THEN slot ELSE 0]
                   IN  IF i.op \in HasAux THEN <<one, [raw |-> 1, arg |-> i.arg, slot |-> 0]>>
                       ELSE <<one>>
    IN  [words |-> FlattenSeq([k \in DOMAIN body.code |-> Emit(body.code[k])]),
         vararg |-> body.vararg, atom |-> atom, leaf |-> body.leaf]

---------------------------------------------------------------------------
(* One script in both snapshots                                            *)

\* instructions: the words that are not data of the word before.
Starts(code, profile) ==
    LET Data(w) == w.raw \in DOMAIN profile /\ profile[w.raw] \in HasAux
        start[i \in 1..Len(code)] == i = 1 \/ ~(start[i - 1] /\ Data(code[i - 1]))
    IN  {i \in 1..Len(code) : start[i]}
Readable(code, profile) ==
    \A i \in Starts(code, profile) :
      /\ code[i].raw \in DOMAIN profile
      /\ profile[code[i].raw] \in HasAux => i < Len(code)

\* operand_mask, and the data.
SameOperands(old, new, profile) ==
    \A i \in Starts(old, profile) :
      LET op == profile[old[i].raw] IN
        /\ old[i].arg = new[i].arg
        /\ op \notin Predicted => old[i].slot = new[i].slot
        /\ op \in HasAux => old[i + 1] = new[i + 1]

\* header and constants agree, atoms are not looked at.
LooksLike(old, new, profile) ==
    /\ Len(old.words) = Len(new.words) /\ new.leaf /\ old.vararg = new.vararg
    /\ old.atom = 0 <=> new.atom = 0
    /\ SameOperands(old.words, new.words, profile)

Candidates(p, new, profile) ==
    IF Len(p.words) >= MinWords /\ p.leaf /\ Readable(p.words, profile)
    THEN {j \in DOMAIN new : LooksLike(p, new[j], profile)} ELSE {}

Only(S) == CHOOSE x \in S : TRUE

\* The pairs that leave no choice on either side.
Matches(old, new, profile) ==
    LET found  == {<<i, Candidates(old[i], new, profile)>> : i \in DOMAIN old}
        unique == {f \in found : Cardinality(f[2]) = 1 /\ \A g \in found : g[2] = f[2] => g = f}
    IN  {<<f[1], Only(f[2])>> : f \in unique}

\* What the compiler emits at the entry of every vararg function.
Prologue(p) == p.vararg >= 0 /\ p.words # <<>> /\ p.words[1].arg = p.vararg /\ p.words[1].slot = 0
Prologues(old, new, profile) ==
    IF \E i \in DOMAIN old : /\ Prologue(old[i])
                             /\ old[i].words[1].raw \in DOMAIN profile
                             /\ profile[old[i].words[1].raw] = "prep"
    THEN {[raw |-> new[j].words[1].raw, op |-> "prep"] : j \in {j \in DOMAIN new : Prologue(new[j])}}
    ELSE {}

\* match_bodies: [raw, op] that a script gives evidence of.
Observed(old, new, matches, profile) ==
    Prologues(old, new, profile) \cup
    UNION {{[raw |-> new[m[2]].words[i].raw, op |-> profile[old[m[1]].words[i].raw]] :
              i \in Starts(old[m[1]].words, profile)} : m \in matches}

\* A script may mislead if something is gone from it, and something else that looks like
\* what there was is left: new, or old but unreadable in the old version.
Misleads(old, kept, extra, profile) ==
    /\ kept # DOMAIN old
    /\ \/ \E i \in DOMAIN old : Candidates(old[i], extra, profile) # {}
       \/ \E i \in DOMAIN old : ~Readable(old[i].words, profile)

\* What one script shows, of n bodies of which some are kept, and one that may be added.
Shows(source, kept, added, profile) ==
    LET old   == [i \in DOMAIN source |-> Compiled(source[i][1], source[i][2], OldCode, 0)]
        New(s) == Compiled(s[1], NewAtom(s[2]), NewCode, 1)
        extra == [i \in DOMAIN added |-> New(added[i])]
        new   == extra \o [i \in 1..Cardinality(kept) |-> New(source[SetToSortSeq(kept, <)[i]])]
        matches == Matches(old, new, profile)
    IN  [operations |-> {<<o.raw, o.op>> : o \in Observed(old, new, matches, profile)},
         atoms |-> {<<new[m[2]].atom, old[m[1]].atom>> :
                      m \in {m \in matches : old[m[1]].atom # 0}},
         misleads |-> Misleads(old, kept, extra, profile)]

\* What a script in both snapshots may show.
Shown(profile) ==
    UNION {{Shows(source, kept, added, profile) :
              kept \in SUBSET DOMAIN source,
              added \in {<<>>} \cup {<<<<b, 3>>>> : b \in ScriptBodies}} :
           source \in UNION {[1..n -> ScriptBodies \X {0, 1, 2}] : n \in 0..MaxBodies}}

Added(table, pairs) ==
    [k \in DOMAIN table \cup {p[1] : p \in pairs} |->
       (IF k \in DOMAIN table THEN table[k] ELSE {}) \cup {p[2] : p \in {p \in pairs : p[1] = k}}]

MatchBodies ==
    /\ inferStage = "scripts"
    /\ \E script \in shown :
         /\ evidence' = Added(evidence, script.operations)
         /\ atomPairs' = Added(atomPairs, script.atoms)
         /\ faithful' = (faithful /\ ~script.misleads)
    /\ UNCHANGED <<inferStage, baseline, shown, known, inferred, suggested>>

---------------------------------------------------------------------------
(* The profile that is proposed                                            *)

\* A key with one value that is no value of another key.
Unambiguous(table) ==
    {k \in DOMAIN table : /\ Cardinality(table[k]) = 1
                          /\ \A other \in DOMAIN table \ {k} : table[k] \cap table[other] = {}}

Contradicts(profile, code, op) ==
    \E c \in DOMAIN profile : (c = code \/ profile[c] = op) /\ ~(c = code /\ profile[c] = op)

Finish ==
    /\ inferStage = "scripts" /\ inferStage' = "finished"
    /\ inferred' = [c \in {c \in Unambiguous(evidence) : ~Contradicts(known, c, Only(evidence[c]))}
                      |-> Only(evidence[c])]
    /\ suggested' = [a \in Unambiguous(atomPairs) |-> Only(atomPairs[a])]
    /\ UNCHANGED <<baseline, shown, known, evidence, atomPairs, faithful>>

\* What is known of the new profile may be wrong.
InferInit ==
    /\ inferStage = "scripts"
    /\ baseline \in Baselines /\ shown = Shown(baseline)
    /\ known \in {<<>>, <<"prep">>, <<"add">>}
    /\ evidence = <<>> /\ atomPairs = <<>> /\ faithful = TRUE
    /\ inferred = <<>> /\ suggested = <<>>

InferNext == MatchBodies \/ Finish
InferSpec == InferInit /\ [][InferNext]_inferVars

---------------------------------------------------------------------------
(* Properties of an inference                                              *)

InferTypeOK ==
    /\ inferStage \in {"scripts", "finished"} /\ faithful \in BOOLEAN
    /\ DOMAIN evidence \subseteq 1..4 /\ DOMAIN inferred \subseteq DOMAIN evidence
    /\ \A c \in DOMAIN evidence : evidence[c] \subseteq Operations

\* The profile proposed numbers no operation twice, also with what was known; and it is
\* right, as are the names of atoms, unless a body was replaced by one that looks like it:
\* bodies that only look alike, that are repeated or gone, never mislead.
InferredIsTrue ==
    inferStage = "finished" =>
      /\ \A c, d \in DOMAIN inferred : inferred[c] = inferred[d] => c = d
      /\ \A c \in DOMAIN inferred, d \in DOMAIN known : c = d <=> inferred[c] = known[d]
      /\ faithful => /\ \A c \in DOMAIN inferred : inferred[c] = Meaning[c]
                     /\ \A a \in DOMAIN suggested : a = NewAtom(suggested[a])

---------------------------------------------------------------------------
(* Chunks                                                                  *)

Kinds == {"plain", "aux", "unmapped"}      \* of the opcode in the low byte of a word
Word  == [kind : Kinds, operand : {0, 1}]
Fails == part' = "failed"

Power(n) == LET power[i \in 0..n] == IF i = 0 THEN 1 ELSE GroupValues * power[i - 1] IN power[n]
Value(s) == LET value[i \in 0..Len(s)] ==
                  IF i = 0 THEN 0 ELSE value[i - 1] + s[i].group * Power(i - 1)
            IN  value[Len(s)]

\* write_varint: as few bytes as there can be.
Written(n) ==
    LET size == CHOOSE k \in 1..Groups : n < Power(k) /\ (k = 1 \/ n >= Power(k - 1))
    IN  [i \in 1..size |-> [group |-> (n \div Power(i - 1)) % GroupValues, more |-> i < size]]

---------------------------------------------------------------------------
(* Reader                                                                  *)

\* varint and count: a byte more; the last one that there can be may not say that more
\* follow, and a count is no larger than the chunk.
ReadByte ==
    /\ part = "count" /\ left > 0 /\ left' = left - 1
    /\ \E b \in [group : 0..GroupValues - 1, more : BOOLEAN] :
         LET all == Append(bytes, b) IN
         IF Len(all) = Groups /\ (b.more \/ b.group > 1) THEN Fails /\ UNCHANGED <<bytes, number>>
         ELSE /\ bytes' = all
              /\ IF b.more THEN UNCHANGED <<part, number>>
                 ELSE number' = Value(all) /\ part' = IF Value(all) > ChunkBytes THEN "failed" ELSE "code"
    /\ UNCHANGED <<format, words, pc, output, coverage, constants, atoms>>

\* bytes: the chunk ends.
ChunkEnds ==
    /\ part \in {"count", "code", "constants"} /\ Fails
    /\ UNCHANGED <<format, left, bytes, number, words, pc, output, coverage, constants, atoms>>

ReadWord ==
    /\ part = "code" /\ Len(words) < number /\ left > 0 /\ left' = left - 1
    /\ \E w \in Word : words' = Append(words, w)
    /\ UNCHANGED <<format, part, bytes, number, pc, output, coverage, constants, atoms>>

WordsRead ==
    /\ part = "code" /\ Len(words) = number /\ part' = "walk"
    /\ output' = words
    /\ UNCHANGED <<format, left, bytes, number, words, pc, coverage, constants, atoms>>

---------------------------------------------------------------------------
(* transcode_code, and the walk of an inspection                           *)

NextWord(w) == pc + 1
Next(w) == pc + (IF w.kind = "aux" THEN 2 ELSE 1)

\* An instruction that is mapped: its low byte is replaced when the chunk is rewritten, and
\* the word that belongs to it is passed over.
WalkInstruction ==
    /\ part = "walk" /\ pc <= Len(words) /\ words[pc].kind # "unmapped"
    /\ ~(words[pc].kind = "aux" /\ pc = Len(words))
    /\ pc' = Next(words[pc]) /\ coverage' = coverage + 1
    /\ output' = IF format = "decompile" THEN [output EXCEPT ![pc].kind = "canonical"] ELSE output
    /\ UNCHANGED <<format, part, left, bytes, number, words, constants, atoms>>

\* One that is not, or that lacks its word: an inspection stops counting there, a chunk
\* that is to be rewritten is refused.
WalkStops ==
    /\ part = "walk" /\ pc <= Len(words)
    /\ words[pc].kind = "unmapped" \/ (words[pc].kind = "aux" /\ pc = Len(words))
    /\ part' = IF format = "inspect" THEN "constants" ELSE "failed"
    /\ UNCHANGED <<format, left, bytes, number, words, pc, output, coverage, constants, atoms>>

WalkEnds ==
    /\ part = "walk" /\ pc > Len(words) /\ part' = "constants"
    /\ UNCHANGED <<format, left, bytes, number, words, pc, output, coverage, constants, atoms>>

\* transcode_constant: a boolean may hold an atom; a tag that is not known is refused.
ReadConstant ==
    /\ part = "constants" /\ constants < MaxConstants /\ constants' = constants + 1
    /\ \/ \E value \in 0..2 : atoms' = (IF value > 1 THEN atoms + 1 ELSE atoms) /\ UNCHANGED part
       \/ UNCHANGED <<part, atoms>>
       \/ Fails /\ UNCHANGED atoms
    /\ UNCHANGED <<format, left, bytes, number, words, pc, output, coverage>>

\* The main prototype must be there, and nothing may follow.
ChunkRead ==
    /\ part = "constants" /\ part' = IF left = 0 THEN "done" ELSE "failed"
    /\ UNCHANGED <<format, left, bytes, number, words, pc, output, coverage, constants, atoms>>

BytecodeInit ==
    /\ format \in {"inspect", "decompile"} /\ part = "count" /\ left \in 0..ChunkBytes
    /\ bytes = <<>> /\ number = 0 /\ words = <<>> /\ pc = 1 /\ output = <<>>
    /\ coverage = 0 /\ constants = 0 /\ atoms = 0

BytecodeNext ==
    \/ ReadByte \/ ChunkEnds \/ ReadWord \/ WordsRead \/ WalkInstruction \/ WalkStops \/ WalkEnds
    \/ ReadConstant \/ ChunkRead

BytecodeSpec == BytecodeInit /\ [][BytecodeNext]_byteVars

---------------------------------------------------------------------------
(* Properties of a chunk                                                   *)

BytecodeTypeOK ==
    /\ part \in {"count", "code", "walk", "constants", "done", "failed"}
    /\ Len(bytes) <= Groups /\ Len(words) <= ChunkBytes /\ pc \in 1..Len(words) + 2
    /\ coverage <= Len(words) /\ atoms <= constants /\ constants \in 0..MaxConstants

\* Where instructions start: the first word, and the one after an instruction and its word.
InstructionStarts ==
    LET start[i \in 1..Len(words)] ==
          \/ i = 1
          \/ i > 1 /\ start[i - 1] /\ words[i - 1].kind # "aux"
          \/ i > 2 /\ start[i - 2] /\ words[i - 2].kind = "aux"
    IN  {i \in 1..Len(words) : start[i]}

\* A number is written as what was read, in the bytes it needs; what is rewritten differs
\* from the chunk in the opcodes of its instructions and nowhere else, so that no word that
\* belongs to one is taken for an opcode; an inspection that claims to know all of the code
\* knows what a rewriting knows, and counts the same instructions.
RewrittenIsTheSame ==
    /\ part \notin {"count", "failed"} =>
         Value(Written(number)) = number /\ Len(Written(number)) <= Len(bytes)
    /\ part \in {"constants", "done"} =>
         /\ \A i \in DOMAIN words : output[i].operand = words[i].operand
         /\ pc > Len(words) => coverage = Cardinality(InstructionStarts)
         /\ format = "decompile" =>
              {i \in DOMAIN words : output[i].kind # words[i].kind} = InstructionStarts
         /\ format = "inspect" => output = words
==============================================================================
