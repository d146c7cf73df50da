------------------------------- MODULE Chunks -------------------------------
(***************************************************************************)
(* A document too large for a prompt, split into chunks that are analysed  *)
(* one by one: whole paragraphs, the last of a chunk repeated at the head  *)
(* of the next unless overlap is off (chunker.go).                         *)
(***************************************************************************)
EXTENDS Naturals, Sequences, SequencesExt

CONSTANTS
  ChunkSize,   \* ChunkSizeBytes
  Overlap,     \* "paragraph", "sentence" or "none"
  Separator    \* bytes between two paragraphs, a blank line

ASSUME ChunksAssumption == {ChunkSize, Separator} \subseteq Nat /\ Overlap \in {"paragraph", "sentence", "none"}

\* A document: is it source code, and its paragraphs: their bytes, and whether one begins
\* with a closing bracket.
IsDocument(d) ==
  /\ d.source \in BOOLEAN
  /\ d.paragraphs \in Seq([bytes : Nat \ {0}, closes : BOOLEAN])

----------------------------------------------------------------------------
\* splitUnitsWithLines: in source code what begins with a closing bracket stays with what
\* it closes. A unit is the paragraphs it holds.
Units(document) ==
  FoldLeft(LAMBDA units, p : IF document.source /\ p.closes /\ units # <<>>
                             THEN [units EXCEPT ![Len(units)] = Append(@, p)]
                             ELSE Append(units, <<p>>),
           <<>>, document.paragraphs)

\* joinTextUnits: the bytes of units or paragraphs that are joined.
Joined(sizes) == FoldLeft(+, 0, sizes) + Separator * (Len(sizes) - 1)
UnitBytes(unit) == Joined([i \in DOMAIN unit |-> unit[i].bytes])
Bytes(units) == Joined([i \in DOMAIN units |-> UnitBytes(units[i])])

Threshold == (3 * ChunkSize) \div 4

\* Variant: the paragraph that did not fit is taken for the repeated one.
NextChunkRepeatsOnly(current, unit) == IF Overlap = "none" THEN <<unit>> ELSE <<Last(current)>>

\* What the next chunk starts with; "sentence" is read like "paragraph".
NextChunk(current, unit) == IF Overlap = "none" THEN <<unit>> ELSE <<Last(current), unit>>

\* A chunk is closed when it is three quarters full and more follows.
AddUnit(split, unit) ==
  IF Bytes(split.current) >= Threshold
  THEN [done |-> Append(split.done, split.current), current |-> NextChunk(split.current, unit)]
  ELSE [split EXCEPT !.current = Append(@, unit)]

\* A document of nothing but blanks is one chunk.
ChunkDocument(document) ==
  LET units == Units(document)
      split == FoldLeft(AddUnit, [done |-> <<>>, current |-> <<Head(units)>>], Tail(units))
  IN  IF units = <<>> THEN << <<>> >> ELSE Append(split.done, split.current)

----------------------------------------------------------------------------
\* What a chunk adds to the ones before it.
Fresh(chunks, i) == IF i = 1 \/ Overlap = "none" THEN chunks[i] ELSE Tail(chunks[i])

\* The chunks are the document: nothing is lost, doubled or moved, beyond the paragraph
\* two neighbours share; and none is closed while it is less than three quarters full.
Covers(document) ==
  LET chunks == ChunkDocument(document)
  IN  /\ FlattenSeq([i \in DOMAIN chunks |-> Fresh(chunks, i)]) = Units(document)
      /\ \A i \in 1 .. Len(chunks) - 1 :
           /\ Overlap # "none" => Head(chunks[i + 1]) = Last(chunks[i])
           /\ Bytes(chunks[i]) >= Threshold
           /\ Len(chunks[i]) > 2 => Bytes(Front(chunks[i])) < Threshold
=============================================================================
