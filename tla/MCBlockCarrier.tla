--------------------------- MODULE MCBlockCarrier ---------------------------
(***************************************************************************)
(* A carrier of 60 words with half-word units: room for about four blocks. *)
(* The carrier's own header takes ten words, so the first data address is  *)
(* not double-word aligned.                                                *)
(***************************************************************************)
EXTENDS BlockCarrier

Layout(size, align) == [size |-> size, align |-> align]

\* Whole words: one below the minimum, one that leaves a rest too small to
\* split off, one that leaves a rest large enough.
WordLayouts == {Layout(4, 2), Layout(20, 2), Layout(36, 2)}

\* Double-word alignment, for which blocks are padded.
AlignedLayouts == {Layout(16, 2), Layout(16, 4), Layout(36, 2)}

\* A size that is no whole number of words, alone and with alignment.
OddLayouts == {Layout(4, 2), Layout(21, 1), Layout(36, 2)}
MixedLayouts == {Layout(4, 2), Layout(20, 4), Layout(23, 1), Layout(36, 2)}
=============================================================================
