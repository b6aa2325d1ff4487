------------------------------ MODULE Splitter ------------------------------
(* SemanticSplitter.split: a document cut into chunks, each embedded on its *)
(* own.  A document is a sequence of blocks: headings of a level, and   *)
(* paragraphs, which are sequences of sentences.  A sentence has a place,  *)
(* a weight in tokens, and the path of headings put in front of it; the    *)
(* weight of a text is taken as the sum of those of its sentences, and a   *)
(* heading of a path counts for one.                                       *)
(***************************************************************************)
EXTENDS Integers, Sequences, SequencesExt

CONSTANTS Blocks,       \* the blocks documents are made of: [level, weights]
          MaxBlocks,    \* blocks of a document
          ChunkSize, MinSize, OverlapSize

ASSUME SplitterAssumption ==
    /\ MaxBlocks \in Nat /\ {ChunkSize, MinSize, OverlapSize} \subseteq Nat
    /\ Blocks \subseteq [level : Nat, weights : Seq(Nat)]
    /\ \A b \in Blocks : b.level = 0 => b.weights # <<>>

VARIABLES doc,          \* the document: sequence of Blocks; level 0 is a paragraph
          chunks        \* what split returns, <<>> before

spVars == <<doc, chunks>>

SPInit == /\ doc \in UNION {[1..n -> Blocks] : n \in 1..MaxBlocks}
          /\ chunks = <<>>

\* The sentences of block b of a document d; a heading, at place <<b, 0>>, is one.
Sentences(d, b) ==
    IF d[b].level > 0 THEN <<[place |-> <<b, 0>>, weight |-> 1, path |-> <<>>]>>
    ELSE [k \in 1..Len(d[b].weights) |->
            [place |-> <<b, k>>, weight |-> d[b].weights[k], path |-> <<>>]]

Weight(txt) == LET sum[i \in 0..Len(txt)] == IF i = 0 THEN 0 ELSE sum[i - 1] + txt[i].weight
               IN  sum[Len(txt)]

\* The parts of a text being cut: the closed ones and the open one.
Uncut == [out |-> <<>>, cur |-> <<>>]
Closed(acc) == IF acc.cur = <<>> THEN acc.out ELSE Append(acc.out, acc.cur)

----------------------------------------------------------------------------
\* _split_long_paragraph: sentences are added while they fit.
LongAdd(max, acc, s) ==
    IF acc.cur = <<>> \/ Weight(acc.cur) + s.weight <= max
    THEN [acc EXCEPT !.cur = Append(@, s)]
    ELSE [out |-> Append(acc.out, acc.cur), cur |-> <<s>>]
Long(max, txt) ==
    LET acc[i \in 0..Len(txt)] == IF i = 0 THEN Uncut ELSE LongAdd(max, acc[i - 1], txt[i])
    IN  Closed(acc[Len(txt)])

\* Mutant: the open part is forgotten when a long paragraph comes.
TokenAddDrops(max, acc, p) ==
    IF Weight(acc.cur) + Weight(p) <= max THEN [acc EXCEPT !.cur = @ \o p]
    ELSE IF Weight(p) <= max THEN [out |-> Closed(acc), cur |-> p]
    ELSE LET parts == Long(max, p) IN [out |-> acc.out \o Front(parts), cur |-> Last(parts)]

\* One paragraph of _token_split.  A long one is cut, its last part stays open.
TokenAdd(max, acc, p) ==
    IF Weight(acc.cur) + Weight(p) <= max THEN [acc EXCEPT !.cur = @ \o p]
    ELSE IF Weight(p) <= max THEN [out |-> Closed(acc), cur |-> p]
    ELSE LET parts == Long(max, p) IN [out |-> Closed(acc) \o Front(parts), cur |-> Last(parts)]

\* _token_split of the paragraphs of a section.
TokenSplit(max, paras) ==
    LET acc[i \in 0..Len(paras)] == IF i = 0 THEN Uncut ELSE TokenAdd(max, acc[i - 1], paras[i])
    IN  IF Weight(FlattenSeq(paras)) <= max THEN <<FlattenSeq(paras)>> ELSE Closed(acc[Len(paras)])

----------------------------------------------------------------------------
\* _parse_sections: the stack of headings under which a heading of a level stands.
Pop(d, stack, level) ==
    SubSeq(stack, 1, CHOOSE k \in 0..Len(stack) :
                       /\ k = 0 \/ d[stack[k]].level < level
                       /\ \A i \in (k + 1)..Len(stack) : d[stack[i]].level >= level)

\* A heading ends the section before it.
ParseBlock(d, acc, b) ==
    IF d[b].level > 0
    THEN [done |-> Append(acc.done, [path |-> acc.path, paras |-> acc.paras]),
          path |-> Append(Pop(d, acc.path, d[b].level), b), paras |-> <<>>]
    ELSE [acc EXCEPT !.paras = Append(@, Sentences(d, b))]

Sections(d) ==
    LET acc[b \in 0..Len(d)] == IF b = 0 THEN [done |-> <<>>, path |-> <<>>, paras |-> <<>>]
                                ELSE ParseBlock(d, acc[b - 1], b)
        end == acc[Len(d)]
    IN  Append(end.done, [path |-> end.path, paras |-> end.paras])

\* The path in front of a text becomes part of its first sentence.
Glue(path, txt) == LET s == Head(txt)
                   IN  <<[place |-> s.place, weight |-> s.weight + Len(path), path |-> path]>> \o Tail(txt)

Chunk(txt) == [text |-> txt, absorbed |-> 0]

\* _split_sections_into_chunks: a section without content gives none; the weight of the
\* path is taken off the size.
OfSection(s) ==
    LET cut == TokenSplit(Max({ChunkSize - Len(s.path), MinSize}), s.paras)
    IN  IF s.paras = <<>> THEN <<>> ELSE [i \in 1..Len(cut) |-> Chunk(Glue(s.path, cut[i]))]

\* _split_flat_text, one paragraph: long ones are cut on their own.
FlatAdd(acc, p) ==
    IF Weight(p) > ChunkSize THEN [out |-> Closed(acc) \o Long(ChunkSize, p), cur |-> <<>>]
    ELSE IF Weight(acc.cur) + Weight(p) <= ChunkSize THEN [acc EXCEPT !.cur = @ \o p]
    ELSE [out |-> Closed(acc), cur |-> p]

FlatChunks(d) ==
    LET acc[b \in 0..Len(d)] == IF b = 0 THEN Uncut ELSE FlatAdd(acc[b - 1], Sentences(d, b))
        cut == Closed(acc[Len(d)])
    IN  [i \in 1..Len(cut) |-> Chunk(cut[i])]

RawChunks(d) ==
    LET sectioned == FlattenSeq([k \in 1..Len(Sections(d)) |-> OfSection(Sections(d)[k])])
    IN  IF sectioned = <<>> \/ \A b \in DOMAIN d : d[b].level = 0 THEN FlatChunks(d) ELSE sectioned

----------------------------------------------------------------------------
\* _finalize_chunks: a chunk that is too short is joined to the one before it.
JoinAdd(acc, c) ==
    IF acc # <<>> /\ Weight(c.text) < MinSize
    THEN Append(Front(acc), [text |-> Last(acc).text \o c.text, absorbed |-> Last(acc).absorbed + 1])
    ELSE Append(acc, c)
Joined(raw) ==
    LET acc[i \in 0..Len(raw)] == IF i = 0 THEN <<>> ELSE JoinAdd(acc[i - 1], raw[i])
    IN  acc[Len(raw)]

\* _get_tail_by_sentence: whole sentences from the end, at least one.
From(txt, k) == SubSeq(txt, k, Len(txt))
LastSentences(txt) ==
    From(txt, CHOOSE k \in 1..Len(txt) :
                /\ k = Len(txt) \/ Weight(From(txt, k)) <= OverlapSize
                /\ k = 1 \/ Weight(From(txt, k - 1)) > OverlapSize)

Overlap(joined, i) ==
    IF i > 1 /\ OverlapSize > 0 /\ Weight(joined[i - 1].text) > OverlapSize
    THEN LastSentences(joined[i - 1].text) ELSE <<>>

SplitOf(d) ==
    LET joined == Joined(RawChunks(d))
    IN  [i \in 1..Len(joined) |-> [text |-> joined[i].text, absorbed |-> joined[i].absorbed,
                                   overlap |-> Overlap(joined, i)]]

Split == /\ chunks = <<>>
         /\ chunks' = SplitOf(doc)
         /\ UNCHANGED doc

SPNext == Split

SPSpec == SPInit /\ [][SPNext]_spVars

----------------------------------------------------------------------------
Places(txt) == [i \in 1..Len(txt) |-> txt[i].place]

\* What the chunks have to hold: the paragraphs, or the headings if there are no others.
HasText(d) == \E b \in DOMAIN d : d[b].level = 0
Body(d) == FlattenSeq([b \in 1..Len(d) |-> IF HasText(d) /\ d[b].level > 0 THEN <<>>
                                           ELSE Places(Sentences(d, b))])

\* The headings above a block: the nearest one before it, and above a heading the nearest
\* before it of a lower level.
Above(d, b) == {h \in 1..b : d[h].level > 0
                             /\ \A g \in (h + 1)..b : d[g].level > 0 => d[g].level > d[h].level}
PathOf(d, path, s) == /\ Range(path) = Above(d, s.place[1])
                      /\ \A i, j \in DOMAIN path : i < j => path[i] < path[j]

\* Every sentence of the document is in the chunks exactly once and in order, the
\* overlaps apart; the path in front of a sentence is that of the headings it stands
\* under, and the first sentence of a chunk has one; a chunk is larger than the size
\* asked for only if it is one sentence, if its path leaves less than the minimum, or by
\* the short chunks it has absorbed, of which there may be any number; and its overlap is
\* the end of the chunk before it, of the size asked for or a single sentence.
ChunksKeepText ==
    chunks # <<>> =>
      /\ FlattenSeq([i \in DOMAIN chunks |-> Places(chunks[i].text)]) = Body(doc)
      /\ \A i \in DOMAIN chunks :
           LET c == chunks[i] IN
           /\ \A j \in DOMAIN c.text : (j = 1 /\ HasText(doc)) \/ c.text[j].path # <<>> =>
                PathOf(doc, c.text[j].path, c.text[j])
           /\ \E m \in {ChunkSize, MinSize + Len(c.text[1].path), c.text[1].weight} :
                Weight(c.text) <= m + c.absorbed * MinSize
           /\ c.overlap # <<>> =>
                /\ i > 1 /\ \E k \in DOMAIN chunks[i - 1].text : c.overlap = From(chunks[i - 1].text, k)
                /\ Len(c.overlap) = 1 \/ Weight(c.overlap) <= OverlapSize

=============================================================================
