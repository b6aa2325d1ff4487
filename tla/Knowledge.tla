----------------------------- MODULE Knowledge -----------------------------
(* The knowledge base: documents are cut into chunks, embedded in batches  *)
(* and added to a Chroma collection; a host's start adds the files of its  *)
(* directories whose names are not in it yet; a search may ask the model   *)
(* to rewrite its query first.                                             *)
(*                                                                         *)
(* Several processes may share the directory of the collection.  A step is *)
(* what runs between two awaits.  Chroma is external: a request is atomic, *)
(* and a handle of a collection that was dropped is refused.               *)
(***************************************************************************)
EXTENDS Naturals, Sequences, FiniteSets, SequencesExt

CONSTANTS Files,       \* paths under the directories of the host
          FileName,    \* their names: os.path.basename
          Chunks,      \* how many chunks the splitter makes of each
          Batch,       \* batch_size
          TopHits,     \* top_k
          Query,       \* what is asked
          Lines,       \* what the model may answer: sequences of queries
          NumVariants,
          Score,       \* Score[q][f][i]: how near chunk i of file f is to q
          Starts,      \* bound: starts of hosts, numbered
          Removals     \* bound: documents deleted and collections cleared

ASSUME KnowledgeAssumption ==
    /\ FileName \in [Files -> STRING] /\ Chunks \in [Files -> Nat]
    /\ Batch \in Nat \ {0} /\ {TopHits, NumVariants, Removals} \subseteq Nat

VARIABLES coll,     \* the collection: <<doc_id, i>>; a doc_id is the start that made it and the file
          dropped,  \* how often the collection was dropped and made again
          removed,  \* deletions so far
          host,     \* per start: where ingest_rag_sources is
          search    \* the search of one caller

kbVars == <<coll, dropped, removed, host, search>>

NoFile == "none"
NoSearch == [st |-> "idle", queries |-> <<>>, merge |-> FALSE, found |-> <<>>]

KBInit == /\ coll = {} /\ dropped = 0 /\ removed = 0
          /\ host = [b \in Starts |-> [st |-> "off"]]
          /\ search = NoSearch

Entries(ids) == {c \in coll : c[1] \in ids}
DocIds == {c[1] : c \in coll}
\* get_document_list, as far as the start looks at it.
Indexed == {FileName[d[2]] : d \in DocIds}

----------------------------------------------------------------------------
\* A start.

Busy(b) == host[b].st \in {"next", "embed"}

\* The files are collected and the names that are there are read, once.
Ingest(b) ==
    /\ host[b].st = "off"
    /\ host' = [host EXCEPT ![b] = [st |-> "next", todo |-> Files, existing |-> Indexed,
                                    handle |-> dropped, file |-> NoFile, embedded |-> 0,
                                    beside |-> {a \in Starts : Busy(a)}]]
    /\ UNCHANGED <<coll, dropped, removed, search>>

Onward(b, f) == [host[b] EXCEPT !.st = "next", !.todo = @ \ {f}, !.file = NoFile, !.embedded = 0]
Known(b, f) == [Onward(b, f) EXCEPT !.existing = @ \union {FileName[f]}]

\* A file whose name is known is skipped.
SkipFile(b) ==
    /\ host[b].st = "next"
    /\ \E f \in host[b].todo :
         /\ FileName[f] \in host[b].existing
         /\ host' = [host EXCEPT ![b] = Onward(b, f)]
    /\ UNCHANGED <<coll, dropped, removed, search>>

\* add_document up to its first await: a file that comes to no chunk is done.
LoadFile(b) ==
    /\ host[b].st = "next"
    /\ \E f \in host[b].todo :
         /\ FileName[f] \notin host[b].existing
         /\ host' = [host EXCEPT ![b] = IF Chunks[f] = 0 THEN Known(b, f)
                                        ELSE [@ EXCEPT !.st = "embed", !.file = f]]
    /\ UNCHANGED <<coll, dropped, removed, search>>

LastBatch(b) == host[b].embedded + Batch >= Chunks[host[b].file]

\* Mutant: every batch is added when it is embedded.
EmbedBatchAdds(b) ==
    /\ host[b].st = "embed" /\ ~LastBatch(b)
    /\ host' = [host EXCEPT ![b].embedded = @ + Batch]
    /\ coll' = coll \union {<<<<b, host[b].file>>, i>> : i \in 1..(host[b].embedded + Batch)}
    /\ UNCHANGED <<dropped, removed, search>>

\* The embeddings of a batch arrive, and the next batch is asked for.
EmbedBatch(b) ==
    /\ host[b].st = "embed" /\ ~LastBatch(b)
    /\ host' = [host EXCEPT ![b].embedded = @ + Batch]
    /\ UNCHANGED <<coll, dropped, removed, search>>

\* With the last embeddings the whole document is added by one request.
AddDocument(b) ==
    /\ host[b].st = "embed" /\ LastBatch(b)
    /\ host[b].handle = dropped
    /\ LET f == host[b].file
       IN  /\ coll' = coll \union {<<<<b, f>>, i>> : i \in 1..Chunks[f]}
           /\ host' = [host EXCEPT ![b] = Known(b, f)]
    /\ UNCHANGED <<dropped, removed, search>>

\* The loader, the embedder or Chroma raises, or the process dies: nothing catches it in
\* ingest_rag_sources, and the files that are left have to wait for another start.
IngestFails(b) ==
    /\ Busy(b)
    /\ host' = [host EXCEPT ![b].st = "failed"]
    /\ UNCHANGED <<coll, dropped, removed, search>>

IngestEnds(b) ==
    /\ host[b].st = "next" /\ host[b].todo = {}
    /\ host' = [host EXCEPT ![b].st = "done"]
    /\ UNCHANGED <<coll, dropped, removed, search>>

----------------------------------------------------------------------------
\* An operator's calls.

DeleteDocument ==
    /\ removed < Removals /\ removed' = removed + 1
    /\ \E d \in DocIds : coll' = coll \ Entries({d})
    /\ UNCHANGED <<dropped, host, search>>

\* clear: the collection is dropped and made again, under another id.
ClearBase ==
    /\ removed < Removals /\ removed' = removed + 1
    /\ dropped' = dropped + 1 /\ coll' = {}
    /\ UNCHANGED <<host, search>>

----------------------------------------------------------------------------
\* A search.

\* _mqe: at most NumVariants lines, and the query itself first if they lack it; the query
\* alone if the model fails or answers nothing.
Mqe(lines) ==
    LET variants == SubSeq(lines, 1, IF Len(lines) < NumVariants THEN Len(lines) ELSE NumVariants)
    IN  IF Query \in Range(variants) THEN variants ELSE <<Query>> \o variants

\* _hyde: the paragraph the model makes up is searched for instead of the query.
Hyde(lines) == IF lines = <<>> THEN <<Query>> ELSE <<lines[1]>>

\* optimize; without an optimizer every strategy is "none".
Optimize ==
    /\ search.st = "idle"
    /\ \E lines \in Lines, merge \in BOOLEAN :
         search' = [NoSearch EXCEPT !.st = "ask", !.merge = merge,
                      !.queries = IF merge THEN Mqe(lines) ELSE Hyde(lines)]
    /\ UNCHANGED <<coll, dropped, removed, host>>

Hit(q, c) == [id |-> c, score |-> Score[q][c[1][2]][c[2]]]
Better(a, b) == a.score > b.score

\* collection.query: some TopHits entries that are nearest, the best first.
Nearest(q) ==
    LET n == IF Cardinality(coll) < TopHits THEN Cardinality(coll) ELSE TopHits
        best == {s \in [1..n -> coll] :
                   /\ \A i, j \in 1..n : i < j => s[i] # s[j] /\ ~Better(Hit(q, s[j]), Hit(q, s[i]))
                   /\ \A c \in coll \ Range(s) : \A i \in 1..n : ~Better(Hit(q, c), Hit(q, s[i]))}
    IN  {[i \in 1..n |-> Hit(q, s[i])] : s \in best}

\* Each id with the score of its first occurrence, stably sorted, TopHits of them.
Firsts(found) == {i \in DOMAIN found : \A k \in 1..(i - 1) : found[k].id # found[i].id}
Ahead(found, i, j) == /\ ~Better(found[j], found[i])
                      /\ Better(found[i], found[j]) \/ i < j
Deduplicated(found) ==
    LET firsts == Firsts(found)
        n == IF Cardinality(firsts) < TopHits THEN Cardinality(firsts) ELSE TopHits
        best == {p \in [1..n -> firsts] :
                   /\ \A i, j \in 1..n : i < j => p[i] # p[j] /\ Ahead(found, p[i], p[j])
                   /\ \A k \in firsts \ Range(p) : \A i \in 1..n : Ahead(found, p[i], k)}
    IN  {[i \in 1..n |-> found[p[i]]] : p \in best}

\* _vector_search of one query, its embedding awaited; after the last one the results of
\* several queries are merged.
VectorSearch ==
    /\ search.st = "ask"
    /\ \E hits \in Nearest(Head(search.queries)) :
         LET found == search.found \o hits
             last == Len(search.queries) = 1
         IN  \E kept \in IF last /\ search.merge THEN Deduplicated(found) ELSE {found} :
               search' = [search EXCEPT !.queries = Tail(@), !.found = kept,
                            !.st = IF last THEN "shown" ELSE "ask"]
    /\ UNCHANGED <<coll, dropped, removed, host>>

\* The embedder or Chroma raises, also because this process holds a collection that
\* another has dropped: there is no result.
SearchFails ==
    /\ search.st = "ask"
    /\ search' = [NoSearch EXCEPT !.st = "failed"]
    /\ UNCHANGED <<coll, dropped, removed, host>>

KBNext == \/ \E b \in Starts : \/ Ingest(b) \/ SkipFile(b) \/ LoadFile(b) \/ EmbedBatch(b)
                               \/ AddDocument(b) \/ IngestFails(b) \/ IngestEnds(b)
          \/ DeleteDocument \/ ClearBase \/ Optimize \/ VectorSearch \/ SearchFails

KBSpec == KBInit /\ [][KBNext]_kbVars

----------------------------------------------------------------------------
\* An empty file is taken for indexed, and keeps out another one of its name.
Accounted(name) == name \in Indexed \/ \E f \in Files : FileName[f] = name /\ Chunks[f] = 0

IndexedOnceAndWhole ==
    /\ \A d \in DocIds : Entries({d}) = {d} \X (1..Chunks[d[2]])
    /\ removed = 0 => \A b \in Starts, f \in Files :
                        host[b].st = "done" => Accounted(FileName[f])
    /\ \A d, e \in DocIds :
         d # e /\ FileName[d[2]] = FileName[e[2]] =>
           d[1] \in host[e[1]].beside \/ e[1] \in host[d[1]].beside

ShownOnceBestFirst ==
    search.st = "shown" =>
      /\ Len(search.found) <= TopHits
      /\ \A i, j \in DOMAIN search.found :
           i < j => /\ search.found[i].id # search.found[j].id
                    /\ ~Better(search.found[j], search.found[i])

\* Since a start skips a file by its name alone, a document that is in the collection must
\* be there whole, whatever failed, died or ran beside it; a start that ends well leaves no
\* name out but that of an empty file; and a name is there twice only if two starts ran at
\* the same time.  What a search shows over such a collection, with any rewriting of the
\* query and while it changes, is each chunk once, the nearest first (add_document,
\* ingest_rag_sources, search).
RetrievalSound == IndexedOnceAndWhole /\ ShownOnceBestFirst

=============================================================================
