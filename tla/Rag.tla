-------------------------------- MODULE Rag --------------------------------
(***************************************************************************)
(* The threat-intelligence store of rag/: markdown documents are fetched,  *)
(* cached, cut into chunks and stored in one PostgreSQL database, by       *)
(* processes that run side by side and may be killed.                      *)
(*                                                                         *)
(* A text is a sequence of lines [kind, level, title, size]: headings,     *)
(* fences and paragraphs, with a blank line after each.  A transaction     *)
(* reads what is committed; the upsert of a document holds its row until   *)
(* the end of the transaction.                                             *)
(***************************************************************************)
EXTENDS Naturals, Sequences, FiniteSets, SequencesExt, FiniteSetsExt

CONSTANTS
  Order,      \* the documents of the source, a sequence: the order of the cheat sheets
  Texts,      \* the texts a document has upstream, over time
  MaxChars,   \* the size of a chunk
  Ingesters,  \* the processes of rag.ingest
  Changes,    \* bound: how often a text changes upstream
  Ingests     \* bound: how many ingestions there are

RagAssumption ==
  /\ MaxChars \in Nat \ {0} /\ {Changes, Ingests} \subseteq Nat
  /\ IsInjective(Order) /\ IsFiniteSet(Ingesters) /\ "none" \notin Ingesters

Docs == Range(Order)
NoOne == "none"

VARIABLES
  upstream,  \* document -> its text upstream
  cache,     \* document -> its cache file: exists, text
  stored,    \* document -> its committed chunks
  rows,      \* document -> the process whose transaction holds its row
  ing,       \* process -> its ingestion, see NotIngesting
  count      \* how many changes and ingestions there were

store == <<stored, rows>>
vars == <<upstream, cache, store, ing, count>>

-----------------------------------------------------------------------------
(* chunking.py.                                                             *)

\* The pieces of one paragraph longer than a chunk.
Split(para) ==
  [k \in 1..((para.size + MaxChars - 1) \div MaxChars) |->
     <<[title |-> para.title, part |-> k,
        size |-> IF k * MaxChars <= para.size THEN MaxChars ELSE para.size % MaxChars]>>]

Size(piece) == FoldSeq(LAMBDA p, n : n + p.size, 2 * (Len(piece) - 1), piece)

\* _pack: paragraphs, packed up to MaxChars; what is packed is in cur.
Flush(acc) == IF acc.cur = <<>> THEN acc.out ELSE Append(acc.out, acc.cur)
PackOne(para, acc) ==
  LET whole == [title |-> para.title, part |-> 0, size |-> para.size] IN
  CASE para.size > MaxChars ->
         [out |-> Flush(acc) \o Split(para), cur |-> <<>>]
    [] para.size <= MaxChars /\ acc.cur # <<>> /\ Size(Append(acc.cur, whole)) > MaxChars ->
         [out |-> Flush(acc), cur |-> <<whole>>]
    [] OTHER -> [acc EXCEPT !.cur = Append(@, whole)]
Pack(body) == Flush(FoldLeft(LAMBDA acc, p : PackOne(p, acc), [out |-> <<>>, cur |-> <<>>], body))

\* flush, of chunk_markdown.
FlushBody(acc) ==
  [acc EXCEPT !.buf = <<>>,
     !.chunks = @ \o [k \in DOMAIN Pack(acc.buf) |->
                        [section |-> acc.stack, content |-> Pack(acc.buf)[k]]]]

\* Inside a fence a heading is a comment.
IsHeading(line, acc) == line.kind = "heading" /\ ~acc.fence
ChunkOne(line, acc) ==
  IF IsHeading(line, acc)
  THEN LET f == FlushBody(acc) IN
       [f EXCEPT !.stack = Append(SubSeq(@, 1, Min({Len(@), line.level - 1})), line.title)]
  ELSE [acc EXCEPT !.buf = Append(@, line), !.fence = IF line.kind = "fence" THEN ~@ ELSE @]
Chunks(text) ==
  FlushBody(FoldLeft(LAMBDA acc, l : ChunkOne(l, acc),
                     [chunks |-> <<>>, stack |-> <<>>, buf |-> <<>>, fence |-> FALSE], text)).chunks

-----------------------------------------------------------------------------
(* sources.py and ingest.py: a process fetches every document, then stores  *)
(* them in one transaction.                                                 *)

\* at: the document at hand; docs: what was fetched; gone and new: what its transaction
\* deletes and inserts.
NotIngesting ==
  [pc |-> "off", refresh |-> FALSE, at |-> 1, docs |-> <<>>,
   gone |-> [d \in Docs |-> {}], new |-> [d \in Docs |-> {}]]

Upstream ==
  /\ count.changes < Changes /\ count' = [count EXCEPT !.changes = @ + 1]
  /\ \E d \in Docs, t \in Texts : t # upstream[d] /\ upstream' = [upstream EXCEPT ![d] = t]
  /\ UNCHANGED <<cache, store, ing>>

Start(i) ==
  /\ ing[i].pc = "off"
  /\ count.ingests < Ingests /\ count' = [count EXCEPT !.ingests = @ + 1]
  /\ \E refresh \in BOOLEAN : ing' = [ing EXCEPT ![i] = [NotIngesting EXCEPT !.pc = "fetch", !.refresh = refresh]]
  /\ UNCHANGED <<upstream, cache, store>>

\* The document at hand is fetched, or skipped; after the last the database is connected.
Fetched(i, text) ==
  LET me == ing[i]
      last == me.at = Len(Order) IN
  ing' = [ing EXCEPT ![i] =
            [me EXCEPT !.pc = IF last THEN "store" ELSE "fetch", !.at = IF last THEN 1 ELSE @ + 1,
                       !.docs = IF text = <<>> THEN @ ELSE Append(@, <<Order[me.at], text>>)]]

\* A file cut short by a writer that was killed reads as any other.
FromCache(i) ==
  /\ ing[i].pc = "fetch" /\ ~ing[i].refresh
  /\ cache[Order[ing[i].at]].exists
  /\ Fetched(i, cache[Order[ing[i].at]].text)
  /\ UNCHANGED <<upstream, cache, store, count>>

\* _get_text; a failed request skips the document.  The file is created first and
\* written piece by piece, here empty or cut after the first line.
Download(i) ==
  LET d == Order[ing[i].at] IN
  /\ ing[i].pc = "fetch"
  /\ ing[i].refresh \/ ~cache[d].exists
  /\ \/ Fetched(i, <<>>) /\ UNCHANGED cache
     \/ \E k \in 0..1 :
          /\ cache' = [cache EXCEPT ![d] = [exists |-> TRUE, text |-> SubSeq(upstream[d], 1, k)]]
          /\ ing' = [ing EXCEPT ![i].pc = "caching", ![i].docs = Append(@, <<d, upstream[d]>>)]
  /\ UNCHANGED <<upstream, store, count>>

Cached(i) ==
  LET d == Order[ing[i].at] IN
  /\ ing[i].pc = "caching"
  /\ cache' = [cache EXCEPT ![d] = [exists |-> TRUE, text |-> Last(ing[i].docs)[2]]]
  /\ Fetched(i, <<>>)
  /\ UNCHANGED <<upstream, store, count>>

\* ON CONFLICT DO UPDATE waits for the transaction that holds the row.
\* Seeded fault: ON CONFLICT DO NOTHING, which holds no row that is there.
FreeUnheld(d, i) == TRUE
Free(d, i) == rows[d] \in {NoOne, i}

\* delete_stale_chunks: of the chunks a transaction sees, those not in the text.
\* Seeded fault: nothing is pruned.
StaleNever(seen, chunks) == {}
Stale(seen, chunks) == {c \in seen : c.content \notin {chunks[k].content : k \in DOMAIN chunks}}

\* insert_chunk: ON CONFLICT (document, content) DO NOTHING.
Inserted(seen, chunks) ==
  {[content |-> chunks[k].content, section |-> chunks[k].section, ord |-> k - 1] :
     k \in {k \in DOMAIN chunks :
              /\ \A c \in seen : c.content # chunks[k].content
              /\ \A j \in 1..(k - 1) : chunks[j].content # chunks[k].content}}

\* The rows of one document; a text without a chunk is passed over.
Store(i) ==
  /\ ing[i].pc = "store" /\ ing[i].at <= Len(ing[i].docs)
  /\ LET d == ing[i].docs[ing[i].at][1]
         chunks == Chunks(ing[i].docs[ing[i].at][2])
     IN IF chunks = <<>>
        THEN ing' = [ing EXCEPT ![i].at = @ + 1] /\ UNCHANGED rows
        ELSE /\ Free(d, i)
             /\ rows' = [rows EXCEPT ![d] = i]
             /\ ing' = [ing EXCEPT ![i].at = @ + 1,
                                   ![i].gone[d] = Stale(stored[d], chunks),
                                   ![i].new[d] = Inserted(stored[d], chunks)]
  /\ UNCHANGED <<upstream, cache, stored, count>>

Released(i) == [d \in Docs |-> IF rows[d] = i THEN NoOne ELSE rows[d]]

Commit(i) ==
  /\ ing[i].pc = "store" /\ ing[i].at > Len(ing[i].docs)
  /\ stored' = [d \in Docs |-> (stored[d] \ ing[i].gone[d]) \cup ing[i].new[d]]
  /\ rows' = Released(i)
  /\ ing' = [ing EXCEPT ![i] = NotIngesting]
  /\ UNCHANGED <<upstream, cache, count>>

\* A kill, or an exception: the transaction is rolled back.
Abort(i) ==
  /\ ing[i].pc # "off"
  /\ rows' = Released(i)
  /\ ing' = [ing EXCEPT ![i] = NotIngesting]
  /\ UNCHANGED <<upstream, cache, stored, count>>

-----------------------------------------------------------------------------
Init ==
  /\ upstream \in [Docs -> Texts]
  /\ cache = [d \in Docs |-> [exists |-> FALSE, text |-> <<>>]]
  /\ stored = [d \in Docs |-> {}] /\ rows = [d \in Docs |-> NoOne]
  /\ ing = [i \in Ingesters |-> NotIngesting]
  /\ count = [changes |-> 0, ingests |-> 0]

Next ==
  \/ Upstream
  \/ \E i \in Ingesters : \/ Start(i) \/ FromCache(i) \/ Download(i) \/ Cached(i)
                          \/ Store(i) \/ Commit(i) \/ Abort(i)

Spec == Init /\ [][Next]_vars

-----------------------------------------------------------------------------
\* The paragraphs of a text, whatever the chunks: every line that is no heading.
Fences(text, k) == Cardinality({j \in 1..(k - 1) : text[j].kind = "fence"})
Body(text) ==
  {text[k].title : k \in {k \in DOMAIN text : text[k].kind = "heading" => Fences(text, k) % 2 = 1}}

\* Whatever ingestions run side by side, what is stored of a document is what one text,
\* or the beginning of one in a cache file cut short, says: all of it, in chunks of at
\* most MaxChars.
StoredIsOneText ==
  \A d \in Docs :
    LET pieces == {c.content : c \in stored[d]} IN
    /\ \E t \in Texts : \E k \in 0..Len(t) :
         UNION {{p[j].title : j \in DOMAIN p} : p \in pieces} = Body(SubSeq(t, 1, k))
    /\ \A p \in pieces : Size(p) <= MaxChars

=============================================================================
