----------------------------- MODULE Retrieval -----------------------------
(***************************************************************************)
(* Retrieval in rag/: the fusion of the two searches of the store, and the *)
(* offline charter corpus, read file by file while a checkout may be       *)
(* replacing the files.                                                    *)
(***************************************************************************)
EXTENDS Naturals, Sequences, FiniteSets, SequencesExt, FiniteSetsExt

CONSTANTS
  Hits,     \* the chunks two searches find
  RrfK,     \* RRF_K
  TopK,     \* how many fused hits are returned
  Editions  \* edition -> (id -> content): the committed charter corpora

RetrievalAssumption == RrfK \in Nat /\ TopK \in Nat \ {0}

VARIABLES
  answer,  \* the last search
  disk,    \* charter corpus: [manifest, files], see Checkout
  reader   \* the process that reads it

vars == <<answer, disk, reader>>

-----------------------------------------------------------------------------
(* retrieve.py: the fusion of two ranked lists.                             *)

Rank(list, hit) == CHOOSE k \in DOMAIN list : list[k] = hit
\* The fused score of a hit is a sum of 1 / (RrfK + rank), here a pair: numerator, denominator.
\* Seeded fault: the ranks are added up, which favours what one list leaves out.
ScoreByRank(hit, lists) ==
  <<FoldSet(LAMBDA l, n : n + (IF hit \in Range(lists[l]) THEN Rank(lists[l], hit) ELSE 0), 0, {1, 2}), 1>>
Score(hit, lists) ==
  FoldSet(LAMBDA l, s : IF hit \in Range(lists[l])
                        THEN LET d == RrfK + Rank(lists[l], hit) IN <<s[1] * d + s[2], s[2] * d>>
                        ELSE s,
          <<0, 1>>, {1, 2})
Greater(s, t) == s[1] * t[2] > t[1] * s[2]

\* The sort is stable: equal scores stay in the order the hits were met in.
Met(lists) ==
  lists[1] \o SelectSeq(lists[2], LAMBDA h : h \notin Range(lists[1]))
Fused(lists) ==
  LET met == Met(lists)
      Above(g, h) == \/ Greater(Score(g, lists), Score(h, lists))
                     \/ Score(g, lists)[1] * Score(h, lists)[2] = Score(h, lists)[1] * Score(g, lists)[2]
                        /\ Rank(met, g) < Rank(met, h)
  IN SortSeq(met, Above)

Ranked == {l \in BoundedSeq(Hits, Cardinality(Hits)) : IsInjective(l)}

\* The two searches rank some chunks each.
Search ==
  /\ answer = <<>>
  /\ \E dense, lexical \in Ranked :
       answer' = [lists |-> <<dense, lexical>>,
                  hits |-> SubSeq(Fused(<<dense, lexical>>), 1, Min({TopK, Len(Met(<<dense, lexical>>))}))]
  /\ UNCHANGED <<disk, reader>>

-----------------------------------------------------------------------------
(* The charter corpus: a manifest that declares the digest of every example *)
(* file.                                                                    *)

AllIds == UNION {DOMAIN Editions[v] : v \in DOMAIN Editions}
NoFile == "none"
NotReading == [pc |-> "off", manifest |-> 0, seen |-> <<>>, twice |-> FALSE, docs |-> <<>>]

\* git replaces one file after the other.
Checkout ==
  /\ \E v \in DOMAIN Editions :
       \/ disk.manifest # v /\ disk' = [disk EXCEPT !.manifest = v]
       \/ \E e \in AllIds :
            LET file == IF e \in DOMAIN Editions[v] THEN Editions[v][e] ELSE NoFile
            IN disk.files[e] # file /\ disk' = [disk EXCEPT !.files[e] = file]
  /\ UNCHANGED <<answer, reader>>

\* retrieve_charter validates the corpus once; an ingestion of it twice, the second time
\* for the digest.
ReadManifest ==
  /\ reader.pc = "off"
  /\ \E twice \in BOOLEAN :
       reader' = [NotReading EXCEPT !.pc = "reading", !.manifest = disk.manifest, !.twice = twice]
  /\ UNCHANGED <<answer, disk>>

\* _validate_digest.
\* Seeded fault: an example of the declared id will do.
DigestByName(e, manifest, content) == content # NoFile
Digest(e, manifest, content) == content = Editions[manifest][e]

ReadExample ==
  /\ reader.pc = "reading"
  /\ \E e \in DOMAIN Editions[reader.manifest] \ DOMAIN reader.seen :
       reader' = IF Digest(e, reader.manifest, disk.files[e])
                 THEN [reader EXCEPT !.seen = (e :> disk.files[e]) @@ @]
                 ELSE NotReading
  /\ UNCHANGED <<answer, disk>>

\* The files there are must be those declared.
EndReading ==
  /\ reader.pc = "reading" /\ DOMAIN reader.seen = DOMAIN Editions[reader.manifest]
  /\ LET files == {e \in AllIds : disk.files[e] # NoFile} IN
     reader' =
       CASE files # DOMAIN reader.seen -> NotReading
         [] files = DOMAIN reader.seen /\ reader.twice /\ reader.docs = <<>> ->
              [reader EXCEPT !.manifest = disk.manifest, !.seen = <<>>, !.docs = reader.seen]
         [] OTHER -> [reader EXCEPT !.pc = "done", !.docs = IF reader.twice THEN @ ELSE reader.seen]
  /\ UNCHANGED <<answer, disk>>

ReaderEnds ==
  /\ reader.pc = "done" /\ reader' = NotReading
  /\ UNCHANGED <<answer, disk>>

-----------------------------------------------------------------------------
Init ==
  /\ answer = <<>>
  /\ \E v \in DOMAIN Editions :
       disk = [manifest |-> v,
               files |-> [e \in AllIds |-> IF e \in DOMAIN Editions[v] THEN Editions[v][e] ELSE NoFile]]
  /\ reader = NotReading

Next == Search \/ Checkout \/ ReadManifest \/ ReadExample \/ EndReading \/ ReaderEnds

Spec == Init /\ [][Next]_vars

-----------------------------------------------------------------------------
\* Of two hits the one both searches rank higher, or that only it was found by more of
\* them at the same ranks, comes first.
FusionRespectsBoth ==
  answer # <<>> =>
    \A g, h \in Range(answer.lists[1]) \cup Range(answer.lists[2]) :
      (/\ g # h /\ h \in Range(answer.hits)
       /\ \A l \in 1..2 : h \in Range(answer.lists[l]) =>
             g \in Range(answer.lists[l]) /\ Rank(answer.lists[l], g) < Rank(answer.lists[l], h))
      => g \in Range(answer.hits) /\ Rank(answer.hits, g) < Rank(answer.hits, h)

\* What is retrieved or ingested is one committed edition of the corpus, although the
\* files are read one by one.
RetrievedIsWhole ==
  reader.pc = "done" => \E v \in DOMAIN Editions : reader.docs = Editions[v]
=============================================================================
