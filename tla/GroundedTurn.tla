---------------------------- MODULE GroundedTurn ----------------------------
(***************************************************************************)
(* An agent turn with the evidence it is given: the example document the   *)
(* server chunks and ingests when it starts (ingestExampleDocument,        *)
(* chunkPlainText, InMemoryRetrieval), and what retrieveForTurn finds and  *)
(* assembles for one utterance (retrieve, assembleRetrieval).              *)
(*                                                                         *)
(* A document is the set of positions that hold a letter; all others are   *)
(* blank, which is all that trim and the chunk checks look at.  A chunk is *)
(* its locator and the length of its text.  Scores and the identity of the *)
(* query's embedding are whatever the model's embed returns.               *)
(***************************************************************************)
EXTENDS AgentTurn, Sequences, FiniteSets, SequencesExt

CONSTANTS
  Documents,     \* what the example document may look like; {} when none is ingested
  ChunkSize,     \* CHUNK_SIZE
  ChunkOverlap,  \* CHUNK_OVERLAP
  RetrievalK,    \* RETRIEVAL_K
  Threshold,     \* RETRIEVAL_THRESHOLD
  Scores,        \* cosine similarities, as integers
  Embedders,     \* embedding model identities
  ChunkFrame,    \* characters that formatHit puts around a text
  MaxAssembled   \* MAX_ASSEMBLED_RETRIEVAL_CHARS

ASSUME ChunkingAssumption ==
  /\ ChunkSize \in Nat /\ ChunkOverlap \in Nat /\ ChunkOverlap < ChunkSize
  /\ RetrievalK \in Nat /\ Threshold \in Int /\ ChunkFrame \in Nat /\ MaxAssembled \in Nat

ASSUME DocumentsAssumption ==
  /\ \A letters \in Documents : letters \subseteq Nat /\ IsFiniteSet(letters)
  /\ Scores \subseteq Int
  /\ NoValue \notin [score : Seq(Scores), embedder : Embedders]

VARIABLES
  document,  \* the letters of the ingested document
  store,     \* InMemoryRetrieval.chunks, in the order of ingestion
  query,     \* how the chunks scored for the utterance, and its embedding's identity
  sources    \* the chunks packed into the model's context, as assembled

knowledge == <<document, store, query, sources>>
groundedVars == <<vars, knowledge>>

-----------------------------------------------------------------------------
(* Ingestion, once, before the server listens.                             *)

\* text.trim(): the first letter is at position 0, the last at the end.
Normalized(letters) == {p - Min(letters) : p \in letters}

Text(letters, from, to) == {p \in letters : from <= p /\ p < to}
TextLength(text) == IF text = {} THEN 0 ELSE Max(text) - Min(text) + 1

\* Mutant: the next window starts where the last one ended.
StartsAfter(to) == to

\* Where the window after [.., to) starts.
NextStart(to) == to - ChunkOverlap

\* The loop of chunkPlainText over a text of length n.
Windows(n) ==
  LET from[start \in 0 .. n] ==
        LET to == Min({start + ChunkSize, n})
        IN <<[from |-> start, to |-> to]>> \o (IF to >= n THEN <<>> ELSE from[NextStart(to)])
  IN from[0]

\* A chunk whose text is blank is an error, and the server does not start.
IsIngestible(letters) ==
  LET text == Normalized(letters)
      windows == Windows(Max(text) + 1)
  IN \A i \in DOMAIN windows : Text(text, windows[i].from, windows[i].to) # {}

Ingested(letters, embedder) ==
  LET text == Normalized(letters)
      windows == Windows(Max(text) + 1)
  IN [i \in DOMAIN windows |->
       [locator |-> windows[i], embedder |-> embedder,
        length |-> TextLength(Text(text, windows[i].from, windows[i].to))]]

-----------------------------------------------------------------------------
(* Retrieval.                                                              *)

\* Mutant: chunks of any embedding are compared.
MatchesAnyEmbedder(i, q) == q.score[i] >= Threshold

\* Vectors of another embedding model are never compared.
Matches(i, q) == store[i].embedder = q.embedder /\ q.score[i] >= Threshold

Found(q) == {i \in DOMAIN store : Matches(i, q)}

\* Highest score first; sort is stable, so chunks of one score stay in order.
Before(q, i, j) == q.score[i] > q.score[j] \/ (q.score[i] = q.score[j] /\ i < j)

\* How many chunks that were found come before chunk i.
Rank(q, i) == Cardinality({j \in Found(q) : Before(q, j, i)})

Ranked(q) == [n \in 1 .. Cardinality(Found(q)) |-> CHOOSE i \in Found(q) : Rank(q, i) = n - 1]

Hits(q) == SubSeq(Ranked(q), 1, Min({RetrievalK, Len(Ranked(q))}))

\* The length of packBlock.
BlockLength(hits) == FoldLeft(LAMBDA sum, i : sum + ChunkFrame + store[i].length, 0, hits)

\* Mutant: the block is measured before the hit is added.
FitsBefore(selected, i) == BlockLength(selected) <= MaxAssembled

Fits(selected, i) == BlockLength(Append(selected, i)) <= MaxAssembled

\* assembleRetrieval: a hit that does not fit is passed over, the next is tried.
Assembled(hits) ==
  FoldLeft(LAMBDA selected, i : IF Fits(selected, i) THEN Append(selected, i) ELSE selected,
           <<>>, hits)

-----------------------------------------------------------------------------
GroundedInit ==
  /\ Init
  /\ \/ \E letters \in Documents \ {{}}, embedder \in Embedders :
          /\ IsIngestible(letters)
          /\ document = Normalized(letters)
          /\ store = Ingested(letters, embedder)
     \/ /\ {} \in Documents
        /\ document = {}
        /\ store = <<>>
  /\ query = NoValue
  /\ sources = <<>>

\* The utterance is embedded, the store searched and the context assembled.
RetrieveForTurn ==
  /\ Retrieve
  /\ state' = "reasoning"
  /\ \E score \in [DOMAIN store -> Scores], embedder \in Embedders :
       LET q == [score |-> score, embedder |-> embedder]
       IN query' = q /\ sources' = Assembled(Hits(q))
  /\ UNCHANGED <<document, store>>

\* Embedding or retrieval throws: the turn fails, without evidence.
RetrievalFails ==
  /\ Retrieve
  /\ state' = "failed"
  /\ UNCHANGED knowledge

\* The rest of the turn works with the evidence it has; nothing is retrieved again.
TurnGoesOn ==
  /\ state # "retrieving"
  /\ Next
  /\ UNCHANGED knowledge

GroundedNext == RetrieveForTurn \/ RetrievalFails \/ TurnGoesOn

GroundedSpec ==
  /\ GroundedInit /\ [][GroundedNext]_groundedVars
  /\ WF_vars(Runtime) /\ WF_vars(Tick)

-----------------------------------------------------------------------------
(* Properties.                                                             *)

\* What chunking with an overlap is for: any stretch of the document no longer
\* than the overlap and one letter is whole in some chunk, and no letter is lost
\* (chunk-document.ts:25-40).
PassagesAreKeptWhole ==
  \A p, q \in document :
    p <= q /\ q - p <= ChunkOverlap =>
      \E i \in DOMAIN store : store[i].locator.from <= p /\ q < store[i].locator.to

\* "Context assembly MUST pack only above-threshold hits [...] Assembled retrieved
\* text MUST stay within a documented character budget"
\* (openspec/specs/knowledge-retrieval/spec.md:67): at every point of a turn the
\* context holds distinct chunks, best first, that matched the query under its own
\* embedding, at most the K best and no more than fit.
SourcesAreEvidence ==
  /\ sources # <<>> => query # NoValue
  /\ \A n \in DOMAIN sources :
       LET i == sources[n]
           better == {j \in DOMAIN store :
                        store[j].embedder = query.embedder /\ query.score[j] > query.score[i]}
       IN /\ store[i].embedder = query.embedder
          /\ query.score[i] >= Threshold
          /\ Cardinality(better) < RetrievalK
          /\ \A m \in 1 .. n - 1 : sources[m] # i /\ query.score[sources[m]] >= query.score[i]
  /\ BlockLength(sources) <= MaxAssembled

\* "Hits that would exceed the budget MUST be dropped from the lowest rank first"
\* (openspec/specs/knowledge-retrieval/spec.md:67): what is packed is a beginning of
\* the ranking.
LowestRankIsDroppedFirst ==
  query # NoValue =>
    \A n \in DOMAIN sources : sources[n] = Hits(query)[n]
=============================================================================
