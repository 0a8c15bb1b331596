------------------------------ MODULE SourceLibrary ------------------------------
(***************************************************************************)
(* The library of source documents, which all organisations share          *)
(* (retrieval/, llm/): ingestions that fetch, embed and upsert documents,  *)
(* one transaction for each, and searches of memo runs, with their cache   *)
(* of candidates and their reranking.  Both call models through the LLM    *)
(* gateway, which tries a call several times and records it in the         *)
(* transaction of its caller.                                              *)
(***************************************************************************)
EXTENDS Naturals, Sequences, Rerank

CONSTANTS Ingestion,     \* runs of scripts/ingest.py or of the refresh of living sources
          Search,        \* searches, each in the transaction of a memo run
          Content,       \* what a reference may read as, told apart by family and hash; it
                         \* stands for the document and its passages
          Country,       \* stands for what a search filters by
          RefsOf,        \* the references of an ingestion: the country of each, in order
          TopK,          \* the numbers of passages a search may ask for
          Multiplier,    \* settings.retrieval_vector_candidate_multiplier
          MaxCandidates, \* settings.retrieval_vector_max_candidates
          MaxRetries,    \* _MAX_RETRIES
          Unknown,       \* an id of no passage, which an LLM may make up
          None           \* "no country", "no content", "nobody"

ASSUME Sizes == /\ TopK \subseteq Nat \ {0}
                /\ {Multiplier, MaxCandidates} \subseteq Nat \ {0}
                /\ MaxRetries \in Nat
ASSUME SomeQuery == Country # {} /\ TopK # {}
ASSUME Refs == \A g \in Ingestion : RefsOf[g] \in Seq(Country) /\ RefsOf[g] # <<>>
ASSUME Apart == Ingestion \cap Search = {}
ASSUME NoneIsNone == None \notin Content \cup Country \cup Ingestion

VARIABLES documents, \* the committed rows of source_documents
          inserting, \* the ingestion that has inserted a content and not yet committed it
          cache,     \* the lists of candidates in Redis; an empty one counts as none
          stage,     \* what each ingestion and each search is doing
          ingest,    \* the reference each ingestion is at, and what it read
          search,    \* the locals of each search
          attempt,   \* how often the present call of each has been tried again
          open,      \* the call records in the open transaction of each
          records    \* the committed rows of llm_call_records

vars == <<documents, inserting, cache, stage, ingest, search, attempt, open, records>>

Actor == Ingestion \cup Search

Present == {"live", "deleted"}

SourceDocument == [state : Present \cup {"absent"}, country : Country \cup {None}]

NoDocument == [state |-> "absent", country |-> None]

Live == {c \in Content : documents[c].state = "live"}

\* "looked": the document was not found; "inserted": it is, in the open transaction; "hit":
\* the cache had a list; "queried": the query is embedded; "found": the index has answered.
Stage == {"idle", "fetching", "embedding", "upserting", "looked", "inserted", "hit",
          "queried", "found", "ranking", "answered", "failing", "done", "failed"}

\* read is the history of what the ingestion has read so far.
Progress == [ref : Nat, content : Content \cup {None}, read : SUBSET Content]

Query == [country : Country, topK : TopK]

\* listed: the ids that the cache or the index gave.  History: whether a candidate was
\* deleted when it was read (gone), whether the candidates came from the cache (hit), whether
\* the LLM ranked them (asked) and named one twice (repeats).
Locals == [query : Query, listed : Seq(Content), candidates : Seq(Content), gone : BOOLEAN,
           hit : BOOLEAN, answer : Seq(Content), repeats : BOOLEAN, asked : BOOLEAN]

NoLocals == [query |-> CHOOSE q \in Query : TRUE, listed |-> <<>>, candidates |-> <<>>,
             gone |-> FALSE, hit |-> FALSE, answer |-> <<>>, repeats |-> FALSE,
             asked |-> FALSE]

LLMCallRecord == [by : Actor, call : {"embed", "rerank"}, of : Content \cup {None},
                  success : BOOLEAN]

Call(a, call, c, success) == [by |-> a, call |-> call, of |-> c, success |-> success]

Goes(a, next) == stage' = [stage EXCEPT ![a] = next]

--------------------------------------------------------------------------------
(***************************************************************************)
(* The LLM gateway.                                                        *)
(***************************************************************************)
Calling(a) == \/ stage[a] = "embedding"
              \/ stage[a] = "ranking" /\ search[a].candidates # <<>>

\* Mutant: only the last call's record is kept.
PersistLast(a, record) == open' = [open EXCEPT ![a] = {record}]

\* _persist, in the caller's session.
Persist(a, record) == open' = [open EXCEPT ![a] = @ \cup {record}]

\* A call that was answered.
Answered(a, record) == /\ Persist(a, record)
                       /\ attempt' = [attempt EXCEPT ![a] = 0]

\* Mutant: one retry too many.
RetryOnceMore(a) ==
    /\ Calling(a)
    /\ attempt[a] <= MaxRetries
    /\ attempt' = [attempt EXCEPT ![a] = @ + 1]
    /\ UNCHANGED <<documents, inserting, cache, stage, ingest, search, open, records>>

\* The provider answers 429 or 5xx.
Retry(a) ==
    /\ Calling(a)
    /\ attempt[a] < MaxRetries
    /\ attempt' = [attempt EXCEPT ![a] = @ + 1]
    /\ UNCHANGED <<documents, inserting, cache, stage, ingest, search, open, records>>

\* No retry is left, the error is of another kind, or what came back is not what was asked
\* for: one record, however many attempts, and the caller is told.
CallFails(a) ==
    /\ Calling(a)
    /\ Persist(a, Call(a, IF stage[a] = "embedding" THEN "embed" ELSE "rerank",
                       IF a \in Ingestion THEN ingest[a].content ELSE None, FALSE))
    /\ attempt' = [attempt EXCEPT ![a] = 0]
    /\ Goes(a, "failing")
    /\ UNCHANGED <<documents, inserting, cache, ingest, search, records>>

--------------------------------------------------------------------------------
(***************************************************************************)
(* Transactions of both.                                                   *)
(***************************************************************************)
Commit(a) == /\ records' = records \cup open[a]
             /\ open' = [open EXCEPT ![a] = {}]

\* Any other error, of this code or of its caller, or the death of the process.
Fail(a) ==
    /\ stage[a] \notin {"idle", "failing", "done", "failed"}
    /\ attempt' = [attempt EXCEPT ![a] = 0]
    /\ Goes(a, "failing")
    /\ UNCHANGED <<documents, inserting, cache, ingest, search, open, records>>

\* Nobody catches the error: the session is closed, and the run is over.
RollBack(a) ==
    /\ stage[a] = "failing"
    /\ open' = [open EXCEPT ![a] = {}]
    /\ inserting' = [c \in Content |-> IF inserting[c] = a THEN None ELSE inserting[c]]
    /\ search' = [s \in Search |-> IF s = a THEN NoLocals ELSE search[s]]
    /\ Goes(a, "failed")
    /\ UNCHANGED <<documents, cache, ingest, attempt, records>>

--------------------------------------------------------------------------------
(***************************************************************************)
(* Ingestion: one reference after the other.                               *)
(***************************************************************************)
StartIngest(g) ==
    /\ stage[g] = "idle"
    /\ Goes(g, "fetching")
    /\ UNCHANGED <<documents, inserting, cache, ingest, search, attempt, open, records>>

NextRef(g) ==
    LET n == ingest[g].ref
    IN  IF n = Len(RefsOf[g])
        THEN Goes(g, "done") /\ UNCHANGED ingest
        ELSE /\ Goes(g, "fetching")
             /\ ingest' = [ingest EXCEPT ![g].ref = n + 1, ![g].content = None]

\* fetch and parse.
Fetch(g, c) ==
    /\ stage[g] = "fetching"
    /\ ingest' = [ingest EXCEPT ![g].content = c, ![g].read = @ \cup {c}]
    /\ Goes(g, "embedding")
    /\ UNCHANGED <<documents, inserting, cache, search, attempt, open, records>>

\* There is no passage on the page: nothing is embedded, nothing upserted.
FetchNothing(g) ==
    /\ stage[g] = "fetching"
    /\ NextRef(g)
    /\ UNCHANGED <<documents, inserting, cache, search, attempt, open, records>>

EmbedPassages(g) ==
    /\ stage[g] = "embedding"
    /\ Answered(g, Call(g, "embed", ingest[g].content, TRUE))
    /\ Goes(g, "upserting")
    /\ UNCHANGED <<documents, inserting, cache, ingest, search, records>>

\* The row is found by family and hash, deleted or not: title and last_verified_at are
\* written, and committed, and nothing else of it.
Refresh(g) ==
    /\ stage[g] = "upserting"
    /\ documents[ingest[g].content].state \in Present
    /\ Commit(g)
    /\ NextRef(g)
    /\ UNCHANGED <<documents, inserting, cache, search, attempt>>

LookUp(g) ==
    /\ stage[g] = "upserting"
    /\ documents[ingest[g].content].state = "absent"
    /\ Goes(g, "looked")
    /\ UNCHANGED <<documents, inserting, cache, ingest, search, attempt, open, records>>

\* The flush of the new row waits while another transaction holds the same key.
Insert(g) ==
    LET c == ingest[g].content
    IN  /\ stage[g] = "looked"
        /\ inserting[c] = None
        /\ documents[c].state = "absent"
        /\ inserting' = [inserting EXCEPT ![c] = g]
        /\ Goes(g, "inserted")
        /\ UNCHANGED <<documents, cache, ingest, search, attempt, open, records>>

\* uq_source_documents_source_family_content_hash.
Conflict(g) ==
    /\ stage[g] = "looked"
    /\ documents[ingest[g].content].state \in Present
    /\ Goes(g, "failing")
    /\ UNCHANGED <<documents, inserting, cache, ingest, search, attempt, open, records>>

\* Mutant: there is one commit, after the last reference.
CommitAllRefs(g) ==
    LET Mine == {c \in Content : inserting[c] = g}
    IN  /\ stage[g] = "inserted"
        /\ NextRef(g)
        /\ IF ingest[g].ref = Len(RefsOf[g])
           THEN /\ documents' = [c \in Content |->
                      IF c \in Mine THEN [state |-> "live", country |-> RefsOf[g][1]]
                                    ELSE documents[c]]
                /\ inserting' = [c \in Content |-> IF c \in Mine THEN None ELSE inserting[c]]
                /\ Commit(g)
           ELSE UNCHANGED <<documents, inserting, open, records>>
        /\ UNCHANGED <<cache, search, attempt>>

CommitRef(g) ==
    LET c == ingest[g].content
    IN  /\ stage[g] = "inserted"
        /\ documents' = [documents EXCEPT
               ![c] = [state |-> "live", country |-> RefsOf[g][ingest[g].ref]]]
        /\ inserting' = [inserting EXCEPT ![c] = None]
        /\ Commit(g)
        /\ NextRef(g)
        /\ UNCHANGED <<cache, search, attempt>>

--------------------------------------------------------------------------------
(***************************************************************************)
(* Search.                                                                 *)
(***************************************************************************)
\* Never below topK, since Multiplier is not 0.
CandidateLimit(topK) ==
    IF topK * Multiplier < MaxCandidates THEN topK * Multiplier ELSE MaxCandidates

\* The digest covers all that the candidates depend on.
CacheKey(q) == [country |-> q.country, topK |-> q.topK, limit |-> CandidateLimit(q.topK)]

\* Mutant: a key without the filters.
CacheKeyUnfiltered(q) == [country |-> None, topK |-> q.topK, limit |-> CandidateLimit(q.topK)]

Keys == {CacheKey(q) : q \in Query}

Key(s) == CacheKey(search[s].query)

\* get_candidate_ids: what is no list of strings counts as none, as a list that is empty
\* does.  A string in it that is no id raises, which Fail stands for.
CandidateIds(q) == cache[CacheKey(q)]

\* The query is validated and its list of candidates looked up.
Ask(s, q) ==
    /\ stage[s] = "idle"
    /\ search' = [search EXCEPT ![s].query = q, ![s].listed = CandidateIds(q)]
    /\ Goes(s, IF CandidateIds(q) # <<>> THEN "hit" ELSE "embedding")
    /\ UNCHANGED <<documents, inserting, cache, ingest, attempt, open, records>>

Read(s, ids, hit) ==
    search' = [search EXCEPT ![s].candidates = ids, ![s].hit = hit,
                             ![s].gone = ~(Range(ids) \subseteq Live)]

\* Mutant: what is gone is left out.
LoadWhatIsLeft(s) ==
    LET IsLive(c) == c \in Live
    IN  /\ stage[s] = "hit"
        /\ Read(s, SelectSeq(search[s].listed, IsLive), TRUE)
        /\ Goes(s, "ranking")
        /\ UNCHANGED <<documents, inserting, cache, ingest, attempt, open, records>>

\* The passages of the list, unless one of them is gone: then the list is worth nothing.
Load(s) ==
    LET whole == Range(search[s].listed) \subseteq Live
    IN  /\ stage[s] = "hit"
        /\ IF whole THEN Read(s, search[s].listed, TRUE) ELSE UNCHANGED search
        /\ Goes(s, IF whole THEN "ranking" ELSE "embedding")
        /\ UNCHANGED <<documents, inserting, cache, ingest, attempt, open, records>>

EmbedQuery(s) ==
    /\ stage[s] = "embedding"
    /\ Answered(s, Call(s, "embed", None, TRUE))
    /\ Goes(s, "queried")
    /\ UNCHANGED <<documents, inserting, cache, ingest, search, records>>

Matches(c, q) == c \in Live /\ documents[c].country = q.country

\* The index is approximate, and its entries are filtered after it gave them: any matching
\* passages, in any order, up to the limit.
AnnSearch(s, found) ==
    LET q == search[s].query
    IN  /\ stage[s] = "queried"
        /\ Len(found) <= CandidateLimit(q.topK)
        /\ IsInjective(found)
        /\ \A c \in Range(found) : Matches(c, q)
        /\ search' = [search EXCEPT ![s].listed = found, ![s].candidates = found]
        /\ Goes(s, "found")
        /\ UNCHANGED <<documents, inserting, cache, ingest, attempt, open, records>>

\* The list is for other searches at once, though this one has committed nothing.
Store(s) ==
    /\ stage[s] = "found"
    /\ cache' = [cache EXCEPT ![Key(s)] = search[s].candidates]
    /\ Goes(s, "ranking")
    /\ UNCHANGED <<documents, inserting, ingest, search, attempt, open, records>>

Rank(s, ids, ordered, byLLM) ==
    /\ search' = [search EXCEPT ![s].answer = FirstOf(ordered, search[s].query.topK),
                                ![s].repeats = ~IsInjective(ids), ![s].asked = byLLM]
    /\ Goes(s, "answered")
    /\ UNCHANGED <<documents, inserting, cache, ingest, records>>

RankNothing(s) ==
    /\ stage[s] = "ranking"
    /\ search[s].candidates = <<>>
    /\ Rank(s, <<>>, <<>>, FALSE)
    /\ UNCHANGED <<attempt, open>>

RankByLLM(s, ids) ==
    /\ stage[s] = "ranking"
    /\ search[s].candidates # <<>>
    /\ Answered(s, Call(s, "rerank", None, TRUE))
    /\ Rank(s, ids, ApplyOrder(search[s].candidates, ids), TRUE)

RankByCrossEncoder(s, ordered) ==
    /\ stage[s] = "ranking"
    /\ search[s].candidates # <<>>
    /\ Rank(s, <<>>, ordered, FALSE)
    /\ attempt' = [attempt EXCEPT ![s] = 0]
    /\ UNCHANGED open

\* The memo run goes on with the answer, and in the end commits.
CommitSearch(s) ==
    /\ stage[s] = "answered"
    /\ Commit(s)
    /\ search' = [search EXCEPT ![s] = [NoLocals EXCEPT !.hit = search[s].hit,
                                                       !.asked = search[s].asked]]
    /\ Goes(s, "done")
    /\ UNCHANGED <<documents, inserting, cache, ingest, attempt>>

--------------------------------------------------------------------------------
\* An entry is dropped after 24 hours, or before.
Expire(k) ==
    /\ cache' = [cache EXCEPT ![k] = <<>>]
    /\ UNCHANGED <<documents, inserting, stage, ingest, search, attempt, open, records>>

\* deleted_at is written by nobody in the code; an operator may.
SetDeleted(c, state) ==
    /\ documents[c].state \in Present
    /\ documents' = [documents EXCEPT ![c].state = state]
    /\ UNCHANGED <<inserting, cache, stage, ingest, search, attempt, open, records>>

Init == /\ documents = [c \in Content |-> NoDocument]
        /\ inserting = [c \in Content |-> None]
        /\ cache = [k \in Keys |-> <<>>]
        /\ stage = [a \in Actor |-> "idle"]
        /\ ingest = [g \in Ingestion |-> [ref |-> 1, content |-> None, read |-> {}]]
        /\ search = [s \in Search |-> NoLocals]
        /\ attempt = [a \in Actor |-> 0]
        /\ open = [a \in Actor |-> {}]
        /\ records = {}

\* Lists of at most n of these.
ListsOf(S, n) == UNION {[1 .. k -> S] : k \in 0 .. n}

Upsert(g) == Insert(g) \/ Conflict(g)

IngestStep(g) == \/ StartIngest(g)
                 \/ \E c \in Content : Fetch(g, c)
                 \/ FetchNothing(g)
                 \/ EmbedPassages(g)
                 \/ Refresh(g)
                 \/ LookUp(g)
                 \/ Upsert(g)
                 \/ CommitRef(g)

\* MaxCandidates + 1 bounds what the LLM names.
SearchStep(s) == \/ Load(s)
                 \/ EmbedQuery(s)
                 \/ \E found \in ListsOf(Content, MaxCandidates) : AnnSearch(s, found)
                 \/ Store(s)
                 \/ RankNothing(s)
                 \/ \E ids \in ListsOf(Content \cup {Unknown}, MaxCandidates + 1) :
                       RankByLLM(s, ids)
                 \/ \E ordered \in Permuted(search[s].candidates) :
                       RankByCrossEncoder(s, ordered)
                 \/ CommitSearch(s)

CallStep(a) == Retry(a) \/ CallFails(a) \/ RollBack(a)

Next == \/ \E g \in Ingestion : IngestStep(g)
        \/ \E s \in Search : SearchStep(s) \/ \E q \in Query : Ask(s, q)
        \/ \E a \in Actor : CallStep(a) \/ Fail(a)
        \/ \E k \in Keys : Expire(k)
        \/ \E c \in Content, state \in Present : SetDeleted(c, state)

Spec == Init /\ [][Next]_vars

(***************************************************************************)
(* Fairness.  Code that does not wait goes on, and a call is answered or   *)
(* times out; PostgreSQL queues those who wait for a key.                  *)
(***************************************************************************)
Fairness == /\ \A g \in Ingestion : /\ WF_vars(IngestStep(g) \/ CallStep(g))
                                    /\ SF_vars(Upsert(g))
            /\ \A s \in Search : WF_vars(SearchStep(s) \/ CallStep(s))

FairSpec == Spec /\ Fairness

--------------------------------------------------------------------------------
(***************************************************************************)
(* Properties                                                              *)
(***************************************************************************)
\* Every variable has its type.
TypeOK == /\ documents \in [Content -> SourceDocument]
          /\ inserting \in [Content -> Ingestion \cup {None}]
          /\ cache \in [Keys -> Seq(Content)]
          /\ stage \in [Actor -> Stage]
          /\ ingest \in [Ingestion -> Progress]
          /\ search \in [Search -> Locals]
          /\ attempt \in [Actor -> 0 .. MaxRetries]
          /\ open \in [Actor -> SUBSET LLMCallRecord]
          /\ records \subseteq LLMCallRecord

\* The candidates are the list that the index gave, now or for the same query before, whole,
\* of passages that were not deleted when they were read and that pass the query's filters.
CandidatesWhole(s) ==
    /\ search[s].candidates = search[s].listed
    /\ ~search[s].gone
    /\ \A c \in Range(search[s].candidates) : documents[c].country = search[s].query.country

\* The answer is made of candidates; unless an id was named twice, it has as many different
\* ones as were asked for and there are.
AnswerKept(s) ==
    LET answer == search[s].answer
    IN  /\ Range(answer) \subseteq Range(search[s].candidates)
        /\ Len(answer) <= search[s].query.topK
        /\ ~search[s].repeats =>
               /\ IsInjective(answer)
               /\ answer = FirstOf(answer, Len(search[s].candidates))
               /\ Len(answer) \in {search[s].query.topK, Len(search[s].candidates)}

\* A search ranks whole lists of candidates (passage_search.search), though a cached one may
\* be a day old.
CandidatesSound == \A s \in Search : stage[s] \in {"ranking", "answered"} => CandidatesWhole(s)

\* What a memo run gets from a search (passage_search.search), from the cache or from the
\* index, while documents come, go and come back and lists expire under it.
AnswersSound == /\ CandidatesSound
                /\ \A s \in Search : stage[s] = "answered" => AnswerKept(s)

\* What the library holds and what a search has answered are accounted for: no document
\* without the record of the embedding of its passages, by whichever ingestion read it, and
\* no finished search without the records of the calls it made (_persist in the session of
\* the caller, committed or lost together with what the call was for).
CallsRecorded ==
    /\ \A c \in Content : documents[c].state \in Present =>
           \E g \in Ingestion : Call(g, "embed", c, TRUE) \in records
    /\ \A s \in Search : stage[s] = "done" =>
           /\ search[s].hit \/ Call(s, "embed", None, TRUE) \in records
           /\ search[s].asked => Call(s, "rerank", None, TRUE) \in records

\* "Every model call produces an `LLMCallRecord` row" (docs/05_cursor_build_plan.md:372), "One
\* row per model API attempt (success or failure)" (llm/models.py:28): when a transaction
\* ends, the records that the gateway has put into it are in the table.
EveryCallRecorded == [][\A a \in Actor : open'[a] = {} => open[a] \subseteq records']_vars

\* A row keeps the country it was inserted with: no second ingestion inserts it again
\* (upsert_document and the unique constraint).
CountryKept == [][\A c \in Content : documents[c].state \in Present =>
                      documents'[c].country = documents[c].country]_vars

\* An ingestion that is done has left in the library whatever it read.
Finished(g) == stage[g] = "done" /\ \A c \in ingest[g].read : documents[c].state \in Present

ReadsKept == \A g \in Ingestion : stage[g] = "done" => Finished(g)

\* Every run ends, though ingestions wait for each other's keys and calls are tried again: an
\* ingestion that does not fail leaves in the library whatever it read, and a search answers.
RunsEnd == /\ \A g \in Ingestion : stage[g] # "idle" ~> stage[g] = "failed" \/ Finished(g)
           /\ \A s \in Search : stage[s] # "idle" ~> stage[s] \in {"done", "failed"}

================================================================================
