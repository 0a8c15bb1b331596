-------------------------- MODULE SourceLibrary_proofs --------------------------
(***************************************************************************)
(* llm_call_records covers the documents and the finished searches but     *)
(* never what has failed, what was read is kept, and searches rank whole   *)
(* lists of passages that pass their filters, for every set of runs,       *)
(* contents, countries and queries.                                        *)
(*                                                                         *)
(* The argument about records: a failed call ends its run, so what is open *)
(* in a run that goes on are successes (OwnSuccesses), and where a run is  *)
(* says which of them there are (Embedded, Asked).  A search commits once, *)
(* at its end (Uncommitted).  About lists: a row is inserted by one        *)
(* ingestion (Exclusive), so what filters looked at does not change, and a *)
(* list that passed once passes for all queries with its key (CacheSound). *)
(***************************************************************************)
EXTENDS SourceLibrary, Lists_proofs

\* The types the argument needs.
Shape == /\ documents \in [Content -> SourceDocument]
         /\ stage \in [Actor -> Stage]
         /\ ingest \in [Ingestion -> Progress]
         /\ \A g \in Ingestion : ingest[g].ref \in 1 .. Len(RefsOf[g])
         /\ open \in [Actor -> SUBSET LLMCallRecord]
         /\ DOMAIN search = Search
         /\ \A s \in Search : {"hit", "asked"} \subseteq DOMAIN search[s]

\* What is open in a transaction is its own, and, unless the run is about to fail, successes.
OwnSuccesses ==
    \A a \in Actor : \A r \in open[a] : r.by = a /\ (stage[a] # "failing" => r.success)

\* An ingestion about to upsert has embedded the passages.
Embedded ==
    \A g \in Ingestion : stage[g] \in {"upserting", "looked", "inserted"} =>
        Call(g, "embed", ingest[g].content, TRUE) \in open[g]

\* A search has made the calls that its candidates and its answer took.
Asked ==
    \A s \in Search :
        /\ stage[s] \in {"queried", "found"} => Call(s, "embed", None, TRUE) \in open[s]
        /\ stage[s] \in {"ranking", "answered"} =>
               search[s].hit \/ Call(s, "embed", None, TRUE) \in open[s]
        /\ stage[s] = "answered" /\ search[s].asked => Call(s, "rerank", None, TRUE) \in open[s]

\* A search that is not done has committed nothing.
Uncommitted == \A s \in Search, r \in records : stage[s] # "done" => r.by # s

\* What an ingestion has read is in the library, but for what it is at.
Kept ==
    \A g \in Ingestion : stage[g] \notin {"failing", "failed"} =>
        \A c \in ingest[g].read :
            \/ documents[c].state \in Present
            \/ c = ingest[g].content /\ stage[g] \in {"embedding", "upserting", "looked", "inserted"}

\* Who has inserted a row and not committed it is the only one, and the row is new.
Exclusive ==
    /\ DOMAIN inserting = Content
    /\ \A g \in Ingestion :
           /\ stage[g] \in {"embedding", "upserting", "looked", "inserted"} =>
                  ingest[g].content \in Content
           /\ stage[g] = "inserted" => /\ inserting[ingest[g].content] = g
                                       /\ documents[ingest[g].content].state = "absent"

\* These passages pass the filters of the query.
Pass(ids, q) == \A c \in Range(ids) : /\ c \in Content
                                      /\ documents[c].state \in Present
                                      /\ documents[c].country = q.country

\* So do the lists in the cache.
CacheSound == DOMAIN cache = Keys /\ \A q \in Query : Pass(cache[CacheKey(q)], q)

Fields == {"query", "listed", "candidates", "gone", "answer", "repeats", "asked", "hit"}

\* And what a search has listed and taken.
ListSound(s) ==
    /\ DOMAIN search[s] = Fields
    /\ ~search[s].gone
    /\ stage[s] \in {"hit", "embedding", "queried", "found", "ranking", "answered"} =>
           search[s].query \in Query
    /\ stage[s] = "hit" => Pass(search[s].listed, search[s].query)
    /\ stage[s] \in {"found", "ranking", "answered"} =>
           /\ search[s].candidates = search[s].listed
           /\ Pass(search[s].candidates, search[s].query)

\* The table holds no failed call, and no call of a failed search, though it answered.
FailuresLost == /\ \A r \in records : r.success
                /\ \A s \in Search, r \in records : stage[s] = "failed" => r.by # s

CallInv == /\ Shape /\ OwnSuccesses /\ Embedded /\ Asked /\ Uncommitted
           /\ CallsRecorded /\ FailuresLost

KeptInv == Shape /\ Kept

ExclusiveInv == Shape /\ Exclusive

ListInv == ExclusiveInv /\ CacheSound /\ \A s \in Search : ListSound(s)

--------------------------------------------------------------------------------
(***************************************************************************)
(* What a step does.                                                       *)
(***************************************************************************)

\* A step of one run, and of nobody.
Step(a) == \/ a \in Ingestion /\ IngestStep(a)
           \/ a \in Search /\ (SearchStep(a) \/ \E q \in Query : Ask(a, q))
           \/ CallStep(a)
           \/ Fail(a)

World == \/ \E k \in Keys : Expire(k)
         \/ \E c \in Content, state \in Present : SetDeleted(c, state)
         \/ UNCHANGED vars

LEMMA StepOrWorld == [Next]_vars => (\E a \in Actor : Step(a)) \/ World
BY DEF Next, Step, World, Actor

\* The calls are call records.
LEMMA CallType ==
    ASSUME NEW a \in Actor, NEW call \in {"embed", "rerank"}, NEW c \in Content \cup {None},
           NEW success \in BOOLEAN
    PROVE  /\ Call(a, call, c, success) \in LLMCallRecord
           /\ Call(a, call, c, success).by = a
           /\ Call(a, call, c, success).success = success
BY DEF Call, LLMCallRecord

\* A step of a search that leaves other searches alone and sets these fields of its own.
Sets(s, hit, asked) == /\ DOMAIN search' = Search
                       /\ \A t \in Search \ {s} : search'[t] = search[t]
                       /\ {"hit", "asked"} \subseteq DOMAIN search'[s]
                       /\ search'[s].hit = hit /\ search'[s].asked = asked

\* What the steps of a search do to these fields.
LEMMA SearchFields ==
    ASSUME Shape, NEW s \in Search
    PROVE  /\ \A q : Ask(s, q) => Sets(s, search[s].hit, search[s].asked)
           /\ \A ids, hit : Read(s, ids, hit) => Sets(s, hit, search[s].asked)
           /\ \A found : AnnSearch(s, found) => Sets(s, search[s].hit, search[s].asked)
           /\ \A ids, ordered, byLLM :
                  Rank(s, ids, ordered, byLLM) => Sets(s, search[s].hit, byLLM)
           /\ CommitSearch(s) => Sets(s, search[s].hit, search[s].asked)
<1>1. DOMAIN search = Search /\ {"hit", "asked"} \subseteq DOMAIN search[s]
  BY DEF Shape
<1>2. ASSUME NEW q, Ask(s, q)
      PROVE  Sets(s, search[s].hit, search[s].asked)
  BY <1>1, <1>2 DEF Ask, Sets
<1>3. ASSUME NEW ids, NEW hit, Read(s, ids, hit)
      PROVE  Sets(s, hit, search[s].asked)
  BY <1>1, <1>3 DEF Read, Sets
<1>4. ASSUME NEW found, AnnSearch(s, found)
      PROVE  Sets(s, search[s].hit, search[s].asked)
  BY <1>1, <1>4 DEF AnnSearch, Sets
<1>5. ASSUME NEW ids, NEW ordered, NEW byLLM, Rank(s, ids, ordered, byLLM)
      PROVE  Sets(s, search[s].hit, byLLM)
  BY <1>1, <1>5 DEF Rank, Sets
<1>6. ASSUME CommitSearch(s)
      PROVE  Sets(s, search[s].hit, search[s].asked)
  <2> DEFINE left == [NoLocals EXCEPT !.hit = search[s].hit, !.asked = search[s].asked]
  <2>1. {"hit", "asked"} \subseteq DOMAIN left /\ left.hit = search[s].hit /\ left.asked = search[s].asked
    BY DEF NoLocals
  <2>2. search' = [search EXCEPT ![s] = left]
    BY <1>6 DEF CommitSearch
  <2> HIDE DEF left
  <2> QED BY <1>1, <2>1, <2>2 DEF Sets
<1> QED BY <1>2, <1>3, <1>4, <1>5, <1>6

\* A run keeps its hands off other runs.
Quiet(b) == /\ stage'[b] = stage[b] /\ open'[b] = open[b]
            /\ b \in Ingestion => ingest'[b] = ingest[b]
            /\ b \in Search => search'[b] = search[b]

LEMMA OwnSteps ==
    ASSUME Shape, NEW a \in Actor, NEW b \in Actor, a # b, Step(a)
    PROVE  Quiet(b)
<1>1. /\ stage \in [Actor -> Stage] /\ ingest \in [Ingestion -> Progress]
      /\ open \in [Actor -> SUBSET LLMCallRecord] /\ DOMAIN search = Search
  BY DEF Shape
<1>2. ASSUME a \in Ingestion, NextRef(a)
      PROVE  stage'[b] = stage[b] /\ (b \in Ingestion => ingest'[b] = ingest[b])
  BY <1>1, <1>2 DEF NextRef, Goes
<1>3. ASSUME a \in Ingestion, IngestStep(a)
      PROVE  Quiet(b)
  <2>1. CASE StartIngest(a) \/ LookUp(a) \/ Insert(a) \/ Conflict(a)
    BY <1>1, <2>1 DEF StartIngest, LookUp, Insert, Conflict, Goes, Quiet
  <2>2. ASSUME NEW c \in Content, Fetch(a, c)
        PROVE  Quiet(b)
    BY <1>1, <2>2 DEF Fetch, Goes, Quiet
  <2>3. CASE FetchNothing(a) \/ Refresh(a) \/ CommitRef(a)
    BY <1>1, <1>2, <1>3, <2>3 DEF FetchNothing, Refresh, CommitRef, Commit, Quiet
  <2>4. CASE EmbedPassages(a)
    BY <1>1, <2>4 DEF EmbedPassages, Answered, Persist, Goes, Quiet
  <2> QED BY <1>3, <2>1, <2>2, <2>3, <2>4 DEF IngestStep, Upsert
<1>4. ASSUME a \in Search, SearchStep(a) \/ \E q \in Query : Ask(a, q)
      PROVE  Quiet(b)
  <2>1. ASSUME NEW hit, NEW asked, Sets(a, hit, asked)
        PROVE  b \in Search => search'[b] = search[b]
    BY <2>1 DEF Sets
  <2>2. ASSUME NEW q \in Query, Ask(a, q)
        PROVE  Quiet(b)
    BY <1>1, <1>4, <2>1, <2>2, SearchFields DEF Ask, Goes, Quiet
  <2>3. CASE Load(a)
    <3>1. UNCHANGED search \/ Read(a, search[a].listed, TRUE)
      BY <2>3 DEF Load
    <3>2. b \in Search => search'[b] = search[b]
      BY <1>4, <2>1, <3>1, SearchFields
    <3> QED BY <1>1, <2>3, <3>2 DEF Load, Goes, Quiet
  <2>4. CASE EmbedQuery(a)
    BY <1>1, <2>4 DEF EmbedQuery, Answered, Persist, Goes, Quiet
  <2>5. ASSUME NEW found, AnnSearch(a, found)
        PROVE  Quiet(b)
    BY <1>1, <1>4, <2>1, <2>5, SearchFields DEF AnnSearch, Goes, Quiet
  <2>6. CASE Store(a)
    BY <1>1, <2>6 DEF Store, Goes, Quiet
  <2>7. ASSUME NEW ids, NEW ordered, NEW byLLM, Rank(a, ids, ordered, byLLM)
        PROVE  stage'[b] = stage[b] /\ ingest' = ingest /\ (b \in Search => search'[b] = search[b])
    <3>1. b \in Search => search'[b] = search[b]
      BY <1>4, <2>1, <2>7, SearchFields
    <3> QED BY <1>1, <2>7, <3>1 DEF Rank, Goes
  <2>8. CASE RankNothing(a) \/ \E ordered \in Permuted(search[a].candidates) : RankByCrossEncoder(a, ordered)
    BY <2>7, <2>8 DEF RankNothing, RankByCrossEncoder, Quiet
  <2>9. ASSUME NEW ids, RankByLLM(a, ids)
        PROVE  Quiet(b)
    BY <1>1, <2>7, <2>9 DEF RankByLLM, Answered, Persist, Quiet
  <2>10. CASE CommitSearch(a)
    <3>1. b \in Search => search'[b] = search[b]
      BY <1>4, <2>1, <2>10, SearchFields
    <3> QED BY <1>1, <2>10, <3>1 DEF CommitSearch, Commit, Goes, Quiet
  <2> QED BY <1>4, <2>2, <2>3, <2>4, <2>5, <2>6, <2>8, <2>9, <2>10 DEF SearchStep
<1>5. CASE CallStep(a) \/ Fail(a)
  BY <1>1, <1>5 DEF CallStep, Retry, CallFails, RollBack, Persist, Fail, Goes, Quiet
<1> QED BY <1>3, <1>4, <1>5 DEF Step

\* What happens to the open transaction of a run: it takes up a call, is committed or is
\* rolled back.
LEMMA OpenEffect ==
    ASSUME Shape, NEW a \in Actor, Step(a)
    PROVE  \/ open' = open /\ stage[a] # "failing"
           \/ open' = [open EXCEPT ![a] = {}]
           \/ /\ stage[a] \in {"embedding", "ranking"}
              /\ \E call \in {"embed", "rerank"}, c \in Content \cup {None}, success \in BOOLEAN :
                    /\ open' = [open EXCEPT ![a] = @ \cup {Call(a, call, c, success)}]
                    /\ success \/ stage'[a] = "failing"
<1>1. /\ ingest \in [Ingestion -> Progress] /\ open \in [Actor -> SUBSET LLMCallRecord]
      /\ stage \in [Actor -> Stage]
  BY DEF Shape
<1>2. ASSUME a \in Ingestion, IngestStep(a), ~EmbedPassages(a)
      PROVE  (open' = open /\ stage[a] # "failing") \/ open' = [open EXCEPT ![a] = {}]
  BY <1>2 DEF IngestStep, StartIngest, Fetch, FetchNothing, Refresh, LookUp, Upsert, Insert, Conflict,
              CommitRef, Commit
<1>3. ASSUME a \in Ingestion, EmbedPassages(a)
      PROVE  /\ stage[a] = "embedding" /\ ingest[a].content \in Content \cup {None}
             /\ open' = [open EXCEPT ![a] = @ \cup {Call(a, "embed", ingest[a].content, TRUE)}]
  BY <1>1, <1>3 DEF EmbedPassages, Answered, Persist, Progress
<1>4. ASSUME a \in Search, EmbedQuery(a)
      PROVE  /\ stage[a] = "embedding"
             /\ open' = [open EXCEPT ![a] = @ \cup {Call(a, "embed", None, TRUE)}]
  BY <1>4 DEF EmbedQuery, Answered, Persist
<1>5. ASSUME a \in Search, NEW ids, RankByLLM(a, ids)
      PROVE  /\ stage[a] = "ranking"
             /\ open' = [open EXCEPT ![a] = @ \cup {Call(a, "rerank", None, TRUE)}]
  BY <1>5 DEF RankByLLM, Answered, Persist
<1>6. ASSUME a \in Search, SearchStep(a) \/ \E q \in Query : Ask(a, q), ~EmbedQuery(a),
             ~\E ids : RankByLLM(a, ids)
      PROVE  (open' = open /\ stage[a] # "failing") \/ open' = [open EXCEPT ![a] = {}]
  BY <1>6 DEF SearchStep, Ask, Load, AnnSearch, Store, RankNothing, RankByCrossEncoder, CommitSearch,
              Commit
<1>7. ASSUME Retry(a) \/ RollBack(a) \/ Fail(a)
      PROVE  (open' = open /\ stage[a] # "failing") \/ open' = [open EXCEPT ![a] = {}]
  BY <1>7 DEF Retry, Calling, RollBack, Fail
<1>8. ASSUME CallFails(a)
      PROVE  /\ stage[a] \in {"embedding", "ranking"} /\ stage'[a] = "failing"
             /\ \E call \in {"embed", "rerank"}, c \in Content \cup {None} :
                   open' = [open EXCEPT ![a] = @ \cup {Call(a, call, c, FALSE)}]
  <2>1. stage[a] \in {"embedding", "ranking"} /\ stage'[a] = "failing"
    BY <1>1, <1>8 DEF CallFails, Calling, Goes
  <2> DEFINE call == IF stage[a] = "embedding" THEN "embed" ELSE "rerank"
             c == IF a \in Ingestion THEN ingest[a].content ELSE None
  <2>2. call \in {"embed", "rerank"} /\ c \in Content \cup {None}
    BY <1>1 DEF Progress
  <2>3. open' = [open EXCEPT ![a] = @ \cup {Call(a, call, c, FALSE)}]
    BY <1>8 DEF CallFails, Persist
  <2> HIDE DEF call, c
  <2> QED BY <2>1, <2>2, <2>3
<1>9. ASSUME a \in Ingestion, IngestStep(a)
      PROVE  \/ (open' = open /\ stage[a] # "failing") \/ open' = [open EXCEPT ![a] = {}]
             \/ EmbedPassages(a)
  BY <1>2, <1>9
<1>10. ASSUME a \in Search, SearchStep(a) \/ \E q \in Query : Ask(a, q)
       PROVE  \/ (open' = open /\ stage[a] # "failing") \/ open' = [open EXCEPT ![a] = {}]
              \/ EmbedQuery(a) \/ \E ids : RankByLLM(a, ids)
  BY <1>6, <1>10
<1> QED BY <1>3, <1>4, <1>5, <1>7, <1>8, <1>9, <1>10 DEF Step, CallStep

\* What happens to the committed records: a run that has come to a commit adds its own.
LEMMA RecordsEffect ==
    ASSUME Shape, NEW a \in Actor, Step(a)
    PROVE  \/ records' = records
           \/ /\ records' = records \cup open[a]
              /\ stage[a] \in {"upserting", "inserted", "answered"}
              /\ a \in Search => stage'[a] = "done"
<1>1. stage \in [Actor -> Stage] /\ Ingestion \cap Search = {}
  BY Apart DEF Shape
<1>2. ASSUME a \in Ingestion, IngestStep(a)
      PROVE  \/ records' = records
             \/ records' = records \cup open[a] /\ stage[a] \in {"upserting", "inserted"}
  BY <1>2 DEF IngestStep, StartIngest, Fetch, FetchNothing, EmbedPassages, Refresh, LookUp, Upsert,
              Insert, Conflict, CommitRef, Commit
<1>3. ASSUME CommitSearch(a)
      PROVE  records' = records \cup open[a] /\ stage[a] = "answered" /\ stage'[a] = "done"
  BY <1>1, <1>3 DEF CommitSearch, Commit, Goes
<1>4. ASSUME SearchStep(a) \/ \E q \in Query : Ask(a, q), ~CommitSearch(a)
      PROVE  records' = records
  BY <1>4 DEF SearchStep, Ask, Load, EmbedQuery, AnnSearch, Store, RankNothing, RankByLLM,
              RankByCrossEncoder, Rank
<1>5. CASE CallStep(a) \/ Fail(a)
  BY <1>5 DEF CallStep, Retry, CallFails, RollBack, Fail
<1>6. ASSUME SearchStep(a) \/ \E q \in Query : Ask(a, q)
      PROVE  records' = records \/ CommitSearch(a)
  BY <1>4, <1>6
<1> QED BY <1>1, <1>2, <1>3, <1>5, <1>6 DEF Step

\* Documents are written by the commits of ingestions, and deleted or restored.
LEMMA DocumentsChange ==
    ASSUME [Next]_vars
    PROVE  \/ documents' = documents
           \/ \E g \in Ingestion : CommitRef(g)
           \/ \E c \in Content, state \in Present : SetDeleted(c, state)
<1>1. ASSUME NEW g, IngestStep(g)
      PROVE  documents' = documents \/ CommitRef(g)
  BY <1>1 DEF IngestStep, StartIngest, Fetch, FetchNothing, EmbedPassages, Refresh, LookUp, Upsert,
              Insert, Conflict
<1>2. ASSUME NEW a, SearchStep(a) \/ (\E q \in Query : Ask(a, q)) \/ CallStep(a) \/ Fail(a)
      PROVE  documents' = documents
  BY <1>2 DEF SearchStep, Ask, Load, EmbedQuery, AnnSearch, Store, RankNothing, RankByLLM,
              RankByCrossEncoder, Rank, CommitSearch, CallStep, Retry, CallFails, RollBack, Fail
<1>3. ASSUME World
      PROVE  documents' = documents \/ \E c \in Content, state \in Present : SetDeleted(c, state)
  BY <1>3 DEF World, Expire, vars
<1> QED BY <1>1, <1>2, <1>3, StepOrWorld DEF Step

\* What happens to a document: it comes with the commit of an ingestion, and never goes.
LEMMA DocumentsEffect ==
    ASSUME Shape, [Next]_vars, NEW c \in Content
    PROVE  /\ documents[c].state \in Present => documents'[c].state \in Present
           /\ documents'[c].state \in Present =>
                  \/ documents[c].state \in Present
                  \/ \E g \in Ingestion : CommitRef(g) /\ ingest[g].content = c
<1>1. documents \in [Content -> SourceDocument]
  BY DEF Shape
<1>2. ASSUME NEW g \in Ingestion, CommitRef(g)
      PROVE  IF ingest[g].content = c THEN documents'[c].state = "live" ELSE documents'[c] = documents[c]
  BY <1>1, <1>2 DEF CommitRef
<1>3. ASSUME NEW d \in Content, NEW state \in Present, SetDeleted(d, state)
      PROVE  \/ documents'[c] = documents[c]
             \/ documents[c].state \in Present /\ documents'[c].state \in Present
  BY <1>1, <1>3 DEF SetDeleted, SourceDocument
<1>4. "live" \in Present
  BY DEF Present
<1> QED BY <1>2, <1>3, <1>4, DocumentsChange

--------------------------------------------------------------------------------
(***************************************************************************)
(* The parts of the invariants.                                            *)
(***************************************************************************)

\* The steps of the world touch documents and lists only.
LEMMA WorldEffect ==
    ASSUME World
    PROVE  UNCHANGED <<stage, ingest, search, open, records>>
BY DEF World, Expire, SetDeleted, vars

\* A reference has a country.
LEMMA RefCountry ==
    ASSUME NEW g \in Ingestion, NEW n \in 1 .. Len(RefsOf[g])
    PROVE  RefsOf[g][n] \in Country
BY Refs

\* Documents keep their type.
LEMMA DocumentsShape ==
    ASSUME Shape, [Next]_vars
    PROVE  documents' \in [Content -> SourceDocument]
<1>1. documents \in [Content -> SourceDocument] /\ ingest \in [Ingestion -> Progress]
      /\ \A g \in Ingestion : ingest[g].ref \in 1 .. Len(RefsOf[g])
  BY DEF Shape
<1>2. ASSUME NEW g \in Ingestion, CommitRef(g)
      PROVE  documents' \in [Content -> SourceDocument]
  <2>1. RefsOf[g][ingest[g].ref] \in Country
    BY <1>1, RefCountry
  <2>2. [state |-> "live", country |-> RefsOf[g][ingest[g].ref]] \in SourceDocument
    BY <2>1 DEF SourceDocument, Present
  <2>3. documents' = [documents EXCEPT
               ![ingest[g].content] = [state |-> "live", country |-> RefsOf[g][ingest[g].ref]]]
    BY <1>2 DEF CommitRef
  <2> QED BY <1>1, <2>2, <2>3
<1>3. ASSUME NEW c \in Content, NEW state \in Present, SetDeleted(c, state)
      PROVE  documents' \in [Content -> SourceDocument]
  BY <1>1, <1>3 DEF SetDeleted, SourceDocument
<1> QED BY <1>1, <1>2, <1>3, DocumentsChange

\* Ingestions keep theirs, and stay at a reference they have.
LEMMA IngestShape ==
    ASSUME Shape, [Next]_vars
    PROVE  /\ ingest' \in [Ingestion -> Progress]
           /\ \A g \in Ingestion : ingest'[g].ref \in 1 .. Len(RefsOf[g])
<1> DEFINE shaped == /\ ingest' \in [Ingestion -> Progress]
                     /\ \A g \in Ingestion : ingest'[g].ref \in 1 .. Len(RefsOf[g])
<1>1. ingest \in [Ingestion -> Progress]
      /\ \A g \in Ingestion : ingest[g].ref \in 1 .. Len(RefsOf[g])
  BY DEF Shape
<1>2. ASSUME NEW g \in Ingestion, NextRef(g)
      PROVE  shaped
  <2>1. RefsOf[g] \in Seq(Country)
    BY Refs
  <2>2. Len(RefsOf[g]) \in Nat
    BY <2>1
  <2>3. CASE ingest' = ingest
    BY <1>1, <2>3
  <2>4. CASE ingest[g].ref # Len(RefsOf[g])
    <3> DEFINE n == ingest[g].ref + 1
    <3>1. n \in 1 .. Len(RefsOf[g]) /\ n \in Nat
      BY <1>1, <2>2, <2>4
    <3>2. ingest' = [ingest EXCEPT ![g].ref = n, ![g].content = None]
      BY <1>2, <2>4 DEF NextRef
    <3> HIDE DEF n
    <3>3. ingest'[g] = [ingest[g] EXCEPT !.ref = n, !.content = None]
          /\ \A h \in Ingestion \ {g} : ingest'[h] = ingest[h]
          /\ DOMAIN ingest' = Ingestion
      BY <1>1, <3>2
    <3>4. ingest'[g] \in Progress /\ ingest'[g].ref = n
      BY <1>1, <3>1, <3>3 DEF Progress
    <3> QED BY <1>1, <3>1, <3>2, <3>3, <3>4
  <2> QED BY <1>2, <2>3, <2>4 DEF NextRef
<1>3. ASSUME NEW g \in Ingestion, NEW c \in Content, Fetch(g, c)
      PROVE  shaped
  <2> DEFINE read == ingest[g].read \cup {c}
  <2>1. ingest' = [ingest EXCEPT ![g].content = c, ![g].read = read]
    BY <1>3 DEF Fetch
  <2>2. ingest[g] \in Progress /\ read \in SUBSET Content
    BY <1>1 DEF Progress
  <2> HIDE DEF read
  <2>3. ingest'[g] = [ingest[g] EXCEPT !.content = c, !.read = read]
        /\ \A h \in Ingestion \ {g} : ingest'[h] = ingest[h]
        /\ DOMAIN ingest' = Ingestion
    BY <1>1, <2>1
  <2>4. ingest'[g] \in Progress /\ ingest'[g].ref = ingest[g].ref
    BY <2>2, <2>3 DEF Progress
  <2> QED BY <1>1, <2>1, <2>3, <2>4
<1>4. ASSUME NEW a \in Actor, Step(a)
      PROVE  \/ ingest' = ingest
             \/ a \in Ingestion /\ (NextRef(a) \/ \E c \in Content : Fetch(a, c))
  BY <1>4 DEF Step, IngestStep, StartIngest, FetchNothing, EmbedPassages, Refresh, LookUp,
              Upsert, Insert, Conflict, CommitRef, SearchStep, Ask, Load, EmbedQuery, AnnSearch, Store,
              RankNothing, RankByLLM, RankByCrossEncoder, Rank, CommitSearch, CallStep, Retry,
              CallFails, RollBack, Fail
<1>5. ASSUME World
      PROVE  ingest' = ingest
  BY <1>5, WorldEffect
<1>6. CASE ingest' = ingest
  BY <1>1, <1>6
<1> QED BY <1>2, <1>3, <1>4, <1>5, <1>6, StepOrWorld

\* Every step goes to one of the stages.
LEMMA StageShape ==
    ASSUME Shape, [Next]_vars
    PROVE  stage' \in [Actor -> Stage]
<1>1. stage \in [Actor -> Stage]
  BY DEF Shape
<1>2. ASSUME NEW a \in Actor, NEW next \in Stage, Goes(a, next)
      PROVE  stage' \in [Actor -> Stage]
  BY <1>1, <1>2 DEF Goes
<1>3. ASSUME NEW a \in Actor, Step(a)
      PROVE  stage' = stage \/ \E next \in Stage : Goes(a, next)
  <2> USE DEF Stage
  <2>1. ASSUME IngestStep(a)
        PROVE  stage' = stage \/ \E next \in Stage : Goes(a, next)
    BY <2>1 DEF IngestStep, StartIngest, Fetch, FetchNothing, EmbedPassages, Refresh, LookUp,
                Upsert, Insert, Conflict, CommitRef, NextRef
  <2>2. ASSUME NEW q \in Query, Ask(a, q)
        PROVE  \E next \in Stage : Goes(a, next)
    BY <2>2 DEF Ask
  <2>3. ASSUME SearchStep(a)
        PROVE  stage' = stage \/ \E next \in Stage : Goes(a, next)
    <3>1. CASE Load(a)
      BY <3>1 DEF Load
    <3> QED BY <2>3, <3>1 DEF SearchStep, EmbedQuery, AnnSearch, Store, RankNothing, RankByLLM,
                              RankByCrossEncoder, Rank, CommitSearch
  <2>4. ASSUME CallStep(a) \/ Fail(a)
        PROVE  stage' = stage \/ \E next \in Stage : Goes(a, next)
    BY <2>4 DEF CallStep, Retry, CallFails, RollBack, Fail
  <2> QED BY <1>3, <2>1, <2>2, <2>3, <2>4 DEF Step
<1>4. ASSUME World
      PROVE  stage' = stage
  BY <1>4, WorldEffect
<1> QED BY <1>1, <1>2, <1>3, <1>4, StepOrWorld

\* Open transactions keep holding records.
LEMMA OpenShape ==
    ASSUME Shape, [Next]_vars
    PROVE  open' \in [Actor -> SUBSET LLMCallRecord]
<1>1. open \in [Actor -> SUBSET LLMCallRecord]
  BY DEF Shape
<1>2. ASSUME NEW a \in Actor, Step(a)
      PROVE  open' \in [Actor -> SUBSET LLMCallRecord]
  BY <1>1, <1>2, OpenEffect, CallType
<1>3. ASSUME World
      PROVE  open' = open
  BY <1>3, WorldEffect
<1> QED BY <1>1, <1>2, <1>3, StepOrWorld

\* Searches keep their fields.
LEMMA SearchShape ==
    ASSUME Shape, [Next]_vars
    PROVE  DOMAIN search' = Search /\ \A s \in Search : {"hit", "asked"} \subseteq DOMAIN search'[s]
<1> DEFINE shaped == /\ DOMAIN search' = Search
                     /\ \A s \in Search : {"hit", "asked"} \subseteq DOMAIN search'[s]
<1>1. DOMAIN search = Search /\ \A s \in Search : {"hit", "asked"} \subseteq DOMAIN search[s]
  BY DEF Shape
<1>2. ASSUME NEW s \in Search, NEW hit, NEW asked, Sets(s, hit, asked)
      PROVE  shaped
  BY <1>1, <1>2 DEF Sets
<1>3. ASSUME NEW a \in Actor, RollBack(a)
      PROVE  shaped
  <2>1. {"hit", "asked"} \subseteq DOMAIN NoLocals
    BY DEF NoLocals
  <2>2. search' = [s \in Search |-> IF s = a THEN NoLocals ELSE search[s]]
    BY <1>3 DEF RollBack
  <2> QED BY <1>1, <2>1, <2>2
<1>4. ASSUME NEW s \in Search, SearchStep(s) \/ \E q \in Query : Ask(s, q)
      PROVE  search' = search \/ shaped
  <2>1. ASSUME NEW q \in Query, Ask(s, q)
        PROVE  shaped
    BY <1>2, <2>1, SearchFields
  <2>2. ASSUME NEW ids, NEW hit, Read(s, ids, hit)
        PROVE  shaped
    BY <1>2, <2>2, SearchFields
  <2>3. ASSUME NEW found, AnnSearch(s, found)
        PROVE  shaped
    BY <1>2, <2>3, SearchFields
  <2>4. ASSUME NEW ids, NEW ordered, NEW byLLM, Rank(s, ids, ordered, byLLM)
        PROVE  shaped
    BY <1>2, <2>4, SearchFields
  <2>5. ASSUME CommitSearch(s)
        PROVE  shaped
    BY <1>2, <2>5, SearchFields
  <2>6. ASSUME SearchStep(s)
        PROVE  \/ search' = search \/ CommitSearch(s)
               \/ \E ids, hit : Read(s, ids, hit)
               \/ \E found : AnnSearch(s, found)
               \/ \E ids, ordered, byLLM : Rank(s, ids, ordered, byLLM)
    BY <2>6 DEF SearchStep, Load, EmbedQuery, Store, RankNothing, RankByLLM, RankByCrossEncoder
  <2> QED BY <1>4, <2>1, <2>2, <2>3, <2>4, <2>5, <2>6
<1>5. ASSUME NEW a \in Actor, Step(a)
      PROVE  \/ search' = search \/ RollBack(a)
             \/ a \in Search /\ (SearchStep(a) \/ \E q \in Query : Ask(a, q))
  BY <1>5 DEF Step, IngestStep, StartIngest, Fetch, FetchNothing, EmbedPassages, Refresh, LookUp,
              Upsert, Insert, Conflict, CommitRef, CallStep, Retry, CallFails, Fail
<1>6. ASSUME World
      PROVE  search' = search
  BY <1>6, WorldEffect
<1> QED BY <1>1, <1>3, <1>4, <1>5, <1>6, StepOrWorld

\* Every step keeps the types of the argument.
LEMMA ShapeStep ==
    ASSUME Shape, [Next]_vars
    PROVE  Shape'
BY DocumentsShape, StageShape, IngestShape, OpenShape, SearchShape DEF Shape

\* Runs keep their own records in their own transactions, and a failure ends them.
LEMMA OwnSuccessesStep ==
    ASSUME Shape, OwnSuccesses, [Next]_vars
    PROVE  OwnSuccesses'
<1> SUFFICES ASSUME NEW b \in Actor, NEW r \in open'[b]
             PROVE  r.by = b /\ (stage'[b] # "failing" => r.success)
  BY DEF OwnSuccesses
<1>1. open \in [Actor -> SUBSET LLMCallRecord]
  BY DEF Shape
<1>2. \A q \in open[b] : q.by = b /\ (stage[b] # "failing" => q.success)
  BY DEF OwnSuccesses
<1>3. ASSUME NEW a \in Actor, Step(a), a # b
      PROVE  r.by = b /\ (stage'[b] # "failing" => r.success)
  BY <1>2, <1>3, OwnSteps DEF Quiet
<1>4. CASE Step(b)
  <2>1. CASE open' = open /\ stage[b] # "failing"
    BY <1>2, <2>1
  <2>2. CASE open' = [open EXCEPT ![b] = {}]
    BY <1>1, <2>2
  <2>3. ASSUME NEW call \in {"embed", "rerank"}, NEW c \in Content \cup {None}, NEW success \in BOOLEAN,
               stage[b] \in {"embedding", "ranking"},
               open' = [open EXCEPT ![b] = @ \cup {Call(b, call, c, success)}],
               success \/ stage'[b] = "failing"
        PROVE  r.by = b /\ (stage'[b] # "failing" => r.success)
    <3>1. r \in open[b] \/ r = Call(b, call, c, success)
      BY <1>1, <2>3
    <3>2. /\ Call(b, call, c, success).by = b
          /\ Call(b, call, c, success).success = success
      BY CallType
    <3> QED BY <1>2, <2>3, <3>1, <3>2
  <2> QED BY <1>4, <2>1, <2>2, <2>3, OpenEffect
<1>5. CASE World
  BY <1>2, <1>5, WorldEffect
<1> QED BY <1>3, <1>4, <1>5, StepOrWorld

\* A search that is not done stays without records.
LEMMA UncommittedStep ==
    ASSUME Shape, OwnSuccesses, Uncommitted, [Next]_vars
    PROVE  Uncommitted'
<1> SUFFICES ASSUME NEW s \in Search, NEW r \in records', stage'[s] # "done"
             PROVE  r.by # s
  BY DEF Uncommitted
<1>1. s \in Actor /\ stage \in [Actor -> Stage]
  BY DEF Actor, Shape
<1>2. stage[s] # "done"
  <2>1. ASSUME stage[s] = "done", NEW a \in Actor, Step(a)
        PROVE  stage'[s] = "done"
    <3>1. CASE a # s
      BY <1>1, <2>1, <3>1, OwnSteps DEF Quiet
    <3>2. CASE a = s
      <4>1. s \notin Ingestion
        BY Apart
      <4> QED BY <2>1, <3>2, <4>1 DEF Step, SearchStep, Ask, Load, EmbedQuery, AnnSearch, Store,
                 RankNothing, RankByLLM, RankByCrossEncoder, CommitSearch, CallStep, Retry,
                 CallFails, Calling, RollBack, Fail
    <3> QED BY <3>1, <3>2
  <2>2. ASSUME World
        PROVE  stage' = stage
    BY <2>2, WorldEffect
  <2> QED BY <2>1, <2>2, StepOrWorld
<1>3. \A q \in records : q.by # s
  BY <1>2 DEF Uncommitted
<1>4. ASSUME NEW a \in Actor, Step(a)
      PROVE  r.by # s
  <2>1. CASE records' = records
    BY <1>3, <2>1
  <2>2. CASE records' = records \cup open[a] /\ (a \in Search => stage'[a] = "done")
    <3>1. a # s
      BY <2>2
    <3>2. \A q \in open[a] : q.by = a
      BY DEF OwnSuccesses
    <3> QED BY <1>3, <2>2, <3>1, <3>2
  <2> QED BY <1>4, <2>1, <2>2, RecordsEffect
<1>5. CASE World
  BY <1>3, <1>5, WorldEffect
<1> QED BY <1>4, <1>5, StepOrWorld

\* An ingestion comes to the upsert by the embedding, and the record waits for its commit.
LEMMA EmbeddedStep ==
    ASSUME Shape, Embedded, [Next]_vars
    PROVE  Embedded'
<1> SUFFICES ASSUME NEW g \in Ingestion, stage'[g] \in {"upserting", "looked", "inserted"}
             PROVE  Call(g, "embed", ingest'[g].content, TRUE) \in open'[g]
  BY DEF Embedded
<1>1. /\ g \in Actor /\ g \notin Search /\ stage \in [Actor -> Stage]
      /\ open \in [Actor -> SUBSET LLMCallRecord]
  BY Apart DEF Actor, Shape
<1>2. stage[g] \in {"upserting", "looked", "inserted"} =>
          Call(g, "embed", ingest[g].content, TRUE) \in open[g]
  BY DEF Embedded
<1>3. ASSUME NEW a \in Actor, Step(a), a # g
      PROVE  Call(g, "embed", ingest'[g].content, TRUE) \in open'[g]
  BY <1>1, <1>2, <1>3, OwnSteps DEF Quiet
<1>4. CASE IngestStep(g)
  <2>1. CASE EmbedPassages(g)
    BY <1>1, <2>1 DEF EmbedPassages, Answered, Persist
  <2>2. CASE LookUp(g) \/ Insert(g)
    BY <1>2, <2>2 DEF LookUp, Insert
  <2>3. ASSUME StartIngest(g) \/ Conflict(g) \/ \E c \in Content : Fetch(g, c)
        PROVE  FALSE
    BY <1>1, <2>3 DEF StartIngest, Conflict, Fetch, Goes
  <2>4. ASSUME NextRef(g)
        PROVE  FALSE
    BY <1>1, <2>4 DEF NextRef, Goes
  <2> QED BY <1>4, <2>1, <2>2, <2>3, <2>4 DEF IngestStep, Upsert, FetchNothing, Refresh, CommitRef
<1>5. CASE CallStep(g) \/ Fail(g)
  <2>1. CASE Retry(g)
    BY <1>2, <2>1 DEF Retry
  <2>2. ASSUME CallFails(g) \/ RollBack(g) \/ Fail(g)
        PROVE  FALSE
    BY <1>1, <2>2 DEF CallFails, RollBack, Fail, Goes
  <2> QED BY <1>5, <2>1, <2>2 DEF CallStep
<1>6. CASE World
  BY <1>2, <1>6, WorldEffect
<1> QED BY <1>1, <1>3, <1>4, <1>5, <1>6, StepOrWorld DEF Step

\* A search comes to its candidates by the cache or by the embedding of its query, and to the
\* answer of an LLM by the call.
LEMMA AskedStep ==
    ASSUME Shape, Asked, [Next]_vars
    PROVE  Asked'
<1> SUFFICES ASSUME NEW s \in Search
             PROVE  /\ stage'[s] \in {"queried", "found"} => Call(s, "embed", None, TRUE) \in open'[s]
                    /\ stage'[s] \in {"ranking", "answered"} =>
                           search'[s].hit \/ Call(s, "embed", None, TRUE) \in open'[s]
                    /\ stage'[s] = "answered" /\ search'[s].asked =>
                           Call(s, "rerank", None, TRUE) \in open'[s]
  BY DEF Asked
<1> DEFINE called == /\ stage'[s] \in {"queried", "found"} => Call(s, "embed", None, TRUE) \in open'[s]
                     /\ stage'[s] \in {"ranking", "answered"} =>
                            search'[s].hit \/ Call(s, "embed", None, TRUE) \in open'[s]
                     /\ stage'[s] = "answered" /\ search'[s].asked =>
                            Call(s, "rerank", None, TRUE) \in open'[s]
<1>1. /\ s \in Actor /\ s \notin Ingestion /\ stage \in [Actor -> Stage]
      /\ open \in [Actor -> SUBSET LLMCallRecord]
  BY Apart DEF Actor, Shape
<1>2. /\ stage[s] \in {"queried", "found"} => Call(s, "embed", None, TRUE) \in open[s]
      /\ stage[s] \in {"ranking", "answered"} =>
             search[s].hit \/ Call(s, "embed", None, TRUE) \in open[s]
      /\ stage[s] = "answered" /\ search[s].asked => Call(s, "rerank", None, TRUE) \in open[s]
  BY DEF Asked
<1>3. ASSUME NEW a \in Actor, Step(a), a # s
      PROVE  called
  BY <1>1, <1>2, <1>3, OwnSteps DEF Quiet
<1>4. ASSUME NEW q \in Query, Ask(s, q)
      PROVE  called
  BY <1>1, <1>4 DEF Ask, Goes
<1>5. CASE SearchStep(s)
  <2>1. CASE Load(s)
    <3>1. CASE stage'[s] = "ranking"
      <4>1. Read(s, search[s].listed, TRUE)
        BY <1>1, <2>1, <3>1 DEF Load, Goes
      <4>2. search'[s].hit
        BY <4>1, SearchFields DEF Sets
      <4> QED BY <3>1, <4>2
    <3>2. CASE stage'[s] # "ranking"
      <4>1. stage'[s] = "embedding"
        BY <1>1, <2>1, <3>2 DEF Load, Goes
      <4> QED BY <4>1
    <3> QED BY <3>1, <3>2
  <2>2. CASE EmbedQuery(s)
    BY <1>1, <2>2 DEF EmbedQuery, Answered, Persist, Goes
  <2>3. ASSUME NEW found, AnnSearch(s, found)
        PROVE  called
    BY <1>1, <1>2, <2>3 DEF AnnSearch, Goes
  <2>4. CASE Store(s)
    BY <1>1, <1>2, <2>4 DEF Store, Goes
  <2>5. ASSUME NEW ids, NEW ordered, NEW byLLM, Rank(s, ids, ordered, byLLM)
        PROVE  /\ stage'[s] = "answered"
               /\ search'[s].hit = search[s].hit /\ search'[s].asked = byLLM
    BY <1>1, <2>5, SearchFields DEF Rank, Goes, Sets
  <2>6. CASE RankNothing(s)
    BY <1>2, <2>5, <2>6 DEF RankNothing
  <2>7. ASSUME NEW ordered, RankByCrossEncoder(s, ordered)
        PROVE  called
    BY <1>2, <2>5, <2>7 DEF RankByCrossEncoder
  <2>8. ASSUME NEW ids, RankByLLM(s, ids)
        PROVE  called
    <3>1. /\ stage[s] = "ranking" /\ Rank(s, ids, ApplyOrder(search[s].candidates, ids), TRUE)
          /\ open' = [open EXCEPT ![s] = @ \cup {Call(s, "rerank", None, TRUE)}]
      BY <2>8 DEF RankByLLM, Answered, Persist
    <3> QED BY <1>1, <1>2, <2>5, <3>1
  <2>9. CASE CommitSearch(s)
    <3>1. stage'[s] = "done"
      BY <1>1, <2>9 DEF CommitSearch, Goes
    <3> QED BY <3>1
  <2> QED BY <1>5, <2>1, <2>2, <2>3, <2>4, <2>6, <2>7, <2>8, <2>9 DEF SearchStep
<1>6. CASE CallStep(s) \/ Fail(s)
  <2>1. CASE Retry(s)
    BY <1>2, <2>1 DEF Retry
  <2>2. CASE CallFails(s) \/ RollBack(s) \/ Fail(s)
    <3>1. stage'[s] \in {"failing", "failed"}
      BY <1>1, <2>2 DEF CallFails, RollBack, Fail, Goes
    <3> QED BY <3>1
  <2> QED BY <1>6, <2>1, <2>2 DEF CallStep
<1>7. CASE World
  BY <1>2, <1>7, WorldEffect
<1>8. called
  BY <1>1, <1>3, <1>4, <1>5, <1>6, <1>7, StepOrWorld DEF Step
<1> QED BY <1>8

\* The committed records stay in agreement with the documents and the searches.
LEMMA CallsRecordedStep ==
    ASSUME CallInv, [Next]_vars
    PROVE  CallsRecorded' /\ FailuresLost'
<1>1. Shape /\ OwnSuccesses /\ Embedded /\ Asked /\ CallsRecorded /\ FailuresLost
  BY DEF CallInv
<1>2. Uncommitted'
  BY <1>1, UncommittedStep DEF CallInv
<1>3. records \subseteq records'
  <2>1. ASSUME NEW a \in Actor, Step(a)
        PROVE  records \subseteq records'
    BY <1>1, <2>1, RecordsEffect
  <2> QED BY <2>1, StepOrWorld, WorldEffect
<1>4. ASSUME NEW r \in records'
      PROVE  r.success
  <2>1. \A q \in records : q.success
    BY <1>1 DEF FailuresLost
  <2>2. ASSUME NEW a \in Actor, Step(a)
        PROVE  r.success
    <3>1. CASE records' = records \cup open[a] /\ stage[a] \in {"upserting", "inserted", "answered"}
      <4>1. \A q \in open[a] : q.success
        BY <1>1, <3>1 DEF OwnSuccesses
      <4> QED BY <1>4, <2>1, <3>1, <4>1
    <3> QED BY <1>1, <1>4, <2>1, <2>2, <3>1, RecordsEffect
  <2> QED BY <1>4, <2>1, <2>2, StepOrWorld, WorldEffect
<1>5. ASSUME NEW c \in Content, documents'[c].state \in Present
      PROVE  \E g \in Ingestion : Call(g, "embed", c, TRUE) \in records'
  <2>1. CASE documents[c].state \in Present
    BY <1>1, <1>3, <2>1 DEF CallsRecorded
  <2>2. ASSUME NEW g \in Ingestion, CommitRef(g), ingest[g].content = c
        PROVE  Call(g, "embed", c, TRUE) \in records'
    <3>1. Call(g, "embed", c, TRUE) \in open[g]
      BY <1>1, <2>2 DEF Embedded, CommitRef
    <3> QED BY <2>2, <3>1 DEF CommitRef, Commit
  <2> QED BY <1>1, <1>5, <2>1, <2>2, DocumentsEffect
<1>6. ASSUME NEW s \in Search, stage'[s] = "done"
      PROVE  /\ search'[s].hit \/ Call(s, "embed", None, TRUE) \in records'
             /\ search'[s].asked => Call(s, "rerank", None, TRUE) \in records'
  <2>1. s \in Actor /\ s \notin Ingestion /\ stage \in [Actor -> Stage]
    BY <1>1, Apart DEF Actor, Shape
  <2>2. CASE CommitSearch(s)
    <3>1. search'[s].hit = search[s].hit /\ search'[s].asked = search[s].asked
      BY <1>1, <2>2, SearchFields DEF Sets
    <3>2. stage[s] = "answered" /\ open[s] \subseteq records'
      BY <2>2 DEF CommitSearch, Commit
    <3> QED BY <1>1, <3>1, <3>2 DEF Asked
  <2>3. CASE ~CommitSearch(s)
    <3>1. ASSUME NEW a \in Actor, Step(a), a # s
          PROVE  stage[s] = "done" /\ search'[s] = search[s]
      BY <1>1, <1>6, <2>1, <3>1, OwnSteps DEF Quiet
    <3>2. ASSUME World
          PROVE  stage[s] = "done" /\ search'[s] = search[s]
      BY <1>6, <3>2, WorldEffect
    <3>3. ASSUME NEW q \in Query, Ask(s, q)
          PROVE  FALSE
      BY <1>6, <2>1, <3>3 DEF Ask, Goes
    <3>4. ASSUME SearchStep(s)
          PROVE  FALSE
      BY <1>6, <2>1, <2>3, <3>4 DEF SearchStep, Load, EmbedQuery, AnnSearch, Store, RankNothing,
             RankByLLM, RankByCrossEncoder, Rank, Goes
    <3>5. ASSUME CallFails(s) \/ RollBack(s) \/ Fail(s)
          PROVE  FALSE
      BY <1>6, <2>1, <3>5 DEF CallFails, RollBack, Fail, Goes
    <3>6. ASSUME Retry(s)
          PROVE  stage[s] = "done" /\ search'[s] = search[s]
      BY <1>6, <3>6 DEF Retry
    <3>7. stage[s] = "done" /\ search'[s] = search[s]
      BY <2>1, <3>1, <3>2, <3>3, <3>4, <3>5, <3>6, StepOrWorld DEF Step, CallStep
    <3> QED BY <1>1, <1>3, <3>7 DEF CallsRecorded
  <2> QED BY <2>2, <2>3
<1>7. \A s \in Search, r \in records' : stage'[s] = "failed" => r.by # s
  BY <1>2 DEF Uncommitted
<1>8. FailuresLost'
  BY <1>4, <1>7 DEF FailuresLost
<1> QED BY <1>5, <1>6, <1>8 DEF CallsRecorded

\* What an ingestion has read is not lost on its way.
LEMMA KeptStep ==
    ASSUME Shape, Kept, [Next]_vars
    PROVE  Kept'
<1> SUFFICES ASSUME NEW g \in Ingestion, stage'[g] \notin {"failing", "failed"},
                    NEW c \in ingest'[g].read
             PROVE  \/ documents'[c].state \in Present
                    \/ /\ c = ingest'[g].content
                       /\ stage'[g] \in {"embedding", "upserting", "looked", "inserted"}
  BY DEF Kept
<1> DEFINE there == \/ documents'[c].state \in Present
                    \/ /\ c = ingest'[g].content
                       /\ stage'[g] \in {"embedding", "upserting", "looked", "inserted"}
<1>1. /\ g \in Actor /\ g \notin Search /\ stage \in [Actor -> Stage]
      /\ ingest \in [Ingestion -> Progress]
  BY Apart DEF Actor, Shape
<1>2. ASSUME c \in ingest[g].read, stage[g] \notin {"failing", "failed"}
      PROVE  \/ documents'[c].state \in Present
             \/ c = ingest[g].content /\ stage[g] \in {"embedding", "upserting", "looked", "inserted"}
  <2>1. c \in Content
    BY <1>1, <1>2 DEF Progress
  <2> QED BY <1>2, <2>1, DocumentsEffect DEF Kept
<1>3. ASSUME stage'[g] = stage[g], ingest'[g] = ingest[g]
      PROVE  there
  BY <1>2, <1>3
<1>4. ASSUME NEW a \in Actor, Step(a), a # g
      PROVE  there
  BY <1>1, <1>3, <1>4, OwnSteps DEF Quiet
<1>5. ASSUME NextRef(g)
      PROVE  c \in ingest[g].read
  <2>1. ingest'[g].read = ingest[g].read
    BY <1>1, <1>5 DEF NextRef, Progress
  <2> QED BY <2>1
<1>6. CASE IngestStep(g)
  <2>1. CASE StartIngest(g)
    BY <1>2, <2>1 DEF StartIngest
  <2>2. ASSUME NEW d \in Content, Fetch(g, d)
        PROVE  there
    <3> DEFINE read == ingest[g].read \cup {d}
    <3>1. ingest' = [ingest EXCEPT ![g].content = d, ![g].read = read] /\ ingest[g] \in Progress
      BY <1>1, <2>2 DEF Fetch
    <3> HIDE DEF read
    <3>2. ingest'[g] = [ingest[g] EXCEPT !.content = d, !.read = read]
      BY <1>1, <3>1
    <3>3. ingest'[g].content = d /\ ingest'[g].read = read
      BY <3>1, <3>2 DEF Progress
    <3>4. stage[g] = "fetching" /\ stage'[g] = "embedding"
      BY <1>1, <2>2 DEF Fetch, Goes
    <3>5. c \in ingest[g].read \/ c = d
      BY <3>3 DEF read
    <3> QED BY <1>2, <3>3, <3>4, <3>5
  <2>3. CASE FetchNothing(g)
    <3>1. stage[g] = "fetching"
      BY <2>3 DEF FetchNothing
    <3> QED BY <1>2, <1>5, <2>3, <3>1 DEF FetchNothing
  <2>4. CASE EmbedPassages(g) \/ LookUp(g) \/ Insert(g)
    <3>1. /\ ingest' = ingest /\ stage[g] \in {"embedding", "upserting", "looked"}
          /\ stage'[g] \in {"upserting", "looked", "inserted"}
      BY <1>1, <2>4 DEF EmbedPassages, LookUp, Insert, Goes
    <3> QED BY <1>2, <3>1
  <2>5. CASE Refresh(g)
    <3>1. /\ stage[g] = "upserting" /\ documents' = documents
          /\ documents[ingest[g].content].state \in Present
      BY <2>5 DEF Refresh
    <3> QED BY <1>2, <1>5, <2>5, <3>1 DEF Refresh
  <2>6. ASSUME Conflict(g)
        PROVE  FALSE
    BY <1>1, <2>6 DEF Conflict, Goes
  <2>7. CASE CommitRef(g)
    <3>1. stage[g] = "inserted"
      BY <2>7 DEF CommitRef
    <3>2. ASSUME c = ingest[g].content, c \in Content
          PROVE  documents'[c].state \in Present
      BY <2>7, <3>2 DEF CommitRef, Shape, Present
    <3>3. c \in ingest[g].read
      BY <1>5, <2>7 DEF CommitRef
    <3>4. c \in Content
      BY <1>1, <3>3 DEF Progress
    <3> QED BY <1>2, <3>1, <3>2, <3>3, <3>4
  <2> QED BY <1>6, <2>1, <2>2, <2>3, <2>4, <2>5, <2>6, <2>7 DEF IngestStep, Upsert
<1>7. CASE CallStep(g) \/ Fail(g)
  <2>1. CASE Retry(g)
    BY <1>3, <2>1 DEF Retry
  <2>2. ASSUME CallFails(g) \/ RollBack(g) \/ Fail(g)
        PROVE  FALSE
    BY <1>1, <2>2 DEF CallFails, RollBack, Fail, Goes
  <2> QED BY <1>7, <2>1, <2>2 DEF CallStep
<1>8. CASE World
  BY <1>3, <1>8, WorldEffect
<1> QED BY <1>1, <1>4, <1>6, <1>7, <1>8, StepOrWorld DEF Step

\* An insertion begins where there is none, and ends with its ingestion.
LEMMA InsertingEffect ==
    ASSUME Shape, Exclusive, [Next]_vars, NEW g \in Ingestion, NEW c \in Content, inserting[c] = g
    PROVE  inserting'[c] = g \/ (CommitRef(g) /\ ingest[g].content = c) \/ RollBack(g)
<1>1. DOMAIN inserting = Content /\ g # None
  BY NoneIsNone DEF Exclusive
<1>2. ASSUME NEW h \in Ingestion, Insert(h)
      PROVE  inserting'[c] = g
  BY <1>1, <1>2 DEF Insert
<1>3. ASSUME NEW h \in Ingestion, CommitRef(h)
      PROVE  inserting'[c] = g \/ (CommitRef(g) /\ ingest[g].content = c)
  <2>1. inserting[ingest[h].content] = h
    BY <1>3 DEF CommitRef, Exclusive
  <2>2. CASE ingest[h].content = c
    BY <1>3, <2>1, <2>2
  <2>3. CASE ingest[h].content # c
    BY <1>1, <1>3, <2>3 DEF CommitRef
  <2> QED BY <2>2, <2>3
<1>4. ASSUME NEW a \in Actor, RollBack(a)
      PROVE  inserting'[c] = g \/ RollBack(g)
  BY <1>4 DEF RollBack
<1>5. ASSUME NEW h \in Ingestion, IngestStep(h)
      PROVE  inserting' = inserting \/ Insert(h) \/ CommitRef(h)
  BY <1>5 DEF IngestStep, StartIngest, Fetch, FetchNothing, EmbedPassages, Refresh, LookUp, Upsert,
              Conflict
<1>6. ASSUME NEW a, SearchStep(a) \/ \E q \in Query : Ask(a, q)
      PROVE  inserting' = inserting
  BY <1>6 DEF SearchStep, Ask, Load, EmbedQuery, AnnSearch, Store, RankNothing, RankByLLM,
              RankByCrossEncoder, Rank, CommitSearch
<1>7. ASSUME NEW a, CallStep(a) \/ Fail(a)
      PROVE  inserting' = inserting \/ RollBack(a)
  BY <1>7 DEF CallStep, Retry, CallFails, Fail
<1>8. ASSUME World
      PROVE  inserting' = inserting
  BY <1>8 DEF World, Expire, SetDeleted, vars
<1> QED BY <1>2, <1>3, <1>4, <1>5, <1>6, <1>7, <1>8, StepOrWorld DEF Step

\* An absent document stays absent but for the commit of who has inserted it.
LEMMA AbsentEffect ==
    ASSUME Shape, [Next]_vars, NEW c \in Content, documents[c].state = "absent"
    PROVE  \/ documents'[c].state = "absent"
           \/ \E g \in Ingestion : CommitRef(g) /\ ingest[g].content = c
<1>1. documents' \in [Content -> SourceDocument] /\ documents[c].state \notin Present
  BY DocumentsShape DEF Present
<1>2. documents'[c].state \in Present \cup {"absent"}
  BY <1>1 DEF SourceDocument
<1> QED BY <1>1, <1>2, DocumentsEffect

\* Nobody else inserts what an ingestion has inserted.
LEMMA ExclusiveStep ==
    ASSUME Shape, Exclusive, [Next]_vars
    PROVE  Exclusive'
<1>1. DOMAIN inserting' = Content
  <2>1. DOMAIN inserting = Content
    BY DEF Exclusive
  <2>2. ASSUME NEW a \in Actor, Step(a)
        PROVE  DOMAIN inserting' = Content
    <3>1. CASE a \in Ingestion /\ IngestStep(a)
      BY <2>1, <3>1 DEF IngestStep, StartIngest, Fetch, FetchNothing, EmbedPassages, Refresh,
                        LookUp, Upsert, Insert, Conflict, CommitRef
    <3>2. CASE SearchStep(a) \/ \E q \in Query : Ask(a, q)
      BY <2>1, <3>2 DEF SearchStep, Ask, Load, EmbedQuery, AnnSearch, Store, RankNothing,
                        RankByLLM, RankByCrossEncoder, Rank, CommitSearch
    <3>3. CASE CallStep(a) \/ Fail(a)
      BY <2>1, <3>3 DEF CallStep, Retry, CallFails, RollBack, Fail
    <3> QED BY <2>2, <3>1, <3>2, <3>3 DEF Step
  <2>3. ASSUME World
        PROVE  inserting' = inserting
    BY <2>3 DEF World, Expire, SetDeleted, vars
  <2> QED BY <2>1, <2>2, <2>3, StepOrWorld
<1> SUFFICES ASSUME NEW g \in Ingestion
             PROVE  /\ stage'[g] \in {"embedding", "upserting", "looked", "inserted"} =>
                           ingest'[g].content \in Content
                    /\ stage'[g] = "inserted" => /\ inserting'[ingest'[g].content] = g
                                                 /\ documents'[ingest'[g].content].state = "absent"
  BY <1>1 DEF Exclusive
<1> DEFINE alone == /\ stage'[g] \in {"embedding", "upserting", "looked", "inserted"} =>
                           ingest'[g].content \in Content
                    /\ stage'[g] = "inserted" => /\ inserting'[ingest'[g].content] = g
                                                 /\ documents'[ingest'[g].content].state = "absent"
<1>2. /\ g \in Actor /\ g \notin Search /\ stage \in [Actor -> Stage]
      /\ ingest \in [Ingestion -> Progress] /\ DOMAIN inserting = Content
  BY Apart DEF Actor, Shape, Exclusive
<1>3. /\ stage[g] \in {"embedding", "upserting", "looked", "inserted"} =>
             ingest[g].content \in Content
      /\ stage[g] = "inserted" => /\ inserting[ingest[g].content] = g
                                  /\ documents[ingest[g].content].state = "absent"
  BY DEF Exclusive
<1>4. ASSUME stage'[g] = stage[g], ingest'[g] = ingest[g]
      PROVE  alone
  <2>1. CASE stage[g] = "inserted"
    <3>1. ~CommitRef(g) /\ ~RollBack(g)
      <4>1. ASSUME NextRef(g), stage[g] = "inserted"
            PROVE  stage'[g] # "inserted"
        BY <1>2, <4>1 DEF NextRef, Goes
      <4> QED BY <1>4, <2>1, <4>1 DEF CommitRef, RollBack
    <3> DEFINE c == ingest[g].content
    <3>2. c \in Content /\ inserting[c] = g /\ documents[c].state = "absent"
      BY <1>3, <2>1
    <3>3. inserting'[c] = g
      BY <3>1, <3>2, InsertingEffect
    <3>4. ASSUME NEW h \in Ingestion, CommitRef(h), ingest[h].content = c
          PROVE  FALSE
      BY <3>1, <3>2, <3>4 DEF CommitRef, Exclusive
    <3>5. documents'[c].state = "absent"
      BY <3>2, <3>4, AbsentEffect
    <3> QED BY <1>4, <3>2, <3>3, <3>5
  <2>2. CASE stage[g] # "inserted"
    BY <1>3, <1>4, <2>2
  <2> QED BY <2>1, <2>2
<1>5. ASSUME NEW a \in Actor, Step(a), a # g
      PROVE  alone
  BY <1>2, <1>4, <1>5, OwnSteps DEF Quiet
<1>6. ASSUME NextRef(g)
      PROVE  alone
  <2>1. stage'[g] \in {"done", "fetching"}
    BY <1>2, <1>6 DEF NextRef, Goes
  <2> QED BY <2>1
<1>7. CASE IngestStep(g)
  <2>1. ASSUME NEW c \in Content, Fetch(g, c)
        PROVE  alone
    <3> DEFINE read == ingest[g].read \cup {c}
    <3>1. ingest' = [ingest EXCEPT ![g].content = c, ![g].read = read] /\ ingest[g] \in Progress
      BY <1>2, <2>1 DEF Fetch
    <3> HIDE DEF read
    <3>2. ingest'[g] = [ingest[g] EXCEPT !.content = c, !.read = read]
      BY <1>2, <3>1
    <3>3. ingest'[g].content = c
      BY <3>1, <3>2 DEF Progress
    <3>4. stage'[g] = "embedding"
      BY <1>2, <2>1 DEF Fetch, Goes
    <3> QED BY <3>3, <3>4
  <2>2. CASE EmbedPassages(g) \/ LookUp(g)
    <3>1. /\ ingest' = ingest /\ stage[g] \in {"embedding", "upserting"}
          /\ stage'[g] \in {"upserting", "looked"}
      BY <1>2, <2>2 DEF EmbedPassages, LookUp, Goes
    <3> QED BY <1>3, <3>1
  <2>3. CASE Insert(g)
    <3>1. ingest' = ingest /\ documents' = documents /\ stage[g] = "looked"
      BY <2>3 DEF Insert
    <3>2. ingest[g].content \in Content
      BY <1>3, <3>1
    <3>3. inserting'[ingest[g].content] = g /\ documents[ingest[g].content].state = "absent"
      BY <1>2, <2>3, <3>2 DEF Insert
    <3> QED BY <3>1, <3>2, <3>3
  <2>4. CASE StartIngest(g) \/ Conflict(g)
    <3>1. stage'[g] \in {"fetching", "failing"}
      BY <1>2, <2>4 DEF StartIngest, Conflict, Goes
    <3> QED BY <3>1
  <2> QED BY <1>6, <1>7, <2>1, <2>2, <2>3, <2>4 DEF IngestStep, Upsert, FetchNothing, Refresh,
                                                    CommitRef
<1>8. CASE CallStep(g) \/ Fail(g)
  <2>1. CASE Retry(g)
    BY <1>4, <2>1 DEF Retry
  <2>2. CASE CallFails(g) \/ RollBack(g) \/ Fail(g)
    <3>1. stage'[g] \in {"failing", "failed"}
      BY <1>2, <2>2 DEF CallFails, RollBack, Fail, Goes
    <3> QED BY <3>1
  <2> QED BY <1>8, <2>1, <2>2 DEF CallStep
<1>9. CASE World
  BY <1>4, <1>9, WorldEffect
<1> QED BY <1>2, <1>5, <1>7, <1>8, <1>9, StepOrWorld DEF Step

\* A row that is there stays, with its country: it is inserted once.
LEMMA RowKept ==
    ASSUME Shape, Exclusive, [Next]_vars, NEW c \in Content, documents[c].state \in Present
    PROVE  documents'[c].state \in Present /\ documents'[c].country = documents[c].country
<1>1. documents \in [Content -> SourceDocument] /\ documents[c].state # "absent"
  BY DEF Shape, Present
<1>2. documents'[c].state \in Present
  BY DocumentsEffect
<1>3. ASSUME NEW g \in Ingestion, CommitRef(g)
      PROVE  documents'[c] = documents[c]
  <2>1. documents[ingest[g].content].state = "absent"
    BY <1>3 DEF CommitRef, Exclusive
  <2> QED BY <1>1, <1>3, <2>1 DEF CommitRef
<1>4. ASSUME NEW d \in Content, NEW state \in Present, SetDeleted(d, state)
      PROVE  documents'[c].country = documents[c].country
  BY <1>1, <1>4 DEF SetDeleted, SourceDocument
<1> QED BY <1>2, <1>3, <1>4, DocumentsChange

\* Queries with the same key have the same country.
LEMMA SameKey == \A q, r : CacheKey(q) = CacheKey(r) => q.country = r.country
BY DEF CacheKey

\* Only a search that stores and an entry that expires change the cache.
LEMMA CacheEffect ==
    ASSUME [Next]_vars
    PROVE  \/ cache' = cache
           \/ \E k \in Keys : Expire(k)
           \/ \E s \in Search : Store(s)
<1>1. ASSUME NEW a, IngestStep(a)
      PROVE  cache' = cache
  BY <1>1 DEF IngestStep, StartIngest, Fetch, FetchNothing, EmbedPassages, Refresh, LookUp, Upsert,
              Insert, Conflict, CommitRef
<1>2. ASSUME NEW a, SearchStep(a) \/ (\E q \in Query : Ask(a, q))
      PROVE  cache' = cache \/ Store(a)
  BY <1>2 DEF SearchStep, Ask, Load, EmbedQuery, AnnSearch, RankNothing, RankByLLM,
              RankByCrossEncoder, Rank, CommitSearch
<1>3. ASSUME NEW a, CallStep(a) \/ Fail(a)
      PROVE  cache' = cache
  BY <1>3 DEF CallStep, Retry, CallFails, RollBack, Fail
<1>4. ASSUME World
      PROVE  cache' = cache \/ \E k \in Keys : Expire(k)
  BY <1>4 DEF World, SetDeleted, vars
<1> QED BY <1>1, <1>2, <1>3, <1>4, StepOrWorld DEF Step

\* A list in the cache passes for every query that will find it.
LEMMA CacheStep ==
    ASSUME ListInv, [Next]_vars
    PROVE  CacheSound'
<1>1. /\ Shape /\ Exclusive /\ DOMAIN cache = Keys
      /\ \A q \in Query : Pass(cache[CacheKey(q)], q)
  BY DEF ListInv, ExclusiveInv, CacheSound
<1>2. \A c \in Content : documents[c].state \in Present =>
          documents'[c].state \in Present /\ documents'[c].country = documents[c].country
  BY <1>1, RowKept
<1>3. CASE cache' = cache
  BY <1>1, <1>2, <1>3 DEF CacheSound, Pass
<1>4. ASSUME NEW k \in Keys, Expire(k)
      PROVE  CacheSound'
  <2>1. DOMAIN cache' = Keys /\ documents' = documents
    BY <1>1, <1>4 DEF Expire
  <2>2. \A q : Pass(<<>>, q)
    BY DEF Pass, Range
  <2>3. ASSUME NEW q \in Query
        PROVE  Pass(cache'[CacheKey(q)], q)
    <3>1. CacheKey(q) \in Keys
      BY DEF Keys
    <3> QED BY <1>1, <1>4, <2>2, <3>1 DEF Expire
  <2> QED BY <2>1, <2>3 DEF CacheSound, Pass
<1>5. ASSUME NEW s \in Search, Store(s)
      PROVE  CacheSound'
  <2>1. DOMAIN cache' = Keys /\ documents' = documents
    BY <1>1, <1>5 DEF Store
  <2>2. /\ search[s].query \in Query
        /\ Pass(search[s].candidates, search[s].query)
    BY <1>5 DEF Store, ListInv, ListSound
  <2>3. ASSUME NEW q \in Query
        PROVE  Pass(cache'[CacheKey(q)], q)
    <3>1. CASE CacheKey(q) = Key(s)
      <4>1. q.country = search[s].query.country
        BY <3>1, SameKey DEF Key
      <4>2. cache'[CacheKey(q)] = search[s].candidates
        <5>1. Key(s) \in Keys
          BY <2>2 DEF Key, Keys
        <5> QED BY <1>1, <1>5, <3>1, <5>1 DEF Store
      <4> QED BY <2>2, <4>1, <4>2 DEF Pass
    <3>2. CASE CacheKey(q) # Key(s)
      BY <1>1, <1>5, <3>2 DEF Store
    <3> QED BY <3>1, <3>2
  <2> QED BY <2>1, <2>3 DEF CacheSound, Pass
<1>6. \/ cache' = cache
      \/ \E k \in Keys : Expire(k)
      \/ \E s \in Search : Store(s)
  BY CacheEffect
<1> QED BY <1>3, <1>4, <1>5, <1>6

\* A step of a search keeps what it has listed and taken in order.
LEMMA OwnListStep ==
    ASSUME ListInv, [Next]_vars, NEW s \in Search, SearchStep(s) \/ \E q \in Query : Ask(s, q)
    PROVE  ListSound(s)'
<1>1. /\ Shape /\ Exclusive /\ CacheSound /\ ListSound(s)
      /\ DOMAIN search = Search /\ stage \in [Actor -> Stage] /\ s \in Actor
  BY DEF ListInv, ExclusiveInv, Shape, Actor
<1>2. /\ DOMAIN search[s] = Fields /\ ~search[s].gone
      /\ {"query", "listed", "candidates", "gone", "answer", "repeats", "asked", "hit"} = Fields
  BY <1>1 DEF ListSound, Fields
<1>3. ASSUME NEW q \in Query, Ask(s, q)
      PROVE  ListSound(s)'
  <2>1. /\ search'[s] = [search[s] EXCEPT !.query = q, !.listed = CandidateIds(q)]
        /\ documents' = documents
        /\ stage'[s] = IF CandidateIds(q) # <<>> THEN "hit" ELSE "embedding"
    BY <1>1, <1>3 DEF Ask, Goes
  <2>2. /\ DOMAIN search'[s] = Fields /\ search'[s].query = q
        /\ search'[s].listed = CandidateIds(q) /\ search'[s].gone = search[s].gone
    BY <1>2, <2>1
  <2>3. Pass(CandidateIds(q), q)
    BY <1>1 DEF CacheSound, CandidateIds
  <2> QED BY <1>2, <2>1, <2>2, <2>3 DEF ListSound, Pass
<1>4. CASE Load(s)
  <2>1. /\ documents' = documents /\ stage[s] = "hit"
        /\ search[s].query \in Query /\ Pass(search[s].listed, search[s].query)
    BY <1>1, <1>4 DEF Load, ListSound
  <2>2. CASE Range(search[s].listed) \subseteq Live
    <3>1. stage'[s] = "ranking"
      BY <1>1, <1>4, <2>2 DEF Load, Goes
    <3>2. search'[s] = [search[s] EXCEPT !.candidates = search[s].listed, !.hit = TRUE,
                                         !.gone = ~(Range(search[s].listed) \subseteq Live)]
      BY <1>1, <1>4, <2>2 DEF Load, Read
    <3>3. /\ DOMAIN search'[s] = Fields /\ search'[s].query = search[s].query
          /\ search'[s].listed = search[s].listed /\ search'[s].candidates = search[s].listed
          /\ search'[s].gone = ~(Range(search[s].listed) \subseteq Live)
      BY <1>2, <3>2
    <3> QED BY <2>1, <2>2, <3>1, <3>3 DEF ListSound, Pass
  <2>3. CASE ~(Range(search[s].listed) \subseteq Live)
    <3>1. stage'[s] = "embedding" /\ search' = search
      BY <1>1, <1>4, <2>3 DEF Load, Goes
    <3> QED BY <1>2, <2>1, <3>1 DEF ListSound
  <2> QED BY <2>2, <2>3
<1>5. CASE EmbedQuery(s)
  <2>1. search' = search /\ stage[s] = "embedding" /\ stage'[s] = "queried"
    BY <1>1, <1>5 DEF EmbedQuery, Goes
  <2> QED BY <1>1, <2>1 DEF ListSound
<1>6. ASSUME NEW found, AnnSearch(s, found)
      PROVE  ListSound(s)'
  <2>1. /\ search'[s] = [search[s] EXCEPT !.listed = found, !.candidates = found]
        /\ documents' = documents /\ stage[s] = "queried" /\ stage'[s] = "found"
        /\ \A c \in Range(found) : Matches(c, search[s].query)
    BY <1>1, <1>6 DEF AnnSearch, Goes
  <2>2. /\ DOMAIN search'[s] = Fields /\ search'[s].query = search[s].query
        /\ search'[s].listed = found /\ search'[s].candidates = found
        /\ search'[s].gone = search[s].gone
    BY <1>2, <2>1
  <2>3. Pass(found, search[s].query)
    BY <2>1 DEF Matches, Live, Pass, Present
  <2>4. search[s].query \in Query
    BY <1>1, <2>1 DEF ListSound
  <2> QED BY <1>2, <2>1, <2>2, <2>3, <2>4 DEF ListSound, Pass
<1>7. CASE Store(s)
  <2>1. /\ search' = search /\ documents' = documents
        /\ stage[s] = "found" /\ stage'[s] = "ranking"
    BY <1>1, <1>7 DEF Store, Goes
  <2> QED BY <1>1, <2>1 DEF ListSound, Pass
<1>8. ASSUME NEW ids, NEW ordered, NEW byLLM, Rank(s, ids, ordered, byLLM), stage[s] = "ranking"
      PROVE  ListSound(s)'
  <2> DEFINE answer == FirstOf(ordered, search[s].query.topK)
             repeats == ~IsInjective(ids)
  <2>1. /\ search'[s] = [search[s] EXCEPT !.answer = answer, !.repeats = repeats, !.asked = byLLM]
        /\ documents' = documents /\ stage'[s] = "answered"
    BY <1>1, <1>8 DEF Rank, Goes
  <2> HIDE DEF answer, repeats
  <2>2. /\ DOMAIN search'[s] = Fields /\ search'[s].query = search[s].query
        /\ search'[s].listed = search[s].listed /\ search'[s].candidates = search[s].candidates
        /\ search'[s].gone = search[s].gone
    BY <1>2, <2>1
  <2> QED BY <1>1, <1>8, <2>1, <2>2 DEF ListSound, Pass
<1>9. CASE \/ RankNothing(s)
           \/ \E ids : RankByLLM(s, ids)
           \/ \E ordered : RankByCrossEncoder(s, ordered)
  BY <1>8, <1>9 DEF RankNothing, RankByLLM, RankByCrossEncoder
<1>10. CASE CommitSearch(s)
  <2> DEFINE left == [NoLocals EXCEPT !.hit = search[s].hit, !.asked = search[s].asked]
  <2>1. DOMAIN left = Fields /\ left.gone = FALSE
    BY DEF NoLocals, Fields
  <2>2. search'[s] = left /\ stage'[s] = "done"
    BY <1>1, <1>10 DEF CommitSearch, Goes
  <2> HIDE DEF left
  <2> QED BY <2>1, <2>2 DEF ListSound
<1> QED BY <1>3, <1>4, <1>5, <1>6, <1>7, <1>9, <1>10 DEF SearchStep

\* So does every step.
LEMMA ListStep ==
    ASSUME ListInv, [Next]_vars, NEW s \in Search
    PROVE  ListSound(s)'
<1>1. /\ Shape /\ Exclusive /\ ListSound(s)
      /\ s \in Actor /\ s \notin Ingestion /\ stage \in [Actor -> Stage]
  BY Apart DEF ListInv, ExclusiveInv, Shape, Actor
<1>2. \A c \in Content : documents[c].state \in Present =>
          documents'[c].state \in Present /\ documents'[c].country = documents[c].country
  BY <1>1, RowKept
<1>3. ASSUME search'[s] = search[s],
             stage'[s] = stage[s] \/ stage'[s] \in {"failing", "failed"}
      PROVE  ListSound(s)'
  BY <1>1, <1>2, <1>3 DEF ListSound, Pass
<1>4. ASSUME NEW a \in Actor, Step(a), a # s
      PROVE  ListSound(s)'
  BY <1>1, <1>3, <1>4, OwnSteps DEF Quiet
<1>5. CASE CallStep(s) \/ Fail(s)
  <2>1. CASE Retry(s) \/ CallFails(s) \/ Fail(s)
    BY <1>1, <1>3, <2>1 DEF Retry, CallFails, Fail, Goes
  <2>2. CASE RollBack(s)
    <3>1. search'[s] = NoLocals /\ stage'[s] = "failed"
      BY <1>1, <2>2 DEF RollBack, Goes
    <3>2. DOMAIN NoLocals = Fields /\ NoLocals.gone = FALSE
      BY DEF NoLocals, Fields
    <3> QED BY <3>1, <3>2 DEF ListSound
  <2> QED BY <1>5, <2>1, <2>2 DEF CallStep
<1>6. CASE World
  BY <1>3, <1>6, WorldEffect
<1> QED BY <1>1, <1>4, <1>5, <1>6, OwnListStep, StepOrWorld DEF Step

\* The invariant of the lists is inductive.
LEMMA ListInvStep == ListInv /\ [Next]_vars => ListInv'
<1> SUFFICES ASSUME ListInv, [Next]_vars PROVE ListInv'
  OBVIOUS
<1>1. ExclusiveInv'
  BY ShapeStep, ExclusiveStep DEF ListInv, ExclusiveInv
<1>2. CacheSound' /\ \A s \in Search : ListSound(s)'
  BY CacheStep, ListStep
<1> QED BY <1>1, <1>2 DEF ListInv

--------------------------------------------------------------------------------
(***************************************************************************)
(* What reranking returns.                                                 *)
(***************************************************************************)

\* The same passages, and each once if neither the candidates nor the names repeat themselves.
Reorders(ordered, passages, ids, V) ==
    /\ ordered \in Seq(V)
    /\ Range(ordered) = Range(passages)
    /\ IsInjective(passages) /\ IsInjective(ids) =>
           IsInjective(ordered) /\ Len(ordered) = Len(passages)

\* Lists of the same elements, none twice, are of the same length.
LEMMA SameLength ==
    ASSUME NEW V, NEW s \in Seq(V), NEW t \in Seq(V), Range(s) = Range(t),
           IsInjective(s), IsInjective(t)
    PROVE  Len(s) = Len(t)
<1> DEFINE S == Range(s)
<1>1. /\ Len(s) \in Nat /\ s \in [1 .. Len(s) -> S]
      /\ \A p \in S : \E i \in 1 .. Len(s) : s[i] = p
      /\ \A i, j \in 1 .. Len(s) : s[i] = s[j] => i = j
  BY DEF Range, IsInjective
<1>2. /\ Len(t) \in Nat /\ t \in [1 .. Len(t) -> S]
      /\ \A p \in S : \E i \in 1 .. Len(t) : t[i] = p
      /\ \A i, j \in 1 .. Len(t) : t[i] = t[j] => i = j
  <2>1. S = Range(t)
    OBVIOUS
  <2> HIDE DEF S
  <2> QED BY <2>1 DEF Range, IsInjective
<1> HIDE DEF S
<1>3. Len(s) = Cardinality(S)
  BY <1>1, ListOfAll
<1>4. Len(t) = Cardinality(S)
  BY <1>2, ListOfAll
<1> QED BY <1>3, <1>4

\* Two lists one after the other.
LEMMA Concatenated ==
    ASSUME NEW V, NEW s \in Seq(V), NEW t \in Seq(V)
    PROVE  /\ s \o t \in Seq(V)
           /\ Range(s \o t) = Range(s) \cup Range(t)
           /\ IsInjective(s) /\ IsInjective(t) /\ Range(s) \cap Range(t) = {} => IsInjective(s \o t)
<1> DEFINE r == s \o t
           m == Len(s)
           n == Len(t)
<1>1. /\ m \in Nat /\ n \in Nat /\ DOMAIN s = 1 .. m /\ DOMAIN t = 1 .. n
      /\ r \in Seq(V) /\ DOMAIN r = 1 .. (m + n)
      /\ \A i \in 1 .. m : r[i] = s[i]
      /\ \A i \in (m + 1) .. (m + n) : r[i] = t[i - m]
      /\ \A i \in 1 .. n : r[m + i] = t[i]
  OBVIOUS
<1> HIDE DEF r, m, n
<1>2. \A i \in DOMAIN r : \/ i \in DOMAIN s /\ r[i] = s[i]
                          \/ i - m \in DOMAIN t /\ r[i] = t[i - m]
  <2> SUFFICES ASSUME NEW i \in 1 .. (m + n)
               PROVE  \/ i \in 1 .. m /\ r[i] = s[i]
                      \/ i - m \in 1 .. n /\ r[i] = t[i - m]
    BY <1>1
  <2>1. i \in 1 .. m \/ (i \in (m + 1) .. (m + n) /\ i - m \in 1 .. n)
    BY <1>1
  <2> QED BY <1>1, <2>1
<1>3. Range(r) = Range(s) \cup Range(t)
  <2>1. Range(r) \subseteq Range(s) \cup Range(t)
    BY <1>2 DEF Range
  <2>2. Range(s) \subseteq Range(r)
    <3>1. \A i \in DOMAIN s : i \in DOMAIN r /\ s[i] = r[i]
      BY <1>1
    <3> QED BY <3>1 DEF Range
  <2>3. Range(t) \subseteq Range(r)
    <3>1. \A i \in DOMAIN t : m + i \in DOMAIN r /\ t[i] = r[m + i]
      BY <1>1
    <3> QED BY <3>1 DEF Range
  <2> QED BY <2>1, <2>2, <2>3
<1>4. ASSUME IsInjective(s), IsInjective(t), Range(s) \cap Range(t) = {},
             NEW i \in DOMAIN r, NEW j \in DOMAIN r, r[i] = r[j]
      PROVE  i = j
  <2>1. CASE i \in DOMAIN s /\ r[i] = s[i] /\ j \in DOMAIN s /\ r[j] = s[j]
    BY <1>4, <2>1 DEF IsInjective
  <2>2. CASE i - m \in DOMAIN t /\ r[i] = t[i - m] /\ j - m \in DOMAIN t /\ r[j] = t[j - m]
    <3>1. i - m = j - m
      BY <1>4, <2>2 DEF IsInjective
    <3> QED BY <1>1, <3>1
  <2>3. \A k \in DOMAIN s, l \in DOMAIN t : s[k] # t[l]
    BY <1>4 DEF Range
  <2> QED BY <1>2, <1>4, <2>1, <2>2, <2>3
<1> QED BY <1>1, <1>3, <1>4 DEF r, IsInjective

\* Whatever ids an LLM names, every passage is there afterwards, and once if the ids name none
\* twice (_apply_order).
LEMMA ApplyOrderReorders ==
    ASSUME NEW V, NEW W, NEW passages \in Seq(V), NEW ids \in Seq(W)
    PROVE  Reorders(ApplyOrder(passages, ids), passages, ids, V)
<1> DEFINE known == {i \in DOMAIN ids : ids[i] \in Range(passages)}
           unnamed == {i \in DOMAIN passages : passages[i] \notin Range(ids)}
           s == Picked(ids, known)
           t == Picked(passages, unnamed)
<1>1. /\ s \in Seq(W)
      /\ \A i \in DOMAIN s : \E k \in DOMAIN ids \cap known : s[i] = ids[k]
      /\ \A k \in DOMAIN ids \cap known : \E i \in DOMAIN s : s[i] = ids[k]
      /\ (\A j, k \in DOMAIN ids \cap known : ids[j] = ids[k] => j = k)
             => \A i, j \in DOMAIN s : s[i] = s[j] => i = j
  <2> HIDE DEF known
  <2> QED BY PickedElements
<1>2. /\ t \in Seq(V)
      /\ \A i \in DOMAIN t : \E k \in DOMAIN passages \cap unnamed : t[i] = passages[k]
      /\ \A k \in DOMAIN passages \cap unnamed : \E i \in DOMAIN t : t[i] = passages[k]
      /\ (\A j, k \in DOMAIN passages \cap unnamed : passages[j] = passages[k] => j = k)
             => \A i, j \in DOMAIN t : t[i] = t[j] => i = j
  <2> HIDE DEF unnamed
  <2> QED BY PickedElements
<1>3. ApplyOrder(passages, ids) = s \o t
  BY DEF ApplyOrder
<1> HIDE DEF s, t
<1>4. Range(s) = Range(passages) \cap Range(ids)
  BY <1>1 DEF Range
<1>5. Range(t) = Range(passages) \ Range(ids)
  BY <1>2 DEF Range
<1>6. IsInjective(ids) => IsInjective(s)
  BY <1>1 DEF IsInjective
<1>7. IsInjective(passages) => IsInjective(t)
  BY <1>2 DEF IsInjective
<1>8. s \in Seq(V)
  <2>1. Range(passages) \subseteq V
    BY DEF Range
  <2>2. Len(s) \in Nat /\ DOMAIN s = 1 .. Len(s) /\ s = [i \in 1 .. Len(s) |-> s[i]]
    BY <1>1
  <2>3. \A i \in 1 .. Len(s) : s[i] \in V
    BY <1>4, <2>1, <2>2 DEF Range
  <2>4. s \in [1 .. Len(s) -> V]
    BY <2>2, <2>3
  <2> QED BY <2>2, <2>4
<1>9. /\ s \o t \in Seq(V) /\ Range(s \o t) = Range(passages)
      /\ IsInjective(passages) /\ IsInjective(ids) => IsInjective(s \o t)
  <2>1. /\ s \o t \in Seq(V) /\ Range(s \o t) = Range(s) \cup Range(t)
        /\ IsInjective(s) /\ IsInjective(t) /\ Range(s) \cap Range(t) = {} => IsInjective(s \o t)
    BY <1>2, <1>8, Concatenated
  <2>2. Range(s) \cup Range(t) = Range(passages) /\ Range(s) \cap Range(t) = {}
    BY <1>4, <1>5
  <2> QED BY <1>6, <1>7, <2>1, <2>2
<1> QED BY <1>3, <1>9, SameLength DEF Reorders

\* So it is when a cross-encoder has sorted them (_rerank_cross_encoder).
LEMMA PermutedReorders ==
    ASSUME NEW V, NEW passages \in Seq(V), NEW ordered \in Permuted(passages), NEW ids
    PROVE  Reorders(ordered, passages, ids, V)
<1>1. PICK place \in Bijection(DOMAIN passages, DOMAIN passages) :
          ordered = [i \in DOMAIN passages |-> passages[place[i]]]
  BY DEF Permuted
<1>2. /\ place \in [DOMAIN passages -> DOMAIN passages]
      /\ \A i, j \in DOMAIN passages : place[i] = place[j] => i = j
      /\ \A k \in DOMAIN passages : \E i \in DOMAIN passages : place[i] = k
  BY DEF Bijection, Injection, Surjection, IsInjective
<1>3. Len(passages) \in Nat /\ DOMAIN passages = 1 .. Len(passages)
  OBVIOUS
<1>4. ordered \in Seq(V) /\ Len(ordered) = Len(passages) /\ DOMAIN ordered = DOMAIN passages
  <2>1. ordered \in [1 .. Len(passages) -> V]
    BY <1>1, <1>2, <1>3
  <2> QED BY <1>3, <2>1
<1>5. Range(ordered) = Range(passages)
  BY <1>1, <1>2 DEF Range
<1>6. IsInjective(passages) => IsInjective(ordered)
  BY <1>1, <1>2 DEF IsInjective
<1> QED BY <1>4, <1>5, <1>6 DEF Reorders

\* The first k of a list.
LEMMA FirstOfList ==
    ASSUME NEW V, NEW list \in Seq(V), NEW k \in Nat
    PROVE  /\ FirstOf(list, k) \in Seq(V)
           /\ Len(FirstOf(list, k)) = IF k < Len(list) THEN k ELSE Len(list)
           /\ Range(FirstOf(list, k)) \subseteq Range(list)
           /\ IsInjective(list) => IsInjective(FirstOf(list, k))
           /\ Len(list) <= k => FirstOf(list, k) = list
<1> DEFINE m == IF k < Len(list) THEN k ELSE Len(list)
           first == SubSeq(list, 1, m)
<1>1. Len(list) \in Nat /\ m \in Nat /\ m <= Len(list)
  OBVIOUS
<1>2. FirstOf(list, k) = first
  BY DEF FirstOf
<1>3. /\ first \in Seq(V) /\ Len(first) = m /\ DOMAIN first = 1 .. m
      /\ \A i \in 1 .. m : i \in DOMAIN list /\ first[i] = list[i]
  <2> HIDE DEF m
  <2> QED BY <1>1
<1>4. m = Len(list) => first = list
  <2> HIDE DEF m
  <2> QED BY <1>1
<1> HIDE DEF first
<1>5. Range(first) \subseteq Range(list)
  BY <1>3 DEF Range
<1>6. IsInjective(list) => IsInjective(first)
  BY <1>3 DEF IsInjective
<1>7. Len(list) <= k => m = Len(list)
  BY <1>1
<1> QED BY <1>2, <1>3, <1>4, <1>5, <1>6, <1>7

--------------------------------------------------------------------------------
(***************************************************************************)
(* Types.                                                                  *)
(***************************************************************************)

LEMMA ListsAreSeqs == \A S : \A n \in Nat : ListsOf(S, n) \subseteq Seq(S)
BY DEF ListsOf

LEMMA KeysOfQueries == \A q \in Query : CacheKey(q) \in Keys
BY DEF Keys

LEMMA NoLocalsType == NoLocals \in Locals
<1> DEFINE some == CHOOSE q \in Query : TRUE
<1>1. some \in Query
  <2>1. \E c \in Country, k \in TopK : [country |-> c, topK |-> k] \in Query
    BY SomeQuery DEF Query
  <2> QED BY <2>1
<1> HIDE DEF some
<1>2. NoLocals = [query |-> some, listed |-> <<>>, candidates |-> <<>>, gone |-> FALSE,
                  hit |-> FALSE, answer |-> <<>>, repeats |-> FALSE, asked |-> FALSE]
  BY DEF NoLocals, some
<1> QED BY <1>1, <1>2 DEF Locals

\* The locals of a search.
LEMMA LocalsType ==
    ASSUME NEW l \in Locals
    PROVE  /\ l.query \in Query /\ l.query.topK \in Nat \ {0}
           /\ l.listed \in Seq(Content) /\ l.candidates \in Seq(Content)
           /\ l.answer \in Seq(Content)
           /\ l.hit \in BOOLEAN /\ l.asked \in BOOLEAN
<1>1. l.query \in Query
  BY DEF Locals
<1>2. l.query.topK \in Nat \ {0}
  BY <1>1, Sizes DEF Query
<1> QED BY <1>1, <1>2 DEF Locals

\* What the steps of a search write into them.
LEMMA LocalsChange ==
    ASSUME NEW l \in Locals, NEW q \in Query, NEW ids \in Seq(Content), NEW a \in BOOLEAN,
           NEW b \in BOOLEAN
    PROVE  /\ [l EXCEPT !.query = q, !.listed = ids] \in Locals
           /\ [l EXCEPT !.candidates = ids, !.hit = a, !.gone = b] \in Locals
           /\ [l EXCEPT !.listed = ids, !.candidates = ids] \in Locals
           /\ [l EXCEPT !.answer = ids, !.repeats = a, !.asked = b] \in Locals
           /\ [l EXCEPT !.hit = a, !.asked = b] \in Locals
BY DEF Locals

\* The locals stay locals.
LEMMA SearchTyped ==
    ASSUME TypeOK, NEW s \in Search, SearchStep(s) \/ \E q \in Query : Ask(s, q)
    PROVE  search' \in [Search -> Locals]
<1>1. /\ search \in [Search -> Locals] /\ search[s] \in Locals
      /\ cache \in [Keys -> Seq(Content)]
  BY DEF TypeOK
<1>2. ASSUME NEW q \in Query, Ask(s, q)
      PROVE  search' \in [Search -> Locals]
  <2>1. CandidateIds(q) \in Seq(Content)
    BY <1>1, KeysOfQueries DEF CandidateIds
  <2>2. search' = [search EXCEPT ![s] = [search[s] EXCEPT !.query = q, !.listed = CandidateIds(q)]]
    BY <1>1, <1>2 DEF Ask
  <2> QED BY <1>1, <2>1, <2>2, LocalsChange
<1>3. CASE Load(s)
  <2>1. CASE ~UNCHANGED search
    <3> DEFINE gone == ~(Range(search[s].listed) \subseteq Live)
    <3>1. search' = [search EXCEPT ![s] = [search[s] EXCEPT !.candidates = search[s].listed,
                                                            !.hit = TRUE, !.gone = gone]]
      BY <1>1, <1>3, <2>1 DEF Load, Read
    <3>2. gone \in BOOLEAN /\ search[s].listed \in Seq(Content) /\ search[s].query \in Query
      BY <1>1, LocalsType
    <3> HIDE DEF gone
    <3> QED BY <1>1, <3>1, <3>2, LocalsChange
  <2> QED BY <1>1, <2>1
<1>4. ASSUME NEW found \in ListsOf(Content, MaxCandidates), AnnSearch(s, found)
      PROVE  search' \in [Search -> Locals]
  <2>1. found \in Seq(Content) /\ search[s].query \in Query
    BY <1>1, Sizes, ListsAreSeqs, LocalsType
  <2>2. search' = [search EXCEPT ![s] = [search[s] EXCEPT !.listed = found, !.candidates = found]]
    BY <1>1, <1>4 DEF AnnSearch
  <2> QED BY <1>1, <2>1, <2>2, LocalsChange
<1>5. ASSUME NEW ids, NEW ordered \in Seq(Content), NEW byLLM \in BOOLEAN,
             Rank(s, ids, ordered, byLLM)
      PROVE  search' \in [Search -> Locals]
  <2> DEFINE answer == FirstOf(ordered, search[s].query.topK)
             repeats == ~IsInjective(ids)
  <2>1. search' = [search EXCEPT ![s] = [search[s] EXCEPT !.answer = answer, !.repeats = repeats,
                                                          !.asked = byLLM]]
    BY <1>1, <1>5 DEF Rank
  <2>2. answer \in Seq(Content) /\ repeats \in BOOLEAN /\ search[s].query \in Query
    BY <1>1, <1>5, LocalsType, FirstOfList
  <2> HIDE DEF answer, repeats
  <2> QED BY <1>1, <1>5, <2>1, <2>2, LocalsChange
<1>6. CASE RankNothing(s)
  <2>1. Rank(s, <<>>, <<>>, FALSE)
    BY <1>6, Zenon DEF RankNothing
  <2>2. <<>> \in Seq(Content)
    OBVIOUS
  <2> QED BY <1>5, <2>1, <2>2
<1>7. ASSUME NEW ids \in ListsOf(Content \cup {Unknown}, MaxCandidates + 1), RankByLLM(s, ids)
      PROVE  search' \in [Search -> Locals]
  <2>1. ids \in Seq(Content \cup {Unknown}) /\ search[s].candidates \in Seq(Content)
    BY <1>1, Sizes, ListsAreSeqs, LocalsType
  <2>2. ApplyOrder(search[s].candidates, ids) \in Seq(Content)
    BY <2>1, ApplyOrderReorders DEF Reorders
  <2> QED BY <1>5, <1>7, <2>2 DEF RankByLLM
<1>8. ASSUME NEW ordered \in Permuted(search[s].candidates), RankByCrossEncoder(s, ordered)
      PROVE  search' \in [Search -> Locals]
  <2>1. ordered \in Seq(Content)
    BY <1>1, LocalsType, PermutedReorders DEF Reorders
  <2> QED BY <1>5, <1>8, <2>1 DEF RankByCrossEncoder
<1>9. CASE CommitSearch(s)
  <2> DEFINE left == [NoLocals EXCEPT !.hit = search[s].hit, !.asked = search[s].asked]
  <2>1. left \in Locals
    <3>1. search[s].hit \in BOOLEAN /\ search[s].asked \in BOOLEAN
      BY <1>1, LocalsType
    <3> QED BY <1>1, <3>1, NoLocalsType, LocalsChange, LocalsType
  <2>2. search' = [search EXCEPT ![s] = left]
    BY <1>9 DEF CommitSearch
  <2> HIDE DEF left
  <2> QED BY <1>1, <2>1, <2>2
<1>10. CASE EmbedQuery(s) \/ Store(s)
  BY <1>1, <1>10 DEF EmbedQuery, Store
<1> QED BY <1>2, <1>3, <1>4, <1>6, <1>7, <1>8, <1>9, <1>10 DEF SearchStep

\* What a search does to the rest keeps its types.
LEMMA SearchStepTyped ==
    ASSUME TypeOK, NEW s \in Search, SearchStep(s) \/ \E q \in Query : Ask(s, q)
    PROVE  TypeOK'
<1>1. /\ s \in Actor /\ stage \in [Actor -> Stage] /\ attempt \in [Actor -> 0 .. MaxRetries]
      /\ open \in [Actor -> SUBSET LLMCallRecord] /\ records \subseteq LLMCallRecord
      /\ cache \in [Keys -> Seq(Content)] /\ search[s] \in Locals
  BY DEF TypeOK, Actor
<1>2. UNCHANGED <<documents, inserting, ingest>>
  BY DEF SearchStep, Ask, Load, EmbedQuery, AnnSearch, Store, RankNothing, RankByLLM,
         RankByCrossEncoder, Rank, CommitSearch
<1>3. stage' \in [Actor -> Stage]
  BY <1>1 DEF SearchStep, Ask, Load, EmbedQuery, AnnSearch, Store, RankNothing, RankByLLM,
              RankByCrossEncoder, Rank, CommitSearch, Goes, Stage
<1>4. cache' \in [Keys -> Seq(Content)]
  <2>1. CASE Store(s)
    BY <1>1, <2>1, LocalsType DEF Store
  <2> QED BY <1>1, <2>1 DEF SearchStep, Ask, Load, EmbedQuery, AnnSearch, RankNothing, RankByLLM,
                          RankByCrossEncoder, Rank, CommitSearch
<1>5. attempt' \in [Actor -> 0 .. MaxRetries]
  <2>1. 0 \in 0 .. MaxRetries
    BY Sizes
  <2> QED BY <1>1, <2>1 DEF SearchStep, Ask, Load, EmbedQuery, AnnSearch, Store, RankNothing,
                          RankByLLM, RankByCrossEncoder, Rank, CommitSearch, Answered
<1>6. open' \in [Actor -> SUBSET LLMCallRecord] /\ records' \subseteq LLMCallRecord
  <2>1. \A call \in {"embed", "rerank"} : Call(s, call, None, TRUE) \in LLMCallRecord
    BY <1>1, CallType
  <2>2. CASE EmbedQuery(s) \/ \E ids : RankByLLM(s, ids)
    <3>1. records' = records
      BY <2>2 DEF EmbedQuery, RankByLLM, Rank
    <3>2. \E call \in {"embed", "rerank"} :
              open' = [open EXCEPT ![s] = @ \cup {Call(s, call, None, TRUE)}]
      BY <2>2 DEF EmbedQuery, RankByLLM, Answered, Persist
    <3> QED BY <1>1, <2>1, <3>1, <3>2
  <2>3. CASE CommitSearch(s)
    BY <1>1, <2>3 DEF CommitSearch, Commit
  <2>4. CASE UNCHANGED <<open, records>>
    BY <1>1, <2>4
  <2> QED BY <2>2, <2>3, <2>4 DEF SearchStep, Ask, Load, AnnSearch, Store, RankNothing,
                                  RankByCrossEncoder, Rank
<1> QED BY <1>2, <1>3, <1>4, <1>5, <1>6, SearchTyped DEF TypeOK

\* So does what an ingestion does.
LEMMA IngestStepTyped ==
    ASSUME TypeOK, Shape, NEW g \in Ingestion, IngestStep(g)
    PROVE  TypeOK'
<1>1. /\ g \in Actor /\ stage \in [Actor -> Stage] /\ attempt \in [Actor -> 0 .. MaxRetries]
      /\ open \in [Actor -> SUBSET LLMCallRecord] /\ records \subseteq LLMCallRecord
      /\ documents \in [Content -> SourceDocument]
      /\ inserting \in [Content -> Ingestion \cup {None}]
      /\ ingest \in [Ingestion -> Progress]
      /\ ingest[g].ref \in Nat /\ ingest[g].content \in Content \cup {None}
  BY DEF TypeOK, Actor, Progress
<1>2. UNCHANGED <<search, cache>>
  BY DEF IngestStep, StartIngest, Fetch, FetchNothing, EmbedPassages, Refresh, LookUp, Upsert,
         Insert, Conflict, CommitRef
<1>3. ASSUME NextRef(g)
      PROVE  stage' \in [Actor -> Stage] /\ ingest' \in [Ingestion -> Progress]
  <2>1. ingest' \in [Ingestion -> Progress]
    <3> DEFINE p == [ingest[g] EXCEPT !.ref = ingest[g].ref + 1, !.content = None]
    <3>1. p \in Progress
      <4>1. ingest[g] \in Progress /\ ingest[g].ref + 1 \in Nat
        BY <1>1
      <4> QED BY <4>1 DEF Progress
    <3>2. ingest' = ingest \/ ingest' = [ingest EXCEPT ![g] = p]
      BY <1>1, <1>3 DEF NextRef
    <3> HIDE DEF p
    <3> QED BY <1>1, <3>1, <3>2
  <2> QED BY <1>1, <1>3, <2>1 DEF NextRef, Goes, Stage
<1>4. stage' \in [Actor -> Stage]
  BY <1>1, <1>3 DEF IngestStep, StartIngest, Fetch, FetchNothing, EmbedPassages, Refresh, LookUp,
                    Upsert, Insert, Conflict, CommitRef, Goes, Stage
<1>5. ingest' \in [Ingestion -> Progress]
  <2>1. ASSUME NEW c \in Content, Fetch(g, c)
        PROVE  ingest' \in [Ingestion -> Progress]
    BY <1>1, <2>1 DEF Fetch, Progress
  <2> QED BY <1>1, <1>3, <2>1 DEF IngestStep, StartIngest, FetchNothing, EmbedPassages, Refresh,
                                LookUp, Upsert, Insert, Conflict, CommitRef
<1>6. documents' \in [Content -> SourceDocument]
  <2>1. CASE CommitRef(g)
    <3>1. RefsOf[g][ingest[g].ref] \in Country
      BY Refs DEF Shape
    <3>2. [state |-> "live", country |-> RefsOf[g][ingest[g].ref]] \in SourceDocument
      BY <3>1 DEF SourceDocument, Present
    <3> QED BY <1>1, <2>1, <3>2 DEF CommitRef
  <2> QED BY <1>1, <2>1 DEF IngestStep, StartIngest, Fetch, FetchNothing, EmbedPassages, Refresh,
                          LookUp, Upsert, Insert, Conflict
<1>7. inserting' \in [Content -> Ingestion \cup {None}]
  BY <1>1 DEF IngestStep, StartIngest, Fetch, FetchNothing, EmbedPassages, Refresh, LookUp, Upsert,
              Insert, Conflict, CommitRef
<1>8. attempt' \in [Actor -> 0 .. MaxRetries]
  <2>1. 0 \in 0 .. MaxRetries
    BY Sizes
  <2> QED BY <1>1, <2>1 DEF IngestStep, StartIngest, Fetch, FetchNothing, EmbedPassages, Refresh,
                          LookUp, Upsert, Insert, Conflict, CommitRef, Answered
<1>9. open' \in [Actor -> SUBSET LLMCallRecord] /\ records' \subseteq LLMCallRecord
  <2>1. Call(g, "embed", ingest[g].content, TRUE) \in LLMCallRecord
    BY <1>1, CallType
  <2> QED BY <1>1, <2>1 DEF IngestStep, StartIngest, Fetch, FetchNothing, EmbedPassages, Refresh,
                          LookUp, Upsert, Insert, Conflict, CommitRef, Answered, Persist, Commit
<1> QED BY <1>2, <1>4, <1>5, <1>6, <1>7, <1>8, <1>9 DEF TypeOK

\* Every step keeps the types.
LEMMA TypeStep ==
    ASSUME TypeOK, Shape, [Next]_vars
    PROVE  TypeOK'
<1>1. /\ stage \in [Actor -> Stage] /\ attempt \in [Actor -> 0 .. MaxRetries]
      /\ open \in [Actor -> SUBSET LLMCallRecord] /\ documents \in [Content -> SourceDocument]
      /\ inserting \in [Content -> Ingestion \cup {None}] /\ ingest \in [Ingestion -> Progress]
      /\ search \in [Search -> Locals] /\ cache \in [Keys -> Seq(Content)]
  BY DEF TypeOK
<1>2. ASSUME NEW a \in Actor, CallStep(a) \/ Fail(a)
      PROVE  TypeOK'
  <2>1. stage' \in [Actor -> Stage]
    BY <1>1, <1>2 DEF CallStep, Retry, CallFails, RollBack, Fail, Goes, Stage
  <2>2. attempt' \in [Actor -> 0 .. MaxRetries]
    <3>1. 0 \in 0 .. MaxRetries
      BY Sizes
    <3>2. CASE Retry(a)
      <4>1. attempt[a] + 1 \in 0 .. MaxRetries
        BY <1>1, <3>2, Sizes DEF Retry
      <4> QED BY <1>1, <3>2, <4>1 DEF Retry
    <3> QED BY <1>1, <1>2, <3>1, <3>2 DEF CallStep, CallFails, RollBack, Fail
  <2>3. open' \in [Actor -> SUBSET LLMCallRecord]
    <3> DEFINE call == IF stage[a] = "embedding" THEN "embed" ELSE "rerank"
               c == IF a \in Ingestion THEN ingest[a].content ELSE None
    <3>1. Call(a, call, c, FALSE) \in LLMCallRecord
      <4>1. call \in {"embed", "rerank"} /\ c \in Content \cup {None}
        BY <1>1 DEF Progress
      <4> HIDE DEF call, c
      <4> QED BY <4>1, CallType
    <3>2. CASE CallFails(a)
      <4>1. open' = [open EXCEPT ![a] = @ \cup {Call(a, call, c, FALSE)}]
        BY <3>2 DEF CallFails, Persist
      <4> HIDE DEF call, c
      <4> QED BY <1>1, <3>1, <4>1
    <3> QED BY <1>1, <1>2, <3>2 DEF CallStep, Retry, RollBack, Fail
  <2>4. search' \in [Search -> Locals]
    BY <1>1, <1>2, NoLocalsType DEF CallStep, Retry, CallFails, RollBack, Fail
  <2>5. inserting' \in [Content -> Ingestion \cup {None}]
    BY <1>1, <1>2 DEF CallStep, Retry, CallFails, RollBack, Fail
  <2>6. UNCHANGED <<documents, cache, ingest, records>>
    BY <1>2 DEF CallStep, Retry, CallFails, RollBack, Fail
  <2> QED BY <2>1, <2>2, <2>3, <2>4, <2>5, <2>6 DEF TypeOK
<1>3. ASSUME NEW k \in Keys, Expire(k)
      PROVE  TypeOK'
  <2>1. cache' \in [Keys -> Seq(Content)]
    BY <1>1, <1>3 DEF Expire
  <2> QED BY <1>3, <2>1 DEF Expire, TypeOK
<1>4. ASSUME NEW c \in Content, NEW state \in Present, SetDeleted(c, state)
      PROVE  TypeOK'
  <2>1. documents' \in [Content -> SourceDocument]
    BY <1>1, <1>4 DEF SetDeleted, SourceDocument
  <2> QED BY <1>4, <2>1 DEF SetDeleted, TypeOK
<1>5. CASE UNCHANGED vars
  BY <1>5 DEF vars, TypeOK
<1> QED BY <1>2, <1>3, <1>4, <1>5, SearchStepTyped, IngestStepTyped, StepOrWorld DEF Step, World

--------------------------------------------------------------------------------
(***************************************************************************)
(* Answers.                                                                *)
(***************************************************************************)

\* Neither the cache nor what a search has listed names a passage twice.
Distinct ==
    /\ \A k \in Keys : IsInjective(cache[k])
    /\ \A s \in Search : IsInjective(search[s].listed)

AnswersKept == \A s \in Search : stage[s] = "answered" => AnswerKept(s)

AnswerInv == TypeOK /\ ListInv /\ Distinct /\ AnswersKept

LEMMA EmptyDistinct == IsInjective(<<>>)
BY DEF IsInjective

\* A step of a search lists what the cache or the index gave it.
LEMMA OwnListDistinct ==
    ASSUME TypeOK, Distinct, NEW s \in Search, SearchStep(s) \/ \E q \in Query : Ask(s, q)
    PROVE  IsInjective(search'[s].listed)
<1>1. search[s] \in Locals /\ search \in [Search -> Locals] /\ IsInjective(search[s].listed)
  BY DEF TypeOK, Distinct
<1>2. DOMAIN search[s] = Fields
  BY <1>1 DEF Locals, Fields
<1>3. ASSUME NEW q \in Query, Ask(s, q)
      PROVE  IsInjective(search'[s].listed)
  <2>1. search'[s].listed = CandidateIds(q)
    BY <1>1, <1>2, <1>3 DEF Ask, Fields
  <2> QED BY <2>1, KeysOfQueries DEF Distinct, CandidateIds
<1>4. CASE Load(s)
  <2>1. search'[s].listed = search[s].listed
    BY <1>1, <1>2, <1>4 DEF Load, Read, Fields
  <2> QED BY <1>1, <2>1
<1>5. ASSUME NEW found, AnnSearch(s, found)
      PROVE  IsInjective(search'[s].listed)
  <2>1. search'[s].listed = found /\ IsInjective(found)
    BY <1>1, <1>2, <1>5 DEF AnnSearch, Fields
  <2> QED BY <2>1
<1>6. ASSUME NEW ids, NEW ordered, NEW byLLM, Rank(s, ids, ordered, byLLM)
      PROVE  IsInjective(search'[s].listed)
  <2> DEFINE answer == FirstOf(ordered, search[s].query.topK)
             repeats == ~IsInjective(ids)
  <2>1. search'[s] = [search[s] EXCEPT !.answer = answer, !.repeats = repeats, !.asked = byLLM]
    BY <1>1, <1>6 DEF Rank
  <2> HIDE DEF answer, repeats
  <2>2. search'[s].listed = search[s].listed
    BY <1>2, <2>1 DEF Fields
  <2> QED BY <1>1, <2>2
<1>7. CASE CommitSearch(s)
  <2> DEFINE left == [NoLocals EXCEPT !.hit = search[s].hit, !.asked = search[s].asked]
  <2>1. left.listed = <<>>
    BY DEF NoLocals
  <2>2. search'[s] = left
    BY <1>1, <1>7 DEF CommitSearch
  <2> HIDE DEF left
  <2> QED BY <2>1, <2>2, EmptyDistinct
<1>8. CASE EmbedQuery(s) \/ Store(s)
  BY <1>1, <1>8 DEF EmbedQuery, Store
<1>9. CASE \/ RankNothing(s)
           \/ \E ids : RankByLLM(s, ids)
           \/ \E ordered : RankByCrossEncoder(s, ordered)
  BY <1>6, <1>9 DEF RankNothing, RankByLLM, RankByCrossEncoder
<1> QED BY <1>3, <1>4, <1>5, <1>7, <1>8, <1>9 DEF SearchStep

\* Every step keeps the lists distinct.
LEMMA DistinctStep ==
    ASSUME AnswerInv, [Next]_vars
    PROVE  Distinct'
<1>1. /\ TypeOK /\ Shape /\ Distinct /\ \A s \in Search : ListSound(s)
      /\ cache \in [Keys -> Seq(Content)] /\ search \in [Search -> Locals]
  BY DEF AnswerInv, ListInv, ExclusiveInv, TypeOK
<1>2. ASSUME NEW k \in Keys, NEW ids, IsInjective(ids), cache' = [cache EXCEPT ![k] = ids]
      PROVE  \A l \in Keys : IsInjective(cache'[l])
  BY <1>1, <1>2 DEF Distinct
<1>3. ASSUME NEW k \in Keys, Expire(k)
      PROVE  \A l \in Keys : IsInjective(cache'[l])
  BY <1>2, <1>3, EmptyDistinct DEF Expire
<1>4. ASSUME NEW s \in Search, Store(s)
      PROVE  \A l \in Keys : IsInjective(cache'[l])
  <2>1. search[s].candidates = search[s].listed /\ search[s].query \in Query
    BY <1>1, <1>4 DEF Store, ListSound
  <2>2. IsInjective(search[s].candidates) /\ Key(s) \in Keys
    BY <1>1, <2>1, KeysOfQueries DEF Distinct, Key
  <2> QED BY <1>2, <1>4, <2>2 DEF Store
<1>5. ASSUME NEW s \in Search
      PROVE  IsInjective(search'[s].listed)
  <2>1. s \in Actor /\ s \notin Ingestion /\ IsInjective(search[s].listed)
    BY <1>1, Apart DEF Actor, Distinct
  <2>2. ASSUME NEW a \in Actor, Step(a), a # s
        PROVE  IsInjective(search'[s].listed)
    BY <1>1, <2>1, <2>2, OwnSteps DEF Quiet
  <2>3. CASE RollBack(s)
    <3>1. search'[s] = NoLocals /\ NoLocals.listed = <<>>
      BY <1>1, <2>3 DEF RollBack, NoLocals
    <3> QED BY <3>1, EmptyDistinct
  <2>4. CASE Retry(s) \/ CallFails(s) \/ Fail(s) \/ World
    BY <2>1, <2>4 DEF Retry, CallFails, Fail, World, Expire, SetDeleted, vars
  <2> QED BY <1>1, <2>1, <2>2, <2>3, <2>4, OwnListDistinct, StepOrWorld DEF Step, CallStep
<1>6. \/ cache' = cache
      \/ \E k \in Keys : Expire(k)
      \/ \E s \in Search : Store(s)
  BY CacheEffect
<1>7. \A k \in Keys : IsInjective(cache'[k])
  BY <1>1, <1>3, <1>4, <1>6 DEF Distinct
<1> QED BY <1>5, <1>7 DEF Distinct

\* What a search answers after it has ranked its candidates.
LEMMA RankKeepsAnswer ==
    ASSUME TypeOK, NEW s \in Search, NEW ids, NEW ordered, NEW byLLM,
           Rank(s, ids, ordered, byLLM), IsInjective(search[s].candidates),
           Reorders(ordered, search[s].candidates, ids, Content)
    PROVE  AnswerKept(s)'
<1> DEFINE candidates == search[s].candidates
           k == search[s].query.topK
           answer == FirstOf(ordered, k)
           repeats == ~IsInjective(ids)
<1>1. search[s] \in Locals /\ search \in [Search -> Locals] /\ DOMAIN search[s] = Fields
  BY DEF TypeOK, Locals, Fields
<1>2. candidates \in Seq(Content) /\ k \in Nat
  BY <1>1, LocalsType
<1>3. search'[s] = [search[s] EXCEPT !.answer = answer, !.repeats = repeats, !.asked = byLLM]
  BY <1>1 DEF Rank
<1>4. /\ search'[s].answer = answer /\ search'[s].repeats = repeats
      /\ search'[s].query = search[s].query /\ search'[s].candidates = candidates
  <2> HIDE DEF answer, repeats
  <2> QED BY <1>1, <1>3 DEF Fields
<1>5. ordered \in Seq(Content) /\ Range(ordered) = Range(candidates)
  BY DEF Reorders
<1>6. /\ answer \in Seq(Content)
      /\ Len(answer) = IF k < Len(ordered) THEN k ELSE Len(ordered)
      /\ Range(answer) \subseteq Range(candidates)
      /\ IsInjective(ordered) => IsInjective(answer)
  BY <1>2, <1>5, FirstOfList
<1> HIDE DEF answer
<1>7. Len(answer) <= k
  BY <1>2, <1>5, <1>6
<1>8. ASSUME ~repeats
      PROVE  /\ IsInjective(answer) /\ answer = FirstOf(answer, Len(candidates))
             /\ Len(answer) \in {k, Len(candidates)}
  <2>1. IsInjective(ordered) /\ Len(ordered) = Len(candidates)
    BY <1>8 DEF Reorders
  <2>2. Len(candidates) \in Nat /\ Len(answer) <= Len(candidates)
    BY <1>2, <1>6, <2>1
  <2>3. answer = FirstOf(answer, Len(candidates))
    BY <1>6, <2>2, FirstOfList
  <2> QED BY <1>6, <2>1, <2>3
<1> HIDE DEF repeats
<1> QED BY <1>4, <1>6, <1>7, <1>8 DEF AnswerKept

\* Every step keeps the answers.
LEMMA AnswersStep ==
    ASSUME AnswerInv, [Next]_vars
    PROVE  AnswersKept'
<1> SUFFICES ASSUME NEW s \in Search, stage'[s] = "answered"
             PROVE  AnswerKept(s)'
  BY DEF AnswersKept
<1>1. /\ TypeOK /\ Shape /\ Distinct /\ ListSound(s) /\ stage \in [Actor -> Stage]
      /\ search[s] \in Locals /\ s \in Actor /\ s \notin Ingestion
      /\ stage[s] = "answered" => AnswerKept(s)
  BY Apart DEF AnswerInv, ListInv, ExclusiveInv, TypeOK, Actor, AnswersKept
<1>2. ASSUME search'[s] = search[s], stage'[s] = stage[s]
      PROVE  AnswerKept(s)'
  BY <1>1, <1>2 DEF AnswerKept
<1>3. ASSUME NEW a \in Actor, Step(a), a # s
      PROVE  AnswerKept(s)'
  BY <1>1, <1>2, <1>3, OwnSteps DEF Quiet
<1>4. CASE World
  BY <1>2, <1>4 DEF World, Expire, SetDeleted, vars
<1>5. CallStep(s) \/ Fail(s) => search'[s] = search[s] /\ stage'[s] = stage[s]
  BY <1>1 DEF CallStep, Retry, CallFails, RollBack, Fail, Goes
<1>6. stage[s] = "ranking" => IsInjective(search[s].candidates)
  BY <1>1 DEF ListSound, Distinct
<1>7. search[s].candidates \in Seq(Content)
  BY <1>1, LocalsType
<1>8. CASE RankNothing(s)
  <2>1. Rank(s, <<>>, <<>>, FALSE)
    BY <1>8, Zenon DEF RankNothing
  <2>2. Reorders(<<>>, search[s].candidates, <<>>, Content)
    BY <1>8, EmptyDistinct DEF RankNothing, Reorders
  <2>3. IsInjective(search[s].candidates)
    BY <1>6, <1>8 DEF RankNothing
  <2> QED BY <1>1, <2>1, <2>2, <2>3, RankKeepsAnswer
<1>9. ASSUME NEW ids \in ListsOf(Content \cup {Unknown}, MaxCandidates + 1), RankByLLM(s, ids)
      PROVE  AnswerKept(s)'
  <2>1. ids \in Seq(Content \cup {Unknown})
    BY Sizes, ListsAreSeqs
  <2>2. Reorders(ApplyOrder(search[s].candidates, ids), search[s].candidates, ids, Content)
    BY <1>7, <2>1, ApplyOrderReorders
  <2>3. /\ Rank(s, ids, ApplyOrder(search[s].candidates, ids), TRUE)
        /\ IsInjective(search[s].candidates)
    BY <1>6, <1>9 DEF RankByLLM
  <2> QED BY <1>1, <2>2, <2>3, RankKeepsAnswer
<1>10. ASSUME NEW ordered \in Permuted(search[s].candidates), RankByCrossEncoder(s, ordered)
       PROVE  AnswerKept(s)'
  <2>1. Reorders(ordered, search[s].candidates, <<>>, Content)
    BY <1>7, PermutedReorders
  <2>2. Rank(s, <<>>, ordered, FALSE) /\ IsInjective(search[s].candidates)
    BY <1>6, <1>10 DEF RankByCrossEncoder
  <2> QED BY <1>1, <2>1, <2>2, RankKeepsAnswer
<1>11. ~Load(s) /\ ~EmbedQuery(s) /\ (\A found : ~AnnSearch(s, found)) /\ ~Store(s)
       /\ ~CommitSearch(s) /\ \A q : ~Ask(s, q)
  BY <1>1 DEF Load, EmbedQuery, AnnSearch, Store, CommitSearch, Ask, Goes
<1> QED BY <1>1, <1>2, <1>3, <1>4, <1>5, <1>8, <1>9, <1>10, <1>11, StepOrWorld
        DEF Step, SearchStep

\* The invariant of the answers is inductive.
LEMMA AnswerInvStep == AnswerInv /\ [Next]_vars => AnswerInv'
<1> SUFFICES ASSUME AnswerInv, [Next]_vars PROVE AnswerInv'
  OBVIOUS
<1>1. TypeOK /\ Shape /\ ListInv
  BY DEF AnswerInv, ListInv, ExclusiveInv
<1> QED BY <1>1, TypeStep, ListInvStep, DistinctStep, AnswersStep DEF AnswerInv

--------------------------------------------------------------------------------
(***************************************************************************)
(* The theorems.                                                           *)
(***************************************************************************)

\* The invariants hold initially.
LEMMA InvInit == Init => CallInv /\ KeptInv /\ ListInv
<1> SUFFICES ASSUME Init PROVE CallInv /\ KeptInv /\ ListInv
  OBVIOUS
<1>1. \A g \in Ingestion : 1 \in 1 .. Len(RefsOf[g])
  <2> SUFFICES ASSUME NEW g \in Ingestion PROVE 1 \in 1 .. Len(RefsOf[g])
    OBVIOUS
  <2>1. RefsOf[g] \in Seq(Country) /\ RefsOf[g] # <<>>
    BY Refs
  <2> QED BY <2>1
<1>2. /\ documents \in [Content -> SourceDocument] /\ stage \in [Actor -> Stage]
      /\ ingest \in [Ingestion -> Progress] /\ open \in [Actor -> SUBSET LLMCallRecord]
  BY DEF Init, NoDocument, SourceDocument, Stage, Progress
<1>3. \A g \in Ingestion : ingest[g].ref = 1 /\ ingest[g].read = {}
  BY DEF Init
<1>4. {"hit", "asked"} \subseteq DOMAIN NoLocals
  BY DEF NoLocals
<1>5. Shape
  BY <1>1, <1>2, <1>3, <1>4 DEF Init, Shape
<1>6. \A a \in Actor : stage[a] = "idle" /\ open[a] = {}
  BY DEF Init
<1>7. Ingestion \subseteq Actor /\ Search \subseteq Actor /\ records = {}
  BY DEF Actor, Init
<1>8. OwnSuccesses /\ Embedded /\ Asked /\ Uncommitted
  BY <1>6, <1>7 DEF OwnSuccesses, Embedded, Asked, Uncommitted
<1>9. \A c \in Content : documents[c].state \notin Present
  BY DEF Init, NoDocument, Present
<1>10. CallsRecorded /\ FailuresLost
  BY <1>6, <1>7, <1>9 DEF CallsRecorded, FailuresLost
<1>11. Kept
  BY <1>3 DEF Kept
<1>12. Exclusive
  BY <1>6, <1>7 DEF Init, Exclusive
<1>13. CacheSound
  <2>1. \A q \in Query : CacheKey(q) \in Keys
    BY DEF Keys
  <2> QED BY <2>1 DEF Init, CacheSound, Pass, Range
<1>14. ASSUME NEW s \in Search
       PROVE  ListSound(s)
  <2>1. DOMAIN NoLocals = Fields /\ NoLocals.gone = FALSE
    BY DEF NoLocals, Fields
  <2> QED BY <1>6, <1>7, <2>1 DEF Init, ListSound
<1> QED BY <1>5, <1>8, <1>10, <1>11, <1>12, <1>13, <1>14
        DEF CallInv, KeptInv, ListInv, ExclusiveInv

\* The invariant of the records holds after every step.
LEMMA CallInvStep == CallInv /\ [Next]_vars => CallInv'
BY ShapeStep, OwnSuccessesStep, EmbeddedStep, AskedStep, UncommittedStep, CallsRecordedStep
   DEF CallInv

\* Every document and every finished search has the records of the calls that led to it
\* (_persist in the caller's session).
THEOREM CallsAreRecorded == Spec => []CallsRecorded
<1>1. Init => CallInv
  BY InvInit
<1>2. CallInv => CallsRecorded
  BY DEF CallInv
<1> QED BY <1>1, <1>2, CallInvStep, PTL DEF Spec

\* No record of a failed call is ever committed, nor one of an answered call of a search that
\* failed later (complete and embed raise again after _persist, and the caller's session is
\* rolled back): EveryCallRecorded fails whenever a call does.
THEOREM FailuresAreLost == Spec => []FailuresLost
<1>1. Init => CallInv
  BY InvInit
<1>2. CallInv => FailuresLost
  BY DEF CallInv
<1> QED BY <1>1, <1>2, CallInvStep, PTL DEF Spec

\* The invariant of the answers holds initially.
LEMMA AnswerInit == Init => AnswerInv
<1> SUFFICES ASSUME Init PROVE AnswerInv
  OBVIOUS
<1>1. documents \in [Content -> SourceDocument] /\ inserting \in [Content -> Ingestion \cup {None}]
  BY DEF Init, NoDocument, SourceDocument
<1>2. cache \in [Keys -> Seq(Content)] /\ \A k \in Keys : cache[k] = <<>>
  <2>1. <<>> \in Seq(Content)
    OBVIOUS
  <2> QED BY <2>1 DEF Init
<1>3. /\ stage \in [Actor -> Stage] /\ \A a \in Actor : stage[a] = "idle"
      /\ attempt \in [Actor -> 0 .. MaxRetries] /\ open \in [Actor -> SUBSET LLMCallRecord]
      /\ records \subseteq LLMCallRecord /\ ingest \in [Ingestion -> Progress]
  <2>1. 0 \in 0 .. MaxRetries
    BY Sizes
  <2> QED BY <2>1 DEF Init, Stage, Progress
<1>4. search \in [Search -> Locals] /\ \A s \in Search : search[s].listed = <<>>
  <2>1. NoLocals.listed = <<>>
    BY DEF NoLocals
  <2> QED BY <2>1, NoLocalsType DEF Init
<1>5. TypeOK
  BY <1>1, <1>2, <1>3, <1>4 DEF TypeOK
<1>6. Distinct
  BY <1>2, <1>4, EmptyDistinct DEF Distinct
<1>7. AnswersKept
  BY <1>3 DEF AnswersKept, Actor
<1> QED BY <1>5, <1>6, <1>7, InvInit DEF AnswerInv

\* Every variable keeps its type.
THEOREM TypeCorrect == Spec => []TypeOK
<1>1. AnswerInv => TypeOK
  BY DEF AnswerInv
<1> QED BY <1>1, AnswerInit, AnswerInvStep, PTL DEF Spec

\* A search answers with as many of its candidates as were asked for, and each once, however it
\* got and ranked them (search, _apply_order, _rerank_cross_encoder).
THEOREM AnswersAreSound == Spec => []AnswersSound
<1>1. AnswerInv => AnswersSound
  <2>1. AnswerInv => CandidatesSound
    BY DEF AnswerInv, ListInv, ListSound, Pass, CandidatesSound, CandidatesWhole
  <2> QED BY <2>1 DEF AnswerInv, AnswersKept, AnswersSound
<1> QED BY <1>1, AnswerInit, AnswerInvStep, PTL DEF Spec

\* An ingestion that is done has left in the library whatever it read, deleted or not
\* (upsert_document, one commit for each reference): the safety part of RunsEnd.
THEOREM WhatIsReadIsKept == Spec => []ReadsKept
<1>1. Init => KeptInv
  BY InvInit
<1>2. KeptInv /\ [Next]_vars => KeptInv'
  BY ShapeStep, KeptStep DEF KeptInv
<1>3. KeptInv => ReadsKept
  BY DEF KeptInv, Kept, ReadsKept, Finished
<1> QED BY <1>1, <1>2, <1>3, PTL DEF Spec

\* A search ranks whole lists: of passages that were not deleted when they were read and that
\* pass its filters, however old the list in the cache is (passage_search.search).
THEOREM CandidatesAreSound == Spec => []CandidatesSound
<1>1. Init => ListInv
  BY InvInit
<1>2. ListInv => CandidatesSound
  BY DEF ListInv, ListSound, Pass, CandidatesSound, CandidatesWhole
<1> QED BY <1>1, <1>2, ListInvStep, PTL DEF Spec

\* A row keeps the country it was inserted with: no second ingestion inserts it again
\* (upsert_document and the unique constraint).
THEOREM CountryIsKept == Spec => CountryKept
<1>1. Init => ExclusiveInv
  BY InvInit DEF ListInv
<1>2. ExclusiveInv /\ [Next]_vars => ExclusiveInv'
  BY ShapeStep, ExclusiveStep DEF ExclusiveInv
<1>3. ExclusiveInv /\ [Next]_vars =>
          \A c \in Content : documents[c].state \in Present =>
              documents'[c].country = documents[c].country
  BY RowKept DEF ExclusiveInv
<1> QED BY <1>1, <1>2, <1>3, PTL DEF Spec, CountryKept

--------------------------------------------------------------------------------
(***************************************************************************)
(* Nobody waits in a circle: what RunsEnd needs besides fairness.          *)
(***************************************************************************)

\* Who has a key has it for the reference it is at, and is about to commit or to roll back; so
\* an ingestion that waits for a key (stage "looked") has none that others wait for.
KeysHaveHolders ==
    \A c \in Content, g \in Ingestion :
        inserting[c] = g => ingest[g].content = c /\ stage[g] \in {"inserted", "failing"}

LEMMA KeysHaveHoldersStep ==
    ASSUME Shape, Exclusive, KeysHaveHolders, [Next]_vars
    PROVE  KeysHaveHolders'
<1> SUFFICES ASSUME NEW c \in Content, NEW g \in Ingestion, inserting'[c] = g
             PROVE  ingest'[g].content = c /\ stage'[g] \in {"inserted", "failing"}
  BY DEF KeysHaveHolders
<1>1. /\ g \in Actor /\ g \notin Search /\ g # None /\ stage \in [Actor -> Stage]
      /\ ingest \in [Ingestion -> Progress] /\ DOMAIN inserting = Content
      /\ inserting[c] = g => ingest[g].content = c /\ stage[g] \in {"inserted", "failing"}
  BY Apart, NoneIsNone DEF Actor, Shape, Exclusive, KeysHaveHolders
<1>2. ASSUME inserting[c] = g, stage'[g] = stage[g], ingest'[g] = ingest[g]
      PROVE  ingest'[g].content = c /\ stage'[g] \in {"inserted", "failing"}
  BY <1>1, <1>2
<1>3. ASSUME NEW a \in Actor, Step(a), a # g
      PROVE  inserting[c] = g
  <2>1. CASE a \in Ingestion /\ IngestStep(a)
    <3>1. CASE Insert(a)
      BY <1>1, <1>3, <3>1 DEF Insert
    <3>2. CASE CommitRef(a)
      BY <1>1, <3>2 DEF CommitRef
    <3>3. CASE ~Insert(a) /\ ~CommitRef(a)
      BY <2>1, <3>3 DEF IngestStep, StartIngest, Fetch, FetchNothing, EmbedPassages, Refresh,
                        LookUp, Upsert, Conflict
    <3> QED BY <3>1, <3>2, <3>3
  <2>2. CASE SearchStep(a) \/ \E q \in Query : Ask(a, q)
    BY <2>2 DEF SearchStep, Ask, Load, EmbedQuery, AnnSearch, Store, RankNothing, RankByLLM,
                RankByCrossEncoder, Rank, CommitSearch
  <2>3. CASE RollBack(a)
    BY <1>1, <2>3 DEF RollBack
  <2>4. CASE Retry(a) \/ CallFails(a) \/ Fail(a)
    BY <2>4 DEF Retry, CallFails, Fail
  <2> QED BY <1>3, <2>1, <2>2, <2>3, <2>4 DEF Step, CallStep
<1>4. ASSUME NEW a \in Actor, Step(a), a # g
      PROVE  ingest'[g].content = c /\ stage'[g] \in {"inserted", "failing"}
  BY <1>1, <1>2, <1>3, <1>4, OwnSteps DEF Quiet
<1>5. CASE IngestStep(g)
  <2>1. CASE Insert(g)
    <3>1. ingest' = ingest /\ stage'[g] = "inserted"
      BY <1>1, <2>1 DEF Insert, Goes
    <3>2. inserting[c] # g
      BY <1>1, <2>1 DEF Insert
    <3>3. ingest[g].content = c
      BY <1>1, <2>1, <3>2 DEF Insert
    <3> QED BY <3>1, <3>3
  <2>2. CASE CommitRef(g)
    <3>1. inserting[c] = g
      BY <1>1, <2>2 DEF CommitRef
    <3> QED BY <1>1, <2>2, <3>1 DEF CommitRef
  <2>3. CASE ~Insert(g) /\ ~CommitRef(g)
    <3>1. inserting[c] = g /\ stage[g] \notin {"inserted", "failing"}
      BY <1>5, <2>3 DEF IngestStep, StartIngest, Fetch, FetchNothing, EmbedPassages, Refresh,
                        LookUp, Upsert, Conflict
    <3> QED BY <1>1, <3>1
  <2> QED BY <2>1, <2>2, <2>3
<1>6. CASE CallStep(g) \/ Fail(g)
  <2>1. ~RollBack(g)
    BY <1>1 DEF RollBack
  <2>2. inserting[c] = g /\ ingest' = ingest
    BY <1>6, <2>1 DEF CallStep, Retry, CallFails, Fail
  <2>3. stage[g] # "embedding" /\ stage[g] # "ranking"
    BY <1>1, <2>2
  <2>4. Fail(g)
    BY <1>6, <2>1, <2>3 DEF CallStep, Retry, CallFails, Calling
  <2> QED BY <1>1, <2>2, <2>4 DEF Fail, Goes
<1>7. CASE World
  <2>1. inserting' = inserting
    BY <1>7 DEF World, Expire, SetDeleted, vars
  <2> QED BY <1>2, <1>7, <2>1, WorldEffect
<1> QED BY <1>1, <1>4, <1>5, <1>6, <1>7, StepOrWorld DEF Step

\* No ingestion keeps a key while it waits for another, however many run at once and whatever
\* they meet (one commit for each reference): the safety part of RunsEnd.
THEOREM NobodyWaitsInACircle == Spec => []KeysHaveHolders
<1>1. Init => ExclusiveInv /\ KeysHaveHolders
  <2>1. Init => KeysHaveHolders
    BY NoneIsNone DEF Init, KeysHaveHolders
  <2> QED BY <2>1, InvInit DEF ListInv
<1>2. ExclusiveInv /\ KeysHaveHolders /\ [Next]_vars => ExclusiveInv' /\ KeysHaveHolders'
  BY ShapeStep, ExclusiveStep, KeysHaveHoldersStep DEF ExclusiveInv
<1> QED BY <1>1, <1>2, PTL DEF Spec

================================================================================
