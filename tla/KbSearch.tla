------------------------------ MODULE KbSearch ------------------------------
(* One search of one knowledge base (services/knowledge_search.py): the pipeline
   of retrieval, source floor, enrichment metadata, reranker and per-source
   limits, the tree search beside it, the expansion of a graph index after it,
   and what each step charges. *)
EXTENDS Integers, Sequences, SequencesExt, FiniteSetsExt

CONSTANTS Items,   \* 1..n, in the order of their similarity to the query
          Sources,
          Worlds,  \* what is indexed: [source, refs, parent, gone]
          None

VARIABLES world, ask, at,
          pool,    \* the results so far
          main,    \* what the retrieval itself matched
          funds,   \* the balance covers one more operation
          charged, done \* the actions charged; the operations that answered
vars == <<world, ask, at, pool, main, funds, charged, done>>

\* Items are numbered, and a world has of each its document, what it refers to and what it lies in.
SearchAssumption == /\ IsFiniteSet(Items) /\ Items = 1..Cardinality(Items) /\ IsFiniteSet(Sources)
                    /\ Worlds \subseteq [source : [Items -> Sources], refs : [Items -> SUBSET Items],
                                        parent : [Items -> Items \union {None}], gone : SUBSET Items]

Scale == 10
Similarity(i) == Scale * (Cardinality(Items) + 1 - i)
\* Keyword and fused scores are on a scale of their own, here a smaller one.
Fused(i) == i
Methods == {"vector_search", "hybrid", "tree_search"}
Asks == [method : Methods, graph : BOOLEAN, reranker : BOOLEAN, min : 0..1, max : 0..1, top : 1..2,
         threshold : {0, 2 * Scale}, sources : SUBSET Sources \ {{}}, query : {"plain", "enriched"}, enriched : BOOLEAN, async : BOOLEAN]
Row(i, s, kind) == [id |-> i, score |-> s, kind |-> kind]
\* A set in an order that tells its elements apart: the n-th has n - 1 before it.
Sorted(set, Before(_, _)) == [n \in 1..Cardinality(set) |-> CHOOSE x \in set : Cardinality({y \in set : Before(y, x)}) = n - 1]
Best(set, score(_)) == Sorted(set, LAMBDA a, b : score(a) > score(b))
\* Those of the rows that are kept, in the order they are in.
Those(rows, Keep(_)) == LET kept == Sorted({n \in DOMAIN rows : Keep(rows[n])}, <) IN [n \in DOMAIN kept |-> rows[kept[n]]]
Ids(rows) == {r.id : r \in ToSet(rows)}
\* An outline is the row of its document's first selected section, negated.
SourceOf(r) == world.source[IF r.id < 0 THEN -r.id ELSE r.id]
Allowed(i) == world.source[i] \in ask.sources
Limited == ask.min > 0 \/ ask.max > 0
Minimum(set) == IF set = {} THEN 0 ELSE Min(set)

Init == /\ world \in Worlds /\ at = "ask" /\ pool = <<>> /\ main = <<>> /\ funds \in BOOLEAN /\ charged = {} /\ done = {}
        /\ ask = [method |-> "vector_search", graph |-> FALSE, reranker |-> FALSE, min |-> 0, max |-> 0, top |-> 1,
                  threshold |-> 0, sources |-> Sources, query |-> "plain", enriched |-> FALSE, async |-> FALSE]

Goes(to) == at' = to /\ UNCHANGED <<world, ask>>
Raises == at' = "raised" /\ pool' = <<>> /\ UNCHANGED <<world, ask, main, funds, charged>>
\* check_balance, then the operation, then its charge, under (action, run).
Checks(to) == IF funds THEN Goes(to) /\ UNCHANGED <<pool, main, funds, charged, done>> ELSE Raises /\ UNCHANGED done
Charge(action) == charged' = charged \union {action}

-----------------------------------------------------------------------------
Ask == /\ at = "ask" /\ ask' \in Asks /\ (ask'.graph => ask'.method # "tree_search" /\ ask'.threshold = 0)
       \* Bounds: what does not meet in the pipeline is asked one at a time.
       /\ (ask'.async => ask'.sources = Sources /\ ask'.threshold = 0)
       /\ (ask'.query = "enriched" => ~ask'.reranker /\ ~ask'.enriched /\ ask'.min = 0 /\ ask'.max = 0)
       /\ (ask'.enriched => ask'.max = 0)
       /\ at' = (IF ask'.query = "enriched" THEN "query" ELSE "count")
       /\ UNCHANGED <<world, pool, main, funds, charged, done>>
\* Unknown, or a method its strategy does not have.
Refused == at = "ask" /\ Raises /\ UNCHANGED done
\* A model that fails, or a charge that does, leaves the query as it was asked.
EnrichQuery == /\ at = "query"
               /\ \/ ~funds /\ Raises /\ UNCHANGED done
                  \/ /\ funds /\ Goes("count") /\ UNCHANGED <<pool, main, funds>>
                     /\ \/ Charge("query_enrichment") /\ done' = done \union {"query_enrichment"}
                        \/ UNCHANGED <<charged, done>>
Count == /\ at = "count"
         /\ \/ Items # {} /\ Goes(IF ask.method = "tree_search" THEN "tree" ELSE "primary") /\ UNCHANGED <<pool, main, funds, charged, done>>
            \/ Raises /\ UNCHANGED done           \* nothing is indexed yet

CheckPrimary == at = "primary" /\ Checks("retrieve")
FetchCount == IF ask.reranker THEN 3 ELSE IF Limited THEN 5 * ask.top ELSE ask.top
ScoreOf(i) == IF ask.method = "vector_search" THEN Similarity(i) ELSE Fused(i)
Retrieve == /\ at = "retrieve"
            /\ \/ \E hits \in SUBSET {i \in Items : Allowed(i)} :
                     /\ Cardinality(hits) <= FetchCount
                     /\ LET best == Best(hits, ScoreOf) IN pool' = [n \in DOMAIN best |-> Row(best[n], ScoreOf(best[n]), "match")]
                     /\ Goes("floor") /\ Charge(ask.method) /\ done' = done \union {ask.method} /\ UNCHANGED <<main, funds>>
               \/ Raises /\ UNCHANGED done

\* The threshold is a similarity's: only vector_search compares with it.
Kept == IF ask.method = "vector_search" THEN Those(pool, LAMBDA r : r.score >= ask.threshold) ELSE pool
\* The best of every allowed source over the threshold, whatever the pool holds of it.
Floor == {i \in Items : /\ Allowed(i) /\ Similarity(i) >= ask.threshold
                        /\ ask.min > Cardinality({j \in Items : j < i /\ world.source[j] = world.source[i]})}
Merged(rows, floor) == LET best == Best(floor, Similarity)
                           least == Minimum({r.score : r \in ToSet(rows)})
                       IN rows \o [n \in DOMAIN best |-> Row(best[n], IF ask.method = "vector_search" THEN Similarity(best[n]) ELSE least - n, "floor")]
MergeFloor == /\ at = "floor" /\ main' = Kept /\ Goes("metadata") /\ UNCHANGED <<funds, charged>>
              /\ \/ ask.min > 0 /\ pool' = Merged(Kept, Floor \ Ids(Kept)) /\ done' = done \union {"floor"}
                 \/ pool' = Kept /\ UNCHANGED done            \* no floor, or its embedding failed

AfterMetadata == IF ask.method = "tree_search" THEN "done" ELSE "rerank"
AttachMetadata == /\ at = "metadata"
                  /\ \/ ask.enriched /\ pool # <<>> /\ Checks("attached")
                     \/ (~ask.enriched \/ pool = <<>>)
                        /\ Goes(AfterMetadata) /\ UNCHANGED <<pool, main, funds, charged, done>>
ChargeMetadata == at = "attached" /\ Goes(AfterMetadata) /\ Charge("metadata") /\ done' = done \union {"metadata"} /\ UNCHANGED <<pool, main, funds>>

CheckReranker == /\ at = "rerank"
                 /\ IF ask.reranker /\ pool # <<>> THEN Checks("reranking")
                    ELSE Goes("limits") /\ UNCHANGED <<pool, main, funds, charged, done>>
\* Mutant: the reranker cuts to what was asked for.
RerankTopAsked == ask.top
RerankTop == IF Limited THEN Len(pool) ELSE ask.top
FirstOf(rows, n) == SubSeq(rows, 1, Min({n, Len(rows)}))
\* It answers in an order of its own; where it fails the pool is cut and it is charged all the same.
Rerank == /\ at = "reranking" /\ Goes("limits") /\ Charge("reranker") /\ UNCHANGED <<main, funds>>
          /\ \/ \E order \in SetToSeqs(ToSet(pool)) :
                  /\ pool' = FirstOf([n \in 1..Len(order) |-> [order[n] EXCEPT !.score = Scale * (2 - n)]], RerankTop)
                  /\ done' = done \union {"reranker"}
             \/ pool' = FirstOf(pool, RerankTop) /\ UNCHANGED done

\* apply_source_limits: each source's first min, then the best of the rest, at most max of one source.
Reserved(rows) == {r \in rows : ask.min > Cardinality({q \in rows : SourceOf(q) = SourceOf(r) /\ q.score > r.score})}
Capped(rows) == {r \in rows : ask.max = 0 \/ ask.max > Cardinality({q \in rows : SourceOf(q) = SourceOf(r) /\ q.score > r.score})}
ByScore(rows) == Best(rows, LAMBDA r : r.score)
Cut(rows) == LET kept == FirstOf(ByScore(Reserved(Capped(rows))) \o ByScore(Capped(rows) \ Reserved(Capped(rows))), ask.top)
             IN ByScore(ToSet(kept))
ApplyLimits == /\ at = "limits" /\ pool' = Cut(ToSet(pool)) /\ Goes(IF ask.graph THEN "expand" ELSE "done")
               /\ UNCHANGED <<main, funds, charged, done>>

-----------------------------------------------------------------------------
(* The expansion of a graph index: sections the hits refer to, and their children. *)
MaxReferenced == 2
MaxChildren == 1
Referenced == {i \in Items : i \notin Ids(pool) /\ \E r \in ToSet(pool) : i \in world.refs[r.id]}
Hits(i) == {r \in ToSet(pool) : i \in world.refs[r.id]}
Consensus(a, b) == \/ Cardinality(Hits(a)) > Cardinality(Hits(b))
                   \/ /\ Cardinality(Hits(a)) = Cardinality(Hits(b))
                      /\ LET p == Max({r.score : r \in Hits(a)}) q == Max({r.score : r \in Hits(b)}) IN p > q \/ (p = q /\ a < b)
Selected == Those(FirstOf(Sorted(Referenced, Consensus), MaxReferenced), LAMBDA i : i \notin world.gone)
\* The first children of each selected section, none that is there already; no child has two parents.
Children(parents, there) ==
    LET new(p) == {i \in Items : world.parent[i] = p /\ i \notin there}
    IN UNION {{i \in new(p) : MaxChildren > Cardinality({j \in new(p) : j < i})} : p \in ToSet(parents)}
Below == Minimum({r.score : r \in ToSet(pool)})
\* The outlines of their documents, read in a savepoint: none where that fails.
Outlines == LET added == ToSet(Selected)
                first(s) == {i \in added : world.source[i] = s /\ \A j \in added : world.source[j] = s => i <= j}
            IN Sorted(UNION {first(s) : s \in Sources}, <)
Expanded(outlines) ==
    LET added == Selected
        children == Sorted(Children(added, Ids(pool) \union ToSet(added)), <)
    IN pool \o [n \in DOMAIN outlines |-> Row(-outlines[n], Below - 1, "outline")]
            \o [n \in DOMAIN added |-> Row(added[n], Below - 2, "neighbour")]
            \o [n \in DOMAIN children |-> Row(children[n], Below - 3, "child")]
ExpandGraph == at = "expand" /\ pool' \in {Expanded(Outlines), Expanded(<<>>)} /\ Goes("allowed") /\ UNCHANGED <<main, funds, charged, done>>
AfterExpansion == at = "allowed" /\ pool' = Those(pool, LAMBDA r : SourceOf(r) \in ask.sources) /\ Goes("done") /\ UNCHANGED <<main, funds, charged, done>>

-----------------------------------------------------------------------------
(* The tree search: a model picks documents and sections; rows that went are skipped. *)
CheckTree == at = "tree" /\ Checks("select")
\* _run_tree_search_phases: documents first, where there are several, then the sections of each.
Picked == {hits \in SUBSET {i \in Items : Allowed(i)} : Cardinality(hits) <= FetchCount}
SelectNodes == /\ at = "select"
               /\ \/ \E hits \in Picked :
                        /\ pool' = Cut({Row(i, Similarity(i), "match") : i \in hits \ world.gone})
                        /\ main' = pool' /\ Goes("metadata") /\ Charge("tree_search") /\ done' = done \union {"tree_search"} /\ UNCHANGED funds
                  \/ Raises /\ UNCHANGED done

\* Other runs spend, and top up.
Spent == at \notin {"ask", "done", "raised"} /\ funds /\ funds' = FALSE /\ UNCHANGED <<world, ask, at, pool, main, charged, done>>

Search == \/ EnrichQuery \/ Count \/ CheckPrimary \/ Retrieve \/ MergeFloor \/ AttachMetadata \/ ChargeMetadata
          \/ CheckReranker \/ Rerank \/ ApplyLimits \/ ExpandGraph \/ AfterExpansion \/ CheckTree \/ SelectNodes

-----------------------------------------------------------------------------
(* search_knowledge_base_async, for a caller inside an event loop: a second text
   of the same steps, which awaits the store instead of running a loop for it. *)
AsyncQuery == EnrichQuery
AsyncCount == Count
AsyncRetrieve == Retrieve
AsyncFloor == MergeFloor
AsyncPipeline == CheckPrimary \/ AsyncRetrieve \/ AsyncFloor \/ AttachMetadata \/ ChargeMetadata \/ CheckReranker \/ Rerank \/ ApplyLimits
AsyncGraph == ExpandGraph \/ AfterExpansion
AsyncTree == CheckTree \/ SelectNodes
AsyncSearch == AsyncQuery \/ AsyncCount \/ AsyncPipeline \/ AsyncGraph \/ AsyncTree

Next == \/ Ask \/ Refused \/ Spent
        \/ ~ask.async /\ Search
        \/ ask.async /\ AsyncSearch
Spec == Init /\ [][Next]_vars

-----------------------------------------------------------------------------
Answered == at = "done"
(* A source the caller allowed that has a match over the threshold is in the
   answer, if there is room for one of each, whatever else outranks it: the
   floor's rows survive the merge, the reranker and the cut. *)
FloorKept == (Answered /\ ask.min > 0 /\ "floor" \in done /\ Cardinality(ask.sources) <= ask.top) =>
                \A s \in {world.source[i] : i \in Floor} : \E r \in ToSet(pool) : SourceOf(r) = s
(* A row of the floor takes no more than its source's guarantee: where nothing
   reranked the pool, no second row of a source comes in on a similarity
   before a match that the keyword or fused ranking found. *)
FloorOnlyFills == (Answered /\ ~ask.reranker /\ ask.method = "hybrid") =>
                \A f \in ToSet(pool) : f.kind = "floor" =>
                    \A m \in ToSet(main) : m \in ToSet(pool) \/ SourceOf(m) \in {SourceOf(r) : r \in ToSet(pool)}
(* What a graph index adds ranks below every match, and no section comes twice,
   as a match and a neighbour or as the neighbour and the child of two. *)
ExpandedApart == /\ \A n, k \in 1..Len(pool) : n # k => pool[n].id # pool[k].id
                 /\ \A n, k \in 1..Len(pool) : (pool[n].kind \in {"match", "floor"} /\ pool[k].kind \in {"outline", "neighbour", "child"}) => pool[k].score < pool[n].score
(* An answer was charged for, and nothing but the reranker is charged before it answered. *)
PaidAnswer == (Answered => ask.method \in charged) /\ charged \subseteq done \union {"reranker"}
(* "Post a charge after a retrieval sub-op succeeded": the reranker's too. *)
ChargedSucceeded == charged \subseteq done
=============================================================================
