------------------------------ MODULE ToolCalls ------------------------------
(* The tool calls a model asks for in one turn of a run, made side by side
   (services/tool_registry.py): knowledge searches over several knowledge bases
   (services/context_handler.py), built-in tools and tools of MCP servers; the
   citation keys they share (services/citation_registry.py), what each is
   charged under (services/run_context.py), and what the run keeps of them. *)
EXTENDS Naturals, Sequences, SequencesExt, FiniteSetsExt

CONSTANTS Calls, \* in the order the model asked for them, 1..n
          Kbs,
          Args   \* the arguments of a tool that is not a search

VARIABLES ask,      \* [call -> what it is]
          at,       \* [call -> the step it is at]
          session,  \* [call -> the state of its own database session]
          out,      \* [call -> what each of its knowledge bases gave]
          items,    \* [call -> the knowledge bases whose items it has]
          labels,   \* [call -> the citation keys of its items]
          status, told, \* [call -> the status recorded, and whether the model is told of an error]
          registry, \* the citation units of the run, each a call and the number of its item; a unit's key is its place
          seqs, key, charged, \* the counters of the run, each call's key, what was charged
          handlers, \* the context_handler_created events, in the order they came
          kept      \* [call -> what the run keeps of its images]
vars == <<ask, at, session, out, items, labels, status, told, registry, seqs, key, charged, handlers, kept>>
money == <<seqs, key, charged>>
search == <<session, out, items>>
answer == <<status, told>>
loop == <<registry, handlers, kept>>

Kinds == {"search", "builtin", "mcp"}
Asks == {a \in [kind : Kinds, kbs : SUBSET Kbs, args : Args, images : BOOLEAN, enrich : BOOLEAN] :
           /\ a.kind # "search" => a.kbs = {} /\ ~a.images /\ ~a.enrich
           /\ a.kind = "search" => a.kbs # {} /\ ~(a.images /\ a.enrich) /\ a.args = CHOOSE x \in Args : TRUE}
Idle == [kind |-> "search", kbs |-> {}, args |-> CHOOSE x \in Args : TRUE, images |-> FALSE, enrich |-> FALSE]
Init == /\ ask = [c \in Calls |-> Idle] /\ at = [c \in Calls |-> "idle"] /\ session = [c \in Calls |-> "open"]
        /\ out = [c \in Calls |-> [k \in Kbs |-> "none"]] /\ items = [c \in Calls |-> {}] /\ labels = [c \in Calls |-> <<>>]
        /\ status = [c \in Calls |-> "none"] /\ told = [c \in Calls |-> FALSE]
        /\ registry = <<>> /\ seqs = [a \in Args |-> 0] /\ key = [c \in Calls |-> <<>>] /\ charged = {}
        /\ handlers = <<>> /\ kept = [c \in Calls |-> "none"]

Goes(c, to) == at' = [at EXCEPT ![c] = to] /\ UNCHANGED ask
\* The loop turns an exception into a result that says so.
Fails(c) == Goes(c, "failed")
Ended(c) == at[c] \in {"returned", "failed"}

-----------------------------------------------------------------------------
(* The keys of citations: context that was fetched before the run comes first. *)
Seed == /\ \A c \in Calls : at[c] = "idle"
        /\ registry = <<>> /\ registry' = <<<<0, 1>>>>
        /\ UNCHANGED <<ask, at, labels, handlers, kept>> /\ UNCHANGED search /\ UNCHANGED answer /\ UNCHANGED money
First == Len(registry) + 1
\* register_many: one batch under the lock, so its keys are contiguous.
RegisterMany(c, units) == /\ registry' = registry \o units
                          /\ labels' = [labels EXCEPT ![c] = [n \in 1..Len(units) |-> First + n - 1]]

\* The agent loop starts every call of the turn at once.
Start == /\ \A c \in Calls : at[c] = "idle"
         /\ ask' \in [Calls -> Asks]
         /\ at' = [c \in Calls |-> IF ask'[c].kind = "search" THEN "configs" ELSE "key"]
         /\ UNCHANGED <<labels>> /\ UNCHANGED search /\ UNCHANGED answer /\ UNCHANGED money /\ UNCHANGED loop

-----------------------------------------------------------------------------
(* A knowledge search: its configurations and its query, in the call's session. *)
\* One of the knowledge bases is set to enrich, and not only by tokens.
Enriches(c) == ask[c].enrich
LoadConfigs(c) == /\ at[c] = "configs"
                  /\ (Goes(c, IF Enriches(c) THEN "query" ELSE "search") \/ Fails(c))
                  /\ UNCHANGED <<labels>> /\ UNCHANGED search /\ UNCHANGED answer /\ UNCHANGED money /\ UNCHANGED loop
\* Once for all of them, if one asks for it; a balance that is spent fails the call.
EnrichQuery(c) == /\ at[c] = "query" /\ (Goes(c, "search") \/ Fails(c))
                  /\ UNCHANGED <<labels>> /\ UNCHANGED search /\ UNCHANGED answer /\ UNCHANGED money /\ UNCHANGED loop
Outcomes == {"items", "empty", "error", "database error"}
Single(c) == Cardinality(ask[c].kbs) = 1
\* An error is collected, or the items are.
Collect(c, k, outcome) == /\ out' = [out EXCEPT ![c][k] = outcome]
                          /\ items' = (IF outcome = "items" THEN [items EXCEPT ![c] = @ \union {k}] ELSE items)
Aborts(c, outcome) == session' = (IF outcome = "database error" THEN [session EXCEPT ![c] = "aborted"] ELSE session)
\* One knowledge base is searched in the call's own session.
SearchSingle(c) == /\ at[c] = "search" /\ Single(c) /\ Goes(c, "metadata")
                   /\ \E k \in ask[c].kbs, outcome \in Outcomes : Collect(c, k, outcome) /\ Aborts(c, outcome)
                   /\ UNCHANGED <<labels>> /\ UNCHANGED answer /\ UNCHANGED money /\ UNCHANGED loop
\* Mutant: the threads share the session of the call.
SharesSession(c, outcome) == Aborts(c, outcome)
OwnSession(c, outcome) == UNCHANGED session
\* Several are searched in threads, and never raise: they are collected as they end.
SearchThread(c) ==
    /\ at[c] = "search" /\ ~Single(c) /\ UNCHANGED labels
    /\ \E k \in ask[c].kbs, outcome \in Outcomes :
          out[c][k] = "none" /\ Collect(c, k, outcome) /\ OwnSession(c, outcome)
    /\ IF \A k \in ask[c].kbs : out'[c][k] # "none" THEN Goes(c, "metadata") ELSE UNCHANGED <<ask, at>>
    /\ UNCHANGED answer /\ UNCHANGED money /\ UNCHANGED loop
\* The sources' names, in the call's session; without items nothing is read.
FetchMetadata(c) == /\ at[c] = "metadata"
                    /\ IF items[c] # {} /\ session[c] = "aborted" THEN Fails(c) ELSE Goes(c, "label")
                    /\ UNCHANGED <<labels>> /\ UNCHANGED search /\ UNCHANGED answer /\ UNCHANGED money /\ UNCHANGED loop
Units(c) == [n \in 1..Cardinality(items[c]) |-> <<c, n>>]
Errors(c) == {k \in ask[c].kbs : out[c][k] \in {"error", "database error"}}
\* Failed only where nothing came, and that because a knowledge base failed.
StatusOf(c) == IF items[c] = {} /\ Errors(c) # {} THEN "failed" ELSE "completed"
Label(c) == /\ at[c] = "label" /\ Goes(c, "persist") /\ status' = [status EXCEPT ![c] = StatusOf(c)]
            /\ IF items[c] = {} THEN UNCHANGED <<registry, labels>> ELSE RegisterMany(c, Units(c))
            /\ UNCHANGED <<told, handlers, kept>> /\ UNCHANGED search /\ UNCHANGED money
\* The handler is inserted and committed in the session of the call, which is closed.
Noted(c) == Errors(c) # {}
Persist(c) == /\ at[c] = "persist"
              /\ IF session[c] = "aborted" THEN Fails(c) /\ UNCHANGED <<told, handlers>>
                 ELSE Goes(c, "returned") /\ told' = [told EXCEPT ![c] = Noted(c)] /\ handlers' = Append(handlers, c)
              /\ session' = [session EXCEPT ![c] = "closed"]
              /\ UNCHANGED <<labels, out, items, status, registry, kept>> /\ UNCHANGED money

-----------------------------------------------------------------------------
(* The other tools: a key, the balance, the tool itself, the charge. *)
\* Mutant: the counter is read and not stepped.
NextSeqUnstepped(a) == UNCHANGED seqs
NextSeq(a) == seqs' = [seqs EXCEPT ![a] = @ + 1]
\* The run, the action, the arguments and the call's number among those like it.
DeriveKey(c) == /\ at[c] = "key" /\ Goes(c, "balance") /\ NextSeq(ask[c].args)
                /\ key' = [key EXCEPT ![c] = <<ask[c].kind, ask[c].args, seqs'[ask[c].args]>>]
                /\ UNCHANGED <<labels, charged>> /\ UNCHANGED search /\ UNCHANGED answer /\ UNCHANGED loop
CheckBalance(c) == /\ at[c] = "balance" /\ (Goes(c, "run") \/ Fails(c))
                   /\ UNCHANGED <<labels>> /\ UNCHANGED search /\ UNCHANGED answer /\ UNCHANGED money /\ UNCHANGED loop
Charge(c) == charged' = charged \union {<<c, key[c]>>}
\* A result that is the platform's own failure is marked; the mark is taken off, and it is not charged.
NotCharged(c) == UNCHANGED charged
RunBuiltin(c) == /\ at[c] = "run" /\ ask[c].kind = "builtin" /\ UNCHANGED <<labels, told, seqs, key>> /\ UNCHANGED search /\ UNCHANGED loop
                 /\ \/ Goes(c, "returned") /\ Charge(c) /\ status' = [status EXCEPT ![c] = "completed"]
                    \/ Goes(c, "returned") /\ NotCharged(c) /\ status' = [status EXCEPT ![c] = "platform error"]
                    \/ Fails(c) /\ UNCHANGED <<status, charged>>
\* An MCP server's answer is charged, whatever it says, before it is cited.
RunMcp(c) == /\ at[c] = "run" /\ ask[c].kind = "mcp" /\ UNCHANGED <<labels, told, seqs, key>> /\ UNCHANGED search /\ UNCHANGED loop
             /\ \/ \E s \in {"items", "raw", "empty"} : Goes(c, "cite") /\ Charge(c) /\ status' = [status EXCEPT ![c] = s]
                \/ Fails(c) /\ UNCHANGED <<status, charged>>
\* Each of its items is a unit, or the call is; an empty answer or an error is none.
KeyItems(c) == status[c] = "items" /\ RegisterMany(c, <<<<c, 1>>, <<c, 2>>>>)
KeyResult(c) == status[c] = "raw" /\ RegisterMany(c, <<<<c, 1>>>>)
KeyNothing(c) == status[c] = "empty" /\ UNCHANGED <<registry, labels>>
Cite(c) == /\ at[c] = "cite" /\ Goes(c, "returned") /\ (KeyItems(c) \/ KeyResult(c) \/ KeyNothing(c))
           /\ UNCHANGED <<handlers, kept>> /\ UNCHANGED search /\ UNCHANGED answer /\ UNCHANGED money

-----------------------------------------------------------------------------
(* The run is kept: the images in a search's result by their paths in storage,
   which the handlers hold in the order they were made. *)
IsList(c) == at[c] = "returned" /\ ask[c].kind = "search" /\ ask[c].images /\ items[c] # {}
\* The n-th search that returned images takes the references of the n-th handler.
RefsFor(c) == LET n == Cardinality({d \in Calls : d <= c /\ IsList(d)}) IN IF n <= Len(handlers) THEN handlers[n] ELSE 0
KeepRun == /\ \A c \in Calls : Ended(c) /\ kept[c] = "none"
           /\ kept' = [c \in Calls |-> IF ~IsList(c) THEN "text" ELSE IF RefsFor(c) = c THEN "reference"
                                       ELSE IF RefsFor(c) # 0 /\ IsList(RefsFor(c)) THEN "other" ELSE "data"]
           /\ UNCHANGED <<ask, at, labels, registry, handlers>> /\ UNCHANGED search /\ UNCHANGED answer /\ UNCHANGED money
\* Read back: a path is an image again, or a text where storage does not give it.
Resolve == /\ \E c \in Calls : kept[c] = "reference"
           /\ kept' = [c \in Calls |-> IF kept[c] = "reference" THEN "shown" ELSE kept[c]]
           /\ UNCHANGED <<ask, at, labels, registry, handlers>> /\ UNCHANGED search /\ UNCHANGED answer /\ UNCHANGED money

Call(c) == \/ LoadConfigs(c) \/ EnrichQuery(c) \/ SearchSingle(c) \/ SearchThread(c) \/ FetchMetadata(c) \/ Label(c)
           \/ Persist(c) \/ DeriveKey(c) \/ CheckBalance(c) \/ RunBuiltin(c) \/ RunMcp(c) \/ Cite(c)
Next == Seed \/ Start \/ KeepRun \/ Resolve \/ \E c \in Calls : Call(c)
Spec == Init /\ [][Next]_vars

-----------------------------------------------------------------------------
(* No two calls cite under one key, and each key is the place of its own unit,
   whatever order the calls register in. *)
KeysOwn == \A c \in Calls : \A n \in 1..Len(labels[c]) : labels[c][n] \in 1..Len(registry) /\ registry[labels[c][n]] = <<c, n>>
(* "Without losing partial successes": a search over several knowledge bases
   that was begun returns what answered, whichever of the others failed, and
   is recorded. *)
PartialKept == \A c \in Calls : (ask[c].kind = "search" /\ ~Single(c) /\ at[c] \notin {"idle", "configs", "query", "search"} /\ items[c] # {}) =>
                  at[c] # "failed" /\ items[c] = {k \in ask[c].kbs : out[c][k] = "items"}
(* The model is told when a knowledge base failed, and only then, though others answered. *)
FailureTold == \A c \in Calls : (at[c] = "returned" /\ ask[c].kind = "search") =>
                  (told[c] <=> \E k \in Kbs : out[c][k] \in {"error", "database error"})
(* Each call that is charged is charged under a key of its own, though another had
   the same arguments, and a failure of the platform's is not charged. *)
ChargedApart == /\ \A p, q \in charged : p[2] = q[2] => p[1] = q[1]
                /\ \A p \in charged : status[p[1]] # "platform error"
\* Both: calls that overlap are cited and charged apart.
CallsAreApart == KeysOwn /\ ChargedApart
(* "Replace base64 image_url blocks in tool_call results with image_ref placeholders". *)
NoImageKept == \A c \in Calls : kept[c] \notin {"data", "other"}
(* A search that failed is recorded as one. It is not where its error aborted the
   session of the call. *)
FailureRecorded == \A c \in Calls : (ask[c].kind = "search" /\ Ended(c) /\ status[c] = "failed") => \E n \in 1..Len(handlers) : handlers[n] = c
=============================================================================
