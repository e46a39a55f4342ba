--------------------------- MODULE ContextFormat ---------------------------
(* format_items_as_context (services/knowledge_search.py): the retrieved items in
   score order, written under a token budget, by document or flat, as text or
   with page images; a page already shown is only noted. Then what
   persist_context_handler (services/context_handler.py) stores of the blocks. *)
EXTENDS Naturals, Sequences, SequencesExt, FiniteSetsExt

CONSTANTS Longest, \* a bound on the items
          Kinds,   \* the items there are: [source, pages, mode, outline, text]
          Budgets, \* max_tokens; 0 is none
          ImageCost

VARIABLES items, images, grouped, budget, \* what is asked: images[source] is the pages that have one
          order, n,     \* the items as they are displayed, and the next of them
          tokens, seen, blocks, refs,
          shown, noted, \* the items whose content is there, and those "already shown above"
          stopped, stored, read
asked == <<items, images, grouped, budget, order>>
vars == <<items, images, grouped, budget, order, n, tokens, seen, blocks, refs, shown, noted, stopped, stored, read>>

Srcs == {k.source : k \in Kinds}
\* _group_items_by_document: the documents by their best item, which is their first.
Before(seq, a, b) == LET first(i) == Min({k \in 1..Len(seq) : seq[k].source = seq[i].source})
                     IN first(a) < first(b) \/ (first(a) = first(b) /\ a < b)
ByDocument(seq) == {o \in [1..Len(seq) -> 1..Len(seq)] : \A p, q \in 1..Len(seq) : p < q => Before(seq, o[p], o[q])}
Init == /\ items = <<>> /\ images = [s \in Srcs |-> {}] /\ grouped = TRUE /\ budget = 0 /\ order = <<>>
        /\ n = 1 /\ tokens = 0 /\ seen = {} /\ blocks = <<>> /\ refs = {} /\ shown = {} /\ noted = {} /\ stopped = FALSE /\ stored = <<>> /\ read = <<>>
\* _resolve_page_images: those that storage gives, of the documents that an item of an image knowledge base names.
Resolved(its, imgs) == \A s \in Srcs : imgs[s] # {} => \E k \in 1..Len(its) : its[k].source = s /\ its[k].mode = "image"
Ask == /\ items = <<>> /\ items' \in UNION {[1..m -> Kinds] : m \in 1..Longest} /\ images' \in [Srcs -> {{}, {1}, {1, 2}}]
       /\ Resolved(items', images')
       /\ grouped' \in BOOLEAN /\ budget' \in Budgets
       /\ order' \in (IF grouped' THEN ByDocument(items') ELSE {[k \in 1..Len(items') |-> k]})
       /\ UNCHANGED <<n, tokens, seen, blocks, refs, shown, noted, stopped, stored, read>>

AnyImage == \E s \in Srcs : images[s] # {}
Item == items[order[n]]
Due == ~stopped /\ stored = <<>> /\ n <= Len(order)
Headed == ~grouped \/ (blocks # <<>> /\ \E k \in 1..(n - 1) : items[order[k]].source = Item.source) \/ (blocks # <<>> /\ Last(blocks) = "header")
Ready == Due /\ Headed
MatchedBy(item) == IF item.pages = {} THEN images[item.source] ELSE images[item.source] \intersect item.pages
Matched == MatchedBy(Item)
\* An outline has no pages, and never stands for its document's images.
ByImages(item) == AnyImage /\ item.mode = "image" /\ images[item.source] # {} /\ ~item.outline
AsImages == ByImages(Item)
Of(pages) == {Item.source} \X pages
Unseen(pages) == {p \in pages : <<Item.source, p>> \notin seen}

\* The first item that does not fit ends it, whatever would fit after it.
Fits(cost) == budget = 0 \/ tokens + cost <= budget
\* Mutant: it is skipped instead.
SkipsOver == n' = n + 1 /\ UNCHANGED <<tokens, seen, blocks, refs, shown, noted, stopped, stored, read>> /\ UNCHANGED asked
Stops == stopped' = TRUE /\ UNCHANGED <<n, tokens, seen, blocks, refs, shown, noted, stored, read>> /\ UNCHANGED asked
Writes(cost, new, pages) == /\ tokens' = tokens + cost /\ blocks' = blocks \o new /\ seen' = seen \union Of(pages) /\ n' = n + 1
                            /\ UNCHANGED <<stopped, stored, read>> /\ UNCHANGED asked
ShowText == IF Fits(2) THEN Writes(2, <<"text">>, Item.pages) /\ shown' = shown \union {order[n]} /\ UNCHANGED <<refs, noted>> ELSE Stops
Note == IF Fits(1) THEN Writes(1, <<"text">>, {}) /\ noted' = noted \union {order[n]} /\ UNCHANGED <<refs, shown>> ELSE Stops
IndexOf(at) == at
ShowImages == LET new == Unseen(Matched) k == Cardinality(new)
              IN IF Fits(1 + k * ImageCost)
                 THEN /\ Writes(1 + k * ImageCost, <<"text">> \o [j \in 1..k |-> "image"], new)
                      /\ refs' = refs \union {IndexOf(Len(blocks) + 1 + j) : j \in 1..k}
                      /\ shown' = shown \union {order[n]} /\ UNCHANGED noted
                 ELSE Stops
\* A page is noted when all of it was shown by an item before.
TextItem == IF Item.pages # {} /\ Unseen(Item.pages) = {} THEN Note ELSE ShowText

-----------------------------------------------------------------------------
(* The documents' headers, and each branch by what is asked. *)
Header == /\ Due /\ grouped /\ ~Headed
                /\ IF Fits(1) THEN /\ blocks' = Append(blocks, "header") /\ tokens' = tokens + 1
                                      /\ UNCHANGED <<n, seen, refs, shown, noted, stopped, stored, read>> /\ UNCHANGED asked
                   ELSE Stops
TextHeader == ~AnyImage /\ Header
ImageHeader == AnyImage /\ Header
TextByDocument == ~AnyImage /\ grouped /\ Ready /\ TextItem
TextFlat == ~AnyImage /\ ~grouped /\ Ready /\ TextItem
ImagesByDocument == AnyImage /\ grouped /\ Ready /\ AsImages /\ Unseen(Matched) # {} /\ ShowImages
ImagesSeenByDocument == AnyImage /\ grouped /\ Ready /\ AsImages /\ Unseen(Matched) = {} /\ Matched # {} /\ Note
NoImageByDocument == AnyImage /\ grouped /\ Ready /\ AsImages /\ Matched = {} /\ ShowText
MixedByDocument == AnyImage /\ grouped /\ Ready /\ ~AsImages /\ TextItem
ImagesFlat == AnyImage /\ ~grouped /\ Ready /\ AsImages /\ Unseen(Matched) # {} /\ ShowImages
ImagesSeenFlat == AnyImage /\ ~grouped /\ Ready /\ AsImages /\ Unseen(Matched) = {} /\ Matched # {} /\ Note
NoImageFlat == AnyImage /\ ~grouped /\ Ready /\ AsImages /\ Matched = {} /\ ShowText
MixedFlat == AnyImage /\ ~grouped /\ Ready /\ ~AsImages /\ TextItem

\* The blocks as they are stored: an image by its path in storage, the rest as it is.
Persist == /\ stored = <<>> /\ blocks # <<>> /\ (stopped \/ n > Len(order))
           /\ stored' = [k \in 1..Len(blocks) |-> IF k \in refs THEN "reference" ELSE blocks[k]]
           /\ UNCHANGED <<n, tokens, seen, blocks, refs, shown, noted, stopped, read>> /\ UNCHANGED asked

\* Read back: an image that storage does not give is a text that says so.
Read == /\ stored # <<>> /\ read = <<>>
        /\ \E gone \in SUBSET {k \in 1..Len(stored) : stored[k] = "reference"} :
              read' = [k \in 1..Len(stored) |-> IF k \in gone THEN "unavailable" ELSE IF stored[k] = "reference" THEN "image" ELSE stored[k]]
        /\ UNCHANGED <<n, tokens, seen, blocks, refs, shown, noted, stopped, stored>> /\ UNCHANGED asked

Next == \/ Ask \/ TextHeader \/ ImageHeader \/ TextByDocument \/ TextFlat \/ ImagesByDocument \/ ImagesSeenByDocument \/ NoImageByDocument
        \/ MixedByDocument \/ ImagesFlat \/ ImagesSeenFlat \/ NoImageFlat \/ MixedFlat \/ Persist \/ Read
Spec == Init /\ [][Next]_vars

-----------------------------------------------------------------------------
(* What is included is a prefix of what is displayed, within the budget: no item
   is in the context while one displayed before it was dropped. *)
PrefixIncluded == /\ budget > 0 => tokens <= budget
                  /\ {order[p] : p \in 1..(n - 1)} = shown \union noted
(* An item is only noted when each of its pages, or of their images, was shown
   by an item of its document before it. *)
Shows(j, p) == p \in items[j].pages \/ (items[j].pages = {} /\ ByImages(items[j]) /\ p \in images[items[j].source])
Precedes(j, k) == \E a, b \in 1..Len(order) : a < b /\ order[a] = j /\ order[b] = k
NotedIsCovered == \A k \in noted : \A p \in (IF ByImages(items[k]) THEN MatchedBy(items[k]) ELSE items[k].pages) :
                      \E j \in shown : items[j].source = items[k].source /\ Shows(j, p) /\ Precedes(j, k)
(* Nothing is stored with an image in it, every reference stands where an image
   was, and reading gives the blocks back but for images that are gone. *)
StoredByReference == /\ \A k \in 1..Len(stored) : blocks[k] = "image" <=> stored[k] = "reference"
                     /\ \A k \in 1..Len(read) : read[k] = blocks[k] \/ (blocks[k] = "image" /\ read[k] = "unavailable")
(* "Skip fully-overlapping items that would repeat the same page content": the
   text of an item that is noted is in the context, by the item or one like it. *)
NotedIsShown == \A k \in noted : items[k].mode = "text" => \E j \in shown : [items[j] EXCEPT !.mode = "text"] = items[k]
=============================================================================
