------------------------ MODULE KnowledgeBasesProofs ------------------------
(* Theorems about the search of a knowledge base, for any number of items and
   faults, component by component, and then, with those about its indexes, about
   the parts together. *)
EXTENDS IndexesProofs, Sequences, SequenceTheorems

-----------------------------------------------------------------------------
(* The settings a search borrows. *)

Settings == SS!Scans \union {"sort", "ef", "iterative"}
Loans == [back : SUBSET Settings, of : SUBSET Settings]
\* What the request's transaction may keep: what a restore failed to put back, and what is meant for it.
Rest == lost \union {"iterative", "ef"}
Bare == {"idle", "iterative", "insist", "probe", "sort", "floor", "pg", "pg search", "retired", "file", "tsvector"}
\* What is open at each place.
OfFloor == {"seqscan", "bitmapscan"}
Open == /\ held \in Seq(Loans) /\ stage \in Bare \union {"ef", "count", "exact", "back out", "restore", "run"}
        /\ \/ held = <<>>
           \/ Len(held) = 1 /\ held[1].of \in {{"indexscan"}, {"sort"}, OfFloor}
           \/ Len(held) = 2 /\ held[1].of = {"ef"} /\ held[2].of = {"sort"}
        /\ stage \in Bare => held = <<>>
        /\ stage = "ef" => Len(held) = 1 /\ held[1].of = {"sort"}
        /\ stage \in {"count", "exact", "back out"} => held = <<>> \/ (Len(held) = 1 /\ held[1].of = OfFloor)
        /\ stage \in {"restore", "back out"} => held # <<>>
\* What is set was borrowed by what is open, or may be kept; and so it is when that is closed.
Borrowed == /\ held = <<>> => set \subseteq Rest
            /\ Len(held) = 1 => set \subseteq Rest \union held[1].of /\ held[1].back \subseteq Rest \intersect held[1].of
            /\ Len(held) = 2 => /\ set \subseteq Rest \union held[1].of \union held[2].of
                                /\ held[1].back \subseteq Rest \intersect held[1].of /\ held[2].back \subseteq Rest \intersect held[2].of
Kb == /\ kb \in SS!Stores /\ (kb.own => kb.table = "chunks") /\ tx \in {"ok", "aborted"} /\ set \subseteq Settings /\ lost \subseteq Settings
      /\ (stage \in {"floor", "count", "exact"} => ~kb.own)
      /\ (stage = "exact" => kb.rows <= MaxRows /\ kb.rows + kb.others <= SS!Budget)
SearchInv == Open /\ Borrowed /\ Kb /\ SS!OnlyOwnAborts

\* A loan is opened.
LEMMA Push == ASSUME NEW S, NEW h \in Seq(S), NEW x \in S
              PROVE  /\ <<x>> \o h \in Seq(S) /\ Len(<<x>> \o h) = Len(h) + 1
                     /\ (<<x>> \o h)[1] = x /\ (Len(h) = 1 => (<<x>> \o h)[2] = h[1])
PROOF OBVIOUS

\* The last loan is closed.
LEMMA Pop == ASSUME NEW S, NEW h \in Seq(S), h # <<>>
             PROVE  /\ Tail(h) \in Seq(S) /\ Len(Tail(h)) = Len(h) - 1 /\ (Len(h) = 1 => Tail(h) = <<>>)
                    /\ (Len(h) = 2 => Tail(h)[1] = h[2]) /\ Head(h) = h[1] /\ Len(h) >= 1 /\ h[1] \in S
PROOF OBVIOUS

\* No loan is open.
LEMMA NoLoan == Len(<<>>) = 0
PROOF OBVIOUS

\* The invariant is inductive.
LEMMA SearchHolds == ASSUME MaxRows \in Nat PROVE SS!Spec => []SearchInv
<1>1. ASSUME MaxRows \in Nat, SS!Init PROVE SearchInv
  <2>1. held = <<>> /\ held \in Seq(Loans) /\ Len(held) = 0 BY <1>1 DEF SS!Init
  <2>2. stage = "idle" /\ set = {} /\ lost = {} /\ tx = "ok" BY <1>1 DEF SS!Init
  <2>3. Open BY <2>1, <2>2 DEF Open, Bare
  <2>4. Borrowed BY <2>1, <2>2 DEF Borrowed
  <2>5. Kb BY <1>1, <2>2 DEF Kb, SS!Init
  <2> QED BY <2>2, <2>3, <2>4, <2>5 DEF SearchInv, SS!OnlyOwnAborts
<1>2. ASSUME MaxRows \in Nat, SearchInv, SS!Begin PROVE SearchInv'
  BY <1>2 DEF SS!Begin, SS!Go, SearchInv, Open, Borrowed, Kb, SS!OnlyOwnAborts, Rest, Bare
<1>3. ASSUME MaxRows \in Nat, SearchInv, SS!ApplyIterativeScan PROVE SearchInv'
  BY <1>3 DEF SS!ApplyIterativeScan, SS!IterativeSet, SS!IterativeFails, SS!Raises, SS!Fails, SS!Holds, SS!Route, SS!Go, SS!Stay, SS!Stores, SearchInv, Open, Borrowed, Kb, SS!OnlyOwnAborts, Rest, Bare, Settings
<1>4. ASSUME MaxRows \in Nat, SearchInv, SS!Probe PROVE SearchInv'
  BY <1>4 DEF SS!Probe, SS!Fails, SS!Holds, SS!Go, SS!Stay, SearchInv, Open, Borrowed, Kb, SS!OnlyOwnAborts, Rest, Bare
<1>5. ASSUME MaxRows \in Nat, SearchInv, SS!Floor PROVE SearchInv'
  BY <1>5 DEF SS!Floor, SS!Go, SS!Stay, SearchInv, Open, Borrowed, Kb, SS!OnlyOwnAborts, Rest, Bare
<1>6. ASSUME MaxRows \in Nat, SearchInv, SS!Count PROVE SearchInv'
  <2>1. kb.rows \in Nat /\ kb.others \in Nat
    <3>1. kb.rows \in 0..2 * MaxRows /\ kb.others \in {0, 4 * MaxRows} BY <1>6 DEF SearchInv, Kb, SS!Stores
    <3>2. 2 * MaxRows \in Nat /\ 4 * MaxRows \in Nat BY <1>6
    <3> QED BY <3>1, <3>2
  <2>2. stage = "count" /\ held' = held /\ set' = set /\ tx' = tx /\ lost' = lost /\ blame' = blame /\ kb' = kb
    BY <1>6 DEF SS!Count, SS!Stay
  <2>3. /\ stage' \in {"exact", "run", "back out"} /\ (stage' = "back out" => held # <<>>)
        /\ stage' = "exact" => kb.rows <= MaxRows /\ kb.rows + kb.others <= SS!Budget
    <3>1. SS!Budget \in Nat BY <1>6 DEF SS!Budget
    <3> DEFINE total == kb.rows + kb.others
               tally == IF total > SS!Budget THEN SS!Budget + 1 ELSE total
               not == IF held = <<>> THEN "run" ELSE "back out"
    <3>2. stage' = (IF SS!Below(kb.rows, tally) THEN "exact" ELSE not) \/ stage' = not BY <1>6 DEF SS!Count, SS!Go
    <3>3. tally <= SS!Budget => total <= SS!Budget BY <2>1, <3>1
    <3> QED BY <3>2, <3>3 DEF SS!Below
  <2>4. Open' BY <1>6, <2>2, <2>3 DEF SearchInv, Open, Bare
  <2>5. Borrowed' BY <1>6, <2>2 DEF SearchInv, Borrowed, Rest
  <2>6. Kb' BY <1>6, <2>2, <2>3 DEF SearchInv, Kb, SS!Budget
  <2> QED BY <1>6, <2>2, <2>4, <2>5, <2>6 DEF SearchInv, SS!OnlyOwnAborts
<1>7. ASSUME MaxRows \in Nat, SearchInv, SS!RunVector PROVE SearchInv'
  BY <1>7 DEF SS!RunVector, SS!Raises, SS!Fails, SS!Holds, SS!Go, SS!Leave, SS!AfterVector, SS!Stay, SearchInv, Open, Borrowed, Kb, SS!OnlyOwnAborts, Rest, Bare
<1>8. ASSUME MaxRows \in Nat, SearchInv, SS!PgIsUsable \/ SS!PgSearch \/ SS!FileIndexRetired \/ SS!SearchFile \/ SS!FullTextSearch \/ SS!Elsewhere \/ SS!EndTransaction
      PROVE  SearchInv'
  <2>1. CASE SS!PgIsUsable
    BY <1>8, <2>1 DEF SS!PgIsUsable, SS!Fails, SS!Holds, SS!Go, SS!Stay, SearchInv, Open, Borrowed, Kb, SS!OnlyOwnAborts, Rest, Bare
  <2>2. CASE SS!PgSearch
    BY <1>8, <2>2 DEF SS!PgSearch, SS!Fails, SS!Holds, SS!Go, SS!Stay, SearchInv, Open, Borrowed, Kb, SS!OnlyOwnAborts, Rest, Bare
  <2>3. CASE SS!FileIndexRetired
    BY <1>8, <2>3 DEF SS!FileIndexRetired, SS!Fails, SS!Holds, SS!Go, SS!Stay, SearchInv, Open, Borrowed, Kb, SS!OnlyOwnAborts, Rest, Bare
  <2>4. CASE SS!SearchFile
    BY <1>8, <2>4 DEF SS!SearchFile, SS!Raises, SS!Fails, SS!Holds, SS!Go, SS!Stay, SearchInv, Open, Borrowed, Kb, SS!OnlyOwnAborts, Rest, Bare
  <2>5. CASE SS!FullTextSearch
    BY <1>8, <2>5 DEF SS!FullTextSearch, SS!Go, SS!Stay, SearchInv, Open, Borrowed, Kb, SS!OnlyOwnAborts, Rest, Bare
  <2>6. CASE SS!Elsewhere
    <3>1. /\ kb' \in SS!Stores /\ kb'.own = kb.own /\ kb'.rows = kb.rows /\ kb'.others = kb.others /\ kb'.table = kb.table
      BY <1>8, <2>6 DEF SS!Elsewhere, SS!Stores, SearchInv, Kb
    <3>2. held' = held /\ set' = set /\ tx' = tx /\ lost' = lost /\ blame' = blame /\ stage' = stage
      BY <2>6 DEF SS!Elsewhere
    <3>3. Open' /\ Borrowed' BY <1>8, <3>2 DEF SearchInv, Open, Borrowed, Rest
    <3>4. Kb' BY <1>8, <3>1, <3>2 DEF SearchInv, Kb, SS!Budget
    <3> QED BY <1>8, <3>2, <3>3, <3>4 DEF SearchInv, SS!OnlyOwnAborts
  <2>7. CASE SS!EndTransaction
    BY <1>8, <2>7 DEF SS!EndTransaction, SearchInv, Open, Borrowed, Kb, SS!OnlyOwnAborts, Rest, Bare
  <2> QED BY <1>8, <2>1, <2>2, <2>3, <2>4, <2>5, <2>6, <2>7
\* Something is lent: what it takes is new, and what it will put back was there.
<1>9. ASSUME MaxRows \in Nat, SearchInv, SS!InsistOnExact PROVE SearchInv'
  <2>1. held = <<>> /\ set \subseteq Rest /\ stage = "insist"
    BY <1>9 DEF SS!InsistOnExact, SearchInv, Open, Borrowed, Bare
  <2> DEFINE x == [back |-> set \intersect {"indexscan"}, of |-> {"indexscan"}]
  <2>2. x \in Loans BY DEF Loans, Settings, SS!Scans
  <2>3. <<x>> \o held = <<x>> /\ <<x>> \in Seq(Loans) /\ Len(<<x>>) = 1 /\ <<x>>[1] = x BY <2>1, <2>2
  <2> HIDE DEF x
  <2>4. x.back = set \intersect {"indexscan"} /\ x.of = {"indexscan"} BY DEF x
  <2>5. CASE SS!Holds /\ set' = set \union {"indexscan"} /\ held' = <<x>>
    BY <1>9, <2>1, <2>3, <2>4, <2>5 DEF SS!InsistOnExact, SS!PriceOut, SS!Holds, SS!Go, SS!Stay, SearchInv, Open, Borrowed, Kb, SS!OnlyOwnAborts, Rest, Bare, Settings, SS!Scans
  <2>6. CASE SS!Fails /\ UNCHANGED <<set, held>>
    BY <1>9, <2>1, <2>6 DEF SS!InsistOnExact, SS!PriceOut, SS!Go, SS!Stay, SearchInv, Open, Borrowed, Kb, SS!OnlyOwnAborts, Rest, Bare
  <2> QED BY <1>9, <2>3, <2>5, <2>6 DEF SS!InsistOnExact, SS!PriceOut, x
<1>10. ASSUME MaxRows \in Nat, SearchInv, SS!PriceOutScans PROVE SearchInv'
  <2>1. held = <<>> /\ set \subseteq Rest /\ stage = "floor"
    BY <1>10 DEF SS!PriceOutScans, SearchInv, Open, Borrowed, Bare
  <2> DEFINE x == [back |-> set \intersect {"seqscan", "bitmapscan"}, of |-> {"seqscan", "bitmapscan"}]
  <2>2. x \in Loans BY DEF Loans, Settings, SS!Scans
  <2>3. <<x>> \o held = <<x>> /\ <<x>> \in Seq(Loans) /\ Len(<<x>>) = 1 /\ <<x>>[1] = x BY <2>1, <2>2
  <2> HIDE DEF x
  <2>4. x.back = set \intersect {"seqscan", "bitmapscan"} /\ x.of = {"seqscan", "bitmapscan"} BY DEF x
  <2>5. CASE SS!Holds /\ set' = set \union {"seqscan", "bitmapscan"} /\ held' = <<x>>
    BY <1>10, <2>1, <2>3, <2>4, <2>5 DEF SS!PriceOutScans, SS!PriceOut, SS!Holds, SS!Go, SS!Stay, SearchInv, Open, Borrowed, Kb, SS!OnlyOwnAborts, Rest, Bare, Settings, SS!Scans, OfFloor
  <2>6. CASE SS!Fails /\ UNCHANGED <<set, held>>
    BY <1>10, <2>1, <2>6 DEF SS!PriceOutScans, SS!PriceOut, SS!Go, SS!Stay, SearchInv, Open, Borrowed, Kb, SS!OnlyOwnAborts, Rest, Bare
  <2> QED BY <1>10, <2>3, <2>5, <2>6 DEF SS!PriceOutScans, SS!PriceOut, x
<1>11. ASSUME MaxRows \in Nat, SearchInv, SS!PriceOutSort PROVE SearchInv'
  <2>1. held = <<>> /\ set \subseteq Rest /\ stage = "sort"
    BY <1>11 DEF SS!PriceOutSort, SearchInv, Open, Borrowed, Bare
  <2> DEFINE x == [back |-> set \intersect {"sort"}, of |-> {"sort"}]
  <2>2. x \in Loans BY DEF Loans, Settings
  <2>3. <<x>> \o held = <<x>> /\ <<x>> \in Seq(Loans) /\ Len(<<x>>) = 1 /\ <<x>>[1] = x BY <2>1, <2>2
  <2> HIDE DEF x
  <2>4. x.back = set \intersect {"sort"} /\ x.of = {"sort"} BY DEF x
  <2>5. CASE SS!Holds /\ set' = set \union {"sort"} /\ held' = <<x>> /\ SS!Go("ef")
    BY <1>11, <2>1, <2>3, <2>4, <2>5 DEF SS!PriceOutSort, SS!Holds, SS!Go, SS!Stay, SearchInv, Open, Borrowed, Kb, SS!OnlyOwnAborts, Rest, Bare, Settings
  <2>6. CASE SS!Fails /\ SS!Go("run") /\ UNCHANGED <<set, held>>
    BY <1>11, <2>1, <2>6 DEF SS!PriceOutSort, SS!Go, SS!Stay, SearchInv, Open, Borrowed, Kb, SS!OnlyOwnAborts, Rest, Bare
  <2> QED BY <1>11, <2>3, <2>5, <2>6 DEF SS!PriceOutSort, x
<1>12. ASSUME MaxRows \in Nat, SearchInv, SS!RaiseEf PROVE SearchInv'
  <2>1. /\ held \in Seq(Loans) /\ Len(held) = 1 /\ held[1].of = {"sort"} /\ set \subseteq Rest \union {"sort"} /\ stage = "ef"
        /\ held[1].back \subseteq Rest \intersect {"sort"}
    BY <1>12 DEF SS!RaiseEf, SearchInv, Open, Borrowed
  <2> DEFINE x == [back |-> set \intersect {"ef"}, of |-> {"ef"}]
             h == <<x>> \o held
  <2>2. x \in Loans BY DEF Loans, Settings
  <2> HIDE DEF x
  <2>3. h \in Seq(Loans) /\ Len(h) = 2 /\ h[1] = x /\ h[2] = held[1]
    <3>1. held \in Seq(Loans) /\ Len(held) = 1 BY <2>1
    <3>2. /\ <<x>> \o held \in Seq(Loans) /\ Len(<<x>> \o held) = Len(held) + 1
          /\ (<<x>> \o held)[1] = x /\ (Len(held) = 1 => (<<x>> \o held)[2] = held[1])
      BY <2>2, <3>1, Push
    <3> QED BY <3>1, <3>2
  <2>4. x.back = set \intersect {"ef"} /\ x.of = {"ef"} BY DEF x
  <2> HIDE DEF h
  <2>5. CASE SS!Holds /\ set' = set \union {"ef"} /\ held' = h
    BY <1>12, <2>1, <2>3, <2>4, <2>5 DEF SS!RaiseEf, SS!Holds, SS!Go, SS!Stay, SearchInv, Open, Borrowed, Kb, SS!OnlyOwnAborts, Rest, Bare, Settings
  <2>6. CASE SS!Holds /\ set' = set \union {"ef"} /\ UNCHANGED held
    BY <1>12, <2>1, <2>6 DEF SS!RaiseEf, SS!Holds, SS!Go, SS!Stay, SearchInv, Open, Borrowed, Kb, SS!OnlyOwnAborts, Rest, Bare, Settings
  <2>7. CASE SS!Fails /\ UNCHANGED <<set, held>>
    BY <1>12, <2>1, <2>7 DEF SS!RaiseEf, SS!Go, SS!Stay, SearchInv, Open, Borrowed, Kb, SS!OnlyOwnAborts, Rest, Bare
  <2> QED BY <1>12, <2>5, <2>6, <2>7 DEF SS!RaiseEf, x, h
\* And what was lent is closed: it is put back, or it is lost.
<1>13. ASSUME MaxRows \in Nat, SearchInv, SS!Restore PROVE SearchInv'
  <2>1. held \in Seq(Loans) /\ held # <<>> /\ stage \in {"restore", "back out"} /\ held' = Tail(held)
    BY <1>13 DEF SS!Restore, SearchInv, Open
  <2>2. /\ Tail(held) \in Seq(Loans) /\ Len(Tail(held)) = Len(held) - 1 /\ (Len(held) = 1 => Tail(held) = <<>>)
        /\ (Len(held) = 2 => Tail(held)[1] = held[2]) /\ Head(held) = held[1] /\ held[1] \in Loans
    BY <2>1, Pop
  <2>3. held[1].back \subseteq Settings /\ held[1].of \subseteq Settings BY <2>2 DEF Loans
  <2>4. Len(held) = 1 \/ (Len(held) = 2 /\ held[1].of = {"ef"} /\ held[2].of = {"sort"} /\ stage = "restore")
    BY <1>13, <2>1 DEF SearchInv, Open
  <2>5. /\ stage' = (IF Len(held) > 1 THEN stage ELSE SS!AfterLast) /\ SS!AfterLast \in {"run", "idle", "pg"}
        /\ UNCHANGED <<tx, kb, blame>>
    BY <1>13 DEF SS!Restore, SS!Go, SS!Stay, SS!AfterLast, SS!AfterVector
  <2>6. (set' = (set \ held[1].of) \union held[1].back /\ lost' = lost) \/ (lost' = lost \union held[1].of /\ set' = set)
    BY <1>13, <2>2 DEF SS!Restore, SS!PutBack
  <2>7. ASSUME Len(held) = 2 PROVE Len(held') = 1 /\ held'[1] = held[2] /\ held' \in Seq(Loans) /\ stage' = "restore" /\ held[2].of = {"sort"}
    <3> DEFINE t == Tail(held)
    <3>1. held' = t /\ t \in Seq(Loans) /\ Len(t) = Len(held) - 1 /\ t[1] = held[2] BY <2>1, <2>2, <2>7
    <3>2. stage' = "restore" /\ held[2].of = {"sort"} BY <2>4, <2>5, <2>7
    <3> HIDE DEF t
    <3> QED BY <2>7, <3>1, <3>2
  <2>70. Open'
    <3>1. CASE Len(held) = 1
      <4>1. held' = <<>> /\ held' \in Seq(Loans) /\ Len(held') = 0 BY <2>1, <2>2, <3>1
      <4>2. stage' \in {"run", "idle", "pg"} BY <2>5, <3>1
      <4> QED BY <4>1, <4>2 DEF Open, Bare
    <3>2. CASE Len(held) = 2
      <4>1. Len(held') = 1 /\ held'[1] = held[2] /\ held' \in Seq(Loans) /\ stage' = "restore" /\ held[2].of = {"sort"}
        BY <2>7, <3>2
      <4>2. held' # <<>> BY <4>1, NoLoan
      <4> QED BY <4>1, <4>2 DEF Open, Bare
    <3> QED BY <2>4, <3>1, <3>2
  <2>8. Borrowed'
    <3>1. CASE Len(held) = 1
      <4>1. held' = <<>> /\ Len(held') = 0 BY <2>1, <2>2, <3>1
      <4>2. set \subseteq Rest \union held[1].of /\ held[1].back \subseteq Rest BY <1>13, <3>1 DEF SearchInv, Borrowed
      <4>3. set' \subseteq Rest' BY <2>6, <4>2 DEF Rest
      <4> QED BY <4>1, <4>3 DEF Borrowed
    <3>2. CASE Len(held) = 2
      <4>1. Len(held') = 1 /\ held'[1] = held[2] BY <2>7, <3>2
      <4>5. held' # <<>> BY <4>1, NoLoan
      <4>2. /\ set \subseteq Rest \union held[1].of \union held[2].of
            /\ held[1].back \subseteq Rest /\ held[2].back \subseteq Rest \intersect held[2].of
        BY <1>13, <3>2 DEF SearchInv, Borrowed
      <4>3. set' \subseteq Rest' \union held[2].of /\ held[2].back \subseteq Rest' \intersect held[2].of BY <2>6, <4>2 DEF Rest
      <4> QED BY <4>1, <4>3, <4>5 DEF Borrowed
    <3> QED BY <2>4, <3>1, <3>2
  <2>9. Kb'
    BY <1>13, <2>1, <2>3, <2>5, <2>6 DEF SearchInv, Kb
  <2>10. SS!OnlyOwnAborts'
    BY <1>13, <2>5 DEF SearchInv, SS!OnlyOwnAborts
  <2> QED BY <2>70, <2>8, <2>9, <2>10 DEF SearchInv
<1>14. ASSUME SearchInv, UNCHANGED SS!vars PROVE SearchInv'
  BY <1>14 DEF SS!vars, SearchInv, Open, Borrowed, Kb, SS!OnlyOwnAborts, Rest
<1>15. ASSUME MaxRows \in Nat, SearchInv, [SS!Next]_(SS!vars) PROVE SearchInv'
  BY <1>2, <1>3, <1>4, <1>5, <1>6, <1>7, <1>8, <1>9, <1>10, <1>11, <1>12, <1>13, <1>14, <1>15 DEF SS!Next
<1>16. MaxRows \in Nat OBVIOUS
<1>17. SS!Init => SearchInv BY <1>1, <1>16
<1>18. SearchInv /\ [SS!Next]_(SS!vars) => SearchInv' BY <1>15, <1>16
<1> QED BY <1>17, <1>18, PTL DEF SS!Spec

(* A search gives back what it borrowed, aborts its transaction by a statement of
   its own or not at all, goes exact within the budget only, and keeps a way to read. *)
THEOREM SearchIsClean ==
    ASSUME MaxRows \in Nat
    PROVE  SS!Spec => [](SS!TypeOK /\ SS!GivenBack /\ SS!OnlyOwnAborts /\ SS!ExactWithinBudget /\ SS!SomeScanLeft)
<1>1. ASSUME SearchInv PROVE SS!TypeOK
  <2>1. Len(held) = 0 \/ Len(held) = 1 \/ Len(held) = 2
    <3>1. held = <<>> \/ Len(held) = 1 \/ Len(held) = 2 BY <1>1 DEF SearchInv, Open
    <3> QED BY <3>1, NoLoan
  <2>3. stage = "idle" => held = <<>> BY <1>1 DEF SearchInv, Open, Bare
  <2>2. \A i \in 1..Len(held) : held[i].back \subseteq held[i].of
    <3>1. CASE Len(held) = 0 BY <3>1
    <3>2. CASE Len(held) = 1 BY <1>1, <3>2 DEF SearchInv, Borrowed
    <3>3. CASE Len(held) = 2
      <4>1. held[1].back \subseteq held[1].of /\ held[2].back \subseteq held[2].of BY <1>1, <3>3 DEF SearchInv, Borrowed
      <4> QED BY <3>3, <4>1
    <3> QED BY <2>1, <3>1, <3>2, <3>3
  <2>4. kb \in SS!Stores /\ tx \in {"ok", "aborted"} /\ set \subseteq Settings /\ lost \subseteq Settings
    BY <1>1 DEF SearchInv, Kb
  <2>5. set \union lost \subseteq SS!Scans \union {"sort", "ef", "iterative"} BY <2>4 DEF Settings
  <2>6. Len(held) <= 2
    <3>1. \A num : (num = 0 \/ num = 1 \/ num = 2) => num <= 2 OBVIOUS
    <3> QED BY <2>1, <3>1
  <2> QED BY <2>2, <2>3, <2>4, <2>5, <2>6 DEF SS!TypeOK
<1>2. ASSUME SearchInv PROVE SS!GivenBack
  BY <1>2 DEF SS!GivenBack, SearchInv, Open, Borrowed, Rest, Bare
<1>3. ASSUME SearchInv PROVE SS!OnlyOwnAborts /\ SS!ExactWithinBudget
  BY <1>3 DEF SearchInv, Kb, SS!ExactWithinBudget
<1>4. ASSUME SearchInv PROVE SS!SomeScanLeft
  <2>1. \E s \in SS!Scans : s \notin set \/ s \in Rest
    BY <1>4 DEF SearchInv, Open, Borrowed, SS!Scans, OfFloor, Rest
  <2> QED BY <2>1 DEF SS!SomeScanLeft, SS!Scans, Rest
<1>5. SearchInv => SS!TypeOK /\ SS!GivenBack /\ SS!OnlyOwnAborts /\ SS!ExactWithinBudget /\ SS!SomeScanLeft
  BY <1>1, <1>2, <1>3, <1>4
<1>6. SS!Spec => []SearchInv BY SearchHolds
<1> QED BY <1>5, <1>6, PTL

-----------------------------------------------------------------------------
(* What a search charges. *)

Phases == {"ask", "query", "count", "primary", "retrieve", "floor", "metadata", "attached", "rerank", "reranking", "limits", "expand", "allowed", "tree", "select",
           "done", "raised"}
Paid == /\ at \in Phases
        /\ at \in {"tree", "select"} => ask.method = "tree_search"
        /\ at \in {"floor", "metadata", "attached", "rerank", "reranking", "limits", "expand", "allowed", "done"} => ask.method \in charged
        /\ charged \subseteq done \union {"reranker"}

\* A search goes on to an answer past its charge.
LEMMA PaidStep == ASSUME Paid, KS!Search PROVE Paid'
<1> USE DEF Paid, Phases, KS!Goes, KS!Raises, KS!Charge, KS!Checks
<1>1. CASE KS!EnrichQuery BY <1>1 DEF KS!EnrichQuery
<1>2. CASE KS!Count BY <1>2 DEF KS!Count
<1>3. CASE KS!CheckPrimary BY <1>3 DEF KS!CheckPrimary
<1>4. CASE KS!Retrieve
  <2>1. \/ KS!Goes("floor") /\ KS!Charge(ask.method) /\ done' = done \union {ask.method}
        \/ KS!Raises /\ UNCHANGED done
    BY <1>4 DEF KS!Retrieve
  <2> QED BY <2>1
<1>5. CASE KS!MergeFloor
  <2>1. KS!Goes("metadata") /\ UNCHANGED <<funds, charged>> /\ at = "floor" /\ (done' = done \union {"floor"} \/ UNCHANGED done) BY <1>5 DEF KS!MergeFloor
  <2> QED BY <2>1
<1>6. CASE KS!AttachMetadata BY <1>6 DEF KS!AttachMetadata, KS!AfterMetadata
<1>7. CASE KS!ChargeMetadata BY <1>7 DEF KS!ChargeMetadata, KS!AfterMetadata
<1>8. CASE KS!CheckReranker BY <1>8 DEF KS!CheckReranker
<1>9. CASE KS!Rerank
  <2>1. at = "reranking" /\ KS!Goes("limits") /\ KS!Charge("reranker") /\ (done' = done \union {"reranker"} \/ UNCHANGED done) BY <1>9 DEF KS!Rerank
  <2> QED BY <2>1
<1>10. CASE KS!ApplyLimits
  <2>1. at = "limits" /\ KS!Goes(IF ask.graph THEN "expand" ELSE "done") /\ UNCHANGED <<charged, done>> BY <1>10 DEF KS!ApplyLimits
  <2> QED BY <2>1
<1>11. CASE KS!ExpandGraph
  <2>1. at = "expand" /\ KS!Goes("allowed") /\ UNCHANGED <<charged, done>> BY <1>11 DEF KS!ExpandGraph
  <2> QED BY <2>1
<1>12. CASE KS!AfterExpansion BY <1>12 DEF KS!AfterExpansion
<1>13. CASE KS!CheckTree BY <1>13 DEF KS!CheckTree
<1>14. CASE KS!SelectNodes
  <2>1. at = "select" /\ (\/ KS!Goes("metadata") /\ KS!Charge("tree_search") /\ done' = done \union {"tree_search"}
                          \/ KS!Raises /\ UNCHANGED done)
    BY <1>14 DEF KS!SelectNodes
  <2> QED BY <2>1
<1> QED BY <1>1, <1>2, <1>3, <1>4, <1>5, <1>6, <1>7, <1>8, <1>9, <1>10, <1>11, <1>12, <1>13, <1>14 DEF KS!Search

\* An answer was charged for.
THEOREM AnswersArePaid == KS!Spec => []KS!PaidAnswer
<1>1. KS!Init => Paid BY DEF KS!Init, Paid, Phases
<1>2. Paid /\ [KS!Next]_(KS!vars) => Paid'
  <2> SUFFICES ASSUME Paid, [KS!Next]_(KS!vars) PROVE Paid' OBVIOUS
  <2>1. CASE UNCHANGED KS!vars BY <2>1 DEF KS!vars, Paid
  <2>2. CASE KS!Ask
    <3>1. at = "ask" /\ at' \in {"query", "count"} /\ UNCHANGED <<charged, done>> BY <2>2 DEF KS!Ask
    <3> QED BY <3>1 DEF Paid, Phases
  <2>3. CASE KS!Refused BY <2>3 DEF KS!Refused, KS!Raises, Paid, Phases
  <2>4. CASE KS!Spent BY <2>4 DEF KS!Spent, Paid
  <2>5. CASE KS!Search BY <2>5, PaidStep
  <2>6. KS!AsyncSearch => KS!Search BY DEF KS!AsyncSearch, KS!AsyncQuery, KS!AsyncCount, KS!AsyncRetrieve, KS!AsyncFloor, KS!AsyncPipeline, KS!AsyncGraph, KS!AsyncTree, KS!Search
  <2> QED BY <2>1, <2>2, <2>3, <2>4, <2>5, <2>6 DEF KS!Next
<1>3. Paid => KS!PaidAnswer BY DEF Paid, KS!PaidAnswer, KS!Answered
<1> QED BY <1>1, <1>2, <1>3, PTL DEF KS!Spec

-----------------------------------------------------------------------------
(* What a search owes its answer. Its rows are ordered by counting: what is at a
   place has one fewer before it, so that to write a set out takes no recursion. *)

\* Where before gives of every element those before it, an element has as many before it as its place says.
LEMMA Ranking ==
  ASSUME NEW S, IsFiniteSet(S), NEW before \in [S -> SUBSET S], \A x \in S : x \notin before[x],
         \A x, y \in S : y \in before[x] => before[y] \subseteq before[x], \A x, y \in S : x # y => x \in before[y] \/ y \in before[x]
  PROVE  /\ \A k \in 1..Cardinality(S) : \E x \in S : Cardinality(before[x]) = k - 1
         /\ \A x, y \in S : x \in before[y] <=> Cardinality(before[x]) < Cardinality(before[y])
<1>0. Cardinality(S) \in Nat BY FS_CardinalityType
<1>1. \A x \in S : Cardinality(before[x]) \in Nat /\ IsFiniteSet(before[x])
  <2> SUFFICES ASSUME NEW x \in S PROVE Cardinality(before[x]) \in Nat /\ IsFiniteSet(before[x]) OBVIOUS
  <2>1. before[x] \in SUBSET S OBVIOUS
  <2>2. IsFiniteSet(before[x]) BY <2>1, FS_Subset
  <2> QED BY <2>2, FS_CardinalityType
<1>2. ASSUME NEW x \in S, NEW y \in S, x \in before[y] PROVE Cardinality(before[x]) < Cardinality(before[y])
  <2>1. before[x] \in SUBSET before[y] /\ before[x] # before[y] BY <1>2
  <2>2. Cardinality(before[x]) <= Cardinality(before[y]) /\ Cardinality(before[x]) # Cardinality(before[y]) BY <1>1, <2>1, FS_Subset
  <2> QED BY <1>1, <2>2
<1>3. ASSUME NEW x \in S, NEW y \in S, x \notin before[y] PROVE ~(Cardinality(before[x]) < Cardinality(before[y]))
  <2>1. CASE x = y BY <1>1, <2>1
  <2>2. CASE y \in before[x] BY <1>1, <1>2, <2>2
  <2> QED BY <1>3, <2>1, <2>2
<1>4. ASSUME NEW x \in S PROVE Cardinality(before[x]) + 1 \in 1..Cardinality(S)
  <2>1. before[x] \in SUBSET S /\ before[x] # S OBVIOUS
  <2>2. Cardinality(before[x]) <= Cardinality(S) /\ Cardinality(before[x]) # Cardinality(S) BY <2>1, FS_Subset
  <2> QED BY <1>0, <1>1, <2>2
<1> DEFINE rank == [x \in S |-> Cardinality(before[x]) + 1]
           T == 1..Cardinality(S)
<1>5. rank \in Injection(S, T)
  <2>1. rank \in [S -> T] BY <1>4
  <2>2. \A x, y \in S : rank[x] = rank[y] => x = y BY <1>1, <1>2
  <2> QED BY <2>1, <2>2 DEF Injection, IsInjective
<1>6. IsFiniteSet(T) /\ Cardinality(T) = Cardinality(S) BY <1>0, FS_Interval
<1>7. rank \in Surjection(S, T)
  <2> HIDE DEF rank, T
  <2> QED BY <1>5, <1>6, FS_Injection
<1>8. \A k \in T : \E x \in S : rank[x] = k BY <1>7 DEF Surjection
<1>9. \A k \in T : \E x \in S : Cardinality(before[x]) = k - 1 BY <1>0, <1>1, <1>8
<1> QED BY <1>2, <1>3, <1>9

\* A set that is written out by counting what is before each is written out in order, whole, each once.
LEMMA Sorting ==
  ASSUME NEW S, IsFiniteSet(S), NEW before \in [S -> SUBSET S], \A x \in S : x \notin before[x],
         \A x, y \in S : y \in before[x] => before[y] \subseteq before[x], \A x, y \in S : x # y => x \in before[y] \/ y \in before[x],
         NEW q, q = [k \in 1..Cardinality(S) |-> q[k]],
         \A k \in 1..Cardinality(S) : (\E x \in S : Cardinality(before[x]) = k - 1) => q[k] \in S /\ Cardinality(before[q[k]]) = k - 1
  PROVE  /\ Cardinality(S) \in Nat /\ q \in [1..Cardinality(S) -> S]
         /\ \A x \in S : \E k \in 1..Cardinality(S) : q[k] = x
         /\ \A j, k \in 1..Cardinality(S) : j < k => q[j] # q[k] /\ q[j] \in before[q[k]]
<1>0. Cardinality(S) \in Nat BY FS_CardinalityType
<1>1. /\ \A k \in 1..Cardinality(S) : \E x \in S : Cardinality(before[x]) = k - 1
      /\ \A x, y \in S : x \in before[y] <=> Cardinality(before[x]) < Cardinality(before[y])
  BY Ranking
<1>2. \A k \in 1..Cardinality(S) : q[k] \in S /\ Cardinality(before[q[k]]) = k - 1 BY <1>1
<1>3. q \in [1..Cardinality(S) -> S] BY <1>2
<1>4. ASSUME NEW x \in S PROVE \E k \in 1..Cardinality(S) : q[k] = x
  <2>1. before[x] \in SUBSET S /\ before[x] # S OBVIOUS
  <2>2. Cardinality(before[x]) <= Cardinality(S) /\ Cardinality(before[x]) # Cardinality(S) /\ IsFiniteSet(before[x]) BY <2>1, FS_Subset
  <2>3. Cardinality(before[x]) \in Nat BY <2>2, FS_CardinalityType
  <2> DEFINE k == Cardinality(before[x]) + 1
  <2>4. k \in 1..Cardinality(S) /\ k - 1 = Cardinality(before[x]) BY <1>0, <2>2, <2>3
  <2>5. q[k] \in S /\ Cardinality(before[q[k]]) = Cardinality(before[x]) BY <1>2, <2>4
  <2>6. q[k] \notin before[x] /\ x \notin before[q[k]] BY <1>1, <2>3, <2>5
  <2>7. q[k] = x BY <2>5, <2>6
  <2> QED BY <2>4, <2>7
<1>5. ASSUME NEW j \in 1..Cardinality(S), NEW k \in 1..Cardinality(S), j < k PROVE q[j] # q[k] /\ q[j] \in before[q[k]]
  <2>1. q[j] \in S /\ q[k] \in S /\ Cardinality(before[q[j]]) = j - 1 /\ Cardinality(before[q[k]]) = k - 1 BY <1>2
  <2>2. Cardinality(before[q[j]]) < Cardinality(before[q[k]]) BY <1>0, <1>5, <2>1
  <2>3. q[j] \in before[q[k]] BY <1>1, <2>1, <2>2
  <2> QED BY <2>1, <2>3
<1> QED BY <1>0, <1>3, <1>4, <1>5

\* The search counts as the theorems about finite sets do.
LEMMA SearchCounts == \A S : KS!Cardinality(S) = Cardinality(S)
  BY DEF KS!Cardinality, Cardinality

(* A finite set of numbers, sorted. *)
LEMMA SortedNumbers ==
  ASSUME NEW S, IsFiniteSet(S), S \subseteq Int
  PROVE  /\ Cardinality(S) \in Nat /\ KS!Sorted(S, <) \in [1..Cardinality(S) -> S]
         /\ \A x \in S : \E k \in 1..Cardinality(S) : KS!Sorted(S, <)[k] = x
         /\ \A j, k \in 1..Cardinality(S) : j < k => KS!Sorted(S, <)[j] < KS!Sorted(S, <)[k]
<1> DEFINE before == [x \in S |-> {y \in S : y < x}]
           q == [k \in 1..KS!Cardinality(S) |-> CHOOSE x \in S : KS!Cardinality({y \in S : y < x}) = k - 1]
<1>1. KS!Sorted(S, <) = q BY DEF KS!Sorted
<1>2. before \in [S -> SUBSET S] /\ \A x \in S : x \in Int /\ x \notin before[x] OBVIOUS
<1>3. \A x, y \in S : y \in before[x] => before[y] \subseteq before[x]
  <2> SUFFICES ASSUME NEW x \in S, NEW y \in before[x], NEW z \in before[y] PROVE z \in before[x] OBVIOUS
  <2>1. x \in Int /\ y \in S /\ y \in Int /\ y < x BY <1>2
  <2>2. z \in S /\ z \in Int /\ z < y BY <1>2, <2>1
  <2>3. z < x BY <2>1, <2>2
  <2> QED BY <2>2, <2>3
<1>4. \A x, y \in S : x # y => x \in before[y] \/ y \in before[x] BY <1>2
<1>5. ASSUME NEW k \in 1..Cardinality(S), \E x \in S : Cardinality(before[x]) = k - 1 PROVE q[k] \in S /\ Cardinality(before[q[k]]) = k - 1
  <2>1. \E x \in S : KS!Cardinality({y \in S : y < x}) = k - 1 BY <1>5, SearchCounts
  <2>2. q[k] = CHOOSE x \in S : KS!Cardinality({y \in S : y < x}) = k - 1 BY SearchCounts
  <2>3. q[k] \in S /\ KS!Cardinality({y \in S : y < q[k]}) = k - 1 BY <2>1, <2>2
  <2>4. before[q[k]] = {y \in S : y < q[k]} BY <2>3
  <2> QED BY <2>3, <2>4, SearchCounts
<1>6. q = [k \in 1..Cardinality(S) |-> q[k]]
  <2>1. KS!Cardinality(S) = Cardinality(S) BY SearchCounts
  <2> QED BY <2>1, SMTT(60)
<1>7. \A x, y \in S : y \in before[x] => y < x OBVIOUS
<1>8. /\ Cardinality(S) \in Nat /\ q \in [1..Cardinality(S) -> S]
      /\ \A x \in S : \E k \in 1..Cardinality(S) : q[k] = x
      /\ \A j, k \in 1..Cardinality(S) : j < k => q[j] # q[k] /\ q[j] \in before[q[k]]
  <2> HIDE DEF q, before
  <2> QED BY <1>2, <1>3, <1>4, <1>5, <1>6, Sorting
<1> HIDE DEF q, before
<1> QED BY <1>1, <1>7, <1>8

\* The numbers up to one are finitely many, that many.
LEMMA UpTo == ASSUME NEW c \in Nat PROVE IsFiniteSet(1..c) /\ Cardinality(1..c) = c
  BY FS_Interval

\* A function on 1..m is a sequence of m.
LEMMA AsSequence == ASSUME NEW X, NEW m \in Nat, NEW s \in [1..m -> X] PROVE s \in Seq(X) /\ Len(s) = m /\ DOMAIN s = 1..m
<1>1. s \in Seq(X) BY IsASeq
<1>2. DOMAIN s = 1..m /\ DOMAIN s = 1..Len(s) /\ Len(s) \in Nat BY <1>1, LenProperties
<1>3. Len(s) = m
  <2>1. \A a, b \in Nat : 1..a = 1..b => a = b
    <3> SUFFICES ASSUME NEW a \in Nat, NEW b \in Nat, 1..a = 1..b, a # b PROVE FALSE OBVIOUS
    <3>1. CASE a < b
      <4>1. b \in 1..b /\ b \notin 1..a BY <3>1
      <4> QED BY <4>1
    <3>2. CASE b < a
      <4>1. a \in 1..a /\ a \notin 1..b BY <3>2
      <4> QED BY <4>1
    <3> QED BY <3>1, <3>2
  <2> QED BY <1>2, <2>1
<1> QED BY <1>1, <1>2, <1>3

\* What a sequence has.
Entries(s) == {s[k] : k \in 1..Len(s)}
\* They are what ToSet gives.
LEMMA EntriesAre == ASSUME NEW X, NEW s \in Seq(X) PROVE KS!ToSet(s) = Entries(s) /\ Entries(s) \subseteq X /\ Len(s) \in Nat
<1>1. DOMAIN s = 1..Len(s) /\ Len(s) \in Nat /\ \A k \in 1..Len(s) : s[k] \in X BY LenProperties, ElementOfSeq
<1> QED BY <1>1 DEF KS!ToSet, Entries

\* Finitely many, and no more than the sequence is long.
LEMMA EntriesFinite == ASSUME NEW X, NEW s \in Seq(X) PROVE IsFiniteSet(Entries(s)) /\ Cardinality(Entries(s)) <= Len(s) /\ Cardinality(Entries(s)) \in Nat
<1>1. DOMAIN s = 1..Len(s) /\ Len(s) \in Nat BY LenProperties
<1>2. s \in [1..Len(s) -> Entries(s)] BY <1>1 DEF Entries
<1>3. s \in Surjection(1..Len(s), Entries(s)) BY <1>2 DEF Surjection, Entries
<1>4. IsFiniteSet(1..Len(s)) /\ Cardinality(1..Len(s)) = Len(s) BY <1>1, FS_Interval
<1>5. IsFiniteSet(Entries(s)) /\ Cardinality(Entries(s)) <= Cardinality(1..Len(s)) BY <1>3, <1>4, FS_Surjection
<1> QED BY <1>4, <1>5, FS_CardinalityType

\* Entries at different places of one are entries at different places of the other.
Picks(q, s) == \A j, k \in 1..Len(q) : j # k => \E a, b \in 1..Len(s) : a # b /\ q[j] = s[a] /\ q[k] = s[b]

\* The first of a sequence.
LEMMA Beginning == ASSUME NEW X, NEW s \in Seq(X), NEW m \in Nat
                PROVE  LET q == KS!FirstOf(s, m) IN
                       /\ q \in Seq(X) /\ Len(q) <= m /\ Len(q) <= Len(s) /\ (m >= Len(s) => q = s) /\ (m <= Len(s) => Len(q) = m)
                       /\ Len(q) \in Nat /\ Entries(q) \subseteq Entries(s) /\ \A k \in 1..Len(q) : q[k] = s[k]
<1> DEFINE q == KS!FirstOf(s, m)
           c == KS!Min({m, Len(s)})
<1>1. Len(s) \in Nat BY LenProperties
<1>2. c \in {m, Len(s)} /\ c <= m /\ c <= Len(s)
  <2>1. c = CHOOSE x \in {m, Len(s)} : \A y \in {m, Len(s)} : x <= y BY DEF KS!Min
  <2>2. \E x \in {m, Len(s)} : \A y \in {m, Len(s)} : x <= y BY <1>1
  <2> QED BY <2>1, <2>2
<1>3. c \in Nat BY <1>1, <1>2
<1>4. q = SubSeq(s, 1, c) BY DEF KS!FirstOf
<1> HIDE DEF c, q
<1>5. q \in Seq(X) /\ Len(q) = c /\ \A k \in 1..c : q[k] = s[k]
  BY <1>1, <1>2, <1>3, <1>4
<1>6. m >= Len(s) => q = s
  <2>1. m >= Len(s) => c = Len(s) BY <1>1, <1>2
  <2> QED BY <1>4, <2>1, SubSeqFull
<1>7. Entries(q) \subseteq Entries(s) BY <1>1, <1>2, <1>3, <1>5 DEF Entries
<1> QED BY <1>1, <1>2, <1>3, <1>5, <1>6, <1>7 DEF q

\* Two sequences, one after the other.
LEMMA Joined == ASSUME NEW X, NEW s \in Seq(X), NEW t \in Seq(X)
                PROVE  /\ s \o t \in Seq(X) /\ Len(s \o t) = Len(s) + Len(t) /\ Entries(s \o t) = Entries(s) \union Entries(t)
                       /\ \A k \in 1..Len(s) : (s \o t)[k] = s[k]
                       /\ \A k \in 1..Len(t) : (s \o t)[Len(s) + k] = t[k]
                       /\ \A k \in 1..Len(s \o t) : k > Len(s) => (k - Len(s) \in 1..Len(t) /\ (s \o t)[k] = t[k - Len(s)])
<1>1. Len(s) \in Nat /\ Len(t) \in Nat BY LenProperties
<1>2. s \o t \in Seq(X) /\ Len(s \o t) = Len(s) + Len(t) /\ \A k \in 1..Len(s) + Len(t) : (s \o t)[k] = IF k <= Len(s) THEN s[k] ELSE t[k - Len(s)]
  BY ConcatProperties
<1>3. \A k \in 1..Len(s) : (s \o t)[k] = s[k] BY <1>1, <1>2
<1>4. \A k \in 1..Len(t) : Len(s) + k \in 1..Len(s \o t) /\ (s \o t)[Len(s) + k] = t[k] BY <1>1, <1>2
<1>5. \A k \in 1..Len(s \o t) : k > Len(s) => (k - Len(s) \in 1..Len(t) /\ (s \o t)[k] = t[k - Len(s)]) BY <1>1, <1>2
<1>6. Entries(s \o t) = Entries(s) \union Entries(t)
  <2>1. \A e \in Entries(s \o t) : e \in Entries(s) \union Entries(t)
    <3> SUFFICES ASSUME NEW k \in 1..Len(s \o t) PROVE (s \o t)[k] \in Entries(s) \union Entries(t) BY DEF Entries
    <3>1. k <= Len(s) => k \in 1..Len(s) BY <1>1, <1>2
    <3> QED BY <1>1, <1>2, <1>3, <1>5, <3>1 DEF Entries
  <2>2. \A k \in 1..Len(s) : k \in 1..Len(s \o t) BY <1>1, <1>2
  <2>3. Entries(s) \subseteq Entries(s \o t) BY <1>3, <2>2 DEF Entries
  <2>4. Entries(t) \subseteq Entries(s \o t) BY <1>4 DEF Entries
  <2> QED BY <2>1, <2>3, <2>4
<1> QED BY <1>2, <1>3, <1>4, <1>5, <1>6

\* What is kept of a sequence: the places that are, in order.
LEMMA KeptPlaces ==
  ASSUME NEW X, NEW s \in Seq(X), NEW K \in SUBSET (1..Len(s)), NEW c \in Nat, NEW places \in [1..c -> K],
         \A x \in K : \E k \in 1..c : places[k] = x, \A j, k \in 1..c : j < k => places[j] < places[k],
         NEW V, NEW q \in [1..c -> V], \A k \in 1..c : q[k] = s[places[k]]
  PROVE  q \in Seq(X) /\ Entries(q) = {s[k] : k \in K} /\ Picks(q, s)
<1>1. Len(s) \in Nat /\ \A k \in 1..Len(s) : s[k] \in X BY LenProperties, ElementOfSeq
<1>4. q \in [1..c -> X] /\ \A k \in 1..c : q[k] = s[places[k]]
  <2>1. \A k \in 1..c : places[k] \in 1..Len(s) OBVIOUS
  <2> QED BY <1>1, <2>1
<1>5. q \in Seq(X) /\ Len(q) = c BY <1>4, AsSequence
<1>6. Entries(q) = {s[k] : k \in K}
  <2>1. \A k \in 1..c : q[k] = s[places[k]] /\ places[k] \in K BY <1>4
  <2>2. ASSUME NEW e \in Entries(q) PROVE e \in {s[k] : k \in K}
    <3>1. PICK k \in 1..c : e = q[k] BY <1>5 DEF Entries
    <3> QED BY <2>1, <3>1
  <2>3. ASSUME NEW x \in K PROVE s[x] \in Entries(q)
    <3>1. PICK k \in 1..c : places[k] = x OBVIOUS
    <3> QED BY <1>5, <2>1, <3>1 DEF Entries
  <2> QED BY <2>2, <2>3
<1>7. Picks(q, s)
  <2> SUFFICES ASSUME NEW j \in 1..Len(q), NEW k \in 1..Len(q), j # k PROVE \E a, b \in 1..Len(s) : a # b /\ q[j] = s[a] /\ q[k] = s[b]
    BY DEF Picks
  <2>0. j \in 1..c /\ k \in 1..c /\ q[j] = s[places[j]] /\ q[k] = s[places[k]] BY <1>4, <1>5
  <2>1. places[j] \in K /\ places[k] \in K /\ places[j] \in Int /\ places[k] \in Int
    <3>1. \A x \in K : x \in 1..Len(s) OBVIOUS
    <3>2. \A x \in 1..Len(s) : x \in Int BY <1>1
    <3>3. places[j] \in K /\ places[k] \in K BY <2>0
    <3> QED BY <3>1, <3>2, <3>3
  <2>2. j < k \/ k < j BY <2>0
  <2>3. places[j] < places[k] \/ places[k] < places[j] BY <2>0, <2>2
  <2> QED BY <2>0, <2>1, <2>3
<1> QED BY <1>5, <1>6, <1>7

\* What is at such places, in their order.
PlacesOf(K) == KS!Sorted(K, <)
TakenAt(q, s, K) == q = [k \in DOMAIN PlacesOf(K) |-> s[PlacesOf(K)[k]]]
\* They are the sequence's entries at those places, in another place each.
LEMMA Taken ==
  ASSUME NEW X, NEW s \in Seq(X), NEW K \in SUBSET (1..Len(s)), NEW q, TakenAt(q, s, K)
  PROVE  q \in Seq(X) /\ Entries(q) = {s[k] : k \in K} /\ Picks(q, s)
<1>1. Len(s) \in Nat BY LenProperties
<1>2. IsFiniteSet(1..Len(s)) BY <1>1, UpTo
<1>3. IsFiniteSet(K) BY <1>2, FS_Subset
<1>4. K \subseteq Int BY <1>1
<1>5. PICK places : places = PlacesOf(K) OBVIOUS
<1>6. PICK c : c = Cardinality(K) OBVIOUS
<1>7. /\ c \in Nat /\ places \in [1..c -> K] /\ \A x \in K : \E k \in 1..c : places[k] = x
      /\ \A j, k \in 1..c : j < k => places[j] < places[k]
  BY <1>3, <1>4, <1>5, <1>6, SortedNumbers DEF PlacesOf
<1>8. q = [k \in DOMAIN places |-> s[places[k]]] BY <1>5 DEF TakenAt
<1>9. q \in [1..c -> {q[k] : k \in 1..c}] /\ \A k \in 1..c : q[k] = s[places[k]] BY <1>7, <1>8
<1> QED BY <1>7, <1>9, KeptPlaces, ZenonT(60)

\* The least and the greatest of a finite set of numbers.
LEMMA Extremes == ASSUME NEW S, IsFiniteSet(S), S \subseteq Int, S # {}
                  PROVE  /\ KS!Min(S) \in S /\ \A x \in S : KS!Min(S) <= x
                         /\ KS!Max(S) \in S /\ \A x \in S : x <= KS!Max(S)
<1> DEFINE q == KS!Sorted(S, <)
           c == Cardinality(S)
<1>1. /\ c \in Nat /\ q \in [1..c -> S]
      /\ \A x \in S : \E k \in 1..c : q[k] = x
      /\ \A j, k \in 1..c : j < k => q[j] < q[k]
  BY SortedNumbers
<1>2. \A x \in S : x \in Int OBVIOUS
<1> HIDE DEF q, c
<1>3. c >= 1 /\ 1 \in 1..c /\ c \in 1..c
  <2>1. PICK x \in S : TRUE OBVIOUS
  <2>2. PICK k \in 1..c : q[k] = x BY <1>1, <2>1
  <2> QED BY <1>1, <2>2
<1>4. q[1] \in S /\ \A x \in S : q[1] <= x
  <2>1. ASSUME NEW x \in S PROVE q[1] <= x
    <3>1. PICK k \in 1..c : q[k] = x BY <1>1
    <3>2. q[1] \in Int /\ x \in Int BY <1>1, <1>2, <1>3
    <3>3. CASE k = 1 BY <3>1, <3>2, <3>3
    <3>4. CASE 1 < k BY <1>1, <1>3, <3>1, <3>2, <3>4
    <3> QED BY <1>1, <3>3, <3>4
  <2> QED BY <1>1, <1>3, <2>1
<1>5. q[c] \in S /\ \A x \in S : x <= q[c]
  <2>1. ASSUME NEW x \in S PROVE x <= q[c]
    <3>1. PICK k \in 1..c : q[k] = x BY <1>1
    <3>2. q[c] \in Int /\ x \in Int BY <1>1, <1>2, <1>3
    <3>3. CASE k = c BY <3>1, <3>2, <3>3
    <3>4. CASE k < c BY <1>1, <1>3, <3>1, <3>2, <3>4
    <3> QED BY <1>1, <3>3, <3>4
  <2> QED BY <1>1, <1>3, <2>1
<1>6. KS!Min(S) \in S /\ \A x \in S : KS!Min(S) <= x
  <2>1. \E x \in S : \A y \in S : x <= y BY <1>4
  <2> QED BY <2>1 DEF KS!Min
<1>7. KS!Max(S) \in S /\ \A x \in S : x <= KS!Max(S)
  <2>1. \E x \in S : \A y \in S : x >= y BY <1>2, <1>5
  <2>2. KS!Max(S) \in S /\ \A y \in S : KS!Max(S) >= y BY <2>1 DEF KS!Max
  <2> QED BY <1>2, <2>2
<1> QED BY <1>6, <1>7

\* What is asked, and what comes of it.
RowKinds == {"match", "floor", "outline", "neighbour", "child"}
Results == [id : Int, score : Int, kind : RowKinds]
ScoresDiffer(R) == \A q, r \in R : q.score = r.score => q = r

\* Rows of different scores, best first.
LEMMA RowsByScore ==
  ASSUME NEW S, IsFiniteSet(S), S \subseteq Results, ScoresDiffer(S)
  PROVE  /\ Cardinality(S) \in Nat /\ KS!ByScore(S) \in [1..Cardinality(S) -> S]
         /\ \A x \in S : \E k \in 1..Cardinality(S) : KS!ByScore(S)[k] = x
         /\ \A j, k \in 1..Cardinality(S) : j < k => KS!ByScore(S)[j] # KS!ByScore(S)[k] /\ KS!ByScore(S)[j].score > KS!ByScore(S)[k].score
<1> DEFINE before == [x \in S |-> {y \in S : y.score > x.score}]
           pick(k) == CHOOSE x \in S : KS!Cardinality({y \in S : y.score > x.score}) = k - 1
           q == [k \in 1..KS!Cardinality(S) |-> pick(k)]
<1>1. KS!ByScore(S) = q BY DEF KS!ByScore, KS!Best, KS!Sorted
<1>2. before \in [S -> SUBSET S] /\ \A x \in S : x.score \in Int /\ x \notin before[x] BY DEF Results
<1>3. \A x, y \in S : y \in before[x] => before[y] \subseteq before[x]
  <2> SUFFICES ASSUME NEW x \in S, NEW y \in before[x], NEW z \in before[y] PROVE z \in before[x] OBVIOUS
  <2>1. y \in S /\ y.score > x.score OBVIOUS
  <2>2. z \in S /\ z.score > y.score BY <2>1
  <2>3. z.score > x.score BY <1>2, <2>1, <2>2
  <2> QED BY <2>2, <2>3
<1>4. \A x, y \in S : x # y => x \in before[y] \/ y \in before[x] BY <1>2 DEF ScoresDiffer
<1>5. ASSUME NEW k \in 1..Cardinality(S), \E x \in S : Cardinality(before[x]) = k - 1 PROVE q[k] \in S /\ Cardinality(before[q[k]]) = k - 1
  <2>1. \E x \in S : KS!Cardinality({y \in S : y.score > x.score}) = k - 1 BY <1>5, SearchCounts
  <2>2. q[k] = CHOOSE x \in S : KS!Cardinality({y \in S : y.score > x.score}) = k - 1 BY SearchCounts
  <2>3. q[k] \in S /\ KS!Cardinality({y \in S : y.score > q[k].score}) = k - 1 BY <2>1, <2>2
  <2>4. before[q[k]] = {y \in S : y.score > q[k].score} BY <2>3
  <2> QED BY <2>3, <2>4, SearchCounts
<1>6. q = [k \in 1..Cardinality(S) |-> q[k]]
  <2> HIDE DEF pick
  <2> HIDE DEF pick
  <2>1. q = [k \in 1..KS!Cardinality(S) |-> q[k]] OBVIOUS
  <2>2. KS!Cardinality(S) = Cardinality(S) BY SearchCounts
  <2> HIDE DEF q
  <2> QED BY <2>1, <2>2
<1>7. \A x, y \in S : y \in before[x] => y.score > x.score OBVIOUS
<1>8. /\ Cardinality(S) \in Nat /\ q \in [1..Cardinality(S) -> S]
      /\ \A x \in S : \E k \in 1..Cardinality(S) : q[k] = x
      /\ \A j, k \in 1..Cardinality(S) : j < k => q[j] # q[k] /\ q[j] \in before[q[k]]
  <2> HIDE DEF q, before
  <2> QED BY <1>2, <1>3, <1>4, <1>5, <1>6, Sorting
<1> HIDE DEF q, before
<1> QED BY <1>1, <1>7, <1>8

\* Items are numbered.
ItemsAre == IsFiniteSet(Sections) /\ Cardinality(Sections) \in Nat /\ Sections = 1..Cardinality(Sections)
\* The assumption about them says so.
LEMMA SearchIsOf == ASSUME KS!SearchAssumption PROVE ItemsAre /\ IsFiniteSet(Sources)
<1>1. KS!IsFiniteSet(Sections) /\ Sections = 1..KS!Cardinality(Sections) /\ KS!IsFiniteSet(Sources) BY DEF KS!SearchAssumption
<1>2. \A S : KS!IsFiniteSet(S) => IsFiniteSet(S) BY DEF KS!IsFiniteSet, IsFiniteSet
<1>3. IsFiniteSet(Sections) /\ IsFiniteSet(Sources) BY <1>1, <1>2
<1>4. KS!Cardinality(Sections) = Cardinality(Sections) BY SearchCounts
<1> QED BY <1>1, <1>3, <1>4, FS_CardinalityType DEF ItemsAre

\* Different items have different scores.
LEMMA ScoresOfItems == ASSUME ItemsAre, NEW i \in Sections, NEW j \in Sections
                       PROVE  /\ KS!Similarity(i) \in Int /\ KS!ScoreOf(i) \in Int
                              /\ (i # j => KS!Similarity(i) # KS!Similarity(j) /\ KS!ScoreOf(i) # KS!ScoreOf(j))
<1>1. KS!Cardinality(Sections) = Cardinality(Sections) BY SearchCounts
<1>2. i \in Nat /\ j \in Nat BY DEF ItemsAre
<1> QED BY <1>1, <1>2 DEF ItemsAre, KS!Similarity, KS!ScoreOf, KS!Fused, KS!Scale

\* Items, the most similar first.
LEMMA ItemsBySimilarity ==
  ASSUME ItemsAre, NEW S \in SUBSET Sections
  PROVE  /\ Cardinality(S) \in Nat /\ KS!Best(S, KS!Similarity) \in [1..Cardinality(S) -> S]
         /\ \A x \in S : \E k \in 1..Cardinality(S) : KS!Best(S, KS!Similarity)[k] = x
         /\ \A j, k \in 1..Cardinality(S) : j < k => KS!Best(S, KS!Similarity)[j] # KS!Best(S, KS!Similarity)[k]
<1> DEFINE before == [x \in S |-> {y \in S : KS!Similarity(y) > KS!Similarity(x)}]
           pick(k) == CHOOSE x \in S : KS!Cardinality({y \in S : KS!Similarity(y) > KS!Similarity(x)}) = k - 1
           q == [k \in 1..KS!Cardinality(S) |-> pick(k)]
<1>1. KS!Best(S, KS!Similarity) = q BY DEF KS!Best, KS!Sorted
<1>0. IsFiniteSet(S) BY FS_Subset DEF ItemsAre
<1>2. before \in [S -> SUBSET S] /\ \A x \in S : KS!Similarity(x) \in Int /\ x \notin before[x] BY ScoresOfItems
<1>3. \A x, y \in S : y \in before[x] => before[y] \subseteq before[x]
  <2> SUFFICES ASSUME NEW x \in S, NEW y \in before[x], NEW z \in before[y] PROVE z \in before[x] OBVIOUS
  <2>1. y \in S /\ KS!Similarity(y) > KS!Similarity(x) OBVIOUS
  <2>2. z \in S /\ KS!Similarity(z) > KS!Similarity(y) BY <2>1
  <2>3. KS!Similarity(z) > KS!Similarity(x) BY <1>2, <2>1, <2>2
  <2> QED BY <2>2, <2>3
<1>4. \A x, y \in S : x # y => x \in before[y] \/ y \in before[x] BY <1>2, ScoresOfItems
<1>5. ASSUME NEW k \in 1..Cardinality(S), \E x \in S : Cardinality(before[x]) = k - 1 PROVE q[k] \in S /\ Cardinality(before[q[k]]) = k - 1
  <2>1. \E x \in S : KS!Cardinality({y \in S : KS!Similarity(y) > KS!Similarity(x)}) = k - 1 BY <1>5, SearchCounts
  <2>2. q[k] = CHOOSE x \in S : KS!Cardinality({y \in S : KS!Similarity(y) > KS!Similarity(x)}) = k - 1 BY SearchCounts
  <2>3. q[k] \in S /\ KS!Cardinality({y \in S : KS!Similarity(y) > KS!Similarity(q[k])}) = k - 1 BY <2>1, <2>2
  <2>4. before[q[k]] = {y \in S : KS!Similarity(y) > KS!Similarity(q[k])} BY <2>3
  <2> QED BY <2>3, <2>4, SearchCounts
<1>6. q = [k \in 1..Cardinality(S) |-> q[k]]
  <2> HIDE DEF pick
  <2>1. q = [k \in 1..KS!Cardinality(S) |-> q[k]] OBVIOUS
  <2>2. KS!Cardinality(S) = Cardinality(S) BY SearchCounts
  <2> HIDE DEF q
  <2> QED BY <2>1, <2>2
<1>8. /\ Cardinality(S) \in Nat /\ q \in [1..Cardinality(S) -> S]
      /\ \A x \in S : \E k \in 1..Cardinality(S) : q[k] = x
      /\ \A j, k \in 1..Cardinality(S) : j < k => q[j] # q[k] /\ q[j] \in before[q[k]]
  <2> HIDE DEF q, before
  <2> QED BY <1>0, <1>2, <1>3, <1>4, <1>5, <1>6, Sorting
<1> HIDE DEF q, before
<1> QED BY <1>1, <1>8

\* Items, by the score their retrieval gives them.
LEMMA ItemsByScore ==
  ASSUME ItemsAre, NEW S \in SUBSET Sections
  PROVE  /\ Cardinality(S) \in Nat /\ KS!Best(S, KS!ScoreOf) \in [1..Cardinality(S) -> S]
         /\ \A x \in S : \E k \in 1..Cardinality(S) : KS!Best(S, KS!ScoreOf)[k] = x
         /\ \A j, k \in 1..Cardinality(S) : j < k => KS!Best(S, KS!ScoreOf)[j] # KS!Best(S, KS!ScoreOf)[k]
<1> DEFINE before == [x \in S |-> {y \in S : KS!ScoreOf(y) > KS!ScoreOf(x)}]
           pick(k) == CHOOSE x \in S : KS!Cardinality({y \in S : KS!ScoreOf(y) > KS!ScoreOf(x)}) = k - 1
           q == [k \in 1..KS!Cardinality(S) |-> pick(k)]
<1>1. KS!Best(S, KS!ScoreOf) = q BY DEF KS!Best, KS!Sorted
<1>0. IsFiniteSet(S) BY FS_Subset DEF ItemsAre
<1>2. before \in [S -> SUBSET S] /\ \A x \in S : KS!ScoreOf(x) \in Int /\ x \notin before[x] BY ScoresOfItems
<1>3. \A x, y \in S : y \in before[x] => before[y] \subseteq before[x]
  <2> SUFFICES ASSUME NEW x \in S, NEW y \in before[x], NEW z \in before[y] PROVE z \in before[x] OBVIOUS
  <2>1. y \in S /\ KS!ScoreOf(y) > KS!ScoreOf(x) OBVIOUS
  <2>2. z \in S /\ KS!ScoreOf(z) > KS!ScoreOf(y) BY <2>1
  <2>3. KS!ScoreOf(z) > KS!ScoreOf(x) BY <1>2, <2>1, <2>2
  <2> QED BY <2>2, <2>3
<1>4. \A x, y \in S : x # y => x \in before[y] \/ y \in before[x] BY <1>2, ScoresOfItems
<1>5. ASSUME NEW k \in 1..Cardinality(S), \E x \in S : Cardinality(before[x]) = k - 1 PROVE q[k] \in S /\ Cardinality(before[q[k]]) = k - 1
  <2>1. \E x \in S : KS!Cardinality({y \in S : KS!ScoreOf(y) > KS!ScoreOf(x)}) = k - 1 BY <1>5, SearchCounts
  <2>2. q[k] = CHOOSE x \in S : KS!Cardinality({y \in S : KS!ScoreOf(y) > KS!ScoreOf(x)}) = k - 1 BY SearchCounts
  <2>3. q[k] \in S /\ KS!Cardinality({y \in S : KS!ScoreOf(y) > KS!ScoreOf(q[k])}) = k - 1 BY <2>1, <2>2
  <2>4. before[q[k]] = {y \in S : KS!ScoreOf(y) > KS!ScoreOf(q[k])} BY <2>3
  <2> QED BY <2>3, <2>4, SearchCounts
<1>6. q = [k \in 1..Cardinality(S) |-> q[k]]
  <2> HIDE DEF pick
  <2>1. q = [k \in 1..KS!Cardinality(S) |-> q[k]] OBVIOUS
  <2>2. KS!Cardinality(S) = Cardinality(S) BY SearchCounts
  <2> HIDE DEF q
  <2> QED BY <2>1, <2>2
<1>8. /\ Cardinality(S) \in Nat /\ q \in [1..Cardinality(S) -> S]
      /\ \A x \in S : \E k \in 1..Cardinality(S) : q[k] = x
      /\ \A j, k \in 1..Cardinality(S) : j < k => q[j] # q[k] /\ q[j] \in before[q[k]]
  <2> HIDE DEF q, before
  <2> QED BY <1>0, <1>2, <1>3, <1>4, <1>5, <1>6, Sorting
<1> HIDE DEF q, before
<1> QED BY <1>1, <1>8

\* The scores of finitely many rows are finitely many.
LEMMA ScoresFinite == ASSUME NEW R, IsFiniteSet(R) PROVE IsFiniteSet({r.score : r \in R})
<1> DEFINE f == [r \in R |-> r.score]
<1>1. f \in Surjection(R, {r.score : r \in R}) BY DEF Surjection
<1> QED BY <1>1, FS_Surjection

\* Two numbers of every item put the items in an order: more of the first, of the second where the first are even, the lower item where both are.
LEMMA ThreeKeys ==
  ASSUME NEW S \in SUBSET Int, NEW f \in [S -> Int], NEW g \in [S -> Int], NEW x \in S, NEW y \in S, NEW z \in S
  PROVE  LET ahead(a, b) == f[a] > f[b] \/ (f[a] = f[b] /\ (g[a] > g[b] \/ (g[a] = g[b] /\ a < b))) IN
         /\ ~ahead(x, x) /\ (ahead(z, y) /\ ahead(y, x) => ahead(z, x)) /\ (x # y => ahead(x, y) \/ ahead(y, x))
<1>1. f[x] \in Int /\ f[y] \in Int /\ f[z] \in Int /\ g[x] \in Int /\ g[y] \in Int /\ g[z] \in Int /\ x \in Int /\ y \in Int /\ z \in Int OBVIOUS
<1> QED BY <1>1

\* What is referred to: by how many of the results, and by which score at best.
LEMMA ReferredTo ==
  ASSUME ItemsAre, pool \in Seq(Results)
  PROVE  /\ IsFiniteSet(KS!Referenced) /\ KS!Referenced \subseteq Sections
         /\ \A i \in KS!Referenced : /\ \A k \in 1..Len(pool) : pool[k].id # i
                                     /\ Cardinality(KS!Hits(i)) \in Int /\ KS!Max({r.score : r \in KS!Hits(i)}) \in Int
<1>1. KS!ToSet(pool) = Entries(pool) /\ Entries(pool) \subseteq Results BY EntriesAre
<1>2. IsFiniteSet(Entries(pool)) BY EntriesFinite
<1>3. KS!Referenced \subseteq Sections BY DEF KS!Referenced
<1>4. IsFiniteSet(KS!Referenced) BY <1>3, FS_Subset DEF ItemsAre
<1>5. ASSUME NEW i \in KS!Referenced PROVE /\ \A k \in 1..Len(pool) : pool[k].id # i
                                          /\ Cardinality(KS!Hits(i)) \in Int /\ KS!Max({r.score : r \in KS!Hits(i)}) \in Int
  <2>1. i \notin KS!Ids(pool) /\ \E r \in Entries(pool) : i \in world.refs[r.id] BY <1>1 DEF KS!Referenced
  <2>2. \A k \in 1..Len(pool) : pool[k].id # i BY <1>1, <2>1 DEF KS!Ids, Entries
  <2>3. KS!Hits(i) \subseteq Entries(pool) /\ KS!Hits(i) # {} BY <1>1, <2>1 DEF KS!Hits
  <2>4. IsFiniteSet(KS!Hits(i)) BY <1>2, <2>3, FS_Subset
  <2> DEFINE scores == {r.score : r \in KS!Hits(i)}
  <2>5. IsFiniteSet(scores) BY <2>4, ScoresFinite
  <2>6. scores \subseteq Int /\ scores # {} BY <1>1, <2>3 DEF Results
  <2>7. KS!Max(scores) \in scores
    <3> HIDE DEF scores
    <3> QED BY <2>5, <2>6, Extremes
  <2>8. KS!Max(scores) \in Int BY <2>6, <2>7
  <2> QED BY <2>2, <2>4, <2>8, FS_CardinalityType
<1> QED BY <1>3, <1>4, <1>5

\* What is referred to, by how many refer to it.
LEMMA ItemsByConsensus ==
  ASSUME ItemsAre, pool \in Seq(Results)
  PROVE  LET S == KS!Referenced q == KS!Sorted(S, KS!Consensus) IN
         /\ Cardinality(S) \in Nat /\ q \in [1..Cardinality(S) -> S]
         /\ \A j, k \in 1..Cardinality(S) : j < k => q[j] # q[k]
<1> DEFINE S == KS!Referenced
           f == [x \in S |-> Cardinality(KS!Hits(x))]
           g == [x \in S |-> KS!Max({r.score : r \in KS!Hits(x)})]
           before == [x \in S |-> {y \in S : KS!Consensus(y, x)}]
           pick(k) == CHOOSE x \in S : KS!Cardinality({y \in S : KS!Consensus(y, x)}) = k - 1
           q == [k \in 1..KS!Cardinality(S) |-> pick(k)]
           ahead(a, b) == f[a] > f[b] \/ (f[a] = f[b] /\ (g[a] > g[b] \/ (g[a] = g[b] /\ a < b)))
<1>1. KS!Sorted(S, KS!Consensus) = q BY DEF KS!Sorted
<1>0. IsFiniteSet(S) /\ S \subseteq Int BY ReferredTo DEF ItemsAre
<1>a. f \in [S -> Int] /\ g \in [S -> Int] BY ReferredTo
<1>b. ASSUME NEW a \in S, NEW b \in S PROVE KS!Consensus(a, b) <=> ahead(a, b)
  <2>1. f[a] = Cardinality(KS!Hits(a)) /\ f[b] = Cardinality(KS!Hits(b)) /\ g[a] = KS!Max({r.score : r \in KS!Hits(a)}) /\ g[b] = KS!Max({r.score : r \in KS!Hits(b)}) OBVIOUS
  <2>2. KS!Cardinality(KS!Hits(a)) = Cardinality(KS!Hits(a)) /\ KS!Cardinality(KS!Hits(b)) = Cardinality(KS!Hits(b)) BY SearchCounts
  <2> HIDE DEF f, g, S
  <2> QED BY <2>1, <2>2 DEF KS!Consensus
<1>c. /\ \A x \in S : ~KS!Consensus(x, x)
      /\ \A x, y, z \in S : KS!Consensus(z, y) /\ KS!Consensus(y, x) => KS!Consensus(z, x)
      /\ \A x, y \in S : x # y => KS!Consensus(x, y) \/ KS!Consensus(y, x)
  <2> HIDE DEF f, g, S
  <2>1. \A x, y, z \in S : ~ahead(x, x) /\ (ahead(z, y) /\ ahead(y, x) => ahead(z, x)) /\ (x # y => ahead(x, y) \/ ahead(y, x))
    BY <1>0, <1>a, ThreeKeys
  <2> HIDE DEF ahead
  <2> QED BY <1>b, <2>1
<1>2. before \in [S -> SUBSET S] /\ \A x \in S : x \notin before[x] BY <1>c
<1>3. \A x, y \in S : y \in before[x] => before[y] \subseteq before[x] BY <1>c
<1>4. \A x, y \in S : x # y => x \in before[y] \/ y \in before[x] BY <1>c
<1>5. ASSUME NEW k \in 1..Cardinality(S), \E x \in S : Cardinality(before[x]) = k - 1 PROVE q[k] \in S /\ Cardinality(before[q[k]]) = k - 1
  <2>1. \E x \in S : KS!Cardinality({y \in S : KS!Consensus(y, x)}) = k - 1 BY <1>5, SearchCounts
  <2>2. q[k] = CHOOSE x \in S : KS!Cardinality({y \in S : KS!Consensus(y, x)}) = k - 1 BY SearchCounts
  <2>3. q[k] \in S /\ KS!Cardinality({y \in S : KS!Consensus(y, q[k])}) = k - 1 BY <2>1, <2>2
  <2>4. before[q[k]] = {y \in S : KS!Consensus(y, q[k])} BY <2>3
  <2> QED BY <2>3, <2>4, SearchCounts
<1>6. q = [k \in 1..Cardinality(S) |-> q[k]]
  <2> HIDE DEF pick, S
  <2>1. q = [k \in 1..KS!Cardinality(S) |-> q[k]] OBVIOUS
  <2>2. KS!Cardinality(S) = Cardinality(S) BY SearchCounts
  <2> HIDE DEF q
  <2> QED BY <2>1, <2>2
<1>8. /\ Cardinality(S) \in Nat /\ q \in [1..Cardinality(S) -> S]
      /\ \A x \in S : \E k \in 1..Cardinality(S) : q[k] = x
      /\ \A j, k \in 1..Cardinality(S) : j < k => q[j] # q[k] /\ q[j] \in before[q[k]]
  <2> HIDE DEF q, before, S
  <2> QED BY <1>0, <1>2, <1>3, <1>4, <1>5, <1>6, Sorting
<1> HIDE DEF q, before
<1> QED BY <1>1, <1>8

\* A row that was matched, of a document the caller allowed; such rows, no two of a section, no two of a score.
Fits(r) == r \in Results /\ r.kind \in {"match", "floor"} /\ r.id \in Sections /\ world.source[r.id] \in ask.sources
Fitting(s) == s \in Seq(Results) /\ \A k \in 1..Len(s) : Fits(s[k])
IdsApart(s) == \A j, k \in 1..Len(s) : j # k => s[j].id # s[k].id
ScoresApart(s) == \A j, k \in 1..Len(s) : j # k => s[j].score # s[k].score
\* What is asked, of which world.
Asked == /\ world \in Worlds /\ ask.method \in KS!Methods /\ ask.min \in 0..1 /\ ask.max \in 0..1 /\ ask.top \in 1..2
         /\ ask.sources \subseteq Sources
\* What a search has before its results, and with each method.
Way == /\ at \in Phases
       /\ at \notin {"metadata", "attached", "rerank", "reranking", "limits", "expand", "allowed", "done", "raised"} => "floor" \notin done
       /\ at \in {"ask", "query", "count", "primary", "retrieve", "tree", "select", "raised"} => pool = <<>>
       /\ at \in {"ask", "query", "count", "primary", "retrieve", "tree", "select", "floor"} => main = <<>>
       /\ ask.method = "tree_search" => "floor" \notin done /\ at \notin {"primary", "retrieve", "floor", "rerank", "reranking", "limits", "expand", "allowed"}
       /\ at \in {"tree", "select"} => ask.method = "tree_search"
       /\ at = "reranking" => ask.reranker
\* What was matched: what is found before it is mixed, each section once, with its own score.
Matched == Fitting(main) /\ \A k \in 1..Len(main) : main[k].kind = "match"
Fit == Fitting(pool) /\ IdsApart(pool)
Scored == ScoresApart(pool)
Fresh == \A k \in 1..Len(pool) : pool[k].kind = "match" /\ pool[k].score = KS!ScoreOf(pool[k].id)
Found == at = "floor" => Fit /\ Fresh
\* The floor is in what is mixed, and below what the keyword or fused ranking found.
FloorIn == "floor" \in done /\ ask.min > 0 => \A i \in KS!Floor : \E k \in 1..Len(pool) : pool[k].id = i
FloorLast == ask.method = "hybrid" /\ ~ask.reranker =>
                 /\ Entries(main) \subseteq Entries(pool)
                 /\ \A j, k \in 1..Len(pool) : pool[j].kind = "floor" => ask.min = 1 /\ (pool[k].kind = "match" => pool[j].score < pool[k].score)
Mixed == at \in {"metadata", "attached", "rerank", "reranking", "limits"} =>
            Fit /\ Scored /\ FloorIn /\ FloorLast
\* After the cut: a document of the floor, and a match's where the floor has a row, is there.
Documents == {KS!SourceOf(e) : e \in Entries(pool)}
FloorThere == "floor" \in done /\ ask.min > 0 /\ Cardinality(ask.sources) <= ask.top => \A i \in KS!Floor : world.source[i] \in Documents
MatchThere == ask.method = "hybrid" /\ ~ask.reranker =>
                 \A j \in 1..Len(pool) : pool[j].kind = "floor" => \A k \in 1..Len(main) : world.source[main[k].id] \in Documents
AddedBelow == \A j, k \in 1..Len(pool) : pool[j].kind \in {"match", "floor"} /\ pool[k].kind \in {"outline", "neighbour", "child"} => pool[k].score < pool[j].score
Apart == pool \in Seq(Results) /\ IdsApart(pool)
Answering == at \in {"expand", "allowed", "done"} => /\ Apart /\ AddedBelow /\ FloorThere /\ MatchThere
                                                     /\ at = "expand" => Fit
(* What a search owes its answer, phase by phase: what was asked, the matches, the
   mix with the floor in it, and the answer. *)
Owed == Asked /\ Way /\ Matched /\ Found /\ Mixed /\ Answering

\* Scores of a sequence's rows that differ make its places different rows, and the other way round.
LEMMA RowsOf ==
  ASSUME NEW s \in Seq(Results), IdsApart(s), ScoresApart(s)
  PROVE  LET R == Entries(s) IN
         /\ KS!ToSet(s) = R /\ IsFiniteSet(R) /\ R \subseteq Results /\ ScoresDiffer(R) /\ \A x, y \in R : x.id = y.id => x = y
<1>1. KS!ToSet(s) = Entries(s) /\ Entries(s) \subseteq Results BY EntriesAre
<1>2. IsFiniteSet(Entries(s)) BY EntriesFinite
<1>3. ASSUME NEW x \in Entries(s), NEW y \in Entries(s), x # y PROVE x.id # y.id /\ x.score # y.score
  <2>1. PICK j, k \in 1..Len(s) : x = s[j] /\ y = s[k] BY DEF Entries
  <2>2. j # k BY <1>3, <2>1
  <2> QED BY <2>1, <2>2 DEF IdsApart, ScoresApart
<1> QED BY <1>1, <1>2, <1>3 DEF ScoresDiffer

\* Of rows of different scores one is the best.
LEMMA BestRow ==
  ASSUME NEW R, IsFiniteSet(R), R \subseteq Results, R # {}
  PROVE  \E b \in R : \A x \in R : x.score <= b.score
<1> DEFINE scores == {r.score : r \in R}
<1>1. IsFiniteSet(scores) BY ScoresFinite
<1>2. scores \subseteq Int /\ scores # {} BY DEF Results
<1>3. \A x \in R : x.score \in scores OBVIOUS
<1>4. KS!Max(scores) \in scores /\ \A x \in scores : x <= KS!Max(scores)
  <2> HIDE DEF scores
  <2> QED BY <1>1, <1>2, Extremes
<1>5. PICK b \in R : b.score = KS!Max(scores) BY <1>4
<1>6. \A x \in R : x.score <= b.score BY <1>3, <1>4, <1>5
<1> QED BY <1>6

\* What the limits reserve a place for: the best row of every source, where each has a minimum of one.
LEMMA Reserves ==
  ASSUME Asked, NEW R, IsFiniteSet(R), R \subseteq Results, ScoresDiffer(R), \A r \in R : KS!SourceOf(r) \in ask.sources, IsFiniteSet(Sources)
  PROVE  LET first == KS!Reserved(KS!Capped(R)) IN
         /\ KS!Capped(R) \subseteq R /\ first \subseteq KS!Capped(R) /\ IsFiniteSet(KS!Capped(R)) /\ IsFiniteSet(first)
         /\ ask.min = 1 => /\ \A r \in R : \E b \in first : KS!SourceOf(b) = KS!SourceOf(r) /\ b.score >= r.score
                           /\ Cardinality(first) <= Cardinality(ask.sources)
<1> DEFINE capped == KS!Capped(R)
           first == KS!Reserved(capped)
           better(S, r) == {q \in S : KS!SourceOf(q) = KS!SourceOf(r) /\ q.score > r.score}
<1>1. capped \subseteq R /\ first \subseteq capped BY DEF KS!Capped, KS!Reserved
<1>2. IsFiniteSet(capped) BY <1>1, FS_Subset
<1>3. IsFiniteSet(first) BY <1>1, <1>2, FS_Subset
<1>4. \A r \in R : r \in capped <=> (ask.max = 0 \/ ask.max > Cardinality(better(R, r))) BY SearchCounts DEF KS!Capped
<1>5. \A r \in capped : r \in first <=> ask.min > Cardinality(better(capped, r)) BY SearchCounts DEF KS!Reserved
<1>6. Cardinality({}) = 0 BY FS_EmptySet
<1>7. ASSUME ask.min = 1, NEW r \in R PROVE \E b \in first : KS!SourceOf(b) = KS!SourceOf(r) /\ b.score >= r.score
  <2> DEFINE like == {q \in R : KS!SourceOf(q) = KS!SourceOf(r)}
  <2>1. IsFiniteSet(like) /\ like \subseteq Results /\ r \in like BY FS_Subset
  <2>2. PICK b \in like : \A x \in like : x.score <= b.score
    <3> HIDE DEF like
    <3> QED BY <2>1, BestRow
  <2>3. b \in R /\ KS!SourceOf(b) = KS!SourceOf(r) /\ b.score >= r.score BY <2>1, <2>2 DEF Results
  <2>4. better(R, b) = {}
    <3>1. ASSUME NEW x \in better(R, b) PROVE FALSE
      <4>1. x \in like /\ x.score > b.score BY <2>3
      <4>2. x.score \in Int /\ b.score \in Int BY <2>1, <4>1 DEF Results
      <4> QED BY <2>2, <4>1, <4>2
    <3> QED BY <3>1
  <2>5. b \in capped
    <3>1. Cardinality(better(R, b)) = 0 BY <1>6, <2>4
    <3>2. ask.max = 0 \/ ask.max > 0 BY DEF Asked
    <3> QED BY <1>4, <2>3, <3>1, <3>2
  <2>6. better(capped, b) = {} BY <1>1, <2>4
  <2>7. Cardinality(better(capped, b)) = 0 BY <1>6, <2>6
  <2>8. b \in first BY <1>5, <1>7, <2>5, <2>7
  <2> QED BY <2>3, <2>8
<1>8. ASSUME ask.min = 1 PROVE Cardinality(first) <= Cardinality(ask.sources)
  <2>1. ASSUME NEW x \in first, NEW y \in first, KS!SourceOf(x) = KS!SourceOf(y), x.score > y.score PROVE FALSE
    <3>1. x \in better(capped, y) /\ y \in capped BY <1>1, <2>1
    <3>2. better(capped, y) \subseteq capped OBVIOUS
    <3>3. IsFiniteSet(better(capped, y)) BY <1>2, <3>2, FS_Subset
    <3>4. Cardinality(better(capped, y)) \in Nat /\ Cardinality(better(capped, y)) # 0 BY <3>1, <3>3, FS_CardinalityType, FS_EmptySet
    <3>5. 1 > Cardinality(better(capped, y)) BY <1>5, <1>8, <3>1
    <3> QED BY <3>4, <3>5
  <2>2. ASSUME NEW x \in first, NEW y \in first, KS!SourceOf(x) = KS!SourceOf(y) PROVE x = y
    <3>1. x \in R /\ y \in R /\ x.score \in Int /\ y.score \in Int BY <1>1 DEF Results
    <3>2. x.score = y.score BY <2>1, <2>2, <3>1
    <3> QED BY <3>1, <3>2 DEF ScoresDiffer
  <2> DEFINE f == [x \in first |-> KS!SourceOf(x)]
  <2>3. f \in Injection(first, ask.sources) BY <1>1, <2>2 DEF Injection, IsInjective
  <2>4. IsFiniteSet(ask.sources) BY FS_Subset DEF Asked
  <2> QED BY <2>3, <2>4, FS_Injection
<1> QED BY <1>1, <1>2, <1>3, <1>7, <1>8

\* The cut: rows of the pool, each once; the best of a source whose minimum is one, where there is room for
\* one of each; and with a row the best of every source that has a better one.
LEMMA CutKeeps ==
  ASSUME Asked, NEW R, IsFiniteSet(R), R \subseteq Results, ScoresDiffer(R), \A r \in R : KS!SourceOf(r) \in ask.sources, IsFiniteSet(Sources)
  PROVE  LET s == KS!Cut(R) IN
         /\ s \in Seq(Results) /\ Entries(s) \subseteq R /\ \A j, k \in 1..Len(s) : j # k => s[j] # s[k]
         /\ ask.min = 1 /\ Cardinality(ask.sources) <= ask.top => \A r \in R : \E b \in Entries(s) : KS!SourceOf(b) = KS!SourceOf(r)
         /\ ask.min = 1 => \A f \in Entries(s), m \in R : f.score < m.score => \E b \in Entries(s) : KS!SourceOf(b) = KS!SourceOf(m)
<1> DEFINE first == KS!Reserved(KS!Capped(R))
           rest == KS!Capped(R) \ first
           front == KS!ByScore(first)
           back == KS!ByScore(rest)
           both == front \o back
           kept == KS!FirstOf(both, ask.top)
           s == KS!Cut(R)
<1>1. /\ KS!Capped(R) \subseteq R /\ first \subseteq KS!Capped(R) /\ IsFiniteSet(KS!Capped(R)) /\ IsFiniteSet(first)
      /\ ask.min = 1 => /\ \A r \in R : \E b \in first : KS!SourceOf(b) = KS!SourceOf(r) /\ b.score >= r.score
                        /\ Cardinality(first) <= Cardinality(ask.sources)
  BY Reserves
<1>2. IsFiniteSet(rest) /\ rest \subseteq R /\ first \subseteq R BY <1>1, FS_Subset
<1>3. ScoresDiffer(first) /\ ScoresDiffer(rest) BY <1>2 DEF ScoresDiffer
<1>4. s = KS!ByScore(KS!ToSet(kept)) BY DEF KS!Cut
<1> HIDE DEF first, rest
<1>5. /\ Cardinality(first) \in Nat /\ front \in [1..Cardinality(first) -> first]
      /\ \A x \in first : \E k \in 1..Cardinality(first) : front[k] = x
      /\ \A j, k \in 1..Cardinality(first) : j < k => front[j] # front[k] /\ front[j].score > front[k].score
  BY <1>1, <1>2, <1>3, RowsByScore
<1>6. Cardinality(rest) \in Nat /\ back \in [1..Cardinality(rest) -> rest]
  BY <1>2, <1>3, RowsByScore
<1> HIDE DEF front, back
<1>7. front \in Seq(R) /\ Len(front) = Cardinality(first)
  <2>1. front \in [1..Cardinality(first) -> R] BY <1>2, <1>5
  <2> QED BY <1>5, <2>1, AsSequence
<1>8. back \in Seq(R) /\ Len(back) = Cardinality(rest) /\ back \in Seq(rest)
  <2>1. back \in [1..Cardinality(rest) -> R] BY <1>2, <1>6
  <2> QED BY <1>6, <2>1, AsSequence
<1>9. /\ both \in Seq(R) /\ Len(both) = Len(front) + Len(back)
      /\ \A k \in 1..Len(front) : both[k] = front[k]
      /\ \A k \in 1..Len(both) : k > Len(front) => (k - Len(front) \in 1..Len(back) /\ both[k] = back[k - Len(front)])
  BY <1>7, <1>8, Joined, ZenonT(60)
<1> HIDE DEF both
<1>10. ask.top \in Nat BY DEF Asked
<1>11. /\ kept \in Seq(R) /\ Len(kept) <= ask.top /\ (ask.top >= Len(both) => kept = both) /\ (ask.top <= Len(both) => Len(kept) = ask.top)
       /\ Len(kept) \in Nat /\ \A k \in 1..Len(kept) : kept[k] = both[k]
  BY <1>9, <1>10, Beginning
<1> HIDE DEF kept
<1>12. KS!ToSet(kept) = Entries(kept) /\ Entries(kept) \subseteq R /\ IsFiniteSet(Entries(kept)) BY <1>11, EntriesAre, EntriesFinite
<1>13. ScoresDiffer(Entries(kept)) /\ Entries(kept) \subseteq Results BY <1>12 DEF ScoresDiffer
<1> DEFINE c == Cardinality(Entries(kept))
<1>14. /\ c \in Nat /\ s \in [1..c -> Entries(kept)]
       /\ \A x \in Entries(kept) : \E k \in 1..c : s[k] = x
       /\ \A j, k \in 1..c : j < k => s[j] # s[k]
  BY <1>4, <1>12, <1>13, RowsByScore
<1> HIDE DEF s, c
<1>15. s \in Seq(Results) /\ Len(s) = c
  <2>1. s \in [1..c -> Results] BY <1>13, <1>14
  <2> QED BY <1>14, <2>1, AsSequence
<1>16. Entries(s) = Entries(kept)
  <2>1. Entries(s) = {s[k] : k \in 1..c} BY <1>15 DEF Entries
  <2> HIDE DEF Entries
  <2> QED BY <1>14, <2>1
<1>17. \A j, k \in 1..Len(s) : j # k => s[j] # s[k]
  <2> SUFFICES ASSUME NEW j \in 1..c, NEW k \in 1..c, j # k PROVE s[j] # s[k] BY <1>15
  <2>1. j < k \/ k < j BY <1>14
  <2> QED BY <1>14, <2>1
<1>18. \A k \in 1..Len(kept) : kept[k] \in Entries(kept) BY DEF Entries
<1>19. ASSUME NEW j \in 1..Cardinality(first), j <= Len(kept) PROVE front[j] \in Entries(kept)
  <2>1. j \in 1..Len(kept) BY <1>5, <1>11, <1>19
  <2>2. kept[j] = front[j] BY <1>7, <1>9, <1>11, <2>1
  <2> QED BY <1>18, <2>1, <2>2
<1>20. ASSUME ask.min = 1, Cardinality(ask.sources) <= ask.top, NEW r \in R PROVE \E b \in Entries(s) : KS!SourceOf(b) = KS!SourceOf(r)
  <2>1. PICK b \in first : KS!SourceOf(b) = KS!SourceOf(r) BY <1>1, <1>20
  <2>2. PICK j \in 1..Cardinality(first) : front[j] = b BY <1>5
  <2>3. Cardinality(ask.sources) \in Nat BY FS_Subset, FS_CardinalityType DEF Asked
  <2>4. Cardinality(first) <= ask.top BY <1>1, <1>5, <1>10, <1>20, <2>3, SMTT(60)
  <2>5. Len(both) \in Nat /\ Cardinality(first) <= Len(both) BY <1>5, <1>6, <1>7, <1>8, <1>9
  <2>6. j <= Len(kept) BY <1>5, <1>10, <1>11, <2>4, <2>5
  <2>7. b \in Entries(kept) BY <1>19, <2>2, <2>6
  <2> QED BY <1>16, <2>1, <2>7
<1>21. ASSUME ask.min = 1, NEW f \in Entries(s), NEW m \in R, f.score < m.score PROVE \E b \in Entries(s) : KS!SourceOf(b) = KS!SourceOf(m)
  <2>1. PICK b \in first : KS!SourceOf(b) = KS!SourceOf(m) /\ b.score >= m.score BY <1>1, <1>21
  <2>2. PICK j \in 1..Cardinality(first) : front[j] = b BY <1>5
  <2>3. PICK p \in 1..Len(kept) : kept[p] = f BY <1>16 DEF Entries
  <2>4. f = both[p] /\ p \in Nat /\ f \in R BY <1>11, <1>12, <1>16, <2>3
  <2>5. f.score \in Int /\ m.score \in Int /\ b.score \in Int BY <1>2, <2>4 DEF Results
  <2>6. CASE p <= Cardinality(first)
    <3>1. p \in 1..Cardinality(first) /\ f = front[p] BY <1>5, <1>7, <1>9, <2>4, <2>6, <2>3
    <3>2. ~(p < j) BY <1>5, <2>1, <2>2, <2>5, <3>1, <1>21
    <3>3. j <= Len(kept) BY <1>11, <2>3, <3>2
    <3> QED BY <1>16, <1>19, <2>1, <2>2, <3>3
  <2>7. CASE ~(p <= Cardinality(first))
    <3>1. j <= Len(kept) BY <1>5, <1>11, <2>3, <2>7
    <3> QED BY <1>16, <1>19, <2>1, <2>2, <3>1
  <2> QED BY <1>5, <2>4, <2>6, <2>7
<1> QED BY <1>12, <1>15, <1>16, <1>17, <1>20, <1>21 DEF s

\* Where the rows stay, what is said of them does.
LEMMA SameRows ==
  ASSUME UNCHANGED <<world, ask, pool, main>>, "floor" \in done' <=> "floor" \in done
  PROVE  /\ (Asked => Asked') /\ (Matched => Matched')
         /\ (Fit => Fit') /\ (Fresh => Fresh') /\ (Apart => Apart') /\ (Scored => Scored')
         /\ (FloorIn => FloorIn') /\ (FloorLast => FloorLast') /\ (AddedBelow => AddedBelow') /\ (FloorThere => FloorThere') /\ (MatchThere => MatchThere')
<1>1. KS!Floor' = KS!Floor BY DEF KS!Floor, KS!Allowed
<1>2. Documents' = Documents BY DEF Documents, KS!SourceOf, Entries
<1>3. Asked => Asked' BY DEF Asked
<1>4. Matched => Matched' BY DEF Matched, Fitting, Fits
<1>5. Fit => Fit' BY DEF Fit, Fitting, Fits, IdsApart
<1>6. Fresh => Fresh' BY DEF Fresh, KS!ScoreOf
<1>7. (Apart => Apart') /\ (Scored => Scored') BY DEF Apart, IdsApart, Scored, ScoresApart
<1>8. FloorIn => FloorIn' BY <1>1 DEF FloorIn
<1>9. FloorLast => FloorLast' BY DEF FloorLast
<1>10. AddedBelow => AddedBelow' BY DEF AddedBelow
<1>11. FloorThere => FloorThere' BY <1>1, <1>2 DEF FloorThere
<1>12. MatchThere => MatchThere' BY <1>2 DEF MatchThere
<1> QED BY <1>3, <1>4, <1>5, <1>6, <1>7, <1>8, <1>9, <1>10, <1>11, <1>12

\* No rows are apart, and fit.
LEMMA NoRows == <<>> \in Seq(Results) /\ Fitting(<<>>) /\ IdsApart(<<>>)
<1>1. <<>> \in Seq(Results) /\ Len(<<>>) = 0 OBVIOUS
<1>2. \A k : k \notin 1..0 OBVIOUS
<1> QED BY <1>1, <1>2 DEF Fitting, IdsApart

\* What goes on with the rows it has, or has none.
LEMMA Keeps ==
  ASSUME Owed, UNCHANGED <<world, ask, pool, main>>, "floor" \in done' <=> "floor" \in done, Way',
         \/ at' = at
         \/ at' \notin {"floor", "metadata", "attached", "rerank", "reranking", "limits", "expand", "allowed", "done"}
         \/ {at, at'} \subseteq {"metadata", "attached", "rerank", "reranking", "limits"}
         \/ at \in {"metadata", "attached"} /\ at' = "done" /\ ask.method = "tree_search"
  PROVE  Owed'
<1> USE DEF Owed
<1>1. Asked' /\ Matched' BY SameRows
<1>2. Found'
  <2>1. at' = "floor" => at = "floor" OBVIOUS
  <2> QED BY <2>1, SameRows DEF Found
<1>3. Mixed' BY SameRows DEF Mixed
<1>4. Answering'
  <2>1. CASE at' = at BY <2>1, SameRows DEF Answering
  <2>2. CASE at \in {"metadata", "attached"} /\ at' = "done" /\ ask.method = "tree_search"
    <3>1. Fit BY <2>2 DEF Mixed
    <3>2. Apart /\ AddedBelow BY <3>1 DEF Fit, Apart, Fitting, Fits, AddedBelow
    <3>3. "floor" \notin done BY <2>2 DEF Way
    <3>4. FloorThere /\ MatchThere BY <2>2, <3>3 DEF FloorThere, MatchThere
    <3> QED BY <2>2, <3>1, <3>2, <3>4, SameRows DEF Answering
  <2>3. CASE at' \notin {"expand", "allowed", "done"} BY <2>3 DEF Answering
  <2> QED BY <2>1, <2>2, <2>3
<1> QED BY <1>1, <1>2, <1>3, <1>4

\* What raises answers nothing.
LEMMA RaisesNothing == ASSUME Owed, KS!Raises, UNCHANGED done PROVE Owed'
<1> USE DEF Owed, KS!Raises
<1>1. Asked' BY DEF Asked
<1>2. Matched' BY DEF Matched, Fitting, Fits
<1>3. Way' BY DEF Way, Phases
<1>4. Found' /\ Mixed' /\ Answering' BY DEF Found, Mixed, Answering
<1> QED BY <1>1, <1>2, <1>3, <1>4

\* The steps that leave the rows alone.
LEMMA PlainSteps ==
  ASSUME Owed, \/ KS!EnrichQuery \/ KS!Count \/ KS!CheckPrimary \/ KS!AttachMetadata \/ KS!ChargeMetadata \/ KS!CheckReranker \/ KS!CheckTree
  PROVE  Owed'
<1> USE DEF KS!Goes, KS!Charge, KS!Checks
<1>1. KS!Raises /\ UNCHANGED done => Owed' BY RaisesNothing
<1>2. CASE KS!EnrichQuery
  <2>1. CASE at' = "count"
    <3>1. at = "query" /\ UNCHANGED <<world, ask, pool, main>> /\ (done' = done \/ done' = done \union {"query_enrichment"}) BY <1>2, <2>1 DEF KS!EnrichQuery, KS!Raises
    <3>2. Way' BY <2>1, <3>1 DEF Owed, Way, Phases
    <3> QED BY <2>1, <3>1, <3>2, Keeps
  <2> QED BY <1>1, <1>2, <2>1 DEF KS!EnrichQuery
<1>3. CASE KS!Count
  <2>1. CASE at' # "raised"
    <3>1. at = "count" /\ UNCHANGED <<world, ask, pool, main, done>> /\ at' = (IF ask.method = "tree_search" THEN "tree" ELSE "primary") BY <1>3, <2>1 DEF KS!Count, KS!Raises
    <3>2. Way' BY <3>1 DEF Owed, Way, Phases
    <3> QED BY <3>1, <3>2, Keeps
  <2> QED BY <1>1, <1>3, <2>1 DEF KS!Count
<1>4. CASE KS!CheckPrimary
  <2>1. CASE at' # "raised"
    <3>1. at = "primary" /\ UNCHANGED <<world, ask, pool, main, done>> /\ at' = "retrieve" BY <1>4, <2>1 DEF KS!CheckPrimary, KS!Raises
    <3>2. Way' BY <3>1 DEF Owed, Way, Phases
    <3> QED BY <3>1, <3>2, Keeps
  <2> QED BY <1>1, <1>4, <2>1 DEF KS!CheckPrimary
<1>5. CASE KS!CheckTree
  <2>1. CASE at' # "raised"
    <3>1. at = "tree" /\ UNCHANGED <<world, ask, pool, main, done>> /\ at' = "select" BY <1>5, <2>1 DEF KS!CheckTree, KS!Raises
    <3>2. Way' BY <3>1 DEF Owed, Way, Phases
    <3> QED BY <3>1, <3>2, Keeps
  <2> QED BY <1>1, <1>5, <2>1 DEF KS!CheckTree
<1>6. CASE KS!AttachMetadata
  <2>1. CASE at' # "raised"
    <3>1. at = "metadata" /\ UNCHANGED <<world, ask, pool, main, done>> /\ at' \in {"attached", KS!AfterMetadata} BY <1>6, <2>1 DEF KS!AttachMetadata, KS!Raises
    <3>2. Way' /\ at' \in {"attached", "rerank", "done"} /\ (at' = "done" => ask.method = "tree_search") BY <3>1 DEF Owed, Way, Phases, KS!AfterMetadata
    <3> QED BY <3>1, <3>2, Keeps
  <2> QED BY <1>1, <1>6, <2>1 DEF KS!AttachMetadata, KS!AfterMetadata
<1>7. CASE KS!ChargeMetadata
  <2>1. at = "attached" /\ UNCHANGED <<world, ask, pool, main>> /\ done' = done \union {"metadata"} /\ at' = KS!AfterMetadata BY <1>7 DEF KS!ChargeMetadata
  <2>2. Way' /\ at' \in {"rerank", "done"} /\ (at' = "done" => ask.method = "tree_search") BY <2>1 DEF Owed, Way, Phases, KS!AfterMetadata
  <2>3. "floor" \in done' <=> "floor" \in done BY <2>1
  <2>4. \/ {at, at'} \subseteq {"metadata", "attached", "rerank", "reranking", "limits"}
        \/ at \in {"metadata", "attached"} /\ at' = "done" /\ ask.method = "tree_search"
    BY <2>1, <2>2
  <2> QED BY <2>1, <2>2, <2>3, <2>4, Keeps
<1>8. CASE KS!CheckReranker
  <2>1. CASE at' # "raised"
    <3>1. at = "rerank" /\ UNCHANGED <<world, ask, pool, main, done>> /\ at' \in {"reranking", "limits"} /\ (at' = "reranking" => ask.reranker) BY <1>8, <2>1 DEF KS!CheckReranker, KS!Raises
    <3>2. Way' BY <3>1 DEF Owed, Way, Phases
    <3> QED BY <3>1, <3>2, Keeps
  <2> QED BY <1>1, <1>8, <2>1 DEF KS!CheckReranker
<1> QED BY <1>2, <1>3, <1>4, <1>5, <1>6, <1>7, <1>8

\* What a search is of: items that are numbered, of documents, finitely many.
SearchBounds == ItemsAre /\ IsFiniteSet(Sources) /\ \A w \in Worlds : w.source \in [Sections -> Sources]

\* What the retrieval matches is allowed, each section once, with its score.
LEMMA MatchedRows ==
  ASSUME SearchBounds, NEW hits \in SUBSET {i \in Sections : KS!Allowed(i)}, NEW c \in Nat, NEW best \in [1..c -> hits],
         \A j, k \in 1..c : j < k => best[j] # best[k], 
         NEW V, NEW p \in [1..c -> V], \A k \in 1..c : p[k] = KS!Row(best[k], KS!ScoreOf(best[k]), "match")
  PROVE  Fitting(p) /\ IdsApart(p) /\ \A k \in 1..Len(p) : p[k].kind = "match" /\ p[k].score = KS!ScoreOf(p[k].id)
<1>4. \A k \in 1..c : best[k] \in Sections /\ KS!Allowed(best[k]) /\ best[k] \in Int /\ KS!ScoreOf(best[k]) \in Int
  <2> SUFFICES ASSUME NEW k \in 1..c PROVE best[k] \in Sections /\ KS!Allowed(best[k]) /\ best[k] \in Int /\ KS!ScoreOf(best[k]) \in Int OBVIOUS
  <2>1. best[k] \in hits OBVIOUS
  <2>2. best[k] \in Sections /\ KS!Allowed(best[k]) BY <2>1
  <2>3. KS!ScoreOf(best[k]) \in Int BY <2>2, ScoresOfItems DEF SearchBounds
  <2> QED BY <2>2, <2>3 DEF SearchBounds, ItemsAre
<1>5. \A k \in 1..c : p[k] \in Results /\ p[k].id = best[k] /\ p[k].kind = "match" /\ p[k].score = KS!ScoreOf(p[k].id)
  <2> SUFFICES ASSUME NEW k \in 1..c PROVE p[k] \in Results /\ p[k].id = best[k] /\ p[k].kind = "match" /\ p[k].score = KS!ScoreOf(best[k]) OBVIOUS
  <2>1. p[k] = [id |-> best[k], score |-> KS!ScoreOf(best[k]), kind |-> "match"] BY DEF KS!Row
  <2> QED BY <1>4, <2>1 DEF Results, RowKinds
<1>6. p \in [1..c -> Results] BY <1>5
<1>7. p \in Seq(Results) /\ Len(p) = c BY <1>6, AsSequence
<1>10. Fitting(p) BY <1>4, <1>5, <1>7 DEF Fitting, Fits, KS!Allowed
<1>11. IdsApart(p)
  <2> SUFFICES ASSUME NEW j \in 1..c, NEW k \in 1..c, j # k PROVE best[j] # best[k] BY <1>5, <1>7 DEF IdsApart
  <2>1. j < k \/ k < j OBVIOUS
  <2> QED BY <2>1
<1> QED BY <1>5, <1>7, <1>10, <1>11

\* The retrieval matches what is allowed, each section once.
LEMMA RetrieveOwed == ASSUME SearchBounds, Owed, KS!Retrieve PROVE Owed'
<1> USE DEF Owed
<1>1. CASE KS!Raises /\ UNCHANGED done BY <1>1, RaisesNothing
<1>2. CASE ~(KS!Raises /\ UNCHANGED done)
  <2>1. PICK hits \in SUBSET {i \in Sections : KS!Allowed(i)} :
           /\ pool' = LET best == KS!Best(hits, KS!ScoreOf) IN [k \in DOMAIN best |-> KS!Row(best[k], KS!ScoreOf(best[k]), "match")]
           /\ at = "retrieve" /\ at' = "floor" /\ UNCHANGED <<world, ask, main>> /\ done' = done \union {ask.method}
    BY <1>2 DEF KS!Retrieve, KS!Goes
  <2>2. hits \in SUBSET Sections OBVIOUS
  <2>a. PICK best : best = KS!Best(hits, KS!ScoreOf) OBVIOUS
  <2>b. PICK p : p = pool' OBVIOUS
  <2>c. p = [k \in DOMAIN best |-> KS!Row(best[k], KS!ScoreOf(best[k]), "match")] BY <2>1, <2>a, <2>b
  <2>d. Cardinality(hits) \in Nat /\ best \in [1..Cardinality(hits) -> hits] /\ \A j, k \in 1..Cardinality(hits) : j < k => best[j] # best[k]
    BY <2>2, <2>a, ItemsByScore DEF SearchBounds
  <2>e. p \in [1..Cardinality(hits) -> {p[k] : k \in 1..Cardinality(hits)}] /\ \A k \in 1..Cardinality(hits) : p[k] = KS!Row(best[k], KS!ScoreOf(best[k]), "match")
    BY <2>c, <2>d
  <2>3. Fitting(p) /\ IdsApart(p) /\ \A k \in 1..Len(p) : p[k].kind = "match" /\ p[k].score = KS!ScoreOf(p[k].id) BY <2>d, <2>e, MatchedRows, ZenonT(60)
  <2>4. at = "retrieve" /\ at' = "floor" /\ UNCHANGED <<world, ask, main>> /\ done' = done \union {ask.method} BY <2>1
  <2>5. Fit' BY <2>b, <2>3, <2>4 DEF Fit, Fitting, Fits, IdsApart
  <2>6. Fresh' BY <2>b, <2>3, <2>4 DEF Fresh, KS!ScoreOf
  <2>7. Asked' /\ Matched' BY <2>4 DEF Asked, Matched, Fitting, Fits
  <2>8. Way' BY <2>4 DEF Way, Phases, Asked, KS!Methods
  <2>9. Found' /\ Mixed' /\ Answering' BY <2>4, <2>5, <2>6 DEF Found, Mixed, Answering
  <2> QED BY <2>7, <2>8, <2>9
<1> QED BY <1>1, <1>2

\* The threshold keeps rows, in their order.
LEMMA KeptRows ==
  ASSUME pool \in Seq(Results)
  PROVE  /\ KS!Kept \in Seq(Results) /\ Entries(KS!Kept) \subseteq Entries(pool) /\ Picks(KS!Kept, pool)
         /\ (ask.method # "vector_search" => KS!Kept = pool)
<1>1. Len(pool) \in Nat /\ DOMAIN pool = 1..Len(pool) BY LenProperties
<1>2. Picks(pool, pool) BY DEF Picks
<1>3. CASE ask.method # "vector_search" BY <1>2, <1>3 DEF KS!Kept
<1>4. CASE ask.method = "vector_search"
  <2> DEFINE K == {k \in 1..Len(pool) : pool[k].score >= ask.threshold}
             q == KS!Kept
  <2>1. TakenAt(q, pool, K) BY <1>1, <1>4 DEF KS!Kept, KS!Those, TakenAt, PlacesOf
  <2>2. K \in SUBSET (1..Len(pool)) OBVIOUS
  <2> HIDE DEF q, K
  <2>5. q \in Seq(Results) /\ Entries(q) = {pool[k] : k \in K} /\ Picks(q, pool) BY <2>1, <2>2, Taken
  <2>6. Entries(q) \subseteq Entries(pool) BY <2>2, <2>5 DEF Entries
  <2> QED BY <1>4, <2>5, <2>6 DEF q
<1> QED BY <1>3, <1>4

\* A set written out; a retrieval's matches; what is not among them; a score none is below; the floor's rows.
Lists(q, S) == /\ Cardinality(S) \in Nat /\ q \in [1..Cardinality(S) -> S] /\ \A x \in S : \E k \in 1..Cardinality(S) : q[k] = x
               /\ \A j, k \in 1..Cardinality(S) : j < k => q[j] # q[k]
Matches(s) == Fitting(s) /\ IdsApart(s) /\ \A k \in 1..Len(s) : s[k].kind = "match" /\ s[k].score = KS!ScoreOf(s[k].id)
Beside(S, s) == S \in SUBSET Sections /\ \A i \in S : KS!Allowed(i) /\ \A k \in 1..Len(s) : s[k].id # i
LeastOf(least, s) == least \in Int /\ \A k \in 1..Len(s) : least <= s[k].score
FloorRows(p, best, least) ==
    p = [k \in DOMAIN best |-> KS!Row(best[k], IF ask.method = "vector_search" THEN KS!Similarity(best[k]) ELSE least - k, "floor")]
\* The floor's rows come with ids of their own, scores of their own and, where the scores are not similarities, below all others.
LEMMA MergedRows ==
  ASSUME SearchBounds, ask.method \in {"vector_search", "hybrid"}, NEW s, Matches(s), NEW S, Beside(S, s), NEW best, Lists(best, S),
         NEW least, LeastOf(least, s), NEW p, FloorRows(p, best, least)
  PROVE  LET t == s \o p IN
         /\ Fitting(t) /\ IdsApart(t) /\ ScoresApart(t) /\ Entries(s) \subseteq Entries(t)
         /\ \A i \in S : \E k \in 1..Len(t) : t[k].id = i
         /\ ask.method = "hybrid" => \A j, k \in 1..Len(t) : t[j].kind = "floor" /\ t[k].kind = "match" => t[j].score < t[k].score
<1> DEFINE t == s \o p
           c == Cardinality(S)
<1>0. /\ c \in Nat /\ best \in [1..c -> S]
      /\ p \in [1..c -> {p[k] : k \in 1..c}]
      /\ \A k \in 1..c : p[k] = KS!Row(best[k], IF ask.method = "vector_search" THEN KS!Similarity(best[k]) ELSE least - k, "floor")
  BY DEF FloorRows, Lists
<1> HIDE DEF c
<1>a. Fitting(s) /\ IdsApart(s) /\ \A k \in 1..Len(s) : s[k].kind = "match" /\ s[k].score = KS!ScoreOf(s[k].id) BY DEF Matches
<1>b. S \in SUBSET Sections /\ \A i \in S : KS!Allowed(i) /\ \A k \in 1..Len(s) : s[k].id # i BY DEF Beside
<1>c. /\ \A x \in S : \E k \in 1..c : best[k] = x
      /\ \A j, k \in 1..c : j < k => best[j] # best[k]
      /\ least \in Int /\ \A k \in 1..Len(s) : least <= s[k].score
  BY DEF Lists, LeastOf, c
<1>d. c \in Nat /\ best \in [1..c -> S] BY <1>0
<1>e. PICK V : p \in [1..c -> V] BY <1>0
<1> USE <1>a, <1>b, <1>c, <1>d, <1>e
<1>1. s \in Seq(Results) /\ Len(s) \in Nat /\ \A k \in 1..Len(s) : Fits(s[k]) BY LenProperties DEF Fitting
<1>2. ASSUME NEW k \in 1..c
      PROVE  /\ p[k] = [id |-> best[k], score |-> (IF ask.method = "vector_search" THEN KS!Similarity(best[k]) ELSE least - k), kind |-> "floor"]
             /\ best[k] \in Sections /\ KS!Allowed(best[k]) /\ best[k] \in Int /\ p[k].score \in Int
  <2>1. best[k] \in S BY <1>0
  <2>2. KS!Similarity(best[k]) \in Int BY <2>1, ScoresOfItems DEF SearchBounds
  <2>3. best[k] \in Int BY <2>1 DEF SearchBounds, ItemsAre
  <2>4. p[k] = [id |-> best[k], score |-> (IF ask.method = "vector_search" THEN KS!Similarity(best[k]) ELSE least - k), kind |-> "floor"] BY <1>0 DEF KS!Row
  <2> QED BY <2>1, <2>2, <2>3, <2>4
<1>3. \A k \in 1..c : Fits(p[k]) /\ p[k].id = best[k] /\ p[k].kind = "floor" BY <1>2, SMTT(60) DEF Fits, Results, RowKinds, KS!Allowed
<1>4. p \in [1..c -> Results] BY <1>0, <1>3 DEF Fits
<1>5. p \in Seq(Results) /\ Len(p) = c BY <1>0, <1>4, AsSequence
<1>6. /\ t \in Seq(Results) /\ Len(t) = Len(s) + c /\ Entries(t) = Entries(s) \union Entries(p)
      /\ \A k \in 1..Len(s) : t[k] = s[k]
      /\ \A k \in 1..c : t[Len(s) + k] = p[k]
      /\ \A k \in 1..Len(t) : k > Len(s) => (k - Len(s) \in 1..c /\ t[k] = p[k - Len(s)])
  <2> HIDE DEF t
  <2>1. s \in Seq(Results) /\ p \in Seq(Results) BY <1>1, <1>5
  <2>2. Entries(s \o p) = Entries(s) \union Entries(p) BY <2>1, Joined
  <2>3. s \o p \in Seq(Results) /\ Len(s \o p) = Len(s) + Len(p) BY <2>1, Joined
  <2>4. \A k \in 1..Len(s) : (s \o p)[k] = s[k] BY <2>1, Joined
  <2>5. \A k \in 1..Len(p) : (s \o p)[Len(s) + k] = p[k] BY <2>1, Joined
  <2>6. \A k \in 1..Len(s \o p) : k > Len(s) => (k - Len(s) \in 1..Len(p) /\ (s \o p)[k] = p[k - Len(s)]) BY <2>1, Joined
  <2> QED BY <1>5, <2>2, <2>3, <2>4, <2>5, <2>6 DEF t
<1> HIDE DEF t
<1>7. ASSUME NEW k \in 1..Len(t) PROVE (k \in 1..Len(s) /\ t[k] = s[k]) \/ (k - Len(s) \in 1..c /\ t[k] = p[k - Len(s)])
  <2>1. k <= Len(s) => k \in 1..Len(s) BY <1>1, <1>6
  <2> QED BY <1>1, <1>6, <2>1
<1>8. Fitting(t) BY <1>1, <1>3, <1>6, <1>7 DEF Fitting
<1>9. ASSUME NEW j \in 1..c, NEW k \in 1..c, j # k PROVE p[j].id # p[k].id /\ p[j].score # p[k].score
  <2>1. best[j] # best[k]
    <3>1. j < k \/ k < j BY <1>0, <1>9
    <3> QED BY <3>1
  <2>2. best[j] \in Sections /\ best[k] \in Sections BY <1>2
  <2>3. KS!Similarity(best[j]) # KS!Similarity(best[k]) BY <2>1, <2>2, ScoresOfItems DEF SearchBounds
  <2>4. p[j].id # p[k].id BY <1>3, <2>1
  <2>5. CASE ask.method = "vector_search"
    <3>1. p[j].score = KS!Similarity(best[j]) /\ p[k].score = KS!Similarity(best[k]) BY <1>2, <2>5
    <3> QED BY <2>3, <2>4, <3>1
  <2>6. CASE ask.method = "hybrid"
    <3>1. p[j].score = least - j /\ p[k].score = least - k BY <1>2, <2>6
    <3> QED BY <1>9, <2>4, <3>1
  <2> QED BY <2>5, <2>6
<1>10. ASSUME NEW j \in 1..Len(s), NEW k \in 1..c PROVE s[j].id # p[k].id /\ s[j].score # p[k].score /\ (ask.method = "hybrid" => p[k].score < s[j].score)
  <2>1. s[j].id # best[k] /\ s[j].id \in Sections /\ best[k] \in Sections /\ best[k] \in S BY <1>0, <1>1 DEF Fits
  <2>2. s[j].score \in Int BY <1>1 DEF Fits, Results
  <2>3. CASE ask.method = "vector_search"
    <3>1. s[j].score = KS!Similarity(s[j].id) BY <2>3 DEF KS!ScoreOf
    <3>2. p[k].score = KS!Similarity(best[k]) BY <1>2, <2>3
    <3>3. KS!Similarity(s[j].id) # KS!Similarity(best[k]) BY <2>1, ScoresOfItems DEF SearchBounds
    <3> QED BY <1>3, <2>1, <2>3, <3>1, <3>2, <3>3
  <2>4. CASE ask.method = "hybrid"
    <3>1. p[k].score = least - k BY <1>2, <2>4
    <3>2. least <= s[j].score OBVIOUS
    <3> QED BY <1>3, <2>1, <2>2, <3>1, <3>2
  <2>5. ask.method = "vector_search" \/ ask.method = "hybrid" OBVIOUS
  <2> QED BY <2>3, <2>4, <2>5
<1>11. ASSUME NEW j \in 1..Len(t), NEW k \in 1..Len(t), j # k PROVE t[j].id # t[k].id /\ t[j].score # t[k].score
  <2>1. CASE j \in 1..Len(s) /\ k \in 1..Len(s)
    <3>1. s[j].id # s[k].id /\ s[j].id \in Sections /\ s[k].id \in Sections BY <1>1, <1>11, <2>1 DEF IdsApart, Fits
    <3>2. KS!ScoreOf(s[j].id) # KS!ScoreOf(s[k].id) BY <3>1, ScoresOfItems DEF SearchBounds
    <3> QED BY <1>6, <2>1, <3>1, <3>2
  <2>2. CASE j \in 1..Len(s) /\ k - Len(s) \in 1..c /\ t[k] = p[k - Len(s)]
    <3>1. t[j] = s[j] BY <1>6, <2>2
    <3>2. s[j].id # p[k - Len(s)].id /\ s[j].score # p[k - Len(s)].score BY <1>10, <2>2
    <3> QED BY <2>2, <3>1, <3>2
  <2>3. CASE k \in 1..Len(s) /\ j - Len(s) \in 1..c /\ t[j] = p[j - Len(s)]
    <3>1. t[k] = s[k] BY <1>6, <2>3
    <3>2. s[k].id # p[j - Len(s)].id /\ s[k].score # p[j - Len(s)].score BY <1>10, <2>3
    <3> QED BY <2>3, <3>1, <3>2
  <2>4. CASE j - Len(s) \in 1..c /\ t[j] = p[j - Len(s)] /\ k - Len(s) \in 1..c /\ t[k] = p[k - Len(s)]
    <3>1. j - Len(s) # k - Len(s) BY <1>1, <1>6, <1>11
    <3> QED BY <1>9, <2>4, <3>1
  <2> QED BY <1>7, <2>1, <2>2, <2>3, <2>4
<1>12. IdsApart(t) /\ ScoresApart(t) BY <1>11 DEF IdsApart, ScoresApart
<1>13. ASSUME NEW i \in S PROVE \E k \in 1..Len(t) : t[k].id = i
  <2>1. PICK k \in 1..c : best[k] = i OBVIOUS
  <2>2. t[Len(s) + k].id = i BY <1>3, <1>6, <2>1
  <2>3. Len(s) + k \in 1..Len(t) BY <1>1, <1>6
  <2> QED BY <2>2, <2>3
<1>14. ASSUME ask.method = "hybrid", NEW j \in 1..Len(t), NEW k \in 1..Len(t), t[j].kind = "floor", t[k].kind = "match" PROVE t[j].score < t[k].score
  <2>1. j - Len(s) \in 1..c /\ t[j] = p[j - Len(s)]
    <3>1. j \in 1..Len(s) /\ t[j] = s[j] => t[j].kind = "match" OBVIOUS
    <3> QED BY <1>7, <1>14, <3>1
  <2>2. k \in 1..Len(s) /\ t[k] = s[k]
    <3>1. k - Len(s) \in 1..c /\ t[k] = p[k - Len(s)] => t[k].kind = "floor" BY <1>3
    <3> QED BY <1>7, <1>14, <3>1
  <2> QED BY <1>10, <1>14, <2>1, <2>2
<1> QED BY <1>6, <1>8, <1>12, <1>13, <1>14 DEF t

\* The least score of rows, none of which is below it.
LEMMA LeastScore ==
  ASSUME NEW s \in Seq(Results)
  PROVE  LET m == KS!Minimum({r.score : r \in KS!ToSet(s)}) IN m \in Int /\ \A k \in 1..Len(s) : m <= s[k].score
<1> DEFINE R == Entries(s)
           scores == {r.score : r \in R}
<1>1. KS!ToSet(s) = R /\ R \subseteq Results /\ IsFiniteSet(R) BY EntriesAre, EntriesFinite
<1>2. IsFiniteSet(scores) BY <1>1, ScoresFinite
<1>3. scores \subseteq Int BY <1>1 DEF Results
<1>4. \A k \in 1..Len(s) : s[k].score \in scores BY DEF Entries
<1>5. KS!Minimum({r.score : r \in KS!ToSet(s)}) = KS!Minimum(scores) BY <1>1
<1> HIDE DEF scores, R
<1>6. KS!Minimum(scores) \in Int /\ \A x \in scores : KS!Minimum(scores) <= x
  <2>1. CASE scores = {} BY <2>1 DEF KS!Minimum
  <2>2. CASE scores # {}
    <3>1. KS!Min(scores) \in scores /\ \A x \in scores : KS!Min(scores) <= x BY <1>2, <1>3, <2>2, Extremes
    <3>2. KS!Minimum(scores) = KS!Min(scores) BY <2>2 DEF KS!Minimum
    <3> QED BY <1>3, <3>1, <3>2
  <2> QED BY <2>1, <2>2
<1>7. \A k \in 1..Len(s) : KS!Minimum(scores) <= s[k].score BY <1>4, <1>6
<1> QED BY <1>5, <1>6, <1>7

\* Rows of different sections that their retrieval scored have different scores.
LEMMA OwnScores ==
  ASSUME ItemsAre, NEW s, Fitting(s), IdsApart(s), \A k \in 1..Len(s) : s[k].score = KS!ScoreOf(s[k].id)
  PROVE  ScoresApart(s)
<1> SUFFICES ASSUME NEW j \in 1..Len(s), NEW k \in 1..Len(s), j # k PROVE s[j].score # s[k].score BY DEF ScoresApart
<1>1. s[j].id # s[k].id /\ s[j].id \in Sections /\ s[k].id \in Sections BY DEF IdsApart, Fitting, Fits
<1>2. KS!ScoreOf(s[j].id) # KS!ScoreOf(s[k].id) BY <1>1, ScoresOfItems
<1> QED BY <1>2

\* What is picked of rows that are apart is apart.
LEMMA PicksApart == ASSUME NEW q, NEW s, Picks(q, s), IdsApart(s) PROVE IdsApart(q)
<1> SUFFICES ASSUME NEW j \in 1..Len(q), NEW k \in 1..Len(q), j # k PROVE q[j].id # q[k].id BY DEF IdsApart
<1>1. PICK a, b \in 1..Len(s) : a # b /\ q[j] = s[a] /\ q[k] = s[b] BY DEF Picks
<1>2. s[a].id # s[b].id BY <1>1 DEF IdsApart
<1> QED BY <1>1, <1>2

\* What is kept of the matches is what they were.
LEMMA KeptOwed ==
  ASSUME ItemsAre, Owed, at = "floor"
  PROVE  /\ Fitting(KS!Kept) /\ IdsApart(KS!Kept) /\ ScoresApart(KS!Kept) /\ (ask.method # "vector_search" => KS!Kept = pool)
         /\ \A k \in 1..Len(KS!Kept) : KS!Kept[k].kind = "match" /\ KS!Kept[k].score = KS!ScoreOf(KS!Kept[k].id)
<1>1. Fitting(pool) /\ IdsApart(pool) /\ Fresh BY DEF Owed, Found, Fit
<1>2. /\ KS!Kept \in Seq(Results) /\ Entries(KS!Kept) \subseteq Entries(pool) /\ Picks(KS!Kept, pool)
      /\ (ask.method # "vector_search" => KS!Kept = pool)
  BY <1>1, KeptRows DEF Fitting
<1>3. PICK s : s = KS!Kept OBVIOUS
<1>4. s \in Seq(Results) /\ Entries(s) \subseteq Entries(pool) /\ Picks(s, pool) BY <1>2, <1>3
<1>5. \A k \in 1..Len(s) : s[k] \in Entries(s) BY DEF Entries
<1>6. ASSUME NEW k \in 1..Len(s) PROVE Fits(s[k]) /\ s[k].kind = "match" /\ s[k].score = KS!ScoreOf(s[k].id)
  <2>1. PICK j \in 1..Len(pool) : s[k] = pool[j] BY <1>4, <1>5 DEF Entries
  <2> QED BY <1>1, <2>1 DEF Fitting, Fresh
<1>7. Fitting(s) BY <1>4, <1>6 DEF Fitting
<1>8. IdsApart(s) BY <1>1, <1>4, PicksApart
<1>9. ScoresApart(s) BY <1>6, <1>7, <1>8, OwnScores
<1> QED BY <1>2, <1>3, <1>6, <1>7, <1>8, <1>9

\* The merge leaves rows apart, with the whole floor among them if it was asked for and answered.
LEMMA MergeOwed == ASSUME SearchBounds, Owed, KS!MergeFloor PROVE Owed'
<1> USE DEF Owed
<1>1. at = "floor" /\ at' = "metadata" /\ main' = KS!Kept /\ UNCHANGED <<world, ask>> BY DEF KS!MergeFloor, KS!Goes
<1>2. PICK s : s = KS!Kept OBVIOUS
<1>3. /\ Fitting(s) /\ IdsApart(s) /\ ScoresApart(s)
      /\ \A k \in 1..Len(s) : s[k].kind = "match" /\ s[k].score = KS!ScoreOf(s[k].id)
  BY <1>1, <1>2, KeptOwed DEF SearchBounds
<1>4. s \in Seq(Results) /\ KS!ToSet(s) = Entries(s) BY <1>3, EntriesAre DEF Fitting
<1>5. ask.method \in {"vector_search", "hybrid"} BY <1>1 DEF Way, Asked, KS!Methods
<1>6. Asked' /\ Found' /\ Answering' BY <1>1 DEF Asked, Found, Answering
<1>7. Matched' BY <1>1, <1>2, <1>3 DEF Matched, Fitting, Fits
<1>8. KS!Floor' = KS!Floor BY <1>1 DEF KS!Floor, KS!Allowed
<1>9. CASE pool' = s /\ done' = done
  <2>1. Way' BY <1>1, <1>5, <1>9 DEF Way, Phases
  <2>2. Fit' /\ Scored' BY <1>1, <1>3, <1>9 DEF Fit, Scored, Fitting, Fits, IdsApart, ScoresApart
  <2>3. FloorIn' BY <1>1, <1>9 DEF FloorIn, Way
  <2>4. FloorLast' BY <1>1, <1>2, <1>3, <1>9 DEF FloorLast
  <2> QED BY <1>6, <1>7, <2>1, <2>2, <2>3, <2>4 DEF Mixed
<1>10. CASE ask.min > 0 /\ pool' = KS!Merged(s, KS!Floor \ KS!Ids(s)) /\ done' = done \union {"floor"}
  <2> DEFINE S == KS!Floor \ KS!Ids(s)
  <2>1. PICK least : least = KS!Minimum({r.score : r \in KS!ToSet(s)}) OBVIOUS
  <2>2. LeastOf(least, s) BY <1>4, <2>1, LeastScore DEF LeastOf
  <2>3. PICK best : best = KS!Best(S, KS!Similarity) OBVIOUS
  <2>4. S \in SUBSET Sections BY DEF KS!Floor
  <2>5. Beside(S, s) BY <1>4 DEF KS!Floor, KS!Ids, Entries, Beside
  <2>6. Lists(best, S)
    <3> HIDE DEF S
    <3> QED BY <2>3, <2>4, ItemsBySimilarity DEF SearchBounds, Lists
  <2>7. PICK p : FloorRows(p, best, least) BY DEF FloorRows
  <2>8. pool' = s \o p BY <1>10, <2>1, <2>3, <2>7 DEF KS!Merged, FloorRows
  <2>9. \A i \in KS!Floor : i \in S \/ \E k \in 1..Len(s) : s[k].id = i BY <1>4 DEF KS!Ids, Entries
  <2> HIDE DEF S
  <2>10. Matches(s) BY <1>3 DEF Matches
  <2>11. PICK t : t = s \o p OBVIOUS
  <2>12. /\ Fitting(t) /\ IdsApart(t) /\ ScoresApart(t) /\ Entries(s) \subseteq Entries(t)
         /\ \A i \in S : \E k \in 1..Len(t) : t[k].id = i
         /\ ask.method = "hybrid" => \A j, k \in 1..Len(t) : t[j].kind = "floor" /\ t[k].kind = "match" => t[j].score < t[k].score
    BY <1>5, <2>2, <2>5, <2>6, <2>7, <2>10, <2>11, MergedRows
  <2>13. pool' = t BY <2>8, <2>11
  <2>14. Way' BY <1>1, <1>5, <1>10 DEF Way, Phases
  <2>15. Fit' /\ Scored' BY <1>1, <2>12, <2>13 DEF Fit, Scored, Fitting, Fits, IdsApart, ScoresApart
  <2>16. \A i \in KS!Floor : \E k \in 1..Len(t) : t[k].id = i
    <3> SUFFICES ASSUME NEW i \in KS!Floor, NEW k \in 1..Len(s), s[k].id = i PROVE \E j \in 1..Len(t) : t[j].id = i BY <2>9, <2>12
    <3>1. s[k] \in Entries(t) BY <2>12 DEF Entries
    <3> QED BY <3>1 DEF Entries
  <2>17. FloorIn' BY <1>8, <2>13, <2>16 DEF FloorIn
  <2>18. ask.min = 1 BY <1>10 DEF Asked
  <2>19. FloorLast' BY <1>1, <1>2, <2>12, <2>13, <2>18 DEF FloorLast
  <2> QED BY <1>6, <1>7, <2>14, <2>15, <2>17, <2>19 DEF Mixed
<1> QED BY <1>2, <1>9, <1>10 DEF KS!MergeFloor

\* The first of rows are apart as they are.
LEMMA FirstRows ==
  ASSUME NEW s, Fitting(s), IdsApart(s), ScoresApart(s), NEW m \in Nat
  PROVE  /\ Fitting(KS!FirstOf(s, m)) /\ IdsApart(KS!FirstOf(s, m)) /\ ScoresApart(KS!FirstOf(s, m))
         /\ (m >= Len(s) => KS!FirstOf(s, m) = s)
<1>1. s \in Seq(Results) BY DEF Fitting
<1>2. PICK q : q = KS!FirstOf(s, m) OBVIOUS
<1>3. q \in Seq(Results) /\ Len(q) <= Len(s) /\ Len(q) \in Nat /\ (m >= Len(s) => q = s) /\ \A k \in 1..Len(q) : q[k] = s[k]
  <2>1. LET f == KS!FirstOf(s, m) IN f \in Seq(Results) /\ Len(f) <= Len(s) /\ Len(f) \in Nat /\ (m >= Len(s) => f = s) /\ \A k \in 1..Len(f) : f[k] = s[k]
    BY <1>1, Beginning
  <2> QED BY <1>2, <2>1
<1>4. Len(s) \in Nat BY <1>1, LenProperties
<1>5. \A k \in 1..Len(q) : k \in 1..Len(s) BY <1>3, <1>4
<1>6. Fitting(q) BY <1>3, <1>5 DEF Fitting
<1>7. IdsApart(q) /\ ScoresApart(q) BY <1>3, <1>5 DEF IdsApart, ScoresApart
<1> QED BY <1>2, <1>3, <1>6, <1>7

\* The rows with the scores that a reranker gives them.
Renumbered(o) == [k \in 1..Len(o) |-> [o[k] EXCEPT !.score = KS!Scale * (2 - k)]]
\* A reranker's answer is every row, in an order and with scores of its own.
LEMMA Reordered ==
  ASSUME Fitting(pool), IdsApart(pool), ScoresApart(pool), NEW o \in KS!SetToSeqs(KS!ToSet(pool)), NEW q, q = Renumbered(o)
  PROVE  /\ Fitting(q) /\ IdsApart(q) /\ ScoresApart(q) /\ Len(q) \in Nat /\ Len(q) <= Len(pool)
         /\ \A k \in 1..Len(pool) : \E j \in 1..Len(q) : q[j].id = pool[k].id
<1> DEFINE R == Entries(pool)
           c == Cardinality(R)
<1>1. pool \in Seq(Results) /\ \A k \in 1..Len(pool) : Fits(pool[k]) BY DEF Fitting
<1>2. KS!ToSet(pool) = R /\ IsFiniteSet(R) /\ R \subseteq Results /\ \A x, y \in R : x.id = y.id => x = y BY <1>1, RowsOf
<1>3. c \in Nat /\ c <= Len(pool) BY <1>1, EntriesFinite
<1>4. \A x \in R : Fits(x) BY <1>1 DEF Entries
<1>5. \A k \in 1..Len(pool) : pool[k] \in R BY DEF Entries
<1> HIDE DEF R
<1>6. o \in [1..c -> R] /\ \A i, j \in 1..c : i # j => o[i] # o[j] BY <1>2, SearchCounts DEF KS!SetToSeqs
<1> HIDE DEF c
<1>7. Len(o) = c BY <1>3, <1>6, AsSequence
<1>8. ASSUME NEW x \in R PROVE \E k \in 1..c : o[k] = x
  <2>1. o \in Injection(1..c, R) BY <1>6 DEF Injection, IsInjective
  <2>2. IsFiniteSet(1..c) /\ Cardinality(1..c) = c BY <1>3, UpTo
  <2>3. o \in Surjection(1..c, R) BY <1>2, <2>1, <2>2, FS_Injection DEF c
  <2> QED BY <2>3 DEF Surjection
<1>9. ASSUME NEW k \in 1..c PROVE q[k] \in Results /\ q[k].id = o[k].id /\ q[k].kind = o[k].kind /\ q[k].score = 10 * (2 - k) /\ o[k] \in R
  <2>1. o[k] \in R /\ o[k] \in Results BY <1>2, <1>6
  <2>2. q[k] = [o[k] EXCEPT !.score = 10 * (2 - k)] BY <1>7 DEF KS!Scale, Renumbered
  <2> QED BY <1>3, <2>1, <2>2 DEF Results
<1>a. DOMAIN q = 1..c /\ q = [k \in 1..c |-> q[k]] BY <1>7 DEF Renumbered
<1>10. q \in [1..c -> Results] BY <1>9, <1>a
<1>11. q \in Seq(Results) /\ Len(q) = c BY <1>3, <1>10, AsSequence
<1>12. Fitting(q) BY <1>4, <1>9, <1>11 DEF Fitting, Fits
<1>13. IdsApart(q) /\ ScoresApart(q)
  <2> SUFFICES ASSUME NEW j \in 1..c, NEW k \in 1..c, j # k PROVE q[j].id # q[k].id /\ q[j].score # q[k].score BY <1>11 DEF IdsApart, ScoresApart
  <2>1. o[j] # o[k] BY <1>6
  <2>2. o[j].id # o[k].id BY <1>2, <1>9, <2>1
  <2>3. q[j].id # q[k].id BY <1>9, <2>2
  <2>4. q[j].score = 10 * (2 - j) /\ q[k].score = 10 * (2 - k) BY <1>9
  <2>5. j \in Int /\ k \in Int /\ 10 * (2 - j) # 10 * (2 - k) BY <1>3
  <2> QED BY <2>3, <2>4, <2>5
<1>14. ASSUME NEW k \in 1..Len(pool) PROVE \E j \in 1..Len(q) : q[j].id = pool[k].id
  <2>1. PICK j \in 1..c : o[j] = pool[k] BY <1>5, <1>8
  <2> QED BY <1>9, <1>11, <2>1
<1> QED BY <1>3, <1>11, <1>12, <1>13, <1>14

\* A reranker, or the cut that stands in for it, leaves what the limits are to choose from.
LEMMA RerankOwed == ASSUME ItemsAre, Owed, KS!Rerank PROVE Owed'
<1> USE DEF Owed
<1>1. at = "reranking" /\ at' = "limits" /\ UNCHANGED <<world, ask, main>> /\ (done' = done \/ done' = done \union {"reranker"})
  BY DEF KS!Rerank, KS!Goes
<1>2. Fitting(pool) /\ IdsApart(pool) /\ ScoresApart(pool) /\ FloorIn /\ ask.reranker BY <1>1 DEF Mixed, Fit, Scored, Way
<1>3. Len(pool) \in Nat BY <1>2, LenProperties DEF Fitting
<1>4. KS!RerankTop \in Nat /\ (ask.min > 0 => KS!RerankTop = Len(pool)) BY <1>3 DEF KS!RerankTop, KS!Limited, Asked
<1>5. PICK s : /\ pool' = KS!FirstOf(s, KS!RerankTop) /\ Fitting(s) /\ IdsApart(s) /\ ScoresApart(s) /\ Len(s) \in Nat /\ Len(s) <= Len(pool)
               /\ \A k \in 1..Len(pool) : \E j \in 1..Len(s) : s[j].id = pool[k].id
  <2>1. CASE pool' = KS!FirstOf(pool, KS!RerankTop) BY <1>2, <1>3, <2>1
  <2>2. CASE \E o \in KS!SetToSeqs(KS!ToSet(pool)) : pool' = KS!FirstOf([k \in 1..Len(o) |-> [o[k] EXCEPT !.score = KS!Scale * (2 - k)]], KS!RerankTop)
    <3>1. PICK o \in KS!SetToSeqs(KS!ToSet(pool)) : pool' = KS!FirstOf([k \in 1..Len(o) |-> [o[k] EXCEPT !.score = KS!Scale * (2 - k)]], KS!RerankTop) BY <2>2
    <3>2. PICK q : q = Renumbered(o) OBVIOUS
    <3>3. /\ Fitting(q) /\ IdsApart(q) /\ ScoresApart(q) /\ Len(q) \in Nat /\ Len(q) <= Len(pool)
          /\ \A k \in 1..Len(pool) : \E j \in 1..Len(q) : q[j].id = pool[k].id
      BY <1>2, <3>2, Reordered
    <3>4. pool' = KS!FirstOf(q, KS!RerankTop) BY <3>1, <3>2 DEF Renumbered
    <3> QED BY <3>3, <3>4
  <2> QED BY <2>1, <2>2 DEF KS!Rerank
<1>6. PICK t : t = pool' OBVIOUS
<1>7. Fitting(t) /\ IdsApart(t) /\ ScoresApart(t) /\ (ask.min > 0 => t = s)
  <2>1. /\ Fitting(KS!FirstOf(s, KS!RerankTop)) /\ IdsApart(KS!FirstOf(s, KS!RerankTop)) /\ ScoresApart(KS!FirstOf(s, KS!RerankTop))
        /\ (KS!RerankTop >= Len(s) => KS!FirstOf(s, KS!RerankTop) = s)
    BY <1>4, <1>5, FirstRows
  <2> QED BY <1>4, <1>5, <1>6, <2>1
<1>8. Asked' /\ Matched' /\ Found' /\ Answering' BY <1>1 DEF Asked, Matched, Fitting, Fits, Found, Answering
<1>9. Way' BY <1>1 DEF Way, Phases
<1>10. Fit' /\ Scored' BY <1>1, <1>6, <1>7 DEF Fit, Scored, Fitting, Fits, IdsApart, ScoresApart
<1>11. FloorIn'
  <2>1. KS!Floor' = KS!Floor BY <1>1 DEF KS!Floor, KS!Allowed
  <2>2. "floor" \in done' => "floor" \in done BY <1>1
  <2> SUFFICES ASSUME "floor" \in done, ask.min > 0, NEW i \in KS!Floor PROVE \E j \in 1..Len(t) : t[j].id = i BY <1>1, <1>6, <2>1, <2>2 DEF FloorIn
  <2>3. PICK k \in 1..Len(pool) : pool[k].id = i BY <1>2 DEF FloorIn
  <2> QED BY <1>5, <1>7, <2>3
<1>12. FloorLast' BY <1>1, <1>2 DEF FloorLast
<1> QED BY <1>8, <1>9, <1>10, <1>11, <1>12 DEF Mixed

\* The document of a row that fits is its section's.
LEMMA SourceOfFitting == ASSUME ItemsAre, NEW r, Fits(r) PROVE KS!SourceOf(r) = world.source[r.id]
<1>1. r.id \in Nat /\ ~(r.id < 0) BY DEF Fits, ItemsAre
<1> QED BY <1>1 DEF KS!SourceOf

\* The cut of fitting rows that differ in score and id.
LEMMA CutFits ==
  ASSUME SearchBounds, Asked, NEW R, IsFiniteSet(R), \A r \in R : Fits(r), ScoresDiffer(R), \A x, y \in R : x.id = y.id => x = y, NEW s, s = KS!Cut(R)
  PROVE  /\ Fitting(s) /\ IdsApart(s) /\ ScoresApart(s) /\ Entries(s) \subseteq R
         /\ ask.min = 1 /\ Cardinality(ask.sources) <= ask.top => \A r \in R : \E k \in 1..Len(s) : KS!SourceOf(s[k]) = world.source[r.id]
         /\ ask.min = 1 => \A j \in 1..Len(s), m \in R : s[j].score < m.score => \E k \in 1..Len(s) : KS!SourceOf(s[k]) = world.source[m.id]
<1>1. R \subseteq Results BY DEF Fits
<1>2. \A r \in R : KS!SourceOf(r) = world.source[r.id] BY SourceOfFitting DEF SearchBounds
<1>3. \A r \in R : KS!SourceOf(r) \in ask.sources BY <1>2 DEF Fits
<1>4. /\ s \in Seq(Results) /\ Entries(s) \subseteq R /\ \A j, k \in 1..Len(s) : j # k => s[j] # s[k]
      /\ ask.min = 1 /\ Cardinality(ask.sources) <= ask.top => \A r \in R : \E b \in Entries(s) : KS!SourceOf(b) = KS!SourceOf(r)
      /\ ask.min = 1 => \A f \in Entries(s), m \in R : f.score < m.score => \E b \in Entries(s) : KS!SourceOf(b) = KS!SourceOf(m)
  BY <1>1, <1>3, CutKeeps DEF SearchBounds
<1>5. \A k \in 1..Len(s) : s[k] \in Entries(s) BY DEF Entries
<1>6. \A b \in Entries(s) : \E k \in 1..Len(s) : b = s[k] BY DEF Entries
<1>7. Fitting(s) BY <1>4, <1>5 DEF Fitting
<1>8. IdsApart(s) /\ ScoresApart(s)
  <2> SUFFICES ASSUME NEW j \in 1..Len(s), NEW k \in 1..Len(s), j # k PROVE s[j].id # s[k].id /\ s[j].score # s[k].score BY DEF IdsApart, ScoresApart
  <2>1. s[j] # s[k] /\ s[j] \in R /\ s[k] \in R BY <1>4, <1>5
  <2> QED BY <2>1 DEF ScoresDiffer
<1>9. ASSUME ask.min = 1, Cardinality(ask.sources) <= ask.top, NEW r \in R PROVE \E k \in 1..Len(s) : KS!SourceOf(s[k]) = world.source[r.id]
  <2>1. PICK b \in Entries(s) : KS!SourceOf(b) = KS!SourceOf(r) BY <1>4, <1>9
  <2> QED BY <1>2, <1>6, <2>1
<1>10. ASSUME ask.min = 1, NEW j \in 1..Len(s), NEW m \in R, s[j].score < m.score PROVE \E k \in 1..Len(s) : KS!SourceOf(s[k]) = world.source[m.id]
  <2>1. s[j] \in Entries(s) BY <1>5
  <2>2. PICK b \in Entries(s) : KS!SourceOf(b) = KS!SourceOf(m) BY <1>4, <1>10, <2>1
  <2> QED BY <1>2, <1>6, <2>2
<1> QED BY <1>4, <1>7, <1>8, <1>9, <1>10

\* The limits keep what they guarantee.
LEMMA LimitsOwed == ASSUME SearchBounds, Owed, KS!ApplyLimits PROVE Owed'
<1> USE DEF Owed
<1>1. at = "limits" /\ at' \in {"expand", "done"} /\ UNCHANGED <<world, ask, main, done>> /\ pool' = KS!Cut(KS!ToSet(pool)) BY DEF KS!ApplyLimits, KS!Goes
<1>2. Fitting(pool) /\ IdsApart(pool) /\ ScoresApart(pool) /\ FloorIn /\ FloorLast BY <1>1 DEF Mixed, Fit, Scored
<1>3. PICK R : R = Entries(pool) OBVIOUS
<1>4. KS!ToSet(pool) = R /\ IsFiniteSet(R) /\ ScoresDiffer(R) /\ \A x, y \in R : x.id = y.id => x = y BY <1>2, <1>3, RowsOf DEF Fitting
<1>5. (\A r \in R : Fits(r)) /\ (\A k \in 1..Len(pool) : pool[k] \in R) /\ \A r \in R : \E k \in 1..Len(pool) : r = pool[k] BY <1>2, <1>3 DEF Fitting, Entries
<1>6. PICK s : s = pool' OBVIOUS
<1>7. /\ Fitting(s) /\ IdsApart(s) /\ ScoresApart(s) /\ Entries(s) \subseteq R
      /\ ask.min = 1 /\ Cardinality(ask.sources) <= ask.top => \A r \in R : \E k \in 1..Len(s) : KS!SourceOf(s[k]) = world.source[r.id]
      /\ ask.min = 1 => \A j \in 1..Len(s), m \in R : s[j].score < m.score => \E k \in 1..Len(s) : KS!SourceOf(s[k]) = world.source[m.id]
  BY <1>1, <1>4, <1>5, <1>6, CutFits
<1>8. Asked' /\ Matched' /\ Found' /\ Mixed' BY <1>1 DEF Asked, Matched, Fitting, Fits, Found, Mixed
<1>9. Way' BY <1>1 DEF Way, Phases
<1>10. Fit' /\ Apart' BY <1>1, <1>6, <1>7 DEF Fit, Apart, Fitting, Fits, IdsApart
<1>11. AddedBelow'
  <2>1. \A k \in 1..Len(s) : s[k].kind \in {"match", "floor"} BY <1>7 DEF Fitting, Fits
  <2> QED BY <1>6, <2>1 DEF AddedBelow
<1>12. Documents' = {KS!SourceOf(e) : e \in Entries(s)} BY <1>1, <1>6 DEF Documents, KS!SourceOf, Entries
<1>13. FloorThere'
  <2>1. KS!Floor' = KS!Floor BY <1>1 DEF KS!Floor, KS!Allowed
  <2> SUFFICES ASSUME "floor" \in done, ask.min > 0, Cardinality(ask.sources) <= ask.top, NEW i \in KS!Floor
               PROVE  \E k \in 1..Len(s) : KS!SourceOf(s[k]) = world.source[i]
    BY <1>1, <1>12, <2>1 DEF FloorThere, Entries
  <2>2. PICK k \in 1..Len(pool) : pool[k].id = i BY <1>2 DEF FloorIn
  <2>3. ask.min = 1 BY DEF Asked
  <2>4. pool[k] \in R BY <1>5
  <2> QED BY <1>7, <2>2, <2>3, <2>4
<1>14. MatchThere'
  <2> SUFFICES ASSUME ask.method = "hybrid", ~ask.reranker, NEW j \in 1..Len(s), s[j].kind = "floor", NEW k \in 1..Len(main)
               PROVE  \E l \in 1..Len(s) : KS!SourceOf(s[l]) = world.source[main[k].id]
    BY <1>1, <1>6, <1>12 DEF MatchThere, Entries
  <2>1. s[j] \in R BY <1>7 DEF Entries
  <2>2. PICK f \in 1..Len(pool) : s[j] = pool[f] BY <1>5, <2>1
  <2>3. main[k] \in Entries(pool) /\ main[k].kind = "match" BY <1>2 DEF FloorLast, Entries, Matched
  <2>4. PICK m \in 1..Len(pool) : main[k] = pool[m] BY <2>3 DEF Entries
  <2>5. ask.min = 1 /\ s[j].score < main[k].score BY <1>2, <2>2, <2>3, <2>4 DEF FloorLast
  <2>6. main[k] \in R BY <1>5, <2>4
  <2> QED BY <1>7, <2>5, <2>6
<1> QED BY <1>8, <1>9, <1>10, <1>11, <1>13, <1>14 DEF Answering

\* What a tree search picked, cut.
LEMMA TreeOwed == ASSUME SearchBounds, Owed, KS!SelectNodes PROVE Owed'
<1> USE DEF Owed
<1>1. CASE KS!Raises /\ UNCHANGED done BY <1>1, RaisesNothing
<1>2. CASE ~(KS!Raises /\ UNCHANGED done)
  <2>1. PICK hits \in KS!Picked :
           /\ pool' = KS!Cut({KS!Row(i, KS!Similarity(i), "match") : i \in hits \ world.gone}) /\ main' = pool'
           /\ at = "select" /\ at' = "metadata" /\ UNCHANGED <<world, ask>> /\ done' = done \union {"tree_search"}
    BY <1>2 DEF KS!SelectNodes, KS!Goes
  <2> DEFINE S == hits \ world.gone
             f == [i \in S |-> KS!Row(i, KS!Similarity(i), "match")]
  <2>2. PICK R : R = {KS!Row(i, KS!Similarity(i), "match") : i \in hits \ world.gone} OBVIOUS
  <2>3. S \subseteq Sections /\ \A i \in S : KS!Allowed(i) BY DEF KS!Picked
  <2>4. IsFiniteSet(S) BY <2>3, FS_Subset DEF SearchBounds, ItemsAre
  <2>5. f \in Surjection(S, R) BY <2>2 DEF Surjection
  <2>6. IsFiniteSet(R) BY <2>4, <2>5, FS_Surjection
  <2>7. ASSUME NEW r \in R PROVE \E i \in S : r = [id |-> i, score |-> KS!Similarity(i), kind |-> "match"] BY <2>2 DEF KS!Row
  <2>8. \A i \in S : i \in Int /\ KS!Similarity(i) \in Int BY <2>3, ScoresOfItems DEF SearchBounds, ItemsAre
  <2>9. ASSUME NEW r \in R PROVE Fits(r) /\ r.kind = "match"
    <3>1. PICK i \in S : r = [id |-> i, score |-> KS!Similarity(i), kind |-> "match"] BY <2>7
    <3> QED BY <2>3, <2>8, <3>1 DEF Fits, Results, RowKinds, KS!Allowed
  <2>10. ASSUME NEW x \in R, NEW y \in R PROVE (x.id = y.id => x = y) /\ (x.score = y.score => x = y)
    <3>1. PICK i \in S : x = [id |-> i, score |-> KS!Similarity(i), kind |-> "match"] BY <2>7
    <3>2. PICK j \in S : y = [id |-> j, score |-> KS!Similarity(j), kind |-> "match"] BY <2>7
    <3>3. i # j => KS!Similarity(i) # KS!Similarity(j) BY <2>3, ScoresOfItems DEF SearchBounds
    <3> QED BY <3>1, <3>2, <3>3
  <2> HIDE DEF S, f
  <2>11. PICK s : s = pool' OBVIOUS
  <2>12. s = KS!Cut(R) BY <2>1, <2>2, <2>11
  <2>13. Fitting(s) /\ IdsApart(s) /\ ScoresApart(s) /\ Entries(s) \subseteq R
    BY <2>6, <2>9, <2>10, <2>12, CutFits DEF ScoresDiffer
  <2>14. \A k \in 1..Len(s) : s[k].kind = "match" BY <2>9, <2>13 DEF Entries
  <2>15. ask.method = "tree_search" BY <2>1 DEF Way
  <2>16. Asked' /\ Found' /\ Answering' BY <2>1 DEF Asked, Found, Answering
  <2>17. Matched' BY <2>1, <2>11, <2>13, <2>14 DEF Matched, Fitting, Fits
  <2>18. Way' BY <2>1, <2>15 DEF Way, Phases
  <2>a. UNCHANGED <<world, ask>> BY <2>1
  <2>b. Fit' BY <2>a, <2>11, <2>13 DEF Fit, Fitting, Fits, IdsApart
  <2>c. Scored' BY <2>11, <2>13 DEF Scored, ScoresApart
  <2>19. Fit' /\ Scored' BY <2>b, <2>c
  <2>20. FloorIn' BY <2>1 DEF FloorIn, Way
  <2>21. FloorLast' BY <2>1, <2>15 DEF FloorLast
  <2> QED BY <2>1, <2>16, <2>17, <2>18, <2>19, <2>20, <2>21 DEF Mixed
<1> QED BY <1>1, <1>2

\* The filter after an expansion drops no row of a document that was allowed.
LEMMA AfterOwed == ASSUME Owed, SearchBounds, KS!AfterExpansion PROVE Owed'
<1> USE DEF Owed
<1>1. /\ at = "allowed" /\ at' = "done" /\ UNCHANGED <<world, ask, main, done>>
      /\ pool' = KS!Those(pool, LAMBDA r : KS!SourceOf(r) \in ask.sources)
  BY DEF KS!AfterExpansion, KS!Goes
<1>2. pool \in Seq(Results) /\ IdsApart(pool) /\ AddedBelow /\ FloorThere /\ MatchThere BY <1>1 DEF Answering, Apart
<1>3. Len(pool) \in Nat /\ DOMAIN pool = 1..Len(pool) BY <1>2, LenProperties
<1> DEFINE K == {k \in 1..Len(pool) : KS!SourceOf(pool[k]) \in ask.sources}
<1>4. PICK q : q = pool' OBVIOUS
<1>5. TakenAt(q, pool, K) BY <1>1, <1>3, <1>4 DEF KS!Those, TakenAt, PlacesOf
<1>6. K \in SUBSET (1..Len(pool)) OBVIOUS
<1>10. q \in Seq(Results) /\ Entries(q) = {pool[k] : k \in K} /\ Picks(q, pool)
  <2> HIDE DEF K
  <2> QED BY <1>2, <1>5, <1>6, Taken
<1>11. Entries(q) = {e \in Entries(pool) : KS!SourceOf(e) \in ask.sources} BY <1>10 DEF Entries
<1> HIDE DEF K
<1>12. IdsApart(q) BY <1>2, <1>10, PicksApart
<1>13. Asked' /\ Matched' /\ Found' /\ Mixed' BY <1>1 DEF Asked, Matched, Fitting, Fits, Found, Mixed
<1>14. Way' BY <1>1 DEF Way, Phases
<1>15. Apart' BY <1>4, <1>10, <1>12 DEF Apart, IdsApart
<1>16. \A j \in 1..Len(q) : \E k \in 1..Len(pool) : q[j] = pool[k] BY <1>11 DEF Entries
<1>17. AddedBelow'
  <2> SUFFICES ASSUME NEW j \in 1..Len(q), NEW k \in 1..Len(q), q[j].kind \in {"match", "floor"}, q[k].kind \in {"outline", "neighbour", "child"}
               PROVE  q[k].score < q[j].score
    BY <1>4 DEF AddedBelow
  <2>1. PICK a, b \in 1..Len(pool) : q[j] = pool[a] /\ q[k] = pool[b] BY <1>16
  <2> QED BY <1>2, <2>1 DEF AddedBelow
<1>18. Documents' = {KS!SourceOf(e) : e \in Entries(q)} BY <1>1, <1>4 DEF Documents, KS!SourceOf, Entries
<1>19. \A x \in ask.sources : x \in Documents => x \in Documents' BY <1>11, <1>18 DEF Documents
<1>20. FloorThere'
  <2>1. KS!Floor' = KS!Floor BY <1>1 DEF KS!Floor, KS!Allowed
  <2>2. \A i \in KS!Floor : world.source[i] \in ask.sources BY DEF KS!Floor, KS!Allowed
  <2> QED BY <1>1, <1>2, <1>19, <2>1, <2>2 DEF FloorThere
<1>21. MatchThere'
  <2> SUFFICES ASSUME ask.method = "hybrid", ~ask.reranker, NEW j \in 1..Len(q), q[j].kind = "floor", NEW k \in 1..Len(main)
               PROVE  world.source[main[k].id] \in Documents'
    BY <1>1, <1>4 DEF MatchThere
  <2>1. world.source[main[k].id] \in ask.sources BY DEF Matched, Fitting, Fits
  <2>2. PICK l \in 1..Len(pool) : q[j] = pool[l] BY <1>16
  <2>3. world.source[main[k].id] \in Documents BY <1>2, <2>2 DEF MatchThere
  <2> QED BY <1>19, <2>1, <2>3
<1> QED BY <1>1, <1>13, <1>14, <1>15, <1>17, <1>20, <1>21 DEF Answering

\* No two places of a sequence hold the same.
Distinct(s) == \A j, k \in 1..Len(s) : j # k => s[j] # s[k]

\* What an index of sections refers to and has: sections that are no result, each once.
LEMMA SelectedAre ==
  ASSUME ItemsAre, pool \in Seq(Results)
  PROVE  /\ KS!Selected \in Seq(Sections) /\ Distinct(KS!Selected)
         /\ \A k \in 1..Len(KS!Selected), j \in 1..Len(pool) : pool[j].id # KS!Selected[k]
<1> DEFINE S == KS!Referenced
           d == Cardinality(S)
<1>1. S \subseteq Sections /\ \A i \in S : \A k \in 1..Len(pool) : pool[k].id # i BY ReferredTo
<1>2. PICK w : w = KS!Sorted(S, KS!Consensus) OBVIOUS
<1>3. d \in Nat /\ w \in [1..d -> S] /\ \A j, k \in 1..d : j < k => w[j] # w[k] BY <1>2, ItemsByConsensus
<1>4. PICK s : s = KS!FirstOf(w, KS!MaxReferenced) OBVIOUS
<1>5. KS!Selected = KS!Those(s, LAMBDA i : i \notin world.gone) BY <1>2, <1>4 DEF KS!Selected
<1> HIDE DEF S, d
<1>6. w \in Seq(S) /\ Len(w) = d BY <1>3, AsSequence
<1>7. s \in Seq(S) /\ Len(s) \in Nat /\ Len(s) <= Len(w) /\ \A k \in 1..Len(s) : s[k] = w[k]
  <2>1. KS!MaxReferenced \in Nat BY DEF KS!MaxReferenced
  <2>2. LET f == KS!FirstOf(w, KS!MaxReferenced) IN f \in Seq(S) /\ Len(f) \in Nat /\ Len(f) <= Len(w) /\ \A k \in 1..Len(f) : f[k] = w[k]
    BY <1>6, <2>1, Beginning
  <2> QED BY <1>4, <2>2
<1>8. Distinct(s)
  <2> SUFFICES ASSUME NEW j \in 1..Len(s), NEW k \in 1..Len(s), j # k PROVE s[j] # s[k] BY DEF Distinct
  <2>1. j \in 1..d /\ k \in 1..d /\ s[j] = w[j] /\ s[k] = w[k] BY <1>3, <1>6, <1>7
  <2>2. j < k \/ k < j BY <1>7
  <2> QED BY <1>3, <2>1, <2>2
<1> DEFINE K == {k \in 1..Len(s) : s[k] \notin world.gone}
<1>9. PICK q : q = KS!Selected OBVIOUS
<1>10. DOMAIN s = 1..Len(s) BY <1>7, LenProperties
<1>11. TakenAt(q, s, K) BY <1>5, <1>9, <1>10 DEF KS!Those, TakenAt, PlacesOf
<1>12. K \in SUBSET (1..Len(s)) OBVIOUS
<1> HIDE DEF K
<1>16. q \in Seq(S) /\ Entries(q) = {s[k] : k \in K} /\ Picks(q, s) BY <1>7, <1>11, <1>12, Taken
<1>17. \A k \in 1..Len(q) : q[k] \in S BY <1>16, ElementOfSeq
<1>18. Distinct(q)
  <2> SUFFICES ASSUME NEW j \in 1..Len(q), NEW k \in 1..Len(q), j # k PROVE q[j] # q[k] BY DEF Distinct
  <2>1. PICK a, b \in 1..Len(s) : a # b /\ q[j] = s[a] /\ q[k] = s[b] BY <1>16 DEF Picks
  <2> QED BY <1>8, <2>1 DEF Distinct
<1>19. q \in [1..Len(q) -> Sections] /\ Len(q) \in Nat BY <1>1, <1>16, <1>17, LenProperties
<1>20. q \in Seq(Sections) BY <1>19, AsSequence
<1>21. \A k \in 1..Len(q), j \in 1..Len(pool) : pool[j].id # q[k] BY <1>1, <1>17
<1> QED BY <1>9, <1>18, <1>20, <1>21

\* The pool, and rows that a graph added to it, apart from it and each other and below it.
Grown(t) == /\ t \in Seq(Results) /\ IdsApart(t) /\ Entries(pool) \subseteq Entries(t)
            /\ \A e \in Entries(t) : e \in Entries(pool) \/ (e.kind \in {"outline", "neighbour", "child"} /\ e.score < KS!Below)
\* Rows of such numbers, and one score and kind.
RowsAre(p, ids, score, kind) == p = [k \in DOMAIN ids |-> KS!Row(ids[k], score, kind)]

\* Rows of sections that are not there, of a score below the pool's, make it grow.
LEMMA Grows ==
  ASSUME NEW t, Grown(t), NEW ids \in Seq(Int), Distinct(ids), \A k \in 1..Len(ids), j \in 1..Len(t) : t[j].id # ids[k],
         NEW score \in Int, NEW below, below = KS!Below, below \in Int, score < below, NEW kind \in {"outline", "neighbour", "child"}, NEW p, RowsAre(p, ids, score, kind)
  PROVE  Grown(t \o p) /\ \A e \in Entries(t \o p) : e \in Entries(t) \/ e.id \in Entries(ids)
<1> DEFINE c == Len(ids)
<1>1. c \in Nat /\ DOMAIN ids = 1..c /\ \A k \in 1..c : ids[k] \in Int BY LenProperties, ElementOfSeq
<1>2. \A k \in 1..c : p[k] = [id |-> ids[k], score |-> score, kind |-> kind] BY <1>1 DEF RowsAre, KS!Row
<1>3. ASSUME NEW k \in 1..c PROVE p[k] \in Results /\ p[k].id = ids[k] /\ p[k].score = score /\ p[k].kind = kind
  <2>1. kind \in RowKinds BY DEF RowKinds
  <2>2. ids[k] \in Int BY <1>1
  <2> HIDE DEF RowKinds
  <2>3. [id |-> ids[k], score |-> score, kind |-> kind] \in Results BY <2>1, <2>2 DEF Results
  <2> QED BY <1>2, <2>3
<1>4. p \in [1..c -> Results] BY <1>1, <1>3 DEF RowsAre
<1>5. p \in Seq(Results) /\ Len(p) = c BY <1>1, <1>4, AsSequence
<1>6. t \in Seq(Results) /\ Len(t) \in Nat BY LenProperties DEF Grown
<1>7. PICK u : u = t \o p OBVIOUS
<1>8. u \in Seq(Results) /\ Len(u) = Len(t) + Len(p) BY <1>5, <1>6, <1>7, Joined
<1>9. Entries(u) = Entries(t) \union Entries(p) BY <1>5, <1>6, <1>7, Joined
<1>10. \A k \in 1..Len(t) : u[k] = t[k] BY <1>5, <1>6, <1>7, Joined
<1>11. \A k \in 1..Len(u) : k > Len(t) => (k - Len(t) \in 1..c /\ u[k] = p[k - Len(t)]) BY <1>5, <1>6, <1>7, Joined
<1>12. ASSUME NEW k \in 1..Len(u) PROVE (k \in 1..Len(t) /\ u[k] = t[k]) \/ (k - Len(t) \in 1..c /\ u[k].id = ids[k - Len(t)])
  <2>1. k <= Len(t) => k \in 1..Len(t) BY <1>6, <1>8
  <2>2. k > Len(t) => k - Len(t) \in 1..c /\ u[k].id = ids[k - Len(t)] BY <1>3, <1>11
  <2>3. k <= Len(t) \/ k > Len(t) BY <1>1, <1>5, <1>6, <1>8
  <2> QED BY <1>10, <2>1, <2>2, <2>3
<1>13. IdsApart(u)
  <2> SUFFICES ASSUME NEW j \in 1..Len(u), NEW k \in 1..Len(u), j # k PROVE u[j].id # u[k].id BY DEF IdsApart
  <2>1. CASE j \in 1..Len(t) /\ u[j] = t[j] /\ k \in 1..Len(t) /\ u[k] = t[k] BY <2>1 DEF Grown, IdsApart
  <2>2. CASE j \in 1..Len(t) /\ u[j] = t[j] /\ k - Len(t) \in 1..c /\ u[k].id = ids[k - Len(t)] BY <2>2
  <2>3. CASE k \in 1..Len(t) /\ u[k] = t[k] /\ j - Len(t) \in 1..c /\ u[j].id = ids[j - Len(t)] BY <2>3
  <2>4. CASE j - Len(t) \in 1..c /\ u[j].id = ids[j - Len(t)] /\ k - Len(t) \in 1..c /\ u[k].id = ids[k - Len(t)]
    <3>1. j - Len(t) # k - Len(t) BY <1>6, <1>8
    <3> QED BY <2>4, <3>1 DEF Distinct
  <2> QED BY <1>12, <2>1, <2>2, <2>3, <2>4
<1>14. \A e \in Entries(p) : e.id \in Entries(ids) /\ e.score = score /\ e.kind = kind
  <2> SUFFICES ASSUME NEW k \in 1..c PROVE p[k].id \in Entries(ids) /\ p[k].score = score /\ p[k].kind = kind BY <1>5 DEF Entries
  <2> QED BY <1>3 DEF Entries
<1>15. Grown(u) BY <1>8, <1>9, <1>13, <1>14 DEF Grown
<1> QED BY <1>7, <1>9, <1>14, <1>15

\* Sections, sorted: each once.
InOrderOf(q, U) == q = KS!Sorted(U, <)
\* Each of them is there once.
LEMMA SortedSections ==
  ASSUME ItemsAre, NEW U, U \subseteq Sections, NEW q, InOrderOf(q, U)
  PROVE  q \in Seq(Int) /\ Distinct(q) /\ \A k \in 1..Len(q) : q[k] \in U
<1>1. IsFiniteSet(U) /\ U \subseteq Int
  <2>1. IsFiniteSet(Sections) /\ \A i \in Sections : i \in Int BY DEF ItemsAre
  <2>2. IsFiniteSet(U) BY <2>1, FS_Subset
  <2> QED BY <2>1, <2>2
<1> DEFINE c == Cardinality(U)
<1>2. c \in Nat /\ KS!Sorted(U, <) \in [1..c -> U] /\ \A j, k \in 1..c : j < k => KS!Sorted(U, <)[j] < KS!Sorted(U, <)[k] BY <1>1, SortedNumbers
<1>3. q \in [1..c -> U] /\ \A j, k \in 1..c : j < k => q[j] < q[k] BY <1>2 DEF InOrderOf
<1>a. c \in Nat BY <1>1, FS_CardinalityType
<1> HIDE DEF c
<1>4. q \in [1..c -> Int] BY <1>1, <1>3
<1>5. q \in Seq(Int) /\ Len(q) = c BY <1>a, <1>4, AsSequence
<1>6. Distinct(q)
  <2> SUFFICES ASSUME NEW j \in 1..c, NEW k \in 1..c, j # k PROVE q[j] # q[k] BY <1>5 DEF Distinct
  <2>1. q[j] \in Int /\ q[k] \in Int BY <1>4
  <2>2. j < k \/ k < j BY <1>a
  <2>3. j < k => q[j] < q[k] BY <1>3
  <2>4. k < j => q[k] < q[j] BY <1>3
  <2> QED BY <2>1, <2>2, <2>3, <2>4
<1> QED BY <1>3, <1>5, <1>6

\* Their negations, each once as well.
LEMMA Negated ==
  ASSUME NEW o \in Seq(Int), Distinct(o), NEW q, q = [k \in DOMAIN o |-> -o[k]]
  PROVE  q \in Seq(Int) /\ Distinct(q) /\ DOMAIN q = DOMAIN o /\ Len(q) = Len(o) /\ \A k \in 1..Len(q) : q[k] = -o[k]
<1>1. Len(o) \in Nat /\ DOMAIN o = 1..Len(o) /\ \A k \in 1..Len(o) : o[k] \in Int BY LenProperties, ElementOfSeq
<1>2. q \in [1..Len(o) -> Int] BY <1>1
<1>3. q \in Seq(Int) /\ Len(q) = Len(o) /\ DOMAIN q = 1..Len(o) BY <1>1, <1>2, AsSequence
<1>4. \A k \in 1..Len(q) : q[k] = -o[k] BY <1>1, <1>3
<1>5. Distinct(q)
  <2> SUFFICES ASSUME NEW j \in 1..Len(o), NEW k \in 1..Len(o), j # k PROVE q[j] # q[k] BY <1>3 DEF Distinct
  <2>1. o[j] # o[k] /\ o[j] \in Int /\ o[k] \in Int BY <1>1 DEF Distinct
  <2>2. q[j] = -o[j] /\ q[k] = -o[k] BY <1>3, <1>4
  <2> QED BY <2>1, <2>2
<1> QED BY <1>1, <1>3, <1>4, <1>5

\* The expansion adds to the pool, below it and apart from it.
LEMMA ExpansionGrows ==
  ASSUME ItemsAre, Fit, NEW o, o \in {KS!Outlines, <<>>}, NEW u, u = KS!Expanded(o)
  PROVE  Grown(u)
<1>1. pool \in Seq(Results) /\ IdsApart(pool) /\ \A k \in 1..Len(pool) : pool[k].id \in Sections /\ pool[k] \in Results BY DEF Fit, Fitting, Fits
<1>2. PICK below : below = KS!Below OBVIOUS
<1>3. below \in Int BY <1>1, <1>2, LeastScore DEF KS!Below
<1>4. PICK added : added = KS!Selected OBVIOUS
<1>5. added \in Seq(Sections) /\ Distinct(added) /\ \A k \in 1..Len(added), j \in 1..Len(pool) : pool[j].id # added[k] BY <1>1, <1>4, SelectedAre
<1>6. PICK children : children = KS!Sorted(KS!Children(added, KS!Ids(pool) \union KS!ToSet(added)), <) OBVIOUS
<1>7. PICK pa : pa = [k \in DOMAIN o |-> KS!Row(-o[k], below - 1, "outline")] OBVIOUS
<1>8. PICK pb : pb = [k \in DOMAIN added |-> KS!Row(added[k], below - 2, "neighbour")] OBVIOUS
<1>9. PICK pc : pc = [k \in DOMAIN children |-> KS!Row(children[k], below - 3, "child")] OBVIOUS
<1>10. u = pool \o pa \o pb \o pc BY <1>2, <1>4, <1>6, <1>7, <1>8, <1>9 DEF KS!Expanded
<1>11. KS!ToSet(added) = Entries(added) /\ Entries(added) \subseteq Sections /\ Len(added) \in Nat BY <1>5, EntriesAre
<1>12. KS!ToSet(pool) = Entries(pool) BY <1>1, EntriesAre
<1>13. o \in Seq(Int) /\ Distinct(o) /\ \A k \in 1..Len(o) : o[k] \in Sections
  <2>1. CASE o = KS!Outlines
    <3> DEFINE first(s) == {i \in KS!ToSet(KS!Selected) : world.source[i] = s /\ \A j \in KS!ToSet(KS!Selected) : world.source[j] = s => i <= j}
    <3>a. o = KS!Sorted(UNION {first(s) : s \in Sources}, <) BY <2>1 DEF KS!Outlines
    <3>b. UNION {first(s) : s \in Sources} \subseteq KS!ToSet(KS!Selected) OBVIOUS
    <3> HIDE DEF first
    <3>1. PICK U : o = KS!Sorted(U, <) /\ U \subseteq KS!ToSet(KS!Selected) BY <3>a, <3>b
    <3>2. U \subseteq Sections BY <1>4, <1>11, <3>1
    <3>3. o \in Seq(Int) /\ Distinct(o) /\ \A k \in 1..Len(o) : o[k] \in U BY <3>1, <3>2, SortedSections DEF InOrderOf
    <3> QED BY <3>2, <3>3
  <2>2. CASE o = <<>>
    <3>1. o \in Seq(Int) /\ Len(o) = 0 BY <2>2
    <3>2. \A k : k \notin 1..0 OBVIOUS
    <3> QED BY <3>1, <3>2 DEF Distinct
  <2> QED BY <2>1, <2>2
<1>14. PICK C : C = KS!Children(added, KS!Ids(pool) \union KS!ToSet(added)) OBVIOUS
<1>15. C \subseteq Sections /\ C \intersect KS!Ids(pool) = {} /\ C \intersect Entries(added) = {} BY <1>11, <1>14, ZenonT(60) DEF KS!Children
<1>16. children \in Seq(Int) /\ Distinct(children) /\ \A k \in 1..Len(children) : children[k] \in C BY <1>6, <1>14, <1>15, SortedSections DEF InOrderOf
<1>17. PICK negs : negs = [k \in DOMAIN o |-> -o[k]] OBVIOUS
<1>18. negs \in Seq(Int) /\ Distinct(negs) /\ DOMAIN negs = DOMAIN o /\ Len(negs) = Len(o) /\ \A k \in 1..Len(negs) : negs[k] = -o[k]
  BY <1>13, <1>17, Negated
<1>19. \A i \in Sections : i \in Int /\ i > 0 BY DEF ItemsAre
<1>20. \A k \in 1..Len(negs) : negs[k] \in Int /\ negs[k] < 0
  <2> SUFFICES ASSUME NEW k \in 1..Len(negs) PROVE negs[k] \in Int /\ negs[k] < 0 OBVIOUS
  <2>1. o[k] \in Sections /\ negs[k] = -o[k] BY <1>13, <1>18
  <2>2. o[k] \in Int /\ o[k] > 0 BY <1>19, <2>1
  <2> QED BY <2>1, <2>2
<1>21. RowsAre(pa, negs, below - 1, "outline")
  <2>1. DOMAIN o = 1..Len(o) BY <1>13, LenProperties
  <2>2. \A k \in DOMAIN negs : -o[k] = negs[k] BY <1>18, <2>1
  <2> QED BY <1>7, <1>18, <2>2 DEF RowsAre
<1>22. RowsAre(pb, added, below - 2, "neighbour") /\ RowsAre(pc, children, below - 3, "child") BY <1>8, <1>9 DEF RowsAre
<1>23. Grown(pool) BY <1>1 DEF Grown
<1>24. below - 1 \in Int /\ below - 2 \in Int /\ below - 3 \in Int /\ below - 1 < below /\ below - 2 < below /\ below - 3 < below BY <1>3
<1>25. PICK ta : ta = pool \o pa OBVIOUS
<1>26. \A k \in 1..Len(negs), j \in 1..Len(pool) : pool[j].id # negs[k]
  <2> SUFFICES ASSUME NEW k \in 1..Len(negs), NEW j \in 1..Len(pool) PROVE pool[j].id # negs[k] OBVIOUS
  <2>1. pool[j].id \in Int /\ pool[j].id > 0 BY <1>1, <1>19
  <2>2. negs[k] \in Int /\ negs[k] < 0 BY <1>20
  <2> QED BY <2>1, <2>2
<1>27. Grown(ta) /\ \A e \in Entries(ta) : e \in Entries(pool) \/ e.id \in Entries(negs)
  BY <1>2, <1>3, <1>18, <1>21, <1>23, <1>24, <1>25, <1>26, Grows
<1>28. added \in Seq(Int)
  <2>1. added \in [1..Len(added) -> Int] BY <1>5, <1>19, LenProperties, ElementOfSeq
  <2> QED BY <1>11, <2>1, AsSequence
<1>29. \A k \in 1..Len(added), j \in 1..Len(ta) : ta[j].id # added[k]
  <2> SUFFICES ASSUME NEW k \in 1..Len(added), NEW j \in 1..Len(ta) PROVE ta[j].id # added[k] OBVIOUS
  <2>1. ta[j] \in Entries(pool) \/ ta[j].id \in Entries(negs) BY <1>27 DEF Entries
  <2>2. added[k] \in Int /\ added[k] > 0
    <3>1. added[k] \in Sections BY <1>5, ElementOfSeq
    <3> QED BY <1>19, <3>1
  <2>3. CASE ta[j] \in Entries(pool) BY <1>5, <2>3 DEF Entries
  <2>4. CASE ta[j].id \in Entries(negs)
    <3>1. ta[j].id \in Int /\ ta[j].id < 0 BY <1>20, <2>4 DEF Entries
    <3> QED BY <2>2, <3>1
  <2> QED BY <2>1, <2>3, <2>4
<1>30. PICK tb : tb = ta \o pb OBVIOUS
<1>31. Grown(tb) /\ \A e \in Entries(tb) : e \in Entries(ta) \/ e.id \in Entries(added)
  BY <1>2, <1>3, <1>5, <1>22, <1>24, <1>27, <1>28, <1>29, <1>30, Grows
<1>32. \A k \in 1..Len(children), j \in 1..Len(tb) : tb[j].id # children[k]
  <2> SUFFICES ASSUME NEW k \in 1..Len(children), NEW j \in 1..Len(tb) PROVE tb[j].id # children[k] OBVIOUS
  <2>1. tb[j] \in Entries(ta) \/ tb[j].id \in Entries(added) BY <1>31 DEF Entries
  <2>2. children[k] \in C BY <1>16
  <2>3. CASE tb[j].id \in Entries(added) BY <1>15, <2>2, <2>3
  <2>4. CASE tb[j] \in Entries(pool)
    <3>1. tb[j].id \in KS!Ids(pool) BY <1>12, <2>4 DEF KS!Ids
    <3> QED BY <1>15, <2>2, <3>1
  <2>5. CASE tb[j].id \in Entries(negs)
    <3>1. tb[j].id \in Int /\ tb[j].id < 0 BY <1>20, <2>5 DEF Entries
    <3>2. children[k] \in Int /\ children[k] > 0 BY <1>15, <1>19, <2>2
    <3> QED BY <3>1, <3>2
  <2> QED BY <1>27, <2>1, <2>3, <2>4, <2>5
<1>33. Grown(tb \o pc)
  BY <1>2, <1>3, <1>16, <1>22, <1>24, <1>31, <1>32, Grows
<1> QED BY <1>10, <1>25, <1>30, <1>33

\* The expansion of a graph leaves what was found, and adds below it.
LEMMA ExpandOwed == ASSUME SearchBounds, Owed, KS!ExpandGraph PROVE Owed'
<1> USE DEF Owed
<1>1. /\ at = "expand" /\ at' = "allowed" /\ UNCHANGED <<world, ask, main, done>>
      /\ \E o \in {KS!Outlines, <<>>} : pool' = KS!Expanded(o)
  BY DEF KS!ExpandGraph, KS!Goes
<1>2. PICK o : o \in {KS!Outlines, <<>>} /\ pool' = KS!Expanded(o) BY <1>1
<1>3. PICK q : q = pool' OBVIOUS
<1>4. Fit /\ FloorThere /\ MatchThere BY <1>1 DEF Answering
<1>5. Grown(q) BY <1>2, <1>3, <1>4, ExpansionGrows DEF SearchBounds
<1>6. pool \in Seq(Results) /\ \A k \in 1..Len(pool) : pool[k].kind \in {"match", "floor"} BY <1>4 DEF Fit, Fitting, Fits
<1>7. PICK below : below = KS!Below OBVIOUS
<1>8. below \in Int /\ \A k \in 1..Len(pool) : below <= pool[k].score BY <1>6, <1>7, LeastScore DEF KS!Below
<1>9. q \in Seq(Results) /\ IdsApart(q) /\ Entries(pool) \subseteq Entries(q)
      /\ \A e \in Entries(q) : e \in Entries(pool) \/ (e.kind \in {"outline", "neighbour", "child"} /\ e.score < below)
  BY <1>5, <1>7 DEF Grown
<1>10. \A e \in Entries(q) : e.kind \in {"match", "floor"} => e \in Entries(pool) BY <1>9
<1>11. \A e \in Entries(q) : e.kind \in {"outline", "neighbour", "child"} => e.score < below BY <1>6, <1>9 DEF Entries
<1>12. ASSUME NEW k \in 1..Len(q) PROVE q[k] \in Entries(q) /\ q[k].score \in Int
  <2>1. q[k] \in Results BY <1>9, ElementOfSeq
  <2>2. q[k].score \in Int BY <2>1 DEF Results
  <2> QED BY <2>2 DEF Entries
<1>13. AddedBelow'
  <2> SUFFICES ASSUME NEW j \in 1..Len(q), NEW k \in 1..Len(q), q[j].kind \in {"match", "floor"}, q[k].kind \in {"outline", "neighbour", "child"}
               PROVE  q[k].score < q[j].score
    BY <1>3 DEF AddedBelow
  <2>1. q[j] \in Entries(pool) BY <1>10, <1>12
  <2>2. below <= q[j].score BY <1>8, <2>1 DEF Entries
  <2>3. q[k].score < below BY <1>11, <1>12
  <2>4. q[j].score \in Int /\ q[k].score \in Int BY <1>12
  <2> QED BY <1>8, <2>2, <2>3, <2>4
<1>14. Asked' /\ Matched' /\ Found' /\ Mixed' BY <1>1 DEF Asked, Matched, Fitting, Fits, Found, Mixed
<1>15. Way' BY <1>1 DEF Way, Phases
<1>16. Apart' BY <1>3, <1>9 DEF Apart, IdsApart
<1>17. Documents' = {KS!SourceOf(e) : e \in Entries(q)} BY <1>1, <1>3 DEF Documents, KS!SourceOf, Entries
<1>18. Documents \subseteq Documents' BY <1>9, <1>17 DEF Documents
<1>19. FloorThere'
  <2>1. KS!Floor' = KS!Floor BY <1>1 DEF KS!Floor, KS!Allowed
  <2> QED BY <1>1, <1>4, <1>18, <2>1 DEF FloorThere
<1>20. MatchThere'
  <2> SUFFICES ASSUME ask.method = "hybrid", ~ask.reranker, NEW j \in 1..Len(q), q[j].kind = "floor", NEW k \in 1..Len(main)
               PROVE  world.source[main[k].id] \in Documents'
    BY <1>1, <1>3 DEF MatchThere
  <2>1. q[j] \in Entries(pool) BY <1>10, <1>12
  <2>2. PICK l \in 1..Len(pool) : q[j] = pool[l] BY <2>1 DEF Entries
  <2>3. world.source[main[k].id] \in Documents BY <1>4, <2>2 DEF MatchThere
  <2> QED BY <1>18, <2>3
<1> QED BY <1>1, <1>13, <1>14, <1>15, <1>16, <1>19, <1>20 DEF Answering

\* Before it is asked a search has nothing; what it is asked is of the sources there are.
LEMMA OwedInit == ASSUME KS!Init PROVE Owed
<1>1. /\ world \in Worlds /\ at = "ask" /\ pool = <<>> /\ main = <<>> /\ done = {} 
      /\ ask.method = "vector_search" /\ ask.min = 0 /\ ask.max = 0 /\ ask.top = 1 /\ ask.sources = Sources /\ ~ask.reranker
  BY DEF KS!Init
<1>2. Asked BY <1>1 DEF Asked, KS!Methods
<1>3. Way BY <1>1 DEF Way, Phases
<1>4. Matched BY <1>1, NoRows DEF Matched
<1> QED BY <1>1, <1>2, <1>3, <1>4 DEF Owed, Found, Mixed, Answering

\* What is asked leaves it at that.
LEMMA AskOwed == ASSUME Owed, KS!Ask PROVE Owed'
<1> USE DEF Owed
<1>1. at = "ask" /\ at' \in {"query", "count"} /\ UNCHANGED <<world, pool, main, done>> /\ ask' \in KS!Asks BY DEF KS!Ask
<1>2. pool = <<>> /\ main = <<>> /\ "floor" \notin done BY <1>1 DEF Way
<1>3. /\ ask'.method \in KS!Methods /\ ask'.min \in 0..1 /\ ask'.max \in 0..1 /\ ask'.top \in 1..2 /\ ask'.sources \subseteq Sources
  BY <1>1 DEF KS!Asks
<1>4. Asked' BY <1>1, <1>3 DEF Asked
<1>5. Way' BY <1>1, <1>2 DEF Way, Phases
<1>6. Matched' BY <1>1, <1>2 DEF Matched, Fitting
<1>7. Found' /\ Mixed' /\ Answering' BY <1>1 DEF Found, Mixed, Answering
<1> QED BY <1>4, <1>5, <1>6, <1>7

\* Every step keeps what is owed.
LEMMA OwedNext ==
  ASSUME SearchBounds, Owed, [KS!Next]_(KS!vars)
  PROVE  Owed'
<1>1. ASSUME KS!Search PROVE Owed'
  <2>1. KS!EnrichQuery \/ KS!Count \/ KS!CheckPrimary \/ KS!AttachMetadata \/ KS!ChargeMetadata \/ KS!CheckReranker \/ KS!CheckTree => Owed' BY PlainSteps
  <2>2. KS!Retrieve => Owed' BY RetrieveOwed
  <2>3. KS!MergeFloor => Owed' BY MergeOwed
  <2>4. KS!Rerank => Owed' BY RerankOwed DEF SearchBounds
  <2>5. KS!ApplyLimits => Owed' BY LimitsOwed
  <2>6. KS!ExpandGraph => Owed' BY ExpandOwed
  <2>7. KS!AfterExpansion => Owed' BY AfterOwed
  <2>8. KS!SelectNodes => Owed' BY TreeOwed
  <2> QED BY <1>1, <2>1, <2>2, <2>3, <2>4, <2>5, <2>6, <2>7, <2>8 DEF KS!Search
<1>2. ASSUME KS!AsyncSearch PROVE KS!Search
  BY <1>2 DEF KS!AsyncSearch, KS!AsyncQuery, KS!AsyncCount, KS!AsyncPipeline, KS!AsyncRetrieve, KS!AsyncFloor, KS!AsyncGraph, KS!AsyncTree, KS!Search
<1>3. CASE KS!Ask BY <1>3, AskOwed
<1>4. CASE KS!Refused BY <1>4, RaisesNothing DEF KS!Refused
<1>5. CASE KS!Spent
  <2>1. UNCHANGED <<world, ask, pool, main, done, at>> BY <1>5 DEF KS!Spent
  <2>2. Way' BY <2>1 DEF Owed, Way
  <2> QED BY <2>1, <2>2, Keeps
<1>6. CASE UNCHANGED KS!vars
  <2>1. UNCHANGED <<world, ask, pool, main, done, at>> BY <1>6 DEF KS!vars
  <2>2. Way' BY <2>1 DEF Owed, Way
  <2> QED BY <2>1, <2>2, Keeps
<1> QED BY <1>1, <1>2, <1>3, <1>4, <1>5, <1>6 DEF KS!Next

\* What is owed holds of the answer.
LEMMA OwedAnswers == ASSUME SearchBounds, Owed PROVE KS!FloorKept /\ KS!FloorOnlyFills /\ KS!ExpandedApart
<1> USE DEF Owed
<1>1. pool \in Seq(Results) /\ IdsApart(pool) /\ AddedBelow
  <2>1. CASE at \in {"ask", "query", "count", "primary", "retrieve", "tree", "select", "raised"}
    <3>1. pool = <<>> BY <2>1 DEF Way
    <3>2. Len(pool) = 0 BY <3>1
    <3>3. \A k : k \notin 1..0 OBVIOUS
    <3> QED BY <3>1, <3>2, <3>3, NoRows DEF AddedBelow
  <2>2. CASE at \in {"floor", "metadata", "attached", "rerank", "reranking", "limits"}
    <3>1. Fit BY <2>2 DEF Found, Mixed
    <3> QED BY <3>1 DEF Fit, Fitting, Fits, AddedBelow
  <2>3. CASE at \in {"expand", "allowed", "done"} BY <2>3 DEF Answering, Apart
  <2> QED BY <2>1, <2>2, <2>3 DEF Way, Phases
<1>2. KS!ExpandedApart BY <1>1 DEF KS!ExpandedApart, IdsApart, AddedBelow
<1>3. KS!ToSet(pool) = Entries(pool) BY <1>1, EntriesAre
<1>4. main \in Seq(Results) /\ KS!ToSet(main) = Entries(main) BY EntriesAre DEF Matched, Fitting
<1>5. ASSUME at = "done" PROVE FloorThere /\ MatchThere BY <1>5 DEF Answering
<1>6. Documents = {KS!SourceOf(r) : r \in KS!ToSet(pool)} BY <1>3 DEF Documents
<1>7. KS!FloorKept
  <2> SUFFICES ASSUME at = "done", ask.min > 0, "floor" \in done, KS!Cardinality(ask.sources) <= ask.top, NEW i \in KS!Floor
               PROVE  \E r \in KS!ToSet(pool) : KS!SourceOf(r) = world.source[i]
    BY DEF KS!FloorKept, KS!Answered
  <2>1. Cardinality(ask.sources) <= ask.top BY SearchCounts
  <2>2. world.source[i] \in Documents BY <1>5, <2>1 DEF FloorThere
  <2> QED BY <1>6, <2>2
<1>8. KS!FloorOnlyFills
  <2> SUFFICES ASSUME at = "done", ~ask.reranker, ask.method = "hybrid", NEW f \in KS!ToSet(pool), f.kind = "floor", NEW m \in KS!ToSet(main)
               PROVE  KS!SourceOf(m) \in {KS!SourceOf(r) : r \in KS!ToSet(pool)}
    BY DEF KS!FloorOnlyFills, KS!Answered
  <2>1. PICK j \in 1..Len(pool) : pool[j] = f BY <1>3 DEF Entries
  <2>2. PICK k \in 1..Len(main) : main[k] = m BY <1>4 DEF Entries
  <2>3. world.source[m.id] \in Documents BY <1>5, <2>1, <2>2 DEF MatchThere
  <2>4. m.id \in Sections BY <2>2 DEF Matched, Fitting, Fits
  <2>5. m.id \in Int /\ m.id > 0 BY <2>4 DEF SearchBounds, ItemsAre
  <2>6. KS!SourceOf(m) = world.source[m.id] BY <2>5 DEF KS!SourceOf
  <2> QED BY <1>6, <2>3, <2>6
<1> QED BY <1>2, <1>7, <1>8

\* A search answers what it owes: the floor, a place a source, and the matches above what a graph adds.
THEOREM AnswersAreOwed ==
  ASSUME KS!SearchAssumption
  PROVE  KS!Spec => [](KS!FloorKept /\ KS!FloorOnlyFills /\ KS!ExpandedApart)
<1>1. SearchBounds
  <2>1. ItemsAre /\ IsFiniteSet(Sources) BY SearchIsOf
  <2>2. \A w \in Worlds : w.source \in [Sections -> Sources] BY DEF KS!SearchAssumption
  <2> QED BY <2>1, <2>2 DEF SearchBounds
<1>2. KS!Init => Owed BY OwedInit
<1>3. Owed /\ [KS!Next]_(KS!vars) => Owed' BY <1>1, OwedNext
<1>4. Owed => KS!FloorKept /\ KS!FloorOnlyFills /\ KS!ExpandedApart BY <1>1, OwedAnswers
<1> QED BY <1>2, <1>3, <1>4, PTL DEF KS!Spec

-----------------------------------------------------------------------------
(* The context that is made of the results. *)

ContextConstants == Budgets \subseteq Nat
PageSets == {{}, {1}, {1, 2}}
BlockKinds == {"text", "header", "image"}
Presented == /\ items \in Seq(Kinds) /\ order \in [1..Len(items) -> 1..Len(items)] /\ images \in [CF!Srcs -> PageSets]
             /\ n \in Nat \ {0} /\ n <= Len(items) + 1
Untouched == items = <<>> => /\ n = 1 /\ tokens = 0 /\ seen = {} /\ blocks = <<>> /\ refs = {} /\ shown = {} /\ noted = {} /\ stored = <<>> /\ read = <<>>
Prefix == /\ budget > 0 => tokens <= budget
          /\ {order[p] : p \in 1..(n - 1)} = shown \union noted
\* Who showed the page p of s: an item displayed before the next one.
ShownAt(s, p, a) == a \in 1..(n - 1) /\ order[a] \in shown /\ items[order[a]].source = s /\ CF!Shows(order[a], p)
Seen == \A s, p : <<s, p>> \in seen => \E a \in 1..(n - 1) : ShownAt(s, p, a)
Noted == CF!NotedIsCovered
Referred == blocks \in Seq(BlockKinds) /\ refs = {k \in 1..Len(blocks) : blocks[k] = "image"}
Stored == stored # <<>> => stored = [k \in 1..Len(blocks) |-> IF k \in refs THEN "reference" ELSE blocks[k]] /\ (stopped \/ n > Len(order))
ReadFrom(r, st) == \E gone \in SUBSET {k \in 1..Len(st) : st[k] = "reference"} :
                      r = [k \in 1..Len(st) |-> IF k \in gone THEN "unavailable" ELSE IF st[k] = "reference" THEN "image" ELSE st[k]]
WasRead == read # <<>> => stored # <<>> /\ ReadFrom(read, stored)
ContextInv == Presented /\ Untouched /\ Prefix /\ Seen /\ Noted /\ Referred /\ Stored /\ WasRead

\* Each item is displayed once, and there are as many places as items.
LEMMA DisplayPlaces == ASSUME Presented PROVE Len(items) \in Nat /\ Len(order) = Len(items) /\ items \in [1..Len(items) -> Kinds]
<1>1. Len(items) \in Nat /\ items \in [1..Len(items) -> Kinds] BY LenProperties DEF Presented
<1>2. order \in Seq(1..Len(items)) BY <1>1 DEF Presented
<1>3. Len(order) \in Nat /\ DOMAIN order = 1..Len(order) BY <1>2, LenProperties
<1>4. 1..Len(order) = 1..Len(items) BY <1>3 DEF Presented
<1>2a. ASSUME NEW a \in Nat, NEW b \in Nat, 1..a = 1..b PROVE ~(a < b)
  <2>1. a < b => b \in 1..b /\ b \notin 1..a OBVIOUS
  <2> QED BY <1>2a, <2>1
<1>5. Len(order) = Len(items)
  <2>1. ~(Len(order) < Len(items)) /\ ~(Len(items) < Len(order)) BY <1>1, <1>2a, <1>3, <1>4
  <2>2. \A a, b \in Nat : ~(a < b) /\ ~(b < a) => a = b OBVIOUS
  <2>3. Len(order) \in Nat /\ Len(items) \in Nat BY <1>1, <1>3
  <2> QED BY <2>1, <2>2, <2>3
<1> QED BY <1>1, <1>5

\* What is due is an item that was asked for, and nothing is stored yet.
LEMMA DueIs == ASSUME ContextInv, CF!Due
               PROVE  /\ items # <<>> /\ n \in Nat /\ n \in 1..Len(order) /\ order[n] \in 1..Len(items) /\ CF!Item \in Kinds /\ CF!Item.source \in CF!Srcs
                      /\ Len(order) \in Nat /\ stored = <<>> /\ read = <<>> /\ images[CF!Item.source] \in PageSets
<1>1. Len(items) \in Nat /\ Len(order) = Len(items) /\ items \in [1..Len(items) -> Kinds] BY DisplayPlaces DEF ContextInv
<1>2. n \in Nat \ {0} /\ n <= Len(order) BY DEF ContextInv, Presented, CF!Due
<1>3. n \in 1..Len(items) /\ order[n] \in 1..Len(items) BY <1>1, <1>2 DEF ContextInv, Presented
<1>4. CF!Item \in Kinds BY <1>1, <1>3 DEF CF!Item
<1>5. CF!Item.source \in CF!Srcs BY <1>4 DEF CF!Srcs
<1>6. items # <<>>
  <2>1. items = <<>> => Len(items) = 0 OBVIOUS
  <2> QED BY <1>1, <1>3, <2>1
<1>7. stored = <<>> /\ read = <<>> BY DEF CF!Due, ContextInv, WasRead
<1>8. images[CF!Item.source] \in PageSets BY <1>5 DEF ContextInv, Presented
<1> QED BY <1>1, <1>2, <1>3, <1>4, <1>5, <1>6, <1>7, <1>8

\* Nothing more is displayed.
LEMMA Unmoved == ASSUME ContextInv, UNCHANGED <<items, images, order, n, seen, shown, noted>> PROVE Seen' /\ Noted'
<1>1. \A j, p : CF!Shows(j, p)' <=> CF!Shows(j, p) BY DEF CF!Shows, CF!ByImages, CF!AnyImage
<1>2. \A s, p, a : ShownAt(s, p, a)' <=> ShownAt(s, p, a) BY <1>1 DEF ShownAt
<1>3. Seen' BY <1>2 DEF ContextInv, Seen
<1>4. \A j, k : CF!Precedes(j, k)' <=> CF!Precedes(j, k) BY DEF CF!Precedes
<1>5. \A k : CF!ByImages(items[k])' = CF!ByImages(items[k]) /\ CF!MatchedBy(items[k])' = CF!MatchedBy(items[k]) BY DEF CF!ByImages, CF!AnyImage, CF!MatchedBy
<1>6. Noted' BY <1>1, <1>4, <1>5 DEF ContextInv, Noted, CF!NotedIsCovered
<1> QED BY <1>3, <1>6

\* What the steps of an item have in common: it is there now, and the next is due.
LEMMA Advances ==
    ASSUME ContextInv, CF!Due, UNCHANGED CF!asked, n' = n + 1, UNCHANGED <<stopped, stored, read>>, NEW cost, CF!Fits(cost), tokens' = tokens + cost, Referred',
           shown' \union noted' = shown \union noted \union {order[n]}, shown \subseteq shown',
           \A s, p : <<s, p>> \in seen' => \/ <<s, p>> \in seen
                                           \/ s = CF!Item.source /\ order[n] \in shown' /\ CF!Shows(order[n], p),
           \A k \in noted' : k \in noted \/ (k = order[n] /\ \A p \in (IF CF!ByImages(CF!Item) THEN CF!MatchedBy(CF!Item) ELSE CF!Item.pages) : <<CF!Item.source, p>> \in seen)
    PROVE  ContextInv'
<1> USE DEF CF!asked
<1>1. n \in Nat /\ n \in 1..Len(order) /\ stored = <<>> /\ read = <<>> /\ items # <<>> /\ Len(order) \in Nat BY DueIs
<1>2. Len(order) = Len(items) BY DisplayPlaces DEF ContextInv
<1>3. Presented' BY <1>1, <1>2 DEF ContextInv, Presented
<1>4. Untouched' BY <1>1 DEF Untouched
<1>5. Prefix'
  <2>1. 1..(n' - 1) = (1..(n - 1)) \union {n} BY <1>1
  <2>2. {order'[p] : p \in 1..(n' - 1)} = {order[p] : p \in 1..(n - 1)} \union {order[n]} BY <2>1
  <2>3. {order'[p] : p \in 1..(n' - 1)} = shown' \union noted' BY <2>2 DEF ContextInv, Prefix
  <2>4. budget' > 0 => tokens' <= budget' BY DEF CF!Fits
  <2> QED BY <2>3, <2>4 DEF Prefix
<1>6. \A j, p : CF!Shows(j, p)' <=> CF!Shows(j, p) BY DEF CF!Shows, CF!ByImages, CF!AnyImage
<1>7. \A s, p, a : ShownAt(s, p, a) => ShownAt(s, p, a)'
  <2> SUFFICES ASSUME NEW s, NEW p, NEW a, ShownAt(s, p, a) PROVE ShownAt(s, p, a)' OBVIOUS
  <2>1. a \in 1..(n' - 1) BY <1>1 DEF ShownAt
  <2> QED BY <2>1, <1>6 DEF ShownAt
<1>8. Seen'
  <2> SUFFICES ASSUME NEW s, NEW p, <<s, p>> \in seen' PROVE \E a \in 1..(n' - 1) : ShownAt(s, p, a)' BY DEF Seen, ShownAt, CF!Shows, CF!ByImages, CF!AnyImage
  <2>1. CASE <<s, p>> \in seen
    <3>1. PICK a \in 1..(n - 1) : ShownAt(s, p, a) BY <2>1 DEF ContextInv, Seen
    <3> QED BY <1>1, <1>7, <3>1
  <2>2. CASE s = CF!Item.source /\ order[n] \in shown' /\ CF!Shows(order[n], p)
    <3>1. n \in 1..(n' - 1) BY <1>1
    <3>2. \A a : a = n => ShownAt(s, p, a)' BY <2>2, <3>1, <1>6 DEF ShownAt, CF!Item
    <3> QED BY <3>1, <3>2
  <2> QED BY <2>1, <2>2
<1>9. \A k : CF!ByImages(items[k])' = CF!ByImages(items[k]) /\ CF!MatchedBy(items[k])' = CF!MatchedBy(items[k]) BY DEF CF!ByImages, CF!AnyImage, CF!MatchedBy
<1>12. \A j, k : CF!Precedes(j, k)' <=> CF!Precedes(j, k) BY DEF CF!Precedes
<1>10. Noted'
  <2> SUFFICES ASSUME NEW k \in noted', NEW p \in (IF CF!ByImages(items[k]) THEN CF!MatchedBy(items[k]) ELSE items[k].pages)
               PROVE  \E j \in shown' : items[j].source = items[k].source /\ CF!Shows(j, p) /\ CF!Precedes(j, k)
    BY <1>6, <1>9, <1>12 DEF Noted, CF!NotedIsCovered
  <2>1. CASE k \in noted
    <3>1. PICK j \in shown : items[j].source = items[k].source /\ CF!Shows(j, p) /\ CF!Precedes(j, k) BY <2>1 DEF ContextInv, Noted, CF!NotedIsCovered
    <3> QED BY <3>1
  <2>2. CASE k = order[n] /\ \A q \in (IF CF!ByImages(CF!Item) THEN CF!MatchedBy(CF!Item) ELSE CF!Item.pages) : <<CF!Item.source, q>> \in seen
    <3>1. <<CF!Item.source, p>> \in seen /\ items[k] = CF!Item BY <2>2 DEF CF!Item
    <3>2. PICK a \in 1..(n - 1) : ShownAt(CF!Item.source, p, a) BY <3>1 DEF ContextInv, Seen
    <3>3. a \in 1..Len(order) /\ a < n BY <1>1
    <3>4. CF!Precedes(order[a], k) BY <1>1, <2>2, <3>3 DEF CF!Precedes
    <3> QED BY <3>1, <3>2, <3>4 DEF ShownAt
  <2> QED BY <2>1, <2>2
<1>11. Stored' /\ WasRead' BY <1>1 DEF Stored, WasRead
<1> QED BY <1>3, <1>4, <1>5, <1>8, <1>10, <1>11 DEF ContextInv

\* The first that does not fit ends it.
LEMMA StopsInv == ASSUME ContextInv, CF!Due, CF!Stops PROVE ContextInv'
<1> USE DEF CF!Stops, CF!asked
<1>1. UNCHANGED <<items, images, grouped, budget, order, n, tokens, seen, blocks, refs, shown, noted, stored, read>> OBVIOUS
<1>2. stored = <<>> /\ read = <<>> BY DueIs
<1>3. Presented' /\ Untouched' /\ Prefix' /\ Referred' BY <1>1 DEF ContextInv, Presented, Untouched, Prefix, Referred
<1>4. Seen' BY <1>1, Unmoved
<1>5. Noted' BY <1>1, Unmoved
<1>6. Stored' /\ WasRead' BY <1>1, <1>2 DEF Stored, WasRead
<1> QED BY <1>3, <1>4, <1>5, <1>6 DEF ContextInv

\* Blocks are appended, images of which are referred to where they land.
LEMMA Appends ==
    ASSUME Referred, NEW b \in BlockKinds \ {"image"}, NEW k \in Nat, blocks' = blocks \o (<<b>> \o [j \in 1..k |-> "image"]),
           refs' = refs \union {Len(blocks) + 1 + j : j \in 1..k}
    PROVE  Referred'
<1> DEFINE i == [j \in 1..k |-> "image"]
           L == Len(blocks)
<1>1. i \in Seq(BlockKinds) /\ Len(i) = k
  <2>1. "image" \in BlockKinds BY DEF BlockKinds
  <2>2. \A f \in [1..k -> BlockKinds] : f \in Seq(BlockKinds) /\ Len(f) = k OBVIOUS
  <2>3. i \in [1..k -> BlockKinds] BY <2>1
  <2> HIDE DEF i
  <2> QED BY <2>2, <2>3
<1>2. <<b>> \o i \in Seq(BlockKinds) /\ Len(<<b>> \o i) = k + 1 BY <1>1
<1>3. blocks \in Seq(BlockKinds) /\ L \in Nat BY DEF Referred
<1>4. blocks' \in Seq(BlockKinds) /\ Len(blocks') = L + k + 1 BY <1>2, <1>3
<1>5. \A m \in 1..L : blocks'[m] = blocks[m] BY <1>2, <1>3
<1>6. blocks'[L + 1] = b
  <2>1. (<<b>> \o i)[1] = b BY <1>1
  <2> QED BY <1>2, <1>3, <2>1
<1>7. \A j \in 1..k : blocks'[L + 1 + j] = "image"
  <2> SUFFICES ASSUME NEW j \in 1..k PROVE blocks'[L + 1 + j] = "image" OBVIOUS
  <2>1. (<<b>> \o i)[1 + j] = i[j] BY <1>1
  <2>2. blocks'[L + (1 + j)] = (<<b>> \o i)[1 + j] BY <1>2, <1>3
  <2> QED BY <1>3, <2>1, <2>2
<1>8. \A m \in 1..(L + k + 1) : m \in 1..L \/ m = L + 1 \/ \E j \in 1..k : m = L + 1 + j
  <2>1. \A a \in Nat : \A m \in 1..(a + k + 1) : m \in 1..a \/ m = a + 1 \/ (m - a - 1 \in 1..k /\ m = a + 1 + (m - a - 1)) OBVIOUS
  <2> HIDE DEF L
  <2> QED BY <1>3, <2>1
<1> HIDE DEF i, L
<1>9. refs = {m \in 1..L : blocks[m] = "image"} BY DEF Referred, L
<1>10. refs' = refs \union {L + 1 + j : j \in 1..k} BY DEF L
<1>11. refs' = {m \in 1..Len(blocks') : blocks'[m] = "image"}
  <2>1. ASSUME NEW m \in refs' PROVE m \in 1..Len(blocks') /\ blocks'[m] = "image"
    <3>1. CASE m \in refs BY <1>3, <1>4, <1>5, <1>9, <3>1
    <3>2. CASE \E j \in 1..k : m = L + 1 + j BY <1>3, <1>4, <1>7, <3>2
    <3> QED BY <2>1, <1>10, <3>1, <3>2
  <2>2. ASSUME NEW m \in 1..Len(blocks'), blocks'[m] = "image" PROVE m \in refs'
    <3>1. CASE m \in 1..L BY <1>5, <1>9, <1>10, <2>2, <3>1
    <3>2. CASE m = L + 1 BY <1>6, <2>2, <3>2
    <3>3. CASE \E j \in 1..k : m = L + 1 + j BY <1>10, <3>3
    <3> QED BY <1>4, <1>8, <3>1, <3>2, <3>3
  <2> QED BY <2>1, <2>2
<1> QED BY <1>4, <1>11 DEF Referred

\* One block is appended, which is no image.
LEMMA AppendsOne ==
    ASSUME Referred, NEW b \in BlockKinds \ {"image"}, blocks' = blocks \o <<b>>, UNCHANGED refs
    PROVE  Referred'
<1>1. blocks \in Seq(BlockKinds) /\ Len(blocks) \in Nat BY DEF Referred
<1>2. blocks' \in Seq(BlockKinds) /\ Len(blocks') = Len(blocks) + 1 /\ blocks'[Len(blocks) + 1] = b /\ \A m \in 1..Len(blocks) : blocks'[m] = blocks[m]
  BY <1>1
<1>3. {m \in 1..Len(blocks') : blocks'[m] = "image"} = {m \in 1..Len(blocks) : blocks[m] = "image"}
  <2>1. 1..Len(blocks') = (1..Len(blocks)) \union {Len(blocks) + 1} BY <1>1, <1>2
  <2> QED BY <1>2, <2>1
<1> QED BY <1>2, <1>3 DEF Referred

\* A text shows its pages.
LEMMA ShowTextInv == ASSUME ContextInv, CF!Due, CF!ShowText PROVE ContextInv'
<1>1. CASE ~CF!Fits(2) BY <1>1, StopsInv DEF CF!ShowText
<1>2. CASE CF!Fits(2)
  <2>1. CF!Writes(2, <<"text">>, CF!Item.pages) /\ shown' = shown \union {order[n]} /\ UNCHANGED <<refs, noted>> BY <1>2 DEF CF!ShowText
  <2>2. Referred' BY <2>1, AppendsOne DEF CF!Writes, ContextInv, BlockKinds
  <2>3. \A s, p : <<s, p>> \in seen' => <<s, p>> \in seen \/ (s = CF!Item.source /\ order[n] \in shown' /\ CF!Shows(order[n], p))
    BY <2>1 DEF CF!Writes, CF!Of, CF!Shows, CF!Item
  <2>4. /\ UNCHANGED CF!asked /\ n' = n + 1 /\ UNCHANGED <<stopped, stored, read>> /\ tokens' = tokens + 2
        /\ shown' \union noted' = shown \union noted \union {order[n]} /\ shown \subseteq shown'
        /\ \A k \in noted' : k \in noted
    BY <2>1 DEF CF!Writes
  <2> QED BY <1>2, <2>2, <2>3, <2>4, Advances
<1> QED BY <1>1, <1>2

\* What is noted was seen.
LEMMA NoteInv == ASSUME ContextInv, CF!Due, CF!Note, \A p \in (IF CF!ByImages(CF!Item) THEN CF!MatchedBy(CF!Item) ELSE CF!Item.pages) : <<CF!Item.source, p>> \in seen
                 PROVE  ContextInv'
<1>1. CASE ~CF!Fits(1) BY <1>1, StopsInv DEF CF!Note
<1>2. CASE CF!Fits(1)
  <2>1. CF!Writes(1, <<"text">>, {}) /\ noted' = noted \union {order[n]} /\ UNCHANGED <<refs, shown>> BY <1>2 DEF CF!Note
  <2>2. Referred' BY <2>1, AppendsOne DEF CF!Writes, ContextInv, BlockKinds
  <2>3. seen' = seen BY <2>1 DEF CF!Writes, CF!Of
  <2>4. /\ UNCHANGED CF!asked /\ n' = n + 1 /\ UNCHANGED <<stopped, stored, read>> /\ tokens' = tokens + 1
        /\ shown' \union noted' = shown \union noted \union {order[n]} /\ shown \subseteq shown'
        /\ \A k \in noted' : k \in noted \/ (k = order[n] /\ \A p \in (IF CF!ByImages(CF!Item) THEN CF!MatchedBy(CF!Item) ELSE CF!Item.pages) : <<CF!Item.source, p>> \in seen)
    BY <2>1 DEF CF!Writes
  <2>5. \A s, p : <<s, p>> \in seen' => <<s, p>> \in seen \/ (s = CF!Item.source /\ order[n] \in shown' /\ CF!Shows(order[n], p)) BY <2>3
  <2> QED BY <1>2, <2>2, <2>4, <2>5, Advances
<1> QED BY <1>1, <1>2

\* A component counts as its composition does.
LEMMA ContextCounts == \A S : CF!Cardinality(S) = Cardinality(S)
  BY DEF CF!Cardinality, Cardinality
\* Images show the pages they are of, and are referred to.
LEMMA ShowImagesInv == ASSUME ContextInv, CF!Due, CF!AsImages, CF!ShowImages PROVE ContextInv'
<1> DEFINE new == CF!Unseen(CF!Matched)
           k == Cardinality(new)
<1>1. CASE ~CF!Fits(1 + k * ImageCost) BY <1>1, StopsInv, ContextCounts DEF CF!ShowImages
<1>2. CASE CF!Fits(1 + k * ImageCost)
  <2>1. /\ CF!Writes(1 + k * ImageCost, <<"text">> \o [j \in 1..k |-> "image"], new)
        /\ refs' = refs \union {CF!IndexOf(Len(blocks) + 1 + j) : j \in 1..k} /\ shown' = shown \union {order[n]} /\ UNCHANGED noted
    BY <1>2, ContextCounts DEF CF!ShowImages
  <2>2. k \in Nat
    <3>1. images[CF!Item.source] \in PageSets BY DueIs
    <3>2. IsFiniteSet(1..2)
      <4>1. 1 \in Int /\ 2 \in Int OBVIOUS
      <4> QED BY <4>1, FS_Interval
    <3>3. new \subseteq 1..2 BY <3>1 DEF PageSets, CF!Unseen, CF!Matched, CF!MatchedBy
    <3>4. IsFiniteSet(new) BY <3>2, <3>3, FS_Subset
    <3> QED BY <3>4, FS_CardinalityType
  <2>3. Referred'
    <3>1. refs' = refs \union {Len(blocks) + 1 + j : j \in 1..k} BY <2>1 DEF CF!IndexOf
    <3>2. blocks' = blocks \o (<<"text">> \o [j \in 1..k |-> "image"]) BY <2>1 DEF CF!Writes
    <3>3. Referred /\ "text" \in BlockKinds \ {"image"} BY DEF ContextInv, BlockKinds
    <3> HIDE DEF k
    <3> QED BY <2>2, <3>1, <3>2, <3>3, Appends
  <2>4. \A p \in CF!Matched : CF!Shows(order[n], p) BY DEF CF!Matched, CF!MatchedBy, CF!Shows, CF!AsImages, CF!Item
  <2>5. \A s, p : <<s, p>> \in seen' => <<s, p>> \in seen \/ (s = CF!Item.source /\ order[n] \in shown' /\ CF!Shows(order[n], p))
    BY <2>1, <2>4 DEF CF!Writes, CF!Of, CF!Unseen
  <2>6. /\ UNCHANGED CF!asked /\ n' = n + 1 /\ UNCHANGED <<stopped, stored, read>> /\ tokens' = tokens + (1 + k * ImageCost)
        /\ shown' \union noted' = shown \union noted \union {order[n]} /\ shown \subseteq shown'
        /\ \A m \in noted' : m \in noted
    BY <2>1 DEF CF!Writes
  <2> HIDE DEF k
  <2> QED BY <1>2, <2>3, <2>5, <2>6, Advances
<1> QED BY <1>1, <1>2

\* A text is noted when all of its pages were seen.
LEMMA TextItemInv == ASSUME ContextInv, CF!Due, ~CF!AsImages, CF!TextItem PROVE ContextInv'
<1>1. CASE CF!Item.pages # {} /\ CF!Unseen(CF!Item.pages) = {}
  <2>1. CF!Note BY <1>1 DEF CF!TextItem
  <2>2. \A p \in (IF CF!ByImages(CF!Item) THEN CF!MatchedBy(CF!Item) ELSE CF!Item.pages) : <<CF!Item.source, p>> \in seen BY <1>1 DEF CF!Unseen, CF!AsImages
  <2> QED BY <2>1, <2>2, NoteInv
<1>2. CASE ~(CF!Item.pages # {} /\ CF!Unseen(CF!Item.pages) = {}) BY <1>2, ShowTextInv DEF CF!TextItem
<1> QED BY <1>1, <1>2

\* So are images.
LEMMA ImagesSeenInv == ASSUME ContextInv, CF!Due, CF!AsImages, CF!Unseen(CF!Matched) = {}, CF!Note PROVE ContextInv'
<1>1. \A p \in (IF CF!ByImages(CF!Item) THEN CF!MatchedBy(CF!Item) ELSE CF!Item.pages) : <<CF!Item.source, p>> \in seen BY DEF CF!Unseen, CF!AsImages, CF!Matched
<1> QED BY <1>1, NoteInv

\* A header is a block of its own.
LEMMA HeaderInv == ASSUME ContextInv, CF!Header PROVE ContextInv'
<1> USE DEF CF!asked
<1>1. CF!Due BY DEF CF!Header
<1>2. CASE ~CF!Fits(1) BY <1>1, <1>2, StopsInv DEF CF!Header
<1>3. CASE CF!Fits(1)
  <2>1. /\ blocks' = Append(blocks, "header") /\ tokens' = tokens + 1
        /\ UNCHANGED <<items, images, grouped, budget, order, n, seen, refs, shown, noted, stopped, stored, read>>
    BY <1>3 DEF CF!Header
  <2>2. items # <<>> /\ stored = <<>> /\ read = <<>> BY <1>1, DueIs
  <2>3. Referred'
    <3>1. blocks' = blocks \o <<"header">> BY <2>1 DEF ContextInv, Referred
    <3> QED BY <2>1, <3>1, AppendsOne DEF ContextInv, BlockKinds
  <2>4. Presented' /\ Untouched' BY <2>1, <2>2 DEF ContextInv, Presented, Untouched
  <2>5. Prefix' BY <1>3, <2>1 DEF ContextInv, Prefix, CF!Fits
  <2>6. Seen' BY <2>1, Unmoved
  <2>7. Noted' BY <2>1, Unmoved
  <2>8. Stored' /\ WasRead' BY <2>1, <2>2 DEF Stored, WasRead
  <2> QED BY <2>3, <2>4, <2>5, <2>6, <2>7, <2>8 DEF ContextInv
<1> QED BY <1>2, <1>3

\* What is asked for finds nothing there.
LEMMA AskInv == ASSUME ContextConstants, ContextInv, CF!Ask PROVE ContextInv'
<1>1. /\ n = 1 /\ tokens = 0 /\ seen = {} /\ blocks = <<>> /\ refs = {} /\ shown = {} /\ noted = {} /\ stored = <<>> /\ read = <<>>
      /\ UNCHANGED <<n, tokens, seen, blocks, refs, shown, noted, stopped, stored, read>>
  BY DEF CF!Ask, ContextInv, Untouched
<1>2. PICK m \in 1..Longest : items' \in [1..m -> Kinds] BY DEF CF!Ask
<1>3. m \in Nat \ {0} OBVIOUS
<1>4. items' \in Seq(Kinds) /\ Len(items') = m BY <1>2, <1>3
<1>5. order' \in [1..Len(items') -> 1..Len(items')] BY <1>4 DEF CF!Ask, CF!ByDocument
<1>6. budget' \in Nat BY DEF CF!Ask, ContextConstants
<1>7. Presented' BY <1>1, <1>3, <1>4, <1>5 DEF Presented, CF!Ask, PageSets
<1>8. Untouched' BY <1>1 DEF Untouched
<1>9. Prefix'
  <2>1. 1..(n' - 1) = {} BY <1>1
  <2>2. {order'[p] : p \in 1..(n' - 1)} = {} BY <2>1
  <2> QED BY <1>1, <1>6, <2>2 DEF Prefix
<1>10. Seen' /\ Noted' BY <1>1 DEF Seen, Noted, CF!NotedIsCovered
<1>11. Referred' BY <1>1 DEF ContextInv, Referred
<1>12. Stored' /\ WasRead' BY <1>1 DEF Stored, WasRead
<1> QED BY <1>7, <1>8, <1>9, <1>10, <1>11, <1>12 DEF ContextInv

\* What is stored is what is there.
LEMMA PersistInv == ASSUME ContextInv, CF!Persist PROVE ContextInv'
<1> USE DEF CF!Persist, CF!asked
<1>1. UNCHANGED <<items, images, grouped, budget, order, n, tokens, seen, blocks, refs, shown, noted, stopped, read>> /\ blocks # <<>> OBVIOUS
<1>2. read = <<>> BY DEF ContextInv, WasRead
<1>3. Presented' /\ Untouched' /\ Prefix' /\ Referred' BY <1>1 DEF ContextInv, Presented, Untouched, Prefix, Referred
<1>4. Seen' BY <1>1, Unmoved
<1>5. Noted' BY <1>1, Unmoved
<1>6. Stored' BY <1>1 DEF Stored
<1>7. WasRead' BY <1>1, <1>2 DEF WasRead
<1> QED BY <1>3, <1>4, <1>5, <1>6, <1>7 DEF ContextInv

\* What is read is what is stored.
LEMMA ReadInv == ASSUME ContextInv, CF!Read PROVE ContextInv'
<1> USE DEF CF!Read, CF!asked
<1>1. UNCHANGED <<items, images, grouped, budget, order, n, tokens, seen, blocks, refs, shown, noted, stopped, stored>> /\ stored # <<>> OBVIOUS
<1>3. Presented' /\ Prefix' /\ Referred' BY <1>1 DEF ContextInv, Presented, Prefix, Referred
<1>4. Seen' BY <1>1, Unmoved
<1>5. Noted' BY <1>1, Unmoved
<1>6. Stored' BY <1>1 DEF ContextInv, Stored
<1>7. WasRead' BY <1>1 DEF WasRead, ReadFrom
<1>8. Untouched' BY <1>1 DEF ContextInv, Untouched
<1> QED BY <1>3, <1>4, <1>5, <1>6, <1>7, <1>8 DEF ContextInv

\* Nothing is displayed at first.
LEMMA ContextInit == ASSUME CF!Init PROVE ContextInv
<1>1. Len(items) = 0 /\ 1..Len(items) = {} /\ items \in Seq(Kinds) /\ order = <<>> /\ order \in [1..0 -> 1..0] BY DEF CF!Init
<1>2. Presented BY <1>1 DEF CF!Init, Presented, PageSets
<1>3. Prefix
  <2>1. 1..(n - 1) = {} /\ budget = 0 BY DEF CF!Init
  <2> QED BY <2>1 DEF CF!Init, Prefix
<1>4. Referred BY DEF CF!Init, Referred
<1> QED BY <1>2, <1>3, <1>4 DEF CF!Init, ContextInv, Untouched, Seen, Noted, CF!NotedIsCovered, Stored, WasRead

\* The invariant is inductive.
LEMMA ContextNext == ASSUME ContextConstants, ContextInv, [CF!Next]_(CF!vars) PROVE ContextInv'
<1>1. CASE UNCHANGED CF!vars
  <2>1. UNCHANGED <<items, images, grouped, budget, order, n, tokens, seen, blocks, refs, shown, noted, stopped, stored, read>> BY <1>1 DEF CF!vars
  <2>2. Seen' /\ Noted' BY <2>1, Unmoved
  <2>3. Presented' /\ Untouched' /\ Prefix' BY <2>1 DEF ContextInv, Presented, Untouched, Prefix
  <2>4. Referred' BY <2>1 DEF ContextInv, Referred
  <2>5. Stored' BY <2>1 DEF ContextInv, Stored
  <2>6. WasRead' BY <2>1 DEF ContextInv, WasRead
  <2> QED BY <2>2, <2>3, <2>4, <2>5, <2>6 DEF ContextInv
<1>2. CASE CF!Ask BY <1>2, AskInv
<1>3. CASE CF!TextHeader \/ CF!ImageHeader BY <1>3, HeaderInv DEF CF!TextHeader, CF!ImageHeader
<1>4. CASE CF!TextByDocument \/ CF!TextFlat
  <2>1. ~CF!AsImages BY <1>4 DEF CF!TextByDocument, CF!TextFlat, CF!AsImages, CF!ByImages
  <2> QED BY <1>4, <2>1, TextItemInv DEF CF!TextByDocument, CF!TextFlat, CF!Ready
<1>5. CASE CF!MixedByDocument \/ CF!MixedFlat BY <1>5, TextItemInv DEF CF!MixedByDocument, CF!MixedFlat, CF!Ready
<1>6. CASE CF!ImagesByDocument \/ CF!ImagesFlat BY <1>6, ShowImagesInv DEF CF!ImagesByDocument, CF!ImagesFlat, CF!Ready
<1>7. CASE CF!ImagesSeenByDocument \/ CF!ImagesSeenFlat BY <1>7, ImagesSeenInv DEF CF!ImagesSeenByDocument, CF!ImagesSeenFlat, CF!Ready
<1>8. CASE CF!NoImageByDocument \/ CF!NoImageFlat BY <1>8, ShowTextInv DEF CF!NoImageByDocument, CF!NoImageFlat, CF!Ready
<1>9. CASE CF!Persist BY <1>9, PersistInv
<1>10. CASE CF!Read BY <1>10, ReadInv
<1> QED BY <1>1, <1>2, <1>3, <1>4, <1>5, <1>6, <1>7, <1>8, <1>9, <1>10 DEF CF!Next

\* What it implies: references stand where images were.
LEMMA ReferencesFollow == ASSUME ContextInv PROVE CF!StoredByReference
<1>1. blocks \in Seq(BlockKinds) /\ Len(blocks) \in Nat BY DEF ContextInv, Referred
<1>2. \A k \in 1..Len(blocks) : blocks[k] \in BlockKinds /\ (k \in refs <=> blocks[k] = "image") BY <1>1 DEF ContextInv, Referred
<1> DEFINE given == [k \in 1..Len(blocks) |-> IF k \in refs THEN "reference" ELSE blocks[k]]
<1>3. CASE stored = <<>>
  <2>1. read = <<>> BY <1>3 DEF ContextInv, WasRead
  <2> QED BY <1>3, <2>1 DEF CF!StoredByReference
<1>4. CASE stored # <<>>
  <2>1. stored = given BY <1>4 DEF ContextInv, Stored
  <2>2. Len(stored) = Len(blocks)
    <3>1. given \in [1..Len(blocks) -> BlockKinds \union {"reference"}] BY <1>2
    <3> QED BY <1>1, <2>1, <3>1
  <2>3. \A k \in 1..Len(stored) : blocks[k] = "image" <=> stored[k] = "reference" BY <1>2, <2>1, <2>2 DEF BlockKinds
  <2>4. CASE read = <<>> BY <2>3, <2>4 DEF CF!StoredByReference
  <2>5. CASE read # <<>>
    <3>1. PICK gone \in SUBSET {k \in 1..Len(stored) : stored[k] = "reference"} :
             read = [k \in 1..Len(stored) |-> IF k \in gone THEN "unavailable" ELSE IF stored[k] = "reference" THEN "image" ELSE stored[k]]
      BY <2>5 DEF ContextInv, WasRead, ReadFrom
    <3>2. \A k \in 1..Len(stored) : read[k] = blocks[k] \/ (blocks[k] = "image" /\ read[k] = "unavailable") BY <1>2, <2>1, <2>2, <2>3, <3>1
    <3>3. Len(read) = Len(stored)
      <4>1. read \in [1..Len(stored) -> BlockKinds \union {"unavailable"}] BY <1>2, <2>2, <3>1, <3>2 DEF BlockKinds
      <4> QED BY <1>1, <2>2, <4>1
    <3> QED BY <2>3, <3>2, <3>3 DEF CF!StoredByReference
  <2> QED BY <2>4, <2>5
<1> QED BY <1>3, <1>4

\* The context is a prefix, covers what it notes, and is stored by reference.
THEOREM ContextCovered == ASSUME ContextConstants PROVE CF!Spec => [](CF!PrefixIncluded /\ CF!NotedIsCovered /\ CF!StoredByReference)
<1>1. CF!Init => ContextInv BY ContextInit
<1>2. ContextInv /\ [CF!Next]_(CF!vars) => ContextInv' BY ContextNext
<1>3. ContextInv => CF!PrefixIncluded /\ CF!NotedIsCovered /\ CF!StoredByReference BY ReferencesFollow DEF ContextInv, Prefix, Noted, CF!PrefixIncluded
<1> QED BY <1>1, <1>2, <1>3, PTL DEF CF!Spec

-----------------------------------------------------------------------------
(* The parts together: one runs, and it is its component. *)

\* The part that runs from the start is the one that runs.
LEMMA PartStays == ASSUME [Next]_vars PROVE part' = part
  BY DEF Next, KeywordIndexStep, KeywordFileStep, VectorIndexStep, VectorWaitersStep, StoreStep, SearchStep, ContextStep, vars

(* Every index has somebody who answers for it, whatever requests, failures, deaths
   and other sessions meet: an INVALID pg_search index a task that will come to it,
   a vector index one statement at a time on its table, failures that are counted
   and carried over, and no certificate of another definition. *)
THEOREM IndexesStayOwned == Spec => []IndexesAreOwned
<1>1. Init /\ part = "keyword index" => KI!Init
  BY DEF Init
<1>2. part = "keyword index" /\ [Next]_vars => [KI!Next]_(KI!vars)
  BY DEF Next, KeywordIndexStep, KeywordFileStep, VectorIndexStep, VectorWaitersStep, StoreStep, SearchStep, ContextStep, vars, kiVars, KI!vars
<1>3. part = "keyword index" /\ [Next]_vars => (part = "keyword index")'
  BY PartStays
<1>4. ~(part = "keyword index") /\ [Next]_vars => ~(part = "keyword index")'
  BY PartStays
<1>5. KI!Spec => [](KI!TypeOK /\ KI!InvalidIsOwned)
  BY IndexIsOwned, KnowledgeBasesAssumption DEF KnowledgeBasesAssumption, KeywordBounds
<1>6. Init /\ part = "vector index" => VI!Init
  BY DEF Init
<1>7. part = "vector index" /\ [Next]_vars => [VI!Next]_(VI!vars)
  BY DEF Next, KeywordIndexStep, KeywordFileStep, VectorIndexStep, VectorWaitersStep, StoreStep, SearchStep, ContextStep, vars, viVars, VI!vars
<1>8. part = "vector index" /\ [Next]_vars => (part = "vector index")'
  BY PartStays
<1>9. ~(part = "vector index") /\ [Next]_vars => ~(part = "vector index")'
  BY PartStays
<1>10. VI!Spec => [](VI!TypeOK /\ VI!OneStatement /\ VI!BuildsBounded /\ VI!StaleNotCertified)
  BY IndexesAreKept, KnowledgeBasesAssumption DEF KnowledgeBasesAssumption
<1> QED BY <1>1, <1>2, <1>3, <1>4, <1>5, <1>6, <1>7, <1>8, <1>9, <1>10, PTL DEF Spec, KI!Spec, VI!Spec, IndexesAreOwned

(* Rows leave the DEFAULT partition only for a task that was asked to move them, and
   a ready index in the configured language is dropped only by a drop, or by an
   ensure that read the configuration before it was changed. *)
THEOREM NothingUnasked == Spec => OnlyWhatWasAsked
<1>1. Init /\ part = "keyword index" => KI!Init
  BY DEF Init
<1>2. part = "keyword index" /\ [Next]_vars => [KI!Next]_(KI!vars)
  BY DEF Next, KeywordIndexStep, KeywordFileStep, VectorIndexStep, VectorWaitersStep, StoreStep, SearchStep, ContextStep, vars, kiVars, KI!vars
<1>3. part = "keyword index" /\ [Next]_vars => (part = "keyword index")'
  BY PartStays
<1>4. ~(part = "keyword index") /\ [Next]_vars => ~(part = "keyword index")'
  BY PartStays
<1>5. KI!Spec => [][KI!MoveAsked /\ KI!DropDue]_(KI!vars)
  BY AskedAndDue, KnowledgeBasesAssumption DEF KnowledgeBasesAssumption, KeywordBounds
<1>6. [KI!MoveAsked /\ KI!DropDue]_(KI!vars) => [part = "keyword index" => KI!MoveAsked /\ KI!DropDue]_vars
  BY DEF KI!vars, KI!MoveAsked, KI!DropDue
<1>7. ~(part = "keyword index") => [part = "keyword index" => KI!MoveAsked /\ KI!DropDue]_vars
  OBVIOUS
<1> QED BY <1>1, <1>2, <1>3, <1>4, <1>5, <1>6, <1>7, PTL DEF Spec, KI!Spec, OnlyWhatWasAsked

(* The bm25s file a search would read has every committed row once the tasks that
   follow are done, for any number of sources and threads. *)
THEOREM FileStaysComplete == Spec => []FileComplete
<1>1. Init /\ part = "keyword file" => KF!Init
  BY DEF Init
<1>2. part = "keyword file" /\ [Next]_vars => [KF!Next]_(KF!vars)
  BY DEF Next, KeywordIndexStep, KeywordFileStep, VectorIndexStep, VectorWaitersStep, StoreStep, SearchStep, ContextStep, vars, kfVars, KF!vars
<1>3. part = "keyword file" /\ [Next]_vars => (part = "keyword file")'
  BY PartStays
<1>4. ~(part = "keyword file") /\ [Next]_vars => ~(part = "keyword file")'
  BY PartStays
<1>5. KF!Spec => [](KF!TypeOK /\ KF!FileComplete)
  <2>1. Absent \notin SUBSET KF!Items /\ IsFiniteSet(Sources)
    BY KnowledgeBasesAssumption DEF KnowledgeBasesAssumption
  <2> QED BY <2>1, FileHasTheRows
<1> QED BY <1>1, <1>2, <1>3, <1>4, <1>5, PTL DEF Spec, KF!Spec, FileComplete

(* A knowledge base that is owed a vector index has a dispatch that will come to it,
   whatever keys lapse and surveys fail, for any number of dispatches. *)
THEOREM OwedStaysServed == Spec => []OwedIsServed
<1>1. Init /\ part = "vector waiters" => VW!Init
  BY DEF Init
<1>2. part = "vector waiters" /\ [Next]_vars => [VW!Next]_(VW!vars)
  BY DEF Next, KeywordIndexStep, KeywordFileStep, VectorIndexStep, VectorWaitersStep, StoreStep, SearchStep, ContextStep, vars, vwVars, VW!vars
<1>3. part = "vector waiters" /\ [Next]_vars => (part = "vector waiters")'
  BY PartStays
<1>4. ~(part = "vector waiters") /\ [Next]_vars => ~(part = "vector waiters")'
  BY PartStays
<1>5. VW!Spec => [](VW!TypeOK /\ VW!OwedIsServed)
  BY DispatchesAreServed, KnowledgeBasesAssumption DEF KnowledgeBasesAssumption
<1> QED BY <1>1, <1>2, <1>3, <1>4, <1>5, PTL DEF Spec, VW!Spec, OwedIsServed

(* The settings a search borrowed are back when it is over, and only a statement of
   its own aborts its transaction, whichever statements fail. *)
THEOREM NoTraceIsLeft == Spec => []SearchLeavesNoTrace
<1>1. Init /\ part = "store" => SS!Init
  BY DEF Init
<1>2. part = "store" /\ [Next]_vars => [SS!Next]_(SS!vars)
  BY DEF Next, KeywordIndexStep, KeywordFileStep, VectorIndexStep, VectorWaitersStep, StoreStep, SearchStep, ContextStep, vars, ssVars, SS!vars
<1>3. part = "store" /\ [Next]_vars => (part = "store")'
  BY PartStays
<1>4. ~(part = "store") /\ [Next]_vars => ~(part = "store")'
  BY PartStays
<1>5. SS!Spec => [](SS!TypeOK /\ SS!GivenBack /\ SS!OnlyOwnAborts /\ SS!ExactWithinBudget /\ SS!SomeScanLeft)
  BY SearchIsClean, KnowledgeBasesAssumption DEF KnowledgeBasesAssumption
<1> QED BY <1>1, <1>2, <1>3, <1>4, <1>5, PTL DEF Spec, SS!Spec, SearchLeavesNoTrace

(* The exact statement runs on a population that was counted and within the budget,
   and a search is left with a way to read the table. *)
THEOREM SearchStaysExact == Spec => []SearchIsExact
<1>1. Init /\ part = "store" => SS!Init
  BY DEF Init
<1>2. part = "store" /\ [Next]_vars => [SS!Next]_(SS!vars)
  BY DEF Next, KeywordIndexStep, KeywordFileStep, VectorIndexStep, VectorWaitersStep, StoreStep, SearchStep, ContextStep, vars, ssVars, SS!vars
<1>3. part = "store" /\ [Next]_vars => (part = "store")'
  BY PartStays
<1>4. ~(part = "store") /\ [Next]_vars => ~(part = "store")'
  BY PartStays
<1>5. SS!Spec => [](SS!TypeOK /\ SS!GivenBack /\ SS!OnlyOwnAborts /\ SS!ExactWithinBudget /\ SS!SomeScanLeft)
  BY SearchIsClean, KnowledgeBasesAssumption DEF KnowledgeBasesAssumption
<1> QED BY <1>1, <1>2, <1>3, <1>4, <1>5, PTL DEF Spec, SS!Spec, SearchIsExact

(* A document the floor guarantees a place is in the answer, the floor's rows take no
   more than that place, what a graph adds comes once and ranks below every match, and
   an answer was paid for: for any number of sections, sources and worlds. *)
THEOREM ResultsStayOwed == Spec => []ResultsAreOwed
<1>1. Init /\ part = "search" => KS!Init
  BY DEF Init
<1>2. part = "search" /\ [Next]_vars => [KS!Next]_(KS!vars)
  BY DEF Next, KeywordIndexStep, KeywordFileStep, VectorIndexStep, VectorWaitersStep, StoreStep, SearchStep, ContextStep, vars, ksVars, KS!vars
<1>3. part = "search" /\ [Next]_vars => (part = "search")'
  BY PartStays
<1>4. ~(part = "search") /\ [Next]_vars => ~(part = "search")'
  BY PartStays
<1>5. KS!Spec => [](KS!FloorKept /\ KS!FloorOnlyFills /\ KS!ExpandedApart /\ KS!PaidAnswer)
  <2>1. KS!SearchAssumption
    BY KnowledgeBasesAssumption DEF KnowledgeBasesAssumption
  <2>2. KS!Spec => [](KS!FloorKept /\ KS!FloorOnlyFills /\ KS!ExpandedApart)
    BY <2>1, AnswersAreOwed
  <2> QED BY <2>2, AnswersArePaid, PTL
<1> QED BY <1>1, <1>2, <1>3, <1>4, <1>5, PTL DEF Spec, KS!Spec, ResultsAreOwed

(* The context is a prefix of the results within the budget, what is noted is covered
   by what was shown before it, and what is stored refers to its images, for any
   number of items, any budgets and any cost of an image. *)
THEOREM ContextStaysCovered == Spec => []ContextIsCovered
<1>1. Init /\ part = "context" => CF!Init
  BY DEF Init
<1>2. part = "context" /\ [Next]_vars => [CF!Next]_(CF!vars)
  BY DEF Next, KeywordIndexStep, KeywordFileStep, VectorIndexStep, VectorWaitersStep, StoreStep, SearchStep, ContextStep, vars, cfVars, CF!vars
<1>3. part = "context" /\ [Next]_vars => (part = "context")'
  BY PartStays
<1>4. ~(part = "context") /\ [Next]_vars => ~(part = "context")'
  BY PartStays
<1>5. CF!Spec => [](CF!PrefixIncluded /\ CF!NotedIsCovered /\ CF!StoredByReference)
  BY ContextCovered, KnowledgeBasesAssumption DEF KnowledgeBasesAssumption, ContextConstants
<1> QED BY <1>1, <1>2, <1>3, <1>4, <1>5, PTL DEF Spec, CF!Spec, ContextIsCovered
=============================================================================
