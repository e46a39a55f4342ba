------------------------------ MODULE ItemRows ------------------------------
(* What an item table promises its users, whatever partition a row is in:
   the rows of a knowledge base change when its indexing run, a writer of the
   API or the removal of its source says so, and at no other time. A run that
   goes on to write has left none of the earlier rows behind, and an update
   that found rows has changed them. *)
CONSTANTS KBs, Versions

VARIABLES items,   \* items[k]: the versions of k's rows that a reader sees
          run,     \* run[k]: the phase of the indexing run of k's source
          api,     \* k has an update of its rows open
          source   \* whether k's source is there
vars == <<items, run, api, source>>

Init == /\ items = [k \in KBs |-> {}]
        /\ run = [k \in KBs |-> "idle"]
        /\ api = [k \in KBs |-> FALSE]
        /\ source = [k \in KBs |-> TRUE]

Start(k) == /\ run[k] = "idle"
            /\ run' = [run EXCEPT ![k] = "clearing"]
            /\ UNCHANGED <<items, api, source>>
Cleared(k) == /\ run[k] = "clearing"
              /\ run' = [run EXCEPT ![k] = "writing"]
              /\ items' = [items EXCEPT ![k] = {}]
              /\ UNCHANGED <<api, source>>
Written(k) == /\ run[k] = "writing" /\ source[k]
              /\ run' = [run EXCEPT ![k] = "idle"]
              /\ \E v \in Versions \ items[k] : items' = [items EXCEPT ![k] = @ \union {v}]
              /\ UNCHANGED <<api, source>>
\* A run that could not write is queued again.
Aborted(k) == /\ run[k] = "writing"
              /\ run' = [run EXCEPT ![k] = "idle"]
              /\ UNCHANGED <<items, api, source>>
Open(k) == /\ ~api[k] /\ api' = [api EXCEPT ![k] = TRUE] /\ UNCHANGED <<items, run, source>>
Update(k) == /\ api[k] /\ api' = [api EXCEPT ![k] = FALSE]
             /\ \/ items[k] = {} /\ UNCHANGED items
                \/ items[k] # {} /\ \E v \in Versions \ items[k] : items' = [items EXCEPT ![k] = {v}]
             /\ UNCHANGED <<run, source>>
\* An update may be refused as a whole, which its user is told.
Refuse(k) == /\ api[k] /\ api' = [api EXCEPT ![k] = FALSE] /\ UNCHANGED <<items, run, source>>
Remove(k) == /\ source[k]
             /\ source' = [source EXCEPT ![k] = FALSE]
             /\ items' = [items EXCEPT ![k] = {}]
             /\ UNCHANGED <<run, api>>

Next == \E k \in KBs : \/ Start(k) \/ Cleared(k) \/ Written(k) \/ Aborted(k)
                       \/ Open(k) \/ Update(k) \/ Refuse(k) \/ Remove(k)
Spec == Init /\ [][Next]_vars
=============================================================================
