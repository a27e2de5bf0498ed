---------------------------- MODULE ExploitLedger ----------------------------
(***************************************************************************)
(* The orchestrator's bounded working set: the primitive ledger and the    *)
(* exploit graph (src/deepthought/orchestrator/ledger.py).  The ledger is  *)
(* the sequence of its nodes, the oldest first, no two with one key.       *)
(***************************************************************************)
EXTENDS Naturals, Sequences

CONSTANT MaxPrimitives      \* how many nodes the ledger may hold

ASSUME LedgerAssumption == MaxPrimitives \in Nat \ {0}

NodeKey(primitive) == <<primitive.ref, primitive.kind, primitive.locus>>

\* The ledger without the node at position i.
Without(nodes, i) == SubSeq(nodes, 1, i - 1) \o SubSeq(nodes, i + 1, Len(nodes))

\* Re-adding a node takes the old one away, which refreshes its recency.
Forgotten(nodes, primitive) ==
    LET same == {i \in 1 .. Len(nodes) : NodeKey(nodes[i]) = NodeKey(primitive)}
    IN IF same = {} THEN nodes ELSE Without(nodes, CHOOSE i \in same : TRUE)

\* Mutant: the bound is compared with >= before the node is in.
AddPrimitiveLate(nodes, primitive) ==
    LET all == Append(Forgotten(nodes, primitive), primitive)
    IN IF Len(nodes) > MaxPrimitives THEN Tail(all) ELSE all

\* add_primitive: the new node goes last, and the oldest are evicted while the
\* bound is exceeded.
AddPrimitive(nodes, primitive) ==
    LET all == Append(Forgotten(nodes, primitive), primitive)
    IN IF Len(all) > MaxPrimitives
       THEN SubSeq(all, (Len(all) - MaxPrimitives) + 1, Len(all)) ELSE all

\* compositions: an edge where a grant of one node meets a precondition of
\* another (tokens compared as they are).
Compositions(nodes) ==
    {e \in (1 .. Len(nodes)) \X (1 .. Len(nodes)) :
        /\ NodeKey(nodes[e[1]]) # NodeKey(nodes[e[2]])
        /\ nodes[e[1]].grants \cap nodes[e[2]].preconditions # {}}
=============================================================================
