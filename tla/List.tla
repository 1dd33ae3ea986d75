-------------------------------- MODULE List --------------------------------
(***************************************************************************)
(* The doubly linked lists of list.c, pointer by pointer, and the macro    *)
(* LIST_FOREACH_SAFE, whose loop bodies remove the node they are at and    *)
(* free it.  List implements ListSpec: through next, from head, a list is  *)
(* the sequence that FireDNS and OperCmd take it for, and a walk visits    *)
(* what was in it when the walk began, whatever is removed on the way.     *)
(*                                                                         *)
(* Nothing is added during a walk: no loop body of bopm does.              *)
(***************************************************************************)
EXTENDS Integers, Sequences, FiniteSetsExt

CONSTANTS
  Node,          \* addresses malloc can return for a node_t
  NULL,
  Freed          \* what a pointer in freed memory holds

ListConfig ==
  NULL \notin Node /\ Freed \notin Node /\ NULL # Freed /\ IsFiniteSet(Node)

VARIABLES
  head, tail, elements,   \* the list_t
  next, prev,             \* of each node_t
  pos, n                  \* the variables of LIST_FOREACH_SAFE

vars == <<head, tail, elements, next, prev, pos, n>>

Pointer == Node \cup {NULL, Freed}

\* The nodes that are allocated.
live == {x \in Node : next[x] # Freed}

Walking == pos # NULL

-----------------------------------------------------------------------------
\* list_create; there are no nodes yet.
Init ==
  /\ head = NULL /\ tail = NULL /\ elements = 0
  /\ next = [x \in Node |-> Freed] /\ prev = [x \in Node |-> Freed]
  /\ pos = NULL /\ n = NULL

\* list_add, at the tail.
list_add(x) ==
  /\ head' = IF tail = NULL THEN x ELSE head
  /\ next' = [y \in Node |-> IF y = x THEN NULL ELSE IF y = tail THEN x ELSE next[y]]
  /\ prev' = [prev EXCEPT ![x] = tail]
  /\ tail' = x
  /\ elements' = elements + 1

\* node_free: what f holds of node x is gone.
node_free(f, x) == [f EXCEPT ![x] = Freed]

\* list_remove of the head of the list, and node_free.
remove_head(x) ==
  /\ x = head
  /\ head' = next[x]
  /\ tail' = IF next[x] = NULL THEN NULL ELSE tail
  /\ prev' = node_free([y \in Node |-> IF y = next[x] THEN NULL ELSE prev[y]], x)
  /\ next' = node_free(next, x)

\* Of the tail.
remove_tail(x) ==
  /\ x # head /\ x = tail
  /\ tail' = prev[x]
  /\ next' = node_free([next EXCEPT ![prev[x]] = NULL], x)
  /\ prev' = node_free(prev, x)
  /\ head' = head

\* Fault: only the way forward is closed.
remove_middle_OneWay(x) ==
  /\ x # head /\ x # tail
  /\ next' = node_free([next EXCEPT ![prev[x]] = next[x]], x)
  /\ prev' = node_free(prev, x)
  /\ UNCHANGED <<head, tail>>

\* Of any other node.
remove_middle(x) ==
  /\ x # head /\ x # tail
  /\ next' = node_free([next EXCEPT ![prev[x]] = next[x]], x)
  /\ prev' = node_free([prev EXCEPT ![next[x]] = prev[x]], x)
  /\ UNCHANGED <<head, tail>>

list_remove(x) ==
  /\ remove_head(x) \/ remove_tail(x) \/ remove_middle(x)
  /\ elements' = elements - 1

-----------------------------------------------------------------------------
(* What bopm does with a list *)

\* A new node: the address is any that is free.
add_new(x) ==
  /\ ~ Walking /\ x \notin live
  /\ list_add(x)
  /\ UNCHANGED <<pos, n>>

\* pos->next, if there is a pos.
After(p, nexts) == IF p = NULL THEN NULL ELSE nexts[p]

\* LIST_FOREACH_SAFE begins.
walk_begin ==
  /\ ~ Walking /\ head # NULL
  /\ pos' = head /\ n' = After(head, next)
  /\ UNCHANGED <<head, tail, elements, next, prev>>

\* Fault: LIST_FOREACH, which asks the node itself for the next one.
Step_Unsafe == pos' = next'[pos] /\ n' = After(n, next')

\* Its third expression, after the body.
Step == pos' = n /\ n' = After(n, next')

\* The body leaves the node.
walk_keep ==
  /\ Walking
  /\ UNCHANGED <<head, tail, elements, next, prev>>
  /\ Step

\* The body removes the node.
walk_remove ==
  /\ Walking
  /\ list_remove(pos)
  /\ Step

\* break
walk_break ==
  /\ Walking
  /\ pos' = NULL /\ n' = NULL
  /\ UNCHANGED <<head, tail, elements, next, prev>>

Next == (\E x \in Node : add_new(x)) \/ walk_begin \/ walk_keep \/ walk_remove \/ walk_break

Spec == Init /\ [][Next]_vars

-----------------------------------------------------------------------------
(* Properties *)

\* The nodes from p on, each after the first being nexts of the one before.
Chain(p, nexts) ==
  LET size == Cardinality(Node)
      Hop[k \in 0..size] == IF k = 0 THEN p
                            ELSE IF Hop[k - 1] \in Node THEN nexts[Hop[k - 1]] ELSE NULL
      len == Min({k \in 0..size : Hop[k] \notin Node} \cup {size})
  IN  [k \in 1..len |-> Hop[k - 1]]

TypeOK ==
  /\ {head, tail, pos, n} \subseteq Pointer
  /\ elements \in Int
  /\ next \in [Node -> Pointer] /\ prev \in [Node -> Pointer]

\* The list can be read backwards, and nothing is leaked: from tail, prev gives
\* the nodes in reverse, the allocated ones are those on the list, and
\* LIST_SIZE, on which the limit of the command queue rests, is their number.
WellLinked ==
  LET chain == Chain(head, next)
  IN  /\ Range(chain) = live
      /\ elements = Len(chain)
      /\ tail = IF chain = <<>> THEN NULL ELSE chain[Len(chain)]
      /\ \A k \in DOMAIN chain :
           prev[chain[k]] = IF k = 1 THEN NULL ELSE chain[k - 1]

\* The walk as the callers think of it.
Abstract == INSTANCE ListSpec WITH
  list <- Chain(head, next),
  todo <- IF pos = NULL THEN <<>> ELSE <<pos>> \o Chain(n, next)

\* List implements ListSpec: the pointers hold the nodes in the order they were
\* added, and LIST_FOREACH_SAFE visits each of them once, although bodies free
\* the node they are at.
ListImplements == Abstract!Spec
=============================================================================
