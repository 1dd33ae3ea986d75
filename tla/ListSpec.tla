------------------------------ MODULE ListSpec ------------------------------
(***************************************************************************)
(* What the rest of bopm takes a list_t for: a sequence of nodes without   *)
(* repetitions, and a walk through it that may remove the node it is at.   *)
(* FireDNS (CONNECTIONS, todo) and OperCmd (COMMANDS) use lists this way.  *)
(***************************************************************************)
EXTENDS Integers, Sequences

CONSTANT Node

VARIABLES
  list,    \* the nodes, in the order they were added
  todo     \* those the walk has still to visit; empty if there is none

vars == <<list, todo>>

Init == list = <<>> /\ todo = <<>>

Add(x) ==
  /\ todo = <<>>
  /\ \A i \in DOMAIN list : list[i] # x
  /\ list' = Append(list, x)
  /\ UNCHANGED todo

\* A walk begins, with all of the nodes to visit.
Walk == todo = <<>> /\ todo' = list /\ UNCHANGED list

\* The next node is visited, and kept or removed.
Visit ==
  /\ todo # <<>>
  /\ todo' = Tail(todo)
  /\ \/ UNCHANGED list
     \/ \E i \in DOMAIN list :
          /\ list[i] = Head(todo)
          /\ list' = SubSeq(list, 1, i - 1) \o SubSeq(list, i + 1, Len(list))

\* The walk is left before its end.
Leave == todo # <<>> /\ todo' = <<>> /\ UNCHANGED list

Next == (\E x \in Node : Add(x)) \/ Walk \/ Visit \/ Leave

Spec == Init /\ [][Next]_vars
=============================================================================
