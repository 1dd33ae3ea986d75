------------------------------ MODULE FireDNS -------------------------------
(***************************************************************************)
(* The resolver (firedns.c): a list of queries, some with an open socket   *)
(* and, once dns_fdlimit sockets are in use, some queued without one.      *)
(* dnsbl.c adds queries with firedns_getip; firedns_cycle, called by every *)
(* round of the main loop, times queries out, polls the sockets, hands     *)
(* replies to dnsbl_result and starts queued queries.  irc_init and        *)
(* scan_manual resolve names with the blocking firedns_resolveip, whose    *)
(* queries carry no info and are in the same list.                         *)
(*                                                                         *)
(* One step is one iteration of a loop of firedns_cycle or one try of      *)
(* firedns_resolveip, so that the clock and the network move in between.   *)
(* A struct s_connection is identified with the info it carries (Query) or *)
(* is one of the connections without info (Anon).                          *)
(***************************************************************************)
EXTENDS Integers, Sequences, FiniteSets, Functions

CONSTANTS
  Query,           \* struct dnsbl_scan addresses that lookups are made for
  Anon,            \* connections without info
  dns_fdlimit,     \* OptionsItem->dns_fdlimit
  FDNS_TIMEOUT,    \* seconds a query may stay without a reply
  FIREDNS_TRIES    \* tries of firedns_resolveip

ASSUME FireDNSConfig ==
  /\ IsFiniteSet(Query) /\ IsFiniteSet(Anon)
  /\ Query \cap Anon = {}
  /\ dns_fdlimit \in Nat \ {0}
  /\ FDNS_TIMEOUT \in Nat
  /\ FIREDNS_TRIES \in Nat \ {0}

VARIABLES
  CONNECTIONS,     \* the list of queries, oldest first
  open,            \* those with a socket (fd > 0); the others are queued
  fdns_fdinuse,    \* the count of sockets in use
  age,             \* seconds since start, for open queries
  inbox,           \* those on whose socket a datagram waits
  result,          \* what dnsbl_result was last told for each Query
  pc,              \* main: outside firedns.c; reap, serve: the loops of
                   \* firedns_cycle; resolve, select: firedns_resolveip
  todo,            \* the nodes the current loop has still to visit
  late,            \* queries timed out at this cycle's timenow
  ufds,            \* queries whose socket is in the array ufds
  ready,           \* those that poll reported readable
  tries            \* tries made by this firedns_resolveip

vars == <<CONNECTIONS, open, fdns_fdinuse, age, inbox, result, pc, todo, late,
          ufds, ready, tries>>

Conn == Query \cup Anon
Listed == Range(CONNECTIONS)

\* An age past the timeout is as good as any older one.
MaxAge == FDNS_TIMEOUT + 1

\* The variables of the loops, which only firedns_cycle uses.
cycleVars == <<todo, late, ufds, ready>>

-----------------------------------------------------------------------------
(* The list (list.c) *)

list_add(s, c) == Append(s, c)

\* Fault: the node after the one meant is unlinked.
list_remove_Next(s, c) ==
  LET i == CHOOSE i \in DOMAIN s : s[i] = c
  IN  [j \in 1..(Len(s) - 1) |-> IF j <= i THEN s[j] ELSE s[j + 1]]

\* list_remove: c is unlinked, the order of the others stays.
list_remove(s, c) ==
  LET i == CHOOSE i \in DOMAIN s : s[i] = c
  IN  [j \in 1..(Len(s) - 1) |-> IF j < i THEN s[j] ELSE s[j + 1]]

-----------------------------------------------------------------------------
(* Sending a query and reading a reply *)

\* firedns_send_requests succeeded: the query has a socket and its time runs.
firedns_doquery(c) ==
  /\ open' = open \cup {c}
  /\ fdns_fdinuse' = fdns_fdinuse + 1
  /\ age' = [age EXCEPT ![c] = 0]
  /\ inbox' = inbox \ {c}

\* Fault: the socket is closed but not given back to the budget.
Close_Leaky(c) ==
  /\ CONNECTIONS' = list_remove(CONNECTIONS, c)
  /\ open' = open \ {c}
  /\ UNCHANGED fdns_fdinuse
  /\ inbox' = inbox \ {c}
  /\ age' = [age EXCEPT ![c] = 0]

\* The cleanup at the end of firedns_getresult and in the timeout branch of
\* firedns_cycle: off the list, socket closed.
Close(c) ==
  /\ CONNECTIONS' = list_remove(CONNECTIONS, c)
  /\ open' = open \ {c}
  /\ fdns_fdinuse' = fdns_fdinuse - 1
  /\ inbox' = inbox \ {c}
  /\ age' = [age EXCEPT ![c] = 0]

\* dnsbl_result is called if the query has info.
Deliver(c, r) ==
  result' = IF c \in Query THEN [result EXCEPT ![c] = r] ELSE result

\* Fault: a stray datagram starts the wait anew.
KeepWaiting_Restart(c) ==
  /\ inbox' = inbox \ {c}
  /\ age' = [age EXCEPT ![c] = 0]
  /\ UNCHANGED <<CONNECTIONS, open, fdns_fdinuse>>

\* firedns_getresult, ID mismatch: the datagram is consumed, the query kept.
KeepWaiting(c) ==
  /\ inbox' = inbox \ {c}
  /\ UNCHANGED <<CONNECTIONS, open, fdns_fdinuse, age>>

-----------------------------------------------------------------------------
(* firedns_getip, from dnsbl_add *)

\* At the limit the query is queued and FDNS_ERR_FDLIMIT returned.
firedns_getip_queue(q) ==
  /\ pc = "main"
  /\ q \in Query \ Listed
  /\ fdns_fdinuse >= dns_fdlimit
  /\ CONNECTIONS' = list_add(CONNECTIONS, q)
  /\ result' = [result EXCEPT ![q] = "pending"]
  /\ UNCHANGED <<open, fdns_fdinuse, age, inbox, pc, cycleVars, tries>>

\* Below it the query is sent.  (If that fails the query is freed at once, an
\* error returned and nothing changes.)
firedns_getip_send(q) ==
  /\ pc = "main"
  /\ q \in Query \ Listed
  /\ fdns_fdinuse < dns_fdlimit
  /\ CONNECTIONS' = list_add(CONNECTIONS, q)
  /\ firedns_doquery(q)
  /\ result' = [result EXCEPT ![q] = "pending"]
  /\ UNCHANGED <<pc, cycleVars, tries>>

-----------------------------------------------------------------------------
(* firedns_resolveip, from irc_init and scan_manual *)

\* Bound: a call starts only while enough Anon are unused for all its tries.
firedns_resolveip ==
  /\ pc = "main"
  /\ Cardinality(Anon \ Listed) >= FIREDNS_TRIES
  /\ pc' = "resolve"
  /\ tries' = 0
  /\ UNCHANGED <<CONNECTIONS, open, fdns_fdinuse, age, inbox, result, cycleVars>>

\* One try: firedns_getip with info NULL, which does not queue at the limit.
firedns_resolveip_try(c) ==
  /\ pc = "resolve"
  /\ tries < FIREDNS_TRIES
  /\ fdns_fdinuse < dns_fdlimit
  /\ c \in Anon \ Listed
  /\ CONNECTIONS' = list_add(CONNECTIONS, c)
  /\ firedns_doquery(c)
  /\ tries' = tries + 1
  /\ pc' = "select"
  /\ UNCHANGED <<result, cycleVars>>

\* The tries are used up, the limit is reached or the query cannot be sent.
firedns_resolveip_fail ==
  /\ pc = "resolve"
  /\ pc' = "main"
  /\ tries' = 0
  /\ UNCHANGED <<CONNECTIONS, open, fdns_fdinuse, age, inbox, result, cycleVars>>

\* The query of the current try: the last one added.
Current == CONNECTIONS[Len(CONNECTIONS)]

\* select has returned without a datagram (its time is up, or SIGALRM, which
\* main sets every second, has interrupted it): recv fails, the query is
\* dropped and the name tried again.
firedns_resolveip_nothing ==
  /\ pc = "select"
  /\ Current \notin inbox
  /\ Close(Current)
  /\ pc' = "resolve"
  /\ UNCHANGED <<result, cycleVars, tries>>

\* A datagram: the answer, an error to be tried again, or one with another ID.
firedns_resolveip_reply ==
  /\ pc = "select"
  /\ Current \in inbox
  /\ \/ Close(Current) /\ pc' = "main" /\ tries' = 0
     \/ Close(Current) /\ pc' = "resolve" /\ tries' = tries
     \/ KeepWaiting(Current) /\ pc' = "resolve" /\ tries' = tries
  /\ UNCHANGED <<result, cycleVars>>

-----------------------------------------------------------------------------
(* firedns_cycle *)

firedns_cycle ==
  /\ pc = "main"
  /\ CONNECTIONS # <<>>
  /\ pc' = "reap"
  /\ todo' = CONNECTIONS
  /\ late' = {c \in open : age[c] > FDNS_TIMEOUT}
  /\ ufds' = {}
  /\ UNCHANGED <<CONNECTIONS, open, fdns_fdinuse, age, inbox, result, ready, tries>>

\* The next node of the first loop, which stops when the array ufds is full.
ReapNext(c) ==
  /\ pc = "reap"
  /\ todo # <<>>
  /\ c = Head(todo)
  /\ Cardinality(ufds) < dns_fdlimit
  /\ todo' = Tail(todo)
  /\ UNCHANGED <<pc, late, ready, tries>>

\* A queued query has no socket: skipped.
reap_queued(c) ==
  /\ ReapNext(c)
  /\ c \notin open
  /\ UNCHANGED <<CONNECTIONS, open, fdns_fdinuse, age, inbox, result, ufds>>

\* Fault: dnsbl_result is not called for a timeout.
reap_timeout_Silent(c) ==
  /\ ReapNext(c)
  /\ c \in open \cap late
  /\ Close(c)
  /\ UNCHANGED <<ufds, result>>

\* A query that is too old: closed, and reported as timed out.
reap_timeout(c) ==
  /\ ReapNext(c)
  /\ c \in open \cap late
  /\ Close(c)
  /\ Deliver(c, "TIMEOUT")
  /\ UNCHANGED ufds

\* Fault: the last place of the array is not used.
reap_poll_Skip(c) ==
  /\ ReapNext(c)
  /\ c \in open \ late
  /\ ufds' = IF Cardinality(ufds) + 1 < dns_fdlimit THEN ufds \cup {c} ELSE ufds
  /\ UNCHANGED <<CONNECTIONS, open, fdns_fdinuse, age, inbox, result>>

\* Any other goes into the array for poll.
reap_poll(c) ==
  /\ ReapNext(c)
  /\ c \in open \ late
  /\ ufds' = ufds \cup {c}
  /\ UNCHANGED <<CONNECTIONS, open, fdns_fdinuse, age, inbox, result>>

ReapDone == pc = "reap" /\ (todo = <<>> \/ Cardinality(ufds) >= dns_fdlimit)

\* poll reports a socket: go through the whole list again.
poll_some ==
  /\ ReapDone
  /\ ready' = ufds \cap inbox
  /\ ready' # {}
  /\ pc' = "serve"
  /\ todo' = CONNECTIONS
  /\ late' = {}
  /\ UNCHANGED <<CONNECTIONS, open, fdns_fdinuse, age, inbox, result, ufds, tries>>

\* poll reports none (or fails, with -1): the cycle is over.
poll_none ==
  /\ ReapDone
  /\ pc' = "main"
  /\ todo' = <<>> /\ late' = {} /\ ufds' = {}
  /\ UNCHANGED <<CONNECTIONS, open, fdns_fdinuse, age, inbox, result, ready, tries>>

\* The next node of the second loop.
ServeNext(c) ==
  /\ pc = "serve"
  /\ todo # <<>>
  /\ c = Head(todo)
  /\ todo' = Tail(todo)
  /\ UNCHANGED <<pc, late, ufds, ready, tries>>

\* Fault: dnsbl_result is called for a datagram that is not the reply.
serve_reply_Mismatched(c) ==
  /\ ServeNext(c)
  /\ c \in open \cap ready
  /\ Close(c) \/ KeepWaiting(c)
  /\ Deliver(c, "REPLY")

\* poll reported the socket: its datagram is the reply, and goes to dnsbl_result, or
\* is not.
serve_reply(c) ==
  /\ ServeNext(c)
  /\ c \in open \cap ready
  /\ \/ Close(c) /\ Deliver(c, "REPLY")
     \/ KeepWaiting(c) /\ UNCHANGED result

\* A queued query is sent if there is a socket for it.
serve_start(c) ==
  /\ ServeNext(c)
  /\ c \notin open
  /\ fdns_fdinuse < dns_fdlimit
  /\ firedns_doquery(c)
  /\ UNCHANGED <<CONNECTIONS, result>>

\* Nothing to read, no socket to be had, or the query could not be sent.
serve_skip(c) ==
  /\ ServeNext(c)
  /\ c \notin open \cap ready
  /\ UNCHANGED <<CONNECTIONS, open, fdns_fdinuse, age, inbox, result>>

serve_done ==
  /\ pc = "serve"
  /\ todo = <<>>
  /\ pc' = "main"
  /\ ready' = {} /\ ufds' = {}
  /\ UNCHANGED <<CONNECTIONS, open, fdns_fdinuse, age, inbox, result, todo, late, tries>>

-----------------------------------------------------------------------------
(* The clock and the network *)

Tick ==
  /\ \E c \in open : age[c] < MaxAge
  /\ age' = [c \in Conn |-> IF c \in open /\ age[c] < MaxAge THEN age[c] + 1 ELSE age[c]]
  /\ UNCHANGED <<CONNECTIONS, open, fdns_fdinuse, inbox, result, pc, cycleVars, tries>>

\* A datagram reaches an open socket.
Arrive(c) ==
  /\ c \in open
  /\ c \notin inbox
  /\ inbox' = inbox \cup {c}
  /\ UNCHANGED <<CONNECTIONS, open, fdns_fdinuse, age, result, pc, cycleVars, tries>>

-----------------------------------------------------------------------------
Init ==
  /\ CONNECTIONS = <<>> /\ open = {} /\ fdns_fdinuse = 0
  /\ age = [c \in Conn |-> 0]
  /\ inbox = {}
  /\ result = [q \in Query |-> "idle"]
  /\ pc = "main"
  /\ todo = <<>> /\ late = {} /\ ufds = {} /\ ready = {}
  /\ tries = 0

\* A step of firedns_cycle or of firedns_resolveip once it has been called.
Working ==
  \/ \E c \in Conn : \/ reap_queued(c) \/ reap_timeout(c) \/ reap_poll(c)
                     \/ serve_reply(c) \/ serve_start(c) \/ serve_skip(c)
                     \/ firedns_resolveip_try(c)
  \/ poll_some \/ poll_none \/ serve_done
  \/ firedns_resolveip_fail \/ firedns_resolveip_nothing \/ firedns_resolveip_reply

Next ==
  \/ \E q \in Query : firedns_getip_queue(q) \/ firedns_getip_send(q)
  \/ firedns_resolveip
  \/ firedns_cycle
  \/ Working
  \/ Tick
  \/ \E c \in Conn : Arrive(c)

Spec == Init /\ [][Next]_vars

\* The main loop calls firedns_cycle again and again (as long as irc_cycle comes
\* back, see Main), functions of firedns.c return, and time passes.  Nothing is
\* assumed of the name servers.
FairSpec ==
  /\ Spec
  /\ WF_vars(Working)
  /\ SF_vars(firedns_cycle)
  /\ WF_vars(Tick)

-----------------------------------------------------------------------------
(* Properties *)

\* Every variable has its type.
TypeOK ==
  /\ CONNECTIONS \in Seq(Conn)
  /\ open \subseteq Conn
  /\ fdns_fdinuse \in Nat
  /\ age \in [Conn -> 0..MaxAge]
  /\ inbox \subseteq Conn
  /\ result \in [Query -> {"idle", "pending", "REPLY", "TIMEOUT"}]
  /\ pc \in {"main", "reap", "serve", "resolve", "select"}
  /\ todo \in Seq(Conn)
  /\ late \subseteq Conn /\ ufds \subseteq Conn /\ ready \subseteq Conn
  /\ tries \in 0..FIREDNS_TRIES

\* fdns_fdinuse is exactly the number of sockets open, and stays within
\* dns_fdlimit: no path out of firedns.c leaks a socket or counts one twice.
FdBudget ==
  /\ fdns_fdinuse = Cardinality(open)
  /\ fdns_fdinuse <= dns_fdlimit

\* A lookup waits for its result exactly as long as it is in the list, once;
\* and a socket belongs to a listed query.
PendingIffListed ==
  /\ \A q \in Query : result[q] = "pending" <=> q \in Listed
  /\ \A i, j \in DOMAIN CONNECTIONS : CONNECTIONS[i] = CONNECTIONS[j] => i = j
  /\ open \subseteq Listed

\* The array ufds, of dns_fdlimit elements, is never overrun, and although the
\* first loop stops when it is full, every open socket is polled.
AllPolled ==
  /\ Cardinality(ufds) <= dns_fdlimit
  /\ ReapDone => ufds = open

\* A query handed to a loop is still in the list when the loop reaches it, so
\* removing nodes inside LIST_FOREACH_SAFE never leaves a dangling next.
LoopSafe == Range(todo) \subseteq Listed

\* Each accepted lookup gets exactly one result, and no other gets any.
ResolverPromise == INSTANCE Resolver WITH Query <- Query, result <- result

\* The resolver keeps that promise.
Implements == ResolverPromise!Spec

\* A query that was sent is always done with, replied to or not.
SentIsFinished == \A q \in Conn : q \in open ~> q \notin open

\* "build, add and send specified query; retrieve result with
\* firedns_getresult()": a lookup that firedns_getip accepted gets a result.
AcceptedIsAnswered == \A q \in Query : result[q] = "pending" ~> result[q] # "pending"
=============================================================================
