------------------------------ MODULE OperCmd -------------------------------
(***************************************************************************)
(* Commands from IRC operators (opercmd.c).  command_parse queues a        *)
(* command and asks the server with USERHOST whether its sender is an      *)
(* operator; the reply, m_userhost, runs and removes the commands queued   *)
(* under that nick.  A sender who has quit, or a connection that was lost, *)
(* leaves commands behind, which command_timer removes.                    *)
(*                                                                         *)
(* The server answers in the order it was asked (one TCP connection).      *)
(* Which command it is and what it does (scan_manual, stats_output) is     *)
(* left to the modules about those: no handler touches the queue.          *)
(***************************************************************************)
EXTENDS Integers, Sequences, FiniteSetsExt, SequencesExt

CONSTANTS
  Nicks,             \* users that send commands
  COMMANDMAX,        \* options.h
  COMMANDINTERVAL,
  COMMANDTIMEOUT,
  MaxLag,            \* bound: seconds one round of the main loop can take
  MaxWire            \* bound: USERHOSTs not yet answered

ASSUME OperCmdConfig ==
  /\ COMMANDMAX \in Nat \ {0}
  /\ COMMANDINTERVAL \in Nat
  /\ COMMANDTIMEOUT \in Nat
  /\ MaxLag \in Nat \ {0}
  /\ MaxWire \in Nat \ {0}

VARIABLES
  COMMANDS,   \* the queue: nick and age (present - added) of each command
  interval,   \* command_timer's static counter
  lag,        \* seconds since command_timer was last called
  wire,       \* nicks the server was asked about and has not answered for
  orphans     \* history: nicks with a command whose answer was lost, or said
              \* that they have quit

vars == <<COMMANDS, interval, lag, wire, orphans>>

Command == [irc_nick : Nicks, age : Nat]

NicksOf(q) == {q[i].irc_nick : i \in DOMAIN q}

-----------------------------------------------------------------------------
(* Queueing *)

\* Fault: new commands go to the head.
list_add_Front(q, n) == <<[irc_nick |-> n, age |-> 0]>> \o q

\* command_create and list_add: at the tail, added now.
list_add(q, n) == Append(q, [irc_nick |-> n, age |-> 0])

\* Fault: > for >= in the test of the limit.
command_parse_Overfull(n, known, sent) ==
  /\ Len(COMMANDS) <= COMMANDMAX
  /\ Len(wire) < MaxWire
  /\ COMMANDS' = IF known THEN list_add(COMMANDS, n) ELSE COMMANDS
  /\ wire' = IF sent THEN Append(wire, n) ELSE wire
  /\ orphans' = IF sent THEN orphans ELSE (orphans \cup {n}) \cap NicksOf(COMMANDS')
  /\ UNCHANGED <<interval, lag>>

\* command_parse, for a message with a command in it.  A full queue takes no
\* more.  An unknown command is not queued, but the server is asked all the
\* same.  irc_send may fail.
command_parse(n, known, sent) ==
  /\ Len(COMMANDS) < COMMANDMAX
  /\ Len(wire) < MaxWire
  /\ COMMANDS' = IF known THEN list_add(COMMANDS, n) ELSE COMMANDS
  /\ wire' = IF sent THEN Append(wire, n) ELSE wire
  /\ orphans' = IF sent THEN orphans ELSE (orphans \cup {n}) \cap NicksOf(COMMANDS')
  /\ UNCHANGED <<interval, lag>>

-----------------------------------------------------------------------------
(* Answers *)

\* Fault: only the first command of a nick is taken.
command_userhost_First(n) ==
  /\ COMMANDS' = IF n \in NicksOf(COMMANDS)
                 THEN RemoveAt(COMMANDS, SelectInSeq(COMMANDS, LAMBDA c : c.irc_nick = n))
                 ELSE COMMANDS
  /\ orphans' = orphans \ {n}

\* The ways to list the elements of S, a set of positions, in increasing order
\* (there is one).
InOrder(S) ==
  {f \in [1..Cardinality(S) -> S] : \A i, j \in DOMAIN f : i < j => f[i] < f[j]}

\* command_userhost, for a nick in use: every command queued under it is run if
\* it is an operator's, and removed in any case; the others keep their order.
command_userhost(n) ==
  /\ \E kept \in InOrder({i \in DOMAIN COMMANDS : COMMANDS[i].irc_nick # n}) :
       COMMANDS' = [i \in DOMAIN kept |-> COMMANDS[kept[i]]]
  /\ orphans' = orphans \ {n}

\* m_userhost: the reply to the oldest question, for a nick in use.
m_userhost ==
  /\ wire # <<>>
  /\ wire' = Tail(wire)
  /\ command_userhost(Head(wire))
  /\ UNCHANGED <<interval, lag>>

\* command_userhost, for a nick that has quit: a reply without '=', ignored.
m_userhost_quit ==
  /\ wire # <<>>
  /\ wire' = Tail(wire)
  /\ orphans' = (orphans \cup {Head(wire)}) \cap NicksOf(COMMANDS)
  /\ UNCHANGED <<COMMANDS, interval, lag>>

\* irc_reconnect: no answer will come any more; the queue is kept.
irc_reconnect ==
  /\ wire # <<>>
  /\ wire' = <<>>
  /\ orphans' = (orphans \cup ToSet(wire)) \cap NicksOf(COMMANDS)
  /\ UNCHANGED <<COMMANDS, interval, lag>>

-----------------------------------------------------------------------------
(* Timing out *)

\* Fault: a round of the timer removes one command at most.
Swept_First(q) ==
  IF q # <<>> /\ q[1].age > COMMANDTIMEOUT THEN Tail(q) ELSE q

\* Fault: an old command gets a new time instead of being freed.
Swept_Renewed(q) ==
  [i \in DOMAIN q |-> IF q[i].age > COMMANDTIMEOUT THEN [q[i] EXCEPT !.age = 0] ELSE q[i]]

\* Commands are freed from the head of the list up to the first that is not too
\* old.
Swept(q) ==
  LET keep == {i \in DOMAIN q : q[i].age <= COMMANDTIMEOUT}
  IN  SubSeq(q, Min(keep \cup {Len(q) + 1}), Len(q))

\* command_timer, called by the main loop when SIGALRM has set ALARMED.
command_timer ==
  /\ lag > 0
  /\ lag' = 0
  /\ IF interval < COMMANDINTERVAL
     THEN interval' = interval + 1 /\ UNCHANGED COMMANDS
     ELSE interval' = 0 /\ COMMANDS' = Swept(COMMANDS)
  /\ orphans' = orphans \cap NicksOf(COMMANDS')
  /\ UNCHANGED wire

\* A second passes.
Tick ==
  /\ lag < MaxLag
  /\ lag' = lag + 1
  /\ COMMANDS' = [i \in DOMAIN COMMANDS |-> [COMMANDS[i] EXCEPT !.age = @ + 1]]
  /\ UNCHANGED <<interval, wire, orphans>>

-----------------------------------------------------------------------------
Init ==
  /\ COMMANDS = <<>> /\ interval = 0 /\ lag = 0
  /\ wire = <<>> /\ orphans = {}

Next ==
  \/ \E n \in Nicks, known, sent \in BOOLEAN : command_parse(n, known, sent)
  \/ m_userhost \/ m_userhost_quit \/ irc_reconnect
  \/ command_timer \/ Tick

Spec == Init /\ [][Next]_vars

\* Time passes and the main loop goes round (as long as irc_cycle comes back, see
\* Main); the server need not answer.
FairSpec == Spec /\ WF_vars(Tick) /\ WF_vars(command_timer)

-----------------------------------------------------------------------------
(* Properties *)

\* Every variable has its type, and the queue its bound.
TypeOK ==
  /\ COMMANDS \in Seq(Command) /\ Len(COMMANDS) <= COMMANDMAX
  /\ interval \in 0..COMMANDINTERVAL
  /\ lag \in 0..MaxLag
  /\ wire \in Seq(Nicks) /\ Len(wire) <= MaxWire
  /\ orphans \subseteq Nicks

\* "Since the queue is in order, it's also ordered by time", which is what lets
\* command_timer stop at the first command that is not too old.
QueueInOrder ==
  \A i, j \in DOMAIN COMMANDS : i < j => COMMANDS[i].age >= COMMANDS[j].age

\* Whatever happens to its USERHOST, no command waits for longer than the
\* timeout and one round of command_timer.
AgeBounded ==
  \A i \in DOMAIN COMMANDS :
    COMMANDS[i].age <= COMMANDTIMEOUT + (COMMANDINTERVAL + 1) * MaxLag

\* A command in the queue has an answer to come for its nick, unless that was
\* lost or the nick had quit: an answer leaves no command of its nick behind.
AwaitingAnswer ==
  \A c \in ToSet(COMMANDS) : c.irc_nick \in ToSet(wire) \cup orphans

\* A full queue does not stay full, even if the server never answers.
QueueDrains == Len(COMMANDS) = COMMANDMAX ~> Len(COMMANDS) < COMMANDMAX
=============================================================================
