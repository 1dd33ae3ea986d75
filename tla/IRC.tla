-------------------------------- MODULE IRC ---------------------------------
(***************************************************************************)
(* The connection to the IRC server (irc.c) under the main loop (main.c):  *)
(* irc_cycle connects, or reads at most one line; scan_cycle and the       *)
(* handlers of irc_parse send; irc_timer, once a second, watches over the  *)
(* connection.  A failure is noticed by whichever call meets it first, and *)
(* irc_reconnect drops the socket, but not twice in RECONNECTINTERVAL.     *)
(*                                                                         *)
(* The socket is blocking: irc_read, once called, stays in read until a    *)
(* line is complete or the connection breaks.  read does not set errno at  *)
(* end of file, so irc_read may see the EAGAIN that the resolver or libopm *)
(* left there.  Lines are abstracted to what their handlers do: how many   *)
(* messages they send (two stand for more: the third and later ones meet   *)
(* the same socket) and whether they are a KILL.                           *)
(***************************************************************************)
EXTENDS Integers, Sequences

CONSTANTS
  NODATA_TIMEOUT,      \* options.h
  RECONNECTINTERVAL,
  OPT_DEBUG,           \* bopm runs in the foreground
  MaxInput             \* bound: characters waiting on the socket

ASSUME IRCConfig ==
  /\ RECONNECTINTERVAL \in Nat \ {0}
  /\ NODATA_TIMEOUT \in Nat /\ NODATA_TIMEOUT > RECONNECTINTERVAL
  /\ OPT_DEBUG \in BOOLEAN
  /\ MaxInput \in Nat \ {0}

VARIABLES
  pc,          \* irc: about to call irc_cycle; read: in irc_read; scan: about
               \* to call scan_cycle; main: in the rest of the main loop
  irc,         \* sock: IRC_FD and what it is connected to (see below);
               \* recon: seconds since IRC_LASTRECONNECT
  idle,        \* seconds since IRC_LAST
  input,       \* characters of lines ("c") and ends of line ("\n") to be read
  IRC_RAW,     \* empty, or part of a line of this or of an old connection
  errno,
  ALARMED,     \* SIGALRM has been received
  RESTART      \* main_restart has been called

vars == <<pc, irc, idle, input, IRC_RAW, errno, ALARMED, RESTART>>

\* irc.sock is "none": IRC_FD is 0; "unconnected": connect failed; "up";
\* "closed": the server has closed the connection; "reset": and the peer has
\* answered a send with a RST; "gone": the server is out of reach and nothing has
\* told us.

Errno == {"EAGAIN", "other"}

-----------------------------------------------------------------------------
(* Dropping the connection and sending *)

\* Fault: a refused reconnection counts as one.
irc_reconnect_Restamp(s) ==
  IF s.recon < RECONNECTINTERVAL THEN [s EXCEPT !.recon = 0]
  ELSE [sock |-> "none", recon |-> 0]

\* irc_reconnect: sleep and return if the last one was not long ago.
irc_reconnect(s) ==
  IF s.recon < RECONNECTINTERVAL THEN s ELSE [sock |-> "none", recon |-> 0]

\* irc_send: fails on descriptor 0 (a log file or the terminal) as well.
irc_send(s) ==
  CASE s.sock \in {"up", "gone"} -> s
    [] s.sock = "closed" -> [s EXCEPT !.sock = "reset"]
    [] OTHER -> irc_reconnect(s)

\* A handler that sends "many" messages.
Sends(s, many) ==
  CASE many = 0 -> s
    [] many = 1 -> irc_send(s)
    [] many = 2 -> irc_send(irc_send(s))

-----------------------------------------------------------------------------
(* irc_cycle without a connection: irc_init, irc_connect *)

irc_connect ==
  /\ pc = "irc"
  /\ irc.sock = "none"
  /\ pc' = "scan"
  /\ irc' = [irc EXCEPT !.sock = "up"]
  /\ idle' = 0
  /\ input' = <<>>
  /\ IRC_RAW' = IF IRC_RAW = "empty" THEN "empty" ELSE "old"
  /\ UNCHANGED <<errno, ALARMED, RESTART>>

\* connect succeeds and the server closes at once: NICK, PASS or USER fails, and
\* the time is taken all the same.
irc_connect_closed ==
  /\ pc = "irc"
  /\ irc.sock = "none"
  /\ pc' = "scan"
  /\ \E many \in 1..2 : irc' = Sends([irc EXCEPT !.sock = "closed"], many)
  /\ idle' = 0
  /\ input' = <<>>
  /\ IRC_RAW' = IF IRC_RAW = "empty" THEN "empty" ELSE "old"
  /\ UNCHANGED <<errno, ALARMED, RESTART>>

\* connect fails: a socket is left unless irc_reconnect may close it.
irc_connect_failed ==
  /\ pc = "irc"
  /\ irc.sock = "none"
  /\ pc' = "scan"
  /\ irc' = irc_reconnect([irc EXCEPT !.sock = "unconnected"])
  /\ input' = <<>>
  /\ UNCHANGED <<idle, IRC_RAW, errno, ALARMED, RESTART>>

\* The name cannot be resolved, or the socket not created or bound: exit.
irc_init_failed ==
  /\ pc = "irc"
  /\ irc.sock = "none"
  /\ pc' = "exited"
  /\ UNCHANGED <<irc, idle, input, IRC_RAW, errno, ALARMED, RESTART>>

-----------------------------------------------------------------------------
(* irc_cycle with a connection: select, irc_read *)

\* select returns 0, or -1 because of a signal.
irc_cycle_idle ==
  /\ pc = "irc"
  /\ irc.sock # "none"
  /\ pc' = "scan"
  /\ UNCHANGED <<irc, idle, input, IRC_RAW, errno, ALARMED, RESTART>>

\* select reports IRC_FD.
irc_cycle_read ==
  /\ pc = "irc"
  /\ input # <<>> \/ irc.sock \in {"closed", "reset", "unconnected"}
  /\ irc.sock # "none"
  /\ pc' = "read"
  /\ UNCHANGED <<irc, idle, input, IRC_RAW, errno, ALARMED, RESTART>>

\* Fault: one character is read at a time.
irc_read_char_Return ==
  /\ pc = "read"
  /\ input # <<>> /\ Head(input) = "c"
  /\ input' = Tail(input)
  /\ IRC_RAW' = IF IRC_RAW = "empty" THEN "part" ELSE IRC_RAW
  /\ pc' = "scan"
  /\ UNCHANGED <<irc, idle, errno, ALARMED, RESTART>>

\* irc_read: a character of a line.  IRC_RAW_LEN is not compared with the size of
\* IRC_RAW; lines that do not fit in it are not modelled.
irc_read_char ==
  /\ pc = "read"
  /\ input # <<>> /\ Head(input) = "c"
  /\ input' = Tail(input)
  /\ IRC_RAW' = IF IRC_RAW = "empty" THEN "part" ELSE IRC_RAW
  /\ UNCHANGED <<pc, irc, idle, errno, ALARMED, RESTART>>

\* What the handlers do to the connection and to RESTART.
AtMost(k) == /\ \E many \in 0..k : irc' = Sends(irc, many)
             /\ UNCHANGED RESTART

\* OPER, MODE, AWAY, what is to be performed, and the channels to join.
m_perform == irc' = Sends(irc, 2) /\ UNCHANGED RESTART

\* One answer, or none if the line is too short or about another channel.
m_ping == AtMost(1)
m_invite == AtMost(1)
m_cannot_join == AtMost(1)

\* m_ctcp's answer, command_parse's USERHOST.
m_privmsg == AtMost(2)

\* The lookups and scans of scan_connect that could not be started.
m_notice == AtMost(2)

\* The output of every command queued by the user.
m_userhost == AtMost(2)

m_kill == RESTART' = TRUE /\ UNCHANGED irc

\* irc_parse: an empty line is not looked at, and most lines have no handler.
irc_parse ==
  IF IRC_RAW = "empty"
  THEN UNCHANGED <<irc, idle, RESTART>>
  ELSE /\ idle' = 0
       /\ \/ m_perform \/ m_ping \/ m_invite \/ m_cannot_join \/ m_privmsg
          \/ m_notice \/ m_userhost \/ m_kill
          \/ UNCHANGED <<irc, RESTART>>

\* irc_read: the end of a line.
irc_read_line ==
  /\ pc = "read"
  /\ input # <<>> /\ Head(input) = "\n"
  /\ input' = Tail(input)
  /\ irc_parse
  /\ IRC_RAW' = "empty"
  /\ pc' = "scan"
  /\ UNCHANGED <<errno, ALARMED>>

\* irc_read: read returns 0 and errno is what it was.
irc_read_eof ==
  /\ pc = "read"
  /\ input = <<>>
  /\ irc.sock \in {"closed", "reset"}
  /\ pc' = "scan"
  /\ IF errno = "EAGAIN"
     THEN UNCHANGED <<irc, IRC_RAW>>
     ELSE irc' = irc_reconnect(irc) /\ IRC_RAW' = "empty"
  /\ UNCHANGED <<idle, input, errno, ALARMED, RESTART>>

\* irc_read: read returns -1 with an errno of its own.
ReadFails ==
  /\ pc = "read"
  /\ input = <<>>
  /\ pc' = "scan"
  /\ irc' = irc_reconnect(irc)
  /\ IRC_RAW' = "empty"
  /\ errno' = "other"
  /\ UNCHANGED <<idle, input, ALARMED, RESTART>>

irc_read_error == irc.sock \in {"reset", "unconnected"} /\ ReadFails

\* In the middle of a line SIGUSR1, whose handler is set without SA_RESTART,
\* interrupts read.
irc_read_interrupted == irc.sock \in {"up", "gone"} /\ ReadFails

-----------------------------------------------------------------------------
(* The rest of the main loop *)

\* scan_cycle: KLINEs and reports are sent, and errno is set by the system calls
\* of the resolver and libopm.
scan_cycle ==
  /\ pc = "scan"
  /\ pc' = "main"
  /\ \E many \in 0..2 : irc' = Sends(irc, many)
  /\ errno' \in Errno
  /\ UNCHANGED <<idle, input, IRC_RAW, ALARMED, RESTART>>

\* execve: every descriptor is closed and bopm starts anew.
main_exec ==
  /\ pc = "main"
  /\ RESTART /\ ~ OPT_DEBUG
  /\ pc' = "irc"
  /\ irc' = [sock |-> "none", recon |-> RECONNECTINTERVAL]
  /\ idle' = NODATA_TIMEOUT
  /\ input' = <<>> /\ IRC_RAW' = "empty" /\ errno' = "other"
  /\ ALARMED' = FALSE /\ RESTART' = FALSE

\* In debug mode, or if getrlimit fails, bopm dies instead.
main_exit ==
  /\ pc = "main"
  /\ RESTART
  /\ pc' = "exited"
  /\ UNCHANGED <<irc, idle, input, IRC_RAW, errno, ALARMED, RESTART>>

\* Fault: the connection is never given up.
irc_timer_PingOnly ==
  IF idle >= NODATA_TIMEOUT \div 2
  THEN irc' = irc_send(irc) /\ UNCHANGED idle
  ELSE UNCHANGED <<irc, idle>>

\* Fault: the first half of the timeout is enough.
irc_timer_Hasty ==
  IF idle >= NODATA_TIMEOUT \div 2
  THEN irc' = irc_reconnect(irc) /\ idle' = 0
  ELSE UNCHANGED <<irc, idle>>

\* irc_timer: give up after NODATA_TIMEOUT, send a PING from half of it on.
irc_timer ==
  IF idle >= NODATA_TIMEOUT
  THEN irc' = irc_reconnect(irc) /\ idle' = 0
  ELSE /\ irc' = IF idle >= NODATA_TIMEOUT \div 2 THEN irc_send(irc) ELSE irc
       /\ UNCHANGED idle

\* The timers; also when execve has failed.
main_timers ==
  /\ pc = "main"
  /\ RESTART => ~ OPT_DEBUG
  /\ pc' = "irc"
  /\ RESTART' = FALSE
  /\ ALARMED' = FALSE
  /\ IF ALARMED THEN irc_timer ELSE UNCHANGED <<irc, idle>>
  /\ UNCHANGED <<input, IRC_RAW, errno>>

-----------------------------------------------------------------------------
(* Time and the server *)

\* A second passes and SIGALRM is delivered.
Tick ==
  /\ pc # "exited"
  /\ irc.recon < RECONNECTINTERVAL \/ idle < NODATA_TIMEOUT \/ ~ ALARMED
  /\ ALARMED' = TRUE
  /\ irc' = IF irc.recon < RECONNECTINTERVAL THEN [irc EXCEPT !.recon = @ + 1] ELSE irc
  /\ idle' = IF idle < NODATA_TIMEOUT THEN idle + 1 ELSE idle
  /\ UNCHANGED <<pc, input, IRC_RAW, errno, RESTART>>

server_sends(ch) ==
  /\ pc # "exited"
  /\ irc.sock = "up"
  /\ Len(input) < MaxInput
  /\ input' = Append(input, ch)
  /\ UNCHANGED <<pc, irc, idle, IRC_RAW, errno, ALARMED, RESTART>>

\* The server closes the connection, resets it, or is no longer reached; TCP
\* may find out the latter after a send.
server_leaves ==
  /\ pc # "exited"
  /\ \/ irc.sock = "up" /\ \E s \in {"closed", "reset", "gone"} : irc' = [irc EXCEPT !.sock = s]
     \/ irc.sock = "gone" /\ irc' = [irc EXCEPT !.sock = "reset"]
  /\ UNCHANGED <<pc, idle, input, IRC_RAW, errno, ALARMED, RESTART>>

-----------------------------------------------------------------------------
Init ==
  /\ pc = "irc"
  /\ irc = [sock |-> "none", recon |-> RECONNECTINTERVAL]
  /\ idle = NODATA_TIMEOUT
  /\ input = <<>> /\ IRC_RAW = "empty" /\ errno = "other"
  /\ ALARMED = FALSE /\ RESTART = FALSE

\* A step of bopm.
MainLoop ==
  \/ irc_connect \/ irc_connect_closed \/ irc_connect_failed \/ irc_init_failed
  \/ irc_cycle_idle \/ irc_cycle_read
  \/ irc_read_char \/ irc_read_line \/ irc_read_eof \/ irc_read_error
  \/ scan_cycle \/ main_exec \/ main_exit \/ main_timers

Next ==
  \/ MainLoop
  \/ irc_read_interrupted
  \/ Tick
  \/ \E ch \in {"c", "\n"} : server_sends(ch)
  \/ server_leaves

Spec == Init /\ [][Next]_vars

\* bopm runs and time passes.  Nothing is assumed of select, which a signal may
\* interrupt, of the server or of TCP.
FairSpec == Spec /\ WF_vars(MainLoop) /\ WF_vars(Tick)

-----------------------------------------------------------------------------
(* Properties *)

\* irc_read returns with part of a line of the connection in IRC_RAW only if the
\* server has closed it in the middle of the line.
PartOnlyAtEof ==
  IRC_RAW = "part" /\ pc # "read" => irc.sock \notin {"up", "gone"}

\* A connection that the server keeps up is dropped for nothing but
\* NODATA_TIMEOUT seconds without a line, an interrupted irc_read or a restart,
\* whatever else failed before and however many messages are sent.
HealthyKept ==
  [][ irc.sock = "up" /\ irc'.sock = "none" =>
        idle >= NODATA_TIMEOUT \/ irc_read_interrupted \/ main_exec ]_vars

\* A socket that is no longer, or was never, connected is given up in the end,
\* although irc_read may take its end of file for EAGAIN again and again and
\* irc_reconnect may return without doing anything.
DeadIsDropped ==
  irc.sock \in {"closed", "reset", "unconnected"}
    ~> irc.sock \notin {"closed", "reset", "unconnected"} \/ pc = "exited"

\* A server out of reach is noticed, with no help from TCP, if it was not lost
\* in the middle of a line.
SilenceNoticed ==
  irc.sock = "gone" /\ input = <<>> /\ pc # "read" ~> irc.sock # "gone" \/ pc = "exited"

\* NODATA_TIMEOUT "Defines time in which bot will timeout if no data is
\* received": a server out of reach is always noticed.
NoDataTimesOut == irc.sock = "gone" ~> irc.sock # "gone" \/ pc = "exited"
=============================================================================
