----------------------------- MODULE IRCProofs ------------------------------
(***************************************************************************)
(* The safety properties of IRC, for every NODATA_TIMEOUT and              *)
(* RECONNECTINTERVAL and any amount of input waiting on the socket.        *)
(***************************************************************************)
EXTENDS IRC, SequenceTheorems, TLAPS

Sock == {"none", "unconnected", "up", "closed", "reset", "gone"}

Connection == [sock : Sock, recon : 0..RECONNECTINTERVAL]

\* Every variable of IRC has its type.
IRCType ==
  /\ pc \in {"irc", "read", "scan", "main", "exited"}
  /\ irc \in Connection
  /\ idle \in 0..NODATA_TIMEOUT
  /\ input \in Seq({"c", "\n"}) /\ Len(input) <= MaxInput
  /\ IRC_RAW \in {"empty", "part", "old"}
  /\ errno \in Errno
  /\ ALARMED \in BOOLEAN /\ RESTART \in BOOLEAN

IRCInv == IRCType /\ PartOnlyAtEof

-----------------------------------------------------------------------------
(* Sending *)

\* irc_reconnect drops the socket or leaves it as it is.
LEMMA ReconnectIs ==
  ASSUME NEW s \in Connection
  PROVE  /\ irc_reconnect(s) \in Connection
         /\ irc_reconnect(s).sock \in {"none", s.sock}
<1>1. RECONNECTINTERVAL \in Nat
  BY IRCConfig DEF IRCConfig
<1>. QED
  BY <1>1 DEF irc_reconnect, Connection, Sock

\* irc_send never touches a connection whose end is not known, and never brings
\* one back.
LEMMA SendIs ==
  ASSUME NEW s \in Connection
  PROVE  /\ irc_send(s) \in Connection
         /\ s.sock \in {"up", "gone"} => irc_send(s) = s
         /\ s.sock \notin {"up", "gone"} => irc_send(s).sock \notin {"up", "gone"}
<1>1. CASE s.sock \in {"up", "gone"}
  BY <1>1 DEF irc_send
<1>2. CASE s.sock = "closed"
  <2>1. irc_send(s) = [s EXCEPT !.sock = "reset"]
    BY <1>2 DEF irc_send
  <2>. QED
    BY <1>2, <2>1 DEF Connection, Sock
<1>3. CASE s.sock \notin {"up", "gone", "closed"}
  <2>1. irc_send(s) = irc_reconnect(s)
    BY <1>3 DEF irc_send
  <2>. QED
    BY <1>3, <2>1, ReconnectIs
<1>. QED
  BY <1>1, <1>2, <1>3

\* The same holds of any number of messages.
LEMMA SendsIs ==
  ASSUME NEW s \in Connection, NEW many \in 0..2
  PROVE  /\ Sends(s, many) \in Connection
         /\ s.sock \in {"up", "gone"} => Sends(s, many) = s
         /\ s.sock \notin {"up", "gone"} => Sends(s, many).sock \notin {"up", "gone"}
<1>1. CASE many = 0
  BY <1>1 DEF Sends
<1>2. CASE many = 1
  <2>1. Sends(s, many) = irc_send(s)
    BY <1>2 DEF Sends
  <2>. QED
    BY <2>1, SendIs
<1>3. CASE many = 2
  <2>1. Sends(s, many) = irc_send(irc_send(s))
    BY <1>3 DEF Sends
  <2>2. irc_send(s) \in Connection
    BY SendIs
  <2>. QED
    BY <2>1, <2>2, SendIs
<1>. QED
  BY <1>1, <1>2, <1>3

\* A step that sends, or gives up the connection, or neither.
Sent == \E many \in 0..2 : irc' = Sends(irc, many)

LEMMA SentIs ==
  ASSUME IRCType, Sent
  PROVE  /\ irc' \in Connection
         /\ irc.sock \in {"up", "gone"} => irc' = irc
         /\ irc.sock \notin {"up", "gone"} => irc'.sock \notin {"up", "gone"}
<1>1. irc \in Connection
  BY DEF IRCType
<1>. QED
  BY <1>1, SendsIs DEF Sent

\* Whatever the handler of a line does, it does by sending.
LEMMA ParseIs ==
  ASSUME IRCType, irc_parse
  PROVE  Sent /\ idle' \in 0..NODATA_TIMEOUT /\ RESTART' \in BOOLEAN
<1>1. NODATA_TIMEOUT \in Nat
  BY IRCConfig DEF IRCConfig
<1>2. irc = Sends(irc, 0)
  BY DEF Sends
<1>3. CASE IRC_RAW = "empty"
  <2>1. UNCHANGED <<irc, idle, RESTART>>
    BY <1>3 DEF irc_parse
  <2>. QED
    BY <1>2, <2>1 DEF IRCType, Sent
<1>4. CASE IRC_RAW # "empty"
  <2>1. idle' = 0
    BY <1>4 DEF irc_parse
  <2>2. CASE m_kill \/ UNCHANGED <<irc, RESTART>>
    <3>1. irc' = irc
      BY <2>2 DEF m_kill
    <3>2. RESTART' \in BOOLEAN
      BY <2>2, Zenon DEF m_kill, IRCType
    <3>3. Sent
      BY <1>2, <3>1 DEF Sent
    <3>. QED
      BY <1>1, <2>1, <3>2, <3>3
  <2>3. CASE \E k \in 1..2 : AtMost(k)
    <3>1. Sent /\ RESTART' = RESTART
      BY <2>3 DEF AtMost, Sent
    <3>. QED
      BY <1>1, <2>1, <3>1 DEF IRCType
  <2>4. CASE m_perform
    <3>1. Sent /\ RESTART' = RESTART
      BY <2>4 DEF m_perform, Sent
    <3>. QED
      BY <1>1, <2>1, <3>1 DEF IRCType
  <2>. QED
    BY <1>4, <2>2, <2>3, <2>4
    DEF irc_parse, m_ping, m_invite, m_cannot_join, m_privmsg, m_notice, m_userhost
<1>. QED
  BY <1>3, <1>4

\* The input is taken one character at a time.
LEMMA InputTail ==
  ASSUME IRCType, input # <<>>
  PROVE  Tail(input) \in Seq({"c", "\n"}) /\ Len(Tail(input)) <= MaxInput
<1>1. MaxInput \in Nat
  BY IRCConfig DEF IRCConfig
<1>. QED
  BY <1>1 DEF IRCType

-----------------------------------------------------------------------------
(* The steps *)

LEMMA ConnectStep ==
  ASSUME IRCInv, irc_connect \/ irc_connect_closed \/ irc_connect_failed \/ irc_init_failed
  PROVE  IRCInv'
<1>1. /\ IRCType /\ PartOnlyAtEof /\ pc = "irc" /\ irc.sock = "none" /\ irc \in Connection
      /\ UNCHANGED <<errno, ALARMED, RESTART>>
  BY DEF IRCInv, IRCType, irc_connect, irc_connect_closed, irc_connect_failed, irc_init_failed
<1>2. NODATA_TIMEOUT \in Nat /\ MaxInput \in Nat /\ <<>> \in Seq({"c", "\n"}) /\ Len(<<>>) = 0
  BY IRCConfig DEF IRCConfig
<1>3. CASE irc_connect
  <2>1. irc' \in Connection
    BY <1>1, <1>3 DEF irc_connect, Connection, Sock
  <2>2. IRC_RAW' \in {"empty", "old"} /\ pc' = "scan" /\ idle' = 0 /\ input' = <<>>
    BY <1>3 DEF irc_connect
  <2>. QED
    BY <1>1, <1>2, <2>1, <2>2 DEF IRCInv, IRCType, PartOnlyAtEof
<1>4. CASE irc_connect_closed
  <2>1. irc' \in Connection
    <3>1. [irc EXCEPT !.sock = "closed"] \in Connection
      BY <1>1 DEF Connection, Sock
    <3>. QED
      BY <1>4, <3>1, SendsIs DEF irc_connect_closed
  <2>2. IRC_RAW' \in {"empty", "old"} /\ pc' = "scan" /\ idle' = 0 /\ input' = <<>>
    BY <1>4 DEF irc_connect_closed
  <2>. QED
    BY <1>1, <1>2, <2>1, <2>2 DEF IRCInv, IRCType, PartOnlyAtEof
<1>5. CASE irc_connect_failed
  <2>1. [irc EXCEPT !.sock = "unconnected"] \in Connection
        /\ [irc EXCEPT !.sock = "unconnected"].sock = "unconnected"
    BY <1>1 DEF Connection, Sock
  <2>2. irc' \in Connection /\ irc'.sock \in {"none", "unconnected"}
    BY <1>5, <2>1, ReconnectIs DEF irc_connect_failed
  <2>3. pc' = "scan" /\ input' = <<>> /\ UNCHANGED <<idle, IRC_RAW>>
    BY <1>5 DEF irc_connect_failed
  <2>. QED
    BY <1>1, <1>2, <2>2, <2>3 DEF IRCInv, IRCType, PartOnlyAtEof
<1>6. CASE irc_init_failed
  BY <1>1, <1>6 DEF irc_init_failed, IRCInv, IRCType, PartOnlyAtEof
<1>. QED
  BY <1>3, <1>4, <1>5, <1>6

LEMMA ReadStep ==
  ASSUME IRCInv,
         \/ irc_cycle_idle \/ irc_cycle_read \/ irc_read_char \/ irc_read_line
         \/ irc_read_eof \/ ReadFails
  PROVE  IRCInv'
<1>1. IRCType /\ PartOnlyAtEof /\ irc \in Connection
  BY DEF IRCInv, IRCType
<1>2. CASE irc_cycle_idle
  BY <1>1, <1>2 DEF irc_cycle_idle, IRCInv, IRCType, PartOnlyAtEof
<1>3. CASE irc_cycle_read
  BY <1>1, <1>3 DEF irc_cycle_read, IRCInv, IRCType, PartOnlyAtEof
<1>4. CASE irc_read_char
  <2>1. /\ input # <<>> /\ input' = Tail(input) /\ pc = "read"
        /\ IRC_RAW' = IF IRC_RAW = "empty" THEN "part" ELSE IRC_RAW
        /\ UNCHANGED <<pc, irc, idle, errno, ALARMED, RESTART>>
    BY <1>4 DEF irc_read_char
  <2>. QED
    BY <1>1, <2>1, InputTail DEF IRCInv, IRCType, PartOnlyAtEof
<1>5. CASE irc_read_line
  <2>1. /\ input # <<>> /\ input' = Tail(input) /\ pc' = "scan" /\ IRC_RAW' = "empty"
        /\ UNCHANGED <<errno, ALARMED>>
    BY <1>5 DEF irc_read_line
  <2>2. irc' \in Connection /\ idle' \in 0..NODATA_TIMEOUT /\ RESTART' \in BOOLEAN
    BY <1>1, <1>5, ParseIs, SentIs DEF irc_read_line
  <2>. QED
    BY <1>1, <2>1, <2>2, InputTail DEF IRCInv, IRCType, PartOnlyAtEof
<1>6. CASE irc_read_eof
  <2>1. /\ irc.sock \in {"closed", "reset"} /\ pc' = "scan"
        /\ UNCHANGED <<idle, input, errno, ALARMED, RESTART>>
    BY <1>6 DEF irc_read_eof
  <2>2. CASE errno = "EAGAIN"
    <3>1. UNCHANGED <<irc, IRC_RAW>>
      BY <1>6, <2>2 DEF irc_read_eof
    <3>. QED
      BY <1>1, <2>1, <3>1 DEF IRCInv, IRCType, PartOnlyAtEof
  <2>3. CASE errno # "EAGAIN"
    <3>1. irc' = irc_reconnect(irc) /\ IRC_RAW' = "empty"
      BY <1>6, <2>3 DEF irc_read_eof
    <3>2. irc' \in Connection
      BY <1>1, <3>1, ReconnectIs
    <3>. QED
      BY <1>1, <2>1, <3>1, <3>2 DEF IRCInv, IRCType, PartOnlyAtEof
  <2>. QED
    BY <2>2, <2>3
<1>7. CASE ReadFails
  <2>1. /\ irc' = irc_reconnect(irc) /\ IRC_RAW' = "empty" /\ pc' = "scan"
        /\ errno' = "other" /\ UNCHANGED <<idle, input, ALARMED, RESTART>>
    BY <1>7 DEF ReadFails
  <2>2. irc' \in Connection
    BY <1>1, <2>1, ReconnectIs
  <2>. QED
    BY <1>1, <2>1, <2>2 DEF IRCInv, IRCType, PartOnlyAtEof, Errno
<1>. QED
  BY <1>2, <1>3, <1>4, <1>5, <1>6, <1>7

LEMMA MainStep ==
  ASSUME IRCInv, scan_cycle \/ main_exec \/ main_exit \/ main_timers
  PROVE  IRCInv'
<1>1. IRCType /\ PartOnlyAtEof /\ irc \in Connection
  BY DEF IRCInv, IRCType
<1>2. NODATA_TIMEOUT \in Nat /\ RECONNECTINTERVAL \in Nat /\ MaxInput \in Nat
  BY IRCConfig DEF IRCConfig
<1>3. CASE scan_cycle
  <2>1. /\ pc = "scan" /\ pc' = "main" /\ Sent /\ errno' \in Errno
        /\ UNCHANGED <<idle, input, IRC_RAW, ALARMED, RESTART>>
    BY <1>3 DEF scan_cycle, Sent
  <2>. QED
    BY <1>1, <2>1, SentIs DEF IRCInv, IRCType, PartOnlyAtEof
<1>4. CASE main_exec
  <2>1. irc' = [sock |-> "none", recon |-> RECONNECTINTERVAL]
    BY <1>4 DEF main_exec
  <2>2. irc' \in Connection
    BY <1>2, <2>1 DEF Connection, Sock
  <2>3. /\ pc' = "irc" /\ idle' = NODATA_TIMEOUT /\ input' = <<>>
        /\ IRC_RAW' = "empty" /\ errno' = "other" /\ ALARMED' = FALSE /\ RESTART' = FALSE
    BY <1>4 DEF main_exec
  <2>4. input' \in Seq({"c", "\n"}) /\ Len(input') <= MaxInput
    BY <1>2, <2>3
  <2>5. ALARMED' \in BOOLEAN /\ RESTART' \in BOOLEAN
    BY <2>3, Zenon
  <2>6. /\ pc' = "irc" /\ idle' \in 0..NODATA_TIMEOUT
        /\ IRC_RAW' = "empty" /\ errno' \in Errno
    BY <1>2, <2>3 DEF Errno
  <2>. QED
    BY <2>2, <2>4, <2>5, <2>6 DEF IRCInv, IRCType, PartOnlyAtEof
<1>5. CASE main_exit
  BY <1>1, <1>5 DEF main_exit, IRCInv, IRCType, PartOnlyAtEof
<1>6. CASE main_timers
  <2>1. /\ pc = "main" /\ pc' = "irc" /\ RESTART' = FALSE /\ ALARMED' = FALSE
        /\ UNCHANGED <<input, IRC_RAW, errno>>
    BY <1>6 DEF main_timers
  <2>2. /\ irc' \in Connection
        /\ irc.sock \notin {"up", "gone"} => irc'.sock \notin {"up", "gone"}
        /\ idle' \in 0..NODATA_TIMEOUT
    <3>1. CASE irc' = irc
      <4>1. idle' \in {0, idle}
        BY <1>6 DEF main_timers, irc_timer
      <4>. QED
        BY <1>1, <1>2, <3>1, <4>1 DEF IRCType
    <3>2. CASE irc' = irc_reconnect(irc)
      <4>1. idle' \in {0, idle}
        BY <1>6 DEF main_timers, irc_timer
      <4>. QED
        BY <1>1, <1>2, <3>2, <4>1, ReconnectIs DEF IRCType
    <3>3. CASE irc' = irc_send(irc)
      <4>1. idle' \in {0, idle}
        BY <1>6 DEF main_timers, irc_timer
      <4>. QED
        BY <1>1, <1>2, <3>3, <4>1, SendIs DEF IRCType
    <3>. QED
      BY <1>6, <3>1, <3>2, <3>3 DEF main_timers, irc_timer
  <2>. QED
    BY <1>1, <2>1, <2>2 DEF IRCInv, IRCType, PartOnlyAtEof
<1>. QED
  BY <1>3, <1>4, <1>5, <1>6

LEMMA WorldStep ==
  ASSUME IRCInv, Tick \/ (\E ch \in {"c", "\n"} : server_sends(ch)) \/ server_leaves
  PROVE  IRCInv'
<1>1. IRCType /\ PartOnlyAtEof /\ irc \in Connection
  BY DEF IRCInv, IRCType
<1>2. NODATA_TIMEOUT \in Nat /\ RECONNECTINTERVAL \in Nat /\ MaxInput \in Nat
  BY IRCConfig DEF IRCConfig
<1>3. CASE Tick
  <2>1. irc' \in Connection /\ irc'.sock = irc.sock
    BY <1>1, <1>2, <1>3 DEF Tick, Connection, Sock
  <2>2. idle' \in 0..NODATA_TIMEOUT
    BY <1>1, <1>2, <1>3 DEF Tick, IRCType
  <2>3. ALARMED' = TRUE /\ UNCHANGED <<pc, input, IRC_RAW, errno, RESTART>>
    BY <1>3 DEF Tick
  <2>. QED
    BY <1>1, <2>1, <2>2, <2>3 DEF IRCInv, IRCType, PartOnlyAtEof
<1>4. ASSUME NEW ch \in {"c", "\n"}, server_sends(ch)
      PROVE  IRCInv'
  <2>1. /\ Len(input) < MaxInput /\ input' = Append(input, ch)
        /\ UNCHANGED <<pc, irc, idle, IRC_RAW, errno, ALARMED, RESTART>>
    BY <1>4 DEF server_sends
  <2>2. input' \in Seq({"c", "\n"}) /\ Len(input') <= MaxInput
    BY <1>1, <1>2, <2>1 DEF IRCType
  <2>. QED
    BY <1>1, <2>1, <2>2 DEF IRCInv, IRCType, PartOnlyAtEof
<1>5. CASE server_leaves
  <2>1. irc.sock \in {"up", "gone"} /\ UNCHANGED <<pc, idle, input, IRC_RAW, errno, ALARMED, RESTART>>
    BY <1>5 DEF server_leaves
  <2>2. irc' \in Connection
    BY <1>1, <1>5 DEF server_leaves, Connection, Sock
  <2>. QED
    BY <1>1, <2>1, <2>2 DEF IRCInv, IRCType, PartOnlyAtEof
<1>. QED
  BY <1>3, <1>4, <1>5

-----------------------------------------------------------------------------
(* The invariant, and what follows from it *)

LEMMA IRCInvInit == Init => IRCInv
<1>. SUFFICES ASSUME Init PROVE IRCInv
  OBVIOUS
<1>1. NODATA_TIMEOUT \in Nat /\ RECONNECTINTERVAL \in Nat /\ MaxInput \in Nat
  BY IRCConfig DEF IRCConfig
<1>2. irc \in Connection
  BY <1>1 DEF Init, Connection, Sock
<1>3. input \in Seq({"c", "\n"}) /\ Len(input) <= MaxInput
  BY <1>1 DEF Init
<1>4. ALARMED \in BOOLEAN /\ RESTART \in BOOLEAN
  BY Zenon DEF Init
<1>5. pc = "irc" /\ idle \in 0..NODATA_TIMEOUT /\ IRC_RAW = "empty" /\ errno \in Errno
  BY <1>1 DEF Init, Errno
<1>. QED
  BY <1>2, <1>3, <1>4, <1>5 DEF IRCInv, IRCType, PartOnlyAtEof

LEMMA IRCInvNext == IRCInv /\ [Next]_vars => IRCInv'
<1>. SUFFICES ASSUME IRCInv, [Next]_vars PROVE IRCInv'
  OBVIOUS
<1>1. CASE UNCHANGED vars
  BY <1>1 DEF vars, IRCInv, IRCType, PartOnlyAtEof
<1>2. CASE MainLoop
  BY <1>2, ConnectStep, ReadStep, MainStep DEF MainLoop, irc_read_error
<1>3. CASE irc_read_interrupted
  BY <1>3, ReadStep DEF irc_read_interrupted
<1>. QED
  BY <1>1, <1>2, <1>3, WorldStep DEF Next

\* Every behaviour of IRC satisfies its inductive invariant.
THEOREM IRCInvariant == Spec => []IRCInv
<1>. QED
  BY IRCInvInit, IRCInvNext, PTL DEF Spec

\* Part of a line stays in IRC_RAW, outside of irc_read, only if the connection
\* it came from has ended: no two calls of irc_read share a line of one that has
\* not.
THEOREM LinesReadWhole == Spec => []PartOnlyAtEof
<1>1. IRCInv => PartOnlyAtEof
  BY DEF IRCInv
<1>. QED
  BY IRCInvariant, <1>1, PTL

\* A connection that the server keeps up is dropped only by irc_timer after
\* NODATA_TIMEOUT, by an interrupted read or by a restart, whatever the order of
\* the main loop's calls and whatever they send.
THEOREM HealthyConnectionKept == Spec => HealthyKept
<1> DEFINE Step == irc.sock = "up" /\ irc'.sock = "none" =>
                     idle >= NODATA_TIMEOUT \/ irc_read_interrupted \/ main_exec
<1>1. ASSUME IRCInv, [Next]_vars
      PROVE  Step
  <2>1. IRCType /\ irc \in Connection
    BY <1>1 DEF IRCInv, IRCType
  <2>2. ASSUME irc.sock = "up" => irc'.sock # "none"
        PROVE  Step
    BY <2>2
  <2>3. ASSUME \/ irc_connect \/ irc_connect_closed \/ irc_connect_failed \/ irc_init_failed
               \/ irc_read_eof \/ irc_read_error
        PROVE  Step
    BY <2>3 DEF irc_connect, irc_connect_closed, irc_connect_failed, irc_init_failed,
                irc_read_eof, irc_read_error
  <2>4. ASSUME irc' = irc
        PROVE  Step
    BY <2>2, <2>4
  <2>5. ASSUME irc_cycle_idle \/ irc_cycle_read \/ irc_read_char \/ main_exit
        PROVE  Step
    BY <2>4, <2>5 DEF irc_cycle_idle, irc_cycle_read, irc_read_char, main_exit
  <2>6. ASSUME irc_read_line \/ scan_cycle
        PROVE  Step
    <3>1. Sent
      BY <2>1, <2>6, ParseIs DEF irc_read_line, scan_cycle, Sent
    <3>. QED
      BY <2>1, <2>2, <3>1, SentIs
  <2>7. CASE main_timers
    <3>1. CASE idle >= NODATA_TIMEOUT
      BY <3>1
    <3>2. CASE ~ (idle >= NODATA_TIMEOUT)
      <4>1. irc' = irc \/ irc' = irc_send(irc)
        BY <2>7, <3>2 DEF main_timers, irc_timer
      <4>. QED
        BY <2>1, <2>2, <2>4, <4>1, SendIs
    <3>. QED
      BY <3>1, <3>2
  <2>8. CASE main_exec \/ irc_read_interrupted
    BY <2>8
  <2>9. CASE Tick
    <3>1. irc'.sock = irc.sock
      BY <2>1, <2>9 DEF Tick, Connection
    <3>. QED
      BY <2>2, <3>1
  <2>10. CASE server_leaves
    <3>1. irc'.sock # "none"
      BY <2>1, <2>10 DEF server_leaves, Connection
    <3>. QED
      BY <2>2, <3>1
  <2>11. CASE \E ch \in {"c", "\n"} : server_sends(ch)
    BY <2>4, <2>11 DEF server_sends
  <2>12. CASE UNCHANGED vars
    BY <2>4, <2>12 DEF vars
  <2>. QED
    BY <1>1, <2>3, <2>5, <2>6, <2>7, <2>8, <2>9, <2>10, <2>11, <2>12 DEF Next, MainLoop
<1>2. IRCInv /\ [Next]_vars => [Step]_vars
  BY <1>1
<1>. QED
  BY IRCInvariant, <1>2, PTL DEF Spec, HealthyKept
=============================================================================
