---------------------------- MODULE MCRoutines ------------------------------
(***************************************************************************)
(* The parts of bopm that run to their end before anything else happens:   *)
(* the lists, and the functions that match masks, make up a KLINE, read a  *)
(* blacklist's answer and split a line.  A behaviour is one of one of      *)
(* them; the variables of the others stay as they are.                     *)
(***************************************************************************)
EXTENDS Integers, Sequences

CONSTANTS Node, NULL, Freed
CONSTANTS MaskChars, NameChars, Upper, Lower, MATCH_MAX_CALLS, MaxMask, MaxName
CONSTANTS Keys, Literals, MSGLENMAX, DataSizes, MaxTokens, Trailing
CONSTANTS W, CharSigned, TEXTMAX, Numbers, NameLengths, MaxReplies
CONSTANTS Chars, PARVMAX, MaxLine

VARIABLES routine,
  head, tail, elements, next, prev, at, after,
  mask, name, m, n, ma, na, wild, calls, ret,
  tokens, size, message, kpos, len, kpc, wire,
  type, ban_unknown, reply, octet, i, text_type, dpc,
  line, IRC_RAW, ppos, parc, parv, ppc

L == INSTANCE List WITH pos <- at, n <- after
M == INSTANCE Match
K == INSTANCE Kline WITH pos <- kpos, pc <- kpc
D == INSTANCE DnsblReply WITH pc <- dpc
P == INSTANCE IrcParse WITH pos <- ppos, pc <- ppc

ASSUME RoutinesConfig ==
  /\ L!ListConfig /\ M!MatchConfig /\ K!KlineConfig
  /\ D!DnsblConfig /\ P!ParseConfig

listVars  == <<head, tail, elements, next, prev, at, after>>
matchVars == <<mask, name, m, n, ma, na, wild, calls, ret>>
klineVars == <<tokens, size, message, kpos, len, kpc, wire>>
replyVars == <<type, ban_unknown, reply, octet, i, text_type, dpc>>
parseVars == <<line, IRC_RAW, ppos, parc, parv, ppc>>
vars == <<routine, listVars, matchVars, klineVars, replyVars, parseVars>>

-----------------------------------------------------------------------------
\* Values for the variables of a routine that does not run.
NoList ==
  /\ head = NULL /\ tail = NULL /\ elements = 0 /\ at = NULL /\ after = NULL
  /\ next = [x \in Node |-> Freed] /\ prev = [x \in Node |-> Freed]

NoMatch ==
  /\ mask = <<>> /\ name = <<>> /\ wild = FALSE
  /\ m = 1 /\ n = 1 /\ ma = 1 /\ na = 1 /\ calls = 1 /\ ret = 1

NoKline ==
  /\ tokens = <<>> /\ size = [k \in Keys |-> 0] /\ wire = <<>>
  /\ message = <<>> /\ kpos = 0 /\ len = 0 /\ kpc = "none"

NoReply ==
  /\ type = "A_REPLY" /\ ban_unknown = FALSE /\ reply = <<>> /\ octet = 0
  /\ i = 1 /\ text_type = <<>> /\ dpc = "none"

NoLine ==
  /\ line = <<":">> /\ IRC_RAW = line /\ ppos = 1 /\ parc = 1
  /\ parv = <<>> /\ ppc = "none"

Init ==
  \/ routine = "list"  /\ L!Init /\ NoMatch /\ NoKline /\ NoReply /\ NoLine
  \/ routine = "match" /\ NoList /\ M!Init /\ NoKline /\ NoReply /\ NoLine
  \/ routine = "kline" /\ NoList /\ NoMatch /\ K!Init /\ NoReply /\ NoLine
  \/ routine = "reply" /\ NoList /\ NoMatch /\ NoKline /\ D!Init /\ NoLine
  \/ routine = "parse" /\ NoList /\ NoMatch /\ NoKline /\ NoReply /\ P!Init

ListNext ==
  routine = "list" /\ L!Next /\ UNCHANGED <<routine, matchVars, klineVars, replyVars, parseVars>>
MatchNext ==
  routine = "match" /\ M!Next /\ UNCHANGED <<routine, listVars, klineVars, replyVars, parseVars>>
KlineNext ==
  routine = "kline" /\ K!Next /\ UNCHANGED <<routine, listVars, matchVars, replyVars, parseVars>>
ReplyNext ==
  routine = "reply" /\ D!Next /\ UNCHANGED <<routine, listVars, matchVars, klineVars, parseVars>>
ParseNext ==
  routine = "parse" /\ P!Next /\ UNCHANGED <<routine, listVars, matchVars, klineVars, replyVars>>

Next == ListNext \/ MatchNext \/ KlineNext \/ ReplyNext \/ ParseNext

\* scan_irckline runs.
Spec == Init /\ [][Next]_vars /\ WF_vars(KlineNext)

-----------------------------------------------------------------------------
(* The properties of the routines *)

\* The pointers of list_t and match are what they are declared to be, and the
\* pointers of match stay within its strings (match.c).
TypeOK == L!TypeOK /\ M!TypeOK

\* The nodes linked by list_add and list_remove can be walked either way, are
\* those allocated, and are elements many (list.c).
WellLinked == L!WellLinked

\* Lists of pointers implement sequences, removals during LIST_FOREACH_SAFE
\* included (list.c, list.h).
ListImplements == L!ListImplements

\* match decides whether a name matches a mask; given up on are only long ones,
\* and without claiming a match (match.c).
MatchIsGlob == M!MatchIsGlob

\* scan_irckline does not overrun its buffer, and terminates it unless it ends
\* for want of room after a "%%" (scan.c).
InBuffer == K!InBuffer

\* The line on the wire is what the KLINE format says, and if it is too long
\* holds no part of an address or host (scan.c, irc.c).
KlineIsExpansion == K!KlineIsExpansion

\* scan_irckline ends (scan.c).
KlineEnds == K!KlineEnds

\* The answer of a blacklist is taken for what the configuration says, and the
\* names put together do not overrun their buffer (dnsbl.c).
Decoded == D!Decoded

\* Handlers get the strings the server's line is made of (irc.c).
ParamsAsSaid == P!ParamsAsSaid
=============================================================================
