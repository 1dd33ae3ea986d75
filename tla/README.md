# BOPM: a verification project

BOPM, the Blitzed Open Proxy Monitor, connects to an IRC server as an operator,
reads the server's notices of client connections, looks every client up in DNS
blacklists, has libopm scan it for open proxies, and asks the server to ban
(KLINE) those that are listed or open. It is one process with one thread: a main
loop that never waits on more than one thing, callbacks from two libraries, and
signal handlers that set flags. This directory holds TLA+ models of that
machinery, TLC configurations that check them on small instances, and TLAPS
proofs, for instances of any size, of most of their safety properties and of the
refinements between them.

Paths below are relative to the repository (`src/` in PROJECT.json); `scan.c`
means `src/scan.c` of the repository.

## 1. Inventory

| Component | State | Operations | Interacts with |
|---|---|---|---|
| scan (`scan.c`) | `scan_struct`s (reference count `scans`, `positive`, `manual_target`), `SCANNERS`, `MASKS` | `scan_connect`, `scan_manual`, callbacks `scan_open_proxy`, `scan_negotiation_failed`, `scan_timeout`, `scan_handle_error`, `scan_end`, `scan_checkfinished`, `scan_positive`, `scan_negative`, `scan_timer` | called by irc and opercmd; calls dnsbl, libopm, negcache, irc |
| dnsbl (`dnsbl.c`) | one `dnsbl_scan` per lookup, pointing to its `scan_struct` | `dnsbl_add`, `dnsbl_result`, `dnsbl_positive`, `dnsbl_cycle` | called by scan; calls firedns and is called back by it |
| firedns (`firedns.c`) | list `CONNECTIONS`, sockets, `fdns_fdinuse` | `firedns_getip`, `firedns_cycle`, `firedns_getresult`, `firedns_resolveip` | serves dnsbl (asynchronously) and irc, scan (blocking) over one list and one limit |
| negcache (`negcache.c`) | a patricia trie of addresses and times | `check_neg_cache`, `negcache_insert`, `negcache_rebuild` | called by scan |
| opercmd (`opercmd.c`) | queue `COMMANDS`, `interval` | `command_parse`, `command_userhost`, `command_timer` | called by irc and main; calls scan_manual and stats |
| irc (`irc.c`) | `IRC_FD`, `IRC_RAW`, `IRC_LAST`, `IRC_LASTRECONNECT` | `irc_cycle`, `irc_init`, `irc_connect`, `irc_read`, `irc_parse` and the `m_*` handlers, `irc_send`, `irc_reconnect`, `irc_timer` | called by main; everything sends through it |
| main (`main.c`) | flags `RESTART`, `ALARMED`, `REOPEN`, the alarm | start, main loop, `do_signal`, restart by `execve` | calls all the cycles and timers |
| list (`list.c`) | doubly linked lists | `list_add`, `list_remove`, `LIST_FOREACH_SAFE` | used by all of the above |
| match (`match.c`) | none | `match`: does a name match a mask | used by scan for scanners' masks and exemptions |
| configuration (`config.c`, parser, lexer) | item structs | `config_load` | read by all |
| stats, log, misc, malloc, compat, inet, snprintf, dlclist | counters, files | output and replacements of libc | used by all |

What is hard in this code:

* **Shared ownership.** A `scan_struct` is referred to by every lookup and every
  scan made for it; the last callback frees it. Lookups and scans can fail to
  start, be queued, be cut short by a positive, time out, and report in any order.
* **One resolver, two kinds of callers, one limit.** Asynchronous lookups and
  blocking resolutions share a list and `dns_fdlimit` sockets; nodes leave the
  list while it is being walked; replies may belong to earlier queries.
* **Failures noticed by whoever meets them.** A broken IRC connection is seen by
  a read, by any of many sends or by a timer, and reconnecting is rate limited.
* **Blocking calls in an event loop.** `irc_read` and `firedns_resolveip` hold up
  everything else, the watchdog included.
* **Signals** at any point between a test, the work and the clearing of a flag,
  and across `execve`.
* **Pointer structures with implicit invariants**: the trie, in which leaves are
  links that go up, and the lists, whose nodes are freed by the loops over them.
* **Fixed buffers and fixed limits** in `scan_irckline`, `irc_send`,
  `dnsbl_positive`, `irc_parse` and `match`, each cut, tested or given up at a
  place of its own.

Properties that make each component correct, in short: scan, dnsbl: the count is
exact, nothing dangles, nothing leaks but the struct of a CHECK whose host does not
resolve, one KLINE, every scan whose lookups were sent ends; firedns: the
socket budget, one answer per lookup, every query ends; negcache: it answers as
the set of recently seen addresses; opercmd: a bounded queue in order of time
that drains; irc: a healthy connection is kept, a dead one dropped; main: timers
and reopening happen; list: it is a sequence, walks included; match: it decides
what a glob means; the routines on text: they compute what the configuration or
the protocol says, within their buffers, and end. `PROJECT.json` lists the hazards with their lines.

## 2. Modules

| Module | Models | Kind |
|---|---|---|
| `Scan` | `scan.c`, `dnsbl.c`: the life of a `scan_struct` | component |
| `ScanProofs` | | theorems about `Scan` |
| `MCScan` | | instances of `Scan` |
| `Resolver` | what `dnsbl.c` expects of the resolver | abstract specification |
| `FireDNS` | `firedns.c`; implements `Resolver` | component |
| `FireDNSProofs` | | theorems about `FireDNS` |
| `ScanDNS` | `Scan` and `FireDNS` as `dnsbl.c` and `scan_manual` connect them | composition |
| `ScanDNSProofs` | | theorems about `ScanDNS` |
| `MCScanDNS` | | instance of `ScanDNS` |
| `NegCache` | `negcache.c` | component |
| `NegCacheProofs` | | theorems about `NegCache` |
| `OperCmd` | `opercmd.c`, `m_userhost` | component |
| `OperCmdProofs` | | theorems about `OperCmd` |
| `IRC` | `irc.c` under the loop of `main.c` | component |
| `IRCProofs` | | theorems about `IRC` |
| `Main` | `main.c`, `scan_timer`, the opening of the logs | component |
| `ListSpec` | what callers take a list for | abstract specification |
| `List` | `list.c`, `LIST_FOREACH_SAFE`; implements `ListSpec` | component |
| `ListProofs` | | theorems about `List` |
| `Match` | `match` | routine |
| `Kline` | `scan_irckline`, `irc_send` | routine |
| `DnsblReply` | `dnsbl_positive` | routine |
| `IrcParse` | the loop of `irc_parse` | routine |
| `MCRoutines` | | `List` and the last four, one at a time |
| `RoutinesProofs` | | theorems about `MCRoutines` |

Definitions have the names of the functions they model; a suffix tells apart the
outcomes of one function (`irc_read_line`, `irc_read_eof`). Each module also
holds definitions marked *Fault*: a definition of the model with a plausible
programming error in it. No specification uses them. Substituting one for the
definition it is derived from makes a property fail, which shows that the
property is sensitive to that error.

**Scan.** One action is one handler or callback run to completion, as bopm has
one thread. `ss` maps the addresses malloc can return to the fields of the
`scan_struct` there, so that reuse of an address after `scan_free` is part of the
model; `scans` is an unsigned short and wraps modulo 2^16. `lookups`, `opm` and
`conns` are the callbacks that firedns and libopm still owe. `scan_connect` and
`scan_manual` choose which lookups and scans could be started; whether a mask or
an exemption matches is a choice. `scan_checkfinished` is part of each action
whose function calls it. libopm is a submodule not included in the repository;
it appears through the calls made to it and the callbacks it makes: one report
for each connection, then `scan_end`, earlier if `opm_end` was called, after
which late reports are still possible. `klines` is history.

**FireDNS.** A step is one iteration of one of the two loops of `firedns_cycle`,
or one part of a try of `firedns_resolveip`, so that the clock and the network
move between them. A connection is identified with the `info` it carries
(`Query`) or is one of the connections without (`Anon`). `todo` is what
`LIST_FOREACH_SAFE` has still to visit, `late` the result of comparing with
`timenow`, taken once per cycle. A datagram on a socket is the reply or not
(another ID). Packets are not built or parsed.

**Resolver** is the promise `Scan` relies on: a lookup accepted gets one result,
none is given otherwise. `FireDNS` implements it (`Implements`,
`INSTANCE Resolver WITH result <- result`): lists, sockets, clock and loops are
hidden.

**ScanDNS** instantiates `Scan` and `FireDNS` over a common state and replaces
what each assumes of the other. A `Query` is a pair of a `scan_struct` and a
blacklist, as `struct dnsbl_scan` is. `start` is `scan_connect` or `scan_manual`
up to `dnsbl_add`, `hand_over` one turn of `dnsbl_add`'s loop (a query is sent, or
queued at the limit; `adding` is what is left), and `timeout` and `reply` are the
two places in `firedns_cycle` that call `dnsbl_result`, which runs to its end, with
`scan_checkfinished` and `scan_free`, in the middle of the walk. `check_resolved`
and `check_unresolved` are a CHECK whose blocking resolution ends. `ScanDNSConfig`
puts together what the two parts assume of their constants.

**NegCache.** A heap of cnodes with the fields of the struct, `Descend` for the
descents of `nc_search` and `nc_insert`, `Visit` for the order in which
`nc_rebuild` reaches and frees nodes. A word is the set of its bits that are 1, out
of `maxb`. Descents and recursion end because a link leads down only to a lower bit;
they are written as functions of the number of steps, of which a word's width is
enough. `Differing` is what the loop over `i` looks for, `Attach` the linking of the
new node. `GETBIT(x, maxb)`
is a shift by the width of the word, undefined in C: the constant `ShiftWraps`
selects what the machine makes of it.

**OperCmd.** The queue holds nick and age. `wire` is the USERHOSTs the server has
not answered; it answers in order, or the connection is lost. An answer takes all
the commands of its nick out of the queue: what is left is kept by position, in
order (`InOrder`). `lag` lets a round
of the main loop take several seconds. What a command does is not modelled here:
CHECK is `scan_manual` of `Scan`.

**IRC.** `pc` is where the main loop is. The state of the socket is what the
kernel knows of it: a server that is `gone` looks like one that is `up`; a send
on a connection the server has closed succeeds once. The socket is blocking:
`pc = "read"` lasts until a line is complete or the connection breaks. `errno`
keeps what the last failing call left, since `irc_read` tests it after a `read`
that returned 0. A line is abstracted to what its handler does to the connection:
how many messages it sends (two stand for more), or that it is a KILL.

**Main.** The loop is cut at every test and every clearing of a flag; signals
arrive in between. `execve` resets handlers and globals, and keeps the alarm: if
it goes off before the new process has forked, the process is gone
(`SIGALRM_default`).

**List.** `next` and `prev` are the fields of the nodes at the addresses `malloc`
can return; `node_free` makes them `Freed`, so that reading a freed node is
visible. `walk_keep`, `walk_remove` and `walk_break` are what the loop bodies of
bopm do under `LIST_FOREACH_SAFE`, with `pos` and `n` as the macro moves them. The
refinement mapping reads the sequence off the pointers: `list <- Chain(head, next)`
and `todo <- <<pos>> \o Chain(n, next)`. This is what entitles `FireDNS` and `OperCmd` to
use sequences.

**Match.** A step is a round of the loop of `match`. `m1`, `ma1`, `na1` and `wild1`
are the pointers after the round has skipped '*'s; position `Len + 1` of a string is
its NUL. `Glob` is the reference: what a mask means, character by character.

**Kline.** A step is a round of the loop of `scan_irckline`. The buffer is a
function of its bytes, filled at first with junk up to any first NUL, because
`message` is not initialised; `strcat` writes where it finds a NUL, `len` counts
separately, and running out of the buffer ends in `pc = "undefined"`. Bytes are
known by where they come from, so that `Expansion`, the meaning of a format, can
be compared with what is on the wire (bytes of one key are not told apart, only keys). A send that fails ends in `pc = "lost"`.

**DnsblReply.** A step is a round of the loop over the configured replies.
`number` is the conversion of the `char` of the configuration to the `int` of the
comparison, with or without sign (`CharSigned`). A limit of `strncat` below zero is
a very large `size_t`.

**IrcParse.** The line is cut in place (`IRC_RAW`), `parv` holds indices into it or
`STALE` pointers of an earlier line. `Said` is the reference: the words of the line
and its final string. The handlers' part of `irc_parse` is in `IRC`.

## 3. Runs

| Run | Instance | Result |
|---|---|---|
| `scan` | 2 addresses, 2 blacklists, 2 scanners with 2 protocols and 1 | all properties hold (50 156 states) |
| `dns` | 2 lookups, 2 connections without info, 2 sockets, 2 tries | all properties hold (47 024 states) |
| `dns_queue` | 2 lookups, 1 socket | `AcceptedIsAnswered` violated |
| `scandns` | 1 address, 2 blacklists, 1 scanner, 1 connection without info, 2 sockets | all properties hold (44 774 states) |
| `negcache` | 3-bit words, 5 addresses, clock to 6 | all properties hold (121 774 states) |
| `negcache_shift` | the same with `ShiftWraps` | `SeenIsCached` violated |
| `opercmd` | 2 nicks, 3 places, rounds of up to 2 seconds | all properties hold (48 760 states) |
| `irc` | timeouts 4 and 2, 2 characters of input | all properties hold (10 594 states) |
| `irc_nodata` | the same | `NoDataTimesOut` violated |
| `main` | rebuild every 4th call | all properties hold (215 states) |
| `routines` | see below | all properties hold (329 832 states) |
| `dnsbl_reply` | chars of 3 bits with a sign | `ListedIsKnown` violated |

**scan.** `ScansCounted`, `NoDangling` and `LeakedIffIdle` together say that
`scan_free` runs exactly once, exactly when the last of the lookups and scans of
a `scan_struct` is done, with one exception: `scan_manual` returns without freeing
the struct of a CHECK whose host does not resolve (`scan.c:1025-1033`). Those structs
are in `leaked`, and `LeakedIffIdle` says that they, and no others, stay allocated
with no callback left to free them. `KlineOnce`: one KLINE however many tests are
positive, none for an operator's CHECK. `PositiveEndsScans`: after a positive,
whichever test reported it, every scan of the client that is still running has been
told to end, those of the other scanners too. `CachedIffClean`: the last
callback caches an address exactly if no KLINE was sent for it. That scans end is
`SentScanFinishes` of `scandns`: it depends on the resolver. Two
addresses let one scan be set up, end and have its address reused while another
is running; two blacklists and two scanners give two positives of each kind in
each order. The theorems cover larger instances.

**dns.** `FdBudget`: `fdns_fdinuse` is the number of open sockets and within the
limit, on every path out of `firedns.c`. `PendingIffListed`: a lookup waits for a
result exactly while it is listed, once. `AllPolled`: although the first loop
ends when the array of pollfds is full, no open socket is left out. `LoopSafe`:
removing nodes does not leave a loop with a dangling next node.
`Implements`: one result per lookup. `SentIsFinished`: a query with a socket
always ends. With as many connections without info as sockets, a resolution that
gave up can hold all the sockets, and both lookups are queued.

**scandns.** `ResultHasOwner`: the results that the resolver owes are those that
scans wait for, and the `scan_struct` of each is allocated and counts it, at every
point of a walk; so `dnsbl_result` is never called with a pointer to a freed
`scan_struct`. `SentScanFinishes`: a scan ends by what resolver and libopm do,
with nothing assumed of name servers, once its lookups all have sockets. That
condition is what `dns_queue` shows to be needed. Two sockets for two lookups and
a blocking resolution, which can leave a socket behind, make a lookup be queued.

**negcache.** `SeenIsCached` and `CachedWasSeen` compare the trie with the times
of insertion, `NodePerAddress` and `RebuildSafe` are about its memory: one node
per address, all found and each freed once by a rebuild, none read after it was
freed. Five of the seven addresses of a 3-bit word give tries of every shape up
to depth three; the clock outlasts the validity of an entry three times. The
rebuild keeps entries younger than `negcache` and the lookup accepts those not
older, so at exactly `negcache` seconds both answers are possible, and
`SeenIsCached` and `CachedWasSeen` are stated on either side of it.

**opercmd.** `QueueInOrder` is what allows `command_timer` to stop early.
`AgeBounded` is the longest time a command can stay, which has
`COMMANDINTERVAL + 1` in it because of the post-increment, times the time a round
may take. `AwaitingAnswer`: what is in the queue is waiting for an answer still to
come, or was abandoned. `QueueDrains`: a full queue becomes usable again even if
the server never answers.

**irc.** `HealthyKept` is a step property: a connection that is up is dropped only
after the timeout, by a read that a signal interrupted, or for a restart.
`PartOnlyAtEof`: the buffer holds a part of a line between reads only after an
end of file. `DeadIsDropped` and `SilenceNoticed`: a connection that broke is
given up in spite of `irc_read` taking its end for EAGAIN and of `irc_reconnect`
refusing to act; one that is silently lost between two lines is noticed.

**main.** All three properties have the hypothesis `CyclesReturn`: `irc_cycle` comes
back whenever it is called. The code does not guarantee it, as `irc_nodata` shows, and
when it does not hold no timer runs. Under it, `TimersRun`: the timers are called for
ever, although an alarm that comes before `ALARMED` is cleared is lost.
`CacheRebuilt`: so the negative cache is rebuilt for ever. `LogsReopened`: a SIGUSR1
has its effect, unless it comes in the window described in the comment of the
property, or the log cannot be opened, when bopm exits (`log_open`). SIGUSR1 is
installed without SA_RESTART, so it also breaks a read that is blocked; one that begins
just after the signal is not broken, hence the hypothesis here too.

**routines.** These run to their end before anything else happens in bopm, so a
behaviour of `MCRoutines` is a behaviour of one of them, on any input within the
bounds. `ListImplements` and `WellLinked`: a list is the sequence of its nodes, a
walk visits what was there when it began, removals included, and the list can be
read both ways. `MatchIsGlob`: unless it gives up, `match` says what the mask
means; it gives up only on a mask and name whose lengths exceed a bound, `Rounds`,
and then claims no match. `InBuffer`: no KLINE format that begins with a
literal character, and has one after each `%%`, overruns the buffer, whatever the
stack held and however long the data, and `strcat` and `irc_send` find its end, with
one exception: if the room runs out right after a `%%`, the literal that would have
terminated the message is not copied, and `irc_send` reads what the stack holds there
(`CutAtEscape`). It takes a literal, a key, a `%%` and a literal to get there, hence
formats of four tokens. Other formats may do worse, which the comments of `Supported`
and `Terminated` make precise. `KlineIsExpansion`: what
is sent is what the format says, on a line of its own; if that is too long it is
cut, but no part of an address or host is sent in place of the whole.
`KlineEnds`: the loop ends for every format without a single `%` at its end (with
one it does not: `kline_last_percent`). `Decoded`: the answer is taken for what the
configuration says, and the text of a bitmask answer is not overrun unless the names before the
last one already fill it, when the limit of `strncat` wraps. `ParamsAsSaid`: a handler gets what the server said, for messages of the
protocol with at most 17 strings; beyond them `parc <= 17` allows a store outside of
`parv`, which ends in `pc = "undefined"`.

**What the violations show.**

* `dns_queue`: lookups queued at `dns_fdlimit` are sent only in a cycle in which
  `poll` reports a reply. If what is in flight times out, they stay queued until
  some other lookup is answered.
* `negcache_shift`: on a machine that takes shift distances modulo the word size
  (x86), `nc_insert` compares bit 0 first. An address with this bit set is linked
  to the right of the head, where `nc_search` does not look, and is scanned again
  at each connection.
* `irc_nodata`: if the server is lost in the middle of a line, bopm stays in
  `read`; `irc_timer`, which should notice, is not reached.
* `dnsbl_reply`: `bopm.conf.sample:292` says that a reply matches "where the last
  octet of the IP is that number". The number is kept in a `char`; where that has a
  sign, 255, which the sample lists, becomes -1 and matches no octet, and a listed
  answer is treated as an unknown one.

Six more behaviours appear in the models without a property of their own, since
nothing in the repository promises otherwise: a long KLINE can be sent without an end
if it is cut after a `%%` (`CutAtEscape` in `Kline`), a host whose tests timed out or could
not be made is cached as clean (`scan_checkfinished` in `Scan`), a part of a line of
a closed connection can precede the first line of the next (`irc_read_eof` in `IRC`),
an alarm between `execve` and `fork` ends bopm (`SIGALRM_default` in `Main`),
the `scan_struct` of a CHECK whose host does not resolve is never freed
(`scan_manual_unresolved` in `Scan`), and `irc_parse` makes an empty parameter of each
excess space: the test at `irc.c:586-591`, commented "Avoid excessive spaces", wants one
character to be both a space and a NUL and is never true (`parse_word` in `IrcParse`).

Three properties leave out the inputs on which the code is known to go wrong, and so
do not catch it: `KlineEnds` the single `%` at the end of a format, `Decoded` the names
that wrap the limit of `strncat` (`Fits`), `ParamsAsSaid` the lines with more than 17
strings (`Conforming`). The models do take these inputs, and end where the code does.

### Bounds

Every bound is a constant: `MaxLeaked` (`scan_struct`s that leak, so
that addresses are left),
`MaxNow`, `MaxNodes` (clock and nodes of the trie; a rebuild frees nodes, so the
clock is what ends a behaviour), `MaxLag`, `MaxWire`, `MaxInput` (lines are shorter
than `MSGLENMAX`). Ages and times
since an event are kept up to the value at which they no longer make a difference
(`MaxAge`, `NODATA_TIMEOUT`, `RECONNECTINTERVAL`), which loses nothing.

In `routines` the inputs are bounded (`MaxMask`, `MaxName`, `MaxTokens`, `DataSizes`,
`Numbers`, `NameLengths`, `MaxReplies`, `MaxLine`, the number of nodes), and the
program's limits are scaled down with them so that inputs go beyond them:
`MATCH_MAX_CALLS` 9, with masks and names of 4 characters that need up to 13 rounds;
`MSGLENMAX` 7, with 4 tokens that expand to up to 12 bytes; `TEXTMAX` 8, with names of 6 and
3 replies; `PARVMAX` 4, with lines of up to 8 characters and thus more than 4 words;
chars of 3 bits. Four nodes give a list with two nodes in the middle, and an address
to reuse. The properties that speak of a limit are stated with the constant, so what
is checked is the arithmetic around it and not its value.

### Deadlock and fairness

Deadlock is checked for `Scan`, `FireDNS`, `ScanDNS`, `NegCache` and `OperCmd`. bopm
may exit in `IRC` and `Main`, and routines end.

* `FireDNS`: a function that was entered goes on; the main loop calls
  `firedns_cycle` again and again (strong fairness, as blocking resolutions come
  in between), as long as `irc_cycle` comes back (see `Main`); time passes. Nothing is
  assumed of the network.
* `ScanDNS`: the fairness of `FireDNS`, and libopm, which is not in the repository,
  goes on calling back for a scan until it has ended (it times its connections out).
  That lookups with a socket are answered follows here. `Scan` by itself has safety
  properties only, and no fairness.
* `Kline`: the function runs.
* `OperCmd`: time passes and the main loop calls the timer, as long as `irc_cycle`
  comes back. Nothing is assumed of the server.
* `IRC`: the main loop takes steps, time passes. Nothing is assumed of `select`,
  of the server or of TCP.
* `Main`: the process takes steps outside of `irc_cycle` and `scan_cycle`, and the
  alarm goes off when set. That the cycles come back is not assumed in the
  specification: it is the hypothesis `CyclesReturn` of the properties.

## 4. Proofs

What is proved holds for every value of the constants that the assumption of the
module allows; none of the bounds of section 3 is among the assumptions, except as a
constant of any value. The properties proved are those that the runs check.

**Scans.** `ScanProofs`, for all sets of addresses, clients, blacklists, scanners and
protocols with blacklists and scanners finite and fewer than 2^16 together
(`ScanConfig`, `ScansFit`):

* `ScanInvariant`: `ScanInv`, the conjunction of `TypeOK`, `ScansCounted`,
  `NoDangling`, `LeakedIffIdle`, `KlineOnce` and `PositiveEndsScans`, is an
  invariant. The parts need one another: the count stays exact when an address is
  reused because nothing dangles, and nothing dangles because the count is exact
  when the last callback brings it to zero; the struct a callback
  finishes is not a leaked one because nothing is outstanding for those (`LeakedIffIdle`). `OutstandingFinite` bounds what is
  outstanding and thereby shows that the decrement never wraps; `FinishStep` is
  the argument about `scan_checkfinished` shared by the completion handlers.
* `TypeCorrect`, `ReferenceCounting`, `NoUseAfterFree`, `OnlyUnresolvedLeak`,
  `PositiveHandling` and `PositiveScansEnded` follow from it, and `NegativeCaching` proves the action property
  `CachedIffClean` from it.

**Resolver.** `FireDNSProofs`, for finite sets of queries and connections and any
limit, timeout and number of tries (`FireDNSConfig`):

* `FireDNSInvariant`: `TypeOK`, `FdBudget`, `PendingIffListed`, `LoopSafe` and
  `LoopInv`. `LoopInv` is the strengthening: in the first loop the open sockets
  are those in `ufds` and those still to visit, and nothing is to be visited
  twice. With the budget this gives that a full array already holds every
  socket.
* `SocketsBounded`, `NoLookupLost`, `ListSafe` and `PolledAll` follow;
  `ResolverImplemented` proves the refinement of `Resolver`, step by step.
* `ListAdd` and the lemmas next to it are what `list_add` and `list_remove` do to
  a list without repetitions.

**Scans on the resolver.** `ScanDNSProofs` (`ScanDNSConfig`):

* `ScansAsSpecified` and `ResolverAsSpecified`: `ScanDNS` implements both `Scan` and
  `FireDNS`. Each of its steps is a step of one, of both or of neither, so what the
  theorems above say holds of the composition, where nothing is assumed of the other
  part any more.
* `ResultsOwned`: `ResultHasOwner` from the two invariants and `Owed`, which relates
  the parts: what scans wait for is what the resolver has pending and what `dnsbl_add`
  has not handed over yet.

**Operator commands.** `OperCmdProofs` (`OperCmdConfig`): `OperCmdInvariant`, and from
it `QueueBounded`, `OrderedByTime`, `CommandsExpire` and `AnsweredOrOrphan`.
`AgeBounded` is not inductive; `AgeSinceSweep` is what holds between two sweeps: an
age is within the timeout and what the calls of `command_timer` since the last
sweep can have added. That a sweep reestablishes it needs the order of the queue, as
it stops at the first command that is not too old.

**Connection.** `IRCProofs` (`IRCConfig`): `IRCInvariant` is the types and
`PartOnlyAtEof`, which is inductive with them. `LinesReadWhole` states it,
`HealthyConnectionKept` the action property `HealthyKept`, with one lemma for what a
handler's messages can do to the connection.

**Lists.** `ListProofs`, for any finite set of addresses (`ListConfig`):

* `ListInvariant`: there is a sequence without repetition that `head`, `tail`,
  `elements`, `next` and `prev` represent (`Linked`), and a walk is at a node of
  it or over. The invariant speaks of *some* sequence so that no step has to follow
  pointers; `ChainIs`, by induction, says that it is the one that `Chain` finds.
* `ListWellLinked`, `PointersTyped`, and `ListRefines`: the refinement of `ListSpec`.
  Removing a node from the pointers is removing it from the sequence (`Unlink`,
  `RemoveStep`), and what a walk has still to visit is the rest of the sequence before
  and after.

**Routines.** `RoutinesProofs` (`RoutinesConfig`):

* `ListsReadable` and `ListsAreSequences` carry the theorems about `List` over to
  `MCRoutines`, where TLC checks them.
* `RoutinesTyped`: with the lists' pointers, those of `match` stay within its strings
  whatever their lengths. The type is not inductive: a round can move on twice in the
  name. `InStep` says why that is safe: mask and name have been compared as far as
  each other since the last `*`, so the retry is never beyond the place reached.
* `KlineStaysInBuffer`: `InBuffer` for formats, data and buffers of any length.
  `KlineInv` knows which token the loop is at (`Round`) through the offsets of the
  tokens in the format (`FlattenLayout`, by induction over its prefixes), that the
  bytes written hold no NUL, and that a NUL follows them wherever the format says
  that the message is terminated. So `strcat` appends at `len`, where `Fits` has
  counted. This attempt is what brought up `CutAtEscape`: the invariant fails where
  the loop ends between a `%%` and the literal after it.
* `MatchDecides`: `MatchIsGlob` for masks and names of any length. What a mask means
  is first put as an alignment: a function from the positions of the mask to those of
  the name (`Align`, `GlobIsAlignment`). `Progress` says that the mask before the
  pointers aligns with the name before them, and that no alignment of the whole of
  both begins the part since the last `*` earlier in the name than `match` now does; so
  a return with "no match" leaves no alignment (`Refuted`), and a match reported is
  one. `Spent` counts the rounds a retry has used, which gives the bound `Rounds` when
  `match` gives up.
* `KlineAsWritten`: `KlineIsExpansion`, from the same invariant as the buffer:
  `Copied(j)`, that what has been written is what the tokens before the `j`-th mean,
  or the whole does not fit, and that either way no data in it is cut (`Whole`); and
  `TosendIs` for what `irc_send` puts on the wire.
* `AnswersDecoded`: `Decoded`. `ReplyInv` follows the text as it grows: as long as an
  entry meant is still to come it is the list of those before, whole (`Gathered`);
  after the last it is that list as far as it fits, and `ClosedIs` says what taking
  the comma off leaves. `NumberRead` is the conversion from `char`, for any width.
* `ParamsHold`: `ParamsAsSaid`. The ends of the words are a set of positions, and
  `Nth` its elements in order; `ParseInv` says that before a round the line is cut at
  the first `r` ends and `parv` points behind each. `WordFound` shows that the next
  space is the next end, and followed by a colon only at the last; `SaidIs` and
  `StringAt` compare the two sides, position by position.

**Negative cache.** `NegCacheProofs` (`NegCacheConfig`), for words of any width, any
addresses and any lifetime of an entry, all under the hypothesis that the full-width
shift gives 0 (`~ ShiftWraps`), without which `negcache_shift` shows `SeenIsCached` to
be false:

* `TrieAlways`: `NegCacheInv`. `Trie` says of each link where it leads by the keys
  alone: take the nodes whose keys agree with that of a node above the bit it tests,
  and have the same bit there; if the link leads up, it leads to the only one of them,
  and if it leads down, they are those that agree in this way with the node it leads
  to. No path is followed to say this. `DescendInduction` then gives what `nc_search` finds (`FoundIs`) and where
  `nc_insert` stops (`PlaceIs`); `GrownIsTrie` is the one change of a link per
  insertion; `VisitIs`, by induction over the bits, that the recursion of `nc_rebuild`
  lists each node below a node once; `RebuildIs` that the new trie holds what is
  young enough.
* `SeenIsCachedHolds`, `CachedWasSeenHolds`, `NodePerAddressHolds` and
  `RebuildSafeHolds` follow.

Each of the proof modules that need it derives, from the library's theorems about
well-founded relations, that every set of numbers has a least element (`LeastNat`) and
induction over numbers for a *set* (`SetInduction`), which the provers can apply,
unlike the library's induction for an operator.

What is assumed of the constants is in the module that declares them and evaluated
by TLC in the runs. Two of the assumptions are arithmetic or lexical: the powers of 2
up to the width of a `char` are positive numbers (`DnsblConfig`; the prover knows
nothing of exponentiation), and the other characters of a line are none of space,
colon and NUL (`ParseConfig`).

Every invariant and safety property of a step that a run checks is proved. Only
model-checked: the liveness properties (fairness and ENABLED are outside this prover),
among them those of `Main`, which are all it has.

## 5. Not modelled

* The configuration (parser, lexer, assignments to structs): runs once, before
  the main loop; its values are the CONSTANTS.
* The text of messages other than a KLINE, what is written to the logs (`Main` has
  their reopening) and the report e-mails; `stats.c`,
  whose counters nothing reads but the printing of them; `misc.c`, `malloc.c`,
  `compat.c`, `inet.c`, `snprintf.c`: conversions and wrappers without state;
  `dlclist.c` and `collapse`, which nothing uses.
* Lines longer than the buffer they are read into: `irc_read` stores at
  `IRC_RAW[IRC_RAW_LEN++]` (`irc.c:516`) without comparing with `MSGLENMAX`, and relies
  on the server to keep to the limit of the protocol. A send that blocks because the
  socket's buffer is full.
* The layout of DNS packets and `firedns.conf`; the regular expression that takes a
  connection notice apart; `userinfo_create`.
* libopm, which is not in the repository, beyond its callbacks; `contrib` and
  `network-bopm`, which are separate programs.
* A KLINE lost with the connection is a state of `Kline`; `Scan` and `IRC` are not
  composed, as they share nothing else and bopm takes no notice of it.

## 6. Plan

1. Done: `Scan`, `FireDNS` with `Resolver`, their composition `ScanDNS`, `NegCache`,
   `OperCmd`, `IRC`, `Main`, `List` with `ListSpec`, and the routines; theorems about
   all of these but `Main`, for all that is not liveness.
2. What could come next: the layout of DNS packets, the regular expression and the
   configuration, which are not modelled.
3. Out of the prover's reach and left to TLC: liveness.
