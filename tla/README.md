# A formal model of shadowircd 4.0

The repository holds several generations of one IRC daemon and some programs
around it. This directory models the newest one, `shadowircd-4.0`, an
ircd-hybrid/ratbox descendant: TLA+ modules translated from its C source, TLC
configurations that check them on small instances, and proofs that TLAPS checks.
All paths below are relative to `src/shadowircd-4.0/` unless they say otherwise.

## The system

An ircd is one process and one thread. `io_loop` (src/ircd.c:301) alternates
between `eventRun`, which walks a table of timed events, and `comm_select`,
which calls back for readable and writable sockets. Everything else is a
callback: lines are parsed and dispatched to a handler by the sender's status
(unregistered, user, oper, server). A network is a tree of such processes that
tell each other everything over TCP links, each link a FIFO in each direction;
there is no acknowledgement, and every server applies its own users' commands
at once. So there are two sources of difficulty: pointers and lists inside one
process, when a client dies while somebody is working on it; and the views of
several servers, when changes cross on the wire.

| component | state | operations | interacts with | hard | correct when |
|---|---|---|---|---|---|
| client lifecycle (client.c, s_bsd.c, s_serv.c, s_user.c, reject.c) | `struct Client`, six lists, the name hash, `abort_list`, `dead_list`, `Count` | create, register, introduce, `dead_link`, `exit_client`, four events | everything | exits inside walks of lists, exits twice, freed blocks still queued, recursive exit behind a link | no list names the dead, each client is freed once, counts match |
| channel timestamps (m_sjoin.c, m_join.c, m_part.c, m_kick.c, channel.c) | each server's view: TS, modes, members with status | JOIN, PART, KICK, SJOIN, burst, split | links, modes | descriptions cross, splits, partial delivery | views converge; nobody is op by a lost timestamp |
| channel modes (channel_mode.c, m_mode.c) | status flags, bans, key, limit | MODE | timestamps | changes that lag behind an SJOIN | as above |
| server links (s_serv.c, m_server.c, m_squit.c) | `serv_list`, `serv->servers/users` | connect, burst, SQUIT | clients, channels | both ends notice a loss separately; the handshake dies half-way | the tree stays a tree |
| event table and split mode (event.c, channel.c, m_set.c, ircd.c) | `event_table`, `event_time_min`, `splitmode`, `splitchecking` | `eventAdd`, `eventAddOnce`, `eventDelete`, `eventRun`, SET | client counts | events that add and delete one another, opers in between | starts at once, ends eventually, never stuck |
| nicknames and kills (m_nick.c, m_kill.c, m_quit.c, parse.c, whowas.c) | who holds a nick, nick TS, whowas | NICK, QUIT, KILL, collisions, burst | links, clients | both sides of a collision decide alone; a line names a client by a nick that may have moved on | the same survivor everywhere, no line taken for another client's |
| DNS and ident (s_auth.c, adns.c) | `AuthRequest`, two outstanding queries | start, answer, timeout, cancel | clients | answer races timeout and exit | released exactly once |
| invites, accepts, memberships (channel.c, m_invite.c, m_accept.c, client.c) | three relations, each as a list at both ends | JOIN, PART, KICK, INVITE, ACCEPT, NICK, exit | clients, channels | whoever goes is on lists of others | the ends agree, nothing names the gone |
| flood control (packet.c) | `allow_read`, `sent_parsed`, the queue of lines, a timer | `read_packet`, `parse_client_queued`, `flood_recalc`, OPER, rehash | clients, sockets | two limits, a timer that sets itself again, empty lines | the rate is bounded, every line is parsed |
| temporary K-lines and D-lines (s_conf.c, m_kline.c, m_unkline.c) | time lists, the address table, the file, `kline_queued` | KLINE, UNKLINE, expiry, rehash, delayed check | clients | one line on two structures, checks that wait | a line expires in time, nobody it hits stays |
| classes and configuration lines (s_conf.c, class.c, newconf.c) | reference counts of lines and classes, limits | attach, detach, rehash, OPER, exit | clients, links | lines that left the file live on with their clients | counts are exact; freed with the last user, never before |
| G-line votes (s_gline.c, m_gline.c) | pending votes | vote, expire | opers, servers | votes expire while others come | three voters on three servers place it |
| reject cache (reject.c) | patricia tree with counts | add, check, expire | clients | expiry | bounded rate |
| queues (send.c, linebuf.c) | sendq, recvq | put, flush | clients | partial writes | order, no loss |
| whowas, host masks, resv, parse, modules, stats, log | tables | look up | | | |

`PROJECT.json` lists all of them, with the ones that are not modelled and why,
and under `hazards` the lines where each difficulty bites.

## The modules

* **ClientLife** — the life of a `struct Client`. A client is named by the block
  of `client_heap` it lives in, so that freeing and reusing a block is visible.
  State: `status` (STAT_*), the flags `dead` and `closing`, `from`, `servptr`,
  one set per list, `dead_list` and `abort_list` as the number of nodes that
  name a block, `count`, and the clock of the four client events (`wait`,
  `phase`, `walk`: which slot `eventRun` has reached, and which nodes
  `exit_aborted_clients` has still to visit). An action is one handler or one
  iteration of an event's loop. Recursion (`recurse_remove_clients`) is the
  least set closed under `users` and `servers` (`Below`).
* **ClientRegistry** — the abstract specification: clients are absent, pending,
  member, or gone; members form a tree, and a member leaves with all that is
  behind it in one step. ClientLife instantiates it with the mapping at its end.
* **ClientLifeProofs** — the theorems.
* **Sjoin** — the timestamp rule of `ms_sjoin` as operators on a channel and a
  received description: what is kept, what is taken, what is relayed.
* **Links** — the tree of servers: `links[s]` which neighbours s considers linked,
  `net[s][t]` the lines in flight. `Sent`, `Answered` and `Taken` are what
  `sendto_server` and a handler do to the queues; the actions lose a link at one
  end, read its end, relay the SQUIT, and greet in two steps with a burst. The
  modules that extend it conjoin each of them with what happens to their state.
* **ChannelTS** — one channel on those links, with the operators of Sjoin:
  `chan[s]` is the view of server s. JOIN, PART, KICK, MODE ±o and ±h, the
  receiving half of each, and the burst of a new link.
* **NickTS** — nicknames on those links: `at[s]` is the clients s holds, each with
  nick, timestamp and whether it has registered, and its whowas table. A user is a
  connection, so a nick that has passed from one to another is visible. `mr_nick`,
  `m_nick` and `ms_nick` with both kinds of `perform_nick_collides`, a change
  refused as too fast, QUIT, KILL by an oper and its chase through whowas,
  what `parse` does with a prefix that names nobody (`remove_unknown`) or somebody
  elsewhere (`cancel_clients`), splits and bursts.
* **AuthQueries** — a connection from accept to the moment its lines are read:
  `sys` is one record of the blocks of `auth_heap`, the entries of `fd_table`, the
  queries the resolver has, `auth_poll_list` (its first node, and which node each of
  the others comes after) and the state of each client, so that
  what `release_auth_client` sets off — lines are read, and may exit this client or
  others — is a function applied to what the caller has done already. `late` stands
  for the clock, `walk` is the pointer `timeout_auth_queries_event` carries from one
  iteration to the next.
* **EventTable** — event.c as operators on a table of rows with
  `event_time_min`; times are relative to `CurrentTime`.
* **SplitMode** — `check_splitmode`, `finish_splitmode`, the SET commands, the
  counts that move both ways, `io_loop` and `eventRun` row by row.
* **FloodControl** — the lines of one connection: `read_packet`, the three loops of
  `parse_client_queued` line by line (`branch`, `i`, `checkflood` are its variables),
  the grace period, `flood_recalc` and its timer, and the checks that close a connection
  (`check_pings`, `check_unknowns_list`). What a line does is chosen when it
  is taken from the queue; only the empty ones are known by their place (`blanks`).
  `bucket`, `opered` and `mine` are history.
* **Memberships** — on one server, who is on which channel, who is invited to which,
  who accepts whom: each relation is two variables, one for the list at each end,
  changed by the lines of code that change them.
* **TempBans** — temporary and permanent K-lines and D-lines: the time lists and
  their events, the address table, the file behind the permanent ones, `kline_queued`,
  UNKLINE, REHASH of the file and of the temporary lines, and the clients that come and go
  meanwhile. Times are relative; `overlooked` is history.
* **Confs** — lines of ircd.conf and classes across rehashes: a line or class is
  named by what it is called in the file and by the reading it comes from, so that
  the old and the new one of a name are told apart. `attach_conf`, `detach_conf` and
  the passes of `read_conf_files` are operators on the record `t` of all tables.
* **GlineVote** — the votes on one user@host on one server.
* **ClientLifeProofs**, **LinksProofs**, **NickTSProofs**, **ChannelTSProofs**,
  **TempBansProofs**, **ConfsProofs** — theorems about the module each is named after;
  **ConnectionProofs** — about AuthQueries and FloodControl; **ChannelProofs** — about
  Memberships and SplitMode. (The names of AuthQueries and SplitMode carry a prefix, so
  that a module can extend two components.)
* **MC_...** — constants for TLC.

Modelling decisions a reader should know:

* ClientLife: names, hosts and confs are left out; a connection that has sent
  NICK does not later send SERVER. A block that has been freed keeps
  FLAGS_CLOSING, or holds what `BlockHeapFree` wrote over it, so that a stale
  abort node of a free block is ignored, as in the code. What `ms_nick` does to
  a half-registered socket whose nick it overrides is a `KillClient` followed by
  an `IntroduceUser`. Silence on a link is not measured: any client may miss its
  ping.
* ChannelTS: the tree is fixed; users exist wherever a line about them arrives,
  because NICK precedes SJOIN on the same FIFO, so an unknown nick comes from a
  garbled burst only. Clocks may differ (`Stamp`; m_svinfo.c:110 tolerates
  `ts_max_delta`). '%' stands for the prefixes that `send_members` does not
  count; a set of modes stands for simple modes, key and limit, which are all
  merged as a join. Bans, topics, simple modes by MODE, QUIT and KILL, JOIN 0
  and `can_join` are left out. `IGNORE_BOGUS_TS` is not defined (config.h:179).
* NickTS: nicks that differ in case only are one nick (a change to itself is a
  change of case); RESV, the check of characters, user modes and accepts are left
  out. The timestamp of `mr_nick` and `change_local_nick` is any time the server's
  `clock` may show. A KILL is taken to come from somebody known. The whowas table
  keeps the newest entry of a nick and never expires: KILLCHASETIMELIMIT is long
  compared to the time a line takes. `used` and `claims` are history: they say for
  which behaviours a property is meant.
* AuthQueries: `adns_getaddr` fails for unknown address families only, so
  `start_auth` always has a query pending and releases nothing itself. (Otherwise
  `dlinkDelete` of a request that is on no list would empty `auth_poll_list`, and a
  failing `comm_connect_tcp` would free the request `start_auth` goes on to use.)
  `Lines` says what the lines may do that were sent before the release: register, exit
  the client, exit all unregistered connections (CLOSE), or exit whoever a new ban matches
  (`"ban"`: the checks after DLINE, KLINE and REHASH, for any set of clients); ident
  servers are connected to by address. `dns_do_callbacks` delivers one answer per
  step; its own pointer to the next query is not modelled. The clock is not set back.
* SplitMode: a count matters only by whether it is below its threshold. One
  event that exits clients stands for the other rows. `eventAddIsh` may choose
  any period in `Period`.
* FloodControl: parsing a line is one of: nothing special, NICK/USER that completes
  the registration, OPER, MODE -o, CLOSE or QUIT. A read adds up to a bound
  of lines. One of them may be empty, and then it is the first: `linebuf_skip_crlf` takes
  any further CR and LF for the end of the line before them, so that only the start of a
  read can make an empty line. A client that is written to may die of it. Excess Flood is `queue > ClientFlood`, where the
  code compares buffers. `actually_read` is counted but never used, and left out.
* Memberships: a list is a set; a command with several targets is one action for
  each; keys, bans and limits only refuse, and are left out.
* TempBans: every line matches every client, so that whoever is not exempt is hit.
  Periods may be what `eventAddIsh` makes of them: up to a third longer. D-lines are
  looked up at accept and K-lines at registration. The check after a rehash
  (`CheckBannedLines`) passes over a client in an exempt block, the checks after a new
  line (`Expel`) do not; `overlooked` remembers whom. Durations are positive: `ms_kline`
  takes any number from another server, and the mo_ handlers that send it allow no other.
* Confs: all clients come from one CIDR block, and any line of the right kind may be
  the one found. The order in which a loop attaches several lines does not matter to
  the counts, so it is one step. Limits per host and ident are counted from the
  clients there are, not kept, and left out.
* GlineVote: `check_majority_gline` is as the code has it, so nothing sets `glined`.

## The runs

| run | checks | instance | shows |
|---|---|---|---|
| client_life | five invariants, refinement of ClientRegistry, `DeadAreFreed` | 3 blocks, events of 1 and 2 s, up to 2 s between two `eventRun` | lists, counts and aborts through every exit |
| channel_ts | `TypeOK`, three invariants, `TsNeverRises` | 3 servers in a chain, 1 user each, 2 clocks, 4 commands, or 3 and a lost link | what TS protects |
| split_mode | `SplitTypeOK`, two invariants, `EndsRejoined`, `SplitEndsUnforced` | 5 rows, 3 SET commands, clock set back | split mode starts and ends |
| nick_ts | four invariants | 3 servers in a chain, 1 connection each, 2 nicks, two connections of one user@host, 4 commands, or 3 and a lost link | who keeps a nick |
| auth_queries | two invariants, `WaitersLeave` | 3 connections, 2 request blocks, 2 descriptors | released once, by whoever is last |
| confs | `TypeOK`, three invariants | 3 clients, 5 blocks of every kind, 1 class and the default, 3 readings of 3 files | freed with the last user, never before |
| temp_bans | three invariants | 2 temporary lines, 3 time lists, 2 clients (one in an exempt block), 2 durations | a ban holds, and ends in time |
| flood_control | `RateIsLimited`, `LinesAreParsed`, `ServerLinesAreParsed` | limits 2 and 4, 6 lines in the queue | lines are slowed, not lost |
| memberships | four invariants | 2 local clients (one oper), 1 remote, 2 channels (one with +I), limits of 1 | both ends agree, whoever goes |
| auth_walk | `WalkIsSafe` | 2 connections, no ident | violated: finding 1 |
| temp_bans_exempt | `KlinedLeave` | 1 client in an exempt block | violated: finding 2 |
| gline_vote | `MajorityIsGlined` | 4 opers on 3 servers | violated: finding 3 |

**Bounds.** Three blocks are a link, a server behind it and a user behind that
(the recursion has depth two), or two blocks in use while the third is freed
and reused; `check_pings` really runs every 20 to 39 seconds, and a period of 2
only makes its meetings with the other events more frequent. In ChannelTS a
chain of three is the smallest tree in which a line is relayed and two
descriptions arrive over different links; one user per server gives three
descriptions; four commands and one split let a description be created on both
sides of a split, merged, and changed on top. `MaxCommands`, `MaxCloses` and
`MaxActs` (both together) are the only bounds on behaviour, so those runs may stop
(`CHECK_DEADLOCK FALSE`). In NickTS the same chain lets a line meet a collision
that the server behind has decided already; a third connection, of another
user@host, is what makes a free nick change hands while lines about it are on
their way; the clocks may tie or not. Four commands are two registrations and two
things done with them, and the pair with five commands that was tried beside it
(6 million states) shows nothing new.
In AuthQueries two blocks and two descriptors for three connections are all reused,
and one may be missing; its `Lines` leave out the CLOSE and the bans that were sent before
the release, since with them the loop runs into finding 1 (auth_walk has them; after the
release they may come at any time in both).
In SplitMode three commands are enough for ON or OFF, AUTO and a threshold in
any order; five rows never fill up, which the code's fifty would only after
some thirty SETs within one `split_delay`.
In Confs three readings let a line or class of the first survive two rehashes beside
its two successors; the files give a class limits, take it away, and give it back;
three clients fill a class of two, and one of them may be the link with its hub line.
In TempBans an hour has two minutes and a day four, and the period of the last event is
a quarter longer, as `eventAddIsh` may make it; a line that is given four minutes is
moved twice, one that is given one expires where it is put. Lines and checks never relate
two clients; the two are one that every line may hit and one that no D-line does. In
FloodControl MAX_FLOOD is 2 and MAX_FLOOD_BURST 4 (5 and 40 in packet.h), and an
operator's factor 2; the queue holds more than any of them. In Memberships a limit of one makes every second invite and accept meet it, and two
channels are what an invite list needs to overflow.

**Fairness.** ClientLife assumes weak fairness of `EventRun` and of the steps of
`eventRun`: `io_loop` never stops, and neither `comm_select(250)` nor an event
blocks. SplitMode assumes weak fairness of the same steps and of the clock.
AuthQueries assumes that timeouts pass (`Expire`) and that the event runs each
second and finishes its loop; nothing of the name server or of ident, which may never
answer. FloodControl assumes that `parse_client_queued` runs to its end and
returns, that a set timer fires (`Tick`, `FloodRecalc`, strongly, since other handlers
come in between) and that a dead connection is exited. For a connection this server has
made, which has no timer, it assumes that `check_pings` and `check_unknowns_list` come
round; for others they may, and need not. Nothing is assumed of reads: a client or server
may never send again, and loses the connection for it. ChannelTS, NickTS, Confs, TempBans,
Memberships and GlineVote state no liveness; what must happen in time is an invariant
there, about quiet states or about ages.

**What holds.** A client is exited and freed once, whatever order failing
writes, kills, timeouts and netsplits come in. `exit_aborted_clients` never
touches a block's next owner; this rests on the order of the slots
(`free_exited_clients` before `exit_aborted_clients`) and on the period of one
second of the latter, both easy to change without noticing. The counters are
the sizes of what they count. With descriptions and splits only, all servers end
with the same members, ops, modes and timestamp; with parts and ops they still
agree about members; with kicks at least a user whom his own server has on the
channel is seen by everybody. Nobody keeps ops from a timestamp the channel has
lost, unless MODE handed them on. Split mode is on whenever the network is too
small and automatic mode is on, ends once the network has rejoined, and left
alone the ircd never schedules a second event for it. A
nick has one holder on a server, and a line about one client is never taken for
another's, although lines name clients by nicks that change. Two connections that
take one nick leave the same survivor everywhere, or none after a tie, and one
when the timestamps differ; with quits and kills at the same time a server may
keep a ghost, but misses nobody. Without contention servers agree, and a KILL
finds its client under a new nick. Whatever order answers, errors, timeouts and
exits come in, a connection is handed over once, no callback names a freed request,
and nobody waits for ever, even if the resolver never reports.

No line of a connection that came in is left in its queue: the timer sees to that. Where
this server has made the connection, an empty line may hold up those behind it, but not
for ever: either the other server answers a PING, and that read goes on with them, or the
link is closed. After the grace
period no more lines are parsed than the limit and one for each second. A line or class
of ircd.conf that is no longer in the file is freed with its last client and never
before. A temporary ban is on one list as long as it is in the table; nobody it hits stays
unless a delayed check is on its way, or he is in an exempt block and a rehash has passed
him over (finding 2); and it outlives its time by no more than the
period of the list it was put on exceeds what it had left. Memberships, invites and
accepts agree at both ends, and name neither a client nor a channel that is gone.

**Findings** (each is a `violation` run; quotes and lines in `PROJECT.json`).
1. `timeout_auth_queries_event` reads lines of the clients it releases; a CLOSE among
   them, or a DLINE or REHASH that bans the right address, frees the request the loop would
   visit next.
2. `check_banned_lines`, which a rehash calls, leaves a client in an exempt block (which is
   about D-lines) before it looks for a K-line: a K-line that comes by the file does not
   remove such a client, while the same line given by KLINE does.
3. `majority_gline` never looks at the pending votes: three operators on three servers
   ask for a G-line and none is placed.

**Seen, and not a run.** Disagreements of the code with what it or its documents say:

* `server_estab` sets `servptr` before it looks whether the socket has died (s_serv.c:869
  and 994); the client is then unlinked from a list it was never on.
* README.TSora:310-321 demands that lagging oppings are discarded; they are accepted.
  `SameOps` fails with a PART and a re-JOIN that cross an SJOIN, where
  README.TSora:322-330 promises the same final state.
* `send_members` does not count the '%', '~' and '&' prefixes in the length of a line.
* A remote KICK by somebody who is halfop here is refused, against the comment at
  m_kick.c:157-158.
* `eventAdd` takes an unknown `event_time_min` (-1) for an empty table: an event
  added at that moment hides the earlier ones from `eventNextTime`; `set_back_events`
  leaves the same cache in the future.
* A server ignores a nick because the other side will kill its holder, but that side's
  rival has changed nicks: the client is known to its own server only
  (README.TSora:147-151). When three connections want one nick and two of them share a
  user@host, none may survive. A change of the case of a nick gives it a new timestamp
  on its own server only; one refused as too fast has set the timestamp there already
  (client.c:1803). Ghosts remain on other servers after a quit that crosses a collision
  (the QUIT is taken to be misdirected), after a tie whose nick is taken again at once,
  and when a KILL is lost in a split. Two operators who each kill one of two
  rivals may leave a ghost of one on one server and of the other on another: not among three
  servers, but in a chain of four, which is why `DuelsAreSettled` does not promise one holder
  when there are kills.
* SET SPLITMODE ON does not pull a pending `finish_splitmode`, and SET SPLITMODE AUTO
  after ON schedules no check.
* `conf_end_oper` does not free its `yy_aconf`. A client that a full class refuses leaves
  the per-CIDR count of the class raised, and the detach of an operator block, which
  never raised it, lowers it, so that `number_per_cidr` (doc/example.conf:155-160) is
  approximate; the counts that decide about memory are exact.
* "expires within a hour, check every minute" (s_conf.c:1634) comes late, because
  `eventAddIsh` may make the period of a list a third longer than what separates the
  lists. UNKLINE ignores the result of its last `flush_write`. A permanent ban whose
  write has failed holds until the next rehash. The K-lines of SET IDLETIME are not
  checked against who is on.
* A client that changes its own nick loses its own accept list too
  (`del_all_accepts`), where doc/modeg.txt speaks of being taken off the lists of others.
  With `max_chans_per_user` 0 `add_invite` takes the tail of an empty list.

## What is proved

`ClientLifeProofs` proves for every finite set of blocks, every `Freq` with a
one-second `exit_aborted_clients` and every `MaxElapsed`
(`ClientAssumption`, `FreqAssumption`) that `TypeOK`, `ListedAreLive`,
`FreedOnce`, `AbortsAreForTheDead`, `OneListEach` and `RemotesHaveALink` hold in
every reachable state of `Spec`. None of them is inductive alone. `Inductive`
adds

* `FlagsAreClean`: a free block has no flags, only exited clients are closing,
  a local client that is not closing is its own `from`, a dead client is local
  or has exited;
* `AbortsAreSockets`: only sockets that may be written to are queued;
* `ListsByStatus`: the four local lists hold local clients, and a rejected
  client is on no global list;
* `AbortsInTime`: the abort event is due whenever `eventRun` is before its slot,
  and the walk is empty elsewhere — this is where the period of one second enters;
* `TreeIsWhole`: `servptr` and the dependents lists say the same, and every
  remote client is in `Below` of its link.

The proof takes the conjunction
apart into types, the structure of lists and tree, and the aborts, and has
one lemma for each kind of step: creation, a step of one socket, an exit (of a
set closed under dependents, `Removable`), a run of events, a free. The core is
that `ExitAll` on a set that is closed under dependents keeps the tree whole for
what remains.

On top of `Inductive`, `CountsMatch` is proved: whoever is registered is on the global list
(`Counted`), from which an exit lowers `Count.total` and `.server`. And Spec implements
`ClientRegistry` (`ImplementsRegistry`): what `exit_client` takes with a member is the
least subtree of the abstract tree (`SubtreeIs`), because `servptr` and the dependents lists
say the same; `Ours` adds that a registered local client's `servptr` is this server, and that a
remote client is registered from the start. Each kind of step maps to one abstract action
or to a stutter.

`LinksProofs` proves, for every set of lines M, that the operators and actions of
Links keep `LinksTypeOK(M)`, and `LinksOK`: how far two neighbours are with closing and
opening their link can be read off what each has of it and the lines between them
(a greeting comes first in a queue, the end of a link last, nothing follows it, and no
answer is on its way while a greeting is). What a link divides is the subject of the
lemmas about `Behind`: the two sides of a link are all servers, none is on both, and who
is behind one neighbour is not behind another. They rest on `TreeAssumption` — no proper
part of the network is closed under links, and no other way leads from one neighbour to
another. m_server.c:199 and :271 keep the network so: a server whose name is known already
is not linked a second time.

`NickTSProofs` proves for every network, every finite set of connections, and all
nicks, clocks, user@hosts, commands and bounds (`LinksAssumption`,
`NickAssumption`) that `TypeOK`, `NicksAreUnique` and `HistoryIsLive` always hold.
What a server holds is consistent by itself (`ViewOK`): one nick, one client;
who has registered has a nick; whowas points to the registered. `Exit`, `Enter`,
`Rename` and `Evicted` keep it so whatever line caused them. The one thing about
the network it rests on is that no line introduces a connection that is yet to be
made, so the lines are typed by `Lines(fresh)`: without it a client could register
twice.

On top of that `NamesAreOwn`: as long as no two connections take one nick (`Obeyed`: o
says whose each nick is), every nick in a server's clients, in its whowas table and in any
line on its way is that of the connection that took it, and the two nicks of a change are
of one connection. No run lists it; it is what `LoneClientsAgree` rests on, since then
a line that finds anybody finds its user. With contention it fails: a change
that is read where the old nick has gone to somebody else names two connections.

`LoneClientsAgree` — all servers know the same clients by the same nicks once the net is
whole and quiet, if links are lost or clients killed but not both, and without splits the
killed are gone everywhere — is proved for all networks too. Given o, every command and every
line does one of four things (`Quietly`, `Says`, `Hears`, `Drops`): it changes no nick,
tells the neighbours of a change it makes, makes the change a line tells of and passes
it on, or finds nobody and answers at most with a KILL. One lemma for each command and line
says which; the invariants need to know no more. A line is a step from one nick
of its user to the next (`Turns`), so a queue is a path (`Trace`).

* Without kills (`PairsMatch`, for any splits) the lines from s to its neighbour t lead from
  what t knows of each user on the side of s to what s knows, while s talks and t listens
  (`Exact`); they are about nobody else (`Directed`), and who is not linked knows nobody from
  the far side (`Gone`). It follows that no line fails to find its user, so `Drops` never
  happens. What is cut short by a split is still a path that starts right, and a burst leads
  from nothing to what its sender knows.
* Without splits (`LonesMatch`) lines do fail to find their users, and the invariant is about
  one user and one link at a time (`Fit`): either the path leads where it should and
  nothing comes back (`Agreed`), or t has lost the user, will not hear him introduced
  again, and as long as s has him KILLs are on their way back (`LostTo`). They find
  him, since the nicks on the link are among those by which s knows him now or finds him
  in its whowas table (`Finds`): this is why the table must point to the
  clients it does, and why `remove_unknown` answers with the nick it was given. Nobody
  is introduced twice on a link, or towards a server that has heard of him
  (`AllOnce`, `Ahead`), so that who has been killed somewhere has been lost there for good
  (`Never`).

With empty queues both say that neighbours know the same, and `TreeAssumption` carries it to
all (`AllMeet`); `AloneObeyed` finds the o that `Alone` promises.

`ChannelTSProofs` proves for every tree of servers, all users, clocks and timestamps that
`TypeOK`, `OpsBelongToTheTs` and `TsNeverRises` hold. A view of the channel (`ViewOK`)
and a line on its way (`Lines(granted, used)`) may claim ops only together with a timestamp
they were granted at; a view has a timestamp other than 0 and flags of members only. The
rule of `ms_sjoin` keeps this because ops are dropped whenever the timestamp is.
`DescriptionsCommute` is about the operators alone: descriptions of disjoint users may
arrive in either order.

That all servers agree once the net is whole and all has been read (`Quiet`) is proved too:
`MembersAgree` and `DescriptionsAgree`, for any tree and any finite set of users
(`NetAssumption`; the set is finite because a burst may be cut short anywhere). Neither is
inductive, since nothing is equal before the lines have been read. `PairsOK` says of each
link what the lines on it are good for. Seen from t, a server s has a near side, the users
on its side of the link (`Near(s, t)`). The lines from s to t are about those only
(`Directed`), except for KICKs, which may be about anybody. Who has lost the link, or has
yet to read a greeting, has nobody from the far side (`Gone`). While s talks, t will have
of s's side exactly whom s has, once it has read what is on its way (`Exact`, with `Will`:
the last line about a user decides). With kicks that is not so, since the server of the
kicker removes somebody from the far side at once; but as long as no link was lost, who is
missing there was kicked there, and the KICK is on its way back (`Known`). Each command
and each line is then one of four shapes — a server says something about a user of its own,
it hears something and passes it on or does not, it gives up a link, a link is made —
and each shape is one lemma (`SaysOK`, `HearsOK`, `GivesUpPairs`, `EstabPairs`,
`ServerPairs`). When all queues are empty neighbours have the same members, and
`TreeAssumption` carries that to all.

For ops and modes `AllTrue` adds that views and descriptions are true about who made
the channel when: the timestamp is that of somebody who is on it at home; nobody
who is named was granted ops at an earlier one; and whoever was granted ops at this one has
them, together with the modes a channel is made with. Servers with the same members
then have timestamps that are neither older nor newer than each other's. With a PART
the creator may be gone while his timestamp is kept, and with MODE the ops are no
longer the creators', so the property and the proof are about `used \subseteq {"split"}`.

`ChannelProofs` proves the four invariants of Memberships for any clients,
channels and limits. The invariant is split along the three relations (`Channels`,
`Invitations`, `Accepts`); added is that only local clients have invites, and
`ListsAreBounded`, which is proved and checked by no run.

It also proves `SplitTypeOK`, `SplitIsNoticed`, `SomethingWillCheck` and the action property
`EndsRejoined` of SplitMode for any number of rows above two (`SplitAssumption`; the code's
`MAX_EVENTS` is 50), any periods and thresholds, and any number of SET commands.
`SplitInv` adds to the types that the two split events are in the table at most once and
only as the flags say (`Scheduled`), that each row's time and the cached minimum are
possible ones (`Sane`), and what is true between the two halves of `check_splitmode` while
`eventRun` is at the row that called it.

`ConnectionProofs` proves `CallbacksAreOwned` and `NobodyIsForgotten` of AuthQueries for any
connections, blocks and descriptors. `AuthInv` says of each request on its list which of
its two queries is pending and that the resolver and the descriptor table know it under
that block and no other (`Owned`), that whoever is on no list has nothing pending
(`Clean`), and that client and request name each other (`Paired`); `release_auth_client`
sets off anything the lines may do, so each of these is proved for the operator first
and then for the handlers that call it. `WalkIsLostToLines` is the other side of finding 1,
for any lines: when a step leaves the pointer of `timeout_auth_queries_event` on a request
that is not on the list, that step is a visit that released a client whose timeout had
passed, and a line this client had sent exits the client of the request to come, by CLOSE
or by a ban that matches it. Answers, errors, timeouts and other exits never do it.
The list is an order here, not a sequence, because removals anywhere in it are what the
proof is about.

It also proves `RateIsLimited` of FloodControl for every limit (`FloodAssumption`). `bucket`
is a sum over time and `sent_parsed` what the code remembers of it; `Covered` says the
first is never more than two above the second, and while the timer is set, no more
than the seconds until it fires. Pings, exits and errors change neither.

`TempBansProofs` proves `ListsMatchTable`, `NobodyStays` and `ExpiresInTime` for any lines,
clients, exempt or not, and durations, and at most four lists with whatever times and periods
(`TempBansAssumption`). `NobodyStays` names its exception, the `overlooked`, because without
it (`KlinedLeave`) it is false of the code. `Timely` says what a line on a list has left when the list is
next gone through.

`ConfsProofs` proves `TypeOK`, `UsersCounted`, `NothingDangles` and `NothingLeaks` for any
clients, blocks, contents of the file and number of readings (`ConfsAssumption`). That
counts equal cardinalities (`Counted`), that what can be reached is there (`Reachable`) and
that what is not listed is used (`Needed`) is inductive only together with `Marked` —
exactly the classes that have left the list are marked, the default never does, and a
listed line has a class that is listed — and `Earlier`: a name that is read again is a new
one. That one detach takes as many users from a class as the client had lines of it
is the bijection in `InClassIs`.

`TypeOK` and `OneListEach` of ClientLife and `TypeOK` of NickTS are proved and no run lists
them.

Only model-checked: what becomes of two clients that contend for a nick
(`DuelsAreSettled`), and all liveness (`DeadAreFreed`, `SplitEndsUnforced`, `WaitersLeave`,
`LinesAreParsed`, `ServerLinesAreParsed`), which is beyond this prover. For a duel there is no o: a line may be read
as somebody else's, so a proof needs an invariant that weighs timestamps and
user@hosts along every path, and it was not attempted.

## Not modelled, and what could come next

* The reject cache (a patricia tree of addresses with counts that an event lowers), the
  send queue and the reuse of its buffers, host masks (`match_ipv6`, the hash of the
  address table, patricia.c), the PASS/CAPAB/SVINFO handshake, `try_connections`. They
  are data structures or string handling with little state behind them.

Not planned: the configuration grammar, logging, the vendored resolver, servlink,
queries without effect. Most of `src/` is not this program: older releases and
forks of it, and separate programs (services, a proxy scanner), so the modules stand for a
small part of all that is there, and for about a quarter of the lines of the files they
are about; the rest of those is formatting, lookups and reports.

## Running

`tlc -config ClientLife.cfg MC_ClientLife.tla`, and likewise for the other
configurations (`PROJECT.json` names the module of each); `tlapm M.tla` for each `M` of
`ClientLifeProofs`, `LinksProofs`, `NickTSProofs`, `ChannelTSProofs`, `ChannelProofs`,
`ConnectionProofs`, `TempBansProofs` and `ConfsProofs`.
