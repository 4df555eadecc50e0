---------------------------- MODULE ClientLife ----------------------------
(***************************************************************************)
(* The life of a struct Client on one ircd: src/client.c with the callers  *)
(* that create clients (s_bsd.c, s_auth.c, s_serv.c, s_user.c, m_nick.c,   *)
(* m_server.c) and the ones that exit them.  A client is named by the      *)
(* block of client_heap it occupies, so a name is reused after free_client *)
(* has given the block back.                                               *)
(*                                                                         *)
(* The program is one thread: io_loop alternates between comm_select,      *)
(* whose callbacks run the handlers below, and eventRun, which walks the   *)
(* event table.  A step is one handler, or one iteration of an event's     *)
(* loop over a list.                                                       *)
(***************************************************************************)
EXTENDS Integers, FiniteSets, Sequences

CONSTANTS
    Client,      \* the blocks of client_heap
    NoClient,    \* NULL
    Me,          \* the server itself, never exited
    Freq,        \* seconds between two runs of an event, by name
    MaxElapsed   \* bound: seconds that may pass between two eventRun calls

(* The client-related rows of event_table, in the order of their slots.    *)
EventTable == << "check_pings", "free_exited_clients",
                 "exit_aborted_clients", "reject_exit" >>
Event == {EventTable[i] : i \in 1..Len(EventTable)}

ASSUME ClientAssumption ==
    /\ IsFiniteSet(Client)
    /\ NoClient \notin Client /\ Me \notin Client /\ NoClient # Me
ASSUME FreqAssumption ==
    /\ Freq \in [Event -> Nat \ {0}] /\ MaxElapsed \in Nat \ {0}
    /\ Freq["exit_aborted_clients"] = 1

VARIABLES
    status,             \* STAT_*; "free" is a block nobody allocated
    local,              \* localClient # NULL (MyConnect)
    dead, closing,      \* FLAGS_DEADSOCKET, FLAGS_CLOSING
    from, servptr,      \* the link a client is behind, the server it is on
    unknown_list, lclient_list, serv_list, delay_exit,
    global_client_list,
    named,              \* what find_client can return: clientTable
    users, servers,     \* serv->users and serv->servers of each server
    dead_list,          \* nodes of dead_list naming a client
    abort_list,         \* nodes of abort_list naming a client
    count,              \* Count.local, .total, .server, .myserver
    wait,               \* seconds until an event is due (when - CurrentTime)
    phase,              \* 0: comm_select; i: eventRun is at slot i
    walk                \* abort_list nodes exit_aborted_clients will still visit

lists   == << unknown_list, lclient_list, serv_list, delay_exit,
              global_client_list, named, users, servers >>
flags   == << status, local, dead, closing, from, servptr >>
pending == << dead_list, abort_list, walk >>
clock   == << wait, phase >>
vars    == << flags, lists, pending, count, clock >>

Status == {"free", "unknown", "reject", "client", "server"}
CountName == {"local", "total", "server", "myserver"}

TypeOK ==
    /\ status \in [Client -> Status]
    /\ local \subseteq Client /\ dead \subseteq Client /\ closing \subseteq Client
    /\ from \in [Client -> Client \union {NoClient}]
    /\ servptr \in [Client -> Client \union {NoClient, Me}]
    /\ unknown_list \subseteq Client /\ lclient_list \subseteq Client
    /\ serv_list \subseteq Client /\ delay_exit \subseteq Client
    /\ global_client_list \subseteq Client /\ named \subseteq Client
    /\ users \in [Client -> SUBSET Client] /\ servers \in [Client -> SUBSET Client]
    /\ dead_list \in [Client -> Nat] /\ abort_list \in [Client -> Nat]
    /\ walk \subseteq Client
    /\ count \in [CountName -> Int]
    /\ wait \in [Event -> Nat]
    /\ phase \in 0..Len(EventTable)

Init ==
    /\ status = [c \in Client |-> "free"]
    /\ local = {} /\ dead = {} /\ closing = {}
    /\ from = [c \in Client |-> NoClient]
    /\ servptr = [c \in Client |-> NoClient]
    /\ unknown_list = {} /\ lclient_list = {} /\ serv_list = {} /\ delay_exit = {}
    /\ global_client_list = {} /\ named = {}
    /\ users = [c \in Client |-> {}] /\ servers = [c \in Client |-> {}]
    /\ dead_list = [c \in Client |-> 0] /\ abort_list = [c \in Client |-> 0]
    /\ walk = {}
    /\ count = [n \in CountName |-> 0]
    /\ wait \in [Event -> UNION {1..Freq[e] : e \in Event}]
    /\ \A e \in Event : wait[e] <= Freq[e]
    /\ phase = 0

Polling == phase = 0
Running(e) == phase # 0 /\ EventTable[phase] = e /\ wait[e] = 0

-----------------------------------------------------------------------------
(* make_client: the block is zeroed, so every flag and pointer is clear.   *)
MakeClient(c, isLocal, link, stat) ==
    /\ status[c] = "free"
    /\ status' = [status EXCEPT ![c] = stat]
    /\ local' = IF isLocal THEN local \union {c} ELSE local
    /\ from' = [from EXCEPT ![c] = link]
    /\ UNCHANGED << dead, closing >>

(* add_connection and start_auth: the socket waits on unknown_list for its *)
(* DNS and ident answers, and is on no global list yet.                    *)
AddConnection(c) ==
    /\ Polling
    /\ MakeClient(c, TRUE, c, "unknown")
    /\ unknown_list' = unknown_list \union {c}
    /\ UNCHANGED << servptr, lclient_list, serv_list, delay_exit, global_client_list,
                    named, users, servers, pending, count, clock >>

(* add_connection from an address check_reject has in its cache.           *)
AddRejected(c) ==
    /\ Polling
    /\ MakeClient(c, TRUE, c, "reject")
    /\ delay_exit' = delay_exit \union {c}
    /\ UNCHANGED << servptr, unknown_list, lclient_list, serv_list, global_client_list,
                    named, users, servers, pending, count, clock >>

(* serv_connect: an outgoing link is on the global list from the start.    *)
ServConnect(c) ==
    /\ Polling
    /\ MakeClient(c, TRUE, c, "unknown")
    /\ unknown_list' = unknown_list \union {c}
    /\ global_client_list' = global_client_list \union {c}
    /\ UNCHANGED << servptr, lclient_list, serv_list, delay_exit,
                    named, users, servers, pending, count, clock >>

ReleaseAuthClient(c) ==
    /\ Polling
    /\ c \in unknown_list \ global_client_list
    /\ global_client_list' = global_client_list \union {c}
    /\ UNCHANGED << flags, unknown_list, lclient_list, serv_list, delay_exit,
                    named, users, servers, pending, count, clock >>

(* A socket whose lines are parsed: read_packet returns on a dead one.     *)
Readable(c) == c \in local \ dead /\ c \in global_client_list

SetInitialNick(c) ==
    /\ Polling
    /\ Readable(c) /\ status[c] = "unknown"
    /\ named' = named \union {c}
    /\ UNCHANGED << flags, unknown_list, lclient_list, serv_list, delay_exit,
                    global_client_list, users, servers, pending, count, clock >>

(* Mutant of Bump: Count.total is forgotten.                               *)
Bump_NotTotal(names) ==
    [n \in CountName |-> IF n \in names \ {"total"} THEN count[n] + 1 ELSE count[n]]

Bump(names) == [n \in CountName |-> IF n \in names THEN count[n] + 1 ELSE count[n]]

RegisterLocalUser(c) ==
    /\ Polling
    /\ Readable(c) /\ status[c] = "unknown" /\ c \in named
    /\ status' = [status EXCEPT ![c] = "client"]
    /\ servptr' = [servptr EXCEPT ![c] = Me]
    /\ unknown_list' = unknown_list \ {c}
    /\ lclient_list' = lclient_list \union {c}
    /\ count' = Bump({"local", "total"})
    /\ UNCHANGED << local, dead, closing, from, serv_list, delay_exit,
                    global_client_list, named, users, servers, pending, clock >>

(* server_estab when every write of the handshake succeeds.  A peer that   *)
(* means to be a server has not sent NICK before.                          *)
ServerEstab(c) ==
    /\ Polling
    /\ Readable(c) /\ status[c] = "unknown" /\ c \notin named
    /\ status' = [status EXCEPT ![c] = "server"]
    /\ servptr' = [servptr EXCEPT ![c] = Me]
    /\ unknown_list' = unknown_list \ {c}
    /\ serv_list' = serv_list \union {c}
    /\ named' = named \union {c}
    /\ count' = Bump({"server", "myserver"})
    /\ UNCHANGED << local, dead, closing, from, lclient_list, delay_exit,
                    global_client_list, users, servers, pending, clock >>

(* Mutant of DeadLink: every failed write queues an abort.                 *)
DeadLink_EveryTime(c) ==
    /\ dead' = dead \union {c}
    /\ abort_list' = [abort_list EXCEPT ![c] = @ + 1]

(* dead_link: only queues the exit, so that whoever is walking a list of   *)
(* clients may go on; the first call wins.                                 *)
DeadLink(c) ==
    /\ c \notin dead \union closing
    /\ dead' = dead \union {c}
    /\ abort_list' = [abort_list EXCEPT ![c] = @ + 1]

(* server_estab when writing SVINFO fails: servptr is set, nothing else.   *)
ServerEstabDies(c) ==
    /\ Polling
    /\ Readable(c) /\ status[c] = "unknown" /\ c \notin named
    /\ DeadLink(c)
    /\ servptr' = [servptr EXCEPT ![c] = Me]
    /\ UNCHANGED << status, local, closing, from, lists, dead_list, walk, count, clock >>

(* A server s we know of, whose link still delivers lines.                 *)
Introducer(s) == s \in named /\ status[s] = "server" /\ from[s] \in serv_list \ dead

(* ms_server: a server behind s.                                           *)
IntroduceServer(s, c) ==
    /\ Polling
    /\ Introducer(s)
    /\ MakeClient(c, FALSE, from[s], "server")
    /\ servptr' = [servptr EXCEPT ![c] = s]
    /\ global_client_list' = global_client_list \union {c}
    /\ named' = named \union {c}
    /\ servers' = [servers EXCEPT ![s] = @ \union {c}]
    /\ count' = Bump({"server"})
    /\ UNCHANGED << unknown_list, lclient_list, serv_list, delay_exit, users,
                    pending, clock >>

(* nick_from_server and register_remote_user: a user on s.                 *)
IntroduceUser(s, c) ==
    /\ Polling
    /\ Introducer(s)
    /\ MakeClient(c, FALSE, from[s], "client")
    /\ servptr' = [servptr EXCEPT ![c] = s]
    /\ global_client_list' = global_client_list \union {c}
    /\ named' = named \union {c}
    /\ users' = [users EXCEPT ![s] = @ \union {c}]
    /\ count' = Bump({"total"})
    /\ UNCHANGED << unknown_list, lclient_list, serv_list, delay_exit, servers,
                    pending, clock >>

(* A write that fails, or a sendq that overflows, in whatever is running.  *)
(* Nothing is written to a socket still in auth, nor to a rejected one.    *)
WriteFails(c) ==
    /\ c \in local /\ c \in global_client_list
    /\ DeadLink(c)
    /\ UNCHANGED << status, local, closing, from, servptr, lists, dead_list, walk,
                    count, clock >>

-----------------------------------------------------------------------------
(* Everything the recursion of recurse_remove_clients reaches from s: the  *)
(* least set that contains the children of s and of its own members.       *)
Children(s) == users[s] \union servers[s]
Below(s) ==
    {c \in Client :
        \A D \in SUBSET Client :
            (Children(s) \subseteq D /\ \A d \in D : Children(d) \subseteq D) => c \in D}

(* Mutants of Dependents: no recursion; the users of s only.               *)
Dependents_Direct(s) == IF status[s] = "server" THEN Children(s) \ dead ELSE {}
Dependents_Users(s) == IF status[s] = "server" THEN users[s] \ dead ELSE {}

(* remove_dependents: qs_client skips a user that is already dead,         *)
(* exit_one_client on the servers does not look.                           *)
Dependents(s) ==
    IF status[s] = "server" THEN {c \in Below(s) : status[c] = "server" \/ c \notin dead}
                            ELSE {}

(* The counters once X has left.  A client that never reached the global   *)
(* list left no mark on total and server.                                  *)
CountWithout(X) ==
    LET Registered(S, st) == Cardinality({c \in X \intersect S : status[c] = st})
    IN  [n \in CountName |-> count[n] -
            CASE n = "local"    -> Registered(local, "client")
              [] n = "myserver" -> Registered(local, "server")
              [] n = "total"    -> Registered(global_client_list, "client")
              [] n = "server"   -> Registered(global_client_list, "server")]

(* exit_client marks and unlinks its argument before it looks at anything  *)
(* that depends on it; exit_one_client and qs_client do the rest.          *)
ExitAll(X) ==
    /\ closing' = closing \union (X \intersect local)
    /\ dead' = dead \union X
    /\ from' = [c \in Client |-> IF c \in X \intersect local THEN NoClient ELSE from[c]]
    /\ unknown_list' = unknown_list \ X
    /\ lclient_list' = lclient_list \ X
    /\ serv_list' = serv_list \ X
    /\ global_client_list' = global_client_list \ X
    /\ named' = named \ X
    /\ users' = [s \in Client |-> users[s] \ X]
    /\ servers' = [s \in Client |-> servers[s] \ X]
    /\ dead_list' = [c \in Client |-> IF c \in X THEN dead_list[c] + 1 ELSE dead_list[c]]
    /\ count' = CountWithout(X)
    /\ UNCHANGED << status, local, servptr >>

(* Mutants of ExitClient: IsClosing is not tested; IsDead is tested.       *)
ExitClient_Again(c) == ExitAll({c} \union Dependents(c))
ExitClient_UnlessDead(c) ==
    IF c \in dead
    THEN UNCHANGED << flags, unknown_list, lclient_list, serv_list, global_client_list,
                      named, users, servers, dead_list, count >>
    ELSE ExitAll({c} \union Dependents(c))

(* exit_client: a local client exits once, however often it is asked to.   *)
ExitClient(c) ==
    IF c \in local /\ c \in closing
    THEN UNCHANGED << flags, unknown_list, lclient_list, serv_list, global_client_list,
                      named, users, servers, dead_list, count >>
    ELSE ExitAll({c} \union Dependents(c))

(* A read that fails, QUIT, a refused registration, Excess Flood: the      *)
(* socket itself asks.                                                     *)
ReadFails(c) ==
    /\ Polling
    /\ Readable(c)
    /\ ExitClient(c)
    /\ UNCHANGED << delay_exit, abort_list, walk, clock >>

(* KILL, QUIT of a remote user, a nick collision, a socket that has sent    *)
(* only NICK and is overridden by a user of that nick: the target is looked *)
(* up by name, dead or not.                                                *)
KillClient(c) ==
    /\ Polling
    /\ c \in named /\ status[c] \in {"client", "unknown"}
    /\ ExitClient(c)
    /\ UNCHANGED << delay_exit, abort_list, walk, clock >>

(* SQUIT of any server in global_serv_list.                                *)
SquitServer(c) ==
    /\ Polling
    /\ c \in named /\ status[c] = "server"
    /\ ExitClient(c)
    /\ UNCHANGED << delay_exit, abort_list, walk, clock >>

(* A handler that writes to a socket and then exits it on the spot, when   *)
(* the write failed and queued the abort: serv_connect_callback of a link  *)
(* that "went dead during handshake", server_estab when fork_server fails, *)
(* a user told that he is banned.                                          *)
WriteThenExit(c) ==
    /\ Polling
    /\ Readable(c)
    /\ abort_list' = [abort_list EXCEPT ![c] = @ + 1]
    /\ ExitClient(c)
    /\ UNCHANGED << delay_exit, walk, clock >>

(* CLOSE by an oper: every connection on unknown_list.                     *)
CloseUnknowns ==
    /\ Polling
    /\ unknown_list # {}
    /\ ExitAll(unknown_list \ closing)
    /\ UNCHANGED << delay_exit, abort_list, walk, clock >>

-----------------------------------------------------------------------------
(* eventRun is entered in a later second than it was last left.            *)
EventRun ==
    /\ Polling
    /\ \E d \in 1..MaxElapsed :
          wait' = [e \in Event |-> IF wait[e] > d THEN wait[e] - d ELSE 0]
    /\ \E e \in Event : wait'[e] = 0
    /\ phase' = 1
    /\ UNCHANGED << flags, lists, pending, count >>

(* Leave slot `phase`; an event that ran is due again Freq seconds later.  *)
(* exit_aborted_clients starts at the head of abort_list as it finds it.   *)
Advance ==
    /\ phase' = IF phase = Len(EventTable) THEN 0 ELSE phase + 1
    /\ wait' = IF wait[EventTable[phase]] = 0
               THEN [wait EXCEPT ![EventTable[phase]] = Freq[EventTable[phase]]]
               ELSE wait
    /\ walk' = IF phase' # 0 /\ EventTable[phase'] = "exit_aborted_clients"
               THEN {c \in Client : abort_list[c] > 0}
               ELSE walk

SkipEvent ==
    /\ phase # 0 /\ wait[EventTable[phase]] # 0
    /\ Advance
    /\ UNCHANGED << flags, lists, dead_list, abort_list, count >>

(* check_pings_list skips the dead; which of the others have been silent   *)
(* for two ping times is left open.                                        *)
PingTimeout(c) ==
    /\ Running("check_pings")
    /\ c \in (lclient_list \union serv_list) \ dead
    /\ ExitClient(c)
    /\ UNCHANGED << delay_exit, abort_list, walk, clock >>

(* check_unknowns_list looks at the age only.                              *)
UnknownTimeout(c) ==
    /\ Running("check_pings")
    /\ c \in unknown_list
    /\ ExitClient(c)
    /\ UNCHANGED << delay_exit, abort_list, walk, clock >>

CheckPingsDone ==
    /\ Running("check_pings")
    /\ Advance
    /\ UNCHANGED << flags, lists, dead_list, abort_list, count >>

(* free_exited_clients: release_client_state and free_client on every node *)
(* of dead_list.  The block keeps no flag a later owner would see.         *)
FreeExitedClients ==
    LET F == {c \in Client : dead_list[c] > 0}
    IN  /\ Running("free_exited_clients")
        /\ status' = [c \in Client |-> IF c \in F THEN "free" ELSE status[c]]
        /\ local' = local \ F /\ dead' = dead \ F /\ closing' = closing \ F
        /\ from' = [c \in Client |-> IF c \in F THEN NoClient ELSE from[c]]
        /\ servptr' = [c \in Client |-> IF c \in F THEN NoClient ELSE servptr[c]]
        /\ dead_list' = [c \in Client |-> 0]
        /\ Advance
        /\ UNCHANGED << lists, abort_list, count >>

(* exit_aborted_clients, one node.  A node may name a block that was freed *)
(* earlier in the same eventRun: BlockHeapFree leaves (or frobs to a value *)
(* that has) FLAGS_CLOSING in it, so exit_client returns at once.          *)
ExitAborted(c) ==
    /\ Running("exit_aborted_clients")
    /\ c \in walk
    /\ walk' = walk \ {c}
    /\ abort_list' = [abort_list EXCEPT ![c] = @ - 1]
    /\ IF status[c] = "free"
       THEN UNCHANGED << flags, unknown_list, lclient_list, serv_list,
                         global_client_list, named, users, servers, dead_list, count >>
       ELSE ExitClient(c)
    /\ UNCHANGED << delay_exit, clock >>

ExitAbortedDone ==
    /\ Running("exit_aborted_clients")
    /\ walk = {}
    /\ Advance
    /\ UNCHANGED << flags, lists, dead_list, abort_list, count >>

(* Mutant of RejectExit: the list is not emptied.                          *)
RejectExit_KeepsList ==
    /\ Running("reject_exit")
    /\ ExitAll(delay_exit \ closing)
    /\ Advance
    /\ UNCHANGED << abort_list, delay_exit >>

(* reject_exit: every client of delay_exit, and then the list is emptied.  *)
RejectExit ==
    /\ Running("reject_exit")
    /\ ExitAll(delay_exit \ closing)
    /\ delay_exit' = {}
    /\ Advance
    /\ UNCHANGED << abort_list >>

-----------------------------------------------------------------------------
Callback ==
    \/ \E c \in Client :
          \/ AddConnection(c) \/ AddRejected(c) \/ ServConnect(c)
          \/ ReleaseAuthClient(c) \/ SetInitialNick(c) \/ RegisterLocalUser(c)
          \/ ServerEstab(c) \/ ServerEstabDies(c)
          \/ ReadFails(c) \/ KillClient(c) \/ SquitServer(c) \/ WriteThenExit(c)
    \/ \E s, c \in Client : IntroduceServer(s, c) \/ IntroduceUser(s, c)
    \/ CloseUnknowns

EventStep ==
    \/ SkipEvent \/ CheckPingsDone \/ FreeExitedClients \/ ExitAbortedDone \/ RejectExit
    \/ \E c \in Client : ExitAborted(c)

Next ==
    \/ Callback
    \/ \E c \in Client : WriteFails(c) \/ PingTimeout(c) \/ UnknownTimeout(c)
    \/ EventRun
    \/ EventStep

Spec == Init /\ [][Next]_vars

(* io_loop never stops calling eventRun, and eventRun returns.             *)
Fairness == WF_vars(EventRun) /\ WF_vars(EventStep)
FairSpec == Spec /\ Fairness

-----------------------------------------------------------------------------
(* A client the rest of the program may use.                               *)
Live(c) == status[c] # "free" /\ dead_list[c] = 0

Listed == unknown_list \union lclient_list \union serv_list \union delay_exit
            \union global_client_list \union named
            \union UNION {Children(s) : s \in Client}

(* No list, no hash bucket and no server's list of dependents names a      *)
(* client that has exited (exit_one_client, qs_client), let alone a block  *)
(* that was given back.                                                    *)
ListedAreLive == Listed \subseteq {c \in Client : Live(c)}

(* A client is put on dead_list once, and what is there satisfies the      *)
(* assertion free_client makes of a local client.                          *)
FreedOnce ==
    \A c \in Client : dead_list[c] # 0 =>
        /\ dead_list[c] = 1
        /\ status[c] # "free" /\ c \in dead
        /\ c \in local => c \in closing

(* exit_aborted_clients never exits a client that was not queued: a client *)
(* is queued once, and a node whose block was freed in the meantime is     *)
(* gone before comm_select can allocate the block again.  This rests on    *)
(* the order of the slots and on the period of one second.                 *)
AbortsAreForTheDead ==
    \A c \in Client : abort_list[c] # 0 =>
        /\ abort_list[c] = 1
        /\ c \in dead \/ (status[c] = "free" /\ c \in walk /\ ~Polling)

(* A local client is on exactly the one list its status says: all four are *)
(* linked through the same node of struct LocalUser.                       *)
OneListEach ==
    \A c \in local : Live(c) =>
        /\ c \in unknown_list <=> status[c] = "unknown"
        /\ c \in lclient_list <=> status[c] = "client"
        /\ c \in serv_list    <=> status[c] = "server"
        /\ c \in delay_exit   <=> status[c] = "reject"

(* A remote client never outlives its link or its server: remove_dependents *)
(* reaches everything behind a server that goes away.                      *)
RemotesHaveALink ==
    \A c \in Client \ local : Live(c) =>
        /\ from[c] \in serv_list
        /\ servptr[c] \in Client /\ Live(servptr[c]) /\ status[servptr[c]] = "server"
        /\ from[servptr[c]] = from[c]
        /\ c \in Children(servptr[c])

(* The counters that limit connections and drive split mode are the sizes  *)
(* of the lists they stand for.                                            *)
CountsMatch ==
    LET Registered(st) == {c \in Client : Live(c) /\ status[c] = st}
    IN  /\ count["local"] = Cardinality(lclient_list)
        /\ count["myserver"] = Cardinality(serv_list)
        /\ count["total"] = Cardinality(Registered("client"))
        /\ count["server"] = Cardinality(Registered("server"))

(* A dead socket, and a client that has exited, are eventually given back. *)
DeadAreFreed == \A c \in Client : c \in dead ~> status[c] = "free"

-----------------------------------------------------------------------------
(* What makes the invariants above inductive.                              *)
Exited == {c \in Client : dead_list[c] # 0}

FlagsAreClean ==
    /\ \A c \in Client : status[c] = "free" => c \notin local \union dead \union closing
    /\ closing \subseteq Exited
    /\ \A c \in local \ closing : from[c] = c
    /\ \A c \in dead : c \in local \/ c \in Exited

(* Only sockets that may be written to are queued for an abort.            *)
AbortsAreSockets ==
    \A c \in Client : abort_list[c] # 0 =>
        status[c] = "free" \/ (c \in local /\ status[c] # "reject")

ListsByStatus ==
    /\ unknown_list \union lclient_list \union serv_list \union delay_exit \subseteq local
    /\ \A c \in global_client_list \union named : status[c] # "reject"

(* exit_aborted_clients is due whenever eventRun is on its way to it.      *)
AbortsInTime ==
    /\ wait["exit_aborted_clients"] <= 1
    /\ phase \in 1..3 => wait["exit_aborted_clients"] = 0
    /\ walk # {} => phase = 3
    /\ \A c \in walk : abort_list[c] # 0

(* A server's list of dependents and servptr say the same, and what is     *)
(* behind a link is found from the link.                                   *)
TreeIsWhole ==
    /\ \A s \in Client : \A d \in Children(s) :
          d \notin local /\ servptr[d] = s /\ status[s] = "server"
    /\ \A c \in Client \ local : Live(c) => c \in Below(from[c])

Inductive ==
    /\ TypeOK /\ ListedAreLive /\ FreedOnce /\ AbortsAreForTheDead /\ OneListEach
    /\ RemotesHaveALink
    /\ FlagsAreClean /\ AbortsAreSockets /\ ListsByStatus /\ AbortsInTime /\ TreeIsWhole

-----------------------------------------------------------------------------
(* What the rest of the program relies on: the tree of ClientRegistry.     *)
Registry == INSTANCE ClientRegistry WITH
    Root <- Me,
    state <- [c \in Client |->
                 CASE status[c] = "free" -> "absent"
                   [] dead_list[c] # 0 -> "gone"
                   [] status[c] \in {"unknown", "reject"} /\ dead_list[c] = 0 -> "pending"
                   [] OTHER -> "member"],
    parent <- [c \in Client |->
                 IF Live(c) /\ status[c] \in {"client", "server"} THEN servptr[c] ELSE Me]
RegistrySpec == Registry!Spec
=============================================================================
