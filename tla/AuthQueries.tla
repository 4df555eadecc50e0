---------------------------- MODULE AuthQueries ----------------------------
(***************************************************************************)
(* What happens to a connection between accept and the moment its lines    *)
(* are read: src/s_auth.c with the resolver (adns.c) and the descriptor    *)
(* table (fdlist.c, s_bsd.c) it uses.  A connection waits for two answers, *)
(* the name of its address and the ident reply of its host, and whichever  *)
(* comes last releases it; a timeout and the exit of the client cancel     *)
(* what is outstanding.  Every outstanding call holds a pointer to the     *)
(* AuthRequest, which is named here by its block of auth_heap: blocks and  *)
(* descriptors are reused.                                                 *)
(*                                                                         *)
(* The program is one thread, so a step is one handler, or one iteration   *)
(* of the loop of timeout_auth_queries_event.                              *)
(***************************************************************************)
EXTENDS Integers

CONSTANTS
    Client,      \* blocks of client_heap
    Request,     \* blocks of auth_heap
    Fd,          \* descriptors that ident sockets can get
    NULL,        \* no client, no request, no descriptor (-1)
    Lines        \* what the lines may do that a client has sent before its release

(* What lines can do, as far as this module can tell: nothing, register    *)
(* the client, make it exit, or register it, make it an oper (five lines   *)
(* are parsed at once) and exit others with an oper's command: CLOSE exits *)
(* all unregistered connections, and the checks for banned lines after     *)
(* DLINE or REHASH ("ban") those the lines match, registered or not.       *)
Line == {"nothing", "register", "quit", "close", "ban"}
Said(kinds) ==
    [does : kinds \ {"ban"}, matched : {{}}]
        \union [does : kinds \intersect {"ban"}, matched : SUBSET Client]
Silence == [does |-> "nothing", matched |-> {}]

ASSUME AuthAssumption ==
    /\ NULL \notin Client /\ NULL \notin Request /\ NULL \notin Fd
    /\ Lines \subseteq Line

VARIABLES
    sys,         \* the heaps, tables and lists, see System
    late,        \* the requests whose timeout is in the past
    walk         \* the request timeout_auth_queries_event will visit next

auth_vars == << sys, late, walk >>

AuthRequest ==
    [client  : Client \union {NULL},              \* NULL: the block is free
     dns     : BOOLEAN,                           \* IsDNSPending
     ident   : {"no", "connecting", "pending"},   \* IsAuthConnect, IsAuthPending
     fd      : Fd \union {NULL},
     ip6_int : BOOLEAN]                           \* the fallback query was made
Free == [client |-> NULL, dns |-> FALSE, ident |-> "no", fd |-> NULL, ip6_int |-> FALSE]

(* An open ident socket has a write handler (comm_connect_tryconnect) or a *)
(* read handler (read_auth_reply), with the request as its data.           *)
Entry == [handler : {"none", "connecting", "pending"}, data : Request \union {NULL}]
Closed == [handler |-> "none", data |-> NULL]

System ==
    [request        : [Request -> AuthRequest],
     auth_request   : [Client -> Request \union {NULL}],
     auth_poll_list : SUBSET (Request \X Request),
     fd_table       : [Fd -> Entry],
     queries        : [Request -> 0..1],     \* queries adns has for a dns_query
     status         : [Client -> {"free", "accepted", "waiting", "unknown", "client", "gone"}],
     listed         : [Client -> 0..1]]      \* nodes of global_client_list

AuthTypeOK ==
    /\ sys \in System
    /\ late \subseteq Request
    /\ walk \in Request \union {NULL}

AuthInit ==
    /\ sys = [request        |-> [r \in Request |-> Free],
              auth_request   |-> [c \in Client |-> NULL],
              auth_poll_list |-> {},
              fd_table       |-> [f \in Fd |-> Closed],
              queries        |-> [r \in Request |-> 0],
              status         |-> [c \in Client |-> "free"],
              listed         |-> [c \in Client |-> 0]]
    /\ late = {} /\ walk = NULL

InUse(S) == {r \in Request : S.request[r].client # NULL}
(* unknown_list: connections that have not registered, released or not.    *)
Unregistered(S) == {c \in Client : S.status[c] \in {"accepted", "waiting", "unknown"}}
(* unknown_list and lclient_list, which check_dlines, check_klines and     *)
(* check_banned_lines go through.                                          *)
Connected(S) == Unregistered(S) \union {c \in Client : S.status[c] = "client"}

-----------------------------------------------------------------------------
(* A list is the order of its nodes: <<q, r>> says that r is q or comes    *)
(* after it.                                                               *)
Nodes(list) == {r \in Request : <<r, r>> \in list}
Newest(list) == {q \in Nodes(list) : \A r \in Nodes(list) : <<q, r>> \in list}
After(list, q) == {r \in Nodes(list) \ {q} : <<q, r>> \in list}

(* dlinkAdd: the new node is the head.                                     *)
Link(list, r) == list \union ({r} \X (Nodes(list) \union {r}))

(* dlinkDelete.  A node that is on no list has no neighbours, and deleting *)
(* it takes all others with it: head and tail become NULL.                 *)
Unlink(list, R) ==
    IF R \subseteq Nodes(list) THEN list \intersect ((Request \ R) \X (Request \ R)) ELSE {}

(* exit_client for all clients in C, with delete_auth_queries.             *)
ExitAll(S, C) ==
    LET R == {r \in Request : \E c \in C : S.auth_request[c] = r}
    IN  [S EXCEPT
            !.request        = [r \in Request |-> IF r \in R THEN Free ELSE @[r]],
            !.auth_request   = [c \in Client |-> IF c \in C THEN NULL ELSE @[c]],
            !.auth_poll_list = Unlink(@, R),
            !.fd_table       = [f \in Fd |-> IF f \in {S.request[r].fd : r \in R}
                                             THEN Closed ELSE @[f]],
            !.queries        = [r \in Request |-> IF r \in R /\ S.request[r].dns THEN 0 ELSE @[r]],
            !.status         = [c \in Client |-> IF c \in C THEN "gone" ELSE @[c]],
            !.listed         = [c \in Client |-> IF c \in C THEN 0 ELSE @[c]]]

(* read_packet on a client that is listed.                                 *)
Registered(S, c) == [S EXCEPT !.status[c] = "client"]
AuthReadPacket(S, c, line) ==
    CASE line.does = "nothing"  -> S
      [] line.does = "register" -> Registered(S, c)
      [] line.does = "quit"     -> ExitAll(S, {c})
      [] line.does = "close"    -> ExitAll(Registered(S, c), Unregistered(Registered(S, c)))
      [] line.does = "ban"      ->
            ExitAll(Registered(S, c), line.matched \intersect Connected(Registered(S, c)))

(* release_auth_client: the client is handed over, and what it has sent    *)
(* while it waited is read at once.                                        *)
Handover(S, r) ==
    LET c == S.request[r].client
    IN  [S EXCEPT !.auth_request[c] = NULL,
                  !.auth_poll_list = Unlink(@, {r}),
                  !.request[r] = Free,
                  !.status[c] = "unknown",
                  !.listed[c] = @ + 1]
AuthRelease(S, r, line) ==
    IF S.request[r].dns \/ S.request[r].ident # "no" THEN S
    ELSE AuthReadPacket(Handover(S, r), S.request[r].client, line)

FdClose(S, r) == [S EXCEPT !.fd_table[S.request[r].fd] = Closed]

(* Mutant of SocketEnds: auth_error does not forget the descriptor.        *)
SocketEnds_KeepsNumber(S, r) == [FdClose(S, r) EXCEPT !.request[r].ident = "no"]

SocketEnds(S, r) ==
    [FdClose(S, r) EXCEPT !.request[r].ident = "no", !.request[r].fd = NULL]

(* Mutant of IdentEnds: read_auth_reply leaves the release to the resolver.*)
IdentEnds_NoRelease(S, r, line) == SocketEnds(S, r)

(* auth_error, and read_auth_reply when there is something to read or the  *)
(* connection ended.                                                       *)
IdentEnds(S, r, line) == AuthRelease(SocketEnds(S, r), r, line)

(* The end of auth_connect_callback, with no reply yet.                    *)
Asked(S, r) ==
    [S EXCEPT !.request[r].ident = "pending",
              !.fd_table[S.request[r].fd].handler = "pending"]

-----------------------------------------------------------------------------
(* add_connection.  Before start_auth the loop waits for the socket to be  *)
(* writable, or for its TLS handshake.                                     *)
Accept(c) ==
    /\ walk = NULL /\ sys.status[c] = "free"
    /\ sys' = [sys EXCEPT !.status[c] = "accepted"]
    /\ UNCHANGED << late, walk >>

(* The descriptors comm_open may return.                                   *)
CommOpen(S) == {f \in Fd : S.fd_table[f] = Closed}

(* start_auth_query.  It may be switched off, find no descriptor, or be    *)
(* refused or answered before comm_connect_tcp returns.  The other query   *)
(* is pending then, so nothing is released here.                           *)
StartAuthQuery(S, r) ==
    {S} \union UNION
        {LET T == [S EXCEPT !.request[r].fd = f, !.request[r].ident = "connecting",
                            !.fd_table[f] = [handler |-> "connecting", data |-> r]]
         IN  {T, Asked(T, r), IdentEnds(T, r, Silence)} :
         f \in CommOpen(S)}

(* adns_getaddr: the resolver has one query more, with the DNSQuery of the *)
(* request as its context.                                                 *)
Submitted(S, r) == [S EXCEPT !.queries[r] = @ + 1, !.request[r].dns = TRUE]

(* dns_do_callbacks takes an answer from the resolver and hands it over.   *)
Answered(S, r) == [S EXCEPT !.queries[r] = @ - 1, !.request[r].dns = FALSE]

(* start_auth.  adns_getaddr fails for unknown address families only, so   *)
(* the branch that releases a connection at once is not taken.             *)
StartAuth(c) ==
    /\ walk = NULL /\ sys.status[c] = "accepted"
    /\ \E r \in Request \ InUse(sys) :
        LET made == [sys EXCEPT !.request[r] = [Free EXCEPT !.client = c],
                                !.auth_request[c] = r, !.status[c] = "waiting"]
        IN  \E S \in StartAuthQuery(Submitted(made, r), r) :
                sys' = [S EXCEPT !.auth_poll_list = Link(@, r)]
    /\ UNCHANGED << late, walk >>

(* auth_dns_callback may ask once more for an IPv6 address, under ip6.int. *)
DnsRetry(r) ==
    /\ walk = NULL /\ sys.queries[r] > 0
    /\ ~sys.request[r].ip6_int
    /\ sys' = [Submitted(Answered(sys, r), r) EXCEPT !.request[r].ip6_int = TRUE]
    /\ UNCHANGED << late, walk >>

DnsAnswer(r) ==
    /\ walk = NULL /\ sys.queries[r] > 0
    /\ \E line \in Said(Lines) : sys' = AuthRelease(Answered(sys, r), r, line)
    /\ late' = late \intersect InUse(sys')
    /\ UNCHANGED walk

(* comm_connect_callback reports success, and the question is sent.        *)
IdentConnected(f) ==
    /\ walk = NULL /\ sys.fd_table[f].handler = "connecting"
    /\ sys' = Asked(sys, sys.fd_table[f].data)
    /\ UNCHANGED << late, walk >>

(* The connection is refused, or the question cannot be sent.              *)
IdentRefused(f) ==
    /\ walk = NULL /\ sys.fd_table[f].handler = "connecting"
    /\ \E line \in Said(Lines) : sys' = IdentEnds(sys, sys.fd_table[f].data, line)
    /\ late' = late \intersect InUse(sys')
    /\ UNCHANGED walk

(* comm_checktimeouts finds that ident_timeout has passed; once the socket *)
(* is connected it has no timeout of its own.                              *)
IdentTimeout(f) == IdentRefused(f)

(* read_auth_reply reads a reply or the end of the connection.             *)
IdentReply(f) ==
    /\ walk = NULL /\ sys.fd_table[f].handler = "pending"
    /\ \E line \in Said(Lines) : sys' = IdentEnds(sys, sys.fd_table[f].data, line)
    /\ late' = late \intersect InUse(sys')
    /\ UNCHANGED walk

-----------------------------------------------------------------------------
(* The timeout of a request passes.                                        *)
Expire(r) ==
    /\ r \in InUse(sys) \ late
    /\ late' = late \union {r}
    /\ UNCHANGED << sys, walk >>

(* The loop of timeout_auth_queries_event.                                 *)
TimeoutEvent ==
    /\ walk = NULL /\ walk' \in Newest(sys.auth_poll_list)
    /\ UNCHANGED << sys, late >>

(* The node that comes next, NULL at the end of the list.                  *)
Followers(list, q) ==
    IF After(list, q) = {} THEN {NULL}
    ELSE {r \in After(list, q) : \A x \in After(list, q) : <<r, x>> \in list}

(* The descriptor is closed, but auth->fd keeps its number: the request is *)
(* freed at once.                                                          *)
IdentGivenUp(S, r) ==
    [(IF S.request[r].fd # NULL THEN FdClose(S, r) ELSE S) EXCEPT !.request[r].ident = "no"]

(* Mutant of GivenUp: the name is still waited for.                        *)
GivenUp_IdentOnly(S, r) == IdentGivenUp(S, r)

GivenUp(S, r) ==
    [IdentGivenUp(S, r) EXCEPT !.request[r].dns = FALSE,
                               !.queries[r] = IF S.request[r].dns THEN 0 ELSE @]

(* One iteration.  DLINK_FOREACH_SAFE has read the pointer to the next     *)
(* node before.  What a visit of a freed block does is undefined; this     *)
(* module ends there.                                                      *)
Visit ==
    /\ walk \in InUse(sys)
    /\ IF walk \in late
       THEN \E line \in Said(Lines) : sys' = AuthRelease(GivenUp(sys, walk), walk, line)
       ELSE UNCHANGED sys
    /\ late' = late \intersect InUse(sys')
    /\ walk' \in Followers(sys.auth_poll_list, walk)

-----------------------------------------------------------------------------
(* read_packet later on, and check_unknowns_list.                          *)
Read(c) ==
    /\ walk = NULL /\ sys.status[c] \in {"unknown", "client"}
    /\ \E line \in Said(Line) : sys' = AuthReadPacket(sys, c, line)
    /\ late' = late \intersect InUse(sys')
    /\ UNCHANGED walk

CheckUnknowns(c) ==
    /\ walk = NULL /\ c \in Unregistered(sys)
    /\ sys' = ExitAll(sys, {c})
    /\ late' = late \intersect InUse(sys')
    /\ UNCHANGED walk

(* free_exited_clients.                                                    *)
FreeClient(c) ==
    /\ walk = NULL /\ sys.status[c] = "gone"
    /\ sys' = [sys EXCEPT !.status[c] = "free"]
    /\ UNCHANGED << late, walk >>

AuthNext ==
    \/ \E c \in Client :
          Accept(c) \/ StartAuth(c) \/ Read(c) \/ CheckUnknowns(c) \/ FreeClient(c)
    \/ \E r \in Request : DnsRetry(r) \/ DnsAnswer(r) \/ Expire(r)
    \/ \E f \in Fd :
          IdentConnected(f) \/ IdentRefused(f) \/ IdentTimeout(f) \/ IdentReply(f)
    \/ TimeoutEvent \/ Visit

(* Time passes, and the event runs every second.  Nothing is assumed of    *)
(* the name server or of ident: not even the timeouts of adns arrive, as   *)
(* timeout_adns does not call dns_do_callbacks.                            *)
Fairness ==
    /\ \A r \in Request : WF_auth_vars(Expire(r))
    /\ WF_auth_vars(TimeoutEvent) /\ WF_auth_vars(Visit)

AuthSpec == AuthInit /\ [][AuthNext]_auth_vars /\ Fairness

-----------------------------------------------------------------------------
(* Whatever is outstanding, a query of the resolver or a handler of a      *)
(* socket, names a request that waits for it: no answer, timeout or error  *)
(* can reach a request that was freed, or its block's next owner.          *)
CallbacksAreOwned ==
    /\ \A r \in Request : sys.queries[r] = IF sys.request[r].dns THEN 1 ELSE 0
    /\ \A f \in Fd : sys.fd_table[f] # Closed =>
          /\ sys.fd_table[f].data \in InUse(sys)
          /\ sys.request[sys.fd_table[f].data].fd = f
          /\ sys.request[sys.fd_table[f].data].ident = sys.fd_table[f].handler
    /\ \A r \in Request : sys.request[r].fd # NULL =>
          sys.fd_table[sys.request[r].fd].data = r

(* A connection that waits has a request of its own, which something may   *)
(* still complete and which the timeouts will find; one that does not wait *)
(* was handed over once, or is on its way in or out.                       *)
NobodyIsForgotten ==
    /\ \A c \in Client :
          /\ sys.status[c] = "waiting" <=> sys.auth_request[c] # NULL
          /\ sys.auth_request[c] # NULL => sys.request[sys.auth_request[c]].client = c
          /\ sys.listed[c] = IF sys.status[c] \in {"unknown", "client"} THEN 1 ELSE 0
    /\ \A r \in InUse(sys) :
          /\ sys.auth_request[sys.request[r].client] = r
          /\ sys.request[r].dns \/ sys.request[r].ident # "no"
    /\ Nodes(sys.auth_poll_list) = InUse(sys)

(* A connection does not wait for ever, whatever the other hosts do.       *)
WaitersLeave ==
    \A c \in Client : sys.status[c] = "waiting" ~> sys.status[c] # "waiting"

(* What the walk of the timeouts visits next is on the list, as the        *)
(* comment on DLINK_FOREACH_SAFE has it.                                   *)
WalkIsSafe == walk # NULL => walk \in InUse(sys)
=============================================================================
