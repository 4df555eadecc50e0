-------------------------- MODULE ConnectionProofs --------------------------
(***************************************************************************)
(* Proofs about the two components a connection is in before it is a       *)
(* client: AuthQueries, where it waits for its answers, and FloodControl,  *)
(* which parses its lines from then on.  They share no variable; the       *)
(* proofs are independent.                                                 *)
(*                                                                         *)
(* AuthQueries, for any number of connections, blocks and descriptors.     *)
(* The inductive invariant is in parts, because the handlers are functions *)
(* of the system that pass through states where a part of it does not      *)
(* hold: a request that is done and not yet released, or freed and still   *)
(* counted by the resolver.                                                *)
(*                                                                         *)
(* FloodControl, for all limits: what sent_parsed, which is only reduced   *)
(* when the timer lets it, says of the lines really parsed.                *)
(***************************************************************************)
EXTENDS AuthQueries, FloodControl, TLAPS

Owned(S) ==
    /\ \A r \in Request : S.queries[r] = IF S.request[r].dns THEN 1 ELSE 0
    /\ \A f \in Fd : S.fd_table[f] # Closed =>
          /\ S.fd_table[f].data \in InUse(S)
          /\ S.request[S.fd_table[f].data].fd = f
          /\ S.request[S.fd_table[f].data].ident = S.fd_table[f].handler
    /\ \A r \in Request : S.request[r].fd # NULL =>
          S.fd_table[S.request[r].fd].data = r

(* A request has a descriptor while it waits for ident, and a block that   *)
(* is free is as new.                                                      *)
Clean(S) ==
    /\ \A r \in Request : S.request[r].fd = NULL <=> S.request[r].ident = "no"
    /\ \A r \in Request \ InUse(S) : S.request[r] = Free

Paired(S) ==
    /\ \A c \in Client :
          /\ S.status[c] = "waiting" <=> S.auth_request[c] # NULL
          /\ S.auth_request[c] # NULL => S.request[S.auth_request[c]].client = c
          /\ S.listed[c] = IF S.status[c] \in {"unknown", "client"} THEN 1 ELSE 0
    /\ \A r \in InUse(S) : S.auth_request[S.request[r].client] = r

Sound(S) == S \in System /\ Owned(S) /\ Clean(S) /\ Paired(S)

Pending(S, r) == S.request[r].dns \/ S.request[r].ident # "no"
Full(S) ==
    /\ Sound(S)
    /\ \A r \in InUse(S) : Pending(S, r)
    /\ Nodes(S.auth_poll_list) = InUse(S)

AuthInv == Full(sys) /\ late \subseteq Request /\ walk \in Request \union {NULL}

(* What it says of AuthQueries: the invariants the run checks.             *)
LEMMA AuthInvMeans == AuthInv => AuthTypeOK /\ CallbacksAreOwned /\ NobodyIsForgotten
BY DEF AuthInv, Full, Sound, Owned, Paired, Pending, AuthTypeOK, CallbacksAreOwned, NobodyIsForgotten

(* The types of the fields of a System.                                    *)
LEMMA Fields ==
    ASSUME NEW S \in System
    PROVE  /\ S.request \in [Request -> AuthRequest]
           /\ S.auth_request \in [Client -> Request \union {NULL}]
           /\ S.auth_poll_list \in SUBSET (Request \X Request)
           /\ S.fd_table \in [Fd -> Entry]
           /\ S.queries \in [Request -> 0..1]
           /\ S.status \in [Client -> {"free", "accepted", "waiting", "unknown", "client", "gone"}]
           /\ S.listed \in [Client -> 0..1]
BY DEF System

(* At the start nothing waits and nothing is outstanding.                  *)
LEMMA InitFull == AuthInit => AuthInv
<1> SUFFICES ASSUME AuthInit PROVE AuthInv
  OBVIOUS
<1> USE AuthAssumption
<1>1. Free \in AuthRequest /\ Closed \in Entry
  BY DEF Free, Closed, AuthRequest, Entry
<1>2. sys \in System
  BY <1>1 DEF AuthInit, System
<1>3. InUse(sys) = {}
  BY DEF AuthInit, InUse, Free
<1>4. Owned(sys)
  BY <1>3 DEF AuthInit, Owned, Free
<1>5. Clean(sys)
  BY <1>3 DEF AuthInit, Clean, Free
<1>6. Paired(sys)
  BY <1>3 DEF AuthInit, Paired
<1>7. Nodes(sys.auth_poll_list) = {}
  BY DEF AuthInit, Nodes
<1> QED BY <1>2, <1>3, <1>4, <1>5, <1>6, <1>7 DEF AuthInit, AuthInv, Full, Sound

-----------------------------------------------------------------------------
(* What dlinkDelete takes off the list, and what dlinkAdd puts on it.      *)
LEMMA UnlinkNodes ==
    ASSUME NEW list \in SUBSET (Request \X Request), NEW R \in SUBSET Nodes(list)
    PROVE  /\ Unlink(list, R) \in SUBSET (Request \X Request)
           /\ Nodes(Unlink(list, R)) = Nodes(list) \ R
BY DEF Unlink, Nodes

LEMMA LinkNodes ==
    ASSUME NEW list \in SUBSET (Request \X Request), NEW r \in Request
    PROVE  /\ Link(list, r) \in SUBSET (Request \X Request)
           /\ Nodes(Link(list, r)) = Nodes(list) \union {r}
BY DEF Link, Nodes

(* exit_client, for any set of clients: delete_auth_queries leaves nothing *)
(* of their requests behind, and nothing of another's is touched.          *)
LEMMA ExitAllFull ==
    ASSUME NEW S, Full(S), NEW C \in SUBSET Client
    PROVE  /\ Full(ExitAll(S, C))
           /\ InUse(ExitAll(S, C)) = {r \in InUse(S) : S.request[r].client \notin C}
           /\ \A c \in Client : ExitAll(S, C).status[c] = IF c \in C THEN "gone" ELSE S.status[c]
<1> USE AuthAssumption
<1> DEFINE R == {r \in Request : \E c \in C : S.auth_request[c] = r}
           T == ExitAll(S, C)
<1>0. S \in System /\ Owned(S) /\ Clean(S) /\ Paired(S)
  BY DEF Full, Sound
<1>a. Free \in AuthRequest /\ Closed \in Entry
  BY DEF Free, Closed, AuthRequest, Entry
<1>1. /\ T.request = [r \in Request |-> IF r \in R THEN Free ELSE S.request[r]]
      /\ T.auth_request = [c \in Client |-> IF c \in C THEN NULL ELSE S.auth_request[c]]
      /\ T.auth_poll_list = Unlink(S.auth_poll_list, R)
      /\ T.fd_table = [f \in Fd |-> IF f \in {S.request[r].fd : r \in R}
                                             THEN Closed ELSE S.fd_table[f]]
      /\ T.queries = [r \in Request |-> IF r \in R /\ S.request[r].dns THEN 0 ELSE S.queries[r]]
      /\ T.status = [c \in Client |-> IF c \in C THEN "gone" ELSE S.status[c]]
      /\ T.listed = [c \in Client |-> IF c \in C THEN 0 ELSE S.listed[c]]
  BY <1>0 DEF ExitAll, System
<1>2. \A r \in Request : r \in R <=> r \in InUse(S) /\ S.request[r].client \in C
  BY <1>0, Fields DEF Paired, InUse, AuthRequest
<1>3. InUse(T) = InUse(S) \ R
  BY <1>1, <1>2 DEF InUse, Free
<1>4. R \subseteq Nodes(S.auth_poll_list)
  BY <1>2 DEF Full
<1>5. /\ T.auth_poll_list \in SUBSET (Request \X Request)
      /\ Nodes(T.auth_poll_list) = InUse(T)
  <2>1. /\ S.auth_poll_list \in SUBSET (Request \X Request)
        /\ R \in SUBSET Nodes(S.auth_poll_list) /\ Nodes(S.auth_poll_list) = InUse(S)
    BY <1>0, <1>4, Fields DEF Full
  <2>2. T.auth_poll_list = Unlink(S.auth_poll_list, R)
    BY <1>1
  <2> HIDE DEF T, R
  <2> QED BY <1>3, <2>1, <2>2, UnlinkNodes
<1>6. T \in System
  <2>1. T = [S EXCEPT !.request = T.request, !.auth_request = T.auth_request, !.auth_poll_list = T.auth_poll_list,
        !.fd_table = T.fd_table, !.queries = T.queries, !.status = T.status, !.listed = T.listed]
    BY <1>0, <1>1 DEF ExitAll, System
  <2>2. /\ T.request \in [Request -> AuthRequest]
        /\ T.auth_request \in [Client -> Request \union {NULL}]
        /\ T.fd_table \in [Fd -> Entry]
        /\ T.queries \in [Request -> 0..1]
        /\ T.status \in [Client -> {"free", "accepted", "waiting", "unknown", "client", "gone"}]
        /\ T.listed \in [Client -> 0..1]
    BY <1>0, <1>1, <1>a, Fields
  <2> QED BY <1>0, <2>1, <2>2, <1>5 DEF System
<1>7. Owned(T)
  <2>1. /\ \A q \in R : T.request[q] = Free /\ T.queries[q] = IF S.request[q].dns THEN 0 ELSE S.queries[q]
        /\ \A q \in Request \ R : T.request[q] = S.request[q] /\ T.queries[q] = S.queries[q]
        /\ R \subseteq Request
    BY <1>1
  <2>2. \A f \in Fd : T.fd_table[f] = IF \E q \in R : S.request[q].fd = f THEN Closed ELSE S.fd_table[f]
    BY <1>1
  <2> HIDE DEF T
  <2>3. \A q \in Request : T.queries[q] = IF T.request[q].dns THEN 1 ELSE 0
    <3>1. ~Free.dns
      BY DEF Free
    <3>2. \A q \in Request : S.queries[q] = IF S.request[q].dns THEN 1 ELSE 0
      BY <1>0 DEF Owned
    <3> HIDE DEF R
    <3> QED BY <2>1, <3>1, <3>2
  <2>4. ASSUME NEW f \in Fd, T.fd_table[f] # Closed
        PROVE  /\ T.fd_table[f].data \in InUse(T)
               /\ T.request[T.fd_table[f].data].fd = f
               /\ T.request[T.fd_table[f].data].ident = T.fd_table[f].handler
    <3>1. T.fd_table[f] = S.fd_table[f] /\ S.fd_table[f] # Closed /\ \A q \in R : S.request[q].fd # f
      BY <2>2, <2>4
    <3>2. /\ S.fd_table[f].data \in InUse(S)
          /\ S.request[S.fd_table[f].data].fd = f
          /\ S.request[S.fd_table[f].data].ident = S.fd_table[f].handler
      BY <1>0, <3>1 DEF Owned
    <3>3. S.fd_table[f].data \in Request \ R
      BY <3>1, <3>2 DEF InUse
    <3> HIDE DEF R
    <3> QED BY <1>3, <2>1, <3>1, <3>2, <3>3
  <2>5. ASSUME NEW q \in Request, T.request[q].fd # NULL PROVE T.fd_table[T.request[q].fd].data = q
    <3>1. q \notin R /\ T.request[q] = S.request[q]
      BY <2>1, <2>5 DEF Free
    <3>2. S.request[q].fd \in Fd /\ S.fd_table[S.request[q].fd].data = q
      BY <1>0, <2>5, <3>1, Fields DEF Owned, AuthRequest
    <3>3. \A x \in R : S.request[x].fd # S.request[q].fd
      <4>1. ASSUME NEW x \in R, S.request[x].fd = S.request[q].fd PROVE FALSE
        <5>1. x \in Request /\ x # q /\ S.request[x].fd # NULL
          BY <2>5, <3>1, <4>1
        <5>2. S.fd_table[S.request[x].fd].data = x
          BY <1>0, <5>1 DEF Owned
        <5> QED BY <3>2, <4>1, <5>1, <5>2
      <4> QED BY <4>1
    <3> HIDE DEF R
    <3> QED BY <2>2, <3>1, <3>2, <3>3
  <2> QED BY <2>3, <2>4, <2>5 DEF Owned
<1>8. Clean(T)
  <2>1. \A r \in Request : T.request[r].fd = NULL <=> T.request[r].ident = "no"
    BY <1>0, <1>1 DEF Clean, Free
  <2>2. \A r \in Request \ InUse(T) : T.request[r] = Free
    BY <1>0, <1>1, <1>3 DEF Clean
  <2> QED BY <2>1, <2>2 DEF Clean
<1>9. Paired(T)
  <2>1. ASSUME NEW c \in Client
        PROVE  /\ T.status[c] = "waiting" <=> T.auth_request[c] # NULL
               /\ T.auth_request[c] # NULL => T.request[T.auth_request[c]].client = c
               /\ T.listed[c] = IF T.status[c] \in {"unknown", "client"} THEN 1 ELSE 0
    <3>1. CASE c \in C
      BY <1>1, <3>1
    <3>2. CASE c \notin C
      <4>1. /\ T.status[c] = S.status[c] /\ T.listed[c] = S.listed[c]
            /\ T.auth_request[c] = S.auth_request[c]
        BY <1>1, <3>2
      <4>2. S.auth_request[c] # NULL =>
               /\ S.auth_request[c] \in Request \ R
               /\ S.request[S.auth_request[c]].client = c
        BY <1>0, <1>2, <3>2, Fields DEF Paired
      <4>3. S.auth_request[c] # NULL => T.request[S.auth_request[c]].client = c
        BY <1>1, <4>2
      <4> QED BY <1>0, <4>1, <4>3 DEF Paired
    <3> QED BY <3>1, <3>2
  <2>2. ASSUME NEW r \in InUse(T) PROVE T.auth_request[T.request[r].client] = r
    <3>1. r \in InUse(S) /\ r \notin R /\ r \in Request
      BY <1>3 DEF InUse
    <3>2. T.request[r] = S.request[r] /\ S.request[r].client \notin C
      BY <1>1, <1>2, <3>1
    <3>3. S.request[r].client \in Client
      BY <1>0, <3>1, Fields DEF InUse, AuthRequest
    <3> QED BY <1>0, <1>1, <3>1, <3>2, <3>3 DEF Paired
  <2> HIDE DEF T
  <2> QED BY <2>1, <2>2 DEF Paired
<1>10. \A r \in InUse(T) : Pending(T, r)
  BY <1>1, <1>3 DEF Full, Pending, InUse
<1>11. ASSUME NEW c \in Client PROVE T.status[c] = IF c \in C THEN "gone" ELSE S.status[c]
  BY <1>1
<1>12. InUse(T) = {r \in InUse(S) : S.request[r].client \notin C}
  BY <1>2, <1>3 DEF InUse
<1> HIDE DEF T
<1> QED BY <1>5, <1>6, <1>7, <1>8, <1>9, <1>10, <1>11, <1>12 DEF Full, Sound, T

(* Nothing is outstanding for r, and all else is in order.                 *)
Done(S, r) ==
    /\ S \in System /\ r \in InUse(S) /\ Paired(S)
    /\ Nodes(S.auth_poll_list) = InUse(S)
    /\ \A q \in InUse(S) \ {r} : Pending(S, q)
    /\ \A q \in Request : S.queries[q] = IF q # r /\ S.request[q].dns THEN 1 ELSE 0
    /\ \A f \in Fd : S.fd_table[f] # Closed =>
          /\ S.fd_table[f].data \in InUse(S) \ {r}
          /\ S.request[S.fd_table[f].data].fd = f
          /\ S.request[S.fd_table[f].data].ident = S.fd_table[f].handler
    /\ \A q \in Request \ {r} : S.request[q].fd # NULL => S.fd_table[S.request[q].fd].data = q
    /\ \A q \in Request \ {r} : S.request[q].fd = NULL <=> S.request[q].ident = "no"
    /\ \A q \in Request \ InUse(S) : S.request[q] = Free

(* release_auth_client hands over a request that is done.                  *)
LEMMA HandoverFull ==
    ASSUME NEW S, NEW r \in Request, Done(S, r)
    PROVE  /\ Full(Handover(S, r)) /\ InUse(Handover(S, r)) = InUse(S) \ {r}
           /\ S.request[r].client \in Client
           /\ Handover(S, r).status[S.request[r].client] = "unknown"
           /\ \A q \in Request \ {r} : Handover(S, r).request[q] = S.request[q]
<1> USE AuthAssumption
<1> DEFINE c == S.request[r].client
           T == Handover(S, r)
<1>0. S \in System /\ Paired(S) /\ r \in InUse(S)
  BY DEF Done
<1>a. Free \in AuthRequest /\ Free.client = NULL /\ Free.fd = NULL /\ Free.ident = "no" /\ ~Free.dns
  BY DEF Free, AuthRequest
<1>b. c \in Client /\ S.auth_request[c] = r /\ S.status[c] = "waiting" /\ S.listed[c] = 0
  <2>1. c \in Client
    BY <1>0, Fields DEF InUse, AuthRequest
  <2>2. S.auth_request[c] = r
    BY <1>0 DEF Paired
  <2> QED BY <1>0, <2>1, <2>2 DEF Paired
<1>1. /\ T = [S EXCEPT !.request = T.request, !.auth_request = T.auth_request,
                       !.auth_poll_list = T.auth_poll_list,
                       !.status = T.status, !.listed = T.listed]
      /\ T.request = [S.request EXCEPT ![r] = Free]
      /\ T.auth_request = [S.auth_request EXCEPT ![c] = NULL]
      /\ T.auth_poll_list = Unlink(S.auth_poll_list, {r})
      /\ T.status = [S.status EXCEPT ![c] = "unknown"]
      /\ T.listed = [S.listed EXCEPT ![c] = S.listed[c] + 1]
      /\ T.fd_table = S.fd_table /\ T.queries = S.queries
  <2>1. /\ T.request = [S.request EXCEPT ![r] = Free]
        /\ T.auth_request = [S.auth_request EXCEPT ![c] = NULL]
        /\ T.auth_poll_list = Unlink(S.auth_poll_list, {r})
        /\ T.status = [S.status EXCEPT ![c] = "unknown"]
        /\ T.listed = [S.listed EXCEPT ![c] = S.listed[c] + 1]
    BY <1>0 DEF Handover, System
  <2>2. T.fd_table = S.fd_table /\ T.queries = S.queries
    BY <1>0 DEF Handover, System
  <2>3. T = [S EXCEPT !.request = T.request, !.auth_request = T.auth_request,
                      !.auth_poll_list = T.auth_poll_list,
                      !.status = T.status, !.listed = T.listed]
    <3> DEFINE a == [S.auth_request EXCEPT ![c] = NULL]
               l == Unlink(S.auth_poll_list, {r})
               q == [S.request EXCEPT ![r] = Free]
               st == [S.status EXCEPT ![c] = "unknown"]
               n == [S.listed EXCEPT ![c] = S.listed[c] + 1]
    <3>1. T = [S EXCEPT !.auth_request = a, !.auth_poll_list = l, !.request = q, !.status = st, !.listed = n]
      BY DEF Handover
    <3> HIDE DEF T, a, l, q, st, n
    <3> QED BY <1>0, <3>1 DEF System
  <2> QED BY <2>1, <2>2, <2>3
<1>2. /\ T.request[r] = Free /\ \A q \in Request \ {r} : T.request[q] = S.request[q]
      /\ InUse(T) = InUse(S) \ {r}
  <2>1. /\ T.request[r] = Free /\ \A q \in Request \ {r} : T.request[q] = S.request[q]
    <3>1. S.request \in [Request -> AuthRequest] /\ T.request = [S.request EXCEPT ![r] = Free]
      BY <1>0, <1>1, Fields
    <3> HIDE DEF T
    <3> QED BY <3>1
  <2>2. InUse(T) = InUse(S) \ {r}
    BY <2>1, <1>a DEF InUse
  <2> QED BY <2>1, <2>2
<1>3. /\ T.auth_poll_list \in SUBSET (Request \X Request)
      /\ Nodes(T.auth_poll_list) = InUse(T)
  <2>1. /\ {r} \in SUBSET Nodes(S.auth_poll_list) /\ Nodes(S.auth_poll_list) = InUse(S)
        /\ S.auth_poll_list \in SUBSET (Request \X Request)
    BY <1>0, Fields DEF Done
  <2>2. T.auth_poll_list = Unlink(S.auth_poll_list, {r})
    BY <1>1
  <2> HIDE DEF T
  <2> QED BY <1>2, <2>1, <2>2, UnlinkNodes
<1>4. T \in System
  <2>1. /\ T.request \in [Request -> AuthRequest]
        /\ T.auth_request \in [Client -> Request \union {NULL}]
        /\ T.status \in [Client -> {"free", "accepted", "waiting", "unknown", "client", "gone"}]
        /\ T.listed \in [Client -> 0..1]
    BY <1>0, <1>1, <1>a, <1>b, Fields
  <2> HIDE DEF T
  <2> QED BY <1>0, <1>1, <1>3, <2>1 DEF System
<1> HIDE DEF T
<1>5. Owned(T)
  <2>0. T.fd_table = S.fd_table /\ T.queries = S.queries
    BY <1>1
  <2>1. \A q \in Request : T.queries[q] = IF T.request[q].dns THEN 1 ELSE 0
    <3>1. \A q \in Request : S.queries[q] = IF q # r /\ S.request[q].dns THEN 1 ELSE 0
      BY DEF Done
    <3> QED BY <1>2, <1>a, <2>0, <3>1
  <2>2. ASSUME NEW f \in Fd, T.fd_table[f] # Closed
        PROVE  /\ T.fd_table[f].data \in InUse(T)
               /\ T.request[T.fd_table[f].data].fd = f
               /\ T.request[T.fd_table[f].data].ident = T.fd_table[f].handler
    <3>1. /\ S.fd_table[f].data \in InUse(S) \ {r}
          /\ S.request[S.fd_table[f].data].fd = f
          /\ S.request[S.fd_table[f].data].ident = S.fd_table[f].handler
      BY <2>0, <2>2 DEF Done
    <3>2. S.fd_table[f].data \in Request \ {r}
      BY <3>1 DEF InUse
    <3> QED BY <1>2, <2>0, <3>1, <3>2
  <2>3. \A q \in Request : T.request[q].fd # NULL => T.fd_table[T.request[q].fd].data = q
    <3>1. \A q \in Request \ {r} : S.request[q].fd # NULL => S.fd_table[S.request[q].fd].data = q
      BY DEF Done
    <3> QED BY <1>2, <1>a, <2>0, <3>1
  <2> QED BY <2>1, <2>2, <2>3 DEF Owned
<1>6. Clean(T)
  BY <1>2, <1>a DEF Clean, Done
<1>7. Paired(T)
  <2>1. ASSUME NEW d \in Client
        PROVE  /\ T.status[d] = "waiting" <=> T.auth_request[d] # NULL
               /\ T.auth_request[d] # NULL => T.request[T.auth_request[d]].client = d
               /\ T.listed[d] = IF T.status[d] \in {"unknown", "client"} THEN 1 ELSE 0
    <3>1. CASE d = c
      BY <1>0, <1>1, <1>b, <3>1, Fields
    <3>2. CASE d # c
      <4>1. T.status[d] = S.status[d] /\ T.listed[d] = S.listed[d] /\ T.auth_request[d] = S.auth_request[d]
        BY <1>0, <1>1, <3>2, Fields
      <4>2. S.auth_request[d] # NULL => S.auth_request[d] \in Request \ {r}
        BY <1>0, <3>2, Fields DEF Paired
      <4> QED BY <1>0, <1>2, <4>1, <4>2 DEF Paired
    <3> QED BY <3>1, <3>2
  <2>2. ASSUME NEW q \in InUse(T) PROVE T.auth_request[T.request[q].client] = q
    <3>1. q \in InUse(S) /\ q # r /\ q \in Request /\ T.request[q] = S.request[q]
      BY <1>2 DEF InUse
    <3>2. S.request[q].client \in Client /\ S.auth_request[S.request[q].client] = q
      BY <1>0, <3>1, Fields DEF InUse, AuthRequest, Paired
    <3>3. S.request[q].client # c
      BY <1>b, <3>1, <3>2
    <3>4. T.auth_request = [S.auth_request EXCEPT ![c] = NULL]
      BY <1>1
    <3>5. S.auth_request \in [Client -> Request \union {NULL}]
      BY <1>0, Fields
    <3> HIDE DEF c
    <3> QED BY <3>1, <3>2, <3>3, <3>4, <3>5
  <2> QED BY <2>1, <2>2 DEF Paired
<1>8. \A q \in InUse(T) : Pending(T, q)
  BY <1>2 DEF Done, Pending, InUse
<1>9. T.status[c] = "unknown" /\ \A q \in Request \ {r} : T.request[q] = S.request[q]
  BY <1>0, <1>1, <1>b, Fields
<1> QED BY <1>2, <1>3, <1>4, <1>5, <1>6, <1>7, <1>8, <1>9, <1>b DEF Full, Sound, T

(* A client that registers has no request any more.                        *)
LEMMA RegisteredFull ==
    ASSUME NEW S, Full(S), NEW c \in Client, S.status[c] \in {"unknown", "client"}
    PROVE  Full(Registered(S, c))
<1> DEFINE T == Registered(S, c)
<1>0. S \in System /\ Paired(S) /\ Owned(S) /\ Clean(S)
  BY DEF Full, Sound
<1>1. /\ T = [S EXCEPT !.status = T.status]
      /\ T.status = [S.status EXCEPT ![c] = "client"]
      /\ T.request = S.request /\ T.auth_request = S.auth_request
      /\ T.auth_poll_list = S.auth_poll_list /\ T.listed = S.listed
      /\ T.fd_table = S.fd_table /\ T.queries = S.queries
  BY <1>0 DEF Registered, System
<1>2. T \in System
  <2>1. T.status \in [Client -> {"free", "accepted", "waiting", "unknown", "client", "gone"}]
    BY <1>0, <1>1, Fields
  <2> HIDE DEF T
  <2> QED BY <1>0, <1>1, <2>1 DEF System
<1> HIDE DEF T
<1>3. InUse(T) = InUse(S) /\ Owned(T) /\ Clean(T)
  BY <1>0, <1>1 DEF InUse, Owned, Clean
<1>4. Paired(T)
  <2>1. T.status[c] = "client" /\ \A d \in Client \ {c} : T.status[d] = S.status[d]
    BY <1>0, <1>1, Fields
  <2>2. S.auth_request[c] = NULL /\ S.listed[c] = 1
    BY <1>0 DEF Paired
  <2> QED BY <1>0, <1>1, <1>3, <2>1, <2>2 DEF Paired
<1> QED BY <1>1, <1>2, <1>3, <1>4 DEF Full, Sound, Pending, T

(* The lines sent before a release are some of those that can be read.     *)
LEMMA SaidOfLines == Said(Lines) \subseteq Said(Line)
BY AuthAssumption DEF Said

(* Whatever its lines do, and to whom.                                     *)
LEMMA ReadPacketFull ==
    ASSUME NEW S, Full(S), NEW c \in Client, S.status[c] \in {"unknown", "client"},
           NEW line \in Said(Line)
    PROVE  Full(AuthReadPacket(S, c, line))
<1>1. CASE line.does = "nothing"
  BY <1>1 DEF AuthReadPacket
<1>2. CASE line.does = "register"
  BY <1>2, RegisteredFull DEF AuthReadPacket
<1>3. CASE line.does = "quit"
  BY <1>3, ExitAllFull DEF AuthReadPacket
<1>4. CASE line.does = "close"
  <2>1. Unregistered(Registered(S, c)) \in SUBSET Client
    BY DEF Unregistered
  <2> QED BY <1>4, <2>1, RegisteredFull, ExitAllFull DEF AuthReadPacket
<1>5. CASE line.does = "ban"
  <2>1. line.matched \intersect Connected(Registered(S, c)) \in SUBSET Client
    BY DEF Connected, Unregistered
  <2> QED BY <1>5, <2>1, RegisteredFull, ExitAllFull DEF AuthReadPacket
<1> QED BY <1>1, <1>2, <1>3, <1>4, <1>5 DEF Said, Line

(* release_auth_client leaves all in order, and so it does when something  *)
(* is still waited for.                                                    *)
LEMMA ReleaseFull ==
    ASSUME NEW S, NEW r \in Request, r \in InUse(S), Sound(S),
           \A q \in InUse(S) \ {r} : Pending(S, q),
           Nodes(S.auth_poll_list) = InUse(S),
           NEW line \in Said(Line)
    PROVE  Full(AuthRelease(S, r, line))
<1>1. CASE Pending(S, r)
  BY <1>1 DEF AuthRelease, Pending, Full
<1>2. CASE ~Pending(S, r)
  <2>1. ~S.request[r].dns /\ S.request[r].ident = "no" /\ S.request[r].fd = NULL
    BY <1>2 DEF Pending, Sound, Clean
  <2>2. Done(S, r)
    <3>1. \A f \in Fd : S.fd_table[f] # Closed => S.fd_table[f].data \in InUse(S) \ {r}
      BY <2>1, AuthAssumption DEF Sound, Owned
    <3> QED BY <2>1, <3>1 DEF Done, Sound, Owned, Clean
  <2> QED BY <2>1, <2>2, HandoverFull, ReadPacketFull DEF AuthRelease
<1> QED BY <1>1, <1>2

(* A step of one of its two queries touches the request r, its socket and  *)
(* its query of the resolver, and leaves the rest in order.                *)
Touched(S, T, r) ==
    /\ T.auth_request = S.auth_request /\ T.status = S.status /\ T.listed = S.listed
    /\ \A q \in Request \ {r} : T.request[q] = S.request[q] /\ T.queries[q] = S.queries[q]
    /\ T.request[r].client = S.request[r].client
    /\ T.queries[r] = IF T.request[r].dns THEN 1 ELSE 0
    /\ T.request[r].fd = NULL <=> T.request[r].ident = "no"
    /\ \/ T.request[r].fd \in {NULL, S.request[r].fd}
       \/ S.fd_table[T.request[r].fd] = Closed
    /\ \A f \in Fd : T.fd_table[f] =
            IF f = T.request[r].fd THEN [handler |-> T.request[r].ident, data |-> r]
            ELSE IF f = S.request[r].fd THEN Closed ELSE S.fd_table[f]

LEMMA TouchSound ==
    ASSUME NEW S, Sound(S), NEW r \in Request, r \in InUse(S), NEW T, T \in System, Touched(S, T, r)
    PROVE  /\ Sound(T) /\ InUse(T) = InUse(S)
           /\ \A q \in Request \ {r} : Pending(T, q) <=> Pending(S, q)
<1> USE AuthAssumption
<1>a. \A q \in Request \ {r} : T.request[q] = S.request[q] /\ T.queries[q] = S.queries[q]
  BY DEF Touched
<1>b. T.request[r].client = S.request[r].client /\ \A q \in Request : T.request[q].client = S.request[q].client
  BY DEF Touched
<1>c. \A f \in Fd : T.fd_table[f] =
         IF f = T.request[r].fd THEN [handler |-> T.request[r].ident, data |-> r]
         ELSE IF f = S.request[r].fd THEN Closed ELSE S.fd_table[f]
  BY DEF Touched
<1>1. InUse(T) = InUse(S)
  BY <1>b DEF InUse
<1>2. S \in System /\ Owned(S) /\ Clean(S) /\ Paired(S)
  BY DEF Sound
<1>3. ASSUME NEW f \in Fd, T.fd_table[f] # Closed
      PROVE  /\ T.fd_table[f].data \in InUse(T)
             /\ T.request[T.fd_table[f].data].fd = f
             /\ T.request[T.fd_table[f].data].ident = T.fd_table[f].handler
  <2>1. CASE f = T.request[r].fd
    BY <1>1, <1>c, <2>1
  <2>2. CASE f # T.request[r].fd
    <3>1. T.fd_table[f] = S.fd_table[f] /\ S.fd_table[f] # Closed /\ f # S.request[r].fd
      BY <1>3, <1>c, <2>2
    <3>2. S.fd_table[f].data \in InUse(S) \ {r}
      BY <1>2, <3>1 DEF Owned
    <3>3. S.fd_table[f].data \in Request \ {r}
      BY <3>2 DEF InUse
    <3>4. /\ S.request[S.fd_table[f].data].fd = f
          /\ S.request[S.fd_table[f].data].ident = S.fd_table[f].handler
      BY <1>2, <3>1 DEF Owned
    <3> QED BY <1>1, <1>a, <3>1, <3>2, <3>3, <3>4
  <2> QED BY <2>1, <2>2
<1>4. ASSUME NEW q \in Request, T.request[q].fd # NULL
      PROVE  T.fd_table[T.request[q].fd].data = q
  <2>0. T.request[q].fd \in Fd
    BY <1>4, Fields DEF AuthRequest
  <2>1. CASE q = r
    BY <1>c, <2>0, <2>1
  <2>2. CASE q # r
    <3>0. T.request[q] = S.request[q]
      BY <1>a, <2>2
    <3>1. S.fd_table[S.request[q].fd].data = q
      BY <1>2, <1>4, <3>0 DEF Owned
    <3>2. S.request[q].fd # S.request[r].fd
      <4>1. S.request[r].fd # NULL => S.fd_table[S.request[r].fd].data = r
        BY <1>2 DEF Owned
      <4> QED BY <1>4, <2>2, <3>0, <3>1, <4>1
    <3>3. S.request[q].fd # T.request[r].fd
      <4>1. \/ T.request[r].fd \in {NULL, S.request[r].fd}
            \/ S.fd_table[T.request[r].fd] = Closed
        BY DEF Touched
      <4> QED BY <1>4, <3>0, <3>1, <3>2, <4>1 DEF Closed
    <3> QED BY <1>c, <2>0, <3>0, <3>1, <3>2, <3>3
  <2> QED BY <2>1, <2>2
<1>5. \A q \in Request : T.queries[q] = IF T.request[q].dns THEN 1 ELSE 0
  <2>1. \A q \in Request : S.queries[q] = IF S.request[q].dns THEN 1 ELSE 0
    BY <1>2 DEF Owned
  <2>2. T.queries[r] = IF T.request[r].dns THEN 1 ELSE 0
    BY DEF Touched
  <2> QED BY <1>a, <2>1, <2>2
<1>6. Clean(T)
  BY <1>1, <1>2, <1>a DEF Clean, Touched
<1>7. Paired(T)
  <2>0. T.auth_request = S.auth_request /\ T.status = S.status /\ T.listed = S.listed
    BY DEF Touched
  <2>1. ASSUME NEW c \in Client
        PROVE  /\ T.status[c] = "waiting" <=> T.auth_request[c] # NULL
               /\ T.auth_request[c] # NULL => T.request[T.auth_request[c]].client = c
               /\ T.listed[c] = IF T.status[c] \in {"unknown", "client"} THEN 1 ELSE 0
    <3>1. S.auth_request[c] # NULL => S.auth_request[c] \in Request
      BY <1>2, Fields
    <3>2. /\ S.status[c] = "waiting" <=> S.auth_request[c] # NULL
          /\ S.auth_request[c] # NULL => S.request[S.auth_request[c]].client = c
          /\ S.listed[c] = IF S.status[c] \in {"unknown", "client"} THEN 1 ELSE 0
      BY <1>2 DEF Paired
    <3> QED BY <1>b, <2>0, <3>1, <3>2
  <2>2. \A q \in InUse(T) : q \in Request /\ S.auth_request[S.request[q].client] = q
    BY <1>1, <1>2 DEF InUse, Paired
  <2>3. \A q \in InUse(T) : T.auth_request[T.request[q].client] = q
    BY <1>b, <2>0, <2>2
  <2> QED BY <2>1, <2>3 DEF Paired
<1>8. \A q \in Request \ {r} : Pending(T, q) <=> Pending(S, q)
  BY <1>a DEF Pending
<1> QED BY <1>1, <1>3, <1>4, <1>5, <1>6, <1>7, <1>8 DEF Sound, Owned

(* The end of the ident query, one way or another.                         *)
LEMMA SocketEndsSound ==
    ASSUME NEW S, Sound(S), NEW r \in Request, r \in InUse(S), S.request[r].ident # "no"
    PROVE  LET T == SocketEnds(S, r)
           IN  /\ Sound(T) /\ InUse(T) = InUse(S)
               /\ \A q \in Request \ {r} : Pending(T, q) <=> Pending(S, q)
               /\ T.auth_poll_list = S.auth_poll_list
               /\ T.request[r].dns = S.request[r].dns
<1> USE AuthAssumption
<1> DEFINE T == SocketEnds(S, r)
<1>1. S \in System /\ S.request[r] \in AuthRequest /\ S.request[r].fd \in Fd
  BY Fields DEF Sound, Clean, AuthRequest
<1>2. /\ T.request = [S.request EXCEPT ![r] = [S.request[r] EXCEPT !.ident = "no", !.fd = NULL]]
      /\ T.fd_table = [S.fd_table EXCEPT ![S.request[r].fd] = Closed]
      /\ T.auth_request = S.auth_request /\ T.status = S.status /\ T.listed = S.listed
      /\ T.auth_poll_list = S.auth_poll_list /\ T.queries = S.queries
      /\ T = [S EXCEPT !.request = T.request, !.fd_table = T.fd_table]
  BY <1>1, Fields DEF SocketEnds, FdClose, System
<1>3. T \in System
  <2>1. [S.request[r] EXCEPT !.ident = "no", !.fd = NULL] \in AuthRequest
    BY <1>1 DEF AuthRequest
  <2>2. T.request \in [Request -> AuthRequest]
    BY <1>1, <1>2, <2>1, Fields
  <2>3. T.fd_table \in [Fd -> Entry]
    BY <1>1, <1>2, Fields DEF Closed, Entry
  <2> HIDE DEF T
  <2> QED BY <1>1, <1>2, <2>2, <2>3 DEF System
<1>4. /\ \A q \in Request \ {r} : T.request[q] = S.request[q] /\ T.queries[q] = S.queries[q]
      /\ T.request[r].client = S.request[r].client /\ T.request[r].dns = S.request[r].dns
      /\ T.request[r].fd = NULL /\ T.request[r].ident = "no"
      /\ \A f \in Fd : T.fd_table[f] = IF f = S.request[r].fd THEN Closed ELSE S.fd_table[f]
  <2>1. T.request[r] = [S.request[r] EXCEPT !.ident = "no", !.fd = NULL]
    BY <1>1, <1>2, Fields
  <2>2. \A q \in Request \ {r} : T.request[q] = S.request[q] /\ T.queries[q] = S.queries[q]
    BY <1>1, <1>2, Fields
  <2>3. \A f \in Fd : T.fd_table[f] = IF f = S.request[r].fd THEN Closed ELSE S.fd_table[f]
    BY <1>1, <1>2, Fields
  <2> HIDE DEF T
  <2> QED BY <1>1, <2>1, <2>2, <2>3 DEF AuthRequest
<1>5. T.queries[r] = IF T.request[r].dns THEN 1 ELSE 0
  BY <1>2, <1>4 DEF Sound, Owned
<1> HIDE DEF T
<1>6. \A f \in Fd : f # T.request[r].fd
  BY <1>4
<1>7. \A f \in Fd : T.fd_table[f] =
                IF f = T.request[r].fd THEN [handler |-> T.request[r].ident, data |-> r]
                ELSE IF f = S.request[r].fd THEN Closed ELSE S.fd_table[f]
  BY <1>4, <1>6
<1>8. /\ Sound(T) /\ InUse(T) = InUse(S)
      /\ \A q \in Request \ {r} : Pending(T, q) <=> Pending(S, q)
  BY <1>2, <1>3, <1>4, <1>5, <1>7, TouchSound DEF Touched
<1> QED BY <1>2, <1>4, <1>8 DEF T

(* The end of auth_connect_callback.                                       *)
LEMMA AskedSound ==
    ASSUME NEW S, Sound(S), NEW r \in Request, r \in InUse(S), S.request[r].ident # "no"
    PROVE  LET T == Asked(S, r)
           IN  /\ Sound(T) /\ InUse(T) = InUse(S)
               /\ \A q \in Request \ {r} : Pending(T, q) <=> Pending(S, q)
               /\ T.auth_poll_list = S.auth_poll_list
               /\ Pending(T, r)
<1> USE AuthAssumption
<1> DEFINE T == Asked(S, r)
<1>1. S \in System /\ S.request[r] \in AuthRequest /\ S.request[r].fd \in Fd
  BY Fields DEF Sound, Clean, AuthRequest
<1>2. /\ T.request = [S.request EXCEPT ![r] = [S.request[r] EXCEPT !.ident = "pending"]]
      /\ T.fd_table = [S.fd_table EXCEPT ![S.request[r].fd].handler = "pending"]
      /\ T.auth_request = S.auth_request /\ T.status = S.status /\ T.listed = S.listed
      /\ T.auth_poll_list = S.auth_poll_list /\ T.queries = S.queries
      /\ T = [S EXCEPT !.request = T.request, !.fd_table = T.fd_table]
  BY <1>1, Fields DEF Asked, System
<1> DEFINE e == [S.fd_table[S.request[r].fd] EXCEPT !.handler = "pending"]
<1>3. e \in Entry /\ e = [handler |-> "pending", data |-> r]
  <2>1. S.fd_table[S.request[r].fd] \in Entry /\ S.fd_table[S.request[r].fd].data = r
    BY <1>1, Fields DEF Sound, Owned
  <2> QED BY <2>1 DEF Entry
<1>4. T \in System
  <2>1. T.request \in [Request -> AuthRequest]
    BY <1>1, <1>2, Fields DEF AuthRequest
  <2>2. T.fd_table \in [Fd -> Entry]
    <3>1. S.fd_table \in [Fd -> Entry]
      BY <1>1, Fields
    <3>2. T.fd_table = [S.fd_table EXCEPT ![S.request[r].fd] = e]
      BY <1>2 DEF e
    <3> HIDE DEF T, e
    <3> QED BY <1>3, <3>1, <3>2
  <2> HIDE DEF T
  <2> QED BY <1>1, <1>2, <2>1, <2>2 DEF System
<1>5. /\ \A q \in Request \ {r} : T.request[q] = S.request[q] /\ T.queries[q] = S.queries[q]
      /\ T.request[r].client = S.request[r].client /\ T.request[r].dns = S.request[r].dns
      /\ T.request[r].fd = S.request[r].fd /\ T.request[r].ident = "pending"
  <2>1. S.request \in [Request -> AuthRequest]
    BY <1>1, Fields
  <2>2. T.request = [S.request EXCEPT ![r] = [S.request[r] EXCEPT !.ident = "pending"]] /\ T.queries = S.queries
    BY <1>2
  <2> HIDE DEF T
  <2>3. T.request[r] = [S.request[r] EXCEPT !.ident = "pending"]
    BY <2>1, <2>2
  <2>4. \A q \in Request \ {r} : T.request[q] = S.request[q] /\ T.queries[q] = S.queries[q]
    BY <2>1, <2>2
  <2> QED BY <1>1, <2>3, <2>4 DEF AuthRequest
<1>6. \A f \in Fd : T.fd_table[f] =
         IF f = S.request[r].fd THEN [handler |-> "pending", data |-> r] ELSE S.fd_table[f]
  <2>1. S.fd_table \in [Fd -> Entry]
    BY <1>1, Fields
  <2>2. T.fd_table = [S.fd_table EXCEPT ![S.request[r].fd] = e]
    BY <1>2 DEF e
  <2> HIDE DEF T, e
  <2> QED BY <1>1, <1>3, <2>1, <2>2
<1> HIDE DEF T, e
<1>7. T.queries[r] = IF T.request[r].dns THEN 1 ELSE 0
  <2>1. S.queries[r] = IF S.request[r].dns THEN 1 ELSE 0
    BY DEF Sound, Owned
  <2> QED BY <1>2, <1>5, <2>1
<1>8. \A f \in Fd : T.fd_table[f] =
                IF f = T.request[r].fd THEN [handler |-> T.request[r].ident, data |-> r]
                ELSE IF f = S.request[r].fd THEN Closed ELSE S.fd_table[f]
  BY <1>5, <1>6
<1>9. /\ Sound(T) /\ InUse(T) = InUse(S)
      /\ \A q \in Request \ {r} : Pending(T, q) <=> Pending(S, q)
  <2>1. T.request[r].fd = NULL <=> T.request[r].ident = "no"
    BY <1>1, <1>5
  <2>2. T.request[r].fd \in {NULL, S.request[r].fd}
    BY <1>5
  <2> QED BY <1>2, <1>4, <1>5, <1>7, <1>8, <2>1, <2>2, TouchSound DEF Touched
<1> QED BY <1>2, <1>5, <1>9 DEF T, Pending

(* A query of the resolver begins, ends, or is followed by another.        *)
Queried(S, r, req, n) == [S EXCEPT !.request[r] = req, !.queries[r] = n]
(* adns has one query for a request that waits for dns, and none for       *)
(* others: asking, asking once more, and the answer.                       *)
LEMMA QueriesSound ==
    ASSUME NEW S, Sound(S), NEW r \in Request, r \in InUse(S), NEW req \in AuthRequest,
           NEW n \in 0..1, n = IF req.dns THEN 1 ELSE 0,
           req.client = S.request[r].client, req.fd = S.request[r].fd,
           req.ident = S.request[r].ident
    PROVE  LET T == Queried(S, r, req, n)
           IN  /\ Sound(T) /\ InUse(T) = InUse(S)
               /\ \A q \in Request \ {r} : Pending(T, q) <=> Pending(S, q)
               /\ T.auth_poll_list = S.auth_poll_list /\ T.request[r] = req
<1> USE AuthAssumption
<1> DEFINE T == Queried(S, r, req, n)
<1>1. S \in System /\ Owned(S)
  BY DEF Sound
<1>2. /\ T.request = [S.request EXCEPT ![r] = req] /\ T.queries = [S.queries EXCEPT ![r] = n]
      /\ T.auth_request = S.auth_request /\ T.status = S.status /\ T.listed = S.listed
      /\ T.auth_poll_list = S.auth_poll_list /\ T.fd_table = S.fd_table
      /\ T = [S EXCEPT !.request = T.request, !.queries = T.queries]
  BY <1>1 DEF System, Queried
<1>3. T \in System
  <2>1. T.request \in [Request -> AuthRequest] /\ T.queries \in [Request -> 0..1]
    BY <1>1, <1>2, Fields
  <2> HIDE DEF T
  <2> QED BY <1>1, <1>2, <2>1 DEF System
<1> HIDE DEF T
<1>4. /\ \A q \in Request \ {r} : T.request[q] = S.request[q] /\ T.queries[q] = S.queries[q]
      /\ T.request[r] = req /\ T.queries[r] = n
  BY <1>1, <1>2, Fields
<1>5. ASSUME NEW f \in Fd, f = S.request[r].fd
      PROVE  S.fd_table[f] = [handler |-> S.request[r].ident, data |-> r]
  <2>1. S.fd_table[f].data = r /\ S.fd_table[f] \in Entry
    BY <1>1, <1>5, Fields DEF Owned
  <2>2. S.fd_table[f].handler = S.request[r].ident
    BY <1>1, <2>1 DEF Owned, Closed
  <2> QED BY <2>1, <2>2 DEF Entry
<1>6. \A f \in Fd : T.fd_table[f] =
                IF f = T.request[r].fd THEN [handler |-> T.request[r].ident, data |-> r]
                ELSE IF f = S.request[r].fd THEN Closed ELSE S.fd_table[f]
  BY <1>2, <1>4, <1>5
<1>7. T.request[r].fd = NULL <=> T.request[r].ident = "no"
  BY <1>4 DEF Sound, Clean
<1>8. /\ Sound(T) /\ InUse(T) = InUse(S)
      /\ \A q \in Request \ {r} : Pending(T, q) <=> Pending(S, q)
  <2>1. T.request[r].fd \in {NULL, S.request[r].fd} /\ T.request[r].client = S.request[r].client
    BY <1>4
  <2>2. T.queries[r] = IF T.request[r].dns THEN 1 ELSE 0
    BY <1>4
  <2> QED BY <1>2, <1>3, <1>4, <1>6, <1>7, <2>1, <2>2, TouchSound DEF Touched
<1> QED BY <1>2, <1>4, <1>8 DEF T

(* start_auth gives the client a request.                                  *)
Made(S, r, c) ==
    [S EXCEPT !.request[r] = [Free EXCEPT !.client = c],
              !.auth_request[c] = r, !.status[c] = "waiting"]
(* start_auth up to the ident query: a block that was free, with dns       *)
(* pending.                                                                *)
LEMMA MadeSound ==
    ASSUME NEW S, Sound(S), NEW r \in Request, r \notin InUse(S),
           NEW c \in Client, S.status[c] = "accepted"
    PROVE  LET T == Made(S, r, c)
           IN  /\ Sound(T) /\ InUse(T) = InUse(S) \union {r}
               /\ \A q \in Request \ {r} : Pending(T, q) <=> Pending(S, q)
               /\ T.auth_poll_list = S.auth_poll_list
               /\ T.request[r] = [Free EXCEPT !.client = c]
<1> USE AuthAssumption
<1> DEFINE req == [Free EXCEPT !.client = c]
           T == Made(S, r, c)
<1>1. S \in System /\ Owned(S) /\ Clean(S) /\ Paired(S)
  BY DEF Sound
<1>2. /\ req \in AuthRequest /\ req.client = c /\ req.client # NULL /\ ~req.dns
      /\ req.ident = "no" /\ req.fd = NULL
  BY DEF Free, AuthRequest
<1>3. /\ T = [S EXCEPT !.request = T.request, !.auth_request = T.auth_request, !.status = T.status]
      /\ T.request = [S.request EXCEPT ![r] = req]
      /\ T.auth_request = [S.auth_request EXCEPT ![c] = r]
      /\ T.status = [S.status EXCEPT ![c] = "waiting"]
      /\ T.listed = S.listed /\ T.auth_poll_list = S.auth_poll_list
      /\ T.fd_table = S.fd_table /\ T.queries = S.queries
  BY <1>1 DEF System, Made
<1> HIDE DEF req
<1>4. T \in System
  <2>1. /\ T.request \in [Request -> AuthRequest]
        /\ T.auth_request \in [Client -> Request \union {NULL}]
        /\ T.status \in [Client -> {"free", "accepted", "waiting", "unknown", "client", "gone"}]
    BY <1>1, <1>2, <1>3, Fields
  <2> HIDE DEF T
  <2> QED BY <1>1, <1>3, <2>1 DEF System
<1> HIDE DEF T
<1>5. /\ T.request[r] = req /\ \A q \in Request \ {r} : T.request[q] = S.request[q]
      /\ T.auth_request[c] = r /\ T.status[c] = "waiting"
      /\ \A d \in Client \ {c} : T.auth_request[d] = S.auth_request[d] /\ T.status[d] = S.status[d]
  BY <1>1, <1>3, Fields
<1>6. InUse(T) = InUse(S) \union {r}
  BY <1>2, <1>5 DEF InUse
<1>7. S.request[r] = Free /\ S.queries[r] = 0 /\ \A f \in Fd : S.fd_table[f].data # r
  <2>1. S.request[r] = Free
    BY <1>1 DEF Clean
  <2>2. S.queries[r] = 0
    BY <1>1, <2>1 DEF Owned, Free
  <2>3. \A f \in Fd : S.fd_table[f].data # r
    BY <1>1 DEF Owned, Closed
  <2> QED BY <2>1, <2>2, <2>3
<1>8. Owned(T)
  <2>1. \A q \in Request : T.queries[q] = IF T.request[q].dns THEN 1 ELSE 0
    BY <1>1, <1>2, <1>3, <1>5, <1>7 DEF Owned
  <2>2. ASSUME NEW f \in Fd, T.fd_table[f] # Closed
        PROVE  /\ T.fd_table[f].data \in InUse(T)
               /\ T.request[T.fd_table[f].data].fd = f
               /\ T.request[T.fd_table[f].data].ident = T.fd_table[f].handler
    <3>1. S.fd_table[f] # Closed /\ S.fd_table[f].data # r
      BY <1>3, <1>7, <2>2
    <3>2. S.fd_table[f].data \in InUse(S) /\ S.fd_table[f].data \in Request \ {r}
      BY <1>1, <3>1 DEF Owned, InUse
    <3> QED BY <1>1, <1>3, <1>5, <1>6, <3>1, <3>2 DEF Owned
  <2>3. \A q \in Request : T.request[q].fd # NULL => T.fd_table[T.request[q].fd].data = q
    BY <1>1, <1>2, <1>3, <1>5 DEF Owned
  <2> QED BY <2>1, <2>2, <2>3 DEF Owned
<1>9. Clean(T)
  BY <1>1, <1>2, <1>5, <1>6 DEF Clean
<1>10. Paired(T)
  <2>1. S.auth_request[c] = NULL /\ S.listed[c] = 0
    BY <1>1 DEF Paired
  <2>2. ASSUME NEW d \in Client
        PROVE  /\ T.status[d] = "waiting" <=> T.auth_request[d] # NULL
               /\ T.auth_request[d] # NULL => T.request[T.auth_request[d]].client = d
               /\ T.listed[d] = IF T.status[d] \in {"unknown", "client"} THEN 1 ELSE 0
    <3>1. CASE d = c
      BY <1>2, <1>3, <1>5, <2>1, <3>1
    <3>2. CASE d # c
      <4>1. S.auth_request[d] # NULL =>
               S.auth_request[d] \in Request \ {r} /\ S.request[S.auth_request[d]].client = d
        BY <1>1, <1>7, Fields DEF Paired, Free
      <4> QED BY <1>1, <1>3, <1>5, <3>2, <4>1 DEF Paired
    <3> QED BY <3>1, <3>2
  <2>3. ASSUME NEW q \in InUse(T) PROVE T.auth_request[T.request[q].client] = q
    <3>1. CASE q = r
      BY <1>2, <1>5, <3>1
    <3>2. CASE q # r
      <4>1. q \in InUse(S) /\ q \in Request \ {r}
        BY <1>6, <3>2 DEF InUse
      <4>2. S.request[q].client \in Client /\ S.auth_request[S.request[q].client] = q
        BY <1>1, <4>1, Fields DEF Paired, InUse, AuthRequest
      <4>3. S.request[q].client # c
        BY <2>1, <4>1, <4>2
      <4> QED BY <1>5, <4>1, <4>2, <4>3
    <3> QED BY <3>1, <3>2
  <2> QED BY <2>2, <2>3 DEF Paired
<1>11. \A q \in Request \ {r} : Pending(T, q) <=> Pending(S, q)
  BY <1>5 DEF Pending
<1> QED BY <1>3, <1>4, <1>5, <1>6, <1>8, <1>9, <1>10, <1>11 DEF Sound, T, req

(* start_auth_query, while the name is asked for.                          *)
LEMMA OpenSound ==
    ASSUME NEW S, Sound(S), NEW r \in Request, r \in InUse(S), S.request[r].ident = "no",
           NEW f \in CommOpen(S)
    PROVE  LET T == [S EXCEPT !.request[r].fd = f, !.request[r].ident = "connecting",
                              !.fd_table[f] = [handler |-> "connecting", data |-> r]]
           IN  /\ Sound(T) /\ InUse(T) = InUse(S)
               /\ \A q \in Request \ {r} : Pending(T, q) <=> Pending(S, q)
               /\ T.auth_poll_list = S.auth_poll_list
               /\ T.request[r].dns = S.request[r].dns /\ T.request[r].ident = "connecting"
<1> USE AuthAssumption
<1> DEFINE T == [S EXCEPT !.request[r].fd = f, !.request[r].ident = "connecting",
                              !.fd_table[f] = [handler |-> "connecting", data |-> r]]
<1>1. /\ S \in System /\ S.request[r] \in AuthRequest /\ S.request[r].fd = NULL
      /\ f \in Fd /\ S.fd_table[f] = Closed
  BY Fields DEF Sound, Clean, CommOpen
<1>2. /\ T.request = [S.request EXCEPT ![r] = [S.request[r] EXCEPT !.fd = f, !.ident = "connecting"]]
      /\ T.fd_table = [S.fd_table EXCEPT ![f] = [handler |-> "connecting", data |-> r]]
      /\ T.auth_request = S.auth_request /\ T.status = S.status /\ T.listed = S.listed
      /\ T.auth_poll_list = S.auth_poll_list /\ T.queries = S.queries
      /\ T = [S EXCEPT !.request = T.request, !.fd_table = T.fd_table]
  BY <1>1, Fields DEF System
<1>3. T \in System
  <2>1. [S.request[r] EXCEPT !.fd = f, !.ident = "connecting"] \in AuthRequest
    BY <1>1 DEF AuthRequest
  <2>2. T.request \in [Request -> AuthRequest]
    BY <1>1, <1>2, <2>1, Fields
  <2>3. T.fd_table \in [Fd -> Entry]
    BY <1>1, <1>2, Fields DEF Entry
  <2> HIDE DEF T
  <2> QED BY <1>1, <1>2, <2>2, <2>3 DEF System
<1>4. /\ T.request[r] = [S.request[r] EXCEPT !.fd = f, !.ident = "connecting"]
      /\ \A q \in Request \ {r} : T.request[q] = S.request[q] /\ T.queries[q] = S.queries[q]
      /\ \A g \in Fd : T.fd_table[g] =
            IF g = f THEN [handler |-> "connecting", data |-> r] ELSE S.fd_table[g]
  BY <1>1, <1>2, Fields
<1> HIDE DEF T
<1>5. /\ T.request[r].fd = f /\ T.request[r].ident = "connecting"
      /\ T.request[r].dns = S.request[r].dns /\ T.request[r].client = S.request[r].client
  BY <1>1, <1>4 DEF AuthRequest
<1>6. T.queries[r] = IF T.request[r].dns THEN 1 ELSE 0
  BY <1>2, <1>5 DEF Sound, Owned
<1>7. \A g \in Fd : T.fd_table[g] =
                IF g = T.request[r].fd THEN [handler |-> T.request[r].ident, data |-> r]
                ELSE IF g = S.request[r].fd THEN Closed ELSE S.fd_table[g]
  BY <1>1, <1>4, <1>5
<1>8. /\ T.request[r].fd = NULL <=> T.request[r].ident = "no"
      /\ S.fd_table[T.request[r].fd] = Closed
  BY <1>1, <1>5
<1>9. /\ Sound(T) /\ InUse(T) = InUse(S)
      /\ \A q \in Request \ {r} : Pending(T, q) <=> Pending(S, q)
  BY <1>2, <1>3, <1>4, <1>5, <1>6, <1>7, <1>8, TouchSound DEF Touched
<1> QED BY <1>2, <1>5, <1>9 DEF T

(* start_auth_query, however far it gets.                                  *)
LEMMA StartAuthQuerySound ==
    ASSUME NEW S, Sound(S), NEW r \in Request, r \in InUse(S), S.request[r].ident = "no",
           S.request[r].dns = TRUE, NEW U \in StartAuthQuery(S, r)
    PROVE  /\ Sound(U) /\ InUse(U) = InUse(S)
           /\ \A q \in Request \ {r} : Pending(U, q) <=> Pending(S, q)
           /\ U.auth_poll_list = S.auth_poll_list /\ Pending(U, r)
<1>1. CASE U = S
  BY <1>1 DEF Pending
<1>2. ASSUME NEW f \in CommOpen(S),
             LET T == [S EXCEPT !.request[r].fd = f, !.request[r].ident = "connecting",
                                !.fd_table[f] = [handler |-> "connecting", data |-> r]]
             IN  U \in {T, Asked(T, r), IdentEnds(T, r, Silence)}
      PROVE  /\ Sound(U) /\ InUse(U) = InUse(S)
             /\ \A q \in Request \ {r} : Pending(U, q) <=> Pending(S, q)
             /\ U.auth_poll_list = S.auth_poll_list /\ Pending(U, r)
  <2> DEFINE T == [S EXCEPT !.request[r].fd = f, !.request[r].ident = "connecting",
                            !.fd_table[f] = [handler |-> "connecting", data |-> r]]
  <2>1. /\ Sound(T) /\ InUse(T) = InUse(S)
        /\ \A q \in Request \ {r} : Pending(T, q) <=> Pending(S, q)
        /\ T.auth_poll_list = S.auth_poll_list
        /\ T.request[r].dns = TRUE /\ T.request[r].ident = "connecting"
    BY OpenSound
  <2>2. U \in {T, Asked(T, r), IdentEnds(T, r, Silence)}
    BY <1>2
  <2> HIDE DEF T
  <2>3. CASE U = T
    BY <2>1, <2>3 DEF Pending
  <2>4. CASE U = Asked(T, r)
    BY <2>1, <2>4, AskedSound
  <2>5. CASE U = IdentEnds(T, r, Silence)
    <3>1. /\ Sound(SocketEnds(T, r)) /\ InUse(SocketEnds(T, r)) = InUse(T)
          /\ \A q \in Request \ {r} : Pending(SocketEnds(T, r), q) <=> Pending(T, q)
          /\ SocketEnds(T, r).auth_poll_list = T.auth_poll_list
          /\ SocketEnds(T, r).request[r].dns = T.request[r].dns
      BY <2>1, SocketEndsSound
    <3>2. U = SocketEnds(T, r)
      BY <2>1, <2>5, <3>1 DEF IdentEnds, AuthRelease
    <3> QED BY <2>1, <3>1, <3>2 DEF Pending
  <2> QED BY <2>2, <2>3, <2>4, <2>5
<1> QED BY <1>1, <1>2 DEF StartAuthQuery

(* timeout_auth_queries_event cancels what is outstanding.                 *)
LEMMA GivenUpDone ==
    ASSUME NEW S, Full(S), NEW r \in Request, r \in InUse(S)
    PROVE  LET T == GivenUp(S, r)
           IN  /\ Done(T, r) /\ InUse(T) = InUse(S)
               /\ ~T.request[r].dns /\ T.request[r].ident = "no"
               /\ \A q \in Request : T.request[q].client = S.request[q].client
<1> USE AuthAssumption
<1> DEFINE I == IdentGivenUp(S, r)
           T == GivenUp(S, r)
           req == [S.request[r] EXCEPT !.ident = "no", !.dns = FALSE]
<1>1. S \in System /\ Owned(S) /\ Clean(S) /\ Paired(S) /\ S.request[r] \in AuthRequest
  BY Fields DEF Full, Sound
<1>2. /\ I.request = [S.request EXCEPT ![r] = [S.request[r] EXCEPT !.ident = "no"]]
      /\ I.fd_table = IF S.request[r].fd # NULL
                      THEN [S.fd_table EXCEPT ![S.request[r].fd] = Closed] ELSE S.fd_table
      /\ I.auth_request = S.auth_request /\ I.status = S.status /\ I.listed = S.listed
      /\ I.auth_poll_list = S.auth_poll_list /\ I.queries = S.queries
      /\ I = [S EXCEPT !.request = I.request, !.fd_table = I.fd_table]
  <2>1. CASE S.request[r].fd # NULL
    BY <1>1, <2>1, Fields DEF IdentGivenUp, FdClose, System
  <2>2. CASE S.request[r].fd = NULL
    BY <1>1, <2>2, Fields DEF IdentGivenUp, FdClose, System
  <2> QED BY <2>1, <2>2
<1>3. I \in System /\ I.request[r] = [S.request[r] EXCEPT !.ident = "no"]
  <2>1. [S.request[r] EXCEPT !.ident = "no"] \in AuthRequest
    BY <1>1 DEF AuthRequest
  <2>2. I.request \in [Request -> AuthRequest] /\ I.request[r] = [S.request[r] EXCEPT !.ident = "no"]
    BY <1>1, <1>2, <2>1, Fields
  <2>3. I.fd_table \in [Fd -> Entry]
    <3>1. S.fd_table \in [Fd -> Entry] /\ Closed \in Entry
      BY <1>1, Fields DEF Closed, Entry
    <3>2. CASE S.request[r].fd # NULL
      BY <1>2, <3>1, <3>2
    <3>3. CASE S.request[r].fd = NULL
      BY <1>2, <3>1, <3>3
    <3> QED BY <3>2, <3>3
  <2> HIDE DEF I
  <2> QED BY <1>1, <1>2, <2>2, <2>3 DEF System
<1>4. T = [I EXCEPT !.request[r].dns = FALSE,
                    !.queries[r] = IF S.request[r].dns THEN 0 ELSE @]
  BY DEF GivenUp
<1> HIDE DEF I, T
<1>5. /\ T.request = [I.request EXCEPT ![r] = [I.request[r] EXCEPT !.dns = FALSE]]
      /\ T.queries = [I.queries EXCEPT ![r] = IF S.request[r].dns THEN 0 ELSE I.queries[r]]
      /\ T.auth_request = S.auth_request /\ T.status = S.status /\ T.listed = S.listed
      /\ T.auth_poll_list = S.auth_poll_list /\ T.fd_table = I.fd_table
      /\ T = [I EXCEPT !.request = T.request, !.queries = T.queries]
  BY <1>2, <1>3, <1>4, Fields DEF System
<1>6. req \in AuthRequest /\ req.client = S.request[r].client /\ ~req.dns /\ req.ident = "no"
  BY <1>1 DEF AuthRequest
<1>7. /\ T.request[r] = req
      /\ \A q \in Request \ {r} : T.request[q] = S.request[q] /\ T.queries[q] = S.queries[q]
  <2>1. T.request[r] = [[S.request[r] EXCEPT !.ident = "no"] EXCEPT !.dns = FALSE]
    BY <1>1, <1>3, <1>5, Fields
  <2>2. T.request[r] = req
    BY <1>1, <2>1 DEF AuthRequest
  <2>3. \A q \in Request \ {r} : T.request[q] = S.request[q] /\ T.queries[q] = S.queries[q]
    BY <1>1, <1>2, <1>3, <1>5, Fields
  <2> QED BY <2>2, <2>3
<1>8. T.queries[r] = 0
  <2>1. S.queries[r] = (IF S.request[r].dns THEN 1 ELSE 0) /\ S.queries \in [Request -> 0..1]
    BY <1>1, Fields DEF Owned
  <2>2. T.queries = [S.queries EXCEPT ![r] = IF S.request[r].dns THEN 0 ELSE S.queries[r]]
    BY <1>2, <1>5
  <2> QED BY <2>1, <2>2
<1> HIDE DEF req
<1>9. T \in System
  <2>1. T.request \in [Request -> AuthRequest]
    <3>1. I.request \in [Request -> AuthRequest]
      BY <1>3, Fields
    <3>2. T.request \in [Request -> AuthRequest \union {T.request[r]}]
      BY <1>5, <3>1
    <3> QED BY <1>6, <1>7, <3>2
  <2>2. T.queries \in [Request -> 0..1]
    <3>1. I.queries \in [Request -> 0..1]
      BY <1>3, Fields
    <3>2. T.queries = [I.queries EXCEPT ![r] = IF S.request[r].dns THEN 0 ELSE I.queries[r]]
      BY <1>5
    <3> QED BY <3>1, <3>2
  <2> QED BY <1>3, <1>5, <2>1, <2>2 DEF System
<1>10. InUse(T) = InUse(S)
  BY <1>6, <1>7 DEF InUse
<1>11. Paired(T)
  <2>1. \A q \in Request : T.request[q].client = S.request[q].client
    BY <1>6, <1>7
  <2>2. \A c \in Client : S.auth_request[c] # NULL => S.auth_request[c] \in Request
    BY <1>1, Fields
  <2>3. \A q \in InUse(T) : q \in Request
    BY DEF InUse
  <2> QED BY <1>1, <1>5, <1>10, <2>1, <2>2, <2>3 DEF Paired
<1>12. ASSUME NEW f \in Fd, T.fd_table[f] # Closed
       PROVE  /\ T.fd_table[f].data \in InUse(T) \ {r}
              /\ T.request[T.fd_table[f].data].fd = f
              /\ T.request[T.fd_table[f].data].ident = T.fd_table[f].handler
  <2>1. T.fd_table[f] = S.fd_table[f] /\ S.fd_table[f] # Closed /\ f # S.request[r].fd
    <3>1. CASE S.request[r].fd # NULL
      <4>1. T.fd_table = [S.fd_table EXCEPT ![S.request[r].fd] = Closed]
        BY <1>2, <1>5, <3>1
      <4> QED BY <1>1, <1>12, <4>1, Fields
    <3>2. CASE S.request[r].fd = NULL
      BY <1>2, <1>5, <1>12, <3>2
    <3> QED BY <3>1, <3>2
  <2>2. S.fd_table[f].data \in InUse(S) \ {r}
    BY <1>1, <2>1 DEF Owned
  <2>3. S.fd_table[f].data \in Request \ {r}
    BY <2>2 DEF InUse
  <2> QED BY <1>1, <1>7, <1>10, <2>1, <2>2, <2>3 DEF Owned
<1>13. ASSUME NEW q \in Request \ {r}, T.request[q].fd # NULL
       PROVE  T.fd_table[T.request[q].fd].data = q
  <2>1. T.request[q].fd = S.request[q].fd /\ S.request[q].fd # NULL
    BY <1>7, <1>13
  <2>2. S.fd_table[S.request[q].fd].data = q
    BY <1>1, <2>1 DEF Owned
  <2>3. S.request[q].fd # S.request[r].fd
    BY <1>1, <2>1, <2>2 DEF Owned
  <2>4. S.request[q].fd \in Fd
    BY <1>1, <2>1, Fields DEF AuthRequest
  <2>5. T.fd_table[S.request[q].fd] = S.fd_table[S.request[q].fd]
    <3>1. CASE S.request[r].fd # NULL
      <4>1. T.fd_table = [S.fd_table EXCEPT ![S.request[r].fd] = Closed]
        BY <1>2, <1>5, <3>1
      <4> QED BY <1>1, <2>3, <2>4, <4>1, Fields
    <3>2. CASE S.request[r].fd = NULL
      BY <1>2, <1>5, <3>2
    <3> QED BY <3>1, <3>2
  <2> QED BY <2>1, <2>2, <2>5
<1>14. \A q \in Request : T.queries[q] = IF q # r /\ T.request[q].dns THEN 1 ELSE 0
  BY <1>1, <1>7, <1>8 DEF Owned
<1>15. \A q \in Request \ {r} : T.request[q].fd = NULL <=> T.request[q].ident = "no"
  BY <1>1, <1>7 DEF Clean
<1>16. \A q \in Request \ InUse(T) : T.request[q] = Free
  BY <1>1, <1>7, <1>10 DEF Clean
<1>17. \A q \in InUse(T) \ {r} : Pending(T, q)
  BY <1>7, <1>10 DEF Full, Pending, InUse
<1>18. r \in InUse(T) /\ Nodes(T.auth_poll_list) = InUse(T)
  BY <1>5, <1>10 DEF Full
<1>19. Done(T, r)
  BY <1>9, <1>11, <1>12, <1>13, <1>14, <1>15, <1>16, <1>17, <1>18 DEF Done
<1> QED BY <1>6, <1>7, <1>10, <1>19 DEF T

-----------------------------------------------------------------------------
(* Every step keeps the system in order.                                   *)
LEMMA ClientSteps ==
    ASSUME AuthInv, NEW c \in Client
    PROVE  Accept(c) \/ StartAuth(c) \/ Read(c) \/ CheckUnknowns(c) \/ FreeClient(c) => Full(sys')
<1> USE AuthAssumption
<1>0. Full(sys) /\ sys \in System /\ Owned(sys) /\ Clean(sys) /\ Paired(sys)
  BY DEF AuthInv, Full, Sound
<1>1. ASSUME NEW st \in {"accepted", "free"}, sys' = [sys EXCEPT !.status[c] = st],
             sys.status[c] \in {"free", "gone"}
      PROVE  Full(sys')
  <2>1. /\ sys'.status = [sys.status EXCEPT ![c] = st]
        /\ sys'.request = sys.request /\ sys'.auth_request = sys.auth_request
        /\ sys'.listed = sys.listed /\ sys'.auth_poll_list = sys.auth_poll_list
        /\ sys'.fd_table = sys.fd_table /\ sys'.queries = sys.queries
        /\ sys' = [sys EXCEPT !.status = sys'.status]
    BY <1>0, <1>1 DEF System
  <2>2. sys' \in System
    <3>1. sys'.status \in [Client -> {"free", "accepted", "waiting", "unknown", "client", "gone"}]
      BY <1>0, <2>1, Fields
    <3> QED BY <1>0, <2>1, <3>1 DEF System
  <2>3. InUse(sys') = InUse(sys) /\ Owned(sys') /\ Clean(sys')
    BY <1>0, <2>1 DEF InUse, Owned, Clean
  <2>4. Paired(sys')
    <3>1. sys'.status[c] = st /\ \A d \in Client \ {c} : sys'.status[d] = sys.status[d]
      BY <1>0, <2>1, Fields
    <3>2. sys.auth_request[c] = NULL /\ sys.listed[c] = 0
      BY <1>0, <1>1 DEF Paired
    <3> QED BY <1>0, <2>1, <2>3, <3>1, <3>2 DEF Paired
  <2> QED BY <1>0, <2>1, <2>2, <2>3, <2>4 DEF Full, Sound, Pending
<1>2. ASSUME StartAuth(c) PROVE Full(sys')
  <2>1. PICK r \in Request \ InUse(sys) :
            LET made == [sys EXCEPT !.request[r] = [Free EXCEPT !.client = c],
                                    !.auth_request[c] = r, !.status[c] = "waiting"]
            IN  \E S \in StartAuthQuery(Submitted(made, r), r) :
                    sys' = [S EXCEPT !.auth_poll_list = Link(@, r)]
    BY <1>2 DEF StartAuth
  <2> DEFINE made == Made(sys, r, c)
             sub == Submitted(made, r)
             req == [Free EXCEPT !.client = c, !.dns = TRUE]
  <2>2. /\ Sound(made) /\ InUse(made) = InUse(sys) \union {r}
        /\ \A q \in Request \ {r} : Pending(made, q) <=> Pending(sys, q)
        /\ made.auth_poll_list = sys.auth_poll_list
        /\ made.request[r] = [Free EXCEPT !.client = c]
    <3>1. Sound(sys) /\ r \in Request /\ r \notin InUse(sys) /\ sys.status[c] = "accepted"
      BY <1>0, <1>2 DEF Sound, StartAuth
    <3> QED BY <3>1, MadeSound
  <2> HIDE DEF made
  <2>3. made \in System /\ made.queries[r] = 0 /\ made.request[r] \in AuthRequest
    BY <2>2, Fields DEF Sound, Owned, Free
  <2>4. sub = Queried(made, r, req, 1)
    <3>1. sub = [made EXCEPT !.queries[r] = made.queries[r] + 1, !.request[r].dns = TRUE]
      BY DEF Submitted
    <3>2. req = [[Free EXCEPT !.client = c] EXCEPT !.dns = TRUE]
      BY DEF Free
    <3>3. sub.request = [made.request EXCEPT ![r] = req] /\ sub.queries = [made.queries EXCEPT ![r] = 1]
      <4>1. /\ sub.request = [made.request EXCEPT ![r] = [made.request[r] EXCEPT !.dns = TRUE]]
            /\ sub.queries = [made.queries EXCEPT ![r] = made.queries[r] + 1]
        BY <2>3, <3>1, Fields DEF System
      <4> QED BY <2>2, <2>3, <3>2, <4>1
    <3>4. /\ sub.auth_request = made.auth_request /\ sub.status = made.status
          /\ sub.listed = made.listed /\ sub.auth_poll_list = made.auth_poll_list
          /\ sub.fd_table = made.fd_table
          /\ sub = [made EXCEPT !.request = sub.request, !.queries = sub.queries]
      BY <2>3, <3>1 DEF System
    <3> QED BY <2>3, <3>3, <3>4 DEF System, Queried
  <2>5. /\ req \in AuthRequest /\ req.client = made.request[r].client
        /\ req.fd = made.request[r].fd /\ req.ident = made.request[r].ident
        /\ req.dns = TRUE /\ req.ident = "no"
    BY <2>2 DEF Free, AuthRequest
  <2> HIDE DEF sub, req
  <2>6. /\ Sound(sub) /\ InUse(sub) = InUse(made)
        /\ \A q \in Request \ {r} : Pending(sub, q) <=> Pending(made, q)
        /\ sub.auth_poll_list = made.auth_poll_list /\ sub.request[r] = req
    <3>1. r \in InUse(made) /\ 1 \in 0..1 /\ 1 = IF req.dns THEN 1 ELSE 0
      BY <2>2, <2>5
    <3> DEFINE asked == Queried(made, r, req, 1)
    <3>2. /\ Sound(asked) /\ InUse(asked) = InUse(made)
          /\ \A q \in Request \ {r} : Pending(asked, q) <=> Pending(made, q)
          /\ asked.auth_poll_list = made.auth_poll_list /\ asked.request[r] = req
      <4>1. Sound(made) /\ r \in Request /\ r \in InUse(made) /\ req \in AuthRequest
        BY <2>2, <2>5
      <4>2. req.client = made.request[r].client /\ req.fd = made.request[r].fd
            /\ req.ident = made.request[r].ident
        BY <2>5
      <4> QED BY <3>1, <4>1, <4>2, QueriesSound
    <3> HIDE DEF asked
    <3>3. sub = asked
      BY <2>4 DEF asked
    <3> QED BY <3>2, <3>3
  <2>7. PICK S \in StartAuthQuery(sub, r) : sys' = [S EXCEPT !.auth_poll_list = Link(S.auth_poll_list, r)]
    BY <2>1 DEF sub, made, Made
  <2>8. /\ Sound(S) /\ InUse(S) = InUse(sys) \union {r}
        /\ \A q \in Request \ {r} : Pending(S, q) <=> Pending(sys, q)
        /\ S.auth_poll_list = sys.auth_poll_list /\ Pending(S, r)
    <3>1. r \in InUse(sub) /\ sub.request[r].ident = "no" /\ sub.request[r].dns = TRUE
      BY <2>2, <2>5, <2>6
    <3>2. /\ Sound(S) /\ InUse(S) = InUse(sub)
          /\ \A q \in Request \ {r} : Pending(S, q) <=> Pending(sub, q)
          /\ S.auth_poll_list = sub.auth_poll_list /\ Pending(S, r)
      BY <2>6, <3>1, StartAuthQuerySound
    <3> QED BY <2>2, <2>6, <3>2
  <2>9. /\ S \in System
        /\ sys'.auth_poll_list = Link(S.auth_poll_list, r)
        /\ sys'.request = S.request /\ sys'.auth_request = S.auth_request
        /\ sys'.listed = S.listed /\ sys'.status = S.status
        /\ sys'.fd_table = S.fd_table /\ sys'.queries = S.queries
        /\ sys' = [S EXCEPT !.auth_poll_list = sys'.auth_poll_list]
    BY <2>7, <2>8 DEF Sound, System
  <2>10. /\ sys'.auth_poll_list \in SUBSET (Request \X Request)
         /\ Nodes(sys'.auth_poll_list) = InUse(sys) \union {r}
    BY <1>0, <2>8, <2>9, LinkNodes, Fields DEF Full
  <2>11. sys' \in System
    BY <2>9, <2>10 DEF System
  <2>12. InUse(sys') = InUse(S) /\ Owned(sys') /\ Clean(sys') /\ Paired(sys')
    <3>1. InUse(sys') = InUse(S)
      BY <2>9 DEF InUse
    <3>2. Owned(S) /\ Clean(S) /\ Paired(S)
      BY <2>8 DEF Sound
    <3>3. Owned(sys')
      BY <2>9, <3>1, <3>2 DEF Owned
    <3>4. Clean(sys')
      BY <2>9, <3>1, <3>2 DEF Clean
    <3>5. Paired(sys')
      BY <2>9, <3>1, <3>2 DEF Paired
    <3> QED BY <3>1, <3>3, <3>4, <3>5
  <2>13. \A q \in InUse(sys') : Pending(sys', q)
    <3>1. \A q \in Request : Pending(sys', q) <=> Pending(S, q)
      BY <2>9 DEF Pending
    <3> QED BY <1>0, <2>8, <2>12, <3>1 DEF Full, InUse
  <2> QED BY <2>8, <2>10, <2>11, <2>12, <2>13 DEF Full, Sound
<1>3. ASSUME Read(c) PROVE Full(sys')
  <2>1. PICK line \in Said(Line) : sys' = AuthReadPacket(sys, c, line)
    BY <1>3 DEF Read
  <2>2. sys.status[c] \in {"unknown", "client"}
    BY <1>3 DEF Read
  <2>3. Full(AuthReadPacket(sys, c, line))
    BY <1>0, <2>2, ReadPacketFull
  <2> QED BY <2>1, <2>3
<1>4. ASSUME CheckUnknowns(c) PROVE Full(sys')
  <2>1. {c} \in SUBSET Client
    OBVIOUS
  <2>2. sys' = ExitAll(sys, {c})
    BY <1>4 DEF CheckUnknowns
  <2>3. Full(ExitAll(sys, {c}))
    BY <1>0, <2>1, ExitAllFull
  <2> QED BY <2>2, <2>3
<1> QED BY <1>1, <1>2, <1>3, <1>4 DEF Accept, FreeClient

(* The steps of a request: the answers of the resolver, and its timeout.   *)
LEMMA RequestSteps ==
    ASSUME AuthInv, NEW r \in Request
    PROVE  DnsRetry(r) \/ DnsAnswer(r) \/ Expire(r) => Full(sys')
<1> USE AuthAssumption
<1>0. Full(sys) /\ Sound(sys) /\ sys \in System /\ Owned(sys)
  BY DEF AuthInv, Full, Sound
<1>1. ASSUME sys.queries[r] > 0
      PROVE  /\ sys.queries[r] = 1 /\ sys.request[r].dns = TRUE /\ r \in InUse(sys)
             /\ sys.request[r] \in AuthRequest
             /\ Answered(sys, r) = Queried(sys, r, [sys.request[r] EXCEPT !.dns = FALSE], 0)
             /\ [Submitted(Answered(sys, r), r) EXCEPT !.request[r].ip6_int = TRUE]
                  = Queried(sys, r, [sys.request[r] EXCEPT !.ip6_int = TRUE], 1)
  <2>1. sys.queries[r] = 1 /\ sys.request[r].dns = TRUE
    BY <1>0, <1>1, Fields DEF Owned
  <2>2. r \in InUse(sys) /\ sys.request[r] \in AuthRequest
    BY <1>0, <2>1, Fields DEF Sound, Clean, Free
  <2>3. Answered(sys, r) = Queried(sys, r, [sys.request[r] EXCEPT !.dns = FALSE], 0)
    <3> DEFINE A == Answered(sys, r)
    <3>1. /\ A.request = [sys.request EXCEPT ![r] = [sys.request[r] EXCEPT !.dns = FALSE]]
          /\ A.queries = [sys.queries EXCEPT ![r] = 0]
          /\ A = [sys EXCEPT !.request = A.request, !.queries = A.queries]
      <4>1. /\ A.request = [sys.request EXCEPT ![r].dns = FALSE]
            /\ A.queries = [sys.queries EXCEPT ![r] = sys.queries[r] - 1]
        BY <1>0 DEF Answered, System
      <4>2. A = [sys EXCEPT !.request = A.request, !.queries = A.queries]
        BY <1>0, <4>1 DEF Answered, System
      <4> HIDE DEF A
      <4> QED BY <1>0, <2>1, <4>1, <4>2, Fields
    <3> HIDE DEF A
    <3> QED BY <1>0, <3>1 DEF Queried, System, A
  <2>4. [Submitted(Answered(sys, r), r) EXCEPT !.request[r].ip6_int = TRUE]
                  = Queried(sys, r, [sys.request[r] EXCEPT !.ip6_int = TRUE], 1)
    <3> DEFINE A == Answered(sys, r)
               B == [Submitted(A, r) EXCEPT !.request[r].ip6_int = TRUE]
               C == Queried(sys, r, [sys.request[r] EXCEPT !.ip6_int = TRUE], 1)
    <3>1. /\ A.request = [sys.request EXCEPT ![r].dns = FALSE]
          /\ A.queries = [sys.queries EXCEPT ![r] = 0]
          /\ A.auth_request = sys.auth_request /\ A.status = sys.status /\ A.listed = sys.listed
          /\ A.auth_poll_list = sys.auth_poll_list /\ A.fd_table = sys.fd_table
          /\ A = [sys EXCEPT !.queries = A.queries, !.request = A.request]
      BY <1>0, <2>1, Fields DEF Answered, System
    <3> HIDE DEF A
    <3>2. /\ B.request = [A.request EXCEPT ![r] = [[A.request[r] EXCEPT !.dns = TRUE] EXCEPT !.ip6_int = TRUE]]
          /\ B.queries = [A.queries EXCEPT ![r] = A.queries[r] + 1]
          /\ B = [A EXCEPT !.queries = B.queries, !.request = B.request]
      <4>1. A \in [request : [Request -> AuthRequest], auth_request : [Client -> Request \union {NULL}],
                    auth_poll_list : SUBSET (Request \X Request), fd_table : [Fd -> Entry],
                    queries : [Request -> {0, sys.queries[r]} \union 0..1],
                    status : [Client -> {"free", "accepted", "waiting", "unknown", "client", "gone"}],
                    listed : [Client -> 0..1]]
        <5>1. A.request \in [Request -> AuthRequest]
          <6>1. [sys.request[r] EXCEPT !.dns = FALSE] \in AuthRequest
            BY <2>2 DEF AuthRequest
          <6> QED BY <1>0, <3>1, <6>1, Fields
        <5>2. A.queries \in [Request -> {0, sys.queries[r]} \union 0..1]
          BY <1>0, <3>1, Fields
        <5> QED BY <1>0, <3>1, <5>1, <5>2 DEF System
      <4> DEFINE q == [A.request EXCEPT ![r] = [[A.request[r] EXCEPT !.dns = TRUE] EXCEPT !.ip6_int = TRUE]]
                 n == [A.queries EXCEPT ![r] = A.queries[r] + 1]
      <4>2. B = [A EXCEPT !.queries = n, !.request = q]
        BY <4>1 DEF Submitted
      <4> HIDE DEF B, q, n
      <4>3. B.request = q /\ B.queries = n /\ B = [A EXCEPT !.queries = B.queries, !.request = B.request]
        BY <4>1, <4>2
      <4> QED BY <4>3 DEF q, n
    <3> HIDE DEF B
    <3>3. A.request[r] = [sys.request[r] EXCEPT !.dns = FALSE]
      BY <1>0, <3>1, Fields
    <3>4. [[A.request[r] EXCEPT !.dns = TRUE] EXCEPT !.ip6_int = TRUE]
            = [sys.request[r] EXCEPT !.ip6_int = TRUE]
      BY <2>1, <2>2, <3>3 DEF AuthRequest
    <3>5. /\ B.request = [sys.request EXCEPT ![r] = [sys.request[r] EXCEPT !.ip6_int = TRUE]]
          /\ B.queries = [sys.queries EXCEPT ![r] = 1]
      BY <1>0, <3>1, <3>2, <3>4, Fields
    <3>6. B = [sys EXCEPT !.request = B.request, !.queries = B.queries]
      BY <1>0, <3>1, <3>2 DEF System
    <3> QED BY <1>0, <3>5, <3>6 DEF Queried, System, B, A
  <2> QED BY <2>1, <2>2, <2>3, <2>4
<1>2. ASSUME DnsRetry(r) PROVE Full(sys')
  <2> DEFINE req == [sys.request[r] EXCEPT !.ip6_int = TRUE]
  <2>1. sys' = Queried(sys, r, req, 1) /\ sys.request[r].dns = TRUE /\ r \in InUse(sys)
    BY <1>1, <1>2 DEF DnsRetry
  <2>2. /\ req \in AuthRequest /\ req.dns = TRUE /\ req.client = sys.request[r].client
        /\ req.fd = sys.request[r].fd /\ req.ident = sys.request[r].ident
    BY <1>1, <1>2 DEF DnsRetry, AuthRequest
  <2> HIDE DEF req
  <2>3. /\ Sound(sys') /\ InUse(sys') = InUse(sys)
        /\ \A q \in Request \ {r} : Pending(sys', q) <=> Pending(sys, q)
        /\ sys'.auth_poll_list = sys.auth_poll_list /\ sys'.request[r] = req
    <3>1. 1 \in 0..1 /\ 1 = IF req.dns THEN 1 ELSE 0
      BY <2>2
    <3> QED BY <1>0, <2>1, <2>2, <3>1, QueriesSound
  <2>4. Pending(sys', r)
    BY <2>2, <2>3 DEF Pending
  <2> QED BY <1>0, <2>3, <2>4 DEF Full, InUse
<1>3. ASSUME DnsAnswer(r) PROVE Full(sys')
  <2> DEFINE req == [sys.request[r] EXCEPT !.dns = FALSE]
             T == Queried(sys, r, req, 0)
  <2>1. PICK line \in Said(Lines) : sys' = AuthRelease(Answered(sys, r), r, line)
    BY <1>3 DEF DnsAnswer
  <2>2. r \in InUse(sys) /\ Answered(sys, r) = T /\ line \in Said(Line)
    BY <1>1, <1>3, <2>1, SaidOfLines DEF DnsAnswer
  <2>3. /\ req \in AuthRequest /\ req.dns = FALSE /\ req.client = sys.request[r].client
        /\ req.fd = sys.request[r].fd /\ req.ident = sys.request[r].ident
    BY <1>1, <1>3 DEF DnsAnswer, AuthRequest
  <2> HIDE DEF req
  <2>4. /\ Sound(T) /\ InUse(T) = InUse(sys)
        /\ \A q \in Request \ {r} : Pending(T, q) <=> Pending(sys, q)
        /\ T.auth_poll_list = sys.auth_poll_list
    <3>1. 0 \in 0..1 /\ 0 = IF req.dns THEN 1 ELSE 0
      BY <2>3
    <3> QED BY <1>0, <2>2, <2>3, <3>1, QueriesSound
  <2> HIDE DEF T
  <2>5. /\ \A q \in InUse(T) \ {r} : Pending(T, q)
        /\ Nodes(T.auth_poll_list) = InUse(T) /\ r \in InUse(T)
    BY <1>0, <2>2, <2>4 DEF Full, InUse
  <2> QED BY <2>1, <2>2, <2>4, <2>5, ReleaseFull
<1>4. ASSUME Expire(r) PROVE Full(sys')
  BY <1>0, <1>4 DEF Expire
<1> QED BY <1>2, <1>3, <1>4

(* The steps of an ident socket.                                           *)
LEMMA SocketSteps ==
    ASSUME AuthInv, NEW f \in Fd
    PROVE  IdentConnected(f) \/ IdentRefused(f) \/ IdentTimeout(f) \/ IdentReply(f) => Full(sys')
<1> USE AuthAssumption
<1> DEFINE r == sys.fd_table[f].data
<1>0. Full(sys) /\ Sound(sys) /\ sys \in System /\ Owned(sys)
  BY DEF AuthInv, Full, Sound
<1>1. ASSUME sys.fd_table[f].handler \in {"connecting", "pending"}
      PROVE  r \in Request /\ r \in InUse(sys) /\ sys.request[r].ident # "no"
  BY <1>0, <1>1 DEF Owned, Closed, InUse
<1> HIDE DEF r
<1>2. ASSUME IdentConnected(f) PROVE Full(sys')
  <2>1. sys' = Asked(sys, r) /\ r \in Request /\ r \in InUse(sys) /\ sys.request[r].ident # "no"
    BY <1>1, <1>2 DEF IdentConnected, r
  <2>2. /\ Sound(sys') /\ InUse(sys') = InUse(sys)
        /\ \A q \in Request \ {r} : Pending(sys', q) <=> Pending(sys, q)
        /\ sys'.auth_poll_list = sys.auth_poll_list /\ Pending(sys', r)
    BY <1>0, <2>1, AskedSound
  <2> QED BY <1>0, <2>2 DEF Full, InUse
<1>3. ASSUME sys.fd_table[f].handler \in {"connecting", "pending"},
             NEW line \in Said(Lines), sys' = IdentEnds(sys, r, line)
      PROVE  Full(sys')
  <2> DEFINE T == SocketEnds(sys, r)
  <2>1. r \in Request /\ r \in InUse(sys) /\ sys.request[r].ident # "no"
    BY <1>1, <1>3
  <2>2. /\ Sound(T) /\ InUse(T) = InUse(sys)
        /\ \A q \in Request \ {r} : Pending(T, q) <=> Pending(sys, q)
        /\ T.auth_poll_list = sys.auth_poll_list
    BY <1>0, <2>1, SocketEndsSound
  <2>3. sys' = AuthRelease(T, r, line) /\ line \in Said(Line)
    BY <1>3, SaidOfLines DEF IdentEnds
  <2> HIDE DEF T
  <2>4. /\ \A q \in InUse(T) \ {r} : Pending(T, q)
        /\ Nodes(T.auth_poll_list) = InUse(T) /\ r \in InUse(T)
    BY <1>0, <2>1, <2>2 DEF Full, InUse
  <2> QED BY <2>1, <2>2, <2>3, <2>4, ReleaseFull
<1> QED BY <1>2, <1>3 DEF IdentRefused, IdentTimeout, IdentReply, r

(* One iteration of the walk over the timeouts.                            *)
LEMMA VisitStep ==
    ASSUME AuthInv, Visit
    PROVE  Full(sys')
<1> USE AuthAssumption
<1>0. Full(sys) /\ walk \in InUse(sys) /\ walk \in Request
  BY DEF AuthInv, Visit, InUse
<1>1. CASE walk \in late
  <2> DEFINE T == GivenUp(sys, walk)
  <2>1. PICK line \in Said(Lines) : sys' = AuthRelease(T, walk, line)
    BY <1>1 DEF Visit
  <2>2. Done(T, walk) /\ ~T.request[walk].dns /\ T.request[walk].ident = "no"
    BY <1>0, GivenUpDone
  <2> HIDE DEF T
  <2>3. sys' = AuthReadPacket(Handover(T, walk), T.request[walk].client, line) /\ line \in Said(Line)
    BY <2>1, <2>2, SaidOfLines DEF AuthRelease
  <2> QED BY <1>0, <2>2, <2>3, HandoverFull, ReadPacketFull
<1>2. CASE walk \notin late
  BY <1>0, <1>2 DEF Visit
<1> QED BY <1>1, <1>2

(* No step breaks it.                                                      *)
LEMMA NextKeeps == AuthInv /\ [AuthNext]_auth_vars => AuthInv'
<1> SUFFICES ASSUME AuthInv, [AuthNext]_auth_vars PROVE AuthInv'
  OBVIOUS
<1>1. Full(sys) /\ late \subseteq Request /\ walk \in Request \union {NULL}
  BY DEF AuthInv
<1>2. Full(sys')
  <2>1. CASE UNCHANGED auth_vars
    BY <1>1, <2>1 DEF auth_vars
  <2>2. CASE TimeoutEvent
    BY <1>1, <2>2 DEF TimeoutEvent
  <2> QED BY <2>1, <2>2, ClientSteps, RequestSteps, SocketSteps, VisitStep DEF AuthNext
<1>3. late' \subseteq Request
  BY <1>1 DEF AuthNext, auth_vars, Accept, StartAuth, Read, CheckUnknowns, FreeClient, DnsRetry, DnsAnswer,
         Expire, IdentConnected, IdentRefused, IdentTimeout, IdentReply, TimeoutEvent, Visit, InUse
<1>4. walk' \in Request \union {NULL}
  BY <1>1 DEF AuthNext, auth_vars, Accept, StartAuth, Read, CheckUnknowns, FreeClient, DnsRetry, DnsAnswer,
         Expire, IdentConnected, IdentRefused, IdentTimeout, IdentReply, TimeoutEvent, Visit,
         Newest, Nodes, Followers, After
<1> QED BY <1>2, <1>3, <1>4 DEF AuthInv

(* The inductive invariant holds.                                          *)
LEMMA AuthInvHolds == AuthSpec => []AuthInv
BY InitFull, NextKeeps, PTL DEF AuthSpec

(* No answer, error or timeout of the resolver or of an ident socket       *)
(* reaches a request that was freed, or the next owner of its block or     *)
(* descriptor.                                                             *)
THEOREM CallbacksStayOwned == AuthSpec => []CallbacksAreOwned
BY AuthInvHolds, AuthInvMeans, PTL

(* A connection that waits has a request of its own that something may     *)
(* still complete and that the timeouts will find; it is released exactly  *)
(* once.                                                                   *)
THEOREM NobodyIsEverForgotten == AuthSpec => []NobodyIsForgotten
BY AuthInvHolds, AuthInvMeans, PTL

-----------------------------------------------------------------------------
(* A client that has just been handed over takes no other with it, unless  *)
(* its lines are an oper's CLOSE, or bring a ban that matches the other.   *)
Expels(line, d) ==
    line.does = "close" \/ (line.does = "ban" /\ d \in line.matched)

LEMMA ReadPacketSparesOthers ==
    ASSUME NEW S, Full(S), NEW c \in Client, S.status[c] = "unknown",
           NEW line \in Said(Line), NEW r \in InUse(S), r \notin InUse(AuthReadPacket(S, c, line))
    PROVE  /\ Expels(line, S.request[r].client)
           /\ AuthReadPacket(S, c, line).status[S.request[r].client] = "gone"
<1> DEFINE d == S.request[r].client
           T == Registered(S, c)
<1>0. /\ r \in Request /\ d \in Client /\ S.auth_request[d] = r /\ S.auth_request[c] = NULL
      /\ d # c
  <2>1. r \in Request /\ d \in Client
    BY Fields DEF InUse, AuthRequest, Full, Sound
  <2>2. S.auth_request[d] = r /\ S.auth_request[c] = NULL
    BY <2>1 DEF Full, Sound, Paired
  <2> QED BY <2>1, <2>2, AuthAssumption
<1>1. T.request = S.request /\ InUse(T) = InUse(S) /\ Full(T)
  BY RegisteredFull DEF Registered, InUse, Full, Sound, System
<1> HIDE DEF T, d
<1>2. line.does \notin {"nothing", "register"}
  BY <1>1 DEF AuthReadPacket, T
<1>3. line.does # "quit"
  <2>1. InUse(ExitAll(S, {c})) = {q \in InUse(S) : S.request[q].client \notin {c}}
    BY ExitAllFull
  <2> QED BY <1>0, <2>1 DEF AuthReadPacket, d
<1>4. ASSUME NEW C \in SUBSET Client, AuthReadPacket(S, c, line) = ExitAll(T, C)
      PROVE  d \in C /\ AuthReadPacket(S, c, line).status[d] = "gone"
  <2>1. InUse(ExitAll(T, C)) = {q \in InUse(T) : T.request[q].client \notin C}
    BY <1>1, ExitAllFull
  <2>2. d \in C
    BY <1>1, <1>4, <2>1 DEF d
  <2> QED BY <1>0, <1>1, <1>4, <2>2, ExitAllFull
<1>5. CASE line.does = "close"
  <2>1. AuthReadPacket(S, c, line) = ExitAll(T, Unregistered(T))
    BY <1>5 DEF AuthReadPacket, T
  <2>2. Unregistered(T) \in SUBSET Client
    BY DEF Unregistered
  <2> QED BY <1>4, <1>5, <2>1, <2>2 DEF Expels, d
<1>6. CASE line.does = "ban"
  <2>1. AuthReadPacket(S, c, line) = ExitAll(T, line.matched \intersect Connected(T))
    BY <1>6 DEF AuthReadPacket, T
  <2>2. line.matched \intersect Connected(T) \in SUBSET Client
    BY DEF Connected, Unregistered
  <2> QED BY <1>4, <1>6, <2>1, <2>2 DEF Expels, d
<1> QED BY <1>2, <1>3, <1>5, <1>6 DEF Said, Line

(* What a step does after which the walk points to a request that is not   *)
(* on the list: it releases one client, and the lines this client had sent *)
(* exit another, whose request the walk was to visit next.                 *)
LostToLines ==
    WalkIsSafe /\ ~WalkIsSafe' =>
        LET c == sys.request[walk].client
            d == sys.request[walk'].client
        IN  /\ walk \in late /\ c # d
            /\ sys.status[c] = "waiting" /\ sys.status[d] = "waiting"
            /\ \E line \in Said(Lines) :
                  /\ Expels(line, d)
                  /\ sys' = AuthReadPacket(Handover(GivenUp(sys, walk), walk), c, line)
            /\ sys'.status[d] = "gone"

LEMMA WalkSteps ==
    ASSUME AuthInv, [AuthNext]_auth_vars PROVE LostToLines
<1> USE AuthAssumption
<1> SUFFICES ASSUME WalkIsSafe, ~WalkIsSafe' PROVE LostToLines
  BY DEF LostToLines
<1>1. Full(sys) /\ Paired(sys) /\ sys \in System /\ walk' # NULL /\ walk' \notin InUse(sys')
  BY DEF AuthInv, Full, Sound, WalkIsSafe
<1>2. Visit
  <2>1. CASE UNCHANGED auth_vars \/ \E r \in Request : Expire(r)
    BY <1>1, <2>1 DEF WalkIsSafe, auth_vars, Expire
  <2>2. CASE TimeoutEvent
    BY <1>1, <2>2 DEF TimeoutEvent, Newest, Full
  <2>3. CASE walk = NULL /\ walk' = walk
    BY <1>1, <2>3
  <2> QED BY <2>1, <2>2, <2>3
     DEF AuthNext, Accept, StartAuth, Read, CheckUnknowns, FreeClient, DnsRetry, DnsAnswer,
         IdentConnected, IdentRefused, IdentTimeout, IdentReply
<1>3. walk \in Request /\ walk \in InUse(sys) /\ walk' \in InUse(sys) \ {walk}
  BY <1>1, <1>2 DEF Visit, Followers, After, Full, InUse
<1>4. walk \in late
  BY <1>1, <1>2, <1>3 DEF Visit
<1> DEFINE T == GivenUp(sys, walk)
           H == Handover(T, walk)
           c == sys.request[walk].client
           d == sys.request[walk'].client
<1>5. PICK line \in Said(Lines) : sys' = AuthRelease(T, walk, line)
  BY <1>2, <1>4 DEF Visit
<1>6. /\ Done(T, walk) /\ InUse(T) = InUse(sys)
      /\ ~T.request[walk].dns /\ T.request[walk].ident = "no"
      /\ T.request[walk].client = c /\ T.request[walk'].client = d
  BY <1>1, <1>3, GivenUpDone DEF InUse
<1> HIDE DEF T
<1>7. sys' = AuthReadPacket(H, c, line)
  BY <1>5, <1>6 DEF AuthRelease
<1>8. /\ Full(H) /\ InUse(H) = InUse(sys) \ {walk} /\ c \in Client /\ H.status[c] = "unknown"
      /\ H.request[walk'].client = d
  BY <1>3, <1>6, HandoverFull DEF InUse
<1> HIDE DEF H
<1>9. Expels(line, d) /\ sys'.status[d] = "gone"
  <2>1. line \in Said(Line) /\ walk' \in InUse(H) /\ walk' \notin InUse(AuthReadPacket(H, c, line))
    BY <1>1, <1>3, <1>5, <1>7, <1>8, SaidOfLines
  <2> QED BY <1>7, <1>8, <2>1, ReadPacketSparesOthers
<1>10. c # d /\ sys.status[c] = "waiting" /\ sys.status[d] = "waiting"
  <2>1. d \in Client /\ c \in Client
    BY <1>1, <1>3, <1>8, Fields DEF InUse, AuthRequest
  <2>2. sys.auth_request[c] = walk /\ sys.auth_request[d] = walk'
    BY <1>1, <1>3 DEF Paired
  <2> QED BY <1>1, <1>3, <2>1, <2>2 DEF Paired
<1> QED BY <1>4, <1>5, <1>7, <1>9, <1>10 DEF LostToLines, H, T

(* DLINK_FOREACH_SAFE in timeout_auth_queries_event takes for granted that *)
(* the node it visits next stays on the list.  There is one way for the    *)
(* node to go: the visit releases a client whose timeout has passed, and   *)
(* the lines that client had sent exit the client of that node, by an      *)
(* oper's CLOSE or a ban that matches it.  No answer of the resolver or of *)
(* ident, no timeout and no exit by other means makes the walk unsafe.     *)
THEOREM WalkIsLostToLines == AuthSpec => [][LostToLines]_auth_vars
<1>1. AuthInv /\ [AuthNext]_auth_vars => [LostToLines]_auth_vars
  BY WalkSteps
<1> QED BY <1>1, AuthInvHolds, PTL DEF AuthSpec

-----------------------------------------------------------------------------
(* Flags and Numbers are the type invariant of FloodControl, in the parts  *)
(* the two provers are good at.                                            *)
Flags ==
    /\ outgoing \in BOOLEAN /\ dead \in BOOLEAN
    /\ exempt \in BOOLEAN /\ oper \in BOOLEAN /\ done \in BOOLEAN
    /\ no_oper_flood \in BOOLEAN /\ checkflood \in BOOLEAN /\ opered \in BOOLEAN
    /\ pinged \in BOOLEAN

Numbers ==
    /\ status \in {"auth", "unknown", "handshake", "server", "client"}
    /\ handler \in {"none", "read", "recalc"}
    /\ branch \in {"unknown", "all", "limited", "end"}
    /\ allow_read \in {0, MAX_FLOOD, MAX_FLOOD_BURST}
    /\ sent_parsed \in 0..OperFactor * allow_read
    /\ queue \in Nat /\ flush \in -1..2 /\ bucket \in Nat
    /\ i \in 0..MAX_FLOOD /\ mine \in 0..queue /\ blanks \subseteq 1..queue

(* Which client is in which of the loops, and what it has of the flags.    *)
Standing ==
    /\ done \/ exempt => status = "client"
    /\ oper => done
    /\ branch = "unknown" => status = "unknown"
    /\ branch = "limited" => status = "client" /\ ~exempt
    /\ branch = "all" => status \in {"handshake", "server"} \/ exempt
    /\ exempt \/ status # "client" => sent_parsed = 0
    /\ exempt \/ ~done => bucket = 0
    /\ done => allow_read = MAX_FLOOD
    /\ (oper \/ ~checkflood) /\ ~exempt => opered

(* The seconds until the timer fires pay for what sent_parsed will be      *)
(* reduced by when it does.                                                *)
Covered ==
    /\ bucket <= sent_parsed + 2
    /\ flush >= 0 => bucket <= sent_parsed + flush
    /\ sent_parsed <= OperFactor * MAX_FLOOD
    /\ ~opered => sent_parsed <= MAX_FLOOD
Paid == done => Covered

Inductive == Flags /\ Numbers /\ Standing /\ Paid

LEMMA TypeParts == TypeOK <=> Flags /\ Numbers
BY Zenon DEF TypeOK, Flags, Numbers

(* What an operator may send is no less than what others may.              *)
LEMMA Products ==
    /\ OperFactor * MAX_FLOOD \in Nat /\ OperFactor * MAX_FLOOD >= MAX_FLOOD
    /\ OperFactor * MAX_FLOOD_BURST \in Nat
    /\ OperFactor * MAX_FLOOD_BURST >= OperFactor * MAX_FLOOD
    /\ OperFactor * MAX_FLOOD_BURST >= MAX_FLOOD_BURST
    /\ OperFactor * 0 = 0
BY FloodAssumption

LEMMA InductiveImplies == Inductive => RateIsLimited
<1> SUFFICES ASSUME Inductive, done
             PROVE  bucket <= (IF opered THEN OperFactor ELSE 1) * MAX_FLOOD + 2
  BY DEF RateIsLimited
<1>1. /\ bucket <= sent_parsed + 2 /\ sent_parsed <= OperFactor * MAX_FLOOD
      /\ ~opered => sent_parsed <= MAX_FLOOD
  BY DEF Inductive, Paid, Covered
<1>2. /\ bucket \in Nat /\ sent_parsed \in Nat /\ OperFactor * MAX_FLOOD \in Nat
      /\ MAX_FLOOD \in Nat
  BY Products, FloodAssumption DEF Inductive, Numbers
<1>3. CASE opered
  BY <1>1, <1>2, <1>3
<1>4. CASE ~opered
  BY <1>1, <1>2, <1>4
<1> QED BY <1>3, <1>4

-----------------------------------------------------------------------------
(* A step that changes neither flags of the client nor its counters.       *)
LEMMA Unaffected ==
    ASSUME Inductive, Flags', Numbers',
           flush' \in {flush, -1},
           UNCHANGED << status, exempt, oper, done, allow_read, sent_parsed, bucket, opered >>,
           branch' \in {branch, "end"} /\ checkflood' \in {checkflood, TRUE}
    PROVE  Inductive'
<1>1. Standing'
  <2>1. branch' = branch \/ branch' = "end"
    OBVIOUS
  <2>2. ~checkflood' => ~checkflood
    OBVIOUS
  <2> QED BY <2>1, <2>2 DEF Inductive, Standing
<1>2. Paid'
  <2> SUFFICES ASSUME done PROVE Covered'
    BY DEF Paid
  <2>1. Covered
    BY DEF Inductive, Paid
  <2>2. flush' >= 0 => flush' = flush
    OBVIOUS
  <2> QED BY <2>1, <2>2 DEF Covered
<1> QED BY <1>1, <1>2 DEF Inductive

LEMMA EndReadKeeps ==
    ASSUME Inductive, NEW part \in 0..1, EndRead(part)
    PROVE  Inductive'
<1>1. flush' \in {flush, -1} /\ (dead' \/ dead' = dead)
  BY DEF EndRead, Exit
<1>2. /\ handler' = "none" /\ i' = 0 /\ branch' = "end" /\ checkflood' = TRUE
      /\ UNCHANGED << status, outgoing, exempt, oper, done, no_oper_flood, allow_read, sent_parsed,
                      pinged, queue, blanks, mine, bucket, opered >>
  BY DEF EndRead, Return, flags, rate, recvq
<1>3. Flags'
  <2>1. dead' \in BOOLEAN
    BY DEF EndRead, Exit, Inductive, Flags
  <2> QED BY <1>2, <2>1 DEF Inductive, Flags
<1>4. Numbers'
  BY <1>1, <1>2, FloodAssumption DEF Inductive, Numbers
<1> QED BY <1>1, <1>2, <1>3, <1>4, Unaffected

(* An error, an abort, a timeout and a rehash change none of the counters. *)
LEMMA OutsideKeeps ==
    ASSUME Inductive, ReadError \/ ExitAborted \/ Rehash \/ CheckPings \/ CheckUnknownsList
    PROVE  Inductive'
<1>1. /\ flush' \in {flush, -1}
      /\ \/ queue' = queue /\ blanks' = blanks /\ mine' = mine
         \/ queue' = 0 /\ blanks' = {} /\ mine' = 0
      /\ UNCHANGED << status, outgoing, exempt, oper, done, allow_read, sent_parsed,
                      handler, i, branch, checkflood, bucket, opered >>
  BY DEF ReadError, ExitAborted, Rehash, CheckPings, CheckUnknownsList, Exit, Die, flags, rate, parser,
         recvq
<1>2. Flags'
  <2>1. dead' \in BOOLEAN /\ no_oper_flood' \in BOOLEAN /\ pinged' \in BOOLEAN
    <3>1. CASE ReadError \/ ExitAborted \/ Rehash
      BY <3>1 DEF ReadError, ExitAborted, Rehash, Exit, Inductive, Flags
    <3>2. CASE CheckPings
      BY <3>2 DEF CheckPings, Exit, Die, Inductive, Flags
    <3>3. CASE CheckUnknownsList
      BY <3>3 DEF CheckUnknownsList, Exit, Inductive, Flags
    <3> QED BY <3>1, <3>2, <3>3
  <2> QED BY <1>1, <2>1 DEF Inductive, Flags
<1>3. Numbers'
  <2>1. CASE queue' = queue /\ blanks' = blanks /\ mine' = mine
    BY <1>1, <2>1 DEF Inductive, Numbers
  <2>2. CASE queue' = 0 /\ blanks' = {} /\ mine' = 0
    BY <1>1, <2>2 DEF Inductive, Numbers
  <2> QED BY <1>1, <2>1, <2>2
<1>4. branch' \in {branch, "end"} /\ checkflood' \in {checkflood, TRUE}
  BY <1>1
<1> QED BY <1>1, <1>2, <1>3, <1>4, Unaffected

(* A line that is taken leaves the others in their places.                 *)
LEMMA Taken ==
    ASSUME Numbers, Take
    PROVE  queue' \in Nat /\ mine' \in 0..queue' /\ blanks' \subseteq 1..queue'
<1>1. /\ queue > 0 /\ queue' = queue - 1 /\ mine' = IF mine = 0 THEN 0 ELSE mine - 1
      /\ blanks' = {b - 1 : b \in blanks \ {1}}
  BY DEF Take
<1>2. \A b \in blanks \ {1} : b - 1 \in 1..(queue - 1)
  BY DEF Numbers
<1> QED BY <1>1, <1>2 DEF Numbers

LEMMA DropsKeep ==
    ASSUME Inductive, BlankLine \/ DropBuffers
    PROVE  Inductive'
<1>1. queue' \in Nat /\ mine' \in 0..queue' /\ blanks' \subseteq 1..queue'
  <2>1. CASE BlankLine
    BY <2>1, Taken DEF BlankLine, Inductive
  <2>2. CASE DropBuffers
    BY <2>2 DEF DropBuffers
  <2> QED BY <2>1, <2>2
<1>2. /\ branch' = "end"
      /\ UNCHANGED << status, dead, outgoing, exempt, oper, done, no_oper_flood, allow_read, flush,
                      sent_parsed, pinged, handler, i, checkflood, bucket, opered >>
  BY DEF BlankLine, DropBuffers, NoChange, Others, flags
<1>3. Flags'
  BY <1>2 DEF Inductive, Flags
<1>4. Numbers'
  BY <1>1, <1>2 DEF Inductive, Numbers
<1>5. flush' \in {flush, -1} /\ branch' \in {branch, "end"} /\ checkflood' \in {checkflood, TRUE}
  BY <1>2
<1> QED BY <1>2, <1>3, <1>4, <1>5, Unaffected

(* What linebuf_parse adds are lines of the queue.                         *)
LEMMA Queued ==
    ASSUME Numbers, NEW empty \in 0..1, NEW n \in Nat, Queue(empty, n)
    PROVE  queue' \in Nat /\ mine' \in 0..queue' /\ blanks' \subseteq 1..queue'
<1>1. /\ queue' = queue + empty + n
      /\ blanks' = blanks \union (queue + 1)..(queue + empty)
      /\ mine' \in {0, queue + empty + n, mine}
  BY DEF Queue
<1> QED BY <1>1 DEF Numbers

-----------------------------------------------------------------------------
(* Into parse_client_queued, which notes whether an operator is exempt.    *)
LEMMA ParseStarts ==
    ASSUME Inductive, NEW h \in {"read", "recalc"}, Parse(h, status), UNCHANGED << status, exempt >>
    PROVE  /\ handler' = h /\ i' = 0
           /\ branch' \in {"unknown", "all", "limited", "end"} /\ checkflood' \in BOOLEAN
           /\ branch' = "unknown" => status = "unknown"
           /\ branch' = "limited" => status = "client" /\ ~exempt
           /\ branch' = "all" => status \in {"handshake", "server"} \/ exempt
           /\ ~checkflood' => oper
BY DEF Parse, Served, Inductive, Flags, Numbers

LEMMA ReadPacketKeeps ==
    ASSUME Inductive, NEW empty \in 0..1, NEW n \in 0..RecvMax, ReadPacket(empty, n)
    PROVE  Inductive'
<1>1. /\ UNCHANGED << status, outgoing, dead, exempt, oper, done, no_oper_flood, allow_read,
                      sent_parsed, flush, bucket, opered >>
      /\ Parse("read", status)
  BY DEF ReadPacket, flags, rate
<1>2. pinged' = FALSE
  BY DEF ReadPacket
<1>3. queue' \in Nat /\ mine' \in 0..queue' /\ blanks' \subseteq 1..queue'
  BY Queued, FloodAssumption DEF ReadPacket, Inductive
<1>4. /\ handler' = "read" /\ i' = 0
      /\ branch' \in {"unknown", "all", "limited", "end"} /\ checkflood' \in BOOLEAN
      /\ branch' = "unknown" => status = "unknown"
      /\ branch' = "limited" => status = "client" /\ ~exempt
      /\ branch' = "all" => status \in {"handshake", "server"} \/ exempt
      /\ ~checkflood' => oper
  BY <1>1, ParseStarts
<1>5. Flags'
  BY <1>1, <1>2, <1>4 DEF Inductive, Flags
<1>6. Numbers'
  BY <1>1, <1>3, <1>4, FloodAssumption DEF Inductive, Numbers
<1>7. Standing'
  BY <1>1, <1>4 DEF Inductive, Standing
<1>8. Paid'
  BY <1>1 DEF Inductive, Paid, Covered
<1> QED BY <1>5, <1>6, <1>7, <1>8 DEF Inductive

LEMMA ReleaseKeeps ==
    ASSUME Inductive, NEW empty \in 0..1, NEW n \in 0..RecvMax, ReleaseAuthClient(empty, n)
    PROVE  Inductive'
<1>1. /\ status = "auth" /\ status' = "unknown" /\ allow_read' = MAX_FLOOD /\ flush' = 2
      /\ UNCHANGED << outgoing, dead, exempt, oper, done, no_oper_flood, sent_parsed, pinged,
                      bucket, opered >>
  BY DEF ReleaseAuthClient, flags
<1>2. sent_parsed = 0 /\ ~done /\ ~exempt /\ ~oper /\ bucket = 0
  BY <1>1 DEF Inductive, Standing
<1>4. queue' \in Nat /\ mine' \in 0..queue' /\ blanks' \subseteq 1..queue'
  BY Queued, FloodAssumption DEF ReleaseAuthClient, Inductive
<1>5. \/ handler' = "read" /\ i' = 0 /\ branch' = "unknown" /\ checkflood'
      \/ UNCHANGED << handler, i, branch, checkflood >>
  BY <1>2 DEF ReleaseAuthClient, Parse, parser
<1>6. Flags'
  <2>1. checkflood' \in BOOLEAN
    BY <1>2 DEF ReleaseAuthClient, Parse, parser, Inductive, Flags
  <2> QED BY <1>1, <2>1 DEF Inductive, Flags
<1>7. Numbers'
  <2>1. 0 \in 0..OperFactor * MAX_FLOOD
    BY Products
  <2> QED BY <1>1, <1>2, <1>4, <1>5, <2>1, FloodAssumption DEF Inductive, Numbers
<1>8. Standing'
  <2>1. ~checkflood' => ~checkflood
    BY <1>5
  <2> QED BY <1>1, <1>2, <1>5, <2>1 DEF Inductive, Standing
<1>9. Paid'
  BY <1>1, <1>2 DEF Paid
<1> QED BY <1>6, <1>7, <1>8, <1>9 DEF Inductive

(* The timer has just spent the slack and gets it back from sent_parsed.   *)
LEMMA FloodRecalcKeeps ==
    ASSUME Inductive, FloodRecalc
    PROVE  Inductive'
<1>1. /\ flush = 0 /\ flush' = -1
      /\ sent_parsed' = IF done /\ sent_parsed > 2 THEN sent_parsed - 2 ELSE 0
      /\ UNCHANGED << status, outgoing, dead, exempt, oper, done, no_oper_flood, allow_read,
                      pinged, queue, blanks, mine, bucket, opered >>
      /\ Parse("recalc", status)
  BY DEF FloodRecalc, flags, recvq
<1>2. /\ handler' = "recalc" /\ i' = 0
      /\ branch' \in {"unknown", "all", "limited", "end"} /\ checkflood' \in BOOLEAN
      /\ branch' = "unknown" => status = "unknown"
      /\ branch' = "limited" => status = "client" /\ ~exempt
      /\ branch' = "all" => status \in {"handshake", "server"} \/ exempt
      /\ ~checkflood' => oper
  BY <1>1, ParseStarts
<1>3. /\ sent_parsed' \in 0..sent_parsed
      /\ (done /\ sent_parsed' = sent_parsed - 2 /\ sent_parsed > 2) \/ sent_parsed' = 0
      /\ done => sent_parsed - sent_parsed' <= 2
  BY <1>1 DEF Inductive, Numbers
<1>4. Flags'
  BY <1>1, <1>2 DEF Inductive, Flags
<1>5. Numbers'
  <2>1. sent_parsed' \in 0..OperFactor * allow_read'
    <3> DEFINE limit == OperFactor * allow_read
    <3>1. limit \in Nat /\ sent_parsed \in 0..limit
      BY Products, FloodAssumption DEF Inductive, Numbers
    <3>2. sent_parsed' \in 0..limit
      <4> HIDE DEF limit
      <4> QED BY <1>3, <3>1
    <3> QED BY <1>1, <3>2
  <2>2. flush' \in -1..2 /\ i' \in 0..MAX_FLOOD
    BY <1>1, <1>2, FloodAssumption
  <2> QED BY <1>1, <1>2, <2>1, <2>2 DEF Inductive, Numbers
<1>6. Standing'
  <2>1. sent_parsed = 0 => sent_parsed' = 0
    BY <1>3
  <2> QED BY <1>1, <1>2, <2>1 DEF Inductive, Standing
<1>7. Paid'
  <2> SUFFICES ASSUME done PROVE Covered'
    BY <1>1 DEF Paid
  <2>1. /\ bucket <= sent_parsed + flush /\ sent_parsed <= OperFactor * MAX_FLOOD
        /\ ~opered => sent_parsed <= MAX_FLOOD
    BY <1>1 DEF Inductive, Paid, Covered
  <2>2. bucket \in Nat /\ sent_parsed \in Nat /\ sent_parsed' \in Nat
    BY <1>3 DEF Inductive, Numbers
  <2>3. sent_parsed' <= OperFactor * MAX_FLOOD
    <3> DEFINE limit == OperFactor * MAX_FLOOD
    <3>1. limit \in Nat /\ sent_parsed <= limit
      BY <2>1, Products
    <3>2. sent_parsed' <= limit
      <4> HIDE DEF limit
      <4> QED BY <1>3, <2>2, <3>1
    <3> QED BY <3>2
  <2>4. ~opered => sent_parsed' <= MAX_FLOOD
    BY <1>3, <2>1, <2>2, FloodAssumption
  <2>5. bucket' <= sent_parsed' + 2
    BY <1>1, <1>3, <2>1, <2>2
  <2>6. ~(flush' >= 0)
    BY <1>1
  <2> QED BY <1>1, <2>3, <2>4, <2>5, <2>6 DEF Covered
<1> QED BY <1>4, <1>5, <1>6, <1>7 DEF Inductive

(* A second takes one from the slack and pays for one line.                *)
LEMMA TickKeeps ==
    ASSUME Inductive, Tick
    PROVE  Inductive'
<1>1. /\ flush' = IF flush > 0 THEN flush - 1 ELSE flush
      /\ bucket' = IF bucket > 0 THEN bucket - 1 ELSE 0
      /\ UNCHANGED << status, outgoing, dead, exempt, oper, done, no_oper_flood, allow_read,
                      sent_parsed, pinged, queue, blanks, handler, branch, i, checkflood, mine,
                      opered >>
  BY DEF Tick, flags, rate, parser, recvq
<1>2. Flags' /\ Numbers'
  BY <1>1 DEF Inductive, Flags, Numbers
<1>3. Standing'
  BY <1>1 DEF Inductive, Standing
<1>4. Paid'
  <2> SUFFICES ASSUME done PROVE Covered'
    BY <1>1 DEF Paid
  <2>1. /\ bucket <= sent_parsed + 2
        /\ flush >= 0 => bucket <= sent_parsed + flush
        /\ sent_parsed \in Nat /\ bucket \in Nat /\ flush \in -1..2
    BY DEF Inductive, Paid, Covered, Numbers
  <2>2. bucket' <= sent_parsed + 2 /\ (flush' >= 0 => bucket' <= sent_parsed + flush')
    BY <1>1, <2>1
  <2> QED BY <1>1, <2>2 DEF Inductive, Paid, Covered
<1> QED BY <1>2, <1>3, <1>4 DEF Inductive

LEMMA EndRecalcKeeps ==
    ASSUME Inductive, EndRecalc
    PROVE  Inductive'
<1>1. /\ flush' \in {flush, 2}
      /\ handler' = "none" /\ i' = 0 /\ branch' = "end" /\ checkflood'
      /\ UNCHANGED << status, outgoing, dead, exempt, oper, done, no_oper_flood, allow_read,
                      sent_parsed, pinged, queue, blanks, mine, bucket, opered >>
  BY DEF EndRecalc, Return, flags, rate, recvq
<1>2. checkflood' \in BOOLEAN
  BY DEF EndRecalc, Return
<1>3. Flags'
  BY <1>1, <1>2 DEF Inductive, Flags
<1>4. Numbers'
  BY <1>1, FloodAssumption DEF Inductive, Numbers
<1>5. Standing'
  BY <1>1 DEF Inductive, Standing
<1>6. Paid'
  BY <1>1 DEF Inductive, Paid, Covered
<1> QED BY <1>3, <1>4, <1>5, <1>6 DEF Inductive

-----------------------------------------------------------------------------
(* What a command can do to one who is not registered ...                  *)
LEMMA UnknownPacket ==
    ASSUME Inductive, DoPacket, status = "unknown"
    PROVE  /\ status' \in {"unknown", "server", "client"}
           /\ UNCHANGED << oper, done >> /\ dead' \in BOOLEAN /\ exempt' \in BOOLEAN
           /\ exempt' => status' = "client"
           /\ flush' \in {flush, -1} /\ allow_read' \in {allow_read, MAX_FLOOD_BURST}
<1>1. ~exempt
  BY DEF Inductive, Standing
<1>2. CASE NoChange
  BY <1>1, <1>2 DEF NoChange, flags, Inductive, Flags
<1>3. CASE Register
  BY <1>1, <1>3 DEF Register, flags, Inductive, Flags
<1>4. CASE Quit
  BY <1>1, <1>4 DEF Quit, Die, flags, Inductive, Flags
<1>5. CASE BecomeServer \/ FloodEndgrace \/ Deoper
  BY <1>5 DEF BecomeServer, FloodEndgrace, Deoper
<1> QED BY <1>2, <1>3, <1>4, <1>5 DEF DoPacket

(* ... to a server ...                                                     *)
LEMMA ServerPacket ==
    ASSUME Inductive, DoPacket, status \in {"handshake", "server"}
    PROVE  /\ status' \in {"handshake", "server"}
           /\ UNCHANGED << exempt, oper, done, allow_read >> /\ dead' \in BOOLEAN
           /\ flush' \in {flush, -1}
<1>1. CASE NoChange
  BY <1>1 DEF NoChange, flags, Inductive, Flags
<1>2. CASE BecomeServer
  BY <1>2 DEF BecomeServer, flags, Inductive, Flags
<1>3. CASE Quit
  BY <1>3 DEF Quit, Die, flags, Inductive, Flags
<1>4. CASE Register \/ FloodEndgrace \/ Deoper
  BY <1>4 DEF Register, FloodEndgrace, Deoper
<1> QED BY <1>1, <1>2, <1>3, <1>4 DEF DoPacket

(* ... and to a user.                                                      *)
LEMMA UserPacket ==
    ASSUME Inductive, DoPacket, status = "client"
    PROVE  /\ UNCHANGED << status, exempt >>
           /\ dead' \in BOOLEAN /\ oper' \in BOOLEAN /\ done' \in BOOLEAN
           /\ done => done'
           /\ oper' => done'
           /\ flush' \in {flush, -1}
           /\ allow_read' = IF done' /\ ~done THEN MAX_FLOOD ELSE allow_read
<1>1. oper => done
  BY DEF Inductive, Standing
<1>2. CASE NoChange
  BY <1>1, <1>2 DEF NoChange, flags, Inductive, Flags
<1>3. CASE Quit
  BY <1>1, <1>3 DEF Quit, Die, flags, Inductive, Flags
<1>4. CASE FloodEndgrace
  BY <1>1, <1>4 DEF FloodEndgrace, Inductive, Flags
<1>5. CASE Deoper
  BY <1>1, <1>5 DEF Deoper, Inductive, Flags
<1>6. CASE Register \/ BecomeServer
  BY <1>6 DEF Register, BecomeServer
<1> QED BY <1>2, <1>3, <1>4, <1>5, <1>6 DEF DoPacket

(* Two equal counts are covered.                                           *)
LEMMA EqualCounts ==
    \A x \in -1..2, n \in {0, 1} : n <= n + 2 /\ (x >= 0 => n <= n + x)
OBVIOUS

(* Nothing was counted for one who is not in the limited loop.             *)
LEMMA UncountedLimit ==
    ASSUME sent_parsed = 0, allow_read' \in {0, MAX_FLOOD, MAX_FLOOD_BURST}, UNCHANGED sent_parsed
    PROVE  sent_parsed' \in 0..OperFactor * allow_read'
BY Products

LEMMA ParseUnknownKeeps ==
    ASSUME Inductive, ParseUnknown
    PROVE  Inductive'
<1>1. /\ status = "unknown" /\ DoPacket /\ Take /\ i < MAX_FLOOD /\ i' = i + 1
      /\ branch' = IF status' = "unknown" THEN "unknown" ELSE Served(status', exempt')
      /\ UNCHANGED << outgoing, no_oper_flood, pinged, handler, checkflood, sent_parsed, bucket, opered >>
  BY DEF ParseUnknown, Others, Inductive, Standing
<1>2. sent_parsed = 0 /\ ~done /\ ~exempt /\ ~oper /\ bucket = 0 /\ (~checkflood => opered)
  BY <1>1 DEF Inductive, Standing
<1>3. /\ status' \in {"unknown", "server", "client"}
      /\ UNCHANGED << oper, done >> /\ dead' \in BOOLEAN /\ exempt' \in BOOLEAN
      /\ exempt' => status' = "client"
      /\ flush' \in {flush, -1} /\ allow_read' \in {allow_read, MAX_FLOOD_BURST}
  BY <1>1, UnknownPacket
<1>4. queue' \in Nat /\ mine' \in 0..queue' /\ blanks' \subseteq 1..queue'
  BY <1>1, Taken DEF Inductive
<1>5. /\ branch' \in {"unknown", "all", "limited", "end"}
      /\ branch' = "unknown" => status' = "unknown"
      /\ branch' = "limited" => status' = "client" /\ ~exempt'
      /\ branch' = "all" => status' = "server" \/ exempt'
  BY <1>1, <1>3 DEF Served
<1>6. Flags'
  BY <1>1, <1>3 DEF Inductive, Flags
<1>7. Numbers'
  <2>1. sent_parsed' \in 0..OperFactor * allow_read'
    BY <1>1, <1>2, <1>3, UncountedLimit DEF Inductive, Numbers
  <2>2. i' \in 0..MAX_FLOOD
    BY <1>1, FloodAssumption DEF Inductive, Numbers
  <2>3. flush' \in -1..2 /\ allow_read' \in {0, MAX_FLOOD, MAX_FLOOD_BURST}
    BY <1>3 DEF Inductive, Numbers
  <2> QED BY <1>1, <1>3, <1>4, <1>5, <2>1, <2>2, <2>3 DEF Inductive, Numbers
<1>8. Standing'
  BY <1>1, <1>2, <1>3, <1>5 DEF Standing
<1>9. Paid'
  BY <1>2, <1>3 DEF Paid
<1> QED BY <1>6, <1>7, <1>8, <1>9 DEF Inductive

LEMMA ParseAllKeeps ==
    ASSUME Inductive, ParseAll
    PROVE  Inductive'
<1>1. /\ branch = "all" /\ DoPacket /\ Take
      /\ UNCHANGED << branch, i, outgoing, no_oper_flood, pinged, handler, checkflood, sent_parsed,
                      bucket, opered >>
  BY DEF ParseAll, Others
<1>2. queue' \in Nat /\ mine' \in 0..queue' /\ blanks' \subseteq 1..queue'
  BY <1>1, Taken DEF Inductive
<1>3. sent_parsed = 0 /\ bucket = 0
  BY <1>1 DEF Inductive, Standing
<1>4. CASE status \in {"handshake", "server"}
  <2>1. /\ status' \in {"handshake", "server"}
        /\ UNCHANGED << exempt, oper, done, allow_read >> /\ dead' \in BOOLEAN
        /\ flush' \in {flush, -1}
    BY <1>1, <1>4, ServerPacket
  <2>2. Flags'
    BY <1>1, <2>1 DEF Inductive, Flags
  <2>3. Numbers'
    BY <1>1, <1>2, <2>1 DEF Inductive, Numbers
  <2>4. Standing'
    BY <1>1, <1>4, <2>1 DEF Inductive, Standing
  <2>5. Paid'
    BY <1>4, <2>1 DEF Inductive, Standing, Paid
  <2> QED BY <2>2, <2>3, <2>4, <2>5 DEF Inductive
<1>5. CASE status = "client" /\ exempt
  <2>1. /\ UNCHANGED << status, exempt >>
        /\ dead' \in BOOLEAN /\ oper' \in BOOLEAN /\ done' \in BOOLEAN
        /\ done => done'
        /\ oper' => done'
        /\ flush' \in {flush, -1}
        /\ allow_read' = IF done' /\ ~done THEN MAX_FLOOD ELSE allow_read
    BY <1>1, <1>5, UserPacket
  <2>2. Flags'
    BY <1>1, <2>1 DEF Inductive, Flags
  <2>3. Numbers'
    <3>1. allow_read' \in {0, MAX_FLOOD, MAX_FLOOD_BURST} /\ flush' \in -1..2
      BY <2>1 DEF Inductive, Numbers
    <3>2. sent_parsed' \in 0..OperFactor * allow_read'
      BY <1>1, <1>3, <3>1, UncountedLimit
    <3> QED BY <1>1, <1>2, <2>1, <3>1, <3>2 DEF Inductive, Numbers
  <2>4. Standing'
    <3>1. done' => allow_read' = MAX_FLOOD
      BY <2>1 DEF Inductive, Standing
    <3> QED BY <1>1, <1>3, <1>5, <2>1, <3>1 DEF Standing
  <2>5. Paid'
    <3>1. flush' \in -1..2
      BY <2>1 DEF Inductive, Numbers
    <3>2. Covered'
      <4>1. bucket' = 0 /\ sent_parsed' = 0
        BY <1>1, <1>3
      <4>2. bucket' <= sent_parsed' + 2 /\ (flush' >= 0 => bucket' <= sent_parsed' + flush')
        BY <3>1, <4>1, EqualCounts
      <4>3. sent_parsed' <= MAX_FLOOD
        BY <4>1, FloodAssumption
      <4>4. sent_parsed' <= OperFactor * MAX_FLOOD
        BY <4>1, Products
      <4> QED BY <4>2, <4>3, <4>4 DEF Covered
    <3> QED BY <3>2 DEF Paid
  <2> QED BY <2>2, <2>3, <2>4, <2>5 DEF Inductive
<1> QED BY <1>1, <1>4, <1>5 DEF Inductive, Standing

(* The only lines that count.                                              *)
LEMMA ParseLimitedKeeps ==
    ASSUME Inductive, ParseLimited
    PROVE  Inductive'
<1>1. /\ branch = "limited" /\ sent_parsed < Limit /\ Take
      /\ UNCHANGED << outgoing, no_oper_flood, pinged, handler, i, checkflood >>
  BY DEF ParseLimited, Others
<1>2. status = "client" /\ ~exempt /\ (oper \/ ~checkflood => opered)
  BY <1>1 DEF Inductive, Standing
<1>3. queue' \in Nat /\ mine' \in 0..queue' /\ blanks' \subseteq 1..queue'
  BY <1>1, Taken DEF Inductive
<1>4. CASE dead /\ branch' = "end" /\ NoChange /\ UNCHANGED << sent_parsed, bucket, opered >>
  <2>1. UNCHANGED << status, dead, exempt, oper, done, allow_read, flush, sent_parsed, bucket, opered >>
    BY <1>4 DEF NoChange, flags
  <2>2. Flags'
    BY <1>1, <2>1 DEF Inductive, Flags
  <2>3. Numbers'
    BY <1>1, <1>3, <1>4, <2>1 DEF Inductive, Numbers
  <2>4. branch' \in {branch, "end"} /\ checkflood' \in {checkflood, TRUE}
    BY <1>1, <1>4
  <2>5. /\ flush' \in {flush, -1}
        /\ UNCHANGED << status, exempt, oper, done, allow_read, sent_parsed, bucket, opered >>
    BY <2>1
  <2> QED BY <2>2, <2>3, <2>4, <2>5, Unaffected
<1>5. CASE /\ ~dead /\ DoPacket /\ UNCHANGED branch
           /\ sent_parsed' = IF done' /\ ~done THEN 1 ELSE sent_parsed + 1
           /\ bucket' = IF done THEN bucket + 1 ELSE IF done' THEN 1 ELSE 0
           /\ opered' = (opered \/ oper')
  <2>1. /\ UNCHANGED << status, exempt >>
        /\ dead' \in BOOLEAN /\ oper' \in BOOLEAN /\ done' \in BOOLEAN
        /\ done => done'
        /\ oper' => done'
        /\ flush' \in {flush, -1}
        /\ allow_read' = IF done' /\ ~done THEN MAX_FLOOD ELSE allow_read
    BY <1>2, <1>5, UserPacket
  <2>2. opered' \in BOOLEAN /\ (opered => opered') /\ (oper' => opered')
    BY <1>5, <2>1 DEF Inductive, Flags
  <2>3. Flags'
    BY <1>1, <2>1, <2>2 DEF Inductive, Flags
  <2>4. /\ sent_parsed \in Nat /\ bucket \in Nat /\ flush \in -1..2
        /\ allow_read \in {0, MAX_FLOOD, MAX_FLOOD_BURST}
        /\ MAX_FLOOD \in Nat /\ MAX_FLOOD >= 1 /\ MAX_FLOOD_BURST \in Nat
    BY FloodAssumption DEF Inductive, Numbers
  <2>5. allow_read' \in {0, MAX_FLOOD, MAX_FLOOD_BURST} /\ flush' \in -1..2 /\ bucket' \in Nat
    <3>1. bucket' \in Nat
      BY <1>5, <2>4
    <3> QED BY <2>1, <2>4, <3>1
  <2>6. /\ checkflood => sent_parsed + 1 <= allow_read
        /\ sent_parsed + 1 <= OperFactor * allow_read
    <3>1. CASE checkflood
      <4>1. sent_parsed + 1 <= allow_read
        BY <1>1, <2>4, <3>1 DEF Limit
      <4>2. allow_read <= OperFactor * allow_read /\ OperFactor * allow_read \in Nat
        BY <2>4, Products
      <4> QED BY <2>4, <4>1, <4>2
    <3>2. CASE ~checkflood
      <4>1. sent_parsed < OperFactor * allow_read
        BY <1>1, <3>2 DEF Limit
      <4>2. OperFactor * allow_read \in Nat
        BY <2>4, Products
      <4> QED BY <2>4, <3>2, <4>1, <4>2
    <3> QED BY <3>1, <3>2
  <2>7. sent_parsed' \in 0..OperFactor * allow_read'
    <3>1. CASE done' /\ ~done
      <4>1. sent_parsed' = 1 /\ allow_read' = MAX_FLOOD
        BY <1>5, <2>1, <3>1
      <4> QED BY <2>4, <4>1, Products
    <3>2. CASE ~(done' /\ ~done)
      <4>1. sent_parsed' = sent_parsed + 1 /\ allow_read' = allow_read
        BY <1>5, <2>1, <3>2
      <4>2. OperFactor * allow_read \in Nat
        BY <2>4, Products
      <4> QED BY <2>4, <2>6, <4>1, <4>2
    <3> QED BY <3>1, <3>2
  <2>8. Numbers'
    BY <1>1, <1>3, <1>5, <2>1, <2>5, <2>7 DEF Inductive, Numbers
  <2>9. Standing'
    <3>1. done' => allow_read' = MAX_FLOOD
      BY <2>1 DEF Inductive, Standing
    <3>2. ~done' => bucket' = 0
      BY <1>5, <2>1
    <3>3. (oper' \/ ~checkflood') => opered'
      BY <1>1, <1>2, <2>2
    <3> QED BY <1>1, <1>2, <1>5, <2>1, <3>1, <3>2, <3>3 DEF Standing
  <2>10. Paid'
    <3>1. CASE done
      <4>1. Covered /\ allow_read = MAX_FLOOD
        BY <3>1 DEF Inductive, Paid, Standing
      <4>2. bucket' = bucket + 1 /\ sent_parsed' = sent_parsed + 1
        BY <1>5, <2>1, <3>1
      <4>3. bucket' <= sent_parsed' + 2 /\ (flush' >= 0 => bucket' <= sent_parsed' + flush')
        <5>1. bucket <= sent_parsed + 2 /\ (flush >= 0 => bucket <= sent_parsed + flush)
          BY <4>1 DEF Covered
        <5>2. flush' = flush \/ flush' = -1
          BY <2>1
        <5> QED BY <2>4, <4>2, <5>1, <5>2
      <4>4. sent_parsed' <= OperFactor * MAX_FLOOD
        BY <2>6, <4>1, <4>2
      <4>5. ~opered' => sent_parsed' <= MAX_FLOOD
        BY <1>2, <2>2, <2>6, <4>1, <4>2
      <4> QED BY <4>3, <4>4, <4>5 DEF Covered, Paid
    <3>2. CASE ~done /\ done'
      <4>1. bucket' = 1 /\ sent_parsed' = 1
        BY <1>5, <3>2
      <4>2. Covered'
        <5>1. bucket' <= sent_parsed' + 2 /\ (flush' >= 0 => bucket' <= sent_parsed' + flush')
          BY <2>5, <4>1, EqualCounts
        <5>2. sent_parsed' <= MAX_FLOOD
          BY <2>4, <4>1
        <5>3. sent_parsed' <= OperFactor * MAX_FLOOD
          BY <2>4, <4>1, Products
        <5> QED BY <5>1, <5>2, <5>3 DEF Covered
      <4> QED BY <4>2 DEF Paid
    <3>3. CASE ~done'
      BY <3>3 DEF Paid
    <3> QED BY <2>1, <3>1, <3>2, <3>3
  <2> QED BY <2>3, <2>8, <2>9, <2>10 DEF Inductive
<1> QED BY <1>4, <1>5 DEF ParseLimited

-----------------------------------------------------------------------------
(* The counters and the history agree in every reachable state.            *)
THEOREM InductiveHolds == Spec => []Inductive
<1>1. Init => Inductive
  <2> SUFFICES ASSUME Init PROVE Inductive
    OBVIOUS
  <2>1. Flags
    BY DEF Init, Flags
  <2>2. Numbers
    <3>1. sent_parsed = 0 /\ allow_read = 0
      BY DEF Init
    <3>2. sent_parsed \in 0..OperFactor * allow_read
      BY <3>1, Products
    <3>3. /\ i \in 0..MAX_FLOOD /\ mine \in 0..queue /\ flush \in -1..2 /\ queue \in Nat
          /\ bucket \in Nat /\ blanks \subseteq 1..queue
      BY FloodAssumption DEF Init
    <3> QED BY <3>1, <3>2, <3>3 DEF Init, Numbers
  <2>3. Standing /\ Paid
    BY DEF Init, Standing, Paid
  <2> QED BY <2>1, <2>2, <2>3 DEF Inductive
<1>2. Inductive /\ [Next]_vars => Inductive'
  <2> SUFFICES ASSUME Inductive, [Next]_vars PROVE Inductive'
    OBVIOUS
  <2>1. CASE UNCHANGED vars
    <3>1. UNCHANGED << status, outgoing, dead, exempt, oper, done, no_oper_flood, allow_read,
                       sent_parsed, pinged, queue, blanks, flush, handler, branch, i, checkflood,
                       mine, bucket, opered >>
      BY <2>1 DEF vars, flags, rate, parser, recvq
    <3>2. Flags' /\ Numbers'
      BY <3>1 DEF Inductive, Flags, Numbers
    <3>3. Standing' /\ Paid'
      BY <3>1 DEF Inductive, Standing, Paid, Covered
    <3> QED BY <3>2, <3>3 DEF Inductive
  <2>2. CASE Next
    BY <2>2, ReadPacketKeeps, ReleaseKeeps, FloodRecalcKeeps, TickKeeps, EndReadKeeps,
       EndRecalcKeeps, OutsideKeeps, DropsKeep, ParseUnknownKeeps, ParseAllKeeps,
       ParseLimitedKeeps DEF Next, ParseLine, EndParse
  <2> QED BY <2>1, <2>2
<1> QED BY <1>1, <1>2, PTL DEF Spec

(* Every variable keeps its type; sent_parsed stays within the limit.      *)
THEOREM TypesHold == Spec => []TypeOK
<1>1. Inductive => TypeOK
  BY TypeParts DEF Inductive
<1> QED BY <1>1, InductiveHolds, PTL

(* Nobody gets more lines parsed than MAX_FLOOD and one for every second,  *)
(* and two, however reads, timers, OPER and rehashes follow one another.   *)
THEOREM RateStaysLimited == Spec => []RateIsLimited
<1> QED BY InductiveHolds, InductiveImplies, PTL
=============================================================================
