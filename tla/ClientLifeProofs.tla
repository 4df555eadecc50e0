-------------------------- MODULE ClientLifeProofs --------------------------
(***************************************************************************)
(* The safety invariants of ClientLife, for every set of blocks and every  *)
(* event frequency: Inductive holds initially, every step preserves it,    *)
(* and it implies them.  On top of it: the counters, and the refinement of *)
(* ClientRegistry.                                                         *)
(***************************************************************************)
EXTENDS ClientLife, FiniteSetTheorems, TLAPS

(* The slots of the event table, as arithmetic on phase wants them.        *)
LEMMA Slots ==
    /\ Len(EventTable) = 4
    /\ EventTable[1] = "check_pings" /\ EventTable[2] = "free_exited_clients"
    /\ EventTable[3] = "exit_aborted_clients" /\ EventTable[4] = "reject_exit"
    /\ \A i \in 1..4 : EventTable[i] \in Event
    /\ "exit_aborted_clients" \in Event
<1>1. /\ Len(EventTable) = 4
      /\ EventTable[1] = "check_pings" /\ EventTable[2] = "free_exited_clients"
      /\ EventTable[3] = "exit_aborted_clients" /\ EventTable[4] = "reject_exit"
  BY DEF EventTable
<1>2. \A i \in 1..4 : EventTable[i] \in Event
  BY <1>1 DEF Event
<1>3. "exit_aborted_clients" \in Event
  BY <1>1, <1>2, 3 \in 1..4
<1>. QED
  BY <1>1, <1>2, <1>3

-----------------------------------------------------------------------------
(* What is below s: its children, and theirs, and nobody else.             *)
LEMMA BelowIsClosed ==
    ASSUME TypeOK, NEW s \in Client
    PROVE  /\ Children(s) \subseteq Below(s)
           /\ \A d \in Below(s) : Children(d) \subseteq Below(s)
<1>1. \A x \in Client : Children(x) \subseteq Client
  BY DEF TypeOK, Children
<1>2. Children(s) \subseteq Below(s)
  BY <1>1 DEF Below
<1>3. ASSUME NEW d \in Below(s), NEW c \in Children(d)
      PROVE  c \in Below(s)
  <2>1. d \in Client
    BY DEF Below
  <2>2. c \in Client
    BY <1>1, <1>3, <2>1
  <2>3. ASSUME NEW D \in SUBSET Client,
               Children(s) \subseteq D, \A x \in D : Children(x) \subseteq D
        PROVE  c \in D
    <3>1. d \in D
      BY <2>3 DEF Below
    <3>. QED
      BY <3>1, <2>3, <1>3
  <2>. QED
    BY <2>2, <2>3 DEF Below
<1>. QED
  BY <1>2, <1>3

LEMMA BelowIsLeast ==
    ASSUME NEW s \in Client, NEW D \in SUBSET Client,
           Children(s) \subseteq D, \A d \in D : Children(d) \subseteq D
    PROVE  Below(s) \subseteq D
BY DEF Below

(* Who is below anybody is on the list of some server.                     *)
LEMMA BelowIsListed ==
    ASSUME TypeOK, NEW s \in Client
    PROVE  Below(s) \subseteq UNION {Children(x) : x \in Client}
<1>. DEFINE D == UNION {Children(x) : x \in Client}
<1>1. D \in SUBSET Client
  BY DEF TypeOK, Children
<1>2. Children(s) \subseteq D /\ \A d \in D : Children(d) \subseteq D
  BY <1>1
<1>. QED
  BY <1>1, <1>2, BelowIsLeast

-----------------------------------------------------------------------------
(* The two halves of Inductive: what the lists, the flags and the tree say *)
(* of each other, and what the abort queue says of them and of the clock.  *)
Structure ==
    /\ ListedAreLive /\ FreedOnce /\ OneListEach /\ RemotesHaveALink
    /\ FlagsAreClean /\ ListsByStatus /\ TreeIsWhole

Aborts == AbortsAreForTheDead /\ AbortsAreSockets /\ AbortsInTime

LEMMA InductiveParts == Inductive <=> TypeOK /\ Structure /\ Aborts
BY DEF Inductive, Structure, Aborts

(* The lists and flags that Structure is about.                            *)
shape == << flags, lists, dead_list >>

LEMMA BelowSame ==
    ASSUME UNCHANGED << users, servers >>, NEW s \in Client
    PROVE  Below(s)' = Below(s)
BY DEF Below, Children

LEMMA StructureSame ==
    ASSUME Structure, UNCHANGED shape
    PROVE  Structure'
<1>. USE DEF shape, flags, lists
<1>1. \A s \in Client : Below(s)' = Below(s)
  BY BelowSame
<1>2. /\ Listed' = Listed /\ Exited' = Exited
      /\ \A s \in Client : Children(s)' = Children(s)
      /\ \A s : Live(s)' <=> Live(s)
  BY DEF Listed, Exited, Children, Live
<1>3. ListedAreLive' /\ FreedOnce'
  BY <1>2 DEF Structure, ListedAreLive, FreedOnce
<1>4. OneListEach' /\ ListsByStatus'
  BY <1>2 DEF Structure, OneListEach, ListsByStatus
<1>5. RemotesHaveALink'
  BY <1>2 DEF Structure, RemotesHaveALink, Children, Live
<1>6. FlagsAreClean'
  BY <1>2 DEF Structure, FlagsAreClean
<1>7. TreeIsWhole'
  <2>1. \A s \in Client : \A d \in Children(s)' :
           d \notin local' /\ servptr'[d] = s /\ status'[s] = "server"
    BY <1>2 DEF Structure, TreeIsWhole
  <2>2. ASSUME NEW c \in Client, c \notin local', Live(c)'
        PROVE  c \in (Below(from[c]))'
    <3>1. c \in Below(from[c]) /\ from[c] \in serv_list /\ serv_list \subseteq Client
      BY <1>2, <2>2 DEF Structure, TreeIsWhole, RemotesHaveALink, ListedAreLive, Listed
    <3>2. Below(from[c]) = (Below(from[c]))'
      BY <3>1 DEF Below, Children
    <3>. QED
      BY <3>1, <3>2
  <2>. QED
    BY <2>1, <2>2 DEF TreeIsWhole
<1>. QED
  BY <1>3, <1>4, <1>5, <1>6, <1>7 DEF Structure

(* A free block is named by nothing at all.                                *)
LEMMA FreeIsUnknown ==
    ASSUME TypeOK, Structure, NEW c \in Client, status[c] = "free"
    PROVE  /\ c \notin Listed /\ dead_list[c] = 0
           /\ c \notin local /\ c \notin dead /\ c \notin closing
           /\ users[c] = {} /\ servers[c] = {}
           /\ \A s \in Client : c \notin Below(s)
<1>1. c \notin Listed /\ dead_list[c] = 0
  BY DEF Structure, ListedAreLive, Live, FreedOnce
<1>2. c \notin local /\ c \notin dead /\ c \notin closing
  BY DEF Structure, FlagsAreClean
<1>3. users[c] = {} /\ servers[c] = {}
  BY DEF Structure, TreeIsWhole, Children
<1>4. \A s \in Client : c \notin Below(s)
  BY <1>1, BelowIsListed DEF Listed
<1>. QED
  BY <1>1, <1>2, <1>3, <1>4

-----------------------------------------------------------------------------
(* A set of clients that exit_client may take out at once: all of them     *)
(* live, and with a server everything behind it.                           *)
Removable(X) ==
    /\ X \subseteq Client
    /\ \A c \in X : Live(c) /\ Children(c) \subseteq X

(* exit_client of a live client takes such a set.                          *)
LEMMA ExitIsRemovable ==
    ASSUME TypeOK, Structure, NEW s \in Client, Live(s)
    PROVE  /\ Removable({s} \union Dependents(s))
           /\ \A d \in Dependents(s) : d \notin local
<1>1. TypeOK /\ ListedAreLive /\ FlagsAreClean /\ TreeIsWhole /\ ListsByStatus
  BY DEF Structure
<1>2. \A x \in Client : Children(x) \subseteq {c \in Client : Live(c)}
  BY <1>1 DEF ListedAreLive, Listed
<1>3. \A d \in Below(s) : d \in Client /\ Live(d) /\ d \notin local /\ d \notin dead
  <2>1. \A d \in Below(s) : d \in Client /\ Live(d) /\ d \notin local
    BY <1>1, <1>2, BelowIsListed DEF TreeIsWhole
  <2>. QED
    BY <2>1, <1>1 DEF FlagsAreClean, Live, Exited
<1>4. status[s] = "server" => Dependents(s) = Below(s)
  BY <1>3 DEF Dependents, Below
<1>5. status[s] # "server" => Children(s) = {} /\ Dependents(s) = {}
  BY <1>1 DEF TreeIsWhole, Dependents
<1>6. Removable({s} \union Dependents(s))
  BY <1>1, <1>3, <1>4, <1>5, BelowIsClosed DEF Removable
<1>. QED
  BY <1>3, <1>4, <1>5, <1>6

(* exit_client keeps the lists and the tree in step: what remains was      *)
(* neither taken out nor behind anything that was.                         *)
LEMMA ExitKeepsStructure ==
    ASSUME TypeOK, Structure, NEW X, Removable(X), ExitAll(X),
           delay_exit' = delay_exit \ X
    PROVE  Structure'
<1>. DEFINE Same == UNCHANGED << status, local, servptr >>
<1>1. /\ Same
      /\ X \subseteq Client
      /\ \A c \in X : Live(c) /\ Children(c) \subseteq X
  BY DEF ExitAll, Removable
<1>2. /\ unknown_list' = unknown_list \ X /\ lclient_list' = lclient_list \ X
      /\ serv_list' = serv_list \ X /\ global_client_list' = global_client_list \ X
      /\ named' = named \ X
      /\ dead' = dead \union X /\ closing' = closing \union (X \intersect local)
  BY DEF ExitAll
<1>3. \A s \in Client : Children(s)' = Children(s) \ X
  BY DEF ExitAll, Children, TypeOK
<1>4. \A c \in Client : dead_list'[c] = IF c \in X THEN dead_list[c] + 1 ELSE dead_list[c]
  BY DEF ExitAll, TypeOK
<1>5. \A c \in Client : Live(c)' <=> Live(c) /\ c \notin X
  BY <1>1, <1>4 DEF Live, TypeOK
<1>6. Listed' = Listed \ X
  BY <1>2, <1>3 DEF Listed
<1>7. \A c \in Client : from'[c] = IF c \in X \intersect local THEN NoClient ELSE from[c]
  BY DEF ExitAll, TypeOK
<1>8. ListedAreLive'
  BY <1>5, <1>6 DEF Structure, ListedAreLive
<1>9. FreedOnce'
  <2>. SUFFICES ASSUME NEW c \in Client, dead_list'[c] # 0
                PROVE  /\ dead_list'[c] = 1
                       /\ status'[c] # "free" /\ c \in dead'
                       /\ c \in local' => c \in closing'
    BY DEF FreedOnce
  <2>1. CASE c \in X
    BY <2>1, <1>1, <1>2, <1>4 DEF Live
  <2>2. CASE c \notin X
    BY <2>2, <1>1, <1>2, <1>4 DEF Structure, FreedOnce
  <2>. QED
    BY <2>1, <2>2
<1>10. OneListEach'
  BY <1>1, <1>2, <1>5 DEF Structure, OneListEach, TypeOK
<1>11. ASSUME NEW c \in Client, c \notin local, Live(c), c \notin X
       PROVE  /\ from[c] \in serv_list \ X /\ servptr[c] \in Client \ X
              /\ c \in Below(from[c])
  <2>1. /\ from[c] \in serv_list /\ from[c] \in Client
        /\ servptr[c] \in Client /\ c \in Children(servptr[c])
        /\ c \in Below(from[c])
    BY <1>11 DEF Structure, RemotesHaveALink, TreeIsWhole, TypeOK
  <2>2. servptr[c] \notin X
    BY <2>1, <1>1, <1>11
  <2>3. from[c] \in X => Below(from[c]) \subseteq X
    BY <2>1, <1>1, BelowIsLeast
  <2>. QED
    BY <2>1, <2>2, <2>3, <1>11
<1>12. RemotesHaveALink'
  BY <1>1, <1>2, <1>3, <1>5, <1>7, <1>11 DEF Structure, RemotesHaveALink
<1>13. FlagsAreClean'
  <2>1. \A c \in Client : status'[c] = "free" => c \notin local' \union dead' \union closing'
    BY <1>1, <1>2 DEF Structure, FlagsAreClean, Live
  <2>2. \A c \in X : dead_list'[c] # 0
    BY <1>1, <1>4 DEF Live
  <2>3. \A c \in Client \ X : dead_list'[c] = dead_list[c]
    BY <1>4
  <2>4. Exited' = Exited \union X
    BY <2>2, <2>3, <1>1 DEF Exited
  <2>5. closing' \subseteq Exited' /\ \A c \in dead' : c \in local' \/ c \in Exited'
    BY <2>4, <1>1, <1>2 DEF Structure, FlagsAreClean
  <2>6. \A c \in local' \ closing' : from'[c] = c
    BY <1>1, <1>2, <1>7 DEF Structure, FlagsAreClean, TypeOK
  <2>. QED
    BY <2>1, <2>5, <2>6 DEF FlagsAreClean
<1>14. ListsByStatus'
  BY <1>1, <1>2 DEF Structure, ListsByStatus
<1>15. TreeIsWhole'
  <2>1. \A s \in Client : \A d \in Children(s)' :
           d \notin local' /\ servptr'[d] = s /\ status'[s] = "server"
    BY <1>1, <1>3 DEF Structure, TreeIsWhole
  <2>2. ASSUME NEW c \in Client \ local', Live(c)'
        PROVE  c \in (Below(from[c]))'
    <3>1. c \notin local /\ Live(c) /\ c \notin X
      BY <2>2, <1>1, <1>5
    <3>2. /\ from'[c] = from[c] /\ from[c] \in Client \ X /\ c \in Below(from[c])
      BY <3>1, <1>7, <1>11 DEF TypeOK
    <3>3. ASSUME NEW D \in SUBSET Client,
                 Children(from[c])' \subseteq D, \A d \in D : Children(d)' \subseteq D
          PROVE  c \in D
      <4>1. D \union X \in SUBSET Client
        BY <1>1
      <4>2. Children(from[c]) \subseteq D \union X
        BY <3>2, <3>3, <1>3
      <4>3. \A d \in D \union X : Children(d) \subseteq D \union X
        BY <3>3, <1>1, <1>3
      <4>4. Below(from[c]) \subseteq D \union X
        BY <3>2, <4>1, <4>2, <4>3, BelowIsLeast
      <4>. QED
        BY <4>4, <3>1, <3>2
    <3>. QED
      BY <3>3 DEF Below
  <2>. QED
    BY <2>1, <2>2 DEF TreeIsWhole
<1>. QED
  BY <1>8, <1>9, <1>10, <1>12, <1>13, <1>14, <1>15 DEF Structure

-----------------------------------------------------------------------------
(* Steps that only add: nothing that was below a link is lost.             *)
LEMMA BelowGrows ==
    ASSUME \A x \in Client : Children(x) \subseteq Children(x)', NEW s \in Client
    PROVE  Below(s) \subseteq Below(s)'
BY DEF Below

(* A new socket, on the list its status names.                             *)
LEMMA NewSocketKeepsStructure ==
    ASSUME TypeOK, Structure,
           NEW c \in Client, NEW st \in {"unknown", "reject"},
           MakeClient(c, TRUE, c, st),
           unknown_list' = IF st = "unknown" THEN unknown_list \union {c} ELSE unknown_list,
           delay_exit' = IF st = "reject" THEN delay_exit \union {c} ELSE delay_exit,
           global_client_list' \in {global_client_list, global_client_list \union {c}},
           st = "reject" => global_client_list' = global_client_list,
           UNCHANGED << servptr, lclient_list, serv_list, named, users, servers, dead_list >>
    PROVE  Structure'
<1>1. /\ status[c] = "free" /\ status' = [status EXCEPT ![c] = st]
      /\ local' = local \union {c} /\ from' = [from EXCEPT ![c] = c]
      /\ UNCHANGED << dead, closing >>
  BY DEF MakeClient
<1>2. /\ c \notin Listed /\ dead_list[c] = 0
      /\ c \notin local /\ c \notin dead /\ c \notin closing
  BY <1>1, FreeIsUnknown
<1>3. /\ \A x \in Client : Children(x)' = Children(x)
      /\ \A x \in Client : Below(x)' = Below(x)
  BY BelowSame DEF Children
<1>4. /\ \A x \in Client : x # c => status'[x] = status[x] /\ from'[x] = from[x]
      /\ status'[c] = st /\ from'[c] = c
  BY <1>1 DEF TypeOK
<1>5. \A x \in Client : Live(x)' <=> Live(x) \/ x = c
  BY <1>2, <1>4 DEF Live
<1>6. Listed' \subseteq Listed \union {c}
  BY <1>3 DEF Listed
<1>7. ListedAreLive' /\ FreedOnce'
  BY <1>1, <1>2, <1>4, <1>5, <1>6 DEF Structure, ListedAreLive, FreedOnce
<1>8. OneListEach'
  <2>1. c \notin lclient_list /\ c \notin serv_list /\ c \notin unknown_list /\ c \notin delay_exit
    BY <1>2 DEF Listed
  <2>. SUFFICES ASSUME NEW x \in local', Live(x)'
                PROVE  /\ x \in unknown_list' <=> status'[x] = "unknown"
                       /\ x \in lclient_list' <=> status'[x] = "client"
                       /\ x \in serv_list' <=> status'[x] = "server"
                       /\ x \in delay_exit' <=> status'[x] = "reject"
    BY DEF OneListEach
  <2>2. CASE x = c
    BY <2>1, <2>2, <1>4
  <2>3. CASE x # c
    <3>1. x \in local /\ x \in Client /\ Live(x)
      BY <1>1, <1>5, <2>3 DEF TypeOK
    <3>. QED
      BY <1>4, <2>3, <3>1 DEF Structure, OneListEach
  <2>. QED
    BY <2>2, <2>3
<1>9. RemotesHaveALink'
  <2>. SUFFICES ASSUME NEW x \in Client \ local', Live(x)'
                PROVE  /\ from'[x] \in serv_list'
                       /\ servptr'[x] \in Client /\ Live(servptr[x])'
                       /\ status'[servptr'[x]] = "server"
                       /\ from'[servptr'[x]] = from'[x]
                       /\ x \in Children(servptr[x])'
    BY DEF RemotesHaveALink
  <2>1. x \in Client \ local /\ Live(x) /\ x # c
    BY <1>1, <1>5
  <2>2. servptr[x] \in Client /\ servptr[x] # c
    BY <1>1, <2>1 DEF Structure, RemotesHaveALink
  <2>. QED
    BY <2>1, <2>2, <1>3, <1>4, <1>5 DEF Structure, RemotesHaveALink
<1>10. FlagsAreClean'
  <2>1. Exited' = Exited
    BY DEF Exited
  <2>. QED
    BY <1>1, <1>2, <1>4, <2>1 DEF Structure, FlagsAreClean
<1>11. ListsByStatus'
  <2>1. c \notin global_client_list \union named
    BY <1>2 DEF Listed
  <2>2. \A x \in global_client_list \union named : x \in Client
    BY DEF TypeOK
  <2>. QED
    BY <1>1, <1>4, <2>1, <2>2 DEF Structure, ListsByStatus
<1>12. TreeIsWhole'
  <2>1. c \notin UNION {Children(x) : x \in Client} /\ Children(c) = {}
    BY <1>1, <1>2, FreeIsUnknown DEF Listed, Children
  <2>2. \A x \in Client : \A d \in Children(x)' :
           d \notin local' /\ servptr'[d] = x /\ status'[x] = "server"
    BY <1>1, <1>3, <1>4, <2>1 DEF Structure, TreeIsWhole
  <2>3. ASSUME NEW x \in Client \ local', Live(x)'
        PROVE  x \in Below(from[x])'
    <3>1. x \in Client \ local /\ Live(x) /\ x # c
      BY <1>1, <1>5, <2>3
    <3>2. x \in Below(from[x]) /\ from[x] \in Client /\ from'[x] = from[x]
      BY <1>4, <3>1 DEF Structure, TreeIsWhole, RemotesHaveALink, TypeOK
    <3>3. \A y \in Client : y = from[x] => Below(y) = Below(y)'
      BY <1>3
    <3>. QED
      BY <3>2, <3>3
  <2>. QED
    BY <2>2, <2>3 DEF TreeIsWhole
<1>. QED
  BY <1>7, <1>8, <1>9, <1>10, <1>11, <1>12 DEF Structure

(* A new client behind the link of the server s.                           *)
LEMMA NewRemoteKeepsStructure ==
    ASSUME TypeOK, Structure,
           NEW s \in Client, NEW c \in Client, NEW st \in {"client", "server"},
           Introducer(s), MakeClient(c, FALSE, from[s], st),
           servptr' = [servptr EXCEPT ![c] = s],
           global_client_list' = global_client_list \union {c},
           named' = named \union {c},
           \A x \in Client : Children(x)' = IF x = s THEN Children(x) \union {c} ELSE Children(x),
           UNCHANGED << unknown_list, lclient_list, serv_list, delay_exit, dead_list >>
    PROVE  Structure'
<1>1. /\ status[c] = "free" /\ status' = [status EXCEPT ![c] = st]
      /\ local' = local /\ from' = [from EXCEPT ![c] = from[s]]
      /\ UNCHANGED << dead, closing >>
  BY DEF MakeClient
<1>2. /\ c \notin Listed /\ dead_list[c] = 0 /\ Children(c) = {}
      /\ c \notin local /\ c \notin dead /\ c \notin closing
  BY <1>1, FreeIsUnknown DEF Children
<1>3. /\ \A x \in Client : x # c => status'[x] = status[x] /\ from'[x] = from[x]
                                      /\ servptr'[x] = servptr[x]
      /\ status'[c] = st /\ from'[c] = from[s] /\ servptr'[c] = s
  BY <1>1 DEF TypeOK
<1>4. \A x \in Client : Live(x)' <=> Live(x) \/ x = c
  BY <1>2, <1>3 DEF Live
<1>5. /\ s # c /\ Live(s) /\ status[s] = "server" /\ from[s] \in serv_list
      /\ from[s] \in Client /\ from[s] # c
  BY <1>1, <1>2 DEF Introducer, Listed, Structure, ListedAreLive, TypeOK
<1>6. (UNION {Children(x) : x \in Client})' = (UNION {Children(x) : x \in Client}) \union {c}
  OBVIOUS
<1>7. Listed' = Listed \union {c}
  BY <1>6 DEF Listed
<1>8. ListedAreLive' /\ FreedOnce'
  BY <1>1, <1>2, <1>3, <1>4, <1>7 DEF Structure, ListedAreLive, FreedOnce
<1>9. OneListEach'
  BY <1>1, <1>2, <1>3, <1>4 DEF Structure, OneListEach, TypeOK
<1>10. RemotesHaveALink'
  <2>. SUFFICES ASSUME NEW x \in Client \ local', Live(x)'
                PROVE  /\ from'[x] \in serv_list'
                       /\ servptr'[x] \in Client /\ Live(servptr[x])'
                       /\ status'[servptr'[x]] = "server"
                       /\ from'[servptr'[x]] = from'[x]
                       /\ x \in Children(servptr[x])'
    BY DEF RemotesHaveALink
  <2>1. CASE x = c
    <3>1. \A y \in Client : y = s => Live(y)' /\ x \in Children(y)'
      BY <2>1, <1>4, <1>5
    <3>. QED
      BY <2>1, <3>1, <1>3, <1>5
  <2>2. CASE x # c
    <3>1. x \in Client \ local /\ Live(x)
      BY <2>2, <1>1, <1>4
    <3>2. /\ servptr[x] \in Client /\ Live(servptr[x]) /\ status[servptr[x]] = "server"
          /\ from[x] \in serv_list /\ from[servptr[x]] = from[x] /\ x \in Children(servptr[x])
      BY <3>1 DEF Structure, RemotesHaveALink
    <3>3. servptr[x] # c /\ servptr'[x] = servptr[x] /\ from'[x] = from[x]
      BY <2>2, <3>2, <1>1, <1>3
    <3>4. \A y \in Client : y = servptr[x] => Live(y)' /\ x \in Children(y)'
      BY <3>2, <1>4
    <3>. QED
      BY <3>2, <3>3, <3>4, <1>3
  <2>. QED
    BY <2>1, <2>2
<1>11. FlagsAreClean'
  <2>1. Exited' = Exited
    BY DEF Exited
  <2>. QED
    BY <1>1, <1>2, <1>3, <2>1 DEF Structure, FlagsAreClean, TypeOK
<1>12. ListsByStatus'
  <2>1. \A x \in global_client_list \union named : x \in Client
    BY DEF TypeOK
  <2>. QED
    BY <1>1, <1>3, <2>1 DEF Structure, ListsByStatus
<1>13. TreeIsWhole'
  <2>1. c \notin UNION {Children(x) : x \in Client}
    BY <1>2 DEF Listed
  <2>2. \A x \in Client : \A d \in Children(x) :
           d # c /\ d \in Client /\ d \notin local /\ servptr[d] = x /\ status[x] = "server"
    BY <2>1 DEF Structure, TreeIsWhole, TypeOK, Children
  <2>3. ASSUME NEW x \in Client, NEW d \in Children(x)'
        PROVE  d \notin local' /\ servptr'[d] = x /\ status'[x] = "server"
    <3>1. CASE d = c
      <4>1. x = s
        BY <2>1, <2>3, <3>1
      <4>. QED
        BY <4>1, <3>1, <1>1, <1>2, <1>3, <1>5
    <3>2. CASE d # c
      <4>1. d \in Children(x)
        BY <2>3, <3>2
      <4>2. x # c
        BY <4>1, <1>2
      <4>. QED
        BY <4>1, <4>2, <2>2, <1>1, <1>3
    <3>. QED
      BY <3>1, <3>2
  <2>4. \A x \in Client : Below(x) \subseteq Below(x)'
    BY BelowGrows
  <2>5. ASSUME NEW x \in Client \ local', Live(x)'
        PROVE  x \in Below(from[x])'
    <3>1. CASE x # c
      <4>1. x \in Client \ local /\ Live(x)
        BY <3>1, <2>5, <1>1, <1>4
      <4>2. x \in Below(from[x]) /\ from[x] \in Client /\ from'[x] = from[x]
        BY <1>3, <3>1, <4>1 DEF Structure, TreeIsWhole, RemotesHaveALink, TypeOK
      <4>3. \A y \in Client : y = from[x] => x \in Below(y)'
        BY <4>2, <2>4
      <4>. QED
        BY <4>2, <4>3
    <3>2. CASE x = c
      <4>1. PICK y \in Client : y = from[s]
        BY <1>5
      <4>2. y = s \/ s \in Below(y)'
        BY <4>1, <1>5, <2>4 DEF Structure, FlagsAreClean, TreeIsWhole, Exited, Live
      <4>3. ASSUME NEW D \in SUBSET Client,
                   Children(y)' \subseteq D, \A d \in D : Children(d)' \subseteq D
            PROVE  c \in D
        <5>1. y = s \/ s \in D
          BY <4>2, <4>3 DEF Below
        <5>. QED
          BY <5>1, <4>3
      <4>4. c \in Below(y)' /\ from'[c] = y
        BY <4>1, <4>3, <1>3 DEF Below
      <4>. QED
        BY <4>4, <3>2
    <3>. QED
      BY <3>1, <3>2
  <2>. QED
    BY <2>3, <2>5 DEF TreeIsWhole
<1>. QED
  BY <1>8, <1>9, <1>10, <1>11, <1>12, <1>13 DEF Structure

-----------------------------------------------------------------------------
(* A socket that is marked dead, or appears on a global list.              *)
LEMMA MarkKeepsStructure ==
    ASSUME TypeOK, Structure,
           NEW c \in local, Live(c), status[c] # "reject",
           dead' \in {dead, dead \union {c}},
           servptr' \in {servptr, [servptr EXCEPT ![c] = Me]},
           global_client_list' \in {global_client_list, global_client_list \union {c}},
           named' \in {named, named \union {c}},
           UNCHANGED << status, local, closing, from, unknown_list, lclient_list,
                        serv_list, delay_exit, users, servers, dead_list >>
    PROVE  Structure'
<1>1. /\ \A x \in Client : Children(x)' = Children(x)
      /\ \A x \in Client : Below(x)' = Below(x)
      /\ \A x : Live(x)' <=> Live(x)
      /\ Exited' = Exited /\ c \in Client
  BY BelowSame DEF Children, Live, Exited, TypeOK
<1>2. Listed' \subseteq Listed \union {c}
  BY <1>1 DEF Listed
<1>3. \A x \in Client : x # c => servptr'[x] = servptr[x]
  BY DEF TypeOK
<1>4. ListedAreLive' /\ FreedOnce' /\ OneListEach' /\ ListsByStatus'
  BY <1>1, <1>2 DEF Structure, ListedAreLive, FreedOnce, OneListEach, ListsByStatus
<1>5. RemotesHaveALink'
  <2>. SUFFICES ASSUME NEW x \in Client \ local, Live(x)
                PROVE  /\ from[x] \in serv_list
                       /\ servptr'[x] \in Client /\ Live(servptr'[x])
                       /\ status[servptr'[x]] = "server"
                       /\ from[servptr'[x]] = from[x]
                       /\ x \in Children(servptr[x])'
    BY DEF RemotesHaveALink, Live
  <2>1. servptr'[x] = servptr[x] /\ servptr[x] \in Client
    BY <1>3 DEF Structure, RemotesHaveALink
  <2>2. \A y \in Client : y = servptr[x] => x \in Children(y)'
    BY <1>1 DEF Structure, RemotesHaveALink
  <2>. QED
    BY <2>1, <2>2 DEF Structure, RemotesHaveALink
<1>6. FlagsAreClean'
  BY <1>1 DEF Structure, FlagsAreClean, Live
<1>7. TreeIsWhole'
  <2>1. \A x \in Client : \A d \in Children(x)' :
           d \notin local' /\ servptr'[d] = x /\ status'[x] = "server"
    BY <1>1, <1>3 DEF Structure, TreeIsWhole, TypeOK, Children
  <2>2. ASSUME NEW x \in Client \ local', Live(x)'
        PROVE  x \in Below(from[x])'
    <3>1. PICK y \in Client : y = from[x]
      BY <2>2, <1>1 DEF Structure, RemotesHaveALink, TypeOK
    <3>2. x \in Below(y)' /\ from'[x] = y
      BY <3>1, <2>2, <1>1 DEF Structure, TreeIsWhole
    <3>. QED
      BY <3>2
  <2>. QED
    BY <2>1, <2>2 DEF TreeIsWhole
<1>. QED
  BY <1>4, <1>5, <1>6, <1>7 DEF Structure

(* A registration: the socket moves from unknown_list to the list of st.   *)
LEMMA PromotionKeepsStructure ==
    ASSUME TypeOK, Structure,
           NEW c \in local, Live(c), status[c] = "unknown",
           NEW st \in {"client", "server"},
           status' = [status EXCEPT ![c] = st],
           servptr' = [servptr EXCEPT ![c] = Me],
           unknown_list' = unknown_list \ {c},
           lclient_list' = IF st = "client" THEN lclient_list \union {c} ELSE lclient_list,
           serv_list' = IF st = "server" THEN serv_list \union {c} ELSE serv_list,
           named' \in {named, named \union {c}},
           UNCHANGED << local, dead, closing, from, delay_exit, global_client_list,
                        users, servers, dead_list >>
    PROVE  Structure'
<1>0. c \in Client
  BY DEF TypeOK
<1>1. /\ \A x \in Client : x # c => status'[x] = status[x] /\ servptr'[x] = servptr[x]
      /\ status'[c] = st
  BY <1>0 DEF TypeOK
<1>2. /\ \A x \in Client : Children(x)' = Children(x)
      /\ \A x \in Client : Below(x)' = Below(x)
      /\ \A x \in Client : Live(x)' <=> Live(x)
      /\ Exited' = Exited
  BY <1>0, <1>1, BelowSame DEF Children, Live, Exited
<1>3. Listed' \subseteq Listed \union {c}
  BY <1>2 DEF Listed
<1>4. ListedAreLive' /\ FreedOnce'
  BY <1>0, <1>1, <1>2, <1>3 DEF Structure, ListedAreLive, FreedOnce, Live
<1>5. OneListEach'
  <2>. SUFFICES ASSUME NEW x \in local, Live(x)
                PROVE  /\ x \in unknown_list' <=> status'[x] = "unknown"
                       /\ x \in lclient_list' <=> status'[x] = "client"
                       /\ x \in serv_list' <=> status'[x] = "server"
                       /\ x \in delay_exit' <=> status'[x] = "reject"
    BY <1>2 DEF OneListEach, TypeOK
  <2>1. CASE x = c
    BY <2>1, <1>1 DEF Structure, OneListEach
  <2>2. CASE x # c
    BY <2>2, <1>1 DEF Structure, OneListEach, TypeOK
  <2>. QED
    BY <2>1, <2>2
<1>6. ListsByStatus'
  BY <1>0, <1>1 DEF Structure, ListsByStatus, TypeOK
<1>7. FlagsAreClean'
  BY <1>0, <1>1, <1>2 DEF Structure, FlagsAreClean
<1>8. RemotesHaveALink'
  <2>. SUFFICES ASSUME NEW x \in Client \ local, Live(x)
                PROVE  /\ from[x] \in serv_list'
                       /\ servptr'[x] \in Client /\ Live(servptr[x])'
                       /\ status'[servptr'[x]] = "server"
                       /\ from[servptr'[x]] = from[x]
                       /\ x \in Children(servptr[x])'
    BY <1>2 DEF RemotesHaveALink
  <2>1. PICK y \in Client : y = servptr[x]
    BY DEF Structure, RemotesHaveALink
  <2>2. /\ from[x] \in serv_list /\ Live(y) /\ status[y] = "server"
        /\ from[y] = from[x] /\ x \in Children(y)
    BY <2>1 DEF Structure, RemotesHaveALink
  <2>3. y # c /\ servptr'[x] = y /\ Live(y)' /\ x \in Children(y)'
    BY <2>1, <2>2, <1>1, <1>2
  <2>. QED
    BY <2>2, <2>3, <1>1
<1>9. TreeIsWhole'
  <2>1. \A x \in Client : \A d \in Children(x)' :
           d \notin local' /\ servptr'[d] = x /\ status'[x] = "server"
    BY <1>0, <1>1, <1>2 DEF Structure, TreeIsWhole, TypeOK, Children
  <2>2. ASSUME NEW x \in Client \ local', Live(x)'
        PROVE  x \in Below(from[x])'
    <3>1. PICK y \in Client : y = from[x]
      BY <2>2, <1>2 DEF Structure, RemotesHaveALink, TypeOK
    <3>2. x \in Below(y)' /\ from'[x] = y
      BY <3>1, <2>2, <1>2 DEF Structure, TreeIsWhole
    <3>. QED
      BY <3>2
  <2>. QED
    BY <2>1, <2>2 DEF TreeIsWhole
<1>. QED
  BY <1>4, <1>5, <1>6, <1>7, <1>8, <1>9 DEF Structure

-----------------------------------------------------------------------------
(* What exit_client does to the types, to the structure and to the queue.  *)
LEMMA CountWithoutType ==
    ASSUME TypeOK, NEW X \in SUBSET Client
    PROVE  CountWithout(X) \in [CountName -> Int]
<1>. DEFINE R(S, st) == {c \in X \intersect S : status[c] = st}
<1>1. \A S, st : Cardinality(R(S, st)) \in Int
  <2>. SUFFICES ASSUME NEW S, NEW st
                PROVE  Cardinality(R(S, st)) \in Int
    OBVIOUS
  <2>1. IsFiniteSet(R(S, st))
    BY ClientAssumption, FS_Subset, R(S, st) \subseteq Client
  <2>. QED
    BY <2>1, FS_CardinalityType
<1>. HIDE DEF R
<1>2. \A n \in CountName : count[n] \in Int
  BY DEF TypeOK
<1>3. CountWithout(X) =
        [n \in CountName |-> count[n] -
            CASE n = "local"    -> Cardinality(R(local, "client"))
              [] n = "myserver" -> Cardinality(R(local, "server"))
              [] n = "total"    -> Cardinality(R(global_client_list, "client"))
              [] n = "server"   -> Cardinality(R(global_client_list, "server"))]
  BY DEF CountWithout, R
<1>. QED
  BY <1>1, <1>2, <1>3 DEF CountName

LEMMA ExitAllType ==
    ASSUME TypeOK, NEW X \in SUBSET Client, ExitAll(X),
           delay_exit' \subseteq Client, abort_list' \in [Client -> Nat], walk' \subseteq Client,
           wait' \in [Event -> Nat], phase' \in 0..Len(EventTable)
    PROVE  TypeOK'
<1>1. count' \in [CountName -> Int]
  BY CountWithoutType DEF ExitAll
<1>2. /\ closing' \subseteq Client /\ dead' \subseteq Client
      /\ unknown_list' \subseteq Client /\ lclient_list' \subseteq Client
      /\ serv_list' \subseteq Client /\ global_client_list' \subseteq Client
      /\ named' \subseteq Client /\ UNCHANGED << status, local, servptr >>
  BY DEF ExitAll, TypeOK
<1>3. from' \in [Client -> Client \union {NoClient}] /\ dead_list' \in [Client -> Nat]
  BY DEF ExitAll, TypeOK
<1>4. users' \in [Client -> SUBSET Client] /\ servers' \in [Client -> SUBSET Client]
  BY DEF ExitAll, TypeOK
<1>. QED
  BY <1>1, <1>2, <1>3, <1>4 DEF TypeOK

(* A live client that asks to exit is not closing yet: the guard of        *)
(* exit_client lets it through, and with it whatever is behind it.         *)
LEMMA ExitClientKeeps ==
    ASSUME TypeOK, Structure, NEW c \in Client, Live(c), c \notin delay_exit,
           ExitClient(c), delay_exit' = delay_exit,
           abort_list' \in [Client -> Nat], walk' \subseteq Client,
           wait' \in [Event -> Nat], phase' \in 0..Len(EventTable)
    PROVE  /\ TypeOK' /\ Structure'
           /\ dead \union {c} \subseteq dead' /\ UNCHANGED << status, local >>
<1>. DEFINE X == {c} \union Dependents(c)
<1>1. Removable(X) /\ \A d \in Dependents(c) : d \notin local
  BY ExitIsRemovable
<1>2. X \subseteq Client
  BY <1>1 DEF Removable
<1>3. ExitAll(X)
  BY DEF ExitClient, Structure, FlagsAreClean, Exited, Live
<1>4. delay_exit' = delay_exit \ X
  BY <1>1 DEF Structure, ListsByStatus
<1>5. TypeOK' /\ Structure'
  BY <1>1, <1>2, <1>3, <1>4, ExitAllType, ExitKeepsStructure DEF TypeOK
<1>. QED
  BY <1>3, <1>5 DEF ExitAll

(* The queue survives a step that takes no mark away.                      *)
LEMMA AbortsKept ==
    ASSUME Aborts, dead \subseteq dead', UNCHANGED << status, local, abort_list, walk, clock >>
    PROVE  Aborts'
BY DEF Aborts, AbortsAreForTheDead, AbortsAreSockets, AbortsInTime, clock, Polling

LEMMA QueueingKeepsAborts ==
    ASSUME TypeOK, Aborts, NEW c \in local \ dead, Live(c), status[c] # "reject",
           c \in dead', dead \subseteq dead', abort_list' = [abort_list EXCEPT ![c] = @ + 1],
           UNCHANGED << status, local, walk, clock >>
    PROVE  Aborts' /\ abort_list' \in [Client -> Nat]
<1>1. c \in Client /\ abort_list[c] = 0
  BY DEF Aborts, AbortsAreForTheDead, Live, TypeOK
<1>2. /\ abort_list'[c] = 1 /\ \A x \in Client : x # c => abort_list'[x] = abort_list[x]
      /\ abort_list' \in [Client -> Nat]
  BY <1>1 DEF TypeOK
<1>3. AbortsAreForTheDead'
  BY <1>1, <1>2 DEF Aborts, AbortsAreForTheDead, clock, Polling
<1>4. AbortsAreSockets'
  BY <1>1, <1>2 DEF Aborts, AbortsAreSockets, Live
<1>5. AbortsInTime'
  <2>1. walk \subseteq Client
    BY DEF TypeOK
  <2>. QED
    BY <2>1, <1>1, <1>2 DEF Aborts, AbortsInTime, clock
<1>. QED
  BY <1>2, <1>3, <1>4, <1>5 DEF Aborts

LEMMA RunningSlot ==
    ASSUME TypeOK, NEW e, Running(e)
    PROVE  /\ phase \in 1..4 /\ wait[e] = 0
           /\ e = "check_pings" => phase = 1
           /\ e = "free_exited_clients" => phase = 2
           /\ e = "exit_aborted_clients" => phase = 3
           /\ e = "reject_exit" => phase = 4
<1>1. phase \in 1..4 /\ wait[e] = 0 /\ EventTable[phase] = e
  BY Slots DEF Running, TypeOK
<1>. QED
  BY <1>1, Slots

(* Leaving a slot: exit_aborted_clients stays due until its own slot has   *)
(* run, and no node it was to visit is left over.                          *)
LEMMA AdvanceInTime ==
    ASSUME TypeOK, AbortsInTime, phase # 0, phase = 3 => walk = {}, Advance,
           abort_list' = abort_list
    PROVE  /\ AbortsInTime' /\ walk = {}
           /\ wait' \in [Event -> Nat] /\ phase' \in 0..Len(EventTable) /\ walk' \subseteq Client
           /\ phase = 2 => phase' = 3 /\ walk' = {c \in Client : abort_list[c] > 0}
<1>1. walk = {} /\ phase \in 1..4
  BY Slots DEF AbortsInTime, TypeOK
<1>2. /\ phase' = IF phase = 4 THEN 0 ELSE phase + 1
      /\ wait' = IF wait[EventTable[phase]] = 0
                 THEN [wait EXCEPT ![EventTable[phase]] = Freq[EventTable[phase]]]
                 ELSE wait
  BY Slots DEF Advance
<1>3. EventTable[phase] \in Event /\ Freq[EventTable[phase]] \in Nat
  BY <1>1, Slots, FreqAssumption
<1>4. wait' \in [Event -> Nat] /\ phase' \in 0..Len(EventTable)
  BY <1>1, <1>2, <1>3, Slots DEF TypeOK
<1>5. phase' = 3 => walk' = {c \in Client : abort_list[c] > 0}
  BY Slots DEF Advance
<1>6. phase' # 3 => walk' = walk
  <2>1. phase' # 3 => ~(phase' # 0 /\ EventTable[phase'] = "exit_aborted_clients")
    BY <1>4, Slots
  <2>. QED
    BY <2>1 DEF Advance
<1>7. wait'["exit_aborted_clients"] <= 1
  BY <1>1, <1>2, <1>3, Slots, FreqAssumption DEF AbortsInTime, TypeOK
<1>8. phase' \in 1..3 => wait'["exit_aborted_clients"] = 0
  <2>1. phase' \in 1..3 => phase \in 1..2 /\ EventTable[phase] # "exit_aborted_clients"
    BY <1>1, <1>2, Slots
  <2>. QED
    BY <2>1, <1>2, <1>3, Slots DEF AbortsInTime, TypeOK
<1>9. AbortsInTime'
  BY <1>1, <1>5, <1>6, <1>7, <1>8 DEF AbortsInTime, TypeOK
<1>. QED
  BY <1>1, <1>2, <1>4, <1>5, <1>6, <1>9 DEF TypeOK

(* Between two visits to slot 3 every client in the queue is a dead one.   *)
LEMMA AdvanceKeepsAborts ==
    ASSUME TypeOK, Aborts, phase # 0, phase = 3 => walk = {}, Advance,
           abort_list' = abort_list, dead \subseteq dead', UNCHANGED << status, local >>
    PROVE  Aborts'
<1>1. AbortsInTime' /\ walk = {}
  BY AdvanceInTime DEF Aborts
<1>2. AbortsAreForTheDead' /\ AbortsAreSockets'
  BY <1>1 DEF Aborts, AbortsAreForTheDead, AbortsAreSockets
<1>. QED
  BY <1>1, <1>2 DEF Aborts

-----------------------------------------------------------------------------
LEMMA InductiveInit == Init => Inductive
<1>. SUFFICES ASSUME Init PROVE Inductive
  OBVIOUS
<1>1. Listed = {} /\ \A s \in Client : Children(s) = {}
  BY DEF Init, Listed, Children
<1>2. TypeOK
  <2>1. wait \in [Event -> Nat]
    <3>1. \A e \in Event : 1..Freq[e] \subseteq Nat
      BY FreqAssumption
    <3>. QED
      BY <3>1 DEF Init
  <2>2. phase \in 0..Len(EventTable)
    BY Slots DEF Init
  <2>3. count \in [CountName -> Int]
    BY DEF Init
  <2>. QED
    BY <2>1, <2>2, <2>3 DEF Init, TypeOK, Status
<1>3. Structure
  BY <1>1 DEF Init, Structure, ListedAreLive, FreedOnce, OneListEach, RemotesHaveALink,
              FlagsAreClean, ListsByStatus, TreeIsWhole, Live, Exited
<1>4. Aborts
  BY FreqAssumption, Slots
     DEF Init, Aborts, AbortsAreForTheDead, AbortsAreSockets, AbortsInTime
<1>. QED
  BY <1>2, <1>3, <1>4, InductiveParts

(* A queued client is not a new one: between two polls no free block is    *)
(* queued.                                                                 *)
LEMMA NewBlockKeepsAborts ==
    ASSUME TypeOK, Structure, Aborts, NEW c \in Client, status[c] = "free", Polling,
           \A x \in Client : x # c => status'[x] = status[x],
           local \subseteq local', dead' = dead, UNCHANGED << abort_list, walk, clock >>
    PROVE  Aborts'
<1>1. abort_list[c] = 0
  BY FreeIsUnknown DEF Aborts, AbortsAreForTheDead
<1>. QED
  BY <1>1 DEF Aborts, AbortsAreForTheDead, AbortsAreSockets, AbortsInTime, clock, Polling

(* The handlers that create a client.                                      *)
LEMMA CreationKeeps ==
    ASSUME TypeOK, Structure, Aborts, NEW s \in Client, NEW c \in Client,
           \/ AddConnection(c) \/ AddRejected(c) \/ ServConnect(c)
           \/ IntroduceServer(s, c) \/ IntroduceUser(s, c)
    PROVE  TypeOK' /\ Structure' /\ Aborts'
<1>1. CASE AddConnection(c)
  <2>1. Structure'
    BY <1>1, NewSocketKeepsStructure DEF AddConnection, pending
  <2>2. TypeOK'
    BY <1>1 DEF AddConnection, MakeClient, pending, clock, TypeOK, Status
  <2>3. Aborts'
    BY <1>1, NewBlockKeepsAborts DEF AddConnection, MakeClient, pending, TypeOK
  <2>. QED
    BY <2>1, <2>2, <2>3
<1>2. CASE AddRejected(c)
  <2>1. Structure'
    BY <1>2, NewSocketKeepsStructure DEF AddRejected, pending
  <2>2. TypeOK'
    BY <1>2 DEF AddRejected, MakeClient, pending, clock, TypeOK, Status
  <2>3. Aborts'
    BY <1>2, NewBlockKeepsAborts DEF AddRejected, MakeClient, pending, TypeOK
  <2>. QED
    BY <2>1, <2>2, <2>3
<1>3. CASE ServConnect(c)
  <2>1. Structure'
    BY <1>3, NewSocketKeepsStructure DEF ServConnect, pending
  <2>2. TypeOK'
    BY <1>3 DEF ServConnect, MakeClient, pending, clock, TypeOK, Status
  <2>3. Aborts'
    BY <1>3, NewBlockKeepsAborts DEF ServConnect, MakeClient, pending, TypeOK
  <2>. QED
    BY <2>1, <2>2, <2>3
<1>4. CASE IntroduceServer(s, c)
  <2>1. \A x \in Client : Children(x)' = IF x = s THEN Children(x) \union {c} ELSE Children(x)
    BY <1>4 DEF IntroduceServer, Children, TypeOK
  <2>2. Structure'
    BY <1>4, <2>1, NewRemoteKeepsStructure DEF IntroduceServer, pending
  <2>3. from[s] \in Client
    BY <1>4 DEF IntroduceServer, Introducer, TypeOK
  <2>4. count' \in [CountName -> Int]
    BY <1>4 DEF IntroduceServer, Bump, TypeOK
  <2>5. TypeOK'
    BY <1>4, <2>3, <2>4 DEF IntroduceServer, MakeClient, pending, clock, TypeOK, Status
  <2>6. Aborts'
    BY <1>4, NewBlockKeepsAborts DEF IntroduceServer, MakeClient, pending, TypeOK
  <2>. QED
    BY <2>2, <2>5, <2>6
<1>5. CASE IntroduceUser(s, c)
  <2>1. \A x \in Client : Children(x)' = IF x = s THEN Children(x) \union {c} ELSE Children(x)
    BY <1>5 DEF IntroduceUser, Children, TypeOK
  <2>2. Structure'
    BY <1>5, <2>1, NewRemoteKeepsStructure DEF IntroduceUser, pending
  <2>3. from[s] \in Client
    BY <1>5 DEF IntroduceUser, Introducer, TypeOK
  <2>4. count' \in [CountName -> Int]
    BY <1>5 DEF IntroduceUser, Bump, TypeOK
  <2>5. TypeOK'
    BY <1>5, <2>3, <2>4 DEF IntroduceUser, MakeClient, pending, clock, TypeOK, Status
  <2>6. Aborts'
    BY <1>5, NewBlockKeepsAborts DEF IntroduceUser, MakeClient, pending, TypeOK
  <2>. QED
    BY <2>2, <2>5, <2>6
<1>. QED
  BY <1>1, <1>2, <1>3, <1>4, <1>5

(* A socket that is still read: it is live, and no rejected one.           *)
LEMMA ReadableIsLive ==
    ASSUME TypeOK, Structure, NEW c, c \in local, c \in global_client_list
    PROVE  /\ c \in Client /\ Live(c) /\ status[c] # "reject" /\ c \notin delay_exit
BY DEF Structure, ListedAreLive, Listed, ListsByStatus, OneListEach, TypeOK

(* The handlers that list, register or mark a socket.                      *)
LEMMA SocketStepKeeps ==
    ASSUME TypeOK, Structure, Aborts, NEW c \in Client,
           \/ ReleaseAuthClient(c) \/ SetInitialNick(c) \/ RegisterLocalUser(c)
           \/ ServerEstab(c) \/ ServerEstabDies(c) \/ WriteFails(c)
    PROVE  TypeOK' /\ Structure' /\ Aborts'
<1>1. CASE ReleaseAuthClient(c)
  <2>1. c \in local /\ Live(c) /\ status[c] # "reject"
    <3>1. c \in local /\ Live(c)
      BY <1>1 DEF ReleaseAuthClient, Structure, ListsByStatus, ListedAreLive, Listed
    <3>. QED
      BY <1>1, <3>1 DEF ReleaseAuthClient, Structure, OneListEach
  <2>2. Structure'
    BY <1>1, <2>1, MarkKeepsStructure DEF ReleaseAuthClient, flags, pending
  <2>3. TypeOK' /\ Aborts'
    BY <1>1, AbortsKept DEF ReleaseAuthClient, flags, pending, clock, TypeOK
  <2>. QED
    BY <2>2, <2>3
<1>2. CASE SetInitialNick(c)
  <2>1. c \in local /\ Live(c) /\ status[c] # "reject"
    BY <1>2, ReadableIsLive DEF SetInitialNick, Readable
  <2>2. Structure'
    BY <1>2, <2>1, MarkKeepsStructure DEF SetInitialNick, flags, pending
  <2>3. TypeOK' /\ Aborts'
    BY <1>2, AbortsKept DEF SetInitialNick, flags, pending, clock, TypeOK
  <2>. QED
    BY <2>2, <2>3
<1>3. CASE RegisterLocalUser(c)
  <2>1. c \in local /\ Live(c) /\ status[c] = "unknown"
    BY <1>3, ReadableIsLive DEF RegisterLocalUser, Readable
  <2>2. Structure'
    BY <1>3, <2>1, PromotionKeepsStructure DEF RegisterLocalUser, pending
  <2>3. count' \in [CountName -> Int]
    BY <1>3 DEF RegisterLocalUser, Bump, TypeOK
  <2>4. TypeOK'
    BY <1>3, <2>3 DEF RegisterLocalUser, pending, clock, TypeOK, Status
  <2>5. Aborts'
    BY <1>3, <2>1 DEF RegisterLocalUser, pending, clock, TypeOK, Live, Polling, Aborts,
                      AbortsAreForTheDead, AbortsAreSockets, AbortsInTime
  <2>. QED
    BY <2>2, <2>4, <2>5
<1>4. CASE ServerEstab(c)
  <2>1. c \in local /\ Live(c) /\ status[c] = "unknown"
    BY <1>4, ReadableIsLive DEF ServerEstab, Readable
  <2>2. Structure'
    BY <1>4, <2>1, PromotionKeepsStructure DEF ServerEstab, pending
  <2>3. count' \in [CountName -> Int]
    BY <1>4 DEF ServerEstab, Bump, TypeOK
  <2>4. TypeOK'
    BY <1>4, <2>3 DEF ServerEstab, pending, clock, TypeOK, Status
  <2>5. Aborts'
    BY <1>4, <2>1 DEF ServerEstab, pending, clock, TypeOK, Live, Polling, Aborts,
                      AbortsAreForTheDead, AbortsAreSockets, AbortsInTime
  <2>. QED
    BY <2>2, <2>4, <2>5
<1>5. CASE ServerEstabDies(c)
  <2>1. c \in local \ dead /\ Live(c) /\ status[c] # "reject"
    BY <1>5, ReadableIsLive DEF ServerEstabDies, Readable
  <2>2. Structure'
    BY <1>5, <2>1, MarkKeepsStructure DEF ServerEstabDies, DeadLink, lists
  <2>3. Aborts' /\ abort_list' \in [Client -> Nat]
    BY <1>5, <2>1, QueueingKeepsAborts DEF ServerEstabDies, DeadLink
  <2>4. TypeOK'
    BY <1>5, <2>3 DEF ServerEstabDies, DeadLink, lists, clock, TypeOK
  <2>. QED
    BY <2>2, <2>3, <2>4
<1>6. CASE WriteFails(c)
  <2>1. c \in local \ dead /\ Live(c) /\ status[c] # "reject"
    BY <1>6, ReadableIsLive DEF WriteFails, DeadLink
  <2>2. Structure'
    BY <1>6, <2>1, MarkKeepsStructure DEF WriteFails, DeadLink, lists
  <2>3. Aborts' /\ abort_list' \in [Client -> Nat]
    BY <1>6, <2>1, QueueingKeepsAborts DEF WriteFails, DeadLink
  <2>4. TypeOK'
    BY <1>6, <2>3 DEF WriteFails, DeadLink, lists, clock, TypeOK
  <2>. QED
    BY <2>2, <2>3, <2>4
<1>. QED
  BY <1>1, <1>2, <1>3, <1>4, <1>5, <1>6

(* An exit that leaves the queue and the clock alone.                      *)
LEMMA PlainExitKeeps ==
    ASSUME TypeOK, Structure, Aborts, NEW c \in Client, Live(c), c \notin delay_exit,
           ExitClient(c), UNCHANGED << delay_exit, abort_list, walk, clock >>
    PROVE  TypeOK' /\ Structure' /\ Aborts'
<1>1. /\ abort_list' \in [Client -> Nat] /\ walk' \subseteq Client
      /\ wait' \in [Event -> Nat] /\ phase' \in 0..Len(EventTable)
  BY DEF TypeOK, clock
<1>2. /\ TypeOK' /\ Structure'
      /\ dead \union {c} \subseteq dead' /\ UNCHANGED << status, local >>
  BY <1>1, ExitClientKeeps
<1>. QED
  BY <1>2, AbortsKept

(* The exits asked for by a handler or by check_pings.                     *)
LEMMA ExitStepKeeps ==
    ASSUME TypeOK, Structure, Aborts, NEW c \in Client,
           \/ ReadFails(c) \/ KillClient(c) \/ SquitServer(c) \/ WriteThenExit(c)
           \/ PingTimeout(c) \/ UnknownTimeout(c)
    PROVE  TypeOK' /\ Structure' /\ Aborts'
<1>1. CASE ReadFails(c)
  BY <1>1, ReadableIsLive, PlainExitKeeps DEF ReadFails, Readable
<1>2. CASE KillClient(c) \/ SquitServer(c)
  <2>1. c \in named /\ status[c] # "reject" /\ ExitClient(c)
        /\ UNCHANGED << delay_exit, abort_list, walk, clock >>
    BY <1>2 DEF KillClient, SquitServer
  <2>2. Live(c) /\ c \notin delay_exit
    BY <2>1 DEF Structure, ListedAreLive, Listed, ListsByStatus, OneListEach
  <2>. QED
    BY <2>1, <2>2, PlainExitKeeps
<1>3. CASE WriteThenExit(c)
  <2>1. c \in local \ dead /\ Live(c) /\ status[c] # "reject" /\ c \notin delay_exit
    BY <1>3, ReadableIsLive DEF WriteThenExit, Readable
  <2>2. /\ abort_list' \in [Client -> Nat] /\ walk' \subseteq Client
        /\ wait' \in [Event -> Nat] /\ phase' \in 0..Len(EventTable)
    BY <1>3 DEF WriteThenExit, TypeOK, clock
  <2>3. /\ TypeOK' /\ Structure'
        /\ dead \union {c} \subseteq dead' /\ UNCHANGED << status, local >>
    BY <1>3, <2>1, <2>2, ExitClientKeeps DEF WriteThenExit
  <2>4. Aborts'
    BY <1>3, <2>1, <2>3, QueueingKeepsAborts DEF WriteThenExit
  <2>. QED
    BY <2>3, <2>4
<1>4. CASE PingTimeout(c)
  <2>1. c \in lclient_list \union serv_list
    BY <1>4 DEF PingTimeout
  <2>2. Live(c) /\ c \in local
    BY <2>1 DEF Structure, ListedAreLive, Listed, ListsByStatus
  <2>3. c \notin delay_exit
    BY <2>1, <2>2 DEF Structure, OneListEach
  <2>. QED
    BY <1>4, <2>2, <2>3, PlainExitKeeps DEF PingTimeout
<1>5. CASE UnknownTimeout(c)
  <2>1. c \in unknown_list
    BY <1>5 DEF UnknownTimeout
  <2>2. Live(c) /\ c \in local
    BY <2>1 DEF Structure, ListedAreLive, Listed, ListsByStatus
  <2>3. c \notin delay_exit
    BY <2>1, <2>2 DEF Structure, OneListEach
  <2>. QED
    BY <1>5, <2>2, <2>3, PlainExitKeeps DEF UnknownTimeout
<1>. QED
  BY <1>1, <1>2, <1>3, <1>4, <1>5

(* Sockets without dependents can be taken out all at once.                *)
LEMMA SocketsAreRemovable ==
    ASSUME TypeOK, Structure, NEW X \in SUBSET local,
           \A c \in X : Live(c) /\ status[c] # "server"
    PROVE  Removable(X)
BY DEF Removable, Structure, TreeIsWhole, TypeOK

LEMMA CloseUnknownsKeeps ==
    ASSUME TypeOK, Structure, Aborts, CloseUnknowns
    PROVE  TypeOK' /\ Structure' /\ Aborts'
<1>. DEFINE X == unknown_list \ closing
<1>1. \A c \in unknown_list : c \in local /\ Live(c) /\ c \notin delay_exit /\ status[c] = "unknown"
  BY DEF Structure, ListedAreLive, Listed, ListsByStatus, OneListEach
<1>2. Removable(X) /\ X \subseteq Client
  <2>1. X \in SUBSET local /\ \A c \in X : Live(c) /\ status[c] # "server"
    BY <1>1
  <2>2. X \subseteq Client
    BY DEF TypeOK
  <2>. QED
    BY <2>1, <2>2, SocketsAreRemovable
<1>3. /\ ExitAll(X) /\ delay_exit' = delay_exit /\ delay_exit' = delay_exit \ X
      /\ UNCHANGED << abort_list, walk, clock >>
  BY <1>1 DEF CloseUnknowns
<1>4. Structure'
  BY <1>2, <1>3, ExitKeepsStructure
<1>5. TypeOK'
  BY <1>2, <1>3, ExitAllType DEF TypeOK, clock
<1>6. Aborts'
  BY <1>3, AbortsKept DEF ExitAll
<1>. QED
  BY <1>4, <1>5, <1>6

-----------------------------------------------------------------------------
(* The steps of eventRun.                                                  *)
LEMMA EventRunKeeps ==
    ASSUME TypeOK, Structure, Aborts, EventRun
    PROVE  TypeOK' /\ Structure' /\ Aborts'
<1>1. PICK d \in 1..MaxElapsed :
          wait' = [e \in Event |-> IF wait[e] > d THEN wait[e] - d ELSE 0]
  BY DEF EventRun
<1>2. /\ phase = 0 /\ phase' = 1 /\ d \in Nat /\ d >= 1
      /\ UNCHANGED << flags, lists, pending, count >>
  BY <1>1, FreqAssumption DEF EventRun, Polling
<1>3. \A e \in Event : wait'[e] \in Nat /\ wait'[e] = IF wait[e] > d THEN wait[e] - d ELSE 0
  BY <1>1, <1>2 DEF TypeOK
<1>4. wait' \in [Event -> Nat] /\ wait'["exit_aborted_clients"] = 0
  BY <1>1, <1>2, <1>3, Slots DEF Aborts, AbortsInTime, TypeOK
<1>5. phase' \in 0..Len(EventTable)
  BY <1>2, Slots
<1>6. TypeOK'
  BY <1>2, <1>4, <1>5 DEF TypeOK, flags, lists, pending
<1>7. Structure'
  BY <1>2, StructureSame DEF shape, pending
<1>8. Aborts'
  BY <1>2, <1>4 DEF pending, flags, Aborts, AbortsAreForTheDead, AbortsAreSockets,
                    AbortsInTime, Polling
<1>. QED
  BY <1>6, <1>7, <1>8

LEMMA QuietEventKeeps ==
    ASSUME TypeOK, Structure, Aborts, SkipEvent \/ CheckPingsDone \/ ExitAbortedDone
    PROVE  TypeOK' /\ Structure' /\ Aborts'
<1>1. /\ phase # 0 /\ Advance
      /\ UNCHANGED << flags, lists, dead_list, abort_list, count >>
  BY RunningSlot DEF SkipEvent, CheckPingsDone, ExitAbortedDone
<1>2. phase = 3 => walk = {}
  <2>1. SkipEvent /\ phase = 3 => FALSE
    BY Slots DEF SkipEvent, Aborts, AbortsInTime
  <2>2. CheckPingsDone => phase = 1
    BY RunningSlot DEF CheckPingsDone
  <2>. QED
    BY <2>1, <2>2 DEF ExitAbortedDone
<1>3. /\ wait' \in [Event -> Nat] /\ phase' \in 0..Len(EventTable) /\ walk' \subseteq Client
  BY <1>1, <1>2, AdvanceInTime DEF Aborts
<1>4. TypeOK'
  BY <1>1, <1>3 DEF TypeOK, flags, lists
<1>5. Structure'
  BY <1>1, StructureSame DEF shape
<1>6. Aborts'
  BY <1>1, <1>2, AdvanceKeepsAborts DEF flags
<1>. QED
  BY <1>4, <1>5, <1>6

LEMMA RejectExitKeeps ==
    ASSUME TypeOK, Structure, Aborts, RejectExit
    PROVE  TypeOK' /\ Structure' /\ Aborts'
<1>. DEFINE X == delay_exit \ closing
<1>1. \A c \in delay_exit : c \in local /\ Live(c) /\ c \notin closing /\ status[c] = "reject"
  BY DEF Structure, ListedAreLive, Listed, ListsByStatus, OneListEach, FlagsAreClean,
         Exited, Live
<1>2. Removable(X) /\ X \subseteq Client
  <2>1. X \in SUBSET local /\ \A c \in X : Live(c) /\ status[c] # "server"
    BY <1>1
  <2>2. X \subseteq Client
    BY DEF TypeOK
  <2>. QED
    BY <2>1, <2>2, SocketsAreRemovable
<1>3. /\ ExitAll(X) /\ delay_exit' = {} /\ delay_exit' = delay_exit \ X
      /\ Advance /\ abort_list' = abort_list /\ phase = 4
  BY <1>1, RunningSlot DEF RejectExit
<1>4. /\ wait' \in [Event -> Nat] /\ phase' \in 0..Len(EventTable) /\ walk' \subseteq Client
  BY <1>3, AdvanceInTime DEF Aborts
<1>5. Structure'
  BY <1>2, <1>3, ExitKeepsStructure
<1>6. abort_list' \in [Client -> Nat]
  BY <1>3 DEF TypeOK
<1>7. TypeOK'
  BY <1>2, <1>3, <1>4, <1>6, ExitAllType
<1>8. dead \subseteq dead' /\ UNCHANGED << status, local >>
  BY <1>3 DEF ExitAll
<1>9. Aborts'
  BY <1>3, <1>8, AdvanceKeepsAborts
<1>. QED
  BY <1>5, <1>7, <1>9

(* One node of the abort queue.                                            *)
LEMMA ExitAbortedKeeps ==
    ASSUME TypeOK, Structure, Aborts, NEW c \in Client, ExitAborted(c)
    PROVE  TypeOK' /\ Structure' /\ Aborts'
<1>1. /\ phase = 3 /\ c \in walk /\ walk' = walk \ {c} /\ walk' \subseteq Client
      /\ abort_list' = [abort_list EXCEPT ![c] = @ - 1]
      /\ UNCHANGED << delay_exit, clock >>
  BY RunningSlot DEF ExitAborted, TypeOK
<1>2. /\ abort_list[c] = 1 /\ abort_list'[c] = 0
      /\ \A x \in Client : x # c => abort_list'[x] = abort_list[x]
      /\ abort_list' \in [Client -> Nat]
  BY <1>1 DEF Aborts, AbortsAreForTheDead, AbortsInTime, TypeOK
<1>3. wait' \in [Event -> Nat] /\ phase' \in 0..Len(EventTable)
  BY <1>1 DEF TypeOK, clock
<1>4. /\ TypeOK' /\ Structure'
      /\ dead \subseteq dead' /\ UNCHANGED << status, local >>
  <2>1. CASE status[c] # "free" /\ Live(c)
    <3>1. ExitClient(c) /\ status[c] # "reject" /\ c \in local
      BY <2>1, <1>2 DEF ExitAborted, Aborts, AbortsAreSockets
    <3>2. c \notin delay_exit
      BY <2>1, <3>1 DEF Structure, OneListEach
    <3>. QED
      BY <2>1, <3>1, <3>2, <1>1, <1>2, <1>3, ExitClientKeeps
  <2>2. CASE ~(status[c] # "free" /\ Live(c))
    <3>1. status[c] # "free" => c \in local /\ c \in closing
      BY <2>2, <1>2 DEF Live, Aborts, AbortsAreSockets, Structure, FreedOnce
    <3>2. UNCHANGED << flags, unknown_list, lclient_list, serv_list, global_client_list,
                       named, users, servers, dead_list, count >>
      BY <3>1 DEF ExitAborted, ExitClient
    <3>3. Structure'
      BY <3>2, <1>1, StructureSame DEF shape, lists
    <3>4. TypeOK'
      BY <3>2, <1>1, <1>2, <1>3 DEF TypeOK, flags
    <3>. QED
      BY <3>2, <3>3, <3>4 DEF flags
  <2>. QED
    BY <2>1, <2>2
<1>5. AbortsAreForTheDead' /\ AbortsAreSockets'
  BY <1>1, <1>2, <1>4 DEF Aborts, AbortsAreForTheDead, AbortsAreSockets, Polling, clock
<1>6. AbortsInTime'
  BY <1>1, <1>2 DEF Aborts, AbortsInTime, clock, TypeOK
<1>. QED
  BY <1>4, <1>5, <1>6 DEF Aborts

(* The blocks on dead_list are given back: nothing names them, and the     *)
(* nodes of the queue that do are visited before the next poll.            *)
LEMMA FreeKeeps ==
    ASSUME TypeOK, Structure, Aborts, FreeExitedClients
    PROVE  TypeOK' /\ Structure' /\ Aborts'
<1>. DEFINE F == {c \in Client : dead_list[c] > 0}
<1>1. /\ status' = [c \in Client |-> IF c \in F THEN "free" ELSE status[c]]
      /\ local' = local \ F /\ dead' = dead \ F /\ closing' = closing \ F
      /\ from' = [c \in Client |-> IF c \in F THEN NoClient ELSE from[c]]
      /\ servptr' = [c \in Client |-> IF c \in F THEN NoClient ELSE servptr[c]]
      /\ dead_list' = [c \in Client |-> 0]
      /\ Advance /\ UNCHANGED << lists, abort_list, count >> /\ phase = 2
  BY RunningSlot DEF FreeExitedClients
<1>2. F = Exited
  BY DEF Exited, TypeOK
<1>. HIDE DEF F
<1>3. \A c \in Client : Live(c)' <=> Live(c)
  BY <1>1, <1>2 DEF Live, Exited
<1>4. /\ Listed' = Listed /\ Exited' = {}
      /\ \A s \in Client : Children(s)' = Children(s)
      /\ \A s \in Client : Below(s)' = Below(s)
  BY <1>1, BelowSame DEF lists, Listed, Exited, Children
<1>5. /\ \A c \in Client \ F : status'[c] = status[c] /\ from'[c] = from[c]
                                 /\ servptr'[c] = servptr[c]
      /\ \A c \in F : status'[c] = "free"
  BY <1>1, <1>2 DEF Exited
<1>6. \A c \in Client : Live(c) => c \notin F
  BY <1>2 DEF Live, Exited
<1>7. Listed \subseteq Client /\ Listed \intersect F = {}
  BY <1>6 DEF Structure, ListedAreLive
<1>8. ListedAreLive' /\ FreedOnce'
  BY <1>1, <1>3, <1>4 DEF Structure, ListedAreLive, FreedOnce
<1>9. OneListEach'
  BY <1>1, <1>3, <1>5, <1>6 DEF Structure, OneListEach, lists, TypeOK
<1>10. ListsByStatus'
  <2>1. \A x \in unknown_list \union lclient_list \union serv_list \union delay_exit
                   \union global_client_list \union named : x \in Client \ F
    BY <1>7 DEF Listed
  <2>. QED
    BY <2>1, <1>1, <1>5 DEF Structure, ListsByStatus, lists
<1>11. FlagsAreClean'
  BY <1>1, <1>2, <1>4, <1>5 DEF Structure, FlagsAreClean, TypeOK
<1>12. ASSUME NEW c \in Client \ local', Live(c)'
       PROVE  /\ c \in Client \ local /\ Live(c) /\ c \notin F
              /\ from[c] \in serv_list /\ from[c] \in Client /\ from[c] \notin F
              /\ servptr[c] \in Client /\ Live(servptr[c]) /\ servptr[c] \notin F
              /\ status[servptr[c]] = "server" /\ from[servptr[c]] = from[c]
              /\ c \in Children(servptr[c]) /\ c \in Below(from[c])
  <2>1. c \in Client \ local /\ Live(c) /\ c \notin F
    BY <1>12, <1>1, <1>3, <1>6
  <2>2. /\ from[c] \in serv_list /\ servptr[c] \in Client /\ Live(servptr[c])
        /\ status[servptr[c]] = "server" /\ from[servptr[c]] = from[c]
        /\ c \in Children(servptr[c]) /\ c \in Below(from[c])
    BY <2>1 DEF Structure, RemotesHaveALink, TreeIsWhole
  <2>3. from[c] \in Client /\ from[c] \notin F /\ servptr[c] \notin F
    BY <2>2, <1>6, <1>7 DEF Listed
  <2>. QED
    BY <2>1, <2>2, <2>3
<1>13. RemotesHaveALink'
  <2>. SUFFICES ASSUME NEW c \in Client \ local', Live(c)'
                PROVE  /\ from'[c] \in serv_list'
                       /\ servptr'[c] \in Client /\ Live(servptr[c])'
                       /\ status'[servptr'[c]] = "server"
                       /\ from'[servptr'[c]] = from'[c]
                       /\ c \in Children(servptr[c])'
    BY DEF RemotesHaveALink
  <2>1. PICK y \in Client : y = servptr[c]
    BY <1>12
  <2>2. servptr'[c] = y /\ from'[c] = from[c] /\ from'[y] = from[y] /\ status'[y] = status[y]
    BY <2>1, <1>5, <1>12
  <2>3. Live(y)' /\ c \in Children(y)'
    BY <2>1, <1>3, <1>4, <1>12
  <2>. QED
    BY <2>1, <2>2, <2>3, <1>1, <1>12 DEF lists
<1>14. TreeIsWhole'
  <2>1. \A s \in Client : \A d \in Children(s)' :
           d \notin local' /\ servptr'[d] = s /\ status'[s] = "server"
    <3>1. \A s \in Client : \A d \in Children(s) : d \in Listed
      BY DEF Listed
    <3>2. \A s \in Client : \A d \in Children(s) :
             Live(d) /\ d \notin local /\ servptr[d] = s /\ status[s] = "server" /\ Live(s)
      <4>1. \A s \in Client : \A d \in Children(s) :
               d \in Client /\ Live(d) /\ d \notin local /\ servptr[d] = s /\ status[s] = "server"
        BY <3>1 DEF Structure, TreeIsWhole, ListedAreLive
      <4>. QED
        BY <4>1 DEF Structure, RemotesHaveALink
    <3>. QED
      BY <3>1, <3>2, <1>1, <1>4, <1>5, <1>6, <1>7
  <2>2. ASSUME NEW c \in Client \ local', Live(c)'
        PROVE  c \in Below(from[c])'
    <3>1. PICK y \in Client : y = from[c]
      BY <2>2, <1>12
    <3>2. c \in Below(y)' /\ from'[c] = y
      BY <3>1, <2>2, <1>4, <1>5, <1>12
    <3>. QED
      BY <3>2
  <2>. QED
    BY <2>1, <2>2 DEF TreeIsWhole
<1>15. Structure'
  BY <1>8, <1>9, <1>10, <1>11, <1>13, <1>14 DEF Structure
<1>16. /\ AbortsInTime' /\ walk = {} /\ phase' = 3
       /\ wait' \in [Event -> Nat] /\ phase' \in 0..Len(EventTable) /\ walk' \subseteq Client
       /\ walk' = {c \in Client : abort_list[c] > 0}
  BY <1>1, AdvanceInTime DEF Aborts
<1>17. TypeOK'
  BY <1>1, <1>16 DEF TypeOK, lists, Status
<1>18. AbortsAreForTheDead' /\ AbortsAreSockets'
  <2>. SUFFICES ASSUME NEW c \in Client, abort_list[c] # 0
                PROVE  /\ abort_list[c] = 1
                       /\ c \in dead' \/ (status'[c] = "free" /\ c \in walk')
                       /\ status'[c] = "free" \/ (c \in local' /\ status'[c] # "reject")
    BY <1>1, <1>16 DEF AbortsAreForTheDead, AbortsAreSockets, Polling
  <2>1. /\ abort_list[c] = 1 /\ c \in dead /\ c \in walk'
        /\ status[c] = "free" \/ (c \in local /\ status[c] # "reject")
    BY <1>16 DEF Aborts, AbortsAreForTheDead, AbortsAreSockets, TypeOK
  <2>. QED
    BY <2>1, <1>1, <1>5
<1>. QED
  BY <1>15, <1>16, <1>17, <1>18 DEF Aborts

-----------------------------------------------------------------------------
LEMMA InductiveStep == Inductive /\ [Next]_vars => Inductive'
<1>. SUFFICES ASSUME TypeOK, Structure, Aborts, [Next]_vars
              PROVE  TypeOK' /\ Structure' /\ Aborts'
  BY InductiveParts, PTL DEF Inductive, Structure, Aborts
<1>1. ASSUME NEW c \in Client,
             \/ AddConnection(c) \/ AddRejected(c) \/ ServConnect(c)
      PROVE  TypeOK' /\ Structure' /\ Aborts'
  BY <1>1, CreationKeeps
<1>2. ASSUME NEW s \in Client, NEW c \in Client, IntroduceServer(s, c) \/ IntroduceUser(s, c)
      PROVE  TypeOK' /\ Structure' /\ Aborts'
  BY <1>2, CreationKeeps
<1>3. ASSUME NEW c \in Client,
             \/ ReleaseAuthClient(c) \/ SetInitialNick(c) \/ RegisterLocalUser(c)
             \/ ServerEstab(c) \/ ServerEstabDies(c) \/ WriteFails(c)
      PROVE  TypeOK' /\ Structure' /\ Aborts'
  BY <1>3, SocketStepKeeps
<1>4. ASSUME NEW c \in Client,
             \/ ReadFails(c) \/ KillClient(c) \/ SquitServer(c) \/ WriteThenExit(c)
             \/ PingTimeout(c) \/ UnknownTimeout(c)
      PROVE  TypeOK' /\ Structure' /\ Aborts'
  BY <1>4, ExitStepKeeps
<1>5. CASE CloseUnknowns
  BY <1>5, CloseUnknownsKeeps
<1>6. CASE EventRun
  BY <1>6, EventRunKeeps
<1>7. CASE SkipEvent \/ CheckPingsDone \/ ExitAbortedDone
  BY <1>7, QuietEventKeeps
<1>8. CASE FreeExitedClients
  BY <1>8, FreeKeeps
<1>9. CASE RejectExit
  BY <1>9, RejectExitKeeps
<1>10. ASSUME NEW c \in Client, ExitAborted(c)
       PROVE  TypeOK' /\ Structure' /\ Aborts'
  BY <1>10, ExitAbortedKeeps
<1>11. CASE UNCHANGED vars
  <2>1. TypeOK'
    BY <1>11 DEF vars, flags, lists, pending, clock, TypeOK
  <2>2. Structure'
    BY <1>11, StructureSame DEF vars, shape, pending
  <2>3. Aborts'
    BY <1>11, AbortsKept DEF vars, flags, pending
  <2>. QED
    BY <2>1, <2>2, <2>3
<1>. QED
  BY <1>1, <1>2, <1>3, <1>4, <1>5, <1>6, <1>7, <1>8, <1>9, <1>10, <1>11
     DEF Next, Callback, EventStep

(* Every reachable state of one ircd has the whole invariant.              *)
THEOREM InductiveHolds == Spec => []Inductive
<1>. QED
  BY InductiveInit, InductiveStep, PTL DEF Spec

(* The types, for every set of blocks: the counters may be any integers,   *)
(* the lists hold clients.                                                 *)
THEOREM TypesHold == Spec => []TypeOK
<1>1. Inductive => TypeOK
  BY DEF Inductive
<1>. QED
  BY <1>1, InductiveHolds, PTL

(* No list, hash bucket or dependents' list ever names a client that has   *)
(* exited or a block that was given back (exit_one_client, qs_client).     *)
THEOREM ListedStayLive == Spec => []ListedAreLive
<1>1. Inductive => ListedAreLive
  BY DEF Inductive
<1>. QED
  BY <1>1, InductiveHolds, PTL

(* A client is put on dead_list at most once, and is marked as free_client *)
(* asserts when it is given back.                                          *)
THEOREM NeverFreedTwice == Spec => []FreedOnce
<1>1. Inductive => FreedOnce
  BY DEF Inductive
<1>. QED
  BY <1>1, InductiveHolds, PTL

(* exit_aborted_clients never exits the next owner of a block: whatever it *)
(* finds in its queue is dead, or freed in this very eventRun.             *)
THEOREM AbortsHitTheDead == Spec => []AbortsAreForTheDead
<1>1. Inductive => AbortsAreForTheDead
  BY DEF Inductive
<1>. QED
  BY <1>1, InductiveHolds, PTL

(* A local client is linked into the one list its status names: the lists  *)
(* share the node in struct LocalUser.                                     *)
THEOREM ListsAreExclusive == Spec => []OneListEach
<1>1. Inductive => OneListEach
  BY DEF Inductive
<1>. QED
  BY <1>1, InductiveHolds, PTL

(* A remote client never outlives its link or its server: the recursion of *)
(* recurse_remove_clients misses nobody.                                   *)
THEOREM RemotesKeepALink == Spec => []RemotesHaveALink
<1>1. Inductive => RemotesHaveALink
  BY DEF Inductive
<1>. QED
  BY <1>1, InductiveHolds, PTL

-----------------------------------------------------------------------------
(* The counters.  The global list, from which Count.total and .server are  *)
(* lowered, has everybody who is registered, who raised them.              *)
Reg(st) == {c \in Client : Live(c) /\ status[c] = st}

Counted ==
    /\ CountsMatch
    /\ Reg("client") \union Reg("server") \subseteq global_client_list

LEMMA Sizes ==
    ASSUME NEW S \in SUBSET Client
    PROVE  /\ Cardinality(S) \in Nat
           /\ \A X : Cardinality(S \ X) = Cardinality(S) - Cardinality(S \intersect X)
           /\ \A c \in Client \ S : Cardinality(S \union {c}) = Cardinality(S) + 1
<1>1. IsFiniteSet(S)
  BY ClientAssumption, FS_Subset
<1>. QED
  BY <1>1, FS_CardinalityType, FS_Difference, FS_AddElement

LEMMA CountsAre ==
    CountsMatch <=> /\ count["local"] = Cardinality(lclient_list)
                    /\ count["myserver"] = Cardinality(serv_list)
                    /\ count["total"] = Cardinality(Reg("client"))
                    /\ count["server"] = Cardinality(Reg("server"))
BY DEF CountsMatch, Reg

(* The local lists hold those of the registered who are local.             *)
LEMMA ListsAreRegistered ==
    ASSUME TypeOK, Structure
    PROVE  /\ lclient_list = Reg("client") \intersect local
           /\ serv_list = Reg("server") \intersect local
BY DEF Structure, OneListEach, ListsByStatus, ListedAreLive, Listed, Reg, TypeOK

(* A step that registers nobody and exits nobody.                          *)
LEMMA QuietKeepsCounts ==
    ASSUME Counted, UNCHANGED << lclient_list, serv_list, count >>,
           global_client_list \subseteq global_client_list',
           Reg("client")' = Reg("client"), Reg("server")' = Reg("server")
    PROVE  Counted'
<1>1. CountsMatch'
  BY CountsAre DEF Counted, CountsMatch, Reg
<1>. QED
  BY <1>1 DEF Counted

(* exit_client lowers each counter by what its list loses.                 *)
LEMMA ExitKeepsCounts ==
    ASSUME TypeOK, Structure, Counted, NEW X \in SUBSET Client, \A c \in X : Live(c), ExitAll(X)
    PROVE  Counted'
<1>. DEFINE R(S, st) == {c \in X \intersect S : status[c] = st}
<1>1. /\ status' = status /\ lclient_list' = lclient_list \ X /\ serv_list' = serv_list \ X
      /\ global_client_list' = global_client_list \ X /\ count' = CountWithout(X)
      /\ \A c \in Client : dead_list'[c] = IF c \in X THEN dead_list[c] + 1 ELSE dead_list[c]
  BY DEF ExitAll
<1>2. Reg("client")' = Reg("client") \ X /\ Reg("server")' = Reg("server") \ X
  BY <1>1 DEF Reg, Live, TypeOK
<1>3. /\ R(local, "client") = lclient_list \intersect X
      /\ R(local, "server") = serv_list \intersect X
  <2>1. \A st : R(local, st) = (Reg(st) \intersect local) \intersect X
    BY DEF Reg
  <2>. QED
    BY <2>1, ListsAreRegistered
<1>4. /\ R(global_client_list, "client") = Reg("client") \intersect X
      /\ R(global_client_list, "server") = Reg("server") \intersect X
  BY DEF Reg, Counted
<1>. HIDE DEF R
<1>5. /\ lclient_list \in SUBSET Client /\ serv_list \in SUBSET Client
      /\ \A st : Reg(st) \in SUBSET Client
  BY DEF TypeOK, Reg
<1>6. /\ count'["local"] = count["local"] - Cardinality(R(local, "client"))
      /\ count'["myserver"] = count["myserver"] - Cardinality(R(local, "server"))
      /\ count'["total"] = count["total"] - Cardinality(R(global_client_list, "client"))
      /\ count'["server"] = count["server"] - Cardinality(R(global_client_list, "server"))
  BY <1>1 DEF CountWithout, R, CountName
<1>7. count'["local"] = Cardinality(lclient_list')
  <2>1. count["local"] = Cardinality(lclient_list)
    BY CountsAre DEF Counted
  <2>2. Cardinality(lclient_list \ X) = Cardinality(lclient_list) - Cardinality(lclient_list \intersect X)
    BY <1>5, Sizes
  <2>3. count'["local"] = Cardinality(lclient_list \ X)
    BY <1>3, <1>6, <2>1, <2>2
  <2>. QED
    BY <1>1, <2>3
<1>8. count'["myserver"] = Cardinality(serv_list')
  <2>1. count["myserver"] = Cardinality(serv_list)
    BY CountsAre DEF Counted
  <2>2. Cardinality(serv_list \ X) = Cardinality(serv_list) - Cardinality(serv_list \intersect X)
    BY <1>5, Sizes
  <2>3. count'["myserver"] = Cardinality(serv_list \ X)
    BY <1>3, <1>6, <2>1, <2>2
  <2>. QED
    BY <1>1, <2>3
<1>9. count'["total"] = Cardinality(Reg("client")')
  <2>1. count["total"] = Cardinality(Reg("client")) /\ Reg("client") \in SUBSET Client
    BY <1>5, CountsAre DEF Counted
  <2>2. Cardinality(Reg("client") \ X) = Cardinality(Reg("client")) - Cardinality(Reg("client") \intersect X)
    BY <2>1, Sizes
  <2>3. count'["total"] = Cardinality(Reg("client") \ X)
    BY <1>4, <1>6, <2>1, <2>2
  <2>. QED
    BY <1>2, <2>3
<1>10. count'["server"] = Cardinality(Reg("server")')
  <2>1. count["server"] = Cardinality(Reg("server")) /\ Reg("server") \in SUBSET Client
    BY <1>5, CountsAre DEF Counted
  <2>2. Cardinality(Reg("server") \ X) = Cardinality(Reg("server")) - Cardinality(Reg("server") \intersect X)
    BY <2>1, Sizes
  <2>3. count'["server"] = Cardinality(Reg("server") \ X)
    BY <1>4, <1>6, <2>1, <2>2
  <2>. QED
    BY <1>2, <2>3
<1>11. CountsMatch'
  BY <1>7, <1>8, <1>9, <1>10 DEF CountsMatch, Reg
<1>. QED
  BY <1>1, <1>2, <1>11 DEF Counted

LEMMA ExitClientKeepsCounts ==
    ASSUME TypeOK, Structure, Counted, NEW c \in Client, Live(c), ExitClient(c)
    PROVE  Counted'
<1>. DEFINE X == {c} \union Dependents(c)
<1>1. X \in SUBSET Client /\ \A d \in X : Live(d)
  BY ExitIsRemovable DEF Removable
<1>2. ExitAll(X)
  BY DEF ExitClient, Structure, FlagsAreClean, Exited, Live
<1>. QED
  BY <1>1, <1>2, ExitKeepsCounts

(* A client that registers or is introduced.                               *)
LEMMA RegisterKeepsCounts ==
    ASSUME TypeOK, Structure, Counted, NEW c \in Client,
           NEW st \in {"client", "server"}, NEW isLocal \in BOOLEAN,
           status[c] \in {"free", "unknown"}, dead_list[c] = 0,
           status' = [status EXCEPT ![c] = st], dead_list' = dead_list,
           isLocal <=> c \in local',
           c \in global_client_list', global_client_list \subseteq global_client_list',
           lclient_list' = IF isLocal /\ st = "client" THEN lclient_list \union {c} ELSE lclient_list,
           serv_list' = IF isLocal /\ st = "server" THEN serv_list \union {c} ELSE serv_list,
           count' = Bump({IF st = "client" THEN "total" ELSE "server"} \union
                         (IF isLocal THEN {IF st = "client" THEN "local" ELSE "myserver"} ELSE {}))
    PROVE  Counted'
<1>1. /\ \A q \in {"client", "server"} :
            /\ Reg(q)' = IF q = st THEN Reg(q) \union {c} ELSE Reg(q)
            /\ c \notin Reg(q) /\ Reg(q) \in SUBSET Client
      /\ c \notin lclient_list /\ c \notin serv_list
      /\ lclient_list \in SUBSET Client /\ serv_list \in SUBSET Client
  BY ListsAreRegistered DEF Reg, Live, TypeOK
<1>2. /\ count["local"] = Cardinality(lclient_list) /\ count["myserver"] = Cardinality(serv_list)
      /\ count["total"] = Cardinality(Reg("client")) /\ count["server"] = Cardinality(Reg("server"))
  BY CountsAre DEF Counted
<1>3. CASE st = "client"
  <2>1. /\ count'["total"] = count["total"] + 1 /\ count'["server"] = count["server"]
        /\ count'["myserver"] = count["myserver"]
        /\ count'["local"] = IF isLocal THEN count["local"] + 1 ELSE count["local"]
    BY <1>3 DEF Bump, CountName
  <2>2. /\ count'["total"] = Cardinality(Reg("client")') /\ count'["server"] = Cardinality(Reg("server")')
    BY <1>1, <1>2, <1>3, <2>1, Sizes
  <2>3. count'["local"] = Cardinality(lclient_list') /\ count'["myserver"] = Cardinality(serv_list')
    <3>1. CASE isLocal
      BY <1>1, <1>2, <1>3, <2>1, <3>1, Sizes
    <3>2. CASE ~isLocal
      BY <1>1, <1>2, <1>3, <2>1, <3>2
    <3>. QED
      BY <3>1, <3>2
  <2>4. CountsMatch'
    BY <2>2, <2>3 DEF CountsMatch, Reg
  <2>. QED
    BY <1>1, <1>3, <2>4 DEF Counted
<1>4. CASE st = "server"
  <2>1. /\ count'["server"] = count["server"] + 1 /\ count'["total"] = count["total"]
        /\ count'["local"] = count["local"]
        /\ count'["myserver"] = IF isLocal THEN count["myserver"] + 1 ELSE count["myserver"]
    BY <1>4 DEF Bump, CountName
  <2>2. /\ count'["total"] = Cardinality(Reg("client")') /\ count'["server"] = Cardinality(Reg("server")')
    BY <1>1, <1>2, <1>4, <2>1, Sizes
  <2>3. count'["local"] = Cardinality(lclient_list') /\ count'["myserver"] = Cardinality(serv_list')
    <3>1. CASE isLocal
      BY <1>1, <1>2, <1>4, <2>1, <3>1, Sizes
    <3>2. CASE ~isLocal
      BY <1>1, <1>2, <1>4, <2>1, <3>2
    <3>. QED
      BY <3>1, <3>2
  <2>4. CountsMatch'
    BY <2>2, <2>3 DEF CountsMatch, Reg
  <2>. QED
    BY <1>1, <1>4, <2>4 DEF Counted
<1>. QED
  BY <1>3, <1>4

LEMMA CountedInit == Init => Counted
<1>. SUFFICES ASSUME Init PROVE Counted
  OBVIOUS
<1>1. /\ lclient_list = {} /\ serv_list = {} /\ Reg("client") = {} /\ Reg("server") = {}
      /\ \A n \in CountName : count[n] = 0
  BY DEF Init, Reg
<1>2. CountsMatch
  BY <1>1, CountsAre, FS_EmptySet DEF CountName
<1>. QED
  BY <1>1, <1>2 DEF Counted

LEMMA CountedStep == Inductive /\ Counted /\ [Next]_vars => Counted'
<1>. SUFFICES ASSUME TypeOK, Structure, Aborts, Counted, [Next]_vars PROVE Counted'
  BY InductiveParts, PTL DEF Inductive, Structure, Aborts
<1>1. ASSUME NEW c \in Client, AddConnection(c) \/ AddRejected(c) \/ ServConnect(c)
      PROVE  Counted'
  <2>1. /\ status[c] = "free" /\ \E st \in {"unknown", "reject"} : status' = [status EXCEPT ![c] = st]
        /\ UNCHANGED << lclient_list, serv_list, count, dead_list >>
        /\ global_client_list \subseteq global_client_list'
    BY <1>1 DEF AddConnection, AddRejected, ServConnect, MakeClient, pending
  <2>2. Reg("client")' = Reg("client") /\ Reg("server")' = Reg("server")
    BY <2>1 DEF Reg, Live, TypeOK
  <2>. QED
    BY <2>1, <2>2, QuietKeepsCounts
<1>2. ASSUME NEW s \in Client, NEW c \in Client, IntroduceServer(s, c) PROVE Counted'
  <2>1. status[c] = "free" /\ dead_list[c] = 0 /\ c \notin local
    BY <1>2, FreeIsUnknown DEF IntroduceServer, MakeClient
  <2>2. count' = Bump({IF "server" = "client" THEN "total" ELSE "server"} \union
                      (IF FALSE THEN {IF "server" = "client" THEN "local" ELSE "myserver"} ELSE {}))
    BY <1>2 DEF IntroduceServer
  <2>. QED
    BY <1>2, <2>1, <2>2, RegisterKeepsCounts DEF IntroduceServer, MakeClient, pending
<1>3. ASSUME NEW s \in Client, NEW c \in Client, IntroduceUser(s, c) PROVE Counted'
  <2>1. status[c] = "free" /\ dead_list[c] = 0 /\ c \notin local
    BY <1>3, FreeIsUnknown DEF IntroduceUser, MakeClient
  <2>2. count' = Bump({IF "client" = "client" THEN "total" ELSE "server"} \union
                      (IF FALSE THEN {IF "client" = "client" THEN "local" ELSE "myserver"} ELSE {}))
    BY <1>3 DEF IntroduceUser
  <2>. QED
    BY <1>3, <2>1, <2>2, RegisterKeepsCounts DEF IntroduceUser, MakeClient, pending
<1>4. ASSUME NEW c \in Client, RegisterLocalUser(c) PROVE Counted'
  <2>1. c \in local /\ c \in global_client_list /\ status[c] = "unknown" /\ dead_list[c] = 0
    BY <1>4, ReadableIsLive DEF RegisterLocalUser, Readable, Live
  <2>2. count' = Bump({IF "client" = "client" THEN "total" ELSE "server"} \union
                      (IF TRUE THEN {IF "client" = "client" THEN "local" ELSE "myserver"} ELSE {}))
    <3>1. {"total"} \union {"local"} = {"local", "total"}
      OBVIOUS
    <3>. QED
      BY <1>4, <3>1 DEF RegisterLocalUser
  <2>. QED
    BY <1>4, <2>1, <2>2, RegisterKeepsCounts DEF RegisterLocalUser, pending
<1>5. ASSUME NEW c \in Client, ServerEstab(c) PROVE Counted'
  <2>1. c \in local /\ c \in global_client_list /\ status[c] = "unknown" /\ dead_list[c] = 0
    BY <1>5, ReadableIsLive DEF ServerEstab, Readable, Live
  <2>2. count' = Bump({IF "server" = "client" THEN "total" ELSE "server"} \union
                      (IF TRUE THEN {IF "server" = "client" THEN "local" ELSE "myserver"} ELSE {}))
    <3>1. {"server"} \union {"myserver"} = {"server", "myserver"}
      OBVIOUS
    <3>. QED
      BY <1>5, <3>1 DEF ServerEstab
  <2>. QED
    BY <1>5, <2>1, <2>2, RegisterKeepsCounts DEF ServerEstab, pending
<1>6. ASSUME NEW c \in Client,
             \/ ReleaseAuthClient(c) \/ SetInitialNick(c) \/ ServerEstabDies(c) \/ WriteFails(c)
      PROVE  Counted'
  <2>1. /\ UNCHANGED << status, dead_list, lclient_list, serv_list, count >>
        /\ global_client_list \subseteq global_client_list'
    BY <1>6 DEF ReleaseAuthClient, SetInitialNick, ServerEstabDies, WriteFails, flags, lists, pending
  <2>2. Reg("client")' = Reg("client") /\ Reg("server")' = Reg("server")
    BY <2>1 DEF Reg, Live
  <2>. QED
    BY <2>1, <2>2, QuietKeepsCounts
<1>7. ASSUME NEW c \in Client,
             \/ ReadFails(c) \/ KillClient(c) \/ SquitServer(c) \/ WriteThenExit(c)
             \/ PingTimeout(c) \/ UnknownTimeout(c)
      PROVE  Counted'
  <2>1. ExitClient(c)
    BY <1>7 DEF ReadFails, KillClient, SquitServer, WriteThenExit, PingTimeout, UnknownTimeout
  <2>2. c \in Listed
    BY <1>7 DEF ReadFails, KillClient, SquitServer, WriteThenExit, PingTimeout, UnknownTimeout,
                Readable, Listed
  <2>3. Live(c)
    BY <2>2 DEF Structure, ListedAreLive
  <2>. QED
    BY <2>1, <2>3, ExitClientKeepsCounts
<1>8. ASSUME NEW X \in SUBSET Client, X \subseteq Listed, ExitAll(X) PROVE Counted'
  <2>1. \A c \in X : Live(c)
    BY <1>8 DEF Structure, ListedAreLive
  <2>. QED
    BY <1>8, <2>1, ExitKeepsCounts
<1>9. CASE CloseUnknowns
  <2>1. unknown_list \ closing \in SUBSET Client /\ unknown_list \ closing \subseteq Listed
    BY DEF TypeOK, Listed
  <2>. QED
    BY <1>8, <1>9, <2>1 DEF CloseUnknowns
<1>10. CASE RejectExit
  <2>1. delay_exit \ closing \in SUBSET Client /\ delay_exit \ closing \subseteq Listed
    BY DEF TypeOK, Listed
  <2>. QED
    BY <1>8, <1>10, <2>1 DEF RejectExit
<1>11. CASE EventRun \/ SkipEvent \/ CheckPingsDone \/ ExitAbortedDone \/ UNCHANGED vars
  <2>1. UNCHANGED << flags, lists, dead_list, count >>
    BY <1>11 DEF EventRun, SkipEvent, CheckPingsDone, ExitAbortedDone, vars, pending
  <2>2. Reg("client")' = Reg("client") /\ Reg("server")' = Reg("server")
    BY <2>1 DEF Reg, Live, flags
  <2>. QED
    BY <2>1, <2>2, QuietKeepsCounts DEF lists
<1>12. CASE FreeExitedClients
  <2>1. /\ \A c \in Client : status'[c] = IF dead_list[c] > 0 THEN "free" ELSE status[c]
        /\ \A c \in Client : dead_list'[c] = 0
        /\ UNCHANGED << lists, count >>
    BY <1>12 DEF FreeExitedClients
  <2>2. \A c \in Client : dead_list[c] > 0 <=> dead_list[c] # 0
    BY DEF TypeOK
  <2>3. Reg("client")' = Reg("client") /\ Reg("server")' = Reg("server")
    BY <2>1, <2>2 DEF Reg, Live
  <2>. QED
    BY <2>1, <2>3, QuietKeepsCounts DEF lists
<1>13. ASSUME NEW c \in Client, ExitAborted(c) PROVE Counted'
  <2>1. CASE status[c] # "free" /\ Live(c)
    BY <1>13, <2>1, ExitClientKeepsCounts DEF ExitAborted
  <2>2. CASE ~(status[c] # "free" /\ Live(c))
    <3>1. abort_list[c] # 0
      BY <1>13 DEF ExitAborted, Aborts, AbortsInTime
    <3>2. status[c] # "free" => c \in local /\ c \in closing
      BY <2>2, <3>1 DEF Live, Aborts, AbortsAreSockets, Structure, FreedOnce
    <3>3. UNCHANGED << flags, lclient_list, serv_list, global_client_list, dead_list, count >>
      BY <1>13, <3>2 DEF ExitAborted, ExitClient
    <3>4. Reg("client")' = Reg("client") /\ Reg("server")' = Reg("server")
      BY <3>3 DEF Reg, Live, flags
    <3>. QED
      BY <3>3, <3>4, QuietKeepsCounts
  <2>. QED
    BY <2>1, <2>2
<1>. QED
  BY <1>1, <1>2, <1>3, <1>4, <1>5, <1>6, <1>7, <1>9, <1>10, <1>11, <1>12, <1>13
     DEF Next, Callback, EventStep

(* Count.local, .total, .server and .myserver are the sizes of what they   *)
(* count, however clients come and go (exit_one_client, qs_client).        *)
THEOREM CountsAlwaysMatch == Spec => []CountsMatch
<1>1. Counted => CountsMatch
  BY DEF Counted
<1>. QED
  BY <1>1, InductiveHolds, CountedInit, CountedStep, PTL DEF Spec

-----------------------------------------------------------------------------
(* ClientLife implements ClientRegistry: an exit of a member is one Leave, *)
(* because what exit_client takes is the subtree under it.                 *)
Members == Reg("client") \union Reg("server")

State == [c \in Client |->
             CASE status[c] = "free" -> "absent"
               [] dead_list[c] # 0 -> "gone"
               [] status[c] \in {"unknown", "reject"} /\ dead_list[c] = 0 -> "pending"
               [] OTHER -> "member"]
Parent == [c \in Client |->
             IF Live(c) /\ status[c] \in {"client", "server"} THEN servptr[c] ELSE Me]

(* A registered local client is on this server, and a remote one has been  *)
(* registered from the start.                                              *)
Ours ==
    \A c \in Client : Live(c) =>
        IF c \in local THEN c \in Members => servptr[c] = Me ELSE c \in Members

LEMMA StateIs ==
    ASSUME TypeOK, Structure, NEW c \in Client
    PROVE  /\ State[c] = "absent" <=> status[c] = "free"
           /\ State[c] = "gone" <=> status[c] # "free" /\ dead_list[c] # 0
           /\ State[c] = "pending" <=> Live(c) /\ c \notin Members
           /\ State[c] = "member" <=> c \in Members
           /\ Parent[c] = IF c \in Members THEN servptr[c] ELSE Me
<1>1. status[c] \in {"free", "unknown", "reject", "client", "server"}
  BY DEF TypeOK, Status
<1>2. c \in Members <=> Live(c) /\ status[c] \in {"client", "server"}
  BY DEF Members, Reg
<1>3. State[c] = CASE status[c] = "free" -> "absent"
                   [] dead_list[c] # 0 -> "gone"
                   [] status[c] \in {"unknown", "reject"} /\ dead_list[c] = 0 -> "pending"
                   [] OTHER -> "member"
  BY DEF State
<1>4. CASE status[c] = "free"
  <2>1. dead_list[c] = 0
    BY <1>4 DEF Structure, FreedOnce
  <2>2. State[c] = "absent"
    BY <1>3, <1>4, <2>1
  <2>. QED
    BY <1>2, <1>4, <2>2 DEF Parent, Live
<1>5. CASE status[c] # "free" /\ dead_list[c] # 0
  <2>1. State[c] = "gone"
    BY <1>3, <1>5
  <2>. QED
    BY <1>2, <1>5, <2>1 DEF Parent, Live
<1>6. CASE status[c] \in {"unknown", "reject"} /\ dead_list[c] = 0
  <2>1. State[c] = "pending"
    BY <1>3, <1>6
  <2>. QED
    BY <1>2, <1>6, <2>1 DEF Parent, Live
<1>7. CASE status[c] \in {"client", "server"} /\ dead_list[c] = 0
  <2>1. State[c] = "member"
    BY <1>3, <1>7
  <2>. QED
    BY <1>2, <1>7, <2>1 DEF Parent, Live
<1>. QED
  BY <1>1, <1>4, <1>5, <1>6, <1>7

(* The actions of ClientRegistry, in these terms.                          *)
LEMMA ConnectIs ==
    ASSUME NEW c \in Client, State[c] = "absent", Parent' = Parent,
           State' = [x \in Client |-> IF x \in {c} THEN "pending" ELSE State[x]]
    PROVE  [Registry!Next]_(Registry!vars)
<1>1. Registry!Connect(c)
  BY DEF Registry!Connect, Registry!Become, State, Parent
<1>. QED
  BY <1>1 DEF Registry!Next

LEMMA RegisterIs ==
    ASSUME NEW c \in Client, State[c] = "pending", Parent' = Parent,
           State' = [x \in Client |-> IF x \in {c} THEN "member" ELSE State[x]]
    PROVE  [Registry!Next]_(Registry!vars)
<1>1. Registry!Register(c)
  BY DEF Registry!Register, Registry!Become, State, Parent
<1>. QED
  BY <1>1 DEF Registry!Next

LEMMA IntroduceIs ==
    ASSUME NEW c \in Client, NEW p \in Client, State[c] = "absent", State[p] = "member",
           State' = [x \in Client |-> IF x \in {c} THEN "member" ELSE State[x]],
           Parent' = [x \in Client |-> IF x \in {c} THEN p ELSE Parent[x]]
    PROVE  [Registry!Next]_(Registry!vars)
<1>1. Registry!Introduce(c, p)
  BY DEF Registry!Introduce, Registry!Become, Registry!Under, State, Parent
<1>. QED
  BY <1>1 DEF Registry!Next

LEMMA DropIs ==
    ASSUME NEW S \in SUBSET Client, S # {}, \A c \in S : State[c] = "pending", Parent' = Parent,
           State' = [x \in Client |-> IF x \in S THEN "gone" ELSE State[x]]
    PROVE  [Registry!Next]_(Registry!vars)
<1>1. S \subseteq Registry!In("pending")
  BY DEF Registry!In, State
<1>2. Registry!Drop(S)
  BY <1>1 DEF Registry!Drop, Registry!Become, State, Parent
<1>. QED
  BY <1>2 DEF Registry!Next

LEMMA ReclaimIs ==
    ASSUME NEW S \in SUBSET Client, S # {}, \A c \in S : State[c] = "gone", Parent' = Parent,
           State' = [x \in Client |-> IF x \in S THEN "absent" ELSE State[x]]
    PROVE  [Registry!Next]_(Registry!vars)
<1>1. S \subseteq Registry!In("gone")
  BY DEF Registry!In, State
<1>2. Registry!Reclaim(S)
  BY <1>1 DEF Registry!Reclaim, Registry!Become, State, Parent
<1>. QED
  BY <1>2 DEF Registry!Next

LEMMA StutterIs ==
    ASSUME State' = State, Parent' = Parent
    PROVE  [Registry!Next]_(Registry!vars)
BY DEF Registry!vars, State, Parent

(* What exit_client takes with a member is the subtree of the registry.    *)
LEMMA SubtreeIs ==
    ASSUME TypeOK, Structure, Ours, NEW c \in Members
    PROVE  Registry!Subtree({c}) = {c} \union Dependents(c)
<1>. DEFINE X == {c} \union Dependents(c)
           Closed(D) == {c} \subseteq D /\ \A d \in Members : Parent[d] \in D => d \in D
<1>1. c \in Client /\ Live(c) /\ Members \subseteq Client /\ \A d \in Members : Live(d)
  BY DEF Members, Reg
<1>2. Registry!In("member") = Members
  <2>1. Registry!In("member") = {d \in Client : State[d] = "member"}
    BY DEF Registry!In, State
  <2>. QED
    BY <2>1, <1>1, StateIs
<1>3. Registry!Subtree({c}) = {x \in Members : \A D \in SUBSET Members : Closed(D) => x \in D}
  BY <1>2 DEF Registry!Subtree, Parent
<1>4. Removable(X) /\ X \subseteq Client /\ \A x \in X : Live(x) /\ Children(x) \subseteq X
  BY <1>1, ExitIsRemovable DEF Removable
<1>5. \A d \in Members : Parent[d] \in Client => d \in Children(Parent[d])
  <2>. SUFFICES ASSUME NEW d \in Members, Parent[d] \in Client PROVE d \in Children(Parent[d])
    OBVIOUS
  <2>1. Parent[d] = servptr[d] /\ servptr[d] # Me
    BY <1>1, StateIs, ClientAssumption
  <2>2. d \in Client \ local
    BY <1>1, <2>1 DEF Ours
  <2>. QED
    BY <1>1, <2>1, <2>2 DEF Structure, RemotesHaveALink
<1>6. \A s \in Client : \A d \in Children(s) : d \in Members /\ Parent[d] = s
  <2>. SUFFICES ASSUME NEW s \in Client, NEW d \in Children(s) PROVE d \in Members /\ Parent[d] = s
    OBVIOUS
  <2>1. d \in Client /\ Live(d) /\ d \notin local /\ servptr[d] = s
    BY DEF Structure, ListedAreLive, Listed, TreeIsWhole
  <2>2. d \in Members
    BY <2>1 DEF Ours
  <2>. QED
    BY <2>1, <2>2, StateIs
<1>7. X \subseteq Members
  <2>1. \A d \in Dependents(c) : d \notin local /\ d \in X
    BY <1>1, ExitIsRemovable
  <2>. QED
    BY <1>4, <2>1 DEF Ours
<1>8. Closed(X)
  BY <1>4, <1>5, <1>7
<1>9. ASSUME NEW D \in SUBSET Members, Closed(D) PROVE X \subseteq D
  <2>1. \A s \in D : Children(s) \subseteq D
    BY <1>1, <1>6, <1>9
  <2>2. Below(c) \subseteq D
    BY <1>1, <1>9, <2>1, BelowIsLeast
  <2>. QED
    BY <1>9, <2>2 DEF Dependents
<1>. HIDE DEF Closed, X
<1>10. X = {x \in Members : \A D \in SUBSET Members : Closed(D) => x \in D}
  BY <1>7, <1>8, <1>9
<1>. QED
  BY <1>3, <1>10 DEF X

LEMMA LeaveIs ==
    ASSUME TypeOK, Structure, Ours, NEW c \in Members,
           State' = [x \in Client |-> IF x \in {c} \union Dependents(c) THEN "gone" ELSE State[x]],
           Parent' = [x \in Client |-> IF x \in {c} \union Dependents(c) THEN Me ELSE Parent[x]]
    PROVE  [Registry!Next]_(Registry!vars)
<1>1. c \in Client /\ State[c] = "member"
  <2>1. c \in Client
    BY DEF Members, Reg
  <2>. QED
    BY <2>1, StateIs
<1>2. Registry!Leave(c)
  <2>1. Registry!Subtree({c}) = {c} \union Dependents(c)
    BY SubtreeIs
  <2>. QED
    BY <1>1, <2>1 DEF Registry!Leave, Registry!Become, Registry!Under, State, Parent
<1>. QED
  BY <1>1, <1>2 DEF Registry!Next

-----------------------------------------------------------------------------
(* Each step is one of these, and keeps Ours.                              *)
Steps == [Registry!Next]_(Registry!vars) /\ Ours'

(* Nobody registers or exits.                                              *)
LEMMA QuietStep ==
    ASSUME TypeOK, Ours, UNCHANGED << status, dead_list, local >>,
           \A c \in Members : servptr'[c] = servptr[c]
    PROVE  Steps
<1>1. Members' = Members /\ \A c : Live(c)' <=> Live(c)
  BY DEF Members, Reg, Live
<1>2. State' = State
  BY DEF State
<1>3. Parent' = Parent
  BY <1>1 DEF Parent, Members, Reg
<1>4. Ours'
  BY <1>1 DEF Ours
<1>. QED
  BY <1>2, <1>3, <1>4, StutterIs DEF Steps

(* Whoever leaves is gone, and nothing is left of their place.             *)
LEMMA ExitStates ==
    ASSUME TypeOK, Ours, NEW X \in SUBSET Client, \A c \in X : Live(c), ExitAll(X)
    PROVE  /\ Ours'
           /\ State' = [x \in Client |-> IF x \in X THEN "gone" ELSE State[x]]
           /\ Parent' = [x \in Client |-> IF x \in X THEN Me ELSE Parent[x]]
<1>1. /\ UNCHANGED << status, local, servptr >>
      /\ \A c \in Client : dead_list'[c] = IF c \in X THEN dead_list[c] + 1 ELSE dead_list[c]
  BY DEF ExitAll
<1>2. \A c \in X : dead_list[c] = 0 /\ dead_list'[c] = 1 /\ status[c] # "free"
  BY <1>1 DEF Live
<1>3. \A c \in Client : Live(c)' <=> Live(c) /\ c \notin X
  BY <1>1, <1>2 DEF Live
<1>4. Members' = Members \ X
  BY <1>1, <1>3 DEF Members, Reg
<1>5. Ours'
  BY <1>1, <1>3, <1>4 DEF Ours
<1>6. State' = [x \in Client |-> IF x \in X THEN "gone" ELSE State[x]]
  <2>1. \A x \in Client : State'[x] = IF x \in X THEN "gone" ELSE State[x]
    <3>1. ASSUME NEW x \in X PROVE State'[x] = "gone"
      BY <1>1, <1>2 DEF State
    <3>2. ASSUME NEW x \in Client \ X PROVE State'[x] = State[x]
      BY <1>1 DEF State
    <3>. QED
      BY <3>1, <3>2
  <2>2. State' = [x \in Client |-> State'[x]]
    BY DEF State
  <2>. HIDE DEF State
  <2>. QED
    BY <2>1, <2>2
<1>7. Parent' = [x \in Client |-> IF x \in X THEN Me ELSE Parent[x]]
  BY <1>1, <1>3 DEF Parent
<1>. QED
  BY <1>5, <1>6, <1>7

LEMMA ExitStep ==
    ASSUME TypeOK, Structure, Ours, NEW c \in Client, Live(c), ExitClient(c)
    PROVE  Steps
<1>. DEFINE X == {c} \union Dependents(c)
<1>1. X \in SUBSET Client /\ \A d \in X : Live(d)
  BY ExitIsRemovable DEF Removable
<1>2. ExitAll(X)
  BY DEF ExitClient, Structure, FlagsAreClean, Exited, Live
<1>3. /\ Ours'
      /\ State' = [x \in Client |-> IF x \in X THEN "gone" ELSE State[x]]
      /\ Parent' = [x \in Client |-> IF x \in X THEN Me ELSE Parent[x]]
  BY <1>1, <1>2, ExitStates
<1>4. CASE c \in Members
  BY <1>3, <1>4, LeaveIs DEF Steps
<1>5. CASE c \notin Members
  <2>1. X = {c} /\ State[c] = "pending" /\ Parent[c] = Me
    <3>1. status[c] # "server"
      BY <1>5 DEF Members, Reg
    <3>. QED
      BY <1>5, <3>1, StateIs DEF Dependents
  <2>2. Parent' = Parent
    <3>1. Parent = [x \in Client |-> Parent[x]]
      BY DEF Parent
    <3>. QED
      BY <1>3, <2>1, <3>1
  <2>. QED
    BY <1>3, <2>1, <2>2, DropIs DEF Steps
<1>. QED
  BY <1>4, <1>5

(* CLOSE and reject_exit drop connections that have not registered.        *)
LEMMA DropStep ==
    ASSUME TypeOK, Structure, Ours, NEW X \in SUBSET Client, X \subseteq Listed,
           \A c \in X : status[c] \in {"unknown", "reject"}, ExitAll(X)
    PROVE  Steps
<1>1. \A c \in X : Live(c) /\ c \notin Members
  BY DEF Structure, ListedAreLive, Members, Reg
<1>2. /\ Ours'
      /\ State' = [x \in Client |-> IF x \in X THEN "gone" ELSE State[x]]
      /\ Parent' = [x \in Client |-> IF x \in X THEN Me ELSE Parent[x]]
  BY <1>1, ExitStates
<1>3. \A c \in X : State[c] = "pending" /\ Parent[c] = Me
  BY <1>1, StateIs
<1>4. /\ State = [x \in Client |-> State[x]]
      /\ Parent = [x \in Client |-> Parent[x]]
  BY DEF State, Parent
<1>5. Parent' = Parent
  BY <1>2, <1>3, <1>4
<1>6. CASE X = {}
  <2>1. State' = State
    BY <1>2, <1>4, <1>6
  <2>. QED
    BY <1>2, <1>5, <2>1, StutterIs DEF Steps
<1>7. CASE X # {}
  BY <1>2, <1>3, <1>5, <1>7, DropIs DEF Steps
<1>. QED
  BY <1>6, <1>7

(* One client is created or registers.                                     *)
LEMMA NewStates ==
    ASSUME TypeOK, NEW c \in Client, NEW st \in Status \ {"free"},
           dead_list[c] = 0, dead_list' = dead_list, status' = [status EXCEPT ![c] = st],
           status[c] = "free" \/ c \notin Members,
           \A x \in Client : x # c => servptr'[x] = servptr[x]
    PROVE  /\ State' = [x \in Client |->
                 IF x \in {c} THEN IF st \in {"client", "server"} THEN "member" ELSE "pending"
                 ELSE State[x]]
           /\ Parent' = [x \in Client |->
                 IF x \in {c} THEN IF st \in {"client", "server"} THEN servptr'[c] ELSE Me
                 ELSE Parent[x]]
           /\ Members' = IF st \in {"client", "server"} THEN Members \union {c} ELSE Members
           /\ \A x \in Client : Live(x)' <=> x = c \/ Live(x)
<1>1. /\ status'[c] = st /\ \A x \in Client : x # c => status'[x] = status[x]
      /\ st \in {"unknown", "reject", "client", "server"}
  BY DEF TypeOK, Status
<1>2. \A x \in Client : Live(x)' <=> x = c \/ Live(x)
  BY <1>1 DEF Live
<1>3. c \notin Members
  BY DEF Members, Reg, Live
<1>4. Members' = IF st \in {"client", "server"} THEN Members \union {c} ELSE Members
  BY <1>1, <1>2, <1>3 DEF Members, Reg
<1>5. \A x \in Client : State'[x] = IF x = c THEN IF st \in {"client", "server"} THEN "member" ELSE "pending"
                                    ELSE State[x]
  <2>1. State'[c] = IF st \in {"client", "server"} THEN "member" ELSE "pending"
    BY <1>1 DEF State
  <2>2. ASSUME NEW x \in Client, x # c PROVE State'[x] = State[x]
    BY <1>1, <2>2 DEF State
  <2>. QED
    BY <2>1, <2>2
<1>6. \A x \in Client : Parent'[x] = IF x = c THEN IF st \in {"client", "server"} THEN servptr'[c] ELSE Me
                                     ELSE Parent[x]
  BY <1>1, <1>2 DEF Parent
<1>7. State' = [x \in Client |-> State'[x]] /\ Parent' = [x \in Client |-> Parent'[x]]
  BY DEF State, Parent
<1>. HIDE DEF State, Parent, Members
<1>8. State' = [x \in Client |->
          IF x \in {c} THEN IF st \in {"client", "server"} THEN "member" ELSE "pending" ELSE State[x]]
  BY <1>5, <1>7
<1>9. Parent' = [x \in Client |->
          IF x \in {c} THEN IF st \in {"client", "server"} THEN servptr'[c] ELSE Me ELSE Parent[x]]
  BY <1>6, <1>7
<1>. QED
  BY <1>2, <1>4, <1>8, <1>9

LEMMA RegistryStep == Inductive /\ Ours /\ [Next]_vars => Steps
<1>. SUFFICES ASSUME TypeOK, Structure, Aborts, Ours, [Next]_vars PROVE Steps
  BY InductiveParts
<1>1. ASSUME NEW c \in Client, AddConnection(c) \/ AddRejected(c) \/ ServConnect(c)
      PROVE  Steps
  <2>1. PICK st \in {"unknown", "reject"} : MakeClient(c, TRUE, c, st)
    BY <1>1 DEF AddConnection, AddRejected, ServConnect
  <2>2. /\ status[c] = "free" /\ status' = [status EXCEPT ![c] = st]
        /\ UNCHANGED << servptr, dead_list >> /\ local' = local \union {c}
    BY <1>1, <2>1 DEF AddConnection, AddRejected, ServConnect, MakeClient, pending
  <2>3. dead_list[c] = 0 /\ st \in Status \ {"free"} /\ st \notin {"client", "server"}
    BY <2>2, FreeIsUnknown DEF Status
  <2>4. /\ State' = [x \in Client |-> IF x \in {c} THEN "pending" ELSE State[x]]
        /\ Parent' = [x \in Client |-> IF x \in {c} THEN Me ELSE Parent[x]]
        /\ Members' = Members /\ \A x \in Client : Live(x)' <=> x = c \/ Live(x)
    <3>1. /\ dead_list' = dead_list /\ status' = [status EXCEPT ![c] = st] /\ status[c] = "free"
          /\ \A x \in Client : x # c => servptr'[x] = servptr[x]
      BY <2>2
    <3>2. /\ State' = [x \in Client |->
                IF x \in {c} THEN IF st \in {"client", "server"} THEN "member" ELSE "pending" ELSE State[x]]
          /\ Parent' = [x \in Client |->
                IF x \in {c} THEN IF st \in {"client", "server"} THEN servptr'[c] ELSE Me ELSE Parent[x]]
          /\ Members' = IF st \in {"client", "server"} THEN Members \union {c} ELSE Members
          /\ \A x \in Client : Live(x)' <=> x = c \/ Live(x)
      BY <2>3, <3>1, NewStates
    <3>3. st \notin {"client", "server"}
      BY <2>3
    <3> QED BY <3>2, <3>3
  <2>5. State[c] = "absent" /\ Parent[c] = Me /\ c \notin Members
    BY <2>2, StateIs DEF Members, Reg, Live
  <2>6. Parent' = Parent
    <3>1. Parent = [x \in Client |-> Parent[x]]
      BY DEF Parent
    <3>. QED
      BY <2>4, <2>5, <3>1
  <2>7. Ours'
    BY <2>2, <2>4, <2>5 DEF Ours
  <2>. QED
    BY <2>4, <2>5, <2>6, <2>7, ConnectIs DEF Steps
<1>2. ASSUME NEW s \in Client, NEW c \in Client, IntroduceServer(s, c) \/ IntroduceUser(s, c)
      PROVE  Steps
  <2>1. PICK st \in {"client", "server"} : MakeClient(c, FALSE, from[s], st)
    BY <1>2 DEF IntroduceServer, IntroduceUser
  <2>2. /\ status[c] = "free" /\ status' = [status EXCEPT ![c] = st]
        /\ servptr' = [servptr EXCEPT ![c] = s] /\ UNCHANGED << local, dead_list >>
        /\ s \in named /\ status[s] = "server"
    BY <1>2, <2>1 DEF IntroduceServer, IntroduceUser, MakeClient, pending, Introducer
  <2>3. dead_list[c] = 0 /\ c \notin local /\ st \in Status \ {"free"}
    BY <2>2, FreeIsUnknown DEF Status
  <2>4. /\ servptr'[c] = s /\ \A x \in Client : x # c => servptr'[x] = servptr[x]
    BY <2>2 DEF TypeOK
  <2>5. /\ State' = [x \in Client |-> IF x \in {c} THEN "member" ELSE State[x]]
        /\ Parent' = [x \in Client |-> IF x \in {c} THEN servptr'[c] ELSE Parent[x]]
        /\ Members' = Members \union {c} /\ \A x \in Client : Live(x)' <=> x = c \/ Live(x)
    <3>1. status[c] = "free" /\ dead_list' = dead_list /\ status' = [status EXCEPT ![c] = st]
      BY <2>2
    <3>2. \A x \in Client : x # c => servptr'[x] = servptr[x]
      BY <2>4
    <3>3. /\ State' = [x \in Client |->
                IF x \in {c} THEN IF st \in {"client", "server"} THEN "member" ELSE "pending"
                ELSE State[x]]
          /\ Parent' = [x \in Client |->
                IF x \in {c} THEN IF st \in {"client", "server"} THEN servptr'[c] ELSE Me
                ELSE Parent[x]]
          /\ Members' = IF st \in {"client", "server"} THEN Members \union {c} ELSE Members
          /\ \A x \in Client : Live(x)' <=> x = c \/ Live(x)
      BY <2>3, <3>1, <3>2, NewStates
    <3>. QED
      BY <2>1, <3>3
  <2>6. State[c] = "absent" /\ State[s] = "member"
    <3>1. s \in Members
      BY <2>2 DEF Members, Reg, Structure, ListedAreLive, Listed
    <3>. QED
      BY <2>2, <3>1, StateIs
  <2>7. Ours'
    BY <2>2, <2>3, <2>4, <2>5 DEF Ours
  <2>. QED
    BY <2>4, <2>5, <2>6, <2>7, IntroduceIs DEF Steps
<1>3. ASSUME NEW c \in Client, RegisterLocalUser(c) \/ ServerEstab(c) PROVE Steps
  <2>1. PICK st \in {"client", "server"} : status' = [status EXCEPT ![c] = st]
    BY <1>3 DEF RegisterLocalUser, ServerEstab
  <2>2. /\ servptr' = [servptr EXCEPT ![c] = Me] /\ UNCHANGED << local, dead_list >>
        /\ c \in local /\ c \in global_client_list /\ status[c] = "unknown"
    BY <1>3 DEF RegisterLocalUser, ServerEstab, Readable, pending
  <2>3. dead_list[c] = 0 /\ Live(c) /\ c \notin Members /\ st \in Status \ {"free"}
    BY <2>2, ReadableIsLive DEF Live, Members, Reg, Status
  <2>4. /\ servptr'[c] = Me /\ \A x \in Client : x # c => servptr'[x] = servptr[x]
    BY <2>2 DEF TypeOK
  <2>5. /\ State' = [x \in Client |-> IF x \in {c} THEN "member" ELSE State[x]]
        /\ Parent' = [x \in Client |-> IF x \in {c} THEN servptr'[c] ELSE Parent[x]]
        /\ Members' = Members \union {c} /\ \A x \in Client : Live(x)' <=> x = c \/ Live(x)
    <3>1. /\ status' = [status EXCEPT ![c] = st] /\ dead_list' = dead_list
          /\ \A x \in Client : x # c => servptr'[x] = servptr[x]
      BY <2>1, <2>2, <2>4
    <3>2. /\ State' = [x \in Client |->
                IF x \in {c} THEN IF st \in {"client", "server"} THEN "member" ELSE "pending"
                ELSE State[x]]
          /\ Parent' = [x \in Client |->
                IF x \in {c} THEN IF st \in {"client", "server"} THEN servptr'[c] ELSE Me
                ELSE Parent[x]]
          /\ Members' = IF st \in {"client", "server"} THEN Members \union {c} ELSE Members
          /\ \A x \in Client : Live(x)' <=> x = c \/ Live(x)
      BY <2>3, <3>1, NewStates
    <3>. QED
      BY <2>1, <3>2
  <2>6. State[c] = "pending" /\ Parent[c] = Me
    BY <2>3, StateIs
  <2>7. Parent' = Parent
    <3>1. Parent = [x \in Client |-> Parent[x]]
      BY DEF Parent
    <3>. QED
      BY <2>4, <2>5, <2>6, <3>1
  <2>8. Ours'
    BY <2>2, <2>3, <2>4, <2>5 DEF Ours
  <2>. QED
    BY <2>5, <2>6, <2>7, <2>8, RegisterIs DEF Steps
<1>4. ASSUME NEW c \in Client,
             \/ ReleaseAuthClient(c) \/ SetInitialNick(c) \/ ServerEstabDies(c) \/ WriteFails(c)
      PROVE  Steps
  <2>1. UNCHANGED << status, dead_list, local >>
    BY <1>4 DEF ReleaseAuthClient, SetInitialNick, ServerEstabDies, WriteFails, flags, pending
  <2>2. \A x \in Members : servptr'[x] = servptr[x]
    BY <1>4 DEF ReleaseAuthClient, SetInitialNick, ServerEstabDies, WriteFails, flags, Members, Reg, TypeOK
  <2>. QED
    BY <2>1, <2>2, QuietStep
<1>5. ASSUME NEW c \in Client,
             \/ ReadFails(c) \/ KillClient(c) \/ SquitServer(c) \/ WriteThenExit(c)
             \/ PingTimeout(c) \/ UnknownTimeout(c)
      PROVE  Steps
  <2>1. ExitClient(c)
    BY <1>5 DEF ReadFails, KillClient, SquitServer, WriteThenExit, PingTimeout, UnknownTimeout
  <2>2. c \in Listed
    BY <1>5 DEF ReadFails, KillClient, SquitServer, WriteThenExit, PingTimeout, UnknownTimeout,
                Readable, Listed
  <2>3. Live(c)
    BY <2>2 DEF Structure, ListedAreLive
  <2>. QED
    BY <2>1, <2>3, ExitStep
<1>6. CASE CloseUnknowns
  <2>1. \A c \in unknown_list : c \in Client /\ c \in Listed /\ status[c] = "unknown"
    BY DEF Structure, ListedAreLive, Listed, ListsByStatus, OneListEach, TypeOK
  <2>2. ExitAll(unknown_list \ closing) /\ unknown_list \ closing \in SUBSET Client
    BY <1>6, <2>1 DEF CloseUnknowns
  <2>. QED
    BY <2>1, <2>2, DropStep
<1>7. CASE RejectExit
  <2>1. \A c \in delay_exit : c \in Client /\ c \in Listed /\ status[c] = "reject"
    BY DEF Structure, ListedAreLive, Listed, ListsByStatus, OneListEach, TypeOK
  <2>2. ExitAll(delay_exit \ closing) /\ delay_exit \ closing \in SUBSET Client
    BY <1>7, <2>1 DEF RejectExit
  <2>. QED
    BY <2>1, <2>2, DropStep
<1>8. CASE EventRun \/ SkipEvent \/ CheckPingsDone \/ ExitAbortedDone \/ UNCHANGED vars
  <2>1. UNCHANGED << flags, dead_list >>
    BY <1>8 DEF EventRun, SkipEvent, CheckPingsDone, ExitAbortedDone, vars, pending
  <2>. QED
    BY <2>1, QuietStep DEF flags
<1>9. CASE FreeExitedClients
  <2>. DEFINE F == {c \in Client : dead_list[c] > 0}
  <2>1. /\ status' = [c \in Client |-> IF c \in F THEN "free" ELSE status[c]]
        /\ local' = local \ F /\ dead_list' = [c \in Client |-> 0]
        /\ servptr' = [c \in Client |-> IF c \in F THEN NoClient ELSE servptr[c]]
    BY <1>9 DEF FreeExitedClients
  <2>2. \A c \in Client : c \in F <=> dead_list[c] # 0
    BY DEF TypeOK
  <2>3. \A c \in F : status[c] # "free"
    BY <2>2 DEF Structure, FreedOnce
  <2>. HIDE DEF F
  <2>4. F \in SUBSET Client
    BY DEF F
  <2>5. \A c \in Client : (Live(c)' <=> Live(c)) /\ (Live(c) => c \notin F)
    BY <2>1, <2>2, <2>3 DEF Live
  <2>6. Members' = Members
    BY <2>1, <2>5 DEF Members, Reg
  <2>7. \A c \in F : State[c] = "gone"
    BY <2>2, <2>3, <2>4, StateIs
  <2>8. State' = [c \in Client |-> IF c \in F THEN "absent" ELSE State[c]]
    <3>1. ASSUME NEW c \in F PROVE State'[c] = "absent"
      BY <2>1, <2>4 DEF State
    <3>2. ASSUME NEW c \in Client \ F PROVE State'[c] = State[c]
      BY <2>1, <2>2 DEF State
    <3>3. State' = [c \in Client |-> State'[c]]
      BY DEF State
    <3>. HIDE DEF State
    <3>. QED
      BY <3>1, <3>2, <3>3
  <2>9. Parent' = Parent
    <3>1. \A c \in Client : Live(c) => servptr'[c] = servptr[c] /\ status'[c] = status[c]
      BY <2>1, <2>5
    <3>. QED
      BY <2>1, <2>5, <3>1 DEF Parent
  <2>10. Ours'
    BY <2>1, <2>5, <2>6 DEF Ours, Members, Reg
  <2>11. CASE F = {}
    <3>1. State = [c \in Client |-> State[c]]
      BY DEF State
    <3>2. State' = State
      BY <2>8, <2>11, <3>1
    <3>. QED
      BY <2>9, <2>10, <3>2, StutterIs DEF Steps
  <2>12. CASE F # {}
    BY <2>4, <2>7, <2>8, <2>9, <2>10, <2>12, ReclaimIs DEF Steps
  <2>. QED
    BY <2>11, <2>12
<1>10. ASSUME NEW c \in Client, ExitAborted(c) PROVE Steps
  <2>1. CASE status[c] # "free" /\ Live(c)
    BY <1>10, <2>1, ExitStep DEF ExitAborted
  <2>2. CASE ~(status[c] # "free" /\ Live(c))
    <3>1. abort_list[c] # 0
      BY <1>10 DEF ExitAborted, Aborts, AbortsInTime
    <3>2. status[c] # "free" => c \in local /\ c \in closing
      BY <2>2, <3>1 DEF Live, Aborts, AbortsAreSockets, Structure, FreedOnce
    <3>3. UNCHANGED << flags, dead_list >>
      BY <1>10, <3>2 DEF ExitAborted, ExitClient
    <3>. QED
      BY <3>3, QuietStep DEF flags
  <2>. QED
    BY <2>1, <2>2
<1>. QED
  BY <1>1, <1>2, <1>3, <1>4, <1>5, <1>6, <1>7, <1>8, <1>9, <1>10 DEF Next, Callback, EventStep

LEMMA RegistryInit == Init => Registry!Init /\ Ours
<1>. SUFFICES ASSUME Init PROVE Registry!Init /\ Ours
  OBVIOUS
<1>1. \A c \in Client : status[c] = "free" /\ dead_list[c] = 0 /\ ~Live(c)
  BY DEF Init, Live
<1>2. State = [c \in Client |-> "absent"]
  BY <1>1 DEF State
<1>3. Parent = [c \in Client |-> Me]
  BY <1>1 DEF Parent
<1>. QED
  BY <1>1, <1>2, <1>3 DEF Registry!Init, State, Parent, Ours

(* Every behaviour of the ircd's lists is one of the abstract tree of      *)
(* clients: a member leaves in one step with all that is behind it, and    *)
(* nothing else moves (exit_client, recurse_remove_clients).               *)
THEOREM ImplementsRegistry == Spec => RegistrySpec
<1>1. Inductive /\ Ours /\ [Next]_vars => [Registry!Next]_(Registry!vars) /\ Ours'
  BY RegistryStep DEF Steps
<1>. QED
  BY <1>1, InductiveHolds, RegistryInit, PTL DEF Spec, RegistrySpec, Registry!Spec
=============================================================================
