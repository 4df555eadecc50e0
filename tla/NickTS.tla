------------------------------- MODULE NickTS -------------------------------
(***************************************************************************)
(* Nicknames on a network of servers.  A line names a client by its nick,  *)
(* and a server gives a nick to whoever asks when nobody holds it there,   *)
(* so two servers may give it to two clients at once.  Whoever learns of   *)
(* the second resolves the collision alone, by the timestamps of the nick  *)
(* and by user@host, and kills the loser (m_nick.c, m_kill.c, client.c,    *)
(* parse.c, whowas.c, and the burst of s_serv.c).                          *)
(* Nicks that differ in case only are one nick here.                       *)
(***************************************************************************)
EXTENDS Links, SequencesExt

CONSTANTS
    User,          \* connections: each is made once
    Nick,
    NoNick,        \* the name of a client that is not there
    Nobody,        \* a whowas entry whose client has gone
    home,          \* the server each connection is made to
    userhost,      \* its user@host
    clock,         \* the times the clock of a server may show, none of them 0
    Commands,      \* what happens here beside connecting
    MaxCommands,   \* bound: commands of users and opers
    MaxCloses,     \* bound: links lost
    MaxActs        \* bound: both together

ASSUME NickAssumption ==
    /\ IsFiniteSet(User) /\ NoNick \notin Nick /\ Nobody \notin User
    /\ home \in [User -> Server]
    /\ clock \in [Server -> SUBSET (Nat \ {0})]
    /\ Commands \subseteq {"change", "case", "flood", "quit", "kill"}
    /\ MaxCommands \in Nat /\ MaxCloses \in Nat /\ MaxActs \in Nat

VARIABLES
    at,        \* at[s]: the clients s holds, and its whowas table
    fresh,     \* the connections that have not been made yet
    used,      \* history: the kinds of commands, and splits, there have been
    killed,    \* history: whom an oper has killed
    claims,    \* history: who has taken which nick, and when
    spent      \* how much of the bounds is used up

history == << used, killed, claims >>
vars == << at, links, net, fresh, history, spent >>

Client == [nick : Nick \union {NoNick}, ts : Nat, known : BOOLEAN]
Absent == [nick |-> NoNick, ts |-> 0, known |-> FALSE]

View == [client : [User -> Client], was : [Nick -> User \union {Nobody}]]

Message ==
    [type : {"NICK"}, user : User, nick : Nick, ts : Nat]
        \union [type : {"CHANGE"}, old : Nick, nick : Nick, ts : Nat]
        \union [type : {"KILL", "QUIT"}, nick : Nick]

TypeOK ==
    /\ at \in [Server -> View]
    /\ LinksTypeOK(Message)
    /\ fresh \subseteq User /\ killed \subseteq User
    /\ used \subseteq Commands \union {"split"}
    /\ claims \subseteq [user : User, nick : Nick, ts : Nat]
    /\ spent \in [{"commands", "closes"} -> Nat]

Init ==
    /\ at = [s \in Server |-> [client |-> [u \in User |-> Absent], was |-> [n \in Nick |-> Nobody]]]
    /\ LinksInit
    /\ fresh = User /\ used = {} /\ killed = {} /\ claims = {}
    /\ spent = [commands |-> 0, closes |-> 0]

Spend(what, limit) ==
    /\ spent[what] < limit /\ spent.commands + spent.closes < MaxActs
    /\ spent' = [spent EXCEPT ![what] = @ + 1]
Use(command) ==
    /\ command \in Commands
    /\ used' = used \union {command}
Claim(u, n, now) == claims' = claims \union {[user |-> u, nick |-> n, ts |-> now]}

-----------------------------------------------------------------------------
(* What one server knows: v is at[s].                                      *)
(* find_client: at most one client, see NicksAreUnique.                    *)
Holder(v, n) == {u \in User : v.client[u].nick = n}

(* ... or, with get_history, who held it last and is still here.           *)
Chased(v, n) == IF Holder(v, n) # {} THEN Holder(v, n) ELSE {v.was[n]} \ {Nobody}

(* Mutant of Exit: without off_history.                                    *)
Exit_KeepsHistory(v, S) ==
    [v EXCEPT !.client = [u \in User |-> IF u \in S THEN Absent ELSE v.client[u]]]

(* exit_one_client: the whowas entries of those who leave lose their       *)
(* client, and the newest entry under their nick is one without a client.  *)
Exit(v, S) ==
    LET seen == {u \in S : v.client[u].known}
    IN  [client |-> [u \in User |-> IF u \in S THEN Absent ELSE v.client[u]],
         was |-> [n \in Nick |->
            IF v.was[n] \in seen \/ Holder(v, n) \intersect seen # {} THEN Nobody ELSE v.was[n]]]

Enter(v, u, n, ts, known) ==
    [v EXCEPT !.client[u] = [nick |-> n, ts |-> ts, known |-> known]]

(* Mutant of Evicted: a holder that has not registered is left alone.      *)
Evicted_Registered(v, u, n) == Exit(v, {x \in Holder(v, n) \ {u} : v.client[x].known})

(* Before u is given nick n whoever else holds it is put out.              *)
Evicted(v, u, n) == Exit(v, Holder(v, n) \ {u})

(* A change of nick leaves an entry in the whowas table.                   *)
Rename(v, u, n, ts) ==
    [Enter(v, u, n, ts, TRUE) EXCEPT !.was[v.client[u].nick] = u]

NickLine(u, c) == [type |-> "NICK", user |-> u, nick |-> c.nick, ts |-> c.ts]
KillLine(n) == [type |-> "KILL", nick |-> n]
QuitLine(n) == [type |-> "QUIT", nick |-> n]
ChangeLine(old, n, ts) == [type |-> "CHANGE", old |-> old, nick |-> n, ts |-> ts]

-----------------------------------------------------------------------------
(* What users and opers do.                                                *)

(* mr_nick: a client that is not registered yet takes a nick.              *)
ChooseNick(u, n) ==
    LET s == home[u] IN
    /\ u \in fresh \/ (at[s].client[u].nick # NoNick /\ ~at[s].client[u].known)
    /\ Holder(at[s], n) = {}
    /\ Spend("commands", MaxCommands)
    /\ \E now \in clock[s] :
         /\ at' = [at EXCEPT ![s] = Enter(@, u, n, now, FALSE)]
         /\ Claim(u, n, now)
    /\ fresh' = fresh \ {u}
    /\ UNCHANGED << links, net, used, killed >>

(* register_local_user and introduce_client.                               *)
Register(u) ==
    LET s == home[u]
        c == at[s].client[u] IN
    /\ c.nick # NoNick /\ ~c.known
    /\ at' = [at EXCEPT ![s].client[u].known = TRUE]
    /\ net' = Sent(s, {}, << NickLine(u, c) >>)
    /\ UNCHANGED << links, fresh, history, spent >>

(* m_nick lets a user have a nick that is free, his own in another case,   *)
(* or a nick whose holder has not registered, who is put out.              *)
MayTake(v, u, n) == \A x \in Holder(v, n) \ {u} : ~v.client[x].known

ChangeNick(u, n) ==
    LET s == home[u]
        c == at[s].client[u] IN
    /\ c.known /\ MayTake(at[s], u, n)
    /\ Use(IF c.nick = n THEN "case" ELSE "change") /\ Spend("commands", MaxCommands)
    /\ \E now \in clock[s] :
         /\ at' = [at EXCEPT ![s] = Rename(Evicted(@, u, n), u, n, now)]
         /\ net' = Sent(s, {}, << ChangeLine(c.nick, n, now) >>)
         /\ Claim(u, n, now)
    /\ UNCHANGED << links, fresh, killed >>

(* change_local_nick when the user has changed nicks too often: the client *)
(* has its new timestamp already.  number_of_nick_changes is left open.    *)
RefuseNick(u, n) ==
    LET s == home[u] IN
    /\ at[s].client[u].known /\ MayTake(at[s], u, n)
    /\ Use("flood") /\ Spend("commands", MaxCommands)
    /\ \E now \in clock[s] :
         at' = [at EXCEPT ![s] = [Evicted(@, u, n) EXCEPT !.client[u].ts = now]]
    /\ UNCHANGED << links, net, fresh, killed, claims >>

(* exit_client of a local client that leaves or is lost.                   *)
Quit(u) ==
    LET s == home[u]
        c == at[s].client[u] IN
    /\ c.nick # NoNick
    /\ Use("quit") /\ Spend("commands", MaxCommands)
    /\ at' = [at EXCEPT ![s] = Exit(@, {u})]
    /\ net' = IF c.known THEN Sent(s, {}, << QuitLine(c.nick) >>) ELSE net
    /\ UNCHANGED << links, fresh, killed, claims >>

(* mo_kill: a local target quits, a remote one is killed everywhere.       *)
OperKill(s, n) ==
    \E u \in Chased(at[s], n) :
        LET c == at[s].client[u] IN
        /\ Use("kill") /\ Spend("commands", MaxCommands)
        /\ at' = [at EXCEPT ![s] = Exit(@, {u})]
        /\ net' = IF home[u] # s THEN Sent(s, {}, << KillLine(c.nick) >>)
                  ELSE IF c.known THEN Sent(s, {}, << QuitLine(c.nick) >>) ELSE net
        /\ killed' = killed \union {u}
        /\ UNCHANGED << links, fresh, claims >>

-----------------------------------------------------------------------------
(* The lines, as t parses them from s.                                     *)

(* Mutant of Tie: of equal timestamps the newcomer's wins.                 *)
Tie_Never(ts, c) == FALSE

(* perform_nick_collides, for a nick of u with timestamp ts that a client  *)
(* x holds: both are killed, or the newcomer gives way, or x does.         *)
Tie(ts, c) == ts = c.ts

(* Of two connections of one user@host the older is the one to go.         *)
Yields(u, ts, x, c) == IF userhost[u] = userhost[x] THEN ts < c.ts ELSE ts > c.ts

(* ms_nick and nick_from_server for a new client.                          *)
ReceiveNick(s, t) ==
    /\ Arrives(s, t, "NICK")
    /\ LET m == Head(net[s][t])
           X == {x \in Holder(at[t], m.nick) : at[t].client[x].known}
           accepted == Enter(Evicted(at[t], m.user, m.nick), m.user, m.nick, m.ts, TRUE)
       IN
       \/ /\ X = {}
          /\ at' = [at EXCEPT ![t] = accepted]
          /\ net' = Taken(s, t, << m >>)
       \/ \E x \in X : LET c == at[t].client[x] IN
            \/ /\ Tie(m.ts, c)
               /\ at' = [at EXCEPT ![t] = Exit(@, {x})]
               /\ net' = Answered(s, t, << KillLine(m.nick) >>, << KillLine(m.nick) >>)
            \/ /\ ~Tie(m.ts, c) /\ Yields(m.user, m.ts, x, c)
               /\ net' = Taken(s, t, << >>)
               /\ UNCHANGED at
            \/ /\ ~Tie(m.ts, c) /\ ~Yields(m.user, m.ts, x, c)
               /\ at' = [at EXCEPT ![t] = accepted]
               /\ net' = Taken(s, t, << KillLine(m.nick), m >>)
    /\ UNCHANGED << links, fresh, history, spent >>

(* Client u is not on the side of t that s is on.                          *)
Elsewhere(s, t, u) == home[u] \notin Behind(t, s)

(* parse: a line whose prefix is the nick n is that of a client.           *)
Source(s, t, n) == {u \in Holder(at[t], n) : ~Elsewhere(s, t, u)}

(* If there is none the other side is told to kill its ghost               *)
(* (remove_unknown); if it is elsewhere the line is ignored                *)
(* (cancel_clients).                                                       *)
Misdirected(s, t, n) ==
    /\ Source(s, t, n) = {}
    /\ net' = Answered(s, t, IF Holder(at[t], n) = {} THEN << KillLine(n) >> ELSE << >>, << >>)
    /\ UNCHANGED at

(* ms_nick and nick_from_server for a change of nick by u.                 *)
HandleChange(s, t, u) ==
    LET m == Head(net[s][t])
        old == at[t].client[u].nick
        X == {x \in Holder(at[t], m.nick) : at[t].client[x].known} \ {u}
        ts == IF m.nick = old THEN at[t].client[u].ts ELSE m.ts
        changed == Rename(Evicted(at[t], u, m.nick), u, m.nick, ts)
        line == ChangeLine(old, m.nick, ts)
    IN
    \/ /\ X = {}
       /\ at' = [at EXCEPT ![t] = changed]
       /\ net' = Taken(s, t, << line >>)
    \/ \E x \in X : LET c == at[t].client[x] IN
         \/ /\ Tie(m.ts, c)
            /\ at' = [at EXCEPT ![t] = Exit(@, {u, x})]
            /\ LET kills == << KillLine(old), KillLine(m.nick) >>
               IN  net' = Answered(s, t, kills, kills)
         \/ /\ ~Tie(m.ts, c) /\ Yields(u, m.ts, x, c)
            /\ at' = [at EXCEPT ![t] = Exit(@, {u})]
            /\ net' = Taken(s, t, << KillLine(old) >>)
         \/ /\ ~Tie(m.ts, c) /\ ~Yields(u, m.ts, x, c)
            /\ at' = [at EXCEPT ![t] = changed]
            /\ net' = Taken(s, t, << KillLine(m.nick), line >>)

ReceiveChange(s, t) ==
    /\ Arrives(s, t, "CHANGE")
    /\ LET old == Head(net[s][t]).old IN
       Misdirected(s, t, old) \/ \E u \in Source(s, t, old) : HandleChange(s, t, u)
    /\ UNCHANGED << links, fresh, history, spent >>

ReceiveQuit(s, t) ==
    /\ Arrives(s, t, "QUIT")
    /\ LET m == Head(net[s][t]) IN
       \/ Misdirected(s, t, m.nick)
       \/ \E u \in Source(s, t, m.nick) :
            /\ at' = [at EXCEPT ![t] = Exit(@, {u})]
            /\ net' = Taken(s, t, << m >>)
    /\ UNCHANGED << links, fresh, history, spent >>

(* ms_kill: the nick may have been changed meanwhile.                      *)
ReceiveKill(s, t) ==
    /\ Arrives(s, t, "KILL")
    /\ LET n == Head(net[s][t]).nick IN
       \/ /\ Chased(at[t], n) = {}
          /\ net' = Taken(s, t, << >>)
          /\ UNCHANGED at
       \/ \E u \in Chased(at[t], n) :
            /\ at' = [at EXCEPT ![t] = Exit(@, {u})]
            /\ net' = Taken(s, t, << KillLine(at[t].client[u].nick) >>)
    /\ UNCHANGED << links, fresh, history, spent >>

-----------------------------------------------------------------------------
Lose(s, lost) == at' = [at EXCEPT ![s] = Exit(@, {u \in User : home[u] \in lost})]

Close(s, t) ==
    /\ Spend("closes", MaxCloses)
    /\ CloseLink(s, t)
    /\ Lose(s, Behind(s, t))
    /\ used' = used \union {"split"}
    /\ UNCHANGED << fresh, killed, claims >>

ReceiveEof(s, t) ==
    /\ EofLink(s, t)
    /\ IF s \in links[t] THEN Lose(t, Behind(t, s)) ELSE UNCHANGED at
    /\ UNCHANGED << fresh, history, spent >>

ReceiveSquit(s, t) ==
    /\ SquitLink(s, t)
    /\ Lose(t, Head(net[s][t]).lost)
    /\ UNCHANGED << fresh, history, spent >>

(* Mutant of BurstLines: clients that have not registered are sent too.    *)
BurstLines_Unregistered(v) ==
    LET line(u) == NickLine(u, v.client[u])
    IN  SetToSeqs({line(u) : u \in {u \in User : v.client[u].nick # NoNick}})

(* sendnick_TS of every registered client, in the order of the list.       *)
BurstLines(v) ==
    LET line(u) == NickLine(u, v.client[u])
    IN  SetToSeqs({line(u) : u \in {u \in User : v.client[u].known}})

Estab(s, t) ==
    /\ \E lines \in BurstLines(at[s]) : EstabLink(s, t, lines)
    /\ UNCHANGED << at, fresh, history, spent >>

ReceiveServer(s, t) ==
    /\ \E lines \in BurstLines(at[t]) : ServerLink(s, t, lines)
    /\ UNCHANGED << at, fresh, history, spent >>

-----------------------------------------------------------------------------
Next ==
    \/ \E u \in User : Register(u) \/ Quit(u)
    \/ \E u \in User, n \in Nick : ChooseNick(u, n) \/ ChangeNick(u, n) \/ RefuseNick(u, n)
    \/ \E s \in Server, n \in Nick : OperKill(s, n)
    \/ \E s, t \in Server :
          \/ ReceiveNick(s, t) \/ ReceiveChange(s, t) \/ ReceiveQuit(s, t) \/ ReceiveKill(s, t)
          \/ ReceiveSquit(s, t) \/ ReceiveEof(s, t) \/ ReceiveServer(s, t)
          \/ Close(s, t) \/ Estab(s, t)

Spec == Init /\ [][Next]_vars

-----------------------------------------------------------------------------
(* A nick names at most one client of a server, whatever crossed: a line   *)
(* or a command that gives a nick first gets rid of its holder, or fails.  *)
NicksAreUnique ==
    \A s \in Server : \A u, v \in User :
        at[s].client[u].nick = at[s].client[v].nick /\ u # v => at[s].client[u].nick = NoNick

(* The whowas table of a server points to clients of it that are           *)
(* registered, never to one that has gone: a KILL is sent to whom it names.*)
HistoryIsLive ==
    \A s \in Server, n \in Nick :
        at[s].was[n] # Nobody => at[s].client[at[s].was[n]].known

(* What the servers should agree about when all has been read.             *)
Known(s) == {u \in User : at[s].client[u].known}
SameClients == Quiet => \A s, t \in Server : Known(s) = Known(t)
SameNicks ==
    Quiet => \A s, t \in Server : \A u \in Known(s) \intersect Known(t) :
        at[s].client[u].nick = at[t].client[u].nick
SameTs ==
    Quiet => \A s, t \in Server : \A u \in Known(s) \intersect Known(t) :
        at[s].client[u].ts = at[t].client[u].ts
HomeIsSeen == Quiet => \A u \in User : u \in Known(home[u]) => \A s \in Server : u \in Known(s)
OneHolder ==
    Quiet => \A s, t \in Server : \A u \in Known(s), v \in Known(t) :
        at[s].client[u].nick = at[t].client[v].nick => u = v

(* How many connections want one nick, and whether two did at one moment.  *)
Contenders(n) == {c.user : c \in {d \in claims : d.nick = n}}
Alone == \A n \in Nick : Cardinality(Contenders(n)) <= 1
Duels == \A n \in Nick : Cardinality(Contenders(n)) <= 2
NoTies == \A c, d \in claims : c.nick = d.nick /\ c.ts = d.ts => c.user = d.user

(* A nick somebody has taken is held by somebody in the end, unless who    *)
(* took it went on to take another: only one of two that collide is killed.*)
Settled(n) == \A c \in claims : c.user \in Contenders(n) => c.nick = n
OneSurvives ==
    Quiet => \A n \in Nick : Contenders(n) # {} /\ Settled(n) =>
        \E u \in Contenders(n) : at[home[u]].client[u].nick = n

(* A nick that two take at once is left with the same one of them, or with *)
(* neither, on every server, though every server decides alone: as long as *)
(* nobody leaves or changes nicks meanwhile and, when links are lost too,  *)
(* the timestamps differ, and then one of the two keeps it.  When they do  *)
(* leave, or are killed, some server may keep a ghost, but none misses a   *)
(* client that its own server has; and as long as nobody is killed no two  *)
(* servers take one nick to be that of different clients.  A line about    *)
(* one client is never taken for another's, except for KILLs by opers:     *)
(* servers that know a client know it by one nick and timestamp, although  *)
(* lines cross that change both.                                           *)
DuelsAreSettled ==
    /\ Duels /\ (used = {} \/ (used = {"split"} /\ NoTies)) => SameClients /\ SameNicks /\ SameTs
    /\ Duels /\ NoTies /\ used \subseteq {"split"} => OneSurvives
    /\ Duels /\ used \subseteq {"quit", "kill"} => HomeIsSeen
    /\ Duels /\ used \subseteq {"quit"} => OneHolder
    /\ Duels /\ used \subseteq {"change", "quit", "split"} => SameNicks /\ SameTs

(* Without contention the servers agree whatever their users do, and a     *)
(* KILL that crosses a change of nick still finds its client: that is what *)
(* the whowas table and remove_unknown are for.                            *)
LoneClientsAgree ==
    /\ Alone /\ ~({"kill", "split"} \subseteq used) => SameClients /\ SameNicks
    /\ Alone /\ "split" \notin used =>
          (Quiet => \A s \in Server : Known(s) \intersect killed = {})
=============================================================================
