----------------------------- MODULE ChannelTS -----------------------------
(***************************************************************************)
(* One channel on a network of servers.  Every server keeps its own view   *)
(* of the channel and changes it at once when one of its users acts or a   *)
(* line arrives; views meet only through the lines the servers relay along *)
(* the links of the tree (m_join.c, m_part.c, m_kick.c, m_mode.c,          *)
(* m_sjoin.c, and the burst of s_serv.c).  A link is a pair of queues, one *)
(* per direction, and each end learns of its loss on its own.              *)
(***************************************************************************)
EXTENDS Sjoin, Links

CONSTANTS
    home,          \* the server each user is connected to
    Stamp,         \* the clocks of the servers, which need not agree
    CreationModes, \* what m_join gives a new channel: +nt
    Commands,      \* what users do here beside JOIN; "o" and "h" are MODE
    MaxCommands,   \* bound: user commands
    MaxCloses,     \* bound: links lost
    MaxActs        \* bound: both together

ASSUME NetAssumption ==
    /\ IsFiniteSet(User)
    /\ home \in [User -> Server]
    /\ Stamp \subseteq Nat \ {0} /\ CreationModes \subseteq Mode
    /\ Commands \subseteq {"PART", "KICK"} \union Prefix
    /\ MaxCommands \in Nat /\ MaxCloses \in Nat /\ MaxActs \in Nat

VARIABLES
    chan,      \* chan[s]: what s holds of the channel
    granted,   \* history: who was made op, and at which timestamp
    used,      \* history: the kinds of commands, and splits, there have been
    spent      \* how much of the bounds is used up

history == << granted, used >>
vars == << chan, links, net, history, spent >>

UsersOf(S) == {u \in User : home[u] \in S}

Message ==
    [type : {"SJOIN"}, d : Description]
        \union [type : {"PART"}, user : User]
        \union [type : {"KICK"}, by : User, user : User]
        \union [type : {"MODE"}, by : User, user : User, flag : Prefix, add : BOOLEAN]

(* A channel exists on a server as long as somebody is on it there: the    *)
(* empty channel an SJOIN of unknown nicks would leave is destroyed, and   *)
(* so is the one a split or a kick empties.                                *)
TypeOK ==
    /\ chan \in [Server -> Channel]
    /\ \A s \in Server : chan[s].exists <=> chan[s].on # {}
    /\ LinksTypeOK(Message)
    /\ granted \subseteq User \X Nat
    /\ used \subseteq Commands \union {"split"}
    /\ spent \in [{"commands", "closes"} -> Nat]

Init ==
    /\ chan = [s \in Server |-> NoChannel]
    /\ LinksInit
    /\ granted = {} /\ used = {}
    /\ spent = [commands |-> 0, closes |-> 0]

Spend(what, limit) ==
    /\ spent[what] < limit /\ spent.commands + spent.closes < MaxActs
    /\ spent' = [spent EXCEPT ![what] = @ + 1]

Use(command) ==
    /\ command \in Commands
    /\ used' = used \union {command}

-----------------------------------------------------------------------------
(* Mutant of Remove: the empty channel stays.                              *)
Remove_KeepsChannel(c, S) ==
    [c EXCEPT !.on = @ \ S, !.flags = [u \in User |-> IF u \in S THEN {} ELSE @[u]]]

(* remove_user_from_channel and qs_user_from_channels: a channel without   *)
(* members is destroyed.                                                   *)
Remove(c, S) ==
    IF c.exists /\ c.on \subseteq S THEN NoChannel
    ELSE [c EXCEPT !.on = @ \ S, !.flags = [u \in User |-> IF u \in S THEN {} ELSE @[u]]]

(* change_channel_membership for +o, -o, +h and -h.                        *)
Change(c, u, flag, add) ==
    IF ~add THEN [c EXCEPT !.flags[u] = @ \ {flag}]
    ELSE [c EXCEPT !.flags[u] = (IF flag = "o" THEN @ \ {"d"} ELSE @) \union {flag}]

Solo(u, flags) == [x \in User |-> IF x = u THEN flags ELSE {}]

-----------------------------------------------------------------------------
(* m_join of a channel that does not exist here: the first user is op.     *)
JoinNew(u) ==
    LET s == home[u] IN
    /\ ~chan[s].exists
    /\ Spend("commands", MaxCommands)
    /\ \E now \in Stamp :
         /\ chan' = [chan EXCEPT ![s] =
                [exists |-> TRUE, ts |-> now, modes |-> CreationModes,
                 on |-> {u}, flags |-> Solo(u, {"o"})]]
         /\ net' = Sent(s, {}, << [type |-> "SJOIN",
                d |-> [ts |-> now, named |-> TRUE, modes |-> CreationModes,
                       nicks |-> {u}, prefix |-> Solo(u, {"o"})]] >>)
         /\ granted' = granted \union {<<u, now>>}
    /\ UNCHANGED << links, used >>

(* m_join of a channel that exists: "SJOIN <ts> <channel> + :<nick>".      *)
JoinExisting(u) ==
    LET s == home[u] IN
    /\ chan[s].exists /\ u \notin chan[s].on
    /\ Spend("commands", MaxCommands)
    /\ chan' = [chan EXCEPT ![s].on = @ \union {u}]
    /\ net' = Sent(s, {}, << [type |-> "SJOIN",
            d |-> [ts |-> chan[s].ts, named |-> TRUE, modes |-> {},
                   nicks |-> {u}, prefix |-> NoFlags]] >>)
    /\ UNCHANGED << links, history >>

Part(u) ==
    LET s == home[u] IN
    /\ u \in chan[s].on
    /\ Use("PART") /\ Spend("commands", MaxCommands)
    /\ chan' = [chan EXCEPT ![s] = Remove(@, {u})]
    /\ net' = Sent(s, {}, << [type |-> "PART", user |-> u] >>)
    /\ UNCHANGED << links, granted >>

(* m_kick: ops and halfops may, but a halfop, op or not, not an op.        *)
MayKick(c, by, u) == ~("o" \in c.flags[u] /\ "h" \in c.flags[by])
Kick(by, u) ==
    LET s == home[by] IN
    /\ by \in chan[s].on /\ chan[s].flags[by] \intersect {"o", "h"} # {}
    /\ u \in chan[s].on /\ MayKick(chan[s], by, u)
    /\ Use("KICK") /\ Spend("commands", MaxCommands)
    /\ chan' = [chan EXCEPT ![s] = Remove(@, {u})]
    /\ net' = Sent(s, {}, << [type |-> "KICK", by |-> by, user |-> u] >>)
    /\ UNCHANGED << links, granted >>

(* m_mode, set_channel_mode, chm_op and chm_halfop for a local op.         *)
ModeChange(by, u, flag, add) ==
    LET s == home[by] IN
    /\ by \in Ops(chan[s]) /\ "d" \notin chan[s].flags[by]
    /\ u \in chan[s].on
    /\ Use(flag) /\ Spend("commands", MaxCommands)
    /\ chan' = [chan EXCEPT ![s] = Change(@, u, flag, add)]
    /\ net' = Sent(s, {}, << [type |-> "MODE", by |-> by, user |-> u, flag |-> flag, add |-> add] >>)
    /\ granted' = IF flag = "o" /\ add THEN granted \union {<<u, chan[s].ts>>} ELSE granted
    /\ UNCHANGED links

-----------------------------------------------------------------------------
(* The lines, as t parses them from s.                                     *)
ReceiveSjoin(s, t) ==
    /\ Arrives(s, t, "SJOIN")
    /\ LET d == Head(net[s][t]).d IN
       /\ chan' = [chan EXCEPT ![t] = Accept(@, d)]
       /\ net' = Taken(s, t, IF d.nicks = {} THEN << >>
                             ELSE << [type |-> "SJOIN", d |-> Relay(chan[t], d)] >>)
    /\ UNCHANGED << links, history, spent >>

ReceivePart(s, t) ==
    /\ Arrives(s, t, "PART")
    /\ LET m == Head(net[s][t]) IN
       IF m.user \in chan[t].on
       THEN /\ chan' = [chan EXCEPT ![t] = Remove(@, {m.user})]
            /\ net' = Taken(s, t, << m >>)
       ELSE /\ net' = Taken(s, t, << >>)
            /\ UNCHANGED chan
    /\ UNCHANGED << links, history, spent >>

(* A remote kicker is believed whatever his status here, unless the        *)
(* channel has no timestamp.                                               *)
Believes(c, by) == c.flags[by] \intersect {"o", "h"} # {} \/ c.ts # 0

ReceiveKick(s, t) ==
    /\ Arrives(s, t, "KICK")
    /\ LET m == Head(net[s][t]) IN
       IF /\ Believes(chan[t], m.by)
          /\ m.user \in chan[t].on /\ MayKick(chan[t], m.by, m.user)
       THEN /\ chan' = [chan EXCEPT ![t] = Remove(@, {m.user})]
            /\ net' = Taken(s, t, << m >>)
       ELSE /\ net' = Taken(s, t, << >>)
            /\ UNCHANGED chan
    /\ UNCHANGED << links, history, spent >>

(* A remote user has every access (get_channel_access), unless his ops     *)
(* were refused here.                                                      *)
ReceiveMode(s, t) ==
    /\ Arrives(s, t, "MODE")
    /\ LET m == Head(net[s][t]) IN
       IF "d" \notin chan[t].flags[m.by] /\ m.user \in chan[t].on
       THEN /\ chan' = [chan EXCEPT ![t] = Change(@, m.user, m.flag, m.add)]
            /\ net' = Taken(s, t, << m >>)
       ELSE /\ net' = Taken(s, t, << >>)
            /\ UNCHANGED chan
    /\ UNCHANGED << links, history, spent >>

-----------------------------------------------------------------------------
(* exit_client of a server: its users leave.                               *)
Lose(s, lost) == chan' = [chan EXCEPT ![s] = Remove(@, UsersOf(lost))]

Close(s, t) ==
    /\ Spend("closes", MaxCloses)
    /\ CloseLink(s, t)
    /\ Lose(s, Behind(s, t))
    /\ used' = used \union {"split"}
    /\ UNCHANGED granted

ReceiveEof(s, t) ==
    /\ EofLink(s, t)
    /\ IF s \in links[t] THEN Lose(t, Behind(t, s)) ELSE UNCHANGED chan
    /\ UNCHANGED << history, spent >>

ReceiveSquit(s, t) ==
    /\ SquitLink(s, t)
    /\ Lose(t, Head(net[s][t]).lost)
    /\ UNCHANGED << history, spent >>

(* send_members counts one column for '@' (and '+') but none for '%': the  *)
(* nick of a halfop runs into the one written after it, or loses its last  *)
(* letter, so neither is recognised.  The order of the list is left open.  *)
BurstNicks(c) ==
    LET garbled == {u \in c.on : "h" \in c.flags[u]}
    IN  {c.on \ (garbled \union F) :
            F \in {G \in SUBSET (c.on \ garbled) : Cardinality(G) <= Cardinality(garbled)}}

(* server_burst: send_channel_modes and send_members of the channel.       *)
BurstLines(c) ==
    IF ~c.exists THEN {<< >>}
    ELSE {<< [type |-> "SJOIN",
              d |-> [ts |-> c.ts, named |-> TRUE, modes |-> c.modes, nicks |-> nicks,
                     prefix |-> [u \in User |->
                         IF u \in nicks THEN c.flags[u] \ {"d"} ELSE {}]]] >> :
          nicks \in BurstNicks(c)}

Estab(s, t) ==
    /\ \E lines \in BurstLines(chan[s]) : EstabLink(s, t, lines)
    /\ UNCHANGED << chan, history, spent >>

ReceiveServer(s, t) ==
    /\ \E lines \in BurstLines(chan[t]) : ServerLink(s, t, lines)
    /\ UNCHANGED << chan, history, spent >>

-----------------------------------------------------------------------------
Next ==
    \/ \E u \in User : JoinNew(u) \/ JoinExisting(u) \/ Part(u)
    \/ \E by, u \in User : Kick(by, u)
    \/ \E by, u \in User, flag \in Prefix, add \in BOOLEAN : ModeChange(by, u, flag, add)
    \/ \E s, t \in Server :
          \/ ReceiveSjoin(s, t) \/ ReceivePart(s, t) \/ ReceiveKick(s, t) \/ ReceiveMode(s, t)
          \/ ReceiveSquit(s, t) \/ ReceiveEof(s, t) \/ ReceiveServer(s, t)
          \/ Close(s, t) \/ Estab(s, t)

Spec == Init /\ [][Next]_vars

-----------------------------------------------------------------------------
(* While the channel lives on a server its timestamp only gets older.      *)
TsNeverRises ==
    [][\A s \in Server :
        chan[s].exists /\ chan'[s].exists => chan'[s].ts <= chan[s].ts]_vars

(* Nobody is op on the strength of a timestamp the channel has lost: an op *)
(* was made, by creating the channel or by an op, at the timestamp the     *)
(* channel has here.  This is what the timestamps are for: riding a split  *)
(* gains nothing.                                                          *)
OpsOfTheTs ==
    \A s \in Server : \A u \in Ops(chan[s]) : <<u, chan[s].ts>> \in granted
OpsBelongToTheTs == "o" \notin used => OpsOfTheTs

(* Once the net is whole and quiet, all servers have the same members, as  *)
(* long as nobody was kicked and no halfop was in a burst.                 *)
SameMembers == Quiet => \A s, t \in Server : chan[s].on = chan[t].on

(* A kick, or a part that crosses it, may leave a ghost of a user on other *)
(* servers, but whom his own server has on the channel everybody sees ...  *)
HomeIsSeen ==
    Quiet => \A s \in Server : \A u \in chan[s].on \intersect UsersOf({s}) :
        \A t \in Server : u \in chan[t].on
MembersAgree ==
    /\ used \subseteq {"PART", "o", "split"} => SameMembers
    /\ used \subseteq {"PART", "KICK", "o"} => HomeIsSeen

(* ... and the same timestamp, ops and modes, however the descriptions     *)
(* crossed, as long as the channel was not left.                           *)
SameOps == Quiet => \A s, t \in Server : chan[s].ts = chan[t].ts /\ Ops(chan[s]) = Ops(chan[t])
SameModes == Quiet => \A s, t \in Server : chan[s].modes = chan[t].modes
DescriptionsAgree == used \subseteq {"split"} => SameOps /\ SameModes
=============================================================================
