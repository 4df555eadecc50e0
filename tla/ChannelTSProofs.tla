-------------------------- MODULE ChannelTSProofs --------------------------
(***************************************************************************)
(* The properties of ChannelTS, for any tree of servers, any finite set of *)
(* users, any clocks and commands, and any bounds; and that two            *)
(* descriptions of a channel may arrive in either order.                   *)
(*                                                                         *)
(* First part: what a server holds says no more than has been granted      *)
(* (ViewOK) because no line does (Lines): a description that is accepted,  *)
(* relayed or sent in a burst gives ops only together with the timestamp   *)
(* they were granted at.  Second part (PairsOK): the two ends of a link    *)
(* differ by no more than the lines on it, so that they agree once these   *)
(* have been read.  Third part (AllTrue): views and lines are true about   *)
(* who made the channel when, so that equal members imply equal ops.       *)
(***************************************************************************)
EXTENDS ChannelTS, LinksProofs, FiniteSetTheorems

(* The ops at a timestamp are among those granted at it, g, unless MODE    *)
(* has handed ops on: u is what was used.                                  *)
OpsOK(ops, ts, g, u) == "o" \notin u => \A x \in ops : << x, ts >> \in g

(* Nobody is a halfop before MODE has made one.                            *)
HalfopsOK(flags, u) == "h" \notin u => \A x \in User : "h" \notin flags[x]

DescriptionOK(d, g, u) ==
    /\ d \in Description /\ d.ts # 0
    /\ HalfopsOK(d.prefix, u)
    /\ OpsOK({x \in d.nicks : "o" \in d.prefix[x]}, d.ts, g, u)

ViewOK(c, g, u) ==
    /\ c \in Channel /\ (c.exists <=> c.on # {})
    /\ c.exists => c.ts # 0
    /\ c.exists \/ c = NoChannel
    /\ HalfopsOK(c.flags, u)
    /\ \A x \in User \ c.on : c.flags[x] = {}
    /\ OpsOK(Ops(c), c.ts, g, u)

(* The lines there may be.                                                 *)
Lines(g, u) ==
    {m \in Message : /\ m.type = "SJOIN" => DescriptionOK(m.d, g, u)
                     /\ m.type = "MODE" => m.flag \in u
                     /\ m.type \in {"PART", "KICK"} => m.type \in u}

(* The inductive invariant.                                                *)
IInv ==
    /\ chan \in [Server -> Channel]
    /\ \A s \in Server : ViewOK(chan[s], granted, used)
    /\ LinksTypeOK(Lines(granted, used))
    /\ granted \subseteq User \X Nat
    /\ used \subseteq Commands \union {"split"}
    /\ spent \in [{"commands", "closes"} -> Nat]

-----------------------------------------------------------------------------
(* The operators of Sjoin.                                                 *)

(* The timestamp that is kept: the older one, and with it whose ops.       *)
LEMMA FinalTsIs ==
    ASSUME NEW c \in Channel, NEW d \in Description, d.ts # 0, c.exists => c.ts # 0
    PROVE  /\ FinalTs(c, d) \in Nat /\ FinalTs(c, d) # 0
           /\ c.exists => FinalTs(c, d) <= c.ts
           /\ KeepNew(c, d) => FinalTs(c, d) = d.ts
           /\ c.exists /\ KeepOurs(c, d) => FinalTs(c, d) = c.ts
<1>1. c.ts \in Nat /\ d.ts \in Nat
    BY DEF Channel, Description
<1> QED BY <1>1 DEF FinalTs, KeepNew, KeepOurs, Conflict

(* The flags that Accept leaves are flags.                                 *)
LEMMA FinalFlagsType ==
    ASSUME NEW c \in Channel, NEW d \in Description
    PROVE  FinalFlags(c, d) \in [User -> SUBSET Flag]
<1>1. c.flags \in [User -> SUBSET Flag] /\ d.prefix \in [User -> SUBSET Prefix]
    BY DEF Channel, Description
<1>2. \A x \in User : Received(d, KeepNew(c, d), x) \in SUBSET Flag
    BY <1>1 DEF Received, Flag, Prefix
<1>3. \A x \in User : c.flags[x] \ Prefix \in SUBSET Flag
    BY <1>1
<1> QED BY <1>1, <1>2, <1>3 DEF FinalFlags

(* A server that does not hold the channel claims nothing about it.        *)
LEMMA NoChannelOK ==
    ASSUME NEW g, NEW u PROVE ViewOK(NoChannel, g, u)
BY DEF NoChannel, Channel, NoFlags, Ops, ViewOK, OpsOK, HalfopsOK

(* What is accepted is claimed rightly, and never raises a timestamp.      *)
LEMMA AcceptOK ==
    ASSUME NEW g, NEW u, NEW c, NEW d, ViewOK(c, g, u), DescriptionOK(d, g, u)
    PROVE  /\ ViewOK(Accept(c, d), g, u)
           /\ c.exists => Accept(c, d).ts <= c.ts
<1> DEFINE a == Accept(c, d)
<1>1. /\ c \in Channel /\ d \in Description /\ d.ts # 0 /\ (c.exists => c.ts # 0)
      /\ c.exists <=> c.on # {}
    BY DEF ViewOK, DescriptionOK
<1>2. CASE ~c.exists /\ d.nicks = {}
    <2>1. a = NoChannel
        BY <1>2 DEF Accept
    <2> QED BY <1>2, <2>1, NoChannelOK
<1>3. CASE ~(~c.exists /\ d.nicks = {})
    <2>1. a = [exists |-> TRUE, ts |-> FinalTs(c, d), modes |-> FinalModes(c, d),
               on |-> c.on \union d.nicks, flags |-> FinalFlags(c, d)]
        BY <1>3 DEF Accept
    <2>2. /\ FinalTs(c, d) \in Nat /\ FinalTs(c, d) # 0
          /\ c.exists => FinalTs(c, d) <= c.ts
          /\ KeepNew(c, d) => FinalTs(c, d) = d.ts
          /\ c.exists /\ KeepOurs(c, d) => FinalTs(c, d) = c.ts
        BY <1>1, FinalTsIs
    <2>3. FinalFlags(c, d) \in [User -> SUBSET Flag]
        BY <1>1, FinalFlagsType
    <2>4. FinalModes(c, d) \in SUBSET Mode /\ c.on \union d.nicks \in SUBSET User
        BY <1>1 DEF FinalModes, Channel, Description
    <2>5. a \in Channel
        BY <2>1, <2>2, <2>3, <2>4 DEF Channel
    <2>6. c.on \union d.nicks # {}
        BY <1>1, <1>3
    <2>7. ASSUME "o" \notin u, NEW x \in c.on \union d.nicks, "o" \in FinalFlags(c, d)[x]
          PROVE  << x, FinalTs(c, d) >> \in g
        <3>1. x \in User
            BY <2>4
        <3>2. FinalFlags(c, d)[x] =
                IF x \in d.nicks \ c.on THEN Received(d, KeepNew(c, d), x)
                ELSE IF KeepOurs(c, d) THEN c.flags[x] ELSE c.flags[x] \ Prefix
            BY <3>1 DEF FinalFlags
        <3>3. CASE x \in d.nicks \ c.on
            <4>1. KeepNew(c, d) /\ "o" \in d.prefix[x]
                BY <2>7, <3>2, <3>3 DEF Received
            <4> QED BY <2>2, <2>7, <3>3, <4>1 DEF DescriptionOK, OpsOK
        <3>4. CASE x \in c.on
            <4>1. KeepOurs(c, d) /\ "o" \in c.flags[x]
                BY <2>7, <3>2, <3>4 DEF Prefix
            <4> QED BY <1>1, <2>2, <2>7, <3>4, <4>1 DEF ViewOK, OpsOK, Ops
        <3> QED BY <3>3, <3>4
    <2>8. OpsOK(Ops(a), a.ts, g, u)
        BY <2>1, <2>7 DEF OpsOK, Ops
    <2>9. ASSUME NEW x \in User \ (c.on \union d.nicks) PROVE FinalFlags(c, d)[x] = {}
        <3>1. c.flags[x] = {}
            BY DEF ViewOK
        <3> QED BY <3>1 DEF FinalFlags
    <2>10. HalfopsOK(FinalFlags(c, d), u)
        <3>1. HalfopsOK(c.flags, u) /\ HalfopsOK(d.prefix, u)
            BY DEF ViewOK, DescriptionOK
        <3>2. \A x \in User : FinalFlags(c, d)[x] \subseteq c.flags[x] \union d.prefix[x] \union {"d"}
            BY DEF FinalFlags, Received
        <3> QED BY <3>1, <3>2 DEF HalfopsOK
    <2> QED BY <2>1, <2>2, <2>5, <2>6, <2>8, <2>9, <2>10 DEF ViewOK
<1> QED BY <1>2, <1>3

(* What is sent on claims no more than what has come in.                   *)
LEMMA RelayOK ==
    ASSUME NEW g, NEW u, NEW c, NEW d, ViewOK(c, g, u), DescriptionOK(d, g, u)
    PROVE  DescriptionOK(Relay(c, d), g, u)
<1> DEFINE r == Relay(c, d)
<1>1. /\ c \in Channel /\ d \in Description /\ d.ts # 0 /\ (c.exists => c.ts # 0)
    BY DEF ViewOK, DescriptionOK
<1>2. /\ FinalTs(c, d) \in Nat /\ FinalTs(c, d) # 0
      /\ KeepNew(c, d) => FinalTs(c, d) = d.ts
    BY <1>1, FinalTsIs
<1>3. /\ r.ts = FinalTs(c, d) /\ r.nicks = d.nicks
      /\ r.prefix = IF KeepNew(c, d) THEN d.prefix ELSE NoFlags
    BY DEF Relay
<1>4. r \in Description
    <2>1. NoFlags \in [User -> SUBSET Prefix]
        BY DEF NoFlags
    <2>2. FinalModes(c, d) \in SUBSET Mode
        BY <1>1 DEF FinalModes, Channel, Description
    <2>3. (d.named /\ KeepNew(c, d)) \in BOOLEAN
        OBVIOUS
    <2> QED BY <1>1, <1>2, <2>1, <2>2, <2>3 DEF Relay, Description
<1>5. ASSUME "o" \notin u, NEW x \in r.nicks, "o" \in r.prefix[x] PROVE << x, r.ts >> \in g
    <2>1. x \in User
        BY <1>1, <1>3 DEF Description
    <2>2. KeepNew(c, d)
        BY <1>3, <1>5, <2>1 DEF NoFlags
    <2> QED BY <1>2, <1>3, <1>5, <2>2 DEF DescriptionOK, OpsOK
<1>6. OpsOK({x \in r.nicks : "o" \in r.prefix[x]}, r.ts, g, u)
    BY <1>5 DEF OpsOK
<1>7. HalfopsOK(r.prefix, u)
    BY <1>3 DEF HalfopsOK, DescriptionOK, NoFlags
<1> HIDE DEF r
<1> QED BY <1>2, <1>3, <1>4, <1>6, <1>7 DEF DescriptionOK, r

(* What a description of newcomers does to a channel: each side keeps its  *)
(* modes and ops unless the other side is older.                           *)
LEMMA AcceptIs ==
    ASSUME NEW c \in Channel, c = NoChannel \/ (c.exists /\ c.ts # 0),
           NEW d \in Description, d.ts # 0, d.nicks # {}, c.on \intersect d.nicks = {}
    PROVE  LET a    == Accept(c, d)
               ours == c.exists /\ c.ts <= d.ts
               new  == ~c.exists \/ d.ts <= c.ts
           IN  /\ a \in Channel /\ a.exists /\ a.ts # 0
               /\ a.on = c.on \union d.nicks
               /\ a.ts = IF ours THEN c.ts ELSE d.ts
               /\ a.modes = (IF ours THEN c.modes ELSE {}) \union (IF new THEN d.modes ELSE {})
               /\ Ops(a) = (IF ours THEN Ops(c) ELSE {})
                            \union (IF new THEN {x \in d.nicks : "o" \in d.prefix[x]} ELSE {})
<1> DEFINE a    == Accept(c, d)
           ours == c.exists /\ c.ts <= d.ts
           new  == ~c.exists \/ d.ts <= c.ts
<1>1. c.ts \in Nat /\ d.ts \in Nat /\ (~c.exists => c = NoChannel) /\ (c.exists => c.ts # 0)
    BY DEF Channel, Description, NoChannel
<1>2. a = [exists |-> TRUE, ts |-> FinalTs(c, d), modes |-> FinalModes(c, d),
           on |-> c.on \union d.nicks, flags |-> FinalFlags(c, d)]
    BY DEF Accept
<1>3. a.ts = (IF ours THEN c.ts ELSE d.ts) /\ a.ts # 0 /\ a.ts \in Nat
    <2>1. CASE ~c.exists
        BY <1>1, <1>2, <2>1 DEF FinalTs
    <2>2. CASE c.exists
        BY <1>1, <1>2, <2>2 DEF FinalTs
    <2> QED BY <2>1, <2>2
<1>4. KeepNew(c, d) <=> new
    <2>1. CASE ~c.exists
        BY <1>1, <2>1 DEF KeepNew, Conflict
    <2>2. CASE c.exists
        BY <1>1, <2>2 DEF KeepNew, Conflict
    <2> QED BY <2>1, <2>2
<1>5. KeepOurs(c, d) <=> ours \/ ~c.exists
    BY <1>1 DEF KeepOurs, Conflict
<1>6. a.modes = (IF ours THEN c.modes ELSE {}) \union (IF new THEN d.modes ELSE {})
    <2>1. ~c.exists => c.modes = {}
        BY <1>1 DEF NoChannel
    <2> QED BY <1>2, <1>4, <1>5, <2>1 DEF FinalModes
<1>7. a \in Channel
    <2>1. FinalModes(c, d) \in SUBSET Mode /\ c.on \union d.nicks \in SUBSET User
        BY DEF FinalModes, Channel, Description
    <2> QED BY <1>2, <1>3, <2>1, FinalFlagsType DEF Channel
<1>8. ASSUME NEW x \in c.on \union d.nicks
      PROVE  "o" \in FinalFlags(c, d)[x] <=> \/ ours /\ x \in c.on /\ "o" \in c.flags[x]
                                             \/ new /\ x \in d.nicks /\ "o" \in d.prefix[x]
    <2>1. x \in User
        BY DEF Channel, Description
    <2>2. FinalFlags(c, d)[x] =
            IF x \in d.nicks \ c.on THEN Received(d, KeepNew(c, d), x)
            ELSE IF KeepOurs(c, d) THEN c.flags[x] ELSE c.flags[x] \ Prefix
        BY <2>1 DEF FinalFlags
    <2>3. CASE x \in d.nicks
        <3>1. x \notin c.on
            BY <2>3
        <3> QED BY <1>4, <2>2, <2>3, <3>1 DEF Received
    <2>4. CASE x \in c.on
        <3>1. x \notin d.nicks /\ c.exists
            BY <1>1, <2>4 DEF NoChannel
        <3> QED BY <1>5, <2>2, <2>4, <3>1 DEF Prefix
    <2> QED BY <2>3, <2>4
<1>9. Ops(a) = (IF ours THEN Ops(c) ELSE {})
               \union (IF new THEN {x \in d.nicks : "o" \in d.prefix[x]} ELSE {})
    BY <1>2, <1>8 DEF Ops
<1>10. a.exists /\ a.on = c.on \union d.nicks
    BY <1>2
<1> HIDE DEF a
<1> QED BY <1>3, <1>6, <1>7, <1>9, <1>10 DEF a

(* Two descriptions of one channel, as a split or a crossing on the wire   *)
(* makes them, give the same channel in either order: the same timestamp,  *)
(* modes, members and ops.  It takes positive timestamps, and descriptions *)
(* of different users: ms_sjoin passes over one that is a member already.  *)
THEOREM DescriptionsCommute ==
    ASSUME NEW c \in Channel, c = NoChannel \/ (c.exists /\ c.ts # 0),
           NEW d \in Description, NEW e \in Description, d.ts # 0, e.ts # 0,
           d.nicks # {}, e.nicks # {}, d.nicks \intersect e.nicks = {},
           c.on \intersect (d.nicks \union e.nicks) = {}
    PROVE  LET x == Accept(Accept(c, d), e)
               y == Accept(Accept(c, e), d)
           IN  x.ts = y.ts /\ x.modes = y.modes /\ x.on = y.on /\ Ops(x) = Ops(y)
<1> DEFINE cd == Accept(c, d)
           ce == Accept(c, e)
           x  == Accept(cd, e)
           y  == Accept(ce, d)
           OpsOf(f) == {n \in f.nicks : "o" \in f.prefix[n]}
<1>1. c.ts \in Nat /\ d.ts \in Nat /\ e.ts \in Nat
    BY DEF Channel, Description
<1>2. /\ cd \in Channel /\ cd.exists /\ cd.ts # 0 /\ cd.on = c.on \union d.nicks
      /\ cd.ts = IF c.exists /\ c.ts <= d.ts THEN c.ts ELSE d.ts
      /\ cd.modes = (IF c.exists /\ c.ts <= d.ts THEN c.modes ELSE {})
                    \union (IF ~c.exists \/ d.ts <= c.ts THEN d.modes ELSE {})
      /\ Ops(cd) = (IF c.exists /\ c.ts <= d.ts THEN Ops(c) ELSE {})
                   \union (IF ~c.exists \/ d.ts <= c.ts THEN OpsOf(d) ELSE {})
    BY AcceptIs, c.on \intersect d.nicks = {}
<1>3. /\ ce \in Channel /\ ce.exists /\ ce.ts # 0 /\ ce.on = c.on \union e.nicks
      /\ ce.ts = IF c.exists /\ c.ts <= e.ts THEN c.ts ELSE e.ts
      /\ ce.modes = (IF c.exists /\ c.ts <= e.ts THEN c.modes ELSE {})
                    \union (IF ~c.exists \/ e.ts <= c.ts THEN e.modes ELSE {})
      /\ Ops(ce) = (IF c.exists /\ c.ts <= e.ts THEN Ops(c) ELSE {})
                   \union (IF ~c.exists \/ e.ts <= c.ts THEN OpsOf(e) ELSE {})
    BY AcceptIs, c.on \intersect e.nicks = {}
<1> HIDE DEF cd, ce, OpsOf
<1>4. /\ x.on = cd.on \union e.nicks
      /\ x.ts = IF cd.ts <= e.ts THEN cd.ts ELSE e.ts
      /\ x.modes = (IF cd.ts <= e.ts THEN cd.modes ELSE {})
                   \union (IF e.ts <= cd.ts THEN e.modes ELSE {})
      /\ Ops(x) = (IF cd.ts <= e.ts THEN Ops(cd) ELSE {})
                  \union (IF e.ts <= cd.ts THEN OpsOf(e) ELSE {})
    BY <1>2, AcceptIs, cd.on \intersect e.nicks = {} DEF OpsOf
<1>5. /\ y.on = ce.on \union d.nicks
      /\ y.ts = IF ce.ts <= d.ts THEN ce.ts ELSE d.ts
      /\ y.modes = (IF ce.ts <= d.ts THEN ce.modes ELSE {})
                   \union (IF d.ts <= ce.ts THEN d.modes ELSE {})
      /\ Ops(y) = (IF ce.ts <= d.ts THEN Ops(ce) ELSE {})
                  \union (IF d.ts <= ce.ts THEN OpsOf(d) ELSE {})
    BY <1>3, AcceptIs, ce.on \intersect d.nicks = {} DEF OpsOf
<1> HIDE DEF x, y
<1>6. x.on = y.on /\ x.ts = y.ts
    BY <1>1, <1>2, <1>3, <1>4, <1>5
<1>7. x.modes = y.modes
    BY <1>1, <1>2, <1>3, <1>4, <1>5
<1>8. Ops(x) = Ops(y)
    BY <1>1, <1>2, <1>3, <1>4, <1>5
<1> QED BY <1>6, <1>7, <1>8 DEF x, y, cd, ce

-----------------------------------------------------------------------------
(* The other operators on a channel.                                       *)

(* Members who leave take their flags along, and the last one the channel. *)
LEMMA RemoveOK ==
    ASSUME NEW g, NEW u, NEW c, ViewOK(c, g, u), NEW S
    PROVE  /\ ViewOK(Remove(c, S), g, u)
           /\ Remove(c, S).exists => c.exists /\ Remove(c, S).ts = c.ts
<1>1. CASE c.exists /\ c.on \subseteq S
    <2>1. Remove(c, S) = NoChannel
        BY <1>1 DEF Remove
    <2>2. ~NoChannel.exists
        BY DEF NoChannel
    <2> QED BY <2>1, <2>2, NoChannelOK
<1>2. CASE ~(c.exists /\ c.on \subseteq S)
    <2> DEFINE flags == [x \in User |-> IF x \in S THEN {} ELSE c.flags[x]]
               r == [c EXCEPT !.on = c.on \ S, !.flags = flags]
    <2>1. Remove(c, S) = r
        BY <1>2 DEF Remove
    <2>2. c \in Channel
        BY DEF ViewOK
    <2>3. flags \in [User -> SUBSET Flag]
        BY <2>2 DEF Channel
    <2>4. /\ r \in Channel /\ r.on = c.on \ S /\ r.flags = flags
          /\ r.ts = c.ts /\ r.exists = c.exists
        BY <2>2, <2>3 DEF Channel
    <2>5. Ops(r) \subseteq Ops(c)
        <3>1. c.on \subseteq User
            BY <2>2 DEF Channel
        <3> QED BY <2>4, <3>1 DEF Ops
    <2>6. \A x \in User \ r.on : r.flags[x] = {}
        BY <2>4 DEF ViewOK
    <2>8. HalfopsOK(r.flags, u)
        <3>1. \A x \in User : flags[x] \subseteq c.flags[x]
            OBVIOUS
        <3>2. HalfopsOK(c.flags, u)
            BY DEF ViewOK
        <3> QED BY <2>4, <3>1, <3>2 DEF HalfopsOK
    <2>9. r.exists \/ r = NoChannel
        <3>1. CASE c.exists
            BY <2>4, <3>1
        <3>2. CASE ~c.exists
            <4>1. c = NoChannel
                BY <3>2 DEF ViewOK
            <4>2. c.on \ S = {} /\ flags = NoFlags
                BY <4>1 DEF NoChannel, NoFlags
            <4>3. r = [c EXCEPT !.on = {}, !.flags = NoFlags]
                BY <4>2
            <4> HIDE DEF r, flags
            <4> QED BY <4>1, <4>3 DEF NoChannel
        <3> QED BY <3>1, <3>2
    <2> HIDE DEF r
    <2>7. ViewOK(r, g, u)
        BY <1>2, <2>4, <2>5, <2>6, <2>8, <2>9 DEF ViewOK, OpsOK
    <2> QED BY <2>1, <2>4, <2>7
<1> QED BY <1>1, <1>2

(* A MODE that was given disturbs neither the members nor the timestamp.   *)
LEMMA ChangeOK ==
    ASSUME NEW g, NEW u, NEW c, ViewOK(c, g, u), NEW x \in c.on, NEW flag \in Prefix,
           NEW add, flag \in u
    PROVE  /\ ViewOK(Change(c, x, flag, add), g, u)
           /\ Change(c, x, flag, add).exists = c.exists /\ Change(c, x, flag, add).ts = c.ts
<1> DEFINE new == IF ~add THEN c.flags[x] \ {flag}
                  ELSE (IF flag = "o" THEN c.flags[x] \ {"d"} ELSE c.flags[x]) \union {flag}
           r == [c EXCEPT !.flags[x] = new]
<1>1. Change(c, x, flag, add) = r
    BY DEF Change
<1>2. c \in Channel /\ c.flags \in [User -> SUBSET Flag] /\ x \in User
    BY DEF ViewOK, Channel
<1>3. new \in SUBSET Flag
    BY <1>2 DEF Flag
<1>4. /\ r \in Channel /\ r.on = c.on /\ r.ts = c.ts /\ r.exists = c.exists
      /\ r.flags = [c.flags EXCEPT ![x] = new]
    BY <1>2, <1>3 DEF Channel
<1>5. "o" \notin u => Ops(r) \subseteq Ops(c)
    <2> SUFFICES ASSUME "o" \notin u, NEW y \in c.on, "o" \in r.flags[y]
                 PROVE  "o" \in c.flags[y]
        BY <1>4 DEF Ops
    <2>1. flag # "o" /\ y \in User
        BY <1>2 DEF Channel
    <2>2. CASE y = x
        BY <1>2, <1>4, <2>1, <2>2
    <2>3. CASE y # x
        BY <1>2, <1>4, <2>1, <2>3
    <2> QED BY <2>2, <2>3
<1>6. \A y \in User \ r.on : r.flags[y] = {}
    BY <1>2, <1>4 DEF ViewOK
<1>8. HalfopsOK(r.flags, u)
    <2> SUFFICES ASSUME "h" \notin u, NEW y \in User, "h" \in r.flags[y] PROVE FALSE
        BY DEF HalfopsOK
    <2>1. flag # "h" /\ "h" \notin c.flags[y]
        BY DEF ViewOK, HalfopsOK
    <2>2. CASE y = x
        BY <1>2, <1>4, <2>1, <2>2
    <2>3. CASE y # x
        BY <1>2, <1>4, <2>1, <2>3
    <2> QED BY <2>2, <2>3
<1>9. r.exists
    BY <1>2, <1>4 DEF ViewOK
<1> HIDE DEF r
<1>7. ViewOK(r, g, u)
    BY <1>4, <1>5, <1>6, <1>8, <1>9 DEF ViewOK, OpsOK
<1> QED BY <1>1, <1>4, <1>7

-----------------------------------------------------------------------------
(* The lines.                                                              *)

(* What was granted stays granted.                                         *)
LEMMA GrantedStays ==
    ASSUME NEW g, NEW u, NEW g2, NEW u2, g \subseteq g2, u \subseteq u2
    PROVE  /\ \A c : ViewOK(c, g, u) => ViewOK(c, g2, u2)
           /\ Lines(g, u) \subseteq Lines(g2, u2)
<1>1. \A ops, ts : OpsOK(ops, ts, g, u) => OpsOK(ops, ts, g2, u2)
    BY DEF OpsOK
<1>5. \A flags : HalfopsOK(flags, u) => HalfopsOK(flags, u2)
    BY DEF HalfopsOK
<1>2. \A c : ViewOK(c, g, u) => ViewOK(c, g2, u2)
    BY <1>1, <1>5 DEF ViewOK
<1>3. \A d : DescriptionOK(d, g, u) => DescriptionOK(d, g2, u2)
    BY <1>1, <1>5 DEF DescriptionOK
<1>4. Lines(g, u) \subseteq Lines(g2, u2)
    BY <1>3 DEF Lines
<1> QED BY <1>2, <1>4

(* The lines that are made of granted ops and of commands that were used.  *)
LEMMA LineOK ==
    ASSUME NEW g, NEW u
    PROVE  /\ \A d : DescriptionOK(d, g, u) => [type |-> "SJOIN", d |-> d] \in Lines(g, u)
           /\ "PART" \in u => \A x \in User : [type |-> "PART", user |-> x] \in Lines(g, u)
           /\ "KICK" \in u =>
                \A x, y \in User : [type |-> "KICK", by |-> x, user |-> y] \in Lines(g, u)
           /\ \A x, y \in User, flag \in Prefix, add \in BOOLEAN :
                flag \in u =>
                    [type |-> "MODE", by |-> x, user |-> y, flag |-> flag, add |-> add] \in Lines(g, u)
<1>1. \A d : DescriptionOK(d, g, u) => [type |-> "SJOIN", d |-> d] \in Lines(g, u)
    BY DEF Lines, Message, DescriptionOK
<1>2. "PART" \in u => \A x \in User : [type |-> "PART", user |-> x] \in Lines(g, u)
    BY DEF Lines, Message
<1>3. "KICK" \in u =>
        \A x, y \in User : [type |-> "KICK", by |-> x, user |-> y] \in Lines(g, u)
    BY DEF Lines, Message
<1>4. \A x, y \in User, flag \in Prefix, add \in BOOLEAN :
        flag \in u =>
            [type |-> "MODE", by |-> x, user |-> y, flag |-> flag, add |-> add] \in Lines(g, u)
    BY DEF Lines, Message
<1> QED BY <1>1, <1>2, <1>3, <1>4

(* A burst describes the channel as it is, with some nicks lost.           *)
LEMMA BurstOK ==
    ASSUME NEW g, NEW u, NEW c, ViewOK(c, g, u), NEW lines \in BurstLines(c)
    PROVE  lines \in Seq(Lines(g, u))
<1>1. CASE ~c.exists
    <2>1. lines = << >>
        BY <1>1 DEF BurstLines
    <2> QED BY <2>1
<1>2. CASE c.exists
    <2>1. PICK nicks \in BurstNicks(c) :
            lines = << [type |-> "SJOIN",
                d |-> [ts |-> c.ts, named |-> TRUE, modes |-> c.modes, nicks |-> nicks,
                       prefix |-> [x \in User |->
                           IF x \in nicks THEN c.flags[x] \ {"d"} ELSE {}]]] >>
        BY <1>2 DEF BurstLines
    <2> DEFINE prefix == [x \in User |-> IF x \in nicks THEN c.flags[x] \ {"d"} ELSE {}]
               d == [ts |-> c.ts, named |-> TRUE, modes |-> c.modes, nicks |-> nicks,
                     prefix |-> prefix]
    <2>2. c \in Channel /\ c.flags \in [User -> SUBSET Flag] /\ c.on \subseteq User
        BY DEF ViewOK, Channel
    <2>3. nicks \subseteq c.on
        BY <2>1 DEF BurstNicks
    <2>4. prefix \in [User -> SUBSET Prefix]
        BY <2>2 DEF Flag
    <2>5. d \in Description /\ d.ts # 0
        BY <1>2, <2>2, <2>3, <2>4 DEF ViewOK, Channel, Description
    <2>6. {x \in nicks : "o" \in prefix[x]} \subseteq Ops(c)
        BY <2>2, <2>3 DEF Ops
    <2>10. HalfopsOK(prefix, u)
        BY DEF HalfopsOK, ViewOK
    <2>7. DescriptionOK(d, g, u)
        BY <2>5, <2>6, <2>10 DEF DescriptionOK, ViewOK, OpsOK
    <2>8. lines = << [type |-> "SJOIN", d |-> d] >>
        BY <2>1
    <2> HIDE DEF d
    <2>9. [type |-> "SJOIN", d |-> d] \in Lines(g, u)
        BY <2>7, LineOK
    <2> QED BY <2>8, <2>9
<1> QED BY <1>1, <1>2

(* The heads of the queues, by their types.                                *)
LEMMA HeadOK ==
    ASSUME NEW g, NEW u, LinksTypeOK(Lines(g, u)), NEW s \in Server, NEW t \in Server
    PROVE  LET m == Head(net[s][t]) IN
           /\ \A type \in {"SJOIN", "PART", "KICK", "MODE"} :
                Arrives(s, t, type) => m \in Lines(g, u) /\ m.type = type
           /\ Arrives(s, t, "SJOIN") => DescriptionOK(m.d, g, u)
           /\ Arrives(s, t, "PART") \/ Arrives(s, t, "KICK") => m.user \in User
           /\ Arrives(s, t, "MODE") =>
                /\ m.user \in User /\ m.flag \in Prefix
                /\ m.flag \in u
<1> DEFINE m == Head(net[s][t])
<1>1. ASSUME NEW type \in {"SJOIN", "PART", "KICK", "MODE"}, Arrives(s, t, type)
      PROVE  m \in Lines(g, u) /\ m.type = type
    <2>1. m \in Lines(g, u) \union LinkMessage /\ m.type = type
        BY <1>1, ArrivesType DEF LinksTypeOK, Queues
    <2> QED BY <2>1 DEF LinkMessage
<1> HIDE DEF m
<1>2. m \in Lines(g, u) =>
        /\ m.type = "SJOIN" => DescriptionOK(m.d, g, u)
        /\ m.type \in {"PART", "KICK"} => m.user \in User
        /\ m.type = "MODE" => /\ m.user \in User /\ m.flag \in Prefix
                              /\ m.flag \in u
    <2>1. m \in Lines(g, u) =>
            /\ m \in Message
            /\ m.type = "SJOIN" => DescriptionOK(m.d, g, u)
            /\ m.type = "MODE" => m.flag \in u
        BY DEF Lines
    <2>2. m \in Message =>
            /\ m.type \in {"PART", "KICK"} => m.user \in User
            /\ m.type = "MODE" => m.user \in User /\ m.flag \in Prefix
        BY DEF Message
    <2> QED BY <2>1, <2>2
<1>3. \A type \in {"SJOIN", "PART", "KICK", "MODE"} :
        Arrives(s, t, type) => m \in Lines(g, u) /\ m.type = type
    BY <1>1
<1>4. /\ Arrives(s, t, "SJOIN") => m \in Lines(g, u) /\ m.type = "SJOIN"
      /\ Arrives(s, t, "PART") => m \in Lines(g, u) /\ m.type = "PART"
      /\ Arrives(s, t, "KICK") => m \in Lines(g, u) /\ m.type = "KICK"
      /\ Arrives(s, t, "MODE") => m \in Lines(g, u) /\ m.type = "MODE"
    BY <1>3
<1>5. /\ Arrives(s, t, "SJOIN") => DescriptionOK(m.d, g, u)
      /\ Arrives(s, t, "PART") \/ Arrives(s, t, "KICK") => m.user \in User
      /\ Arrives(s, t, "MODE") =>
            /\ m.user \in User /\ m.flag \in Prefix
            /\ m.flag \in u
    <2>1. Arrives(s, t, "SJOIN") => DescriptionOK(m.d, g, u)
        BY <1>2, <1>4
    <2>2. Arrives(s, t, "PART") => m.user \in User
        BY <1>2, <1>4
    <2>3. Arrives(s, t, "KICK") => m.user \in User
        BY <1>2, <1>4
    <2>4. ASSUME Arrives(s, t, "MODE")
          PROVE  /\ m.user \in User /\ m.flag \in Prefix
                 /\ m.flag \in u
        BY <1>2, <1>4, <2>4
    <2> QED BY <2>1, <2>2, <2>3, <2>4
<1> QED BY <1>3, <1>5 DEF m

-----------------------------------------------------------------------------
(* The steps.                                                              *)

(* No step makes the channel younger on a server that has it before and    *)
(* after.                                                                  *)
NoneRises ==
    \A s \in Server : chan[s].exists /\ chan'[s].exists => chan'[s].ts <= chan[s].ts

(* What every step does: one server's view changes at most, history grows, *)
(* and the lines say no more than the new history.                         *)
LEMMA StepOK ==
    ASSUME IInv, granted \subseteq granted', used \subseteq used',
           \/ UNCHANGED chan
           \/ \E s \in Server, v \in Channel :
                 /\ chan' = [chan EXCEPT ![s] = v] /\ ViewOK(v, granted', used')
                 /\ chan[s].exists /\ v.exists => v.ts <= chan[s].ts,
           net' \in Queues(Lines(granted', used')), links' \in [Server -> SUBSET Server],
           granted' \subseteq User \X Nat, used' \subseteq Commands \union {"split"},
           spent' \in [{"commands", "closes"} -> Nat]
    PROVE  IInv' /\ NoneRises
<1>1. chan \in [Server -> Channel] /\ \A x \in Server : ViewOK(chan[x], granted', used')
    BY GrantedStays DEF IInv
<1>2. \A x \in Server : chan[x].ts \in Nat
    BY <1>1 DEF Channel
<1>3. /\ chan' \in [Server -> Channel]
      /\ \A x \in Server : ViewOK(chan'[x], granted', used')
      /\ NoneRises
    <2>1. CASE UNCHANGED chan
        BY <1>1, <1>2, <2>1 DEF NoneRises
    <2>2. CASE \E s \in Server, v \in Channel :
                 /\ chan' = [chan EXCEPT ![s] = v] /\ ViewOK(v, granted', used')
                 /\ chan[s].exists /\ v.exists => v.ts <= chan[s].ts
        <3>1. PICK s \in Server, v \in Channel :
                 /\ chan' = [chan EXCEPT ![s] = v] /\ ViewOK(v, granted', used')
                 /\ chan[s].exists /\ v.exists => v.ts <= chan[s].ts
            BY <2>2
        <3>2. \A x \in Server : chan'[x] = IF x = s THEN v ELSE chan[x]
            BY <1>1, <3>1
        <3>3. chan' \in [Server -> Channel]
            BY <1>1, <3>1
        <3>4. \A x \in Server : ViewOK(chan'[x], granted', used')
            BY <1>1, <3>1, <3>2
        <3>5. NoneRises
            BY <1>2, <3>1, <3>2 DEF NoneRises
        <3> QED BY <3>3, <3>4, <3>5
    <2> QED BY <2>1, <2>2
<1> QED BY <1>3 DEF IInv, LinksTypeOK, Queues

(* Nothing is claimed at the start.                                        *)
LEMMA IInvInit == Init => IInv
<1> SUFFICES ASSUME Init PROVE IInv
    OBVIOUS
<1>1. ViewOK(NoChannel, granted, used) /\ NoChannel \in Channel
    BY NoChannelOK DEF ViewOK
<1>2. LinksTypeOK(Lines(granted, used))
    BY LinksInitType DEF Init
<1>3. chan = [s \in Server |-> NoChannel]
    BY DEF Init
<1> HIDE DEF NoChannel
<1> QED BY <1>1, <1>2, <1>3 DEF Init, IInv

(* Each step keeps every claim true, and no timestamp rises.               *)
LEMMA IInvNext == IInv /\ [Next]_vars => IInv' /\ NoneRises
<1> SUFFICES ASSUME IInv, [Next]_vars PROVE IInv' /\ NoneRises
    OBVIOUS
<1> DEFINE g == granted'
           u == used'
           L == Lines(g, u)
<1>0. /\ chan \in [Server -> Channel] /\ home \in [User -> Server]
      /\ \A s \in Server : ViewOK(chan[s], granted, used)
      /\ \A s \in Server : chan[s].ts \in Nat /\ chan[s].on \subseteq User
      /\ LinksTypeOK(Lines(granted, used)) /\ links \in [Server -> SUBSET Server]
      /\ granted \subseteq User \X Nat /\ used \subseteq Commands \union {"split"}
      /\ spent \in [{"commands", "closes"} -> Nat]
    BY NetAssumption DEF IInv, LinksTypeOK, Channel
<1>a. ASSUME granted \subseteq g, used \subseteq u
      PROVE  net \in Queues(L) /\ LinksTypeOK(L) /\ \A s \in Server : ViewOK(chan[s], g, u)
    <2>1. Lines(granted, used) \subseteq L /\ \A s \in Server : ViewOK(chan[s], g, u)
        BY <1>0, <1>a, GrantedStays
    <2>2. Lines(granted, used) \union LinkMessage \subseteq L \union LinkMessage
        BY <2>1
    <2> HIDE DEF L
    <2>3. \A x, y \in Server : net[x][y] \in Seq(L \union LinkMessage)
        BY <1>0, <2>2, SeqMonotonic DEF LinksTypeOK
    <2> QED BY <1>0, <2>1, <2>3 DEF LinksTypeOK, Queues
<1>b. ASSUME NEW what \in {"commands", "closes"}, NEW limit, Spend(what, limit)
      PROVE  spent' \in [{"commands", "closes"} -> Nat]
    BY <1>0, <1>b DEF Spend
<1>c. ASSUME NEW command, Use(command)
      PROVE  used \subseteq u /\ u \subseteq Commands \union {"split"} /\ command \in u
    BY <1>0, <1>c DEF Use
<1>d. ASSUME granted \subseteq g, used \subseteq u, NEW s \in Server,
             NEW line \in L, net' = Sent(s, {}, << line >>)
      PROVE  net' \in Queues(L)
    <2> HIDE DEF L
    <2>1. << line >> \in Seq(L \union LinkMessage)
        OBVIOUS
    <2>2. Sent(s, {}, << line >>) \in Queues(L)
        BY <1>a, <1>d, <2>1, SentType
    <2> QED BY <1>d, <2>2
<1>1. ASSUME NEW x \in User, JoinNew(x) PROVE IInv' /\ NoneRises
    <2> DEFINE s == home[x]
    <2>1. PICK now \in Stamp :
         /\ chan' = [chan EXCEPT ![s] =
                [exists |-> TRUE, ts |-> now, modes |-> CreationModes,
                 on |-> {x}, flags |-> Solo(x, {"o"})]]
         /\ net' = Sent(s, {}, << [type |-> "SJOIN",
                d |-> [ts |-> now, named |-> TRUE, modes |-> CreationModes,
                       nicks |-> {x}, prefix |-> Solo(x, {"o"})]] >>)
         /\ granted' = granted \union {<<x, now>>}
        BY <1>1 DEF JoinNew
    <2> DEFINE v == [exists |-> TRUE, ts |-> now, modes |-> CreationModes,
                     on |-> {x}, flags |-> Solo(x, {"o"})]
               d == [ts |-> now, named |-> TRUE, modes |-> CreationModes,
                     nicks |-> {x}, prefix |-> Solo(x, {"o"})]
    <2>2. /\ ~chan[s].exists /\ UNCHANGED << links, used >>
          /\ Spend("commands", MaxCommands) /\ s \in Server
        BY <1>0, <1>1 DEF JoinNew
    <2>3. now \in Nat /\ now # 0 /\ CreationModes \subseteq Mode
        BY NetAssumption
    <2>4. Solo(x, {"o"}) \in [User -> SUBSET Prefix]
        BY DEF Solo, Prefix
    <2>5. ViewOK(v, g, u)
        <3>1. Solo(x, {"o"}) \in [User -> SUBSET Flag]
            BY <2>4 DEF Flag
        <3>2. v \in Channel
            BY <2>3, <3>1 DEF Channel
        <3>3. OpsOK(Ops(v), v.ts, g, u) /\ \A y \in User \ {x} : v.flags[y] = {}
            BY <2>1 DEF OpsOK, Ops, Solo
        <3>4. HalfopsOK(Solo(x, {"o"}), u)
            BY DEF HalfopsOK, Solo
        <3> QED BY <2>3, <3>2, <3>3, <3>4 DEF ViewOK
    <2>6. DescriptionOK(d, g, u)
        <3>1. d \in Description
            BY <2>3, <2>4 DEF Description
        <3>2. HalfopsOK(Solo(x, {"o"}), u)
            BY DEF HalfopsOK, Solo
        <3> QED BY <2>1, <2>3, <3>1, <3>2 DEF DescriptionOK, OpsOK
    <2>7. granted \subseteq g /\ used \subseteq u /\ g \subseteq User \X Nat
        BY <1>0, <2>1, <2>2, <2>3
    <2>8. net' \in Queues(L)
        <3>1. net' = Sent(s, {}, << [type |-> "SJOIN", d |-> d] >>)
            BY <2>1
        <3> HIDE DEF d
        <3>2. [type |-> "SJOIN", d |-> d] \in L
            BY <2>6, LineOK
        <3> QED BY <1>d, <2>2, <2>7, <3>1, <3>2
    <2>9. chan' = [chan EXCEPT ![s] = v] /\ v \in Channel
        BY <2>1, <2>5 DEF ViewOK
    <2>10. spent' \in [{"commands", "closes"} -> Nat]
        BY <1>b, <2>2
    <2> HIDE DEF v, L
    <2> QED BY <1>0, <2>2, <2>5, <2>7, <2>8, <2>9, <2>10, StepOK DEF L
<1>e. ASSUME NEW s \in Server, NEW v, ViewOK(v, g, u), chan' = [chan EXCEPT ![s] = v],
             chan[s].exists /\ v.exists => v.ts <= chan[s].ts
      PROVE  \E x \in Server, w \in Channel :
                 /\ chan' = [chan EXCEPT ![x] = w] /\ ViewOK(w, g, u)
                 /\ chan[x].exists /\ w.exists => w.ts <= chan[x].ts
    BY <1>e DEF ViewOK
<1>f. ASSUME NEW s \in Server, NEW v, ViewOK(v, g, u), chan' = [chan EXCEPT ![s] = v],
             v.exists => v.ts = chan[s].ts
      PROVE  \E x \in Server, w \in Channel :
                 /\ chan' = [chan EXCEPT ![x] = w] /\ ViewOK(w, g, u)
                 /\ chan[x].exists /\ w.exists => w.ts <= chan[x].ts
    <2>1. chan[s].exists /\ v.exists => v.ts <= chan[s].ts
        BY <1>0, <1>f
    <2> QED BY <1>e, <1>f, <2>1
<1>2. ASSUME NEW x \in User, JoinExisting(x) PROVE IInv' /\ NoneRises
    <2> DEFINE s == home[x]
               v == [chan[s] EXCEPT !.on = chan[s].on \union {x}]
               d == [ts |-> chan[s].ts, named |-> TRUE, modes |-> {},
                     nicks |-> {x}, prefix |-> NoFlags]
    <2>1. /\ chan[s].exists /\ s \in Server /\ x \notin chan[s].on
          /\ chan' = [chan EXCEPT ![s].on = chan[s].on \union {x}]
          /\ net' = Sent(s, {}, << [type |-> "SJOIN", d |-> d] >>)
          /\ Spend("commands", MaxCommands)
          /\ UNCHANGED << links, granted, used >>
        BY <1>0, <1>2 DEF JoinExisting, history
    <2>2. chan' = [chan EXCEPT ![s] = v]
        BY <2>1
    <2> DEFINE c == chan[s]
    <2>3. ViewOK(v, g, u) /\ v.ts = c.ts
        <3>1. ViewOK(c, g, u) /\ c \in Channel /\ c.flags \in [User -> SUBSET Flag]
            BY <1>a, <2>1 DEF ViewOK, Channel
        <3>2. v \in Channel /\ v.on = c.on \union {x} /\ v.ts = c.ts /\ v.flags = c.flags /\ v.exists = c.exists
            BY <3>1 DEF Channel
        <3>3. c.flags[x] = {} /\ Ops(v) = Ops(c)
            BY <2>1, <3>1, <3>2 DEF ViewOK, Ops
        <3> HIDE DEF v
        <3> QED BY <2>1, <3>1, <3>2, <3>3 DEF ViewOK
    <2>4. DescriptionOK(d, g, u)
        <3>1. NoFlags \in [User -> SUBSET Prefix] /\ {} \in SUBSET Mode
            BY DEF NoFlags
        <3>2. d \in Description /\ d.ts # 0
            BY <1>0, <2>1, <3>1 DEF Description, ViewOK
        <3> QED BY <3>2 DEF DescriptionOK, OpsOK, NoFlags, HalfopsOK
    <2>5. net' \in Queues(L)
        <3> HIDE DEF d
        <3>1. [type |-> "SJOIN", d |-> d] \in L
            BY <2>4, LineOK
        <3> QED BY <1>d, <2>1, <3>1
    <2>6. spent' \in [{"commands", "closes"} -> Nat]
        BY <1>b, <2>1
    <2> HIDE DEF v, d, L
    <2>7. \E y \in Server, w \in Channel :
                 /\ chan' = [chan EXCEPT ![y] = w] /\ ViewOK(w, g, u)
                 /\ chan[y].exists /\ w.exists => w.ts <= chan[y].ts
        BY <1>f, <2>1, <2>2, <2>3
    <2> QED BY <1>0, <2>1, <2>5, <2>6, <2>7, StepOK DEF L
<1>3. ASSUME NEW x \in User, Part(x) PROVE IInv' /\ NoneRises
    <2> DEFINE s == home[x]
    <2>1. /\ s \in Server /\ Use("PART") /\ Spend("commands", MaxCommands)
          /\ chan' = [chan EXCEPT ![s] = Remove(chan[s], {x})]
          /\ net' = Sent(s, {}, << [type |-> "PART", user |-> x] >>)
          /\ UNCHANGED << links, granted >>
        BY <1>0, <1>3 DEF Part
    <2>2. used \subseteq u /\ u \subseteq Commands \union {"split"} /\ "PART" \in u
        BY <1>c, <2>1
    <2>3. /\ ViewOK(Remove(chan[s], {x}), g, u)
          /\ Remove(chan[s], {x}).exists => Remove(chan[s], {x}).ts = chan[s].ts
        BY <1>a, <2>1, <2>2, RemoveOK
    <2>4. net' \in Queues(L)
        <3>1. [type |-> "PART", user |-> x] \in L
            BY <2>2, LineOK
        <3> QED BY <1>d, <2>1, <2>2, <3>1
    <2>5. spent' \in [{"commands", "closes"} -> Nat]
        BY <1>b, <2>1
    <2> HIDE DEF L
    <2>6. \E y \in Server, w \in Channel :
                 /\ chan' = [chan EXCEPT ![y] = w] /\ ViewOK(w, g, u)
                 /\ chan[y].exists /\ w.exists => w.ts <= chan[y].ts
        BY <1>f, <2>1, <2>3
    <2> QED BY <1>0, <2>1, <2>2, <2>4, <2>5, <2>6, StepOK DEF L
<1>4. ASSUME NEW by \in User, NEW x \in User, Kick(by, x) PROVE IInv' /\ NoneRises
    <2> DEFINE s == home[by]
    <2>1. /\ s \in Server /\ Use("KICK") /\ Spend("commands", MaxCommands)
          /\ chan' = [chan EXCEPT ![s] = Remove(chan[s], {x})]
          /\ net' = Sent(s, {}, << [type |-> "KICK", by |-> by, user |-> x] >>)
          /\ UNCHANGED << links, granted >>
        BY <1>0, <1>4 DEF Kick
    <2>2. used \subseteq u /\ u \subseteq Commands \union {"split"} /\ "KICK" \in u
        BY <1>c, <2>1
    <2>3. /\ ViewOK(Remove(chan[s], {x}), g, u)
          /\ Remove(chan[s], {x}).exists => Remove(chan[s], {x}).ts = chan[s].ts
        BY <1>a, <2>1, <2>2, RemoveOK
    <2>4. net' \in Queues(L)
        <3>1. [type |-> "KICK", by |-> by, user |-> x] \in L
            BY <2>2, LineOK
        <3> QED BY <1>d, <2>1, <2>2, <3>1
    <2>5. spent' \in [{"commands", "closes"} -> Nat]
        BY <1>b, <2>1
    <2> HIDE DEF L
    <2>6. \E y \in Server, w \in Channel :
                 /\ chan' = [chan EXCEPT ![y] = w] /\ ViewOK(w, g, u)
                 /\ chan[y].exists /\ w.exists => w.ts <= chan[y].ts
        BY <1>f, <2>1, <2>3
    <2> QED BY <1>0, <2>1, <2>2, <2>4, <2>5, <2>6, StepOK DEF L
<1>5. ASSUME NEW by \in User, NEW x \in User, NEW flag \in Prefix, NEW add \in BOOLEAN,
             ModeChange(by, x, flag, add)
      PROVE  IInv' /\ NoneRises
    <2> DEFINE s == home[by]
               v == Change(chan[s], x, flag, add)
    <2>1. /\ s \in Server /\ Use(flag) /\ Spend("commands", MaxCommands) /\ x \in chan[s].on
          /\ chan' = [chan EXCEPT ![s] = v]
          /\ net' = Sent(s, {}, << [type |-> "MODE", by |-> by, user |-> x, flag |-> flag, add |-> add] >>)
          /\ granted' = IF flag = "o" /\ add THEN granted \union {<<x, chan[s].ts>>} ELSE granted
          /\ UNCHANGED links
        BY <1>0, <1>5 DEF ModeChange
    <2>2. used \subseteq u /\ u \subseteq Commands \union {"split"} /\ flag \in u
        BY <1>c, <2>1
    <2>3. granted \subseteq g /\ g \subseteq User \X Nat
        BY <1>0, <2>1
    <2>4. ViewOK(v, g, u) /\ v.ts = chan[s].ts
        <3>1. ViewOK(chan[s], g, u) /\ flag \in u
            BY <1>a, <2>1, <2>2, <2>3
        <3> HIDE DEF L
        <3> QED BY ONLY <3>1, <2>1, ChangeOK, flag \in Prefix
    <2>5. net' \in Queues(L)
        <3>1. [type |-> "MODE", by |-> by, user |-> x, flag |-> flag, add |-> add] \in L
            BY <2>2, LineOK
        <3> QED BY <1>d, <2>1, <2>2, <2>3, <3>1
    <2>6. spent' \in [{"commands", "closes"} -> Nat]
        BY <1>b, <2>1
    <2> HIDE DEF L, v
    <2>7. \E y \in Server, w \in Channel :
                 /\ chan' = [chan EXCEPT ![y] = w] /\ ViewOK(w, g, u)
                 /\ chan[y].exists /\ w.exists => w.ts <= chan[y].ts
        BY <1>f, <2>1, <2>4
    <2> QED BY <1>0, <2>1, <2>2, <2>3, <2>5, <2>6, <2>7, StepOK DEF L
<1>g. ASSUME UNCHANGED << history, spent >>
      PROVE  /\ granted \subseteq g /\ used \subseteq u /\ g \subseteq User \X Nat
             /\ u \subseteq Commands \union {"split"} /\ spent' \in [{"commands", "closes"} -> Nat]
             /\ L = Lines(granted, used) /\ g = granted /\ u = used
    BY <1>0, <1>g DEF history
<1>h. ASSUME UNCHANGED << history, spent >>, NEW s \in Server, NEW t \in Server,
             net[s][t] # << >>, UNCHANGED links,
             \/ net' = Taken(s, t, << >>)
             \/ \E m \in L : net' = Taken(s, t, << m >>)
      PROVE  net' \in Queues(L) /\ links' \in [Server -> SUBSET Server]
    <2> HIDE DEF L
    <2>1. net \in Queues(L)
        BY <1>a, <1>g, <1>h
    <2>2. << >> \in Seq(L \union LinkMessage)
        OBVIOUS
    <2>3. \A m \in L : << m >> \in Seq(L \union LinkMessage)
        OBVIOUS
    <2>4. Taken(s, t, << >>) \in Queues(L)
        BY <1>h, <2>1, <2>2, TakenType
    <2>5. \A m \in L : Taken(s, t, << m >>) \in Queues(L)
        BY <1>h, <2>1, <2>3, TakenType
    <2> QED BY <1>0, <1>h, <2>4, <2>5
<1>6. ASSUME NEW s \in Server, NEW t \in Server, ReceiveSjoin(s, t) PROVE IInv' /\ NoneRises
    <2> DEFINE d == Head(net[s][t]).d
               v == Accept(chan[t], d)
               r == Relay(chan[t], d)
    <2>1. /\ Arrives(s, t, "SJOIN") /\ net[s][t] # << >>
          /\ chan' = [chan EXCEPT ![t] = v]
          /\ net' = Taken(s, t, IF d.nicks = {} THEN << >> ELSE << [type |-> "SJOIN", d |-> r] >>)
          /\ UNCHANGED << links, history, spent >>
        BY <1>6 DEF ReceiveSjoin, Arrives
    <2>2. DescriptionOK(d, g, u) /\ ViewOK(chan[t], g, u)
        BY <1>0, <1>g, <2>1, HeadOK
    <2> HIDE DEF d
    <2>3. ViewOK(v, g, u) /\ (chan[t].exists => v.ts <= chan[t].ts)
        BY <2>2, AcceptOK
    <2>4. DescriptionOK(r, g, u)
        BY <2>2, RelayOK
    <2>5. net' \in Queues(L)
        <3> HIDE DEF r
        <3>1. [type |-> "SJOIN", d |-> r] \in L
            BY <2>4, LineOK
        <3>2. \/ net' = Taken(s, t, << >>)
              \/ \E m \in L : net' = Taken(s, t, << m >>)
            BY <2>1, <3>1
        <3> QED BY <1>h, <2>1, <3>2
    <2> HIDE DEF L, v
    <2>6. \E y \in Server, w \in Channel :
                 /\ chan' = [chan EXCEPT ![y] = w] /\ ViewOK(w, g, u)
                 /\ chan[y].exists /\ w.exists => w.ts <= chan[y].ts
        BY <1>e, <2>1, <2>3
    <2> QED BY <1>0, <1>g, <2>1, <2>5, <2>6, StepOK DEF L
<1>i. ASSUME UNCHANGED << history, spent >>, NEW s \in Server, NEW t \in Server, NEW m \in L, NEW S,
             net[s][t] # << >>, UNCHANGED links,
             \/ chan' = [chan EXCEPT ![t] = Remove(chan[t], S)] /\ net' = Taken(s, t, << m >>)
             \/ UNCHANGED chan /\ net' = Taken(s, t, << >>)
      PROVE  IInv' /\ NoneRises
    <2>1. net' \in Queues(L) /\ links' \in [Server -> SUBSET Server]
        BY <1>h, <1>i
    <2>2. /\ ViewOK(Remove(chan[t], S), g, u)
          /\ Remove(chan[t], S).exists => Remove(chan[t], S).ts = chan[t].ts
        BY <1>a, <1>g, <1>i, RemoveOK
    <2> HIDE DEF L
    <2>3. \/ UNCHANGED chan
          \/ \E y \in Server, w \in Channel :
                 /\ chan' = [chan EXCEPT ![y] = w] /\ ViewOK(w, g, u)
                 /\ chan[y].exists /\ w.exists => w.ts <= chan[y].ts
        BY <1>f, <1>i, <2>2
    <2> QED BY <1>0, <1>g, <1>i, <2>1, <2>3, StepOK DEF L
<1>7. ASSUME NEW s \in Server, NEW t \in Server, ReceivePart(s, t) PROVE IInv' /\ NoneRises
    <2>1. /\ Arrives(s, t, "PART") /\ net[s][t] # << >>
          /\ UNCHANGED << links, history, spent >>
        BY <1>7 DEF ReceivePart, Arrives
    <2>2. Head(net[s][t]) \in L
        BY <1>0, <1>g, <2>1, HeadOK
    <2> QED BY <1>7, <1>i, <2>1, <2>2 DEF ReceivePart
<1>8. ASSUME NEW s \in Server, NEW t \in Server, ReceiveKick(s, t) PROVE IInv' /\ NoneRises
    <2>1. /\ Arrives(s, t, "KICK") /\ net[s][t] # << >>
          /\ UNCHANGED << links, history, spent >>
        BY <1>8 DEF ReceiveKick, Arrives
    <2>2. Head(net[s][t]) \in L
        BY <1>0, <1>g, <2>1, HeadOK
    <2> QED BY <1>8, <1>i, <2>1, <2>2 DEF ReceiveKick
<1>9. ASSUME NEW s \in Server, NEW t \in Server, ReceiveMode(s, t) PROVE IInv' /\ NoneRises
    <2> DEFINE m == Head(net[s][t])
               v == Change(chan[t], m.user, m.flag, m.add)
    <2>1. /\ Arrives(s, t, "MODE") /\ net[s][t] # << >>
          /\ UNCHANGED << links, history, spent >>
        BY <1>9 DEF ReceiveMode, Arrives
    <2>2. m \in L /\ m.flag \in Prefix /\ m.flag \in u
        BY <1>0, <1>g, <2>1, HeadOK
    <2>3. ViewOK(chan[t], g, u)
        BY <1>a, <1>g, <2>1
    <2>4. \/ /\ chan' = [chan EXCEPT ![t] = v] /\ net' = Taken(s, t, << m >>)
             /\ m.user \in chan[t].on
          \/ UNCHANGED chan /\ net' = Taken(s, t, << >>)
        BY <1>9 DEF ReceiveMode
    <2>5. net' \in Queues(L) /\ links' \in [Server -> SUBSET Server]
        <3> HIDE DEF m
        <3> QED BY <1>h, <2>1, <2>2, <2>4
    <2>6. m.user \in chan[t].on => ViewOK(v, g, u) /\ v.ts = chan[t].ts
        <3> HIDE DEF m, L
        <3> QED BY ONLY <2>2, <2>3, ChangeOK
    <2> HIDE DEF L, v, m
    <2>7. \/ UNCHANGED chan
          \/ \E y \in Server, w \in Channel :
                 /\ chan' = [chan EXCEPT ![y] = w] /\ ViewOK(w, g, u)
                 /\ chan[y].exists /\ w.exists => w.ts <= chan[y].ts
        BY <1>f, <2>4, <2>6
    <2> QED BY <1>0, <1>g, <2>1, <2>5, <2>7, StepOK DEF L
<1>j. ASSUME NEW s \in Server, NEW lost, Lose(s, lost), granted \subseteq g, used \subseteq u
      PROVE  \E y \in Server, w \in Channel :
                 /\ chan' = [chan EXCEPT ![y] = w] /\ ViewOK(w, g, u)
                 /\ chan[y].exists /\ w.exists => w.ts <= chan[y].ts
    <2> DEFINE v == Remove(chan[s], UsersOf(lost))
    <2>1. ViewOK(v, g, u) /\ (v.exists => v.ts = chan[s].ts)
        BY <1>a, <1>j, RemoveOK
    <2>2. chan' = [chan EXCEPT ![s] = v]
        BY <1>j DEF Lose
    <2> HIDE DEF v
    <2> QED BY <1>f, <2>1, <2>2
<1>10. ASSUME NEW s \in Server, NEW t \in Server, ReceiveSquit(s, t) PROVE IInv' /\ NoneRises
    <2>1. UNCHANGED << history, spent >> /\ SquitLink(s, t) /\ Lose(t, Head(net[s][t]).lost)
        BY <1>10 DEF ReceiveSquit
    <2>2. LinksTypeOK(Lines(granted, used))'
        BY <1>0, <1>g, <2>1, SquitLinkType DEF LinksTypeOK
    <2>3. net' \in Queues(L) /\ links' \in [Server -> SUBSET Server]
        BY <1>g, <2>1, <2>2 DEF LinksTypeOK, Queues
    <2> HIDE DEF L
    <2>4. \E y \in Server, w \in Channel :
                 /\ chan' = [chan EXCEPT ![y] = w] /\ ViewOK(w, g, u)
                 /\ chan[y].exists /\ w.exists => w.ts <= chan[y].ts
        BY <1>g, <1>j, <2>1
    <2> QED BY <1>0, <1>g, <2>1, <2>3, <2>4, StepOK DEF L
<1>11. ASSUME NEW s \in Server, NEW t \in Server, ReceiveEof(s, t) PROVE IInv' /\ NoneRises
    <2>1. /\ UNCHANGED << history, spent >> /\ EofLink(s, t)
          /\ Lose(t, Behind(t, s)) \/ UNCHANGED chan
        BY <1>11 DEF ReceiveEof
    <2>2. LinksTypeOK(Lines(granted, used))'
        BY <1>0, <1>g, <2>1, EofLinkType DEF LinksTypeOK
    <2>3. net' \in Queues(L) /\ links' \in [Server -> SUBSET Server]
        BY <1>g, <2>1, <2>2 DEF LinksTypeOK, Queues
    <2> HIDE DEF L
    <2>4. \/ UNCHANGED chan
          \/ \E y \in Server, w \in Channel :
                 /\ chan' = [chan EXCEPT ![y] = w] /\ ViewOK(w, g, u)
                 /\ chan[y].exists /\ w.exists => w.ts <= chan[y].ts
        BY <1>g, <1>j, <2>1
    <2> QED BY <1>0, <1>g, <2>1, <2>3, <2>4, StepOK DEF L
<1>12. ASSUME NEW s \in Server, NEW t \in Server, Close(s, t) PROVE IInv' /\ NoneRises
    <2>1. /\ UNCHANGED granted /\ used' = used \union {"split"}
          /\ CloseLink(s, t) /\ Lose(s, Behind(s, t)) /\ Spend("closes", MaxCloses)
        BY <1>12 DEF Close
    <2>2. /\ granted \subseteq g /\ used \subseteq u /\ g \subseteq User \X Nat
          /\ u \subseteq Commands \union {"split"} /\ spent' \in [{"commands", "closes"} -> Nat]
        BY <1>0, <1>b, <2>1
    <2>3. \A M : LinksTypeOK(M) => net' \in Queues(M) /\ links' \in [Server -> SUBSET Server]
        BY <2>1, CloseLinkType DEF LinksTypeOK, Queues
    <2> HIDE DEF L
    <2>4. net' \in Queues(L) /\ links' \in [Server -> SUBSET Server]
        BY <1>a, <2>2, <2>3
    <2>5. \E y \in Server, w \in Channel :
                 /\ chan' = [chan EXCEPT ![y] = w] /\ ViewOK(w, g, u)
                 /\ chan[y].exists /\ w.exists => w.ts <= chan[y].ts
        BY <1>j, <2>1, <2>2
    <2> QED BY <1>0, <2>2, <2>4, <2>5, StepOK DEF L
<1>13. ASSUME NEW s \in Server, NEW t \in Server, Estab(s, t) PROVE IInv' /\ NoneRises
    <2>1. PICK lines \in BurstLines(chan[s]) : EstabLink(s, t, lines)
        BY <1>13 DEF Estab
    <2>2. UNCHANGED << chan, history, spent >> /\ lines \in Seq(Lines(granted, used))
        BY <1>0, <1>13, BurstOK DEF Estab
    <2>3. LinksTypeOK(Lines(granted, used))'
        BY <1>0, <1>g, <2>1, <2>2, EstabLinkType DEF LinksTypeOK
    <2>4. net' \in Queues(L) /\ links' \in [Server -> SUBSET Server]
        BY <1>g, <2>2, <2>3 DEF LinksTypeOK, Queues
    <2> HIDE DEF L
    <2> QED BY <1>0, <1>g, <2>2, <2>4, StepOK DEF L
<1>14. ASSUME NEW s \in Server, NEW t \in Server, ReceiveServer(s, t) PROVE IInv' /\ NoneRises
    <2>1. PICK lines \in BurstLines(chan[t]) : ServerLink(s, t, lines)
        BY <1>14 DEF ReceiveServer
    <2>2. UNCHANGED << chan, history, spent >> /\ lines \in Seq(Lines(granted, used))
        BY <1>0, <1>14, BurstOK DEF ReceiveServer
    <2>3. LinksTypeOK(Lines(granted, used))'
        BY <1>0, <1>g, <2>1, <2>2, ServerLinkType DEF LinksTypeOK
    <2>4. net' \in Queues(L) /\ links' \in [Server -> SUBSET Server]
        BY <1>g, <2>2, <2>3 DEF LinksTypeOK, Queues
    <2> HIDE DEF L
    <2> QED BY <1>0, <1>g, <2>2, <2>4, StepOK DEF L
<1>15. CASE UNCHANGED vars
    <2>1. UNCHANGED << chan, links, net, history, spent >>
        BY <1>15 DEF vars
    <2>2. net' \in Queues(L) /\ links' \in [Server -> SUBSET Server]
        BY <1>0, <1>g, <2>1 DEF LinksTypeOK, Queues
    <2> HIDE DEF L
    <2> QED BY <1>0, <1>g, <2>1, <2>2, StepOK DEF L
<1> QED BY <1>1, <1>2, <1>3, <1>4, <1>5, <1>6, <1>7, <1>8, <1>9, <1>10,
           <1>11, <1>12, <1>13, <1>14, <1>15 DEF Next

(* What holds in every reachable state.                                    *)
THEOREM IInvHolds == Spec => []IInv
<1>1. IInv /\ [Next]_vars => IInv'
    BY IInvNext
<1> QED BY <1>1, IInvInit, PTL DEF Spec

(* Every variable keeps its type, for any network, users and clocks: a     *)
(* server has the channel as long as somebody is on it there, and an SJOIN *)
(* of nobody leaves none behind.                                           *)
THEOREM TypesHold == Spec => []TypeOK
<1>1. ASSUME IInv PROVE TypeOK
    <2>1. Lines(granted, used) \union LinkMessage \subseteq Message \union LinkMessage
        BY DEF Lines
    <2>2. \A x, y \in Server : net[x][y] \in Seq(Message \union LinkMessage)
        BY <1>1, <2>1, SeqMonotonic DEF IInv, LinksTypeOK
    <2>3. LinksTypeOK(Message)
        BY <1>1, <2>2 DEF IInv, LinksTypeOK
    <2> QED BY <1>1, <2>3 DEF IInv, TypeOK, ViewOK
<1> QED BY <1>1, IInvHolds, PTL

(* Unless MODE has handed ops on, every op of a channel, on every server,  *)
(* was made op at the timestamp the channel has there: nobody gains ops by *)
(* riding a split.                                                         *)
THEOREM OpsFollowTheTs == Spec => []OpsBelongToTheTs
<1>1. ASSUME IInv PROVE OpsBelongToTheTs
    BY <1>1 DEF IInv, ViewOK, OpsOK, OpsBelongToTheTs, OpsOfTheTs
<1> QED BY <1>1, IInvHolds, PTL

(* While a channel lives on a server its timestamp only gets older.        *)
THEOREM TsOnlyFalls == Spec => TsNeverRises
<1>1. IInv /\ [Next]_vars =>
        [\A s \in Server : chan[s].exists /\ chan'[s].exists => chan'[s].ts <= chan[s].ts]_vars
    BY IInvNext DEF NoneRises
<1> QED BY <1>1, IInvHolds, PTL DEF Spec, TsNeverRises
-----------------------------------------------------------------------------
(* Agreement about members.  What a server will hold once it has read what *)
(* is on its way to it, is what the server that wrote it holds.            *)

Line == Message \union LinkMessage

(* The users on s's side of its link to t.                                 *)
Near(s, t) == UsersOf(Behind(t, s))

(* Whom a line is about; anybody may be kicked.                            *)
About(m) ==
    IF m.type = "SJOIN" THEN m.d.nicks
    ELSE IF m.type = "PART" THEN {m.user}
    ELSE IF m.type = "SQUIT" THEN UsersOf(m.lost)
    ELSE {}

Adds(m, u) == m.type = "SJOIN" /\ u \in m.d.nicks

Drops(m, u) ==
    \/ m.type \in {"PART", "KICK"} /\ m.user = u
    \/ m.type = "SQUIT" /\ home[u] \in m.lost

(* Whether u will be a member where the lines of q are read, who is one    *)
(* there now or not.                                                       *)
Will(q, u, now) ==
    \/ \E n \in 1..Len(q) : Adds(q[n], u) /\ \A k \in n + 1..Len(q) : ~Drops(q[k], u)
    \/ now /\ \A k \in 1..Len(q) : ~Drops(q[k], u)

(* Line m is what has become of the members.                               *)
Tells(m, before, after) ==
    \A u \in User : u \in after <=> Adds(m, u) \/ (u \in before /\ ~Drops(m, u))

KickIn(q, u) == \E n \in 1..Len(q) : q[n].type = "KICK" /\ q[n].user = u

(* The lines of q are about users of S.                                    *)
Within(q, S) == \A n \in 1..Len(q) : About(q[n]) \subseteq S

(* A line is about users on the side it comes from.                        *)
Directed(s, t) == Within(net[s][t], Near(s, t))

(* While a server does not have the link, or is greeting, it holds nobody  *)
(* from the other side.                                                    *)
Gone(s, t) ==
    t \notin links[s] \/ Greets(net[s][t]) => chan[s].on \intersect Near(t, s) = {}

Talks(s, t) == t \in links[s] /\ (s \in links[t] \/ Greets(net[s][t]))

Exact(s, t) ==
    Talks(s, t) =>
        \A u \in Near(s, t) : Will(net[s][t], u, u \in chan[t].on) <=> u \in chan[s].on

(* A server that sees somebody from its own side makes the other see him,  *)
(* unless the other has kicked him.                                        *)
Known(s, t) ==
    \A u \in Near(s, t) : u \in chan[s].on =>
        Will(net[s][t], u, u \in chan[t].on) \/ KickIn(net[t][s], u)

Pair(s, t) ==
    /\ Directed(s, t) /\ Gone(s, t)
    /\ used \subseteq {"PART", "o", "split"} => Exact(s, t)
    /\ used \subseteq {"PART", "KICK", "o"} => Known(s, t)

Whole == "split" \notin used => \A s \in Server : links[s] = Neighbour(s)

PairsOK == LinksOK /\ Whole /\ \A s \in Server : \A t \in Neighbour(s) : Pair(s, t)

(* A link divides the users; who is beyond one is not beyond another.      *)
LEMMA NearIs ==
    ASSUME NEW s \in Server, NEW t \in Neighbour(s)
    PROVE  /\ UsersOf({s}) \subseteq Near(s, t)
           /\ Near(s, t) \union Near(t, s) = User /\ Near(s, t) \intersect Near(t, s) = {}
           /\ \A x \in Neighbour(s) : x # t =>
                Near(x, s) \subseteq Near(s, t) /\ Near(x, s) \intersect Near(t, s) = {}
<1>1. t \in Server /\ s # t /\ s \in Behind(t, s)
    BY Neighbours, BehindIs
<1>2. Behind(t, s) \union Behind(s, t) = Server /\ Behind(t, s) \intersect Behind(s, t) = {}
    BY BehindDivides
<1>3. \A x \in Neighbour(s) : x # t => Behind(s, x) \subseteq Behind(t, s)
    BY BehindThrough
<1>4. home \in [User -> Server]
    BY NetAssumption
<1>5. UsersOf({s}) \subseteq Near(s, t)
    BY <1>1 DEF UsersOf, Near
<1>6. Near(s, t) \union Near(t, s) = User /\ Near(s, t) \intersect Near(t, s) = {}
    BY <1>2, <1>4 DEF UsersOf, Near
<1>7. \A x \in Neighbour(s) : x # t => Near(x, s) \subseteq Near(s, t)
    BY <1>3 DEF UsersOf, Near
<1> QED BY <1>5, <1>6, <1>7

(* The two sides of a link, as the steps cite them.                        *)
LEMMA NearSides ==
    ASSUME NEW s \in Server, NEW t \in Neighbour(s)
    PROVE  /\ Near(s, t) \subseteq User /\ Near(t, s) \subseteq User
           /\ Near(s, t) \union Near(t, s) = User
           /\ Near(s, t) \intersect Near(t, s) = {} /\ Near(t, s) \intersect Near(s, t) = {}
           /\ UsersOf({s}) \subseteq Near(s, t) /\ t \in Server /\ s # t
<1>1. /\ Near(s, t) \union Near(t, s) = User /\ Near(s, t) \intersect Near(t, s) = {}
      /\ UsersOf({s}) \subseteq Near(s, t)
    BY NearIs
<1>2. t \in Server /\ s # t
    BY Neighbours
<1> QED BY <1>1, <1>2

(* A line that adds or drops somebody is about him, or a kick.             *)
LEMMA AboutIs ==
    ASSUME NEW m \in Line, NEW u \in User
    PROVE  /\ Adds(m, u) => u \in About(m) /\ ~Drops(m, u)
           /\ Drops(m, u) => u \in About(m) \/ (m.type = "KICK" /\ m.user = u)
           /\ m.type = "KICK" => (Drops(m, u) <=> m.user = u) /\ About(m) = {}
BY DEF Adds, Drops, About, UsersOf

(* Where no line waits, the members are who they will be.                  *)
LEMMA WillEmpty ==
    ASSUME NEW u, NEW now PROVE Will(<< >>, u, now) <=> now
BY DEF Will

(* A line at the end of a queue has the last word.                         *)
LEMMA WillGrows ==
    ASSUME NEW L, NEW q \in Seq(L), NEW m \in L, NEW u, NEW now,
           ~(Adds(m, u) /\ Drops(m, u))
    PROVE  Will(q \o << m >>, u, now) <=> Adds(m, u) \/ (~Drops(m, u) /\ Will(q, u, now))
<1> DEFINE r == q \o << m >>
           N == Len(q)
<1>1. N \in Nat /\ Len(r) = N + 1 /\ r[N + 1] = m /\ \A n \in 1..N : r[n] = q[n]
    <2>1. << m >> \in Seq(L) /\ Len(<< m >>) = 1 /\ << m >>[1] = m
        OBVIOUS
    <2>2. /\ Len(r) = N + Len(<< m >>)
          /\ \A n \in 1..N + Len(<< m >>) : r[n] = IF n <= N THEN q[n] ELSE << m >>[n - N]
        BY <2>1, ConcatProperties
    <2>3. N \in Nat
        OBVIOUS
    <2> HIDE DEF r, N
    <2> QED BY <2>1, <2>2, <2>3
<1>2. N + 1 \in 1..N + 1 /\ \A n \in 1..N : n \in 1..N + 1
    BY <1>1
<1>3. \A n \in 1..N + 1 : n = N + 1 \/ n \in 1..N
    BY <1>1
<1>4. \A n \in 1..N : N + 1 \in n + 1..N + 1
    BY <1>1
<1>5. \A n \in 1..N : \A k \in n + 1..N : k \in n + 1..N + 1 /\ k \in 1..N
    BY <1>1
<1>6. \A n \in 1..N : \A k \in n + 1..N + 1 : k = N + 1 \/ (k \in n + 1..N /\ k \in 1..N)
    BY <1>1
<1>7. \A k \in N + 1 + 1..N + 1 : FALSE
    BY <1>1
<1>8. N = Len(q)
    OBVIOUS
<1> HIDE DEF r, N
<1>9. ASSUME Adds(m, u) PROVE Will(r, u, now)
    BY <1>1, <1>2, <1>7, <1>9 DEF Will
<1>10. ASSUME ~Drops(m, u), Will(q, u, now) PROVE Will(r, u, now)
    <2>1. CASE \E n \in 1..N : Adds(q[n], u) /\ \A k \in n + 1..N : ~Drops(q[k], u)
        <3>1. PICK n \in 1..N : Adds(q[n], u) /\ \A k \in n + 1..N : ~Drops(q[k], u)
            BY <2>1
        <3>2. n \in 1..N + 1 /\ Adds(r[n], u)
            BY <1>1, <1>2, <3>1
        <3>3. ASSUME NEW k \in n + 1..N + 1 PROVE ~Drops(r[k], u)
            BY <1>1, <1>6, <1>10, <3>1
        <3> QED BY <1>1, <3>2, <3>3 DEF Will
    <2>2. CASE now /\ \A k \in 1..N : ~Drops(q[k], u)
        <3>1. ASSUME NEW k \in 1..N + 1 PROVE ~Drops(r[k], u)
            BY <1>1, <1>3, <1>10, <2>2
        <3> QED BY <1>1, <2>2, <3>1 DEF Will
    <2> QED BY <1>8, <1>10, <2>1, <2>2 DEF Will
<1>11. ASSUME Will(r, u, now), ~Adds(m, u) PROVE ~Drops(m, u) /\ Will(q, u, now)
    <2>1. CASE \E n \in 1..N + 1 : Adds(r[n], u) /\ \A k \in n + 1..N + 1 : ~Drops(r[k], u)
        <3>1. PICK n \in 1..N + 1 : Adds(r[n], u) /\ \A k \in n + 1..N + 1 : ~Drops(r[k], u)
            BY <2>1
        <3>2. n \in 1..N
            BY <1>1, <1>3, <1>11, <3>1
        <3>3. Adds(q[n], u) /\ ~Drops(m, u)
            BY <1>1, <1>4, <3>1, <3>2
        <3>4. \A k \in n + 1..N : ~Drops(q[k], u)
            BY <1>1, <1>5, <3>1, <3>2
        <3> QED BY <1>8, <3>2, <3>3, <3>4 DEF Will
    <2>2. CASE now /\ \A k \in 1..N + 1 : ~Drops(r[k], u)
        <3>1. ~Drops(m, u) /\ \A k \in 1..N : ~Drops(q[k], u)
            BY <1>1, <1>2, <2>2
        <3> QED BY <1>8, <2>2, <3>1 DEF Will
    <2> QED BY <1>1, <1>11, <2>1, <2>2 DEF Will
<1>12. Will(r, u, now) <=> Adds(m, u) \/ (~Drops(m, u) /\ Will(q, u, now))
    BY <1>9, <1>10, <1>11
<1> QED BY <1>12 DEF r

(* To read the first line of a queue changes nothing of what will be.      *)
LEMMA WillShrinks ==
    ASSUME NEW L, NEW q \in Seq(L), q # << >>, NEW u, NEW now
    PROVE  Will(q, u, now) <=>
               Will(Tail(q), u, Adds(q[1], u) \/ (now /\ ~Drops(q[1], u)))
<1> DEFINE r == Tail(q)
           N == Len(r)
           next == Adds(q[1], u) \/ (now /\ ~Drops(q[1], u))
<1>1. /\ N \in Nat /\ Len(q) = N + 1 /\ \A n \in 1..N : r[n] = q[n + 1]
    <2>1. /\ r \in Seq(L) /\ Len(r) = Len(q) - 1
          /\ \A n \in 1..Len(r) : r[n] = q[n + 1]
        BY HeadTailProperties
    <2>2. Len(q) \in Nat \ {0}
        BY EmptySeq
    <2> HIDE DEF r
    <2> QED BY <2>1, <2>2
<1>2. /\ \A n \in 1..N : n + 1 \in 1..N + 1
      /\ \A n \in 1..N + 1 : n = 1 \/ (n - 1 \in 1..N /\ n - 1 + 1 = n)
      /\ 1 \in 1..N + 1
    BY <1>1
<1>3. \A n \in 1..N : \A k \in n + 1 + 1..N + 1 : k - 1 \in n + 1..N /\ k - 1 \in 1..N /\ k - 1 + 1 = k
    BY <1>1
<1>4. \A n \in 1..N : \A k \in n + 1..N : k + 1 \in n + 1 + 1..N + 1 /\ k \in 1..N
    BY <1>1
<1>5. /\ \A k \in 1 + 1..N + 1 : k - 1 \in 1..N /\ k - 1 + 1 = k
      /\ \A k \in 1..N : k + 1 \in 1 + 1..N + 1
    BY <1>1
<1>6. N = Len(r)
    OBVIOUS
<1> HIDE DEF r, N, next
<1>7. ASSUME Will(q, u, now) PROVE Will(r, u, next)
    <2>1. CASE \E n \in 1..N + 1 : Adds(q[n], u) /\ \A k \in n + 1..N + 1 : ~Drops(q[k], u)
        <3>1. PICK n \in 1..N + 1 : Adds(q[n], u) /\ \A k \in n + 1..N + 1 : ~Drops(q[k], u)
            BY <2>1
        <3>2. CASE n = 1
            <4>1. next /\ \A k \in 1..N : ~Drops(r[k], u)
                BY <1>1, <1>5, <3>1, <3>2 DEF next
            <4> QED BY <1>6, <4>1 DEF Will
        <3>3. CASE n # 1
            <4>1. n - 1 \in 1..N /\ n - 1 + 1 = n
                BY <1>2, <3>1, <3>3
            <4>2. PICK i \in 1..N : i + 1 = n
                BY <4>1
            <4>3. Adds(r[i], u) /\ \A k \in i + 1..N : ~Drops(r[k], u)
                BY <1>1, <1>4, <3>1, <4>2
            <4> QED BY <1>6, <4>3 DEF Will
        <3> QED BY <3>2, <3>3
    <2>2. CASE now /\ \A k \in 1..N + 1 : ~Drops(q[k], u)
        <3>1. next /\ \A k \in 1..N : ~Drops(r[k], u)
            BY <1>1, <1>2, <2>2 DEF next
        <3> QED BY <1>6, <3>1 DEF Will
    <2> QED BY <1>1, <1>7, <2>1, <2>2 DEF Will
<1>8. ASSUME Will(r, u, next) PROVE Will(q, u, now)
    <2>1. CASE \E n \in 1..N : Adds(r[n], u) /\ \A k \in n + 1..N : ~Drops(r[k], u)
        <3>1. PICK n \in 1..N : Adds(r[n], u) /\ \A k \in n + 1..N : ~Drops(r[k], u)
            BY <2>1
        <3>2. n + 1 \in 1..N + 1 /\ Adds(q[n + 1], u)
            BY <1>1, <1>2, <3>1
        <3>3. ASSUME NEW k \in n + 1 + 1..N + 1 PROVE ~Drops(q[k], u)
            <4>1. k - 1 \in n + 1..N /\ k - 1 \in 1..N /\ k - 1 + 1 = k
                BY <1>3, <3>1, <3>3
            <4>2. r[k - 1] = q[k - 1 + 1]
                BY <1>1, <4>1
            <4> QED BY <3>1, <4>1, <4>2
        <3> QED BY <1>1, <3>2, <3>3 DEF Will
    <2>2. CASE next /\ \A k \in 1..N : ~Drops(r[k], u)
        <3>1. ASSUME NEW k \in 1 + 1..N + 1 PROVE ~Drops(q[k], u)
            <4>1. k - 1 \in 1..N /\ k - 1 + 1 = k
                BY <1>5
            <4>2. r[k - 1] = q[k - 1 + 1]
                BY <1>1, <4>1
            <4> QED BY <2>2, <4>1, <4>2
        <3>2. CASE Adds(q[1], u)
            BY <1>1, <1>2, <3>1, <3>2 DEF Will
        <3>3. CASE now /\ ~Drops(q[1], u)
            <4>1. ASSUME NEW k \in 1..N + 1 PROVE ~Drops(q[k], u)
                <5>1. k = 1 \/ k \in 1 + 1..N + 1
                    BY <1>1
                <5> QED BY <3>1, <3>3, <5>1
            <4> QED BY <1>1, <3>3, <4>1 DEF Will
        <3> QED BY <2>2, <3>2, <3>3 DEF next
    <2> QED BY <1>6, <1>8, <2>1, <2>2 DEF Will
<1> QED BY <1>7, <1>8 DEF r, next

(* Who is there already will be no less.                                   *)
LEMMA WillMore ==
    ASSUME NEW q, NEW u, NEW now, NEW then, now => then, Will(q, u, now)
    PROVE  Will(q, u, then)
BY DEF Will

(* The queues, line by line.                                               *)
LEMMA LinesGrow ==
    ASSUME NEW L, NEW q \in Seq(L), NEW m \in L, NEW u, NEW S
    PROVE  /\ Within(q, S) /\ About(m) \subseteq S => Within(q \o << m >>, S)
           /\ KickIn(q, u) \/ (m.type = "KICK" /\ m.user = u) => KickIn(q \o << m >>, u)
<1> DEFINE r == q \o << m >>
           N == Len(q)
<1>1. N \in Nat /\ Len(r) = N + 1 /\ r[N + 1] = m /\ \A n \in 1..N : r[n] = q[n]
    <2>1. << m >> \in Seq(L) /\ Len(<< m >>) = 1 /\ << m >>[1] = m
        OBVIOUS
    <2>2. /\ Len(r) = N + Len(<< m >>)
          /\ \A n \in 1..N + Len(<< m >>) : r[n] = IF n <= N THEN q[n] ELSE << m >>[n - N]
        BY <2>1, ConcatProperties
    <2>3. N \in Nat
        OBVIOUS
    <2> HIDE DEF r, N
    <2> QED BY <2>1, <2>2, <2>3
<1>2. N = Len(q) /\ r = q \o << m >>
    OBVIOUS
<1> HIDE DEF r, N
<1>3. /\ N + 1 \in 1..N + 1 /\ \A n \in 1..N : n \in 1..N + 1
      /\ \A n \in 1..N + 1 : n = N + 1 \/ n \in 1..N
    BY <1>1
<1>4. Within(q, S) /\ About(m) \subseteq S => Within(r, S)
    BY <1>1, <1>2, <1>3 DEF Within
<1>5. KickIn(q, u) => KickIn(r, u)
    BY <1>1, <1>2, <1>3 DEF KickIn
<1>6. m.type = "KICK" /\ m.user = u => KickIn(r, u)
    BY <1>1, <1>3 DEF KickIn
<1> QED BY <1>2, <1>4, <1>5, <1>6

(* The rest of a queue is about whom all of it was about.                  *)
LEMMA LinesShrink ==
    ASSUME NEW L, NEW q \in Seq(L), q # << >>, NEW u, NEW S
    PROVE  /\ Within(q, S) => Within(Tail(q), S) /\ About(q[1]) \subseteq S
           /\ KickIn(q, u) => KickIn(Tail(q), u) \/ (q[1].type = "KICK" /\ q[1].user = u)
<1> DEFINE r == Tail(q)
           N == Len(r)
<1>1. /\ N \in Nat /\ Len(q) = N + 1 /\ \A n \in 1..N : r[n] = q[n + 1]
    <2>1. /\ r \in Seq(L) /\ Len(r) = Len(q) - 1
          /\ \A n \in 1..Len(r) : r[n] = q[n + 1]
        BY HeadTailProperties
    <2>2. Len(q) \in Nat \ {0}
        BY EmptySeq
    <2> HIDE DEF r
    <2> QED BY <2>1, <2>2
<1>2. N = Len(r) /\ r = Tail(q)
    OBVIOUS
<1> HIDE DEF r, N
<1>3. /\ \A n \in 1..N : n + 1 \in 1..N + 1
      /\ \A n \in 1..N + 1 : n = 1 \/ (n - 1 \in 1..N /\ n - 1 + 1 = n)
      /\ 1 \in 1..N + 1
    BY <1>1
<1>4. Within(q, S) => Within(r, S) /\ About(q[1]) \subseteq S
    BY <1>1, <1>2, <1>3 DEF Within
<1>5. KickIn(q, u) => KickIn(r, u) \/ (q[1].type = "KICK" /\ q[1].user = u)
    <2> SUFFICES ASSUME KickIn(q, u), ~(q[1].type = "KICK" /\ q[1].user = u) PROVE KickIn(r, u)
        OBVIOUS
    <2>1. PICK n \in 1..N + 1 : q[n].type = "KICK" /\ q[n].user = u
        BY <1>1 DEF KickIn
    <2>2. n - 1 \in 1..N /\ n - 1 + 1 = n
        BY <1>3, <2>1
    <2>3. r[n - 1] = q[n]
        BY <1>1, <2>2
    <2> QED BY <1>2, <2>1, <2>2, <2>3 DEF KickIn
<1> QED BY <1>2, <1>4, <1>5

(* No lines are about nobody.                                              *)
LEMMA WithinEmpty == \A S : Within(<< >>, S)
BY DEF Within

(* From here on each step is looked at from one end of a link at a time.   *)

(* The other end, t, has changed its view; it is about nobody on s's side  *)
(* unless t has kicked him, and says so.                                   *)
LEMMA PairIn ==
    ASSUME NEW s \in Server, NEW t \in Neighbour(s), Pair(s, t), used \subseteq used',
           chan'[s].on = chan[s].on, net'[s][t] = net[s][t],
           t \in links'[s] <=> t \in links[s], s \in links'[t] <=> s \in links[t],
           \A u \in Near(s, t) :
               \/ (u \in chan'[t].on <=> u \in chan[t].on) \/ "h" \in used'
               \/ "KICK" \in used' /\ ("split" \notin used' => KickIn(net'[t][s], u)),
           \A u \in Near(s, t) :
               "split" \in used' \/ (KickIn(net[t][s], u) => KickIn(net'[t][s], u))
    PROVE  Pair(s, t)'
<1>1. Directed(s, t)' /\ Gone(s, t)'
    BY DEF Pair, Directed, Gone
<1>2. ASSUME used' \subseteq {"PART", "o", "split"} PROVE Exact(s, t)'
    <2>1. Exact(s, t) /\ "KICK" \notin used' /\ "h" \notin used'
        BY <1>2 DEF Pair
    <2> QED BY <2>1 DEF Exact, Talks
<1>3. ASSUME used' \subseteq {"PART", "KICK", "o"} PROVE Known(s, t)'
    <2>1. Known(s, t) /\ "split" \notin used' /\ "h" \notin used'
        BY <1>3 DEF Pair
    <2>2. ASSUME NEW u \in Near(s, t), u \in chan'[s].on
          PROVE  Will(net'[s][t], u, u \in chan'[t].on) \/ KickIn(net'[t][s], u)
        <3>1. Will(net[s][t], u, u \in chan[t].on) \/ KickIn(net[t][s], u)
            BY <2>1, <2>2 DEF Known
        <3> QED BY <2>1, <3>1
    <2> QED BY <2>2 DEF Known
<1> QED BY <1>1, <1>2, <1>3 DEF Pair

(* s has changed its view, by itself or as it was told, and says so.       *)
LEMMA PairOut ==
    ASSUME NEW s \in Server, NEW t \in Neighbour(s), Pair(s, t), used \subseteq used',
           net[s][t] \in Seq(Line), NEW m \in Line, About(m) \subseteq Near(s, t),
           net'[s][t] = IF t \in links[s] THEN net[s][t] \o << m >> ELSE net[s][t],
           Greets(net'[s][t]) <=> Greets(net[s][t]),
           chan'[t].on = chan[t].on,
           chan'[s].on \subseteq chan[s].on \union About(m),
           "h" \notin used' => Tells(m, chan[s].on, chan'[s].on),
           t \in links'[s] <=> t \in links[s], s \in links'[t] <=> s \in links[t],
           \A u \in Near(s, t) :
               "split" \in used' \/ (t \in links[s] /\ (KickIn(net[t][s], u) => KickIn(net'[t][s], u)))
    PROVE  Pair(s, t)'
<1>0. Near(s, t) \intersect Near(t, s) = {} /\ Near(s, t) \subseteq User
    BY NearSides
<1>1. Directed(s, t)'
    <2>1. Within(net[s][t], Near(s, t))
        BY DEF Pair, Directed
    <2>2. Within(net[s][t] \o << m >>, Near(s, t))
        BY <2>1, LinesGrow
    <2> QED BY <2>1, <2>2 DEF Directed
<1>2. Gone(s, t)'
    BY <1>0 DEF Pair, Gone
<1>a. ASSUME t \in links[s], NEW u \in Near(s, t)
      PROVE  Will(net'[s][t], u, u \in chan'[t].on) <=>
                Adds(m, u) \/ (~Drops(m, u) /\ Will(net[s][t], u, u \in chan[t].on))
    <2>1. ~(Adds(m, u) /\ Drops(m, u))
        BY <1>0, AboutIs
    <2>2. \A now : Will(net[s][t] \o << m >>, u, now) <=>
                Adds(m, u) \/ (~Drops(m, u) /\ Will(net[s][t], u, now))
        BY <2>1, WillGrows
    <2> QED BY <1>a, <2>2
<1>3. ASSUME used' \subseteq {"PART", "o", "split"} PROVE Exact(s, t)'
    <2>1. Exact(s, t) /\ Tells(m, chan[s].on, chan'[s].on)
        BY <1>3 DEF Pair
    <2>2. ASSUME Talks(s, t)', NEW u \in Near(s, t)
          PROVE  Will(net'[s][t], u, u \in chan'[t].on) <=> u \in chan'[s].on
        <3>1. Talks(s, t) /\ t \in links[s]
            BY <2>2 DEF Talks
        <3>2. Will(net[s][t], u, u \in chan[t].on) <=> u \in chan[s].on
            BY <2>1, <3>1 DEF Exact
        <3>3. u \in chan'[s].on <=> Adds(m, u) \/ (u \in chan[s].on /\ ~Drops(m, u))
            BY <1>0, <2>1 DEF Tells
        <3> QED BY <1>a, <3>1, <3>2, <3>3
    <2> QED BY <2>2 DEF Exact
<1>4. ASSUME used' \subseteq {"PART", "KICK", "o"} PROVE Known(s, t)'
    <2>1. Known(s, t) /\ "split" \notin used' /\ Tells(m, chan[s].on, chan'[s].on)
        BY <1>4 DEF Pair
    <2>2. ASSUME NEW u \in Near(s, t), u \in chan'[s].on
          PROVE  Will(net'[s][t], u, u \in chan'[t].on) \/ KickIn(net'[t][s], u)
        <3>1. Adds(m, u) \/ (u \in chan[s].on /\ ~Drops(m, u))
            BY <1>0, <2>1, <2>2 DEF Tells
        <3>2. t \in links[s] /\ (KickIn(net[t][s], u) => KickIn(net'[t][s], u))
            BY <2>1
        <3>3. u \in chan[s].on => Will(net[s][t], u, u \in chan[t].on) \/ KickIn(net[t][s], u)
            BY <2>1 DEF Known
        <3> QED BY <1>a, <3>1, <3>2, <3>3
    <2> QED BY <2>2 DEF Known
<1> QED BY <1>1, <1>2, <1>3, <1>4 DEF Pair

(* t has read the first line from s.                                       *)
LEMMA PairTaken ==
    ASSUME NEW s \in Server, NEW t \in Neighbour(s), Pair(s, t), used \subseteq used',
           net[s][t] \in Seq(Line), net[s][t] # << >>, Framed(net[s][t]),
           net'[s][t] = Tail(net[s][t]), chan'[s].on = chan[s].on,
           "h" \notin used' => Tells(net[s][t][1], chan[t].on, chan'[t].on),
           t \in links'[s] <=> t \in links[s],
           t \in links[s] /\ s \in links'[t] => Talks(s, t),
           "split" \in used' \/ net'[t][s] = net[t][s]
    PROVE  Pair(s, t)'
<1> DEFINE m == net[s][t][1]
<1>0. Near(s, t) \subseteq User
    BY NearSides
<1>1. Directed(s, t)'
    <2>1. Within(net[s][t], Near(s, t))
        BY DEF Pair, Directed
    <2>2. Within(Tail(net[s][t]), Near(s, t))
        BY <2>1, LinesShrink
    <2> QED BY <2>2 DEF Directed
<1>b. ~Greets(net'[s][t])
    BY FrameShrinks
<1>2. Gone(s, t)'
    BY <1>b DEF Pair, Gone
<1>a. ASSUME NEW u \in Near(s, t), Tells(m, chan[t].on, chan'[t].on)
      PROVE  Will(net'[s][t], u, u \in chan'[t].on) <=> Will(net[s][t], u, u \in chan[t].on)
    <2> DEFINE now == u \in chan[t].on
    <2>1. Will(net[s][t], u, now) <=>
               Will(Tail(net[s][t]), u, Adds(m, u) \/ (now /\ ~Drops(m, u)))
        <3> HIDE DEF now
        <3> QED BY WillShrinks
    <2>2. u \in chan'[t].on <=> Adds(m, u) \/ (u \in chan[t].on /\ ~Drops(m, u))
        BY <1>0, <1>a DEF Tells
    <2> HIDE DEF m
    <2>3. Will(net[s][t], u, u \in chan[t].on) <=>
               Will(Tail(net[s][t]), u, Adds(m, u) \/ (u \in chan[t].on /\ ~Drops(m, u)))
        BY <2>1
    <2> QED BY <2>2, <2>3 DEF Will
<1>3. ASSUME used' \subseteq {"PART", "o", "split"} PROVE Exact(s, t)'
    <2>1. Exact(s, t) /\ Tells(m, chan[t].on, chan'[t].on)
        BY <1>3 DEF Pair
    <2>2. Talks(s, t)' => Talks(s, t)
        BY <1>b DEF Talks
    <2> QED BY <1>a, <2>1, <2>2 DEF Exact
<1>4. ASSUME used' \subseteq {"PART", "KICK", "o"} PROVE Known(s, t)'
    <2>1. Known(s, t) /\ net'[t][s] = net[t][s] /\ Tells(m, chan[t].on, chan'[t].on)
        BY <1>4 DEF Pair
    <2> QED BY <1>a, <2>1 DEF Known
<1> QED BY <1>1, <1>2, <1>3, <1>4 DEF Pair

(* The same step seen from t.                                              *)
LEMMA PairBack ==
    ASSUME NEW s \in Server, NEW t \in Neighbour(s), Pair(t, s), Directed(s, t),
           used \subseteq used',
           net[s][t] \in Seq(Line), net[s][t] # << >>, s \in links[t], ~Greets(net[t][s]),
           net'[s][t] = Tail(net[s][t]), net'[t][s] = net[t][s], chan'[s].on = chan[s].on,
           chan'[t].on \subseteq chan[t].on \union About(net[s][t][1]),
           "h" \notin used' => Tells(net[s][t][1], chan[t].on, chan'[t].on),
           net[s][t][1].type = "KICK" => "KICK" \in used',
           t \in links'[s] <=> t \in links[s], s \in links'[t] <=> s \in links[t]
    PROVE  Pair(t, s)'
<1> DEFINE m == net[s][t][1]
<1>0. /\ Near(t, s) \intersect Near(s, t) = {} /\ Near(t, s) \subseteq User
      /\ About(m) \subseteq Near(s, t) /\ m \in Line
    <2>1. Near(t, s) \intersect Near(s, t) = {} /\ Near(t, s) \subseteq User
        BY NearSides
    <2>2. About(m) \subseteq Near(s, t)
        <3>1. Within(net[s][t], Near(s, t))
            BY DEF Directed
        <3> QED BY <3>1, LinesShrink
    <2>3. 1 \in 1..Len(net[s][t])
        BY EmptySeq
    <2> QED BY <2>1, <2>2, <2>3
<1>1. Directed(t, s)' /\ Gone(t, s)'
    BY DEF Pair, Directed, Gone
<1>2. ASSUME used' \subseteq {"PART", "o", "split"} PROVE Exact(t, s)'
    <2>1. Exact(t, s) /\ Tells(m, chan[t].on, chan'[t].on) /\ m.type # "KICK"
        BY <1>2 DEF Pair
    <2>2. ASSUME NEW u \in Near(t, s) PROVE u \in chan'[t].on <=> u \in chan[t].on
        <3>1. ~Adds(m, u) /\ ~Drops(m, u)
            BY <1>0, <2>1, AboutIs
        <3> QED BY <1>0, <2>1, <3>1 DEF Tells
    <2> QED BY <2>1, <2>2 DEF Exact, Talks
<1>3. ASSUME used' \subseteq {"PART", "KICK", "o"} PROVE Known(t, s)'
    <2>1. Known(t, s) /\ Tells(m, chan[t].on, chan'[t].on)
        BY <1>3 DEF Pair
    <2>2. ASSUME NEW u \in Near(t, s), u \in chan'[t].on
          PROVE  Will(net'[t][s], u, u \in chan'[s].on) \/ KickIn(net'[s][t], u)
        <3>1. ~Adds(m, u)
            BY <1>0, AboutIs
        <3>2. u \in chan[t].on /\ ~Drops(m, u)
            BY <1>0, <2>1, <2>2, <3>1 DEF Tells
        <3>3. Will(net[t][s], u, u \in chan[s].on) \/ KickIn(net[s][t], u)
            BY <2>1, <3>2 DEF Known
        <3>4. ~(m.type = "KICK" /\ m.user = u)
            BY <3>2 DEF Drops
        <3>5. KickIn(net[s][t], u) => KickIn(Tail(net[s][t]), u)
            BY <3>4, LinesShrink
        <3> QED BY <3>3, <3>5
    <2> QED BY <2>2 DEF Known
<1> QED BY <1>1, <1>2, <1>3 DEF Pair

(* s gives up the link: what it has left of its lines may arrive.          *)
LEMMA PairCut ==
    ASSUME NEW s \in Server, NEW t \in Neighbour(s), Pair(s, t), Pair(t, s), "split" \in used',
           used \subseteq used',
           NEW left, GivesUp(s, t, left), links \in [Server -> SUBSET Server],
           chan'[s].on = chan[s].on \ Near(t, s), chan'[t].on = chan[t].on
    PROVE  Pair(s, t)' /\ Pair(t, s)'
<1>0. /\ t \in Server /\ s # t /\ t \notin links'[s]
      /\ s \in links'[t] <=> s \in links[t]
    BY Neighbours DEF GivesUp
<1>1. Within(left, Near(s, t))
    <2>1. \A n \in 1..Len(left) :
             left[n].type = "EOF" \/ (n \in 1..Len(net[s][t]) /\ left[n] = net[s][t][n])
        BY DEF GivesUp, Left
    <2>2. \A m : m.type = "EOF" => About(m) = {}
        BY DEF About
    <2>3. Within(net[s][t], Near(s, t))
        BY DEF Pair, Directed
    <2> QED BY <2>1, <2>2, <2>3 DEF Within
<1>2. ~Greets(<< >>)
    BY DEF Greets
<1>3. Pair(s, t)'
    <2>1. Directed(s, t)'
        BY <1>1 DEF Directed, GivesUp
    <2>2. Gone(s, t)'
        BY DEF Gone
    <2>3. Exact(s, t)'
        BY <1>0 DEF Exact, Talks
    <2> QED BY <2>1, <2>2, <2>3 DEF Pair
<1>4. Pair(t, s)'
    <2>0. net'[t][s] = << >>
        BY DEF GivesUp
    <2>1. Directed(t, s)'
        BY <2>0, WithinEmpty DEF Directed
    <2>2. Gone(t, s)'
        BY <1>0, <1>2, <2>0 DEF Gone, Pair
    <2>3. ~Talks(t, s)'
        BY <1>0, <1>2, <2>0 DEF Talks
    <2>4. Exact(t, s)'
        BY <2>3 DEF Exact
    <2> QED BY <2>1, <2>2, <2>4 DEF Pair
<1> QED BY <1>3, <1>4

(* The first server to greet sends a burst: lines says what it holds.      *)
Bursts(lines, on) ==
    \/ lines = << >> /\ on = {}
    \/ \E m \in Line : /\ lines = << m >> /\ m.type = "SJOIN" /\ m.d.nicks \subseteq on
                       /\ "h" \notin used => m.d.nicks = on

(* A burst makes its reader hold whom the sender holds.                    *)
LEMMA BurstsWill ==
    ASSUME NEW lines, NEW on, Bursts(lines, on)
    PROVE  /\ \A S : on \subseteq S => Within(lines, S)
           /\ "h" \notin used => \A u : Will(lines, u, FALSE) <=> u \in on
           /\ lines \in Seq(Line) /\ Plain(lines)
<1>1. CASE lines = << >> /\ on = {}
    BY <1>1 DEF Within, Will, Plain
<1>2. ASSUME NEW m \in Line, lines = << m >>, m.type = "SJOIN", m.d.nicks \subseteq on,
             "h" \notin used => m.d.nicks = on
      PROVE  /\ \A S : on \subseteq S => Within(lines, S)
             /\ "h" \notin used => \A u : Will(lines, u, FALSE) <=> u \in on
             /\ lines \in Seq(Line) /\ Plain(lines)
    <2>1. lines \in Seq(Line) /\ Len(lines) = 1 /\ lines[1] = m
        BY <1>2
    <2>2. 1..1 = {1} /\ 1 + 1..1 = {}
        OBVIOUS
    <2>3. \A n \in 1..1 : n = 1
        BY <2>2
    <2>4. \A S : on \subseteq S => Within(lines, S)
        BY <1>2, <2>1, <2>3 DEF Within, About
    <2>5. \A u : Will(lines, u, FALSE) <=> Adds(m, u)
        BY <2>1, <2>2 DEF Will
    <2>6. Plain(lines)
        BY <1>2, <2>1, <2>3 DEF Plain
    <2> QED BY <1>2, <2>1, <2>4, <2>5, <2>6 DEF Adds
<1> QED BY <1>1, <1>2 DEF Bursts

(* s greets.                                                               *)
LEMMA PairGreets ==
    ASSUME NEW s \in Server, NEW t \in Neighbour(s), Pair(s, t), Pair(t, s),
           used' = used, "split" \in used,
           t \notin links[s], s \notin links[t], s \notin links'[t], NEW lines,
           net'[s][t] = << [type |-> "SERVER"] >> \o lines, net'[t][s] = net[t][s],
           Bursts(lines, chan[s].on),
           chan'[s].on = chan[s].on, chan'[t].on = chan[t].on, chan[s].on \subseteq User
    PROVE  Pair(s, t)' /\ Pair(t, s)'
<1>0. /\ Near(s, t) \subseteq User /\ Near(t, s) \subseteq User
      /\ Near(s, t) \union Near(t, s) = User /\ t \in Server
    BY NearSides
<1>1. chan[s].on \intersect Near(t, s) = {} /\ chan[t].on \intersect Near(s, t) = {}
    BY DEF Pair, Gone
<1>2. chan[s].on \subseteq Near(s, t)
    BY <1>0, <1>1
<1>3. /\ Within(lines, Near(s, t)) /\ lines \in Seq(Line) /\ Plain(lines)
      /\ "h" \notin used => \A u : Will(lines, u, FALSE) <=> u \in chan[s].on
    BY <1>2, BurstsWill
<1> DEFINE first == [type |-> "SERVER"]
           q == << first >> \o lines
<1>4. /\ q # << >> /\ Greets(q) /\ Tail(q) = lines /\ q[1] = first /\ q \in Seq(Line)
      /\ Len(q) = Len(lines) + 1 /\ Len(lines) \in Nat
      /\ \A n \in 1..Len(q) : q[n] = IF n = 1 THEN first ELSE lines[n - 1]
    <2>1. Greets(q) /\ Tail(q) = lines /\ Len(q) = Len(lines) + 1
          /\ \A n \in 1..Len(q) : q[n] = IF n = 1 THEN first ELSE lines[n - 1]
        BY <1>3, FrameStarts
    <2>2. first \in Line
        BY DEF Line, LinkMessage
    <2>3. << first >> \in Seq(Line)
        BY <2>2
    <2>4. q \in Seq(Line)
        BY <1>3, <2>3, ConcatProperties
    <2>5. 1 \in 1..Len(q)
        BY <1>3, <2>1
    <2> HIDE DEF first, q
    <2> QED BY <1>3, <2>1, <2>4, <2>5 DEF Greets
<1>5. About(first) = {} /\ \A u : ~Adds(first, u) /\ ~Drops(first, u)
    BY DEF About, Adds, Drops
<1>6. net'[s][t] = q
    OBVIOUS
<1> HIDE DEF first, q
<1>7. Directed(s, t)'
    <2>1. ASSUME NEW n \in 1..Len(q), n # 1 PROVE About(q[n]) \subseteq Near(s, t)
        <3>1. n - 1 \in 1..Len(lines)
            BY <1>4, <2>1
        <3> QED BY <1>3, <1>4, <2>1, <3>1 DEF Within
    <2>2. 1 \in 1..Len(q) => About(q[1]) \subseteq Near(s, t)
        BY <1>4, <1>5
    <2> QED BY <1>6, <2>1, <2>2 DEF Directed, Within
<1>8. Gone(s, t)' /\ Directed(t, s)' /\ Gone(t, s)'
    BY <1>1, <1>6 DEF Gone, Directed, Pair
<1>9. ASSUME "h" \notin used, NEW u \in Near(s, t)
      PROVE  Will(net'[s][t], u, u \in chan'[t].on) <=> u \in chan'[s].on
    <2>1. u \notin chan'[t].on
        BY <1>1, <1>9
    <2>2. Will(q, u, FALSE) <=> Will(lines, u, FALSE)
        <3>1. Will(q, u, FALSE) <=>
                Will(Tail(q), u, Adds(q[1], u) \/ (FALSE /\ ~Drops(q[1], u)))
            BY <1>4, WillShrinks
        <3> QED BY <1>4, <1>5, <3>1
    <2>3. (u \in chan'[t].on) = FALSE
        BY <2>1
    <2> QED BY <1>3, <1>6, <1>9, <2>2, <2>3
<1>10. "h" \notin used => Exact(s, t)'
    BY <1>9 DEF Exact
<1>11. Exact(t, s)'
    <2>1. net'[t][s] = net[t][s] /\ s \notin links'[t]
        OBVIOUS
    <2> QED BY <2>1 DEF Exact, Talks
<1> QED BY <1>7, <1>8, <1>10, <1>11 DEF Pair

(* t answers the greeting of s.                                            *)
LEMMA PairAnswers ==
    ASSUME NEW s \in Server, NEW t \in Neighbour(s), Pair(s, t), Pair(t, s),
           used' = used, "split" \in used,
           s \notin links[t], Greets(net[s][t]), NEW lines,
           net'[t][s] = lines, Bursts(lines, chan[t].on),
           chan'[s].on = chan[s].on, chan'[t].on = chan[t].on, chan[t].on \subseteq User,
           s \in links'[t]
    PROVE  Pair(t, s)'
<1>0. /\ Near(s, t) \subseteq User /\ Near(t, s) \subseteq User
      /\ Near(s, t) \union Near(t, s) = User /\ t \in Server
    BY NearSides
<1>1. chan[s].on \intersect Near(t, s) = {} /\ chan[t].on \intersect Near(s, t) = {}
    BY DEF Pair, Gone
<1>2. chan[t].on \subseteq Near(t, s)
    BY <1>0, <1>1
<1>3. /\ Within(lines, Near(t, s)) /\ Plain(lines) /\ lines \in Seq(Line)
      /\ "h" \notin used => \A u : Will(lines, u, FALSE) <=> u \in chan[t].on
    BY <1>2, BurstsWill
<1>4. ~Greets(lines)
    <2>1. lines # << >> => 1 \in 1..Len(lines)
        BY <1>3, EmptySeq
    <2> QED BY <1>3, <2>1 DEF Plain, Greets
<1>5. Directed(t, s)' /\ Gone(t, s)'
    BY <1>3, <1>4 DEF Directed, Gone
<1>6. ASSUME "h" \notin used, NEW u \in Near(t, s)
      PROVE  Will(net'[t][s], u, u \in chan'[s].on) <=> u \in chan'[t].on
    <2>1. (u \in chan'[s].on) = FALSE
        BY <1>1, <1>6
    <2> QED BY <1>3, <1>6, <2>1
<1>7. "h" \notin used => Exact(t, s)'
    BY <1>6 DEF Exact
<1> QED BY <1>5, <1>7 DEF Pair

-----------------------------------------------------------------------------
(* The steps, as far as the members go.                                    *)

(* A user of s has done something, and s tells its neighbours.             *)
Says(s, m) ==
    /\ s \in Server /\ m \in Message /\ About(m) \subseteq UsersOf({s})
    /\ m.type = "KICK" => "KICK" \in used'
    /\ Tells(m, chan[s].on, chan'[s].on)
    /\ \A x \in Server : x # s => chan'[x].on = chan[x].on
    /\ net' = Sent(s, {}, << m >>) /\ links' = links

(* t has read a line from s, and passes it on if it was news.              *)
Hears(s, t, m) ==
    /\ s \in Server /\ t \in Server /\ m = Head(net[s][t])
    /\ Arrives(s, t, m.type) /\ m.type \notin {"SERVER", "EOF"}
    /\ m.type = "KICK" => "KICK" \in used'
    /\ chan'[t].on \subseteq chan[t].on \union About(m)
    /\ "h" \notin used' => Tells(m, chan[t].on, chan'[t].on)
    /\ \A x \in Server : x # t => chan'[x].on = chan[x].on
    /\ links' = links
    /\ \/ net' = Taken(s, t, << >>) /\ chan'[t].on = chan[t].on
       \/ \E n \in Line :
            /\ net' = Taken(s, t, << n >>) /\ n.type = m.type /\ About(n) = About(m)
            /\ \A u \in User : (Adds(n, u) <=> Adds(m, u)) /\ (Drops(n, u) <=> Drops(m, u))

(* A step that touches neither end of a link keeps what is said of it.     *)
LEMMA PairSame ==
    ASSUME NEW s \in Server, NEW t \in Neighbour(s), Pair(s, t), used \subseteq used',
           chan'[s].on = chan[s].on, chan'[t].on = chan[t].on,
           net'[s][t] = net[s][t], net'[t][s] = net[t][s],
           t \in links'[s] <=> t \in links[s], s \in links'[t] <=> s \in links[t]
    PROVE  Pair(s, t)'
BY PairIn

(* A link is lost by a split only.                                         *)
LEMMA WholeStays ==
    ASSUME Whole, used \subseteq used', "split" \in used' \/ links' = links PROVE Whole'
BY DEF Whole

(* A line makes nobody a member it is not about.                           *)
LEMMA TellsBounds ==
    ASSUME NEW m, NEW before, NEW after, before \subseteq User, after \subseteq User,
           Tells(m, before, after), m \in Line
    PROVE  after \subseteq before \union About(m)
<1>1. \A u \in User : Adds(m, u) => u \in About(m)
    BY AboutIs
<1> QED BY <1>1 DEF Tells

(* A command of a local user keeps both ends of every link in step, ...    *)
LEMMA SaysOK ==
    ASSUME PairsOK, LinksTypeOK(Message), used \subseteq used', NEW s, NEW m, Says(s, m),
           \A x \in Server : chan[x].on \subseteq User /\ chan'[x].on \subseteq User
    PROVE  PairsOK'
<1>0. /\ s \in Server /\ m \in Message /\ m \in Line /\ links' = links
      /\ m.type \notin {"SERVER", "EOF"}
      /\ Tells(m, chan[s].on, chan'[s].on)
      /\ chan'[s].on \subseteq chan[s].on \union About(m)
    <2>1. s \in Server /\ m \in Message /\ links' = links /\ Tells(m, chan[s].on, chan'[s].on)
        BY DEF Says
    <2>2. m.type \notin {"SERVER", "EOF"} /\ m \in Line
        BY <2>1 DEF Message, Line
    <2> QED BY <2>1, <2>2, TellsBounds
<1>1. net \in Queues(Message) /\ LinksOK /\ Whole /\ \A x, y \in Server : net[x][y] \in Seq(Line)
    BY DEF LinksTypeOK, Queues, PairsOK, Line
<1>2. \A x, y \in Server :
        net'[x][y] = IF x = s /\ y \in links[x] THEN net[x][y] \o << m >> ELSE net[x][y]
    <2>1. \A x, y \in Server :
            Sent(s, {}, << m >>)[x][y] =
                IF x = s /\ y \in links[s] THEN net[x][y] \o << m >> ELSE net[x][y]
        BY <1>0, <1>1, SentAll
    <2> QED BY <2>1 DEF Says
<1>3. << m >> \in Seq(Message \union LinkMessage) /\ Plain(<< m >>) /\ << m >> \in Seq(Line)
    <2>1. Len(<< m >>) = 1 /\ << m >>[1] = m /\ \A n \in 1..1 : n = 1
        OBVIOUS
    <2>2. << m >> \in Seq(Message \union LinkMessage)
        BY <1>0
    <2> QED BY <1>0, <2>1, <2>2 DEF Plain, Line
<1>4. LinksOK'
    BY <1>0, <1>1, <1>3, SentOK DEF Says
<1>5. Whole'
    BY <1>0, <1>1, WholeStays
<1>6. ASSUME NEW x \in Server, NEW y \in Neighbour(x) PROVE Pair(x, y)'
    <2>0. /\ y \in Server /\ x # y /\ Pair(x, y) /\ Near(x, y) \subseteq User
          /\ Near(x, y) \intersect Near(y, x) = {}
          /\ UsersOf({x}) \subseteq Near(x, y) /\ UsersOf({y}) \subseteq Near(y, x)
        <3>1. y \in Server /\ x # y /\ x \in Neighbour(y)
            BY Neighbours
        <3> QED BY <3>1, NearSides DEF PairsOK
    <2>1. CASE x = s
        <3>1. net'[y][x] = net[y][x] /\ chan'[y].on = chan[y].on
            BY <1>2, <2>0, <2>1 DEF Says
        <3>2. net'[x][y] = IF y \in links[x] THEN net[x][y] \o << m >> ELSE net[x][y]
            BY <1>2, <2>0, <2>1
        <3>3. About(m) \subseteq Near(x, y)
            BY <2>0, <2>1 DEF Says
        <3>4. ASSUME "split" \notin used' PROVE y \in links[x]
            BY <1>1, <3>4 DEF Whole
        <3>5. Greets(net'[x][y]) <=> Greets(net[x][y])
            <4>1. y \in links[x] => ~Ends(net[x][y]) /\ Framed(net[x][y])
                BY <1>1, <2>0 DEF LinksOK, LinkOK
            <4> QED BY <1>1, <1>3, <2>0, <3>2, <4>1, FrameGrows
        <3>6. net[x][y] \in Seq(Line)
            BY <1>1, <2>0
        <3> QED BY <1>0, <2>0, <2>1, <3>1, <3>2, <3>3, <3>4, <3>5, <3>6, PairOut
    <2>2. CASE y = s
        <3>1. net'[x][y] = net[x][y] /\ chan'[x].on = chan[x].on
            BY <1>2, <2>0, <2>2 DEF Says
        <3>2. net'[y][x] = IF x \in links[y] THEN net[y][x] \o << m >> ELSE net[y][x]
            BY <1>2, <2>0, <2>2
        <3>3. ASSUME "split" \notin used' PROVE x \in links[y]
            <4>1. x \in Neighbour(y)
                BY Neighbours
            <4> QED BY <1>1, <2>0, <3>3, <4>1 DEF Whole
        <3>4. \A u : /\ KickIn(net[y][x], u) => KickIn(net'[y][x], u)
                     /\ x \in links[y] /\ m.type = "KICK" /\ m.user = u => KickIn(net'[y][x], u)
            <4>1. net[y][x] \in Seq(Line)
                BY <1>1, <2>0
            <4>2. \A u : KickIn(net[y][x], u) \/ (m.type = "KICK" /\ m.user = u)
                            => KickIn(net[y][x] \o << m >>, u)
                BY <1>0, <4>1, LinesGrow
            <4> QED BY <3>2, <4>2
        <3>5. ASSUME NEW u \in Near(x, y)
              PROVE  \/ u \in chan'[y].on <=> u \in chan[y].on
                     \/ "KICK" \in used' /\ ("split" \notin used' => KickIn(net'[y][x], u))
            <4>1. u \in User /\ u \notin About(m)
                BY <2>0, <2>2 DEF Says
            <4>2. CASE m.type = "KICK" /\ m.user = u
                BY <3>3, <3>4, <4>2 DEF Says
            <4>3. CASE ~(m.type = "KICK" /\ m.user = u)
                <5>1. ~Adds(m, u) /\ ~Drops(m, u)
                    BY <1>0, <4>1, <4>3, AboutIs
                <5> QED BY <1>0, <2>2, <4>1, <5>1 DEF Tells
            <4> QED BY <4>2, <4>3
        <3> QED BY <1>0, <2>0, <3>1, <3>4, <3>5, PairIn
    <2>3. CASE x # s /\ y # s
        <3>1. /\ net'[x][y] = net[x][y] /\ net'[y][x] = net[y][x]
              /\ chan'[x].on = chan[x].on /\ chan'[y].on = chan[y].on
            BY <1>2, <2>0, <2>3 DEF Says
        <3> QED BY <1>0, <2>0, <3>1, PairSame
    <2> QED BY <2>1, <2>2, <2>3
<1> QED BY <1>4, <1>5, <1>6 DEF PairsOK

(* ... and so does a line from a neighbour, passed on or not.              *)
LEMMA HearsOK ==
    ASSUME PairsOK, LinksTypeOK(Message), used \subseteq used', NEW s, NEW t, NEW m, Hears(s, t, m),
           \A x \in Server : chan[x].on \subseteq User /\ chan'[x].on \subseteq User
    PROVE  PairsOK'
<1>0. /\ s \in Server /\ t \in Server /\ links' = links
      /\ m.type \notin {"SERVER", "EOF"} /\ Arrives(s, t, m.type) /\ m = Head(net[s][t])
      /\ chan'[t].on \subseteq chan[t].on \union About(m)
      /\ "h" \notin used' => Tells(m, chan[t].on, chan'[t].on)
      /\ m.type = "KICK" => "KICK" \in used'
      /\ \A x \in Server : x # t => chan'[x].on = chan[x].on
    BY DEF Hears
<1>1. net \in Queues(Message) /\ LinksOK /\ Whole /\ \A x, y \in Server : net[x][y] \in Seq(Line)
    BY DEF LinksTypeOK, Queues, PairsOK, Line
<1>2. /\ s \in Neighbour(t) /\ t \in Neighbour(s) /\ s # t
      /\ net[s][t] \in Seq(Line) /\ net[s][t] # << >>
      /\ m = net[s][t][1] /\ LinkOK(s, t) /\ LinkOK(t, s) /\ s \in links[t]
    <2>1. s \in links[t]
        BY <1>0 DEF Arrives
    <2>2. /\ s \in Neighbour(t) /\ t \in Neighbour(s) /\ s # t
          /\ net[s][t] \in Seq(Message \union LinkMessage) /\ net[s][t] # << >>
          /\ Head(net[s][t]) = net[s][t][1] /\ LinkOK(s, t) /\ LinkOK(t, s)
        BY <1>0, <1>1, ArrivesFirst
    <2> QED BY <1>0, <2>1, <2>2 DEF Line
<1>3. /\ m \in Line /\ About(m) \subseteq Near(s, t) /\ Near(s, t) \subseteq User
      /\ Directed(s, t)
    <2>1. 1 \in 1..Len(net[s][t])
        BY <1>2, EmptySeq
    <2>2. Directed(s, t)
        BY <1>0, <1>2 DEF PairsOK, Pair
    <2>3. m \in Line
        BY <1>2, <2>1
    <2>4. About(m) \subseteq Near(s, t)
        BY <1>2, <2>1, <2>2 DEF Directed, Within
    <2>5. Near(s, t) \subseteq User
        BY <1>0, <1>2, NearSides
    <2> QED BY <2>2, <2>3, <2>4, <2>5
<1>a. ASSUME NEW lines \in Seq(Line), Plain(lines), net' = Taken(s, t, lines)
      PROVE  /\ LinksOK'
             /\ \A x, y \in Server :
                    net'[x][y] = IF x = s /\ y = t THEN Tail(net[s][t])
                                 ELSE IF x = t /\ y = s THEN net[t][s]
                                 ELSE IF x = t /\ y \in links[t] THEN net[x][y] \o lines
                                 ELSE net[x][y]
    <2>1. LinksOK'
        BY <1>0, <1>1, <1>a, TakenOK DEF Line
    <2>2. \A x, y \in Server :
               Taken(s, t, lines)[x][y] =
                   IF x = s /\ y = t THEN Tail(net[s][t])
                   ELSE IF x = t /\ y = s THEN net[t][s]
                   ELSE IF x = t /\ y \in links[t] THEN net[x][y] \o lines
                   ELSE net[x][y]
        BY <1>0, <1>1, <1>2, TakenIs
    <2> QED BY <1>a, <2>1, <2>2
<1>5. Whole'
    BY <1>0, <1>1, WholeStays
<1>6. ASSUME net'[s][t] = Tail(net[s][t]), net'[t][s] = net[t][s]
      PROVE  Pair(s, t)' /\ Pair(t, s)'
    <2>1. Pair(s, t) /\ Pair(t, s)
        BY <1>0, <1>2 DEF PairsOK
    <2>2. Framed(net[s][t]) /\ ~Greets(net[t][s])
        BY <1>2 DEF LinkOK
    <2>3. chan'[s].on = chan[s].on
        BY <1>0, <1>2
    <2>4. t \in links[s] /\ s \in links'[t] => Talks(s, t)
        BY <1>2 DEF Talks
    <2>5. Pair(s, t)'
        BY <1>0, <1>2, <1>6, <2>1, <2>2, <2>3, <2>4, PairTaken
    <2>6. Pair(t, s)'
        BY <1>0, <1>2, <1>3, <1>6, <2>1, <2>2, <2>3, PairBack
    <2> QED BY <2>5, <2>6
<1>7. CASE net' = Taken(s, t, << >>) /\ chan'[t].on = chan[t].on
    <2> DEFINE none == << >>
    <2>1. none \in Seq(Line) /\ Plain(none) /\ net' = Taken(s, t, none)
        BY <1>7 DEF Plain
    <2>2. \A q \in Seq(Line) : q \o none = q
        BY ConcatEmptySeq
    <2> HIDE DEF none
    <2>3. /\ LinksOK'
          /\ \A x, y \in Server :
                    net'[x][y] = IF x = s /\ y = t THEN Tail(net[s][t])
                                 ELSE IF x = t /\ y = s THEN net[t][s]
                                 ELSE IF x = t /\ y \in links[t] THEN net[x][y] \o none
                                 ELSE net[x][y]
        BY <1>a, <2>1
    <2>4. \A x, y \in Server : net'[x][y] = IF x = s /\ y = t THEN Tail(net[s][t]) ELSE net[x][y]
        BY <1>1, <2>2, <2>3
    <2>5. ASSUME NEW x \in Server, NEW y \in Neighbour(x) PROVE Pair(x, y)'
        <3>0. y \in Server /\ x # y /\ Pair(x, y)
            BY Neighbours DEF PairsOK
        <3>1. CASE (x = s /\ y = t) \/ (x = t /\ y = s)
            BY <1>0, <1>2, <1>6, <2>4, <3>1
        <3>2. CASE ~((x = s /\ y = t) \/ (x = t /\ y = s))
            <4>1. net'[x][y] = net[x][y] /\ net'[y][x] = net[y][x]
                BY <2>4, <3>0, <3>2
            <4>2. chan'[x].on = chan[x].on /\ chan'[y].on = chan[y].on
                BY <1>0, <1>7, <3>0
            <4> QED BY <1>0, <3>0, <4>1, <4>2, PairSame
        <3> QED BY <3>1, <3>2
    <2> QED BY <1>5, <2>3, <2>5 DEF PairsOK
<1>8. ASSUME NEW n \in Line, net' = Taken(s, t, << n >>), n.type = m.type, About(n) = About(m),
             \A u \in User : (Adds(n, u) <=> Adds(m, u)) /\ (Drops(n, u) <=> Drops(m, u))
      PROVE  PairsOK'
    <2>1. << n >> \in Seq(Line) /\ Plain(<< n >>)
        <3>1. Len(<< n >>) = 1 /\ << n >>[1] = n /\ \A i \in 1..1 : i = 1
            OBVIOUS
        <3> QED BY <1>0, <1>8, <3>1 DEF Plain
    <2>3. /\ LinksOK'
          /\ \A x, y \in Server :
                    net'[x][y] = IF x = s /\ y = t THEN Tail(net[s][t])
                                 ELSE IF x = t /\ y = s THEN net[t][s]
                                 ELSE IF x = t /\ y \in links[t] THEN net[x][y] \o << n >>
                                 ELSE net[x][y]
        BY <1>8, <1>a, <2>1
    <2>4. Pair(s, t)' /\ Pair(t, s)'
        BY <1>0, <1>2, <1>6, <2>3
    <2>5. /\ chan'[t].on \subseteq chan[t].on \union About(n)
          /\ "h" \notin used' => Tells(n, chan[t].on, chan'[t].on)
        BY <1>0, <1>8 DEF Tells
    <2>6. ASSUME NEW x \in Server, NEW y \in Neighbour(x) PROVE Pair(x, y)'
        <3>0. y \in Server /\ x # y /\ Pair(x, y) /\ x \in Neighbour(y)
            BY Neighbours DEF PairsOK
        <3>1. CASE (x = s /\ y = t) \/ (x = t /\ y = s)
            BY <2>4, <3>1
        <3>2. CASE x = t /\ y # s
            <4>1. net'[y][x] = net[y][x] /\ chan'[y].on = chan[y].on
                BY <1>0, <2>3, <3>0, <3>2
            <4>2. net'[x][y] = IF y \in links[x] THEN net[x][y] \o << n >> ELSE net[x][y]
                BY <2>3, <3>0, <3>2
            <4>3. About(n) \subseteq Near(x, y)
                <5>1. Near(s, t) \subseteq Near(t, y)
                    BY <1>0, <1>2, <3>0, <3>2, NearIs
                <5> QED BY <1>3, <1>8, <3>2, <5>1
            <4>4. ASSUME "split" \notin used' PROVE y \in links[x]
                BY <1>1, <4>4 DEF Whole
            <4>5. Greets(net'[x][y]) <=> Greets(net[x][y])
                <5>1. y \in links[x] => ~Ends(net[x][y]) /\ Framed(net[x][y])
                    BY <1>1, <3>0 DEF LinksOK, LinkOK
                <5> QED BY <1>1, <2>1, <3>0, <4>2, <5>1, FrameGrows
            <4>6. net[x][y] \in Seq(Line)
                BY <1>1, <3>0
            <4> QED BY <1>0, <1>8, <2>5, <3>0, <3>2, <4>1, <4>2, <4>3, <4>4, <4>5, <4>6, PairOut
        <3>3. CASE y = t /\ x # s
            <4>1. net'[x][y] = net[x][y] /\ chan'[x].on = chan[x].on
                BY <1>0, <2>3, <3>0, <3>3
            <4>2. net'[y][x] = IF x \in links[y] THEN net[y][x] \o << n >> ELSE net[y][x]
                BY <2>3, <3>0, <3>3
            <4>3. ASSUME "split" \notin used' PROVE x \in links[y]
                BY <1>1, <3>0, <4>3 DEF Whole
            <4>4. \A u : /\ KickIn(net[y][x], u) => KickIn(net'[y][x], u)
                         /\ x \in links[y] /\ n.type = "KICK" /\ n.user = u => KickIn(net'[y][x], u)
                <5>1. net[y][x] \in Seq(Line)
                    BY <1>1, <3>0
                <5>2. \A u : KickIn(net[y][x], u) \/ (n.type = "KICK" /\ n.user = u)
                                => KickIn(net[y][x] \o << n >>, u)
                    BY <1>8, <5>1, LinesGrow
                <5> QED BY <4>2, <5>2
            <4>5. Near(s, t) \intersect Near(x, y) = {} /\ Near(x, y) \subseteq User
                <5>1. Near(s, t) \intersect Near(x, t) = {}
                    BY <1>0, <1>2, <3>0, <3>3, NearIs
                <5> QED BY <3>0, <3>3, <5>1, NearSides
            <4>6. ASSUME NEW u \in Near(x, y)
                  PROVE  \/ (u \in chan'[y].on <=> u \in chan[y].on) \/ "h" \in used'
                         \/ "KICK" \in used' /\ ("split" \notin used' => KickIn(net'[y][x], u))
                <5>1. u \in User /\ u \notin About(n) /\ ~Adds(n, u)
                    BY <1>3, <1>8, <4>5, AboutIs
                <5>2. CASE n.type = "KICK" /\ n.user = u
                    BY <1>0, <1>8, <4>3, <4>4, <5>2
                <5>3. CASE ~(n.type = "KICK" /\ n.user = u)
                    <6>1. ~Adds(n, u) /\ ~Drops(n, u)
                        BY <1>8, <5>1, <5>3, AboutIs
                    <6>2. "h" \notin used' => (u \in chan'[t].on <=> u \in chan[t].on)
                        BY <2>5, <5>1, <6>1 DEF Tells
                    <6> QED BY <3>3, <6>2
                <5> QED BY <5>2, <5>3
            <4> QED BY <1>0, <3>0, <4>1, <4>4, <4>6, PairIn
        <3>4. CASE x # t /\ y # t
            <4>1. /\ net'[x][y] = net[x][y] /\ net'[y][x] = net[y][x]
                  /\ chan'[x].on = chan[x].on /\ chan'[y].on = chan[y].on
                BY <1>0, <2>3, <3>0, <3>4
            <4> QED BY <1>0, <3>0, <4>1, PairSame
        <3> QED BY <3>0, <3>1, <3>2, <3>3, <3>4
    <2> QED BY <1>5, <2>3, <2>6 DEF PairsOK
<1> QED BY <1>7, <1>8 DEF Hears

(* Who loses a link removes what was behind it, and tells the others.      *)
LEMMA GivesUpPairs ==
    ASSUME PairsOK, LinksTypeOK(Message), used \subseteq used', "split" \in used',
           NEW s, NEW t, NEW left, GivesUp(s, t, left),
           chan'[s].on = chan[s].on \ Near(t, s),
           \A x \in Server : x # s => chan'[x].on = chan[x].on,
           \A x \in Server : chan[x].on \subseteq User
    PROVE  PairsOK'
<1> DEFINE m == [type |-> "SQUIT", lost |-> Behind(s, t)]
<1>0. /\ s \in Server /\ t \in Neighbour(s) /\ t \in Server /\ s # t /\ t \in links[s]
      /\ links \in [Server -> SUBSET Server]
      /\ Near(t, s) \subseteq User /\ s \in Neighbour(t)
    <2>1. s \in Server /\ t \in Neighbour(s) /\ t \in links[s]
        BY DEF GivesUp
    <2>2. t \in Server /\ s # t /\ Near(t, s) \subseteq User
        BY <2>1, NearSides
    <2> QED BY <2>1, <2>2, Neighbours DEF LinksTypeOK
<1>1. /\ m \in Line /\ About(m) = Near(t, s) /\ m.type = "SQUIT"
      /\ \A u \in User : ~Adds(m, u) /\ (Drops(m, u) <=> u \in Near(t, s))
    <2>1. m \in LinkMessage /\ m.lost = Behind(s, t) /\ m.type = "SQUIT"
        BY BehindType DEF LinkMessage
    <2> HIDE DEF m
    <2>2. About(m) = Near(t, s)
        BY <2>1 DEF About, Near
    <2>3. \A u \in User : ~Adds(m, u) /\ (Drops(m, u) <=> u \in Near(t, s))
        BY <2>1 DEF Adds, Drops, Near, UsersOf
    <2> QED BY <2>1, <2>2, <2>3 DEF Line
<1>2. \A x, y \in Server :
          ~(x = s /\ y = t) /\ ~(x = t /\ y = s) =>
              net'[x][y] = IF x = s /\ y \in links[s] THEN net[x][y] \o << m >> ELSE net[x][y]
    BY DEF GivesUp
<1> HIDE DEF m
<1>3. LinksOK /\ \A x, y \in Server : net[x][y] \in Seq(Line)
    BY DEF LinksTypeOK, PairsOK, Line
<1>4. LinksOK'
    BY <1>3, GivesUpOK
<1>5. Whole'
    BY DEF Whole
<1>6. Tells(m, chan[s].on, chan'[s].on)
    BY <1>1 DEF Tells
<1>7. << m >> \in Seq(Line) /\ Plain(<< m >>)
    <2>1. Len(<< m >>) = 1 /\ << m >>[1] = m /\ \A i \in 1..1 : i = 1
        OBVIOUS
    <2> QED BY <1>1, <2>1 DEF Plain
<1>8. \A x, y \in Server : ~(x = s /\ y = t) => (y \in links'[x] <=> y \in links[x])
    BY <1>0 DEF GivesUp
<1>9. Pair(s, t)' /\ Pair(t, s)'
    <2>1. Pair(s, t) /\ Pair(t, s)
        BY <1>0 DEF PairsOK
    <2>2. chan'[t].on = chan[t].on
        BY <1>0
    <2> QED BY <1>0, <2>1, <2>2, PairCut
<1>10. ASSUME NEW x \in Server, NEW y \in Neighbour(x) PROVE Pair(x, y)'
    <2>0. y \in Server /\ x # y /\ Pair(x, y) /\ x \in Neighbour(y)
        BY Neighbours DEF PairsOK
    <2>1. CASE (x = s /\ y = t) \/ (x = t /\ y = s)
        BY <1>9, <2>1
    <2>2. CASE x = s /\ y # t
        <3>1. net'[y][x] = net[y][x] /\ chan'[y].on = chan[y].on
            BY <1>0, <1>2, <2>0, <2>2
        <3>2. net'[x][y] = IF y \in links[x] THEN net[x][y] \o << m >> ELSE net[x][y]
            BY <1>0, <1>2, <2>0, <2>2
        <3>3. About(m) \subseteq Near(x, y)
            <4>1. Near(t, s) \subseteq Near(s, y)
                BY <1>0, <2>0, <2>2, NearIs
            <4> QED BY <1>1, <2>2, <4>1
        <3>5. Greets(net'[x][y]) <=> Greets(net[x][y])
            <4>1. y \in links[x] => ~Ends(net[x][y]) /\ Framed(net[x][y])
                BY <1>3, <2>0 DEF LinksOK, LinkOK
            <4> QED BY <1>3, <1>7, <2>0, <3>2, <4>1, FrameGrows
        <3>6. net[x][y] \in Seq(Line)
            BY <1>3, <2>0
        <3>7. (y \in links'[x] <=> y \in links[x]) /\ (x \in links'[y] <=> x \in links[y])
            BY <1>0, <1>8, <2>0, <2>2
        <3> QED BY <1>1, <1>6, <2>0, <2>2, <3>1, <3>2, <3>3, <3>5, <3>6, <3>7, PairOut
    <2>3. CASE y = s /\ x # t
        <3>1. net'[x][y] = net[x][y] /\ chan'[x].on = chan[x].on
            BY <1>0, <1>2, <2>0, <2>3
        <3>2. Near(t, s) \intersect Near(x, y) = {}
            <4>1. Near(t, s) \intersect Near(x, s) = {}
                BY <1>0, <2>0, <2>3, NearIs
            <4> QED BY <2>3, <4>1
        <3>3. \A u \in Near(x, y) : u \in chan'[y].on <=> u \in chan[y].on
            BY <2>3, <3>2
        <3>7. (y \in links'[x] <=> y \in links[x]) /\ (x \in links'[y] <=> x \in links[y])
            BY <1>0, <1>8, <2>0, <2>3
        <3> QED BY <2>0, <3>1, <3>3, <3>7, PairIn
    <2>4. CASE x # s /\ y # s
        <3>1. /\ net'[x][y] = net[x][y] /\ net'[y][x] = net[y][x]
              /\ chan'[x].on = chan[x].on /\ chan'[y].on = chan[y].on
            BY <1>2, <2>0, <2>4
        <3>7. (y \in links'[x] <=> y \in links[x]) /\ (x \in links'[y] <=> x \in links[y])
            BY <1>8, <2>0, <2>4
        <3> QED BY <2>0, <3>1, <3>7, PairSame
    <2> QED BY <2>1, <2>2, <2>3, <2>4
<1> QED BY <1>4, <1>5, <1>10 DEF PairsOK

(* Two neighbours, s and t, have done something to their link, and no view *)
(* has changed.                                                            *)
LEMMA OnePair ==
    ASSUME PairsOK, used' = used, "split" \in used, LinksOK',
           NEW s \in Server, NEW t \in Neighbour(s),
           \A x \in Server : chan'[x].on = chan[x].on,
           \A x, y \in Server : ~(x = s /\ y = t) /\ ~(x = t /\ y = s) =>
               net'[x][y] = net[x][y] /\ (y \in links'[x] <=> y \in links[x]),
           Pair(s, t)', Pair(t, s)'
    PROVE  PairsOK'
<1>1. Whole'
    BY DEF Whole
<1>2. ASSUME NEW x \in Server, NEW y \in Neighbour(x) PROVE Pair(x, y)'
    <2>0. y \in Server /\ x # y /\ Pair(x, y)
        BY Neighbours DEF PairsOK
    <2>1. CASE (x = s /\ y = t) \/ (x = t /\ y = s)
        BY <2>1
    <2>2. CASE ~((x = s /\ y = t) \/ (x = t /\ y = s))
        <3>1. /\ net'[x][y] = net[x][y] /\ net'[y][x] = net[y][x]
              /\ chan'[x].on = chan[x].on /\ chan'[y].on = chan[y].on
              /\ y \in links'[x] <=> y \in links[x]
              /\ x \in links'[y] <=> x \in links[y]
            BY <2>0, <2>2
        <3> QED BY <2>0, <3>1, PairSame
    <2> QED BY <2>1, <2>2
<1> QED BY <1>1, <1>2 DEF PairsOK

(* Where a link is not up at both ends, there has been a split.            *)
LEMMA HasSplit ==
    ASSUME Whole, NEW s \in Server, NEW t \in Neighbour(s), t \notin links[s]
    PROVE  "split" \in used
BY DEF Whole

(* The end of a link that was lost here already.                           *)
LEMMA EofPairs ==
    ASSUME PairsOK, LinksTypeOK(Message), used' = used, NEW s \in Server, NEW t \in Server,
           EofLink(s, t), s \notin links[t], \A x \in Server : chan'[x].on = chan[x].on
    PROVE  PairsOK'
<1>1. LinksOK /\ Whole /\ LinksOK'
    BY EofOK DEF PairsOK
<1>2. /\ links' = links /\ net'[s][t] = << >> /\ t \notin links[s] /\ t \in Neighbour(s)
      /\ \A x, y \in Server : ~(x = s /\ y = t) => net'[x][y] = net[x][y]
    BY <1>1, EofIs
<1>3. "split" \in used /\ s \in Neighbour(t) /\ s # t
    BY <1>1, <1>2, HasSplit, Neighbours
<1>4. Pair(s, t) /\ Pair(t, s)
    BY <1>2, <1>3 DEF PairsOK
<1>5. Pair(s, t)'
    <2>1. Directed(s, t)'
        BY <1>2, WithinEmpty DEF Directed
    <2>2. Gone(s, t)'
        BY <1>2, <1>4 DEF Gone, Pair
    <2>3. Exact(s, t)'
        BY <1>2 DEF Exact, Talks
    <2> QED BY <1>3, <2>1, <2>2, <2>3 DEF Pair
<1>6. Pair(t, s)'
    <2>1. net'[t][s] = net[t][s]
        BY <1>2, <1>3
    <2>2. chan'[s].on = chan[s].on /\ chan'[t].on = chan[t].on
        OBVIOUS
    <2>3. Directed(t, s)' /\ Gone(t, s)' /\ (Exact(t, s) => Exact(t, s)')
        BY <1>2, <1>4, <2>1, <2>2 DEF Pair, Directed, Gone, Exact, Talks
    <2> QED BY <1>3, <1>4, <2>3 DEF Pair
<1> QED BY <1>1, <1>2, <1>3, <1>5, <1>6, OnePair

(* A link is made again: one server greets with a burst, ...               *)
LEMMA EstabPairs ==
    ASSUME PairsOK, LinksTypeOK(Message), used' = used, NEW s \in Server, NEW t \in Server,
           NEW lines \in Seq(Message), EstabLink(s, t, lines), Bursts(lines, chan[s].on),
           \A x \in Server : chan'[x].on = chan[x].on /\ chan[x].on \subseteq User
    PROVE  PairsOK'
<1>0. Plain(lines)
    BY BurstsWill
<1>1. LinksOK /\ Whole /\ LinksOK'
    BY <1>0, EstabOK DEF PairsOK
<1>2. /\ t \in Neighbour(s) /\ s # t /\ t \notin links[s] /\ s \notin links[t]
      /\ net[s][t] = << >> /\ net[t][s] = << >>
      /\ net'[s][t] = << [type |-> "SERVER"] >> \o lines
      /\ \A x, y \in Server : ~(x = s /\ y = t) => net'[x][y] = net[x][y]
      /\ \A x \in Server : links'[x] = IF x = s THEN links[s] \union {t} ELSE links[x]
    BY <1>1, EstabIs
<1>3. "split" \in used /\ s \in Neighbour(t)
    BY <1>1, <1>2, HasSplit, Neighbours
<1>4. Pair(s, t) /\ Pair(t, s)
    BY <1>2, <1>3 DEF PairsOK
<1>5. s \notin links'[t] /\ net'[t][s] = net[t][s]
    BY <1>2
<1>6. Pair(s, t)' /\ Pair(t, s)'
    BY <1>2, <1>3, <1>4, <1>5, PairGreets
<1>7. \A x, y \in Server : ~(x = s /\ y = t) => (y \in links'[x] <=> y \in links[x])
    BY <1>2
<1> QED BY <1>1, <1>2, <1>3, <1>6, <1>7, OnePair

(* ... and the other one answers with its own.                             *)
LEMMA ServerPairs ==
    ASSUME PairsOK, LinksTypeOK(Message), used' = used, NEW s \in Server, NEW t \in Server,
           NEW lines \in Seq(Message), ServerLink(s, t, lines), Bursts(lines, chan[t].on),
           \A x \in Server : chan'[x].on = chan[x].on /\ chan[x].on \subseteq User
    PROVE  PairsOK'
<1>0. Plain(lines)
    BY BurstsWill
<1>1. LinksOK /\ Whole /\ LinksOK' /\ \A x, y \in Server : net[x][y] \in Seq(Line)
    BY <1>0, ServerOK DEF PairsOK, LinksTypeOK, Line
<1>2. /\ t \in Neighbour(s) /\ s \in Neighbour(t) /\ s # t
      /\ s \notin links[t] /\ net[t][s] = << >>
      /\ Greets(net[s][t]) /\ net'[s][t] = Tail(net[s][t])
      /\ net'[t][s] = << >> \o lines
      /\ \A x, y \in Server :
           ~(x = s /\ y = t) /\ ~(x = t /\ y = s) => net'[x][y] = net[x][y]
      /\ \A x \in Server : links'[x] = IF x = t THEN links[t] \union {s} ELSE links[x]
    BY <1>1, ServerIs
<1>3. "split" \in used /\ net'[t][s] = lines
    <2>1. << >> \o lines = lines
        OBVIOUS
    <2> QED BY <1>1, <1>2, <2>1, HasSplit
<1>4. Pair(s, t) /\ Pair(t, s)
    BY <1>2 DEF PairsOK
<1>5. s \in links'[t] /\ (t \in links'[s] <=> t \in links[s])
    BY <1>2
<1>6. Pair(t, s)'
    BY <1>2, <1>3, <1>4, <1>5, PairAnswers
<1>7. Pair(s, t)'
    <2>1. net[s][t] \in Seq(Line) /\ net[s][t] # << >> /\ net[s][t][1].type = "SERVER"
        BY <1>1, <1>2 DEF Greets
    <2>2. Framed(net[s][t])
        BY <1>1, <1>2 DEF LinksOK, LinkOK
    <2>3. Tells(net[s][t][1], chan[t].on, chan'[t].on)
        BY <2>1 DEF Tells, Adds, Drops
    <2>4. t \in links[s] => Talks(s, t)
        BY <1>2 DEF Talks
    <2> QED BY <1>2, <1>3, <1>4, <1>5, <2>1, <2>2, <2>3, <2>4, PairTaken
<1>8. \A x, y \in Server : ~(x = t /\ y = s) => (y \in links'[x] <=> y \in links[x])
    BY <1>2
<1> QED BY <1>1, <1>2, <1>3, <1>6, <1>7, <1>8, OnePair

-----------------------------------------------------------------------------
(* Every action is one of these steps.                                     *)

(* Whom Remove leaves.                                                     *)
LEMMA RemoveOn ==
    ASSUME NEW c \in Channel, NEW S PROVE Remove(c, S).on = c.on \ S
BY DEF Remove, NoChannel, Channel

(* MODE removes nobody.                                                    *)
LEMMA ChangeOn ==
    ASSUME NEW c \in Channel, NEW u, NEW flag, NEW add PROVE Change(c, u, flag, add).on = c.on
BY DEF Change, Channel

(* A burst names all members, unless a halfop has garbled it.              *)
LEMMA BurstsIs ==
    ASSUME NEW c, ViewOK(c, granted, used), NEW lines \in BurstLines(c)
    PROVE  Bursts(lines, c.on) /\ lines \in Seq(Message)
<1>0. c \in Channel /\ c.on \subseteq User
    BY DEF ViewOK, Channel
<1>1. CASE ~c.exists
    BY <1>1 DEF BurstLines, Bursts, ViewOK
<1>2. CASE c.exists
    <2>1. PICK nicks \in BurstNicks(c) :
            lines = << [type |-> "SJOIN",
                d |-> [ts |-> c.ts, named |-> TRUE, modes |-> c.modes, nicks |-> nicks,
                       prefix |-> [x \in User |->
                           IF x \in nicks THEN c.flags[x] \ {"d"} ELSE {}]]] >>
        BY <1>2 DEF BurstLines
    <2> DEFINE m == [type |-> "SJOIN",
                d |-> [ts |-> c.ts, named |-> TRUE, modes |-> c.modes, nicks |-> nicks,
                       prefix |-> [x \in User |->
                           IF x \in nicks THEN c.flags[x] \ {"d"} ELSE {}]]]
    <2>2. lines = << m >> /\ m.type = "SJOIN" /\ m.d.nicks = nicks
        BY <2>1
    <2>3. lines \in Seq(Lines(granted, used))
        BY BurstOK
    <2>4. m \in Message
        <3> HIDE DEF m
        <3>1. Len(lines) = 1 /\ lines[1] = m /\ 1 \in 1..1
            BY <2>2
        <3>2. m \in Lines(granted, used)
            BY <2>3, <3>1
        <3> QED BY <3>2 DEF Lines
    <2>5. nicks \subseteq c.on
        BY <2>1 DEF BurstNicks
    <2>6. ASSUME "h" \notin used PROVE nicks = c.on
        <3> DEFINE garbled == {u \in c.on : "h" \in c.flags[u]}
        <3>1. garbled = {}
            BY <1>0, <2>6 DEF ViewOK, HalfopsOK
        <3>2. Cardinality(garbled) = 0 /\ Cardinality({}) = 0
            BY <3>1, FS_EmptySet
        <3>3. PICK F \in SUBSET (c.on \ garbled) :
                 Cardinality(F) <= Cardinality(garbled) /\ nicks = c.on \ (garbled \union F)
            BY <2>1 DEF BurstNicks
        <3> HIDE DEF garbled
        <3>4. IsFiniteSet(F)
            <4>1. F \subseteq User
                BY <1>0, <3>3
            <4> QED BY <4>1, FS_Subset, NetAssumption
        <3>5. Cardinality(F) = 0
            <4>1. Cardinality(F) \in Nat
                BY <3>4, FS_CardinalityType
            <4> QED BY <3>2, <3>3, <4>1
        <3>6. F = {}
            BY <3>4, <3>5, FS_EmptySet
        <3> QED BY <3>1, <3>3, <3>6
    <2> HIDE DEF m
    <2> QED BY <2>2, <2>4, <2>5, <2>6 DEF Bursts, Line
<1> QED BY <1>1, <1>2

(* At the start nobody is on the channel anywhere.                         *)
LEMMA PairsInit == Init => PairsOK
<1> SUFFICES ASSUME Init PROVE PairsOK
    OBVIOUS
<1>1. LinksOK
    BY LinksInitOK DEF Init
<1>2. /\ \A x, y \in Server : net[x][y] = << >>
      /\ \A x \in Server : links[x] = Neighbour(x) /\ chan[x].on = {}
    BY DEF Init, LinksInit, NoChannel
<1>3. ASSUME NEW x \in Server, NEW y \in Neighbour(x) PROVE Pair(x, y)
    <2>1. y \in Server /\ net[x][y] = << >> /\ chan[x].on = {} /\ chan[y].on = {}
        BY <1>2, Neighbours
    <2>2. Directed(x, y)
        BY <2>1, WithinEmpty DEF Directed
    <2>3. Gone(x, y) /\ Known(x, y)
        BY <2>1 DEF Gone, Known
    <2>4. Exact(x, y)
        BY <2>1 DEF Exact, Will
    <2> QED BY <2>2, <2>3, <2>4 DEF Pair
<1> QED BY <1>1, <1>2, <1>3 DEF PairsOK, Whole

(* One step for each command, each line, and each event of a link.         *)
LEMMA PairsNext == IInv /\ PairsOK /\ [Next]_vars => PairsOK'
<1> SUFFICES ASSUME IInv, PairsOK, [Next]_vars PROVE PairsOK'
    OBVIOUS
<1>1. IInv'
    BY IInvNext
<1>2. /\ chan \in [Server -> Channel] /\ home \in [User -> Server]
      /\ \A s \in Server : ViewOK(chan[s], granted, used) /\ chan[s] \in Channel
      /\ \A x \in Server : chan[x].on \subseteq User /\ chan'[x].on \subseteq User
      /\ LinksTypeOK(Lines(granted, used))
    BY <1>1, NetAssumption DEF IInv, Channel
<1>3. LinksTypeOK(Message)
    <2>1. Lines(granted, used) \union LinkMessage \subseteq Message \union LinkMessage
        BY DEF Lines
    <2>2. \A x, y \in Server : net[x][y] \in Seq(Message \union LinkMessage)
        BY <1>2, <2>1, SeqMonotonic DEF LinksTypeOK
    <2> QED BY <1>2, <2>2 DEF LinksTypeOK
<1>a. ASSUME NEW s, NEW m, used \subseteq used', Says(s, m) PROVE PairsOK'
    BY <1>2, <1>3, <1>a, SaysOK
<1>b. ASSUME NEW s, NEW t, NEW m, used \subseteq used', Hears(s, t, m) PROVE PairsOK'
    BY <1>2, <1>3, <1>b, HearsOK
<1>c. ASSUME NEW s \in Server, NEW v, chan' = [chan EXCEPT ![s] = v]
      PROVE  chan'[s] = v /\ \A x \in Server : x # s => chan'[x] = chan[x]
    BY <1>2, <1>c
<1>4. ASSUME NEW x \in User, JoinNew(x) PROVE PairsOK'
    <2> DEFINE s == home[x]
    <2>1. PICK now \in Stamp :
         /\ chan' = [chan EXCEPT ![s] =
                [exists |-> TRUE, ts |-> now, modes |-> CreationModes,
                 on |-> {x}, flags |-> Solo(x, {"o"})]]
         /\ net' = Sent(s, {}, << [type |-> "SJOIN",
                d |-> [ts |-> now, named |-> TRUE, modes |-> CreationModes,
                       nicks |-> {x}, prefix |-> Solo(x, {"o"})]] >>)
        BY <1>4 DEF JoinNew
    <2> DEFINE d == [ts |-> now, named |-> TRUE, modes |-> CreationModes,
                     nicks |-> {x}, prefix |-> Solo(x, {"o"})]
               m == [type |-> "SJOIN", d |-> d]
    <2>2. s \in Server /\ chan[s].on = {} /\ links' = links /\ used' = used
        BY <1>2, <1>4 DEF JoinNew, ViewOK
    <2>3. chan'[s].on = {x} /\ \A y \in Server : y # s => chan'[y].on = chan[y].on
        <3> DEFINE v == [exists |-> TRUE, ts |-> now, modes |-> CreationModes,
                         on |-> {x}, flags |-> Solo(x, {"o"})]
        <3>1. chan' = [chan EXCEPT ![s] = v] /\ v.on = {x}
            BY <2>1
        <3> HIDE DEF v
        <3> QED BY <1>c, <2>2, <3>1
    <2>4. m \in Message /\ m.type = "SJOIN" /\ m.d.nicks = {x}
        <3>1. now \in Nat /\ CreationModes \subseteq Mode
            BY NetAssumption
        <3>2. Solo(x, {"o"}) \in [User -> SUBSET Prefix]
            BY DEF Solo, Prefix
        <3>3. d \in Description
            BY <3>1, <3>2 DEF Description
        <3> QED BY <3>3 DEF Message
    <2>5. net' = Sent(s, {}, << m >>)
        BY <2>1
    <2> HIDE DEF m
    <2>6. About(m) \subseteq UsersOf({s}) /\ Tells(m, {}, {x})
        BY <2>4 DEF About, UsersOf, Tells, Adds
    <2>7. Says(s, m)
        BY <2>2, <2>3, <2>4, <2>5, <2>6 DEF Says
    <2> QED BY <1>a, <2>2, <2>7
<1>5. ASSUME NEW x \in User, JoinExisting(x) PROVE PairsOK'
    <2> DEFINE s == home[x]
               d == [ts |-> chan[s].ts, named |-> TRUE, modes |-> {},
                     nicks |-> {x}, prefix |-> NoFlags]
               m == [type |-> "SJOIN", d |-> d]
    <2>2. /\ s \in Server /\ links' = links /\ used' = used
          /\ chan' = [chan EXCEPT ![s].on = chan[s].on \union {x}]
          /\ net' = Sent(s, {}, << m >>)
        BY <1>2, <1>5 DEF JoinExisting, history
    <2>3. chan'[s].on = chan[s].on \union {x} /\ \A y \in Server : y # s => chan'[y].on = chan[y].on
        BY <1>2, <2>2 DEF Channel
    <2>4. m \in Message /\ m.type = "SJOIN" /\ m.d.nicks = {x}
        <3>1. chan[s].ts \in Nat
            BY <1>2, <2>2 DEF Channel
        <3>2. NoFlags \in [User -> SUBSET Prefix]
            BY DEF NoFlags
        <3>3. d \in Description
            BY <3>1, <3>2 DEF Description
        <3> QED BY <3>3 DEF Message
    <2> HIDE DEF m
    <2>6. About(m) \subseteq UsersOf({s}) /\ Tells(m, chan[s].on, chan'[s].on)
        BY <2>3, <2>4 DEF About, UsersOf, Tells, Adds, Drops
    <2>7. Says(s, m)
        BY <2>2, <2>3, <2>4, <2>6 DEF Says
    <2> QED BY <1>a, <2>2, <2>7
<1>6. ASSUME NEW x \in User, Part(x) PROVE PairsOK'
    <2> DEFINE s == home[x]
               m == [type |-> "PART", user |-> x]
    <2>2. /\ s \in Server /\ links' = links /\ used \subseteq used'
          /\ chan' = [chan EXCEPT ![s] = Remove(chan[s], {x})]
          /\ net' = Sent(s, {}, << m >>)
        BY <1>2, <1>6 DEF Part, Use
    <2>3. chan'[s].on = chan[s].on \ {x} /\ \A y \in Server : y # s => chan'[y].on = chan[y].on
        BY <1>2, <1>c, <2>2, RemoveOn
    <2>4. m \in Message /\ m.type = "PART" /\ m.user = x
        BY DEF Message
    <2> HIDE DEF m
    <2>6. About(m) \subseteq UsersOf({s}) /\ Tells(m, chan[s].on, chan'[s].on)
        BY <2>3, <2>4 DEF About, UsersOf, Tells, Adds, Drops
    <2>7. Says(s, m)
        BY <2>2, <2>3, <2>4, <2>6 DEF Says
    <2> QED BY <1>a, <2>2, <2>7
<1>7. ASSUME NEW by \in User, NEW x \in User, Kick(by, x) PROVE PairsOK'
    <2> DEFINE s == home[by]
               m == [type |-> "KICK", by |-> by, user |-> x]
    <2>2. /\ s \in Server /\ links' = links /\ used \subseteq used' /\ "KICK" \in used'
          /\ chan' = [chan EXCEPT ![s] = Remove(chan[s], {x})]
          /\ net' = Sent(s, {}, << m >>)
        BY <1>2, <1>7 DEF Kick, Use
    <2>3. chan'[s].on = chan[s].on \ {x} /\ \A y \in Server : y # s => chan'[y].on = chan[y].on
        BY <1>2, <1>c, <2>2, RemoveOn
    <2>4. m \in Message /\ m.type = "KICK" /\ m.user = x
        BY DEF Message
    <2> HIDE DEF m
    <2>6. About(m) \subseteq UsersOf({s}) /\ Tells(m, chan[s].on, chan'[s].on)
        BY <2>3, <2>4 DEF About, UsersOf, Tells, Adds, Drops
    <2>7. Says(s, m)
        BY <2>2, <2>3, <2>4, <2>6 DEF Says
    <2> QED BY <1>a, <2>2, <2>7
<1>8. ASSUME NEW by \in User, NEW x \in User, NEW flag \in Prefix, NEW add \in BOOLEAN,
             ModeChange(by, x, flag, add)
      PROVE  PairsOK'
    <2> DEFINE s == home[by]
               m == [type |-> "MODE", by |-> by, user |-> x, flag |-> flag, add |-> add]
    <2>2. /\ s \in Server /\ links' = links /\ used \subseteq used'
          /\ chan' = [chan EXCEPT ![s] = Change(chan[s], x, flag, add)]
          /\ net' = Sent(s, {}, << m >>)
        BY <1>2, <1>8 DEF ModeChange, Use
    <2>3. chan'[s].on = chan[s].on /\ \A y \in Server : y # s => chan'[y].on = chan[y].on
        BY <1>2, <1>c, <2>2, ChangeOn
    <2>4. m \in Message /\ m.type = "MODE"
        BY DEF Message
    <2> HIDE DEF m
    <2>6. About(m) \subseteq UsersOf({s}) /\ Tells(m, chan[s].on, chan'[s].on)
        BY <2>3, <2>4 DEF About, UsersOf, Tells, Adds, Drops
    <2>7. Says(s, m)
        BY <2>2, <2>3, <2>4, <2>6 DEF Says
    <2> QED BY <1>a, <2>2, <2>7
<1>d. ASSUME UNCHANGED << history, spent >> PROVE used' = used /\ granted' = granted
    BY <1>d DEF history
<1>9. ASSUME NEW s \in Server, NEW t \in Server, ReceiveSjoin(s, t) PROVE PairsOK'
    <2> DEFINE m == Head(net[s][t])
               d == m.d
               r == Relay(chan[t], d)
               n == [type |-> "SJOIN", d |-> r]
    <2>1. /\ Arrives(s, t, "SJOIN") /\ used' = used /\ links' = links
          /\ chan' = [chan EXCEPT ![t] = Accept(chan[t], d)]
          /\ net' = Taken(s, t, IF d.nicks = {} THEN << >> ELSE << n >>)
        BY <1>9, <1>d DEF ReceiveSjoin
    <2>2. m.type = "SJOIN" /\ DescriptionOK(d, granted, used) /\ m = Head(net[s][t])
        BY <1>2, <2>1, HeadOK
    <2>3. r.nicks = d.nicks /\ r \in Description
        <3>1. DescriptionOK(r, granted, used)
            BY <1>2, <2>2, RelayOK
        <3> QED BY <3>1 DEF Relay, DescriptionOK
    <2>4. n \in Line /\ n.type = "SJOIN" /\ n.d.nicks = d.nicks
        BY <2>3 DEF Message, Line
    <2> HIDE DEF m, r, n
    <2>5. Accept(chan[t], d).on = chan[t].on \union d.nicks
        BY <1>2 DEF Accept, NoChannel, ViewOK
    <2>6. /\ chan'[t].on = chan[t].on \union d.nicks
          /\ \A y \in Server : y # t => chan'[y].on = chan[y].on
        BY <1>c, <2>1, <2>5
    <2>7. /\ About(m) = d.nicks /\ About(n) = d.nicks /\ Tells(m, chan[t].on, chan'[t].on)
          /\ \A u \in User : (Adds(n, u) <=> Adds(m, u)) /\ (Drops(n, u) <=> Drops(m, u))
        BY <2>2, <2>4, <2>6 DEF About, Tells, Adds, Drops
    <2>8. \/ net' = Taken(s, t, << >>) /\ chan'[t].on = chan[t].on
          \/ net' = Taken(s, t, << n >>)
        <3>1. CASE d.nicks = {}
            BY <2>1, <2>6, <3>1
        <3>2. CASE d.nicks # {}
            BY <2>1, <3>2
        <3> QED BY <3>1, <3>2
    <2>9. Hears(s, t, m)
        BY <2>1, <2>2, <2>4, <2>6, <2>7, <2>8 DEF Hears
    <2> QED BY <1>b, <2>1, <2>9

<1>e. ASSUME NEW s \in Server, NEW t \in Server, NEW m \in Line, m = Head(net[s][t]), NEW S,
             Arrives(s, t, m.type), m.type \in {"PART", "KICK", "SQUIT", "MODE"},
             m.type = "KICK" => "KICK" \in used,
             used' = used, links' = links, net' = Taken(s, t, << m >>),
             chan'[t].on = chan[t].on \ S, \A y \in Server : y # t => chan'[y].on = chan[y].on,
             \A u \in User : u \in S <=> Drops(m, u)
      PROVE  PairsOK'
    <2>1. Tells(m, chan[t].on, chan'[t].on)
        BY <1>e DEF Tells, Adds
    <2>2. Hears(s, t, m)
        BY <1>e, <2>1 DEF Hears
    <2> QED BY <1>b, <1>e, <2>2

<1>f. ASSUME NEW s \in Server, NEW t \in Server, NEW m, m = Head(net[s][t]),
             Arrives(s, t, m.type), m.type \in {"PART", "KICK", "MODE"},
             m.type = "KICK" => "KICK" \in used,
             used' = used, links' = links, net' = Taken(s, t, << >>), UNCHANGED chan,
             "h" \notin used => \A u \in chan[t].on : ~Drops(m, u)
      PROVE  PairsOK'
    <2>1. "h" \notin used => Tells(m, chan[t].on, chan'[t].on)
        BY <1>f DEF Tells, Adds
    <2>2. Hears(s, t, m)
        BY <1>f, <2>1 DEF Hears
    <2> QED BY <1>b, <1>f, <2>2
<1>g. ASSUME NEW s \in Server, NEW t \in Server, NEW type \in {"PART", "KICK", "MODE"},
             Arrives(s, t, type)
      PROVE  /\ Head(net[s][t]) \in Line /\ Head(net[s][t]) \in Lines(granted, used)
             /\ Head(net[s][t]).type = type
    <2>1. Head(net[s][t]) \in Lines(granted, used) /\ Head(net[s][t]).type = type
        BY <1>2, <1>g, HeadOK
    <2> QED BY <2>1 DEF Lines, Line
<1>10. ASSUME NEW s \in Server, NEW t \in Server, ReceivePart(s, t) PROVE PairsOK'
    <2> DEFINE m == Head(net[s][t])
    <2>1. /\ Arrives(s, t, "PART") /\ used' = used /\ links' = links
          /\ IF m.user \in chan[t].on
             THEN /\ chan' = [chan EXCEPT ![t] = Remove(chan[t], {m.user})]
                  /\ net' = Taken(s, t, << m >>)
             ELSE net' = Taken(s, t, << >>) /\ UNCHANGED chan
        BY <1>10, <1>d DEF ReceivePart
    <2>2. m \in Line /\ m.type = "PART" /\ m = Head(net[s][t])
        BY <1>g, <2>1
    <2> HIDE DEF m
    <2>3. \A u \in User : u \in {m.user} <=> Drops(m, u)
        BY <2>2 DEF Drops
    <2>4. CASE m.user \in chan[t].on
        <3>1. /\ chan'[t].on = chan[t].on \ {m.user}
              /\ \A y \in Server : y # t => chan'[y].on = chan[y].on
            BY <1>2, <1>c, <2>1, <2>4, RemoveOn
        <3> QED BY <1>e, <2>1, <2>2, <2>3, <2>4, <3>1
    <2>5. CASE m.user \notin chan[t].on
        BY <1>2, <1>f, <2>1, <2>2, <2>3, <2>5
    <2> QED BY <2>4, <2>5
<1>11. ASSUME NEW s \in Server, NEW t \in Server, ReceiveKick(s, t) PROVE PairsOK'
    <2> DEFINE m == Head(net[s][t])
    <2>1. /\ Arrives(s, t, "KICK") /\ used' = used /\ links' = links
          /\ IF /\ Believes(chan[t], m.by)
                /\ m.user \in chan[t].on /\ MayKick(chan[t], m.by, m.user)
             THEN /\ chan' = [chan EXCEPT ![t] = Remove(chan[t], {m.user})]
                  /\ net' = Taken(s, t, << m >>)
             ELSE net' = Taken(s, t, << >>) /\ UNCHANGED chan
        BY <1>11, <1>d DEF ReceiveKick
    <2>2. /\ m \in Line /\ m.type = "KICK" /\ m = Head(net[s][t])
          /\ m \in Lines(granted, used)
        BY <1>g, <2>1
    <2> HIDE DEF m
    <2>3. \A u \in User : u \in {m.user} <=> Drops(m, u)
        BY <2>2 DEF Drops
    <2>6. "KICK" \in used /\ m.by \in User
        <3>1. m \in Message /\ "KICK" \in used
            BY <2>2 DEF Lines
        <3>2. m.by \in User
            BY <2>2, <3>1 DEF Message
        <3> QED BY <3>1, <3>2
    <2>4. CASE /\ Believes(chan[t], m.by)
               /\ m.user \in chan[t].on /\ MayKick(chan[t], m.by, m.user)
        <3>1. /\ chan'[t].on = chan[t].on \ {m.user}
              /\ \A y \in Server : y # t => chan'[y].on = chan[y].on
            BY <1>2, <1>c, <2>1, <2>4, RemoveOn
        <3> QED BY <1>e, <2>1, <2>2, <2>3, <2>4, <2>6, <3>1
    <2>5. CASE ~(/\ Believes(chan[t], m.by)
                 /\ m.user \in chan[t].on /\ MayKick(chan[t], m.by, m.user))
        <3>1. ASSUME "h" \notin used, m.user \in chan[t].on PROVE FALSE
            <4>1. chan[t].ts # 0 /\ "h" \notin chan[t].flags[m.by]
                BY <1>2, <2>6, <3>1 DEF ViewOK, HalfopsOK
            <4> QED BY <2>5, <3>1, <4>1 DEF Believes, MayKick
        <3>2. "h" \notin used => \A u \in chan[t].on : ~Drops(m, u)
            BY <1>2, <2>3, <3>1
        <3> QED BY <1>f, <2>1, <2>2, <2>5, <2>6, <3>2
    <2> QED BY <2>4, <2>5
<1>12. ASSUME NEW s \in Server, NEW t \in Server, ReceiveMode(s, t) PROVE PairsOK'
    <2> DEFINE m == Head(net[s][t])
    <2>1. /\ Arrives(s, t, "MODE") /\ used' = used /\ links' = links
          /\ \/ /\ chan' = [chan EXCEPT ![t] = Change(chan[t], m.user, m.flag, m.add)]
                /\ net' = Taken(s, t, << m >>)
             \/ net' = Taken(s, t, << >>) /\ UNCHANGED chan
        BY <1>12, <1>d DEF ReceiveMode
    <2>2. m \in Line /\ m.type = "MODE" /\ m = Head(net[s][t])
        BY <1>g, <2>1
    <2> HIDE DEF m
    <2> DEFINE none == {}
    <2>3. \A u \in User : u \in none <=> Drops(m, u)
        BY <2>2 DEF Drops
    <2>4. CASE /\ chan' = [chan EXCEPT ![t] = Change(chan[t], m.user, m.flag, m.add)]
               /\ net' = Taken(s, t, << m >>)
        <3>1. /\ chan'[t].on = chan[t].on \ none
              /\ \A y \in Server : y # t => chan'[y].on = chan[y].on
            BY <1>2, <1>c, <2>4, ChangeOn
        <3> HIDE DEF none
        <3> QED BY <1>e, <2>1, <2>2, <2>3, <2>4, <3>1
    <2>5. CASE net' = Taken(s, t, << >>) /\ UNCHANGED chan
        BY <1>2, <1>f, <2>1, <2>2, <2>3, <2>5
    <2> QED BY <2>1, <2>4, <2>5
<1>13. ASSUME NEW s \in Server, NEW t \in Server, ReceiveSquit(s, t) PROVE PairsOK'
    <2> DEFINE m == Head(net[s][t])
    <2>1. /\ Arrives(s, t, "SQUIT") /\ used' = used /\ links' = links
          /\ chan' = [chan EXCEPT ![t] = Remove(chan[t], UsersOf(m.lost))]
          /\ net' = Taken(s, t, << m >>)
        BY <1>13, <1>d DEF ReceiveSquit, SquitLink, Lose
    <2>2. m \in Line /\ m.type = "SQUIT" /\ m = Head(net[s][t])
        <3>1. net \in Queues(Message)
            BY <1>3 DEF LinksTypeOK, Queues
        <3>2. m \in Message \union LinkMessage /\ m.type = "SQUIT"
            BY <2>1, <3>1, ArrivesType
        <3> QED BY <3>2 DEF Line
    <2> HIDE DEF m
    <2>3. \A u \in User : u \in UsersOf(m.lost) <=> Drops(m, u)
        BY <2>2 DEF Drops, UsersOf
    <2>4. /\ chan'[t].on = chan[t].on \ UsersOf(m.lost)
          /\ \A y \in Server : y # t => chan'[y].on = chan[y].on
        BY <1>2, <1>c, <2>1, RemoveOn
    <2> QED BY <1>e, <2>1, <2>2, <2>3, <2>4
<1>h. ASSUME NEW s \in Server, NEW t, NEW left, GivesUp(s, t, left),
             Lose(s, Behind(s, t)), used \subseteq used', "split" \in used'
      PROVE  PairsOK'
    <2>1. chan' = [chan EXCEPT ![s] = Remove(chan[s], Near(t, s))]
        BY <1>h DEF Lose, Near
    <2>2. /\ chan'[s].on = chan[s].on \ Near(t, s)
          /\ \A y \in Server : y # s => chan'[y].on = chan[y].on
        BY <1>2, <1>c, <2>1, RemoveOn
    <2> QED BY <1>2, <1>3, <1>h, <2>2, GivesUpPairs
<1>14. ASSUME NEW s \in Server, NEW t \in Server, ReceiveEof(s, t) PROVE PairsOK'
    <2>1. /\ EofLink(s, t) /\ Arrives(s, t, "EOF") /\ used' = used
          /\ IF s \in links[t] THEN Lose(t, Behind(t, s)) ELSE UNCHANGED chan
        BY <1>14, <1>d DEF ReceiveEof, EofLink
    <2>2. LinksOK /\ Whole
        BY DEF PairsOK
    <2>3. CASE s \in links[t]
        <3>1. GivesUp(t, s, << >>)
            BY <1>3, <2>1, <2>2, <2>3, EofIs
        <3>2. "split" \in used
            <4>1. /\ t \in Neighbour(s) /\ net[s][t] # << >> /\ net[s][t][1].type = "EOF"
                  /\ LinkOK(s, t) /\ net[s][t] \in Seq(Message \union LinkMessage)
                BY <1>3, <2>1, <2>2, ArrivesFirst
            <4>2. 1 \in 1..Len(net[s][t])
                BY <4>1, EmptySeq
            <4>3. Ends(net[s][t])
                BY <4>1, <4>2 DEF LinkOK, Framed, Ends
            <4>4. t \notin links[s]
                BY <4>1, <4>3 DEF LinkOK
            <4> QED BY <2>2, <4>1, <4>4, HasSplit
        <3> QED BY <1>h, <2>1, <2>3, <3>1, <3>2
    <2>4. CASE s \notin links[t]
        BY <1>3, <2>1, <2>4, EofPairs
    <2> QED BY <2>3, <2>4
<1>15. ASSUME NEW s \in Server, NEW t \in Server, Close(s, t) PROVE PairsOK'
    <2>1. CloseLink(s, t) /\ Lose(s, Behind(s, t)) /\ used' = used \union {"split"}
        BY <1>15 DEF Close
    <2>2. LinksOK
        BY DEF PairsOK
    <2>3. PICK left : GivesUp(s, t, left)
        BY <1>3, <2>1, <2>2, CloseIs
    <2> QED BY <1>h, <2>1, <2>3
<1>16. ASSUME NEW s \in Server, NEW t \in Server, Estab(s, t) PROVE PairsOK'
    <2>1. PICK lines \in BurstLines(chan[s]) : EstabLink(s, t, lines)
        BY <1>16 DEF Estab
    <2>2. used' = used /\ UNCHANGED chan
        BY <1>16, <1>d DEF Estab
    <2>3. Bursts(lines, chan[s].on) /\ lines \in Seq(Message)
        BY <1>2, BurstsIs
    <2> QED BY <1>2, <1>3, <2>1, <2>2, <2>3, EstabPairs
<1>17. ASSUME NEW s \in Server, NEW t \in Server, ReceiveServer(s, t) PROVE PairsOK'
    <2>1. PICK lines \in BurstLines(chan[t]) : ServerLink(s, t, lines)
        BY <1>17 DEF ReceiveServer
    <2>2. used' = used /\ UNCHANGED chan
        BY <1>17, <1>d DEF ReceiveServer
    <2>3. Bursts(lines, chan[t].on) /\ lines \in Seq(Message)
        BY <1>2, BurstsIs
    <2> QED BY <1>2, <1>3, <2>1, <2>2, <2>3, ServerPairs
<1>18. CASE UNCHANGED vars
    <2>1. UNCHANGED << chan, links, net, used >>
        BY <1>18 DEF vars, history
    <2>2. LinksOK' /\ Whole'
        BY <2>1 DEF PairsOK, LinksOK, LinkOK, Whole
    <2>3. ASSUME NEW x \in Server, NEW y \in Neighbour(x) PROVE Pair(x, y)'
        BY <2>1, PairSame DEF PairsOK
    <2> QED BY <2>2, <2>3 DEF PairsOK
<1> QED BY <1>4, <1>5, <1>6, <1>7, <1>8, <1>9, <1>10, <1>11, <1>12, <1>13, <1>14,
           <1>15, <1>16, <1>17, <1>18 DEF Next

(* In every reachable state the two ends of each link differ by no more    *)
(* than the lines on it: whom one server holds from its own side, the other*)
(* holds or is about to (m_join.c, m_part.c, m_kick.c, m_sjoin.c, and the  *)
(* bursts of s_serv.c).                                                    *)
THEOREM PairsHold == Spec => []PairsOK
<1>1. IInv /\ PairsOK /\ [Next]_vars => PairsOK'
    BY PairsNext
<1> QED BY <1>1, PairsInit, IInvHolds, PTL DEF Spec

(* Where every line has been read, neighbours hold the same members, ...   *)
LEMMA NeighboursAgree ==
    ASSUME PairsOK, Quiet, used \subseteq {"PART", "o", "split"},
           \A x \in Server : chan[x].on \subseteq User,
           NEW s \in Server, NEW t \in Neighbour(s)
    PROVE  chan[s].on = chan[t].on
<1>1. /\ t \in Server /\ s \in Neighbour(t)
      /\ Near(s, t) \union Near(t, s) = User
    BY NearSides, Neighbours
<1>2. Exact(s, t) /\ Exact(t, s)
    BY <1>1 DEF PairsOK, Pair
<1>3. /\ net[s][t] = << >> /\ net[t][s] = << >> /\ Talks(s, t) /\ Talks(t, s)
    BY <1>1 DEF Quiet, Talks
<1>4. \A u \in Near(s, t) : u \in chan[t].on <=> u \in chan[s].on
    BY <1>2, <1>3 DEF Exact, Will
<1>5. \A u \in Near(t, s) : u \in chan[s].on <=> u \in chan[t].on
    BY <1>2, <1>3 DEF Exact, Will
<1>6. \A u \in User : u \in chan[s].on <=> u \in chan[t].on
    BY <1>1, <1>4, <1>5
<1> QED BY <1>1, <1>6

(* ... and so do all servers.                                              *)
LEMMA AllAgree ==
    ASSUME PairsOK, used \subseteq {"PART", "o", "split"},
           \A x \in Server : chan[x].on \subseteq User
    PROVE  SameMembers
<1> SUFFICES ASSUME Quiet, NEW s \in Server, NEW t \in Server PROVE chan[s].on = chan[t].on
    BY DEF SameMembers
<1> DEFINE D == {x \in Server : chan[x].on = chan[s].on}
<1>1. \A d \in D : Neighbour(d) \subseteq D
    <2> SUFFICES ASSUME NEW d \in D, NEW n \in Neighbour(d) PROVE n \in D
        OBVIOUS
    <2>1. n \in Server
        BY Neighbours
    <2>2. chan[d].on = chan[n].on
        BY NeighboursAgree
    <2> QED BY <2>1, <2>2
<1>2. D \in SUBSET Server /\ D # {}
    OBVIOUS
<1>3. D = Server
    <2> HIDE DEF D
    <2> QED BY <1>1, <1>2, TreeAssumption
<1> QED BY <1>3

(* Whom his own server holds, the next one holds, and the one after it.    *)
LEMMA HomeReaches ==
    ASSUME PairsOK, used \subseteq {"PART", "KICK", "o"}
    PROVE  HomeIsSeen
<1> SUFFICES ASSUME Quiet, NEW h \in Server, NEW u \in chan[h].on \intersect UsersOf({h}),
                    NEW t \in Server
             PROVE  u \in chan[t].on
    BY DEF HomeIsSeen
<1> DEFINE D == {x \in Server : u \in chan[x].on}
<1>1. \A d \in D : \A n \in Neighbour(d) : h \in Behind(n, d) => n \in D
    <2> SUFFICES ASSUME NEW d \in D, NEW n \in Neighbour(d), h \in Behind(n, d) PROVE n \in D
        OBVIOUS
    <2>1. n \in Server /\ net[d][n] = << >> /\ net[n][d] = << >>
        BY Neighbours DEF Quiet
    <2>2. u \in Near(d, n)
        BY DEF Near, UsersOf
    <2>3. Known(d, n)
        BY DEF PairsOK, Pair
    <2>4. Will(<< >>, u, u \in chan[n].on) \/ KickIn(<< >>, u)
        BY <2>1, <2>2, <2>3 DEF Known
    <2> QED BY <2>1, <2>4 DEF Will, KickIn
<1>2. D \in SUBSET Server /\ h \in D
    OBVIOUS
<1>3. D = Server
    <2> HIDE DEF D
    <2> QED BY <1>1, <1>2, ReachesAll
<1> QED BY <1>3

(* Once the net is whole and every line has been read, all servers hold    *)
(* the same members, through any crossing of lines and any splits, as long *)
(* as nobody was kicked and no halfop was in a burst; and through kicks,   *)
(* as long as no link was lost, nobody is missing anywhere whom his own    *)
(* server holds.                                                           *)
THEOREM MembersMeet == Spec => []MembersAgree
<1>1. ASSUME IInv, PairsOK PROVE MembersAgree
    <2>1. \A x \in Server : chan[x].on \subseteq User
        BY <1>1 DEF IInv, Channel
    <2> QED BY <1>1, <2>1, AllAgree, HomeReaches DEF MembersAgree
<1> QED BY <1>1, IInvHolds, PairsHold, PTL

-----------------------------------------------------------------------------
(* Agreement about ops and modes, as long as nobody has left or was given  *)
(* or taken a status: who made the channel at the timestamp it has keeps   *)
(* his ops and its modes wherever he is known.                             *)

(* The users that are on the channel where they are connected.             *)
Present == {v \in User : v \in chan[home[v]].on}

(* What a view or a description says of the members it names is true, as   *)
(* far as g was granted and p are present.                                 *)
Faithful(ts, modes, on, ops, g, p) ==
    /\ on \subseteq p /\ modes \subseteq CreationModes
    /\ \E v \in User : << v, ts >> \in g
    /\ \A v \in on : \A n \in Nat : << v, n >> \in g =>
          ts <= n /\ (ts = n => v \in ops /\ modes = CreationModes)

ViewTrue(c, g, p) == c.exists => Faithful(c.ts, c.modes, c.on, Ops(c), g, p)

(* Modes that are not named are not looked at.                             *)
DescriptionTrue(d, g, p) ==
    /\ Faithful(d.ts, d.modes, d.nicks, {v \in d.nicks : "o" \in d.prefix[v]}, g, p)
    /\ \A v \in d.nicks : << v, d.ts >> \in g => d.named

TrueLines(g, u, p) == {m \in Lines(g, u) : m.type = "SJOIN" => DescriptionTrue(m.d, g, p)}

AllTrue ==
    used \subseteq {"split"} =>
        /\ \A v \in User, n \in Nat : << v, n >> \in granted => v \in Present
        /\ \A s \in Server : ViewTrue(chan[s], granted, Present)
        /\ net \in Queues(TrueLines(granted, used, Present))

(* A grant to somebody who was not there before says nothing of the others.*)
LEMMA FaithfulStays ==
    ASSUME NEW g, NEW p, NEW g2, NEW p2, g \subseteq g2, p \subseteq p2,
           \A v \in p, n \in Nat : << v, n >> \in g2 => << v, n >> \in g
    PROVE  /\ \A ts, modes, on, ops :
                Faithful(ts, modes, on, ops, g, p) => Faithful(ts, modes, on, ops, g2, p2)
           /\ \A c : ViewTrue(c, g, p) => ViewTrue(c, g2, p2)
           /\ \A u, u2 : u \subseteq u2 => TrueLines(g, u, p) \subseteq TrueLines(g2, u2, p2)
<1>1. \A ts, modes, on, ops :
        Faithful(ts, modes, on, ops, g, p) => Faithful(ts, modes, on, ops, g2, p2)
    BY DEF Faithful
<1>2. \A c : ViewTrue(c, g, p) => ViewTrue(c, g2, p2)
    BY <1>1 DEF ViewTrue
<1>3. ASSUME NEW d \in Description, DescriptionTrue(d, g, p) PROVE DescriptionTrue(d, g2, p2)
    <2>1. d.nicks \subseteq p /\ d.ts \in Nat
        BY <1>3 DEF DescriptionTrue, Faithful, Description
    <2> QED BY <1>1, <1>3, <2>1 DEF DescriptionTrue
<1>4. ASSUME NEW u, NEW u2, u \subseteq u2 PROVE TrueLines(g, u, p) \subseteq TrueLines(g2, u2, p2)
    <2>1. Lines(g, u) \subseteq Lines(g2, u2)
        BY <1>4, GrantedStays
    <2>2. \A m \in Lines(g, u) : m.type = "SJOIN" => m.d \in Description
        BY DEF Lines, DescriptionOK
    <2> QED BY <1>3, <2>1, <2>2 DEF TrueLines
<1> QED BY <1>1, <1>2, <1>4

(* What Accept makes of a true view and a true description is true, and so *)
(* is what is sent on.                                                     *)
LEMMA AcceptTrue ==
    ASSUME NEW g, NEW u, NEW p, NEW c, NEW d, ViewOK(c, g, u), DescriptionOK(d, g, u),
           ViewTrue(c, g, p), DescriptionTrue(d, g, p), g \subseteq User \X Nat
    PROVE  ViewTrue(Accept(c, d), g, p) /\ DescriptionTrue(Relay(c, d), g, p)
<1>1. /\ c \in Channel /\ d \in Description /\ d.ts # 0 /\ (c.exists => c.ts # 0)
      /\ c.exists \/ c = NoChannel
      /\ c.ts \in Nat /\ d.ts \in Nat /\ (c.exists <=> c.on # {})
      /\ c.on \subseteq User /\ d.nicks \subseteq User
    BY DEF ViewOK, DescriptionOK, Channel, Description
<1>2. /\ FinalTs(c, d) \in Nat
      /\ c.exists => FinalTs(c, d) <= c.ts
      /\ KeepNew(c, d) => FinalTs(c, d) = d.ts
      /\ c.exists /\ KeepOurs(c, d) => FinalTs(c, d) = c.ts
    BY <1>1, FinalTsIs
<1>3. /\ FinalTs(c, d) <= d.ts
      /\ FinalTs(c, d) = d.ts => KeepNew(c, d)
      /\ c.exists /\ FinalTs(c, d) = c.ts => KeepOurs(c, d)
      /\ FinalTs(c, d) = d.ts \/ (c.exists /\ FinalTs(c, d) = c.ts)
    BY <1>1 DEF FinalTs, KeepNew, KeepOurs, Conflict
<1> DEFINE ts == FinalTs(c, d)
           modes == FinalModes(c, d)
<1>4. modes \subseteq CreationModes
    <2>1. d.modes \subseteq CreationModes /\ c.modes \subseteq CreationModes
        BY <1>1 DEF DescriptionTrue, ViewTrue, Faithful, NoChannel
    <2> QED BY <2>1 DEF FinalModes
<1>5. \E v \in User : << v, ts >> \in g
    BY <1>3 DEF DescriptionTrue, ViewTrue, Faithful
<1>6. ASSUME NEW v \in d.nicks, NEW n \in Nat, << v, n >> \in g
      PROVE  /\ ts <= n
             /\ ts = n => /\ KeepNew(c, d) /\ "o" \in d.prefix[v] /\ modes = CreationModes /\ d.named
    <2>1. d.ts <= n /\ (d.ts = n => "o" \in d.prefix[v] /\ d.modes = CreationModes /\ d.named)
        BY <1>6 DEF DescriptionTrue, Faithful
    <2>2. ts <= n
        BY <1>1, <1>2, <1>3, <2>1
    <2>3. ASSUME ts = n PROVE d.ts = n
        BY <1>1, <1>2, <1>3, <2>1, <2>3
    <2>4. ASSUME ts = n PROVE modes = CreationModes
        <3>1. d.modes = CreationModes /\ KeepNew(c, d)
            BY <1>3, <2>1, <2>3, <2>4
        <3> QED BY <1>4, <3>1 DEF FinalModes
    <2> QED BY <1>3, <2>1, <2>2, <2>3, <2>4
<1>7. ASSUME NEW v \in c.on, NEW n \in Nat, << v, n >> \in g
      PROVE  /\ ts <= n
             /\ ts = n => KeepOurs(c, d) /\ "o" \in c.flags[v] /\ modes = CreationModes
    <2>1. /\ c.exists /\ c.ts <= n
          /\ c.ts = n => "o" \in c.flags[v] /\ c.modes = CreationModes
        BY <1>1, <1>7 DEF ViewTrue, Faithful, Ops
    <2>2. ts <= n
        BY <1>1, <1>2, <2>1
    <2>3. ASSUME ts = n PROVE c.ts = n
        BY <1>1, <1>2, <2>1, <2>3
    <2>4. ASSUME ts = n PROVE modes = CreationModes
        <3>1. c.modes = CreationModes /\ KeepOurs(c, d)
            BY <1>3, <2>1, <2>3, <2>4
        <3> QED BY <1>4, <3>1 DEF FinalModes
    <2> QED BY <1>3, <2>1, <2>2, <2>3, <2>4
<1>8. d.nicks \subseteq p /\ c.on \subseteq p
    BY <1>1 DEF DescriptionTrue, ViewTrue, Faithful
<1>9. ViewTrue(Accept(c, d), g, p)
    <2>1. CASE ~c.exists /\ d.nicks = {}
        BY <2>1 DEF Accept, NoChannel, ViewTrue
    <2>2. CASE ~(~c.exists /\ d.nicks = {})
        <3> DEFINE a == Accept(c, d)
        <3>1. /\ a.ts = ts /\ a.modes = modes /\ a.on = c.on \union d.nicks
              /\ a.flags = FinalFlags(c, d)
            BY <2>2 DEF Accept
        <3> HIDE DEF a, ts, modes
        <3>2. ASSUME NEW v \in a.on, NEW n \in Nat, << v, n >> \in g
              PROVE  ts <= n /\ (ts = n => v \in Ops(a) /\ modes = CreationModes)
            <4>1. a.flags[v] =
                    IF v \in d.nicks \ c.on THEN Received(d, KeepNew(c, d), v)
                    ELSE IF KeepOurs(c, d) THEN c.flags[v] ELSE c.flags[v] \ Prefix
                BY <1>1, <3>1 DEF FinalFlags
            <4>2. CASE v \in c.on
                BY <1>7, <3>2, <4>1, <4>2 DEF Ops
            <4>3. CASE v \in d.nicks \ c.on
                BY <1>6, <3>2, <4>1, <4>3 DEF Ops, Received
            <4> QED BY <3>1, <4>2, <4>3
        <3>3. Faithful(a.ts, a.modes, a.on, Ops(a), g, p)
            BY <1>4, <1>5, <1>8, <3>1, <3>2 DEF Faithful
        <3> QED BY <3>3 DEF ViewTrue, a
    <2> QED BY <2>1, <2>2
<1>10. DescriptionTrue(Relay(c, d), g, p)
    <2> DEFINE r == Relay(c, d)
    <2>1. /\ r.ts = ts /\ r.nicks = d.nicks /\ r.named = (d.named /\ KeepNew(c, d))
          /\ r.modes = (IF d.named /\ KeepNew(c, d) THEN modes ELSE {})
          /\ r.prefix = IF KeepNew(c, d) THEN d.prefix ELSE NoFlags
        BY DEF Relay
    <2> HIDE DEF r, ts, modes
    <2>2. r.modes \subseteq CreationModes
        BY <1>4, <2>1
    <2>3. ASSUME NEW v \in r.nicks, NEW n \in Nat, << v, n >> \in g
          PROVE  /\ ts <= n
                 /\ ts = n => /\ v \in {x \in r.nicks : "o" \in r.prefix[x]}
                              /\ r.modes = CreationModes /\ r.named
        BY <1>6, <2>1, <2>3
    <2>4. Faithful(r.ts, r.modes, r.nicks, {x \in r.nicks : "o" \in r.prefix[x]}, g, p)
        BY <1>5, <1>8, <2>1, <2>2, <2>3 DEF Faithful
    <2>5. \A v \in r.nicks : << v, r.ts >> \in g => r.named
        BY <1>2, <2>1, <2>3 DEF ts
    <2> QED BY <2>4, <2>5 DEF DescriptionTrue, r
<1> QED BY <1>9, <1>10

(* What is said of the members that remain is as true as before.           *)
LEMMA RemoveTrue ==
    ASSUME NEW g, NEW u, NEW p, NEW c, NEW S, ViewOK(c, g, u), ViewTrue(c, g, p)
    PROVE  ViewTrue(Remove(c, S), g, p)
<1>0. c \in Channel /\ c.on \subseteq User
    BY DEF ViewOK, Channel
<1>1. CASE c.exists /\ c.on \subseteq S
    BY <1>1 DEF Remove, NoChannel, ViewTrue
<1>2. CASE ~(c.exists /\ c.on \subseteq S)
    <2> DEFINE flags == [x \in User |-> IF x \in S THEN {} ELSE c.flags[x]]
               r == [c EXCEPT !.on = c.on \ S, !.flags = flags]
    <2>1. Remove(c, S) = r
        BY <1>2 DEF Remove
    <2>2. /\ r.on = c.on \ S /\ r.flags = flags /\ r.modes = c.modes
          /\ r.ts = c.ts /\ r.exists = c.exists
        BY <1>0 DEF Channel
    <2>3. \A v \in r.on : v \in Ops(c) => v \in Ops(r)
        BY <1>0, <2>2 DEF Ops
    <2> HIDE DEF r
    <2>4. ViewTrue(r, g, p)
        BY <2>2, <2>3 DEF ViewTrue, Faithful
    <2> QED BY <2>1, <2>4
<1> QED BY <1>1, <1>2

(* A burst of a true view is true.                                         *)
LEMMA BurstTrue ==
    ASSUME NEW g, NEW u, NEW p, NEW c, ViewOK(c, g, u), ViewTrue(c, g, p),
           NEW lines \in BurstLines(c)
    PROVE  lines \in Seq(TrueLines(g, u, p))
<1>0. c \in Channel /\ c.on \subseteq User
    BY DEF ViewOK, Channel
<1>1. CASE ~c.exists
    <2>1. lines = << >>
        BY <1>1 DEF BurstLines
    <2> QED BY <2>1
<1>2. CASE c.exists
    <2>1. PICK nicks \in BurstNicks(c) :
            lines = << [type |-> "SJOIN",
                d |-> [ts |-> c.ts, named |-> TRUE, modes |-> c.modes, nicks |-> nicks,
                       prefix |-> [x \in User |->
                           IF x \in nicks THEN c.flags[x] \ {"d"} ELSE {}]]] >>
        BY <1>2 DEF BurstLines
    <2> DEFINE prefix == [x \in User |-> IF x \in nicks THEN c.flags[x] \ {"d"} ELSE {}]
               d == [ts |-> c.ts, named |-> TRUE, modes |-> c.modes, nicks |-> nicks,
                     prefix |-> prefix]
               m == [type |-> "SJOIN", d |-> d]
    <2>2. nicks \subseteq c.on
        BY <2>1 DEF BurstNicks
    <2>3. \A v \in nicks : v \in Ops(c) => "o" \in prefix[v]
        BY <1>0, <2>2 DEF Ops
    <2>4. DescriptionTrue(d, g, p)
        BY <1>2, <2>2, <2>3 DEF ViewTrue, DescriptionTrue, Faithful
    <2>5. lines = << m >> /\ m.d = d
        BY <2>1
    <2> HIDE DEF m, d
    <2>6. m \in Lines(g, u)
        <3>1. lines \in Seq(Lines(g, u))
            BY BurstOK
        <3>2. Len(lines) = 1 /\ lines[1] = m /\ 1 \in 1..1
            BY <2>5
        <3> QED BY <3>1, <3>2
    <2>7. m \in TrueLines(g, u, p)
        BY <2>4, <2>5, <2>6 DEF TrueLines
    <2> QED BY <2>5, <2>7
<1> QED BY <1>1, <1>2

(* Nobody is missing on his own server who was not removed there.          *)
LEMMA PresentStays ==
    ASSUME chan \in [Server -> Channel], NEW s \in Server, NEW w,
           chan' = [chan EXCEPT ![s] = w],
           \A v \in User : home[v] = s /\ v \in chan[s].on => v \in w.on
    PROVE  Present \subseteq Present'
<1>1. \A v \in User : home[v] \in Server
    BY NetAssumption
<1>2. \A x \in Server : chan'[x] = IF x = s THEN w ELSE chan[x]
    OBVIOUS
<1> QED BY <1>1, <1>2 DEF Present

(* What was true before the step is true after it.                         *)
LEMMA TrueStays ==
    ASSUME AllTrue, used \subseteq used', used' \subseteq {"split"},
           granted \subseteq granted', Present \subseteq Present',
           \A v \in Present, n \in Nat : << v, n >> \in granted' => << v, n >> \in granted
    PROVE  /\ net \in Queues(TrueLines(granted', used', Present'))
           /\ \A s \in Server : ViewTrue(chan[s], granted', Present')
           /\ \A v \in User, n \in Nat : << v, n >> \in granted => v \in Present'
<1> DEFINE L == TrueLines(granted, used, Present)
           M == TrueLines(granted', used', Present')
<1>1. /\ L \subseteq M
      /\ \A c : ViewTrue(c, granted, Present) => ViewTrue(c, granted', Present')
    BY FaithfulStays
<1>2. /\ \A v \in User, n \in Nat : << v, n >> \in granted => v \in Present
      /\ \A s \in Server : ViewTrue(chan[s], granted, Present)
      /\ net \in Queues(L)
    BY DEF AllTrue
<1> HIDE DEF L, M
<1>3. L \union LinkMessage \subseteq M \union LinkMessage
    BY <1>1
<1>4. \A x, y \in Server : net[x][y] \in Seq(M \union LinkMessage)
    BY <1>2, <1>3, SeqMonotonic DEF Queues
<1>5. net \in Queues(M)
    BY <1>2, <1>4 DEF Queues
<1> QED BY <1>1, <1>2, <1>5 DEF M

(* Nothing is said at the start.                                           *)
LEMMA TrueInit == Init => AllTrue
<1> SUFFICES ASSUME Init PROVE AllTrue
    OBVIOUS
<1>1. granted = {} /\ \A s \in Server : ~chan[s].exists
    BY DEF Init, NoChannel
<1>2. LinksTypeOK(TrueLines(granted, used, Present))
    BY LinksInitType DEF Init
<1> QED BY <1>1, <1>2 DEF AllTrue, ViewTrue, LinksTypeOK, Queues

(* Each step says what is true, until a part, a kick or a change of status.*)
LEMMA TrueNext == IInv /\ PairsOK /\ AllTrue /\ [Next]_vars => AllTrue'
<1> SUFFICES ASSUME IInv, PairsOK, AllTrue, [Next]_vars, used' \subseteq {"split"} PROVE AllTrue'
    BY DEF AllTrue
<1> DEFINE g == granted'
           u == used'
           p == Present'
           M == TrueLines(g, u, p)
<1>1. IInv'
    BY IInvNext
<1>2. /\ chan \in [Server -> Channel] /\ home \in [User -> Server]
      /\ \A s \in Server : chan[s].on \subseteq User /\ chan[s] \in Channel
      /\ \A s \in Server : ViewOK(chan[s], granted, used)
      /\ LinksTypeOK(Lines(granted, used)) /\ granted \subseteq User \X Nat
      /\ links \in [Server -> SUBSET Server] /\ g \subseteq User \X Nat
    BY <1>1, NetAssumption DEF IInv, LinksTypeOK, Channel
<1>3. "PART" \notin u /\ "KICK" \notin u /\ \A flag \in Prefix : flag \notin u
    BY DEF Prefix
<1>a. ASSUME granted' = granted, used \subseteq used', NEW s \in Server, NEW w,
             chan' = [chan EXCEPT ![s] = w],
             \A v \in User : home[v] = s /\ v \in chan[s].on => v \in w.on
      PROVE  /\ net \in Queues(M) /\ LinksTypeOK(M)
             /\ \A x \in Server : ViewTrue(chan[x], g, p)
             /\ Present \subseteq p
             /\ ViewTrue(w, g, p) /\ net' \in Queues(M) => AllTrue'
    <2>1. Present \subseteq p
        BY <1>2, <1>a, PresentStays
    <2>2. /\ net \in Queues(M) /\ \A x \in Server : ViewTrue(chan[x], g, p)
          /\ \A v \in User, n \in Nat : << v, n >> \in granted => v \in p
        BY <1>a, <2>1, TrueStays
    <2>3. \A x \in Server : chan'[x] = IF x = s THEN w ELSE chan[x]
        BY <1>2, <1>a
    <2> HIDE DEF M
    <2>4. LinksTypeOK(M)
        BY <1>2, <2>2 DEF LinksTypeOK, Queues
    <2>5. ASSUME ViewTrue(w, g, p), net' \in Queues(M) PROVE AllTrue'
        <3>1. \A x \in Server : ViewTrue(chan'[x], g, p)
            BY <2>2, <2>3, <2>5
        <3> QED BY <1>a, <2>2, <2>5, <3>1 DEF AllTrue, M
    <2> QED BY <2>1, <2>2, <2>4, <2>5
<1>d. ASSUME UNCHANGED << history, spent >> PROVE used' = used /\ granted' = granted
    BY <1>d DEF history
<1>e. ASSUME net \in Queues(M), NEW s \in Server, NEW m \in M, net' = Sent(s, {}, << m >>)
      PROVE  net' \in Queues(M)
    <2> HIDE DEF M
    <2>1. << m >> \in Seq(M \union LinkMessage)
        OBVIOUS
    <2>2. Sent(s, {}, << m >>) \in Queues(M)
        BY <1>e, <2>1, SentType
    <2> QED BY <1>e, <2>2
<1>4. ASSUME NEW x \in User, JoinNew(x) PROVE AllTrue'
    <2> DEFINE s == home[x]
    <2>1. PICK now \in Stamp :
         /\ chan' = [chan EXCEPT ![s] =
                [exists |-> TRUE, ts |-> now, modes |-> CreationModes,
                 on |-> {x}, flags |-> Solo(x, {"o"})]]
         /\ net' = Sent(s, {}, << [type |-> "SJOIN",
                d |-> [ts |-> now, named |-> TRUE, modes |-> CreationModes,
                       nicks |-> {x}, prefix |-> Solo(x, {"o"})]] >>)
         /\ granted' = granted \union {<<x, now>>}
        BY <1>4 DEF JoinNew
    <2> DEFINE v == [exists |-> TRUE, ts |-> now, modes |-> CreationModes,
                     on |-> {x}, flags |-> Solo(x, {"o"})]
               d == [ts |-> now, named |-> TRUE, modes |-> CreationModes,
                     nicks |-> {x}, prefix |-> Solo(x, {"o"})]
               m == [type |-> "SJOIN", d |-> d]
    <2>2. s \in Server /\ chan[s].on = {} /\ used' = used /\ now \in Nat /\ now # 0
        BY <1>2, <1>4, NetAssumption DEF JoinNew, ViewOK
    <2>3. chan' = [chan EXCEPT ![s] = v] /\ v.on = {x}
        BY <2>1
    <2>4. /\ chan'[s] = v /\ \A y \in Server : y # s => chan'[y] = chan[y]
        BY <1>2, <2>2, <2>3
    <2>5. x \notin Present /\ Present \subseteq p /\ x \in p
        <3> HIDE DEF v
        <3>1. x \notin Present
            BY <2>2 DEF Present
        <3>2. Present \subseteq p
            BY <1>2, <2>2, <2>3, PresentStays
        <3>3. x \in p
            BY <2>3, <2>4 DEF Present
        <3> QED BY <3>1, <3>2, <3>3
    <2>6. ASSUME NEW y \in Present, NEW n \in Nat, << y, n >> \in g PROVE << y, n >> \in granted
        BY <2>1, <2>5, <2>6
    <2>7. /\ net \in Queues(M)
          /\ \A y \in Server : ViewTrue(chan[y], g, p)
          /\ \A y \in User, n \in Nat : << y, n >> \in granted => y \in p
        BY <2>1, <2>2, <2>5, <2>6, TrueStays
    <2>8. \A n \in Nat : << x, n >> \in g => n = now
        <3>1. \A n \in Nat : << x, n >> \notin granted
            BY <2>2, <2>5 DEF AllTrue
        <3> QED BY <2>1, <3>1
    <2>9. \A ops : x \in ops => Faithful(now, CreationModes, {x}, ops, g, p)
        <3>1. << x, now >> \in g
            BY <2>1
        <3> QED BY <2>2, <2>5, <2>8, <3>1 DEF Faithful
    <2>10. "o" \in Solo(x, {"o"})[x]
        BY DEF Solo
    <2>11. ViewTrue(v, g, p)
        BY <2>9, <2>10 DEF ViewTrue, Ops
    <2>12. DescriptionTrue(d, g, p)
        BY <2>9, <2>10 DEF DescriptionTrue
    <2>13. m \in M
        <3>1. d \in Description
            <4>1. Solo(x, {"o"}) \in [User -> SUBSET Prefix]
                BY DEF Solo, Prefix
            <4> QED BY <2>2, <4>1, NetAssumption DEF Description
        <3>2. DescriptionOK(d, g, u)
            <4>1. HalfopsOK(Solo(x, {"o"}), u)
                BY DEF HalfopsOK, Solo
            <4> QED BY <2>1, <2>2, <3>1, <4>1 DEF DescriptionOK, OpsOK
        <3> HIDE DEF d
        <3>3. m \in Lines(g, u) /\ m.d = d
            BY <3>2, LineOK
        <3> QED BY <2>12, <3>3 DEF TrueLines
    <2>14. net' \in Queues(M)
        <3>1. net' = Sent(s, {}, << m >>)
            BY <2>1
        <3> HIDE DEF m, M
        <3> QED BY <1>e, <2>2, <2>7, <2>13, <3>1
    <2>15. \A y \in User, n \in Nat : << y, n >> \in g => y \in p
        BY <2>1, <2>5, <2>7
    <2>16. \A y \in Server : ViewTrue(chan'[y], g, p)
        <3> HIDE DEF v
        <3> QED BY <2>4, <2>7, <2>11
    <2> QED BY <2>14, <2>15, <2>16 DEF AllTrue
<1>5. ASSUME NEW x \in User, JoinExisting(x) PROVE AllTrue'
    <2> DEFINE s == home[x]
               c == chan[s]
               w == [c EXCEPT !.on = c.on \union {x}]
               d == [ts |-> c.ts, named |-> TRUE, modes |-> {},
                     nicks |-> {x}, prefix |-> NoFlags]
               m == [type |-> "SJOIN", d |-> d]
    <2>1. /\ s \in Server /\ c.exists /\ x \notin c.on
          /\ used' = used /\ granted' = granted
          /\ chan' = [chan EXCEPT ![s] = w]
          /\ net' = Sent(s, {}, << m >>)
        BY <1>2, <1>5 DEF JoinExisting, history
    <2>2. /\ w.on = c.on \union {x} /\ w.ts = c.ts /\ w.modes = c.modes
          /\ w.flags = c.flags /\ c.ts \in Nat
        BY <1>2, <2>1 DEF Channel
    <2> HIDE DEF w
    <2>3. /\ net \in Queues(M) /\ ViewTrue(c, g, p) /\ Present \subseteq p
          /\ ViewTrue(w, g, p) /\ net' \in Queues(M) => AllTrue'
        BY <1>a, <2>1, <2>2
    <2>4. /\ \A n \in Nat : << x, n >> \notin g
          /\ x \in p
        <3>1. x \notin Present
            BY <2>1 DEF Present
        <3>2. \A n \in Nat : << x, n >> \notin granted
            BY <2>1, <3>1 DEF AllTrue
        <3>3. chan'[s] = w
            BY <1>2, <2>1
        <3>4. x \in p
            BY <2>2, <3>3 DEF Present
        <3> QED BY <2>1, <3>2, <3>4
    <2>5. Faithful(c.ts, c.modes, c.on, Ops(c), g, p)
        BY <2>1, <2>3 DEF ViewTrue
    <2>6. ViewTrue(w, g, p)
        <3>1. Ops(c) \subseteq Ops(w)
            BY <2>2 DEF Ops
        <3> QED BY <2>2, <2>4, <2>5, <3>1 DEF ViewTrue, Faithful
    <2>7. DescriptionTrue(d, g, p)
        BY <2>2, <2>4, <2>5 DEF DescriptionTrue, Faithful
    <2>8. m \in M
        <3>1. d \in Description
            <4>1. NoFlags \in [User -> SUBSET Prefix]
                BY DEF NoFlags
            <4> QED BY <2>2, <4>1 DEF Description
        <3>2. DescriptionOK(d, g, u)
            <4>1. c.ts # 0
                BY <1>2, <2>1 DEF ViewOK
            <4> QED BY <3>1, <4>1 DEF DescriptionOK, OpsOK, HalfopsOK, NoFlags
        <3> HIDE DEF d
        <3>3. m \in Lines(g, u) /\ m.d = d
            BY <3>2, LineOK
        <3> QED BY <2>7, <3>3 DEF TrueLines
    <2>9. net' \in Queues(M)
        <3> HIDE DEF m, M
        <3> QED BY <1>e, <2>1, <2>3, <2>8
    <2> QED BY <2>3, <2>6, <2>9
<1>6. ASSUME NEW x \in User, Part(x) PROVE FALSE
    BY <1>3, <1>6 DEF Part, Use
<1>7. ASSUME NEW by \in User, NEW x \in User, Kick(by, x) PROVE FALSE
    BY <1>3, <1>7 DEF Kick, Use
<1>8. ASSUME NEW by \in User, NEW x \in User, NEW flag \in Prefix, NEW add \in BOOLEAN,
             ModeChange(by, x, flag, add)
      PROVE  FALSE
    BY <1>3, <1>8 DEF ModeChange, Use
<1>9. ASSUME NEW s \in Server, NEW t \in Server, ReceiveSjoin(s, t) PROVE AllTrue'
    <2> DEFINE d == Head(net[s][t]).d
               w == Accept(chan[t], d)
               r == Relay(chan[t], d)
               m == [type |-> "SJOIN", d |-> r]
    <2>1. /\ Arrives(s, t, "SJOIN") /\ net[s][t] # << >> /\ used' = used /\ granted' = granted
          /\ chan' = [chan EXCEPT ![t] = w]
          /\ net' = Taken(s, t, IF d.nicks = {} THEN << >> ELSE << m >>)
        BY <1>9, <1>d DEF ReceiveSjoin, Arrives
    <2>2. DescriptionOK(d, g, u) /\ ViewOK(chan[t], g, u)
        BY <1>2, <2>1, HeadOK
    <2>3. chan[t].on \subseteq w.on
        BY <1>2 DEF Accept, NoChannel, ViewOK
    <2> HIDE DEF w
    <2>4. /\ net \in Queues(M) /\ ViewTrue(chan[t], g, p)
          /\ ViewTrue(w, g, p) /\ net' \in Queues(M) => AllTrue'
        BY <1>a, <2>1, <2>3
    <2>5. DescriptionTrue(d, g, p)
        <3> HIDE DEF M
        <3>1. Head(net[s][t]) \in M \union LinkMessage /\ Head(net[s][t]).type = "SJOIN"
            BY <2>1, <2>4, ArrivesType
        <3>2. Head(net[s][t]) \in M
            BY <3>1 DEF LinkMessage
        <3> QED BY <3>1, <3>2 DEF M, TrueLines
    <2> HIDE DEF d
    <2>6. ViewTrue(w, g, p) /\ DescriptionTrue(r, g, p)
        BY <1>2, <2>2, <2>4, <2>5, AcceptTrue DEF w
    <2>7. m \in M
        <3>1. DescriptionOK(r, g, u)
            BY <2>2, RelayOK
        <3> HIDE DEF r
        <3>2. m \in Lines(g, u) /\ m.d = r
            BY <3>1, LineOK
        <3> QED BY <2>6, <3>2 DEF TrueLines
    <2>8. net' \in Queues(M)
        <3> HIDE DEF M, m
        <3>1. << >> \in Seq(M \union LinkMessage) /\ << m >> \in Seq(M \union LinkMessage)
            BY <2>7
        <3>2. Taken(s, t, << m >>) \in Queues(M)
            BY <2>1, <2>4, <3>1, TakenType
        <3>3. Taken(s, t, << >>) \in Queues(M)
            BY <2>1, <2>4, <3>1, TakenType
        <3> QED BY <2>1, <3>2, <3>3
    <2> QED BY <2>4, <2>6, <2>8
<1>10. ASSUME NEW s \in Server, NEW t \in Server, ReceivePart(s, t) PROVE FALSE
    <2>1. Arrives(s, t, "PART") /\ used' = used
        BY <1>10, <1>d DEF ReceivePart
    <2>2. Head(net[s][t]) \in Lines(granted, used) /\ Head(net[s][t]).type = "PART"
        BY <1>2, <2>1, HeadOK
    <2> QED BY <1>3, <2>1, <2>2 DEF Lines
<1>11. ASSUME NEW s \in Server, NEW t \in Server, ReceiveKick(s, t) PROVE FALSE
    <2>1. Arrives(s, t, "KICK") /\ used' = used
        BY <1>11, <1>d DEF ReceiveKick
    <2>2. Head(net[s][t]) \in Lines(granted, used) /\ Head(net[s][t]).type = "KICK"
        BY <1>2, <2>1, HeadOK
    <2> QED BY <1>3, <2>1, <2>2 DEF Lines
<1>12. ASSUME NEW s \in Server, NEW t \in Server, ReceiveMode(s, t) PROVE FALSE
    <2>1. Arrives(s, t, "MODE") /\ used' = used
        BY <1>12, <1>d DEF ReceiveMode
    <2>2. Head(net[s][t]).flag \in used /\ Head(net[s][t]).flag \in Prefix
        BY <1>2, <2>1, HeadOK
    <2> QED BY <1>3, <2>1, <2>2
<1>f. ASSUME granted' = granted, used \subseteq used', NEW s \in Server, NEW lost, Lose(s, lost),
             \A v \in User : home[v] = s => home[v] \notin lost,
             LinksTypeOK(M) => net' \in Queues(M)
      PROVE  AllTrue'
    <2> DEFINE w == Remove(chan[s], UsersOf(lost))
    <2>1. chan' = [chan EXCEPT ![s] = w]
        BY <1>f DEF Lose
    <2>2. \A v \in User : home[v] = s /\ v \in chan[s].on => v \in w.on
        BY <1>2, <1>f, RemoveOn DEF UsersOf
    <2> HIDE DEF w
    <2>3. /\ LinksTypeOK(M) /\ ViewTrue(chan[s], g, p)
          /\ ViewTrue(w, g, p) /\ net' \in Queues(M) => AllTrue'
        BY <1>a, <1>f, <2>1, <2>2
    <2>4. ViewTrue(w, g, p)
        <3>1. ViewOK(chan[s], g, used) /\ ViewTrue(chan[s], g, p)
            BY <1>2, <1>f, <2>3
        <3> HIDE DEF g, p
        <3> QED BY <3>1, RemoveTrue DEF w
    <2> QED BY <1>f, <2>3, <2>4
<1>13. ASSUME NEW s \in Server, NEW t \in Server, ReceiveSquit(s, t) PROVE AllTrue'
    <2> DEFINE m == Head(net[s][t])
    <2>1. /\ SquitLink(s, t) /\ Lose(t, m.lost) /\ Arrives(s, t, "SQUIT")
          /\ used' = used /\ granted' = granted
        BY <1>13, <1>d DEF ReceiveSquit, SquitLink
    <2>2. \A v \in User : home[v] = t => home[v] \notin m.lost
        <3>1. LinksOK
            BY DEF PairsOK
        <3>2. /\ s \in Neighbour(t) /\ t \in Neighbour(s)
              /\ net[s][t] \in Seq(Lines(granted, used) \union LinkMessage) /\ net[s][t] # << >>
              /\ m = net[s][t][1] /\ net[s][t][1].type = "SQUIT"
            BY <1>2, <2>1, <3>1, ArrivesFirst
        <3>3. Directed(s, t)
            BY <3>2 DEF PairsOK, Pair
        <3>4. 1 \in 1..Len(net[s][t])
            BY <3>2, EmptySeq
        <3>5. About(m) \subseteq Near(s, t)
            BY <3>2, <3>3, <3>4 DEF Directed, Within
        <3>6. UsersOf(m.lost) \subseteq Near(s, t)
            BY <3>2, <3>5 DEF About
        <3>7. UsersOf({t}) \subseteq Near(t, s) /\ Near(t, s) \intersect Near(s, t) = {}
            BY <3>2, NearSides
        <3> QED BY <3>6, <3>7 DEF UsersOf
    <2>3. \A T : LinksTypeOK(T) => net' \in Queues(T)
        BY <2>1, SquitLinkType DEF LinksTypeOK, Queues
    <2> HIDE DEF M, m
    <2> QED BY <1>f, <2>1, <2>2, <2>3
<1>g. ASSUME NEW s \in Server, NEW t, s \in Neighbour(t), t \in Server
      PROVE  \A v \in User : home[v] = s => home[v] \notin Behind(s, t)
    <2>1. s # t
        BY <1>g, Neighbours
    <2> QED BY <1>g, <2>1, BehindIs
<1>14. ASSUME NEW s \in Server, NEW t \in Server, ReceiveEof(s, t) PROVE AllTrue'
    <2>1. /\ EofLink(s, t) /\ Arrives(s, t, "EOF") /\ used' = used /\ granted' = granted
          /\ IF s \in links[t] THEN Lose(t, Behind(t, s)) ELSE UNCHANGED chan
        BY <1>14, <1>d DEF ReceiveEof, EofLink
    <2>2. \A T : LinksTypeOK(T) => net' \in Queues(T)
        BY <2>1, EofLinkType DEF LinksTypeOK, Queues
    <2>3. LinksOK
        BY DEF PairsOK
    <2>4. s \in Neighbour(t) /\ t \in Neighbour(s)
        BY <1>2, <2>1, <2>3, ArrivesFirst
    <2>5. CASE s \in links[t]
        <3>1. \A v \in User : home[v] = t => home[v] \notin Behind(t, s)
            BY <1>g, <2>4
        <3> HIDE DEF M
        <3> QED BY <1>f, <2>1, <2>2, <2>5, <3>1
    <2>6. CASE s \notin links[t]
        <3>1. chan' = [chan EXCEPT ![t] = chan[t]]
            BY <1>2, <2>1, <2>6
        <3>2. /\ LinksTypeOK(M) /\ ViewTrue(chan[t], g, p)
              /\ ViewTrue(chan[t], g, p) /\ net' \in Queues(M) => AllTrue'
            BY <1>a, <2>1, <3>1
        <3> HIDE DEF M
        <3> QED BY <2>2, <3>2
    <2> QED BY <2>5, <2>6
<1>15. ASSUME NEW s \in Server, NEW t \in Server, Close(s, t) PROVE AllTrue'
    <2>1. /\ CloseLink(s, t) /\ Lose(s, Behind(s, t)) /\ used' = used \union {"split"}
          /\ granted' = granted /\ t \in links[s]
        BY <1>15 DEF Close, CloseLink
    <2>2. \A T : LinksTypeOK(T) => net' \in Queues(T)
        BY <2>1, CloseLinkType DEF LinksTypeOK, Queues
    <2>3. s \in Neighbour(t)
        BY <2>1, Neighbours DEF PairsOK, LinksOK
    <2>4. \A v \in User : home[v] = s => home[v] \notin Behind(s, t)
        BY <1>g, <2>3
    <2> HIDE DEF M
    <2> QED BY <1>f, <2>1, <2>2, <2>4
<1>h. ASSUME UNCHANGED << chan, history, spent >>, NEW s \in Server
      PROVE  /\ LinksTypeOK(M) /\ \A lines \in BurstLines(chan[s]) : lines \in Seq(M)
             /\ net' \in Queues(M) => AllTrue'
    <2>1. chan' = [chan EXCEPT ![s] = chan[s]] /\ used' = used /\ granted' = granted
        BY <1>2, <1>d, <1>h
    <2>2. /\ LinksTypeOK(M) /\ ViewTrue(chan[s], g, p)
          /\ ViewTrue(chan[s], g, p) /\ net' \in Queues(M) => AllTrue'
        BY <1>a, <2>1
    <2>3. \A lines \in BurstLines(chan[s]) : lines \in Seq(M)
        BY <1>2, <2>1, <2>2, BurstTrue
    <2> QED BY <2>2, <2>3
<1>16. ASSUME NEW s \in Server, NEW t \in Server, Estab(s, t) PROVE AllTrue'
    <2>1. PICK lines \in BurstLines(chan[s]) : EstabLink(s, t, lines)
        BY <1>16 DEF Estab
    <2>2. UNCHANGED << chan, history, spent >>
        BY <1>16 DEF Estab
    <2>3. LinksTypeOK(M) /\ lines \in Seq(M) /\ (net' \in Queues(M) => AllTrue')
        BY <1>h, <2>2
    <2>4. \A T : LinksTypeOK(T) /\ lines \in Seq(T) => net' \in Queues(T)
        BY <2>1, EstabLinkType DEF LinksTypeOK, Queues
    <2> HIDE DEF M
    <2> QED BY <2>3, <2>4
<1>17. ASSUME NEW s \in Server, NEW t \in Server, ReceiveServer(s, t) PROVE AllTrue'
    <2>1. PICK lines \in BurstLines(chan[t]) : ServerLink(s, t, lines)
        BY <1>17 DEF ReceiveServer
    <2>2. UNCHANGED << chan, history, spent >>
        BY <1>17 DEF ReceiveServer
    <2>3. LinksTypeOK(M) /\ lines \in Seq(M) /\ (net' \in Queues(M) => AllTrue')
        BY <1>h, <2>2
    <2>4. \A T : LinksTypeOK(T) /\ lines \in Seq(T) => net' \in Queues(T)
        BY <2>1, ServerLinkType DEF LinksTypeOK, Queues
    <2> HIDE DEF M
    <2> QED BY <2>3, <2>4
<1>18. CASE UNCHANGED vars
    BY <1>18 DEF vars, history, AllTrue, Present
<1> QED BY <1>4, <1>5, <1>6, <1>7, <1>8, <1>9, <1>10, <1>11, <1>12, <1>13, <1>14,
           <1>15, <1>16, <1>17, <1>18 DEF Next

(* As long as nobody has left or was given or taken a status, every view   *)
(* and every line tells the truth about who made the channel when.         *)
THEOREM TruthHolds == Spec => []AllTrue
<1>1. Init => AllTrue
    BY TrueInit
<1>2. IInv /\ PairsOK /\ AllTrue /\ [Next]_vars => AllTrue'
    BY TrueNext
<1> QED BY <1>1, <1>2, IInvHolds, PairsHold, PTL DEF Spec

(* The view of one server is no older than that of another, and has its    *)
(* ops and its modes, when both hold the same members.                     *)
LEMMA ViewsFollow ==
    ASSUME IInv, AllTrue, used \subseteq {"split"},
           NEW s \in Server, NEW t \in Server, chan[s].exists, chan[t].exists,
           \A x \in Server : chan[x].on = chan[s].on
    PROVE  /\ chan[t].ts <= chan[s].ts
           /\ chan[t].ts = chan[s].ts =>
                /\ Ops(chan[s]) \subseteq Ops(chan[t])
                /\ chan[t].modes = CreationModes
<1>1. /\ Faithful(chan[s].ts, chan[s].modes, chan[s].on, Ops(chan[s]), granted, Present)
      /\ Faithful(chan[t].ts, chan[t].modes, chan[t].on, Ops(chan[t]), granted, Present)
    BY DEF AllTrue, ViewTrue
<1>2. chan[s].ts \in Nat /\ chan[s].on \subseteq User
    BY DEF IInv, Channel
<1>3. PICK v \in User : << v, chan[s].ts >> \in granted
    BY <1>1 DEF Faithful
<1>4. v \in chan[t].on
    <2>1. v \in Present
        BY <1>2, <1>3 DEF AllTrue
    <2>2. home[v] \in Server
        BY NetAssumption
    <2> QED BY <2>1, <2>2 DEF Present
<1>5. /\ chan[t].ts <= chan[s].ts
      /\ chan[t].ts = chan[s].ts => chan[t].modes = CreationModes
    BY <1>1, <1>2, <1>3, <1>4 DEF Faithful
<1>6. ASSUME chan[t].ts = chan[s].ts, NEW x \in Ops(chan[s]) PROVE x \in Ops(chan[t])
    <2>1. OpsOK(Ops(chan[s]), chan[s].ts, granted, used)
        BY DEF IInv, ViewOK
    <2>2. << x, chan[s].ts >> \in granted
        BY <2>1 DEF OpsOK
    <2>3. x \in chan[t].on
        BY DEF Ops
    <2> QED BY <1>1, <1>2, <1>6, <2>2, <2>3 DEF Faithful
<1> QED BY <1>5, <1>6

(* Once the net is whole and every line has been read, all servers hold    *)
(* the same timestamp, ops and modes, however the lines of several         *)
(* creators have crossed and whichever links were lost meanwhile, as long  *)
(* as nobody has parted, was kicked or was given or taken a status.        *)
THEOREM DescriptionsMeet == Spec => []DescriptionsAgree
<1>1. ASSUME IInv, PairsOK, AllTrue PROVE DescriptionsAgree
    <2> SUFFICES ASSUME used \subseteq {"split"}, Quiet, NEW s \in Server, NEW t \in Server
                 PROVE  /\ chan[s].ts = chan[t].ts /\ Ops(chan[s]) = Ops(chan[t])
                        /\ chan[s].modes = chan[t].modes
        BY DEF DescriptionsAgree, SameOps, SameModes
    <2>1. \A x \in Server : chan[x].on \subseteq User
        BY <1>1 DEF IInv, Channel
    <2>2. SameMembers
        BY <1>1, <2>1, AllAgree
    <2>3. \A x, y \in Server : chan[x].on = chan[y].on
        BY <2>2 DEF SameMembers
    <2>4. /\ chan[s].exists <=> chan[t].exists
          /\ chan[s].exists \/ chan[s] = NoChannel
          /\ chan[t].exists \/ chan[t] = NoChannel
        BY <1>1, <2>3 DEF IInv, ViewOK
    <2>5. CASE chan[s].exists
        <3>1. /\ chan[t].ts <= chan[s].ts
              /\ chan[t].ts = chan[s].ts =>
                   /\ Ops(chan[s]) \subseteq Ops(chan[t]) /\ chan[t].modes = CreationModes
            BY <1>1, <2>3, <2>4, <2>5, ViewsFollow
        <3>2. /\ chan[s].ts <= chan[t].ts
              /\ chan[s].ts = chan[t].ts =>
                   /\ Ops(chan[t]) \subseteq Ops(chan[s]) /\ chan[s].modes = CreationModes
            BY <1>1, <2>3, <2>4, <2>5, ViewsFollow
        <3>3. chan[s].ts \in Nat /\ chan[t].ts \in Nat
            BY <1>1 DEF IInv, Channel
        <3>4. chan[s].ts = chan[t].ts
            BY <3>1, <3>2, <3>3
        <3> QED BY <3>1, <3>2, <3>4
    <2>6. CASE ~chan[s].exists
        BY <2>4, <2>6
    <2> QED BY <2>5, <2>6
<1> QED BY <1>1, IInvHolds, PairsHold, TruthHolds, PTL
=============================================================================
