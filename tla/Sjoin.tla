------------------------------- MODULE Sjoin -------------------------------
(***************************************************************************)
(* What an SJOIN does to a channel (modules/core/m_sjoin.c): the timestamp *)
(* rule that decides whose modes and whose status survive when two views   *)
(* of one channel meet.  Pure operators over one channel and one received  *)
(* description of it; ChannelTS puts them on a network.                    *)
(*                                                                         *)
(* A limit and a key are merged by their maximum, which is a join like the *)
(* union of the simple modes, so a set of modes stands for all of them.    *)
(* The prefixes are "o" for '@' and "h" for '%'; '+' is treated as '%' is, *)
(* except that send_members counts it.                                     *)
(***************************************************************************)
EXTENDS Naturals

CONSTANTS User, Mode

Prefix == {"o", "h"}
Flag == Prefix \union {"d"}          \* CHFL_DEOPPED

(* struct Channel and the memberships on its list.                         *)
Channel ==
    [exists : BOOLEAN, ts : Nat, modes : SUBSET Mode, on : SUBSET User,
     flags : [User -> SUBSET Flag]]

(* The parameters of SJOIN.  "named" says that the modes field is not "0". *)
Description ==
    [ts : Nat, named : BOOLEAN, modes : SUBSET Mode, nicks : SUBSET User,
     prefix : [User -> SUBSET Prefix]]

NoFlags == [u \in User |-> {}]
NoChannel == [exists |-> FALSE, ts |-> 0, modes |-> {}, on |-> {}, flags |-> NoFlags]

Ops(c) == {u \in c.on : "o" \in c.flags[u]}

-----------------------------------------------------------------------------
(* Both sides have a timestamp, and they differ.                           *)
Conflict(c, d) == c.exists /\ c.ts # 0 /\ d.ts # 0 /\ c.ts # d.ts

(* Mutant of KeepOurs: the loser keeps what it has.                        *)
KeepOurs_Always(c, d) == TRUE

KeepOurs(c, d) == ~(Conflict(c, d) /\ d.ts < c.ts)
KeepNew(c, d)  == ~(Conflict(c, d) /\ d.ts > c.ts)

(* Mutant of FinalTs: the last description wins.                           *)
FinalTs_Last(c, d) == d.ts

(* tstosend, which is also the channelts that is stored.                   *)
FinalTs(c, d) ==
    IF ~c.exists THEN d.ts
    ELSE IF c.ts = 0 \/ d.ts = 0 THEN 0
    ELSE IF d.ts < c.ts THEN d.ts ELSE c.ts

FinalModes(c, d) ==
    (IF KeepOurs(c, d) THEN c.modes ELSE {}) \union (IF KeepNew(c, d) THEN d.modes ELSE {})

(* Mutant of Received: the timestamp is not looked at.                     *)
Received_AsSent(d, keep, u) == d.prefix[u]

(* What a newcomer gets: an op the timestamp takes away is remembered.     *)
Received(d, keep, u) ==
    IF keep THEN d.prefix[u] ELSE IF "o" \in d.prefix[u] THEN {"d"} ELSE {}

(* remove_our_modes clears the status of the members we had, then the      *)
(* nicks are added; one that is a member already is left as it is.         *)
FinalFlags(c, d) ==
    [u \in User |->
        IF u \in d.nicks \ c.on THEN Received(d, KeepNew(c, d), u)
        ELSE IF KeepOurs(c, d) THEN c.flags[u] ELSE c.flags[u] \ Prefix]

(* ms_sjoin on the channel: nobody joining creates nothing.                *)
Accept(c, d) ==
    IF ~c.exists /\ d.nicks = {} THEN NoChannel
    ELSE [exists |-> TRUE, ts |-> FinalTs(c, d), modes |-> FinalModes(c, d),
          on |-> c.on \union d.nicks, flags |-> FinalFlags(c, d)]

(* ms_sjoin as it is sent on: rejected modes become "0" and rejected       *)
(* prefixes are dropped.                                                   *)
Relay(c, d) ==
    LET named == d.named /\ KeepNew(c, d)
    IN  [ts |-> FinalTs(c, d), named |-> named,
         modes |-> IF named THEN FinalModes(c, d) ELSE {},
         nicks |-> d.nicks,
         prefix |-> IF KeepNew(c, d) THEN d.prefix ELSE NoFlags]
=============================================================================
