-------------------------- MODULE ChannelProofs --------------------------
(***************************************************************************)
(* Proofs about the two components of src/channel.c that keep state of     *)
(* this server alone: Memberships, who is on which channel, and SplitMode, *)
(* when nobody may join one.  They share no variable; the proofs are       *)
(* independent.                                                            *)
(*                                                                         *)
(* Memberships, for any number of clients, channels and any limits: the    *)
(* two ends of every list agree, and nothing of a client or a channel that *)
(* has gone is left on any.  The invariants are split by list.  Each part  *)
(* is inductive by itself but for what the invites need to know of the     *)
(* channels.                                                               *)
(*                                                                         *)
(* SplitMode, for any size of the table, any periods and any commands:     *)
(* what its two events leave in the table of events when they run, and     *)
(* when the table is full.                                                 *)
(***************************************************************************)
EXTENDS Memberships, SplitMode, FiniteSetTheorems, WellFoundedInduction, TLAPS

(* The members.                                                            *)
Channels ==
    /\ \A p \in Person, c \in Channel : c \in channel[p] <=> p \in members[c]
    /\ \A c \in Channel : locmembers[c] = members[c] \intersect Local
    /\ \A p \in Person \ here : channel[p] = {}
    /\ \A c \in Channel : members[c] \subseteq here
    /\ \A c \in Channel : c \in exists <=> members[c] # {}
    /\ inviteonly \subseteq exists

(* The invites; only local clients have any, as an SJOIN uses none up.     *)
Invitations ==
    /\ \A p \in Person, c \in Channel : c \in invited[p] <=> p \in invites[c]
    /\ \A c \in Channel : invites[c] \subseteq here \intersect Local
    /\ \A c \in Channel : c \notin exists => invites[c] = {}
    /\ \A c \in Channel : members[c] \intersect invites[c] = {}

(* The accept lists.                                                       *)
Accepts ==
    /\ \A p, q \in Person : q \in allow_list[p] <=> p \in on_allow_list[q]
    /\ \A p \in Person \ here : allow_list[p] = {}
    /\ \A p \in Person : allow_list[p] \subseteq here \intersect known[p]

Inductive == TypeOK /\ Channels /\ Invitations /\ Accepts

(* The parts are the invariants of Memberships.                            *)
LEMMA InductiveImplies ==
    Inductive => EndsAgree /\ NothingOfTheGone /\ InvitesAreUsedUp /\ AcceptsAreForTheNick
<1> SUFFICES ASSUME Inductive
             PROVE  EndsAgree /\ NothingOfTheGone /\ InvitesAreUsedUp /\ AcceptsAreForTheNick
  OBVIOUS
<1> USE DEF Inductive
<1>1. EndsAgree
  BY DEF EndsAgree, Channels, Invitations, Accepts
<1>2. NothingOfTheGone
  <2>1. ASSUME NEW p \in Person \ here PROVE channel[p] = {} /\ invited[p] = {} /\ allow_list[p] = {}
    BY DEF Channels, Invitations, Accepts, TypeOK
  <2>2. \A q \in Person : allow_list[q] \subseteq here
    BY DEF Accepts
  <2>3. \A c \in Channel : members[c] \union invites[c] \subseteq here
    BY DEF Channels, Invitations
  <2>4. \A c \in Channel : c \notin exists => invites[c] = {} /\ c \notin inviteonly
    BY DEF Channels, Invitations
  <2> QED BY <2>1, <2>2, <2>3, <2>4 DEF NothingOfTheGone, Channels
<1>3. InvitesAreUsedUp
  BY DEF InvitesAreUsedUp, Invitations
<1>4. AcceptsAreForTheNick
  BY DEF AcceptsAreForTheNick, Accepts
<1> QED BY <1>1, <1>2, <1>3, <1>4

-----------------------------------------------------------------------------
(* The operators the actions are built from.                               *)

(* add_user_to_channel keeps the members in order.                         *)
LEMMA AddKeepsChannels ==
    ASSUME TypeOK, Channels, NEW p \in here, NEW c \in Channel, NEW op \in BOOLEAN,
           AddUserToChannel(p, c, op), UNCHANGED << here, inviteonly >>
    PROVE  /\ Channels'
           /\ exists' \subseteq Channel /\ channel' \in [Person -> SUBSET Channel]
           /\ members' \in [Channel -> SUBSET Person] /\ locmembers' \in [Channel -> SUBSET Person]
           /\ chanops' \in [Channel -> SUBSET Person]
<1>1. p \in Person
  BY DEF TypeOK
<1>2. /\ exists' \subseteq Channel /\ channel' \in [Person -> SUBSET Channel]
      /\ members' \in [Channel -> SUBSET Person] /\ locmembers' \in [Channel -> SUBSET Person]
      /\ chanops' \in [Channel -> SUBSET Person]
  BY <1>1 DEF AddUserToChannel, TypeOK
<1>3. \A q \in Person : channel'[q] = IF q = p THEN channel[q] \union {c} ELSE channel[q]
  BY <1>1 DEF AddUserToChannel, TypeOK
<1>4. \A d \in Channel : members'[d] = IF d = c THEN members[d] \union {p} ELSE members[d]
  BY DEF AddUserToChannel, TypeOK
<1>5. \A d \in Channel : locmembers'[d] =
          IF d = c /\ p \in Local THEN locmembers[d] \union {p} ELSE locmembers[d]
  BY DEF AddUserToChannel, TypeOK
<1>6. \A d \in Channel : locmembers'[d] = members'[d] \intersect Local
  <2> TAKE d \in Channel
  <2>1. locmembers[d] = members[d] \intersect Local
    BY DEF Channels
  <2>2. CASE d = c /\ p \in Local
    BY <1>4, <1>5, <2>1, <2>2
  <2>3. CASE d = c /\ p \notin Local
    BY <1>4, <1>5, <2>1, <2>3
  <2>4. CASE d # c
    BY <1>4, <1>5, <2>1, <2>4
  <2> QED BY <2>2, <2>3, <2>4
<1>7. \A d \in Channel : d \in exists' <=> members'[d] # {}
  BY <1>4 DEF AddUserToChannel, Channels
<1> QED BY <1>1, <1>2, <1>3, <1>4, <1>6, <1>7 DEF Channels, AddUserToChannel

(* remove_user_from_channel does too, and destroys what it empties.        *)
LEMMA LeaveKeepsChannels ==
    ASSUME TypeOK, Channels, NEW p \in here, NEW cs, cs \subseteq channel[p],
           LeaveChannels(p, cs),
           here' = here \/ (here' = here \ {p} /\ cs = channel[p])
    PROVE  /\ Channels' /\ TypeOK!1' /\ TypeOK!2'
           /\ channel' \in [Person -> SUBSET Channel]
           /\ members' \in [Channel -> SUBSET Person] /\ locmembers' \in [Channel -> SUBSET Person]
           /\ chanops' \in [Channel -> SUBSET Person]
           /\ exists' = exists \ Emptied(p, cs)
           /\ \A c \in Channel : members'[c] = IF c \in cs THEN members[c] \ {p} ELSE members[c]
<1>1. p \in Person /\ cs \subseteq Channel
  BY DEF TypeOK
<1>2. /\ TypeOK!1' /\ TypeOK!2'
      /\ channel' \in [Person -> SUBSET Channel]
      /\ members' \in [Channel -> SUBSET Person] /\ locmembers' \in [Channel -> SUBSET Person]
      /\ chanops' \in [Channel -> SUBSET Person]
  BY <1>1 DEF LeaveChannels, TypeOK
<1>3. \A q \in Person : channel'[q] = IF q = p THEN channel[q] \ cs ELSE channel[q]
  BY <1>1 DEF LeaveChannels, TypeOK
<1>4. \A c \in Channel : members'[c] = IF c \in cs THEN members[c] \ {p} ELSE members[c]
  BY DEF LeaveChannels
<1>5. \A c \in Channel : locmembers'[c] = members'[c] \intersect Local
  BY <1>4 DEF LeaveChannels, Channels
<1>6. \A c \in Channel : c \in exists' <=> members'[c] # {}
  BY <1>1, <1>4 DEF LeaveChannels, Emptied, Channels
<1>7. \A c \in Channel : members'[c] \subseteq here'
  <2> TAKE c \in Channel
  <2>1. members[c] \subseteq here /\ (p \in members[c] => c \in channel[p])
    BY <1>1 DEF Channels
  <2>2. CASE here' = here
    BY <1>4, <2>1, <2>2
  <2>3. CASE here' = here \ {p} /\ cs = channel[p]
    BY <1>4, <2>1, <2>3
  <2> QED BY <2>2, <2>3
<1>8. inviteonly' \subseteq exists'
  <2>1. /\ inviteonly' = inviteonly \ Emptied(p, cs)
        /\ exists' = exists \ Emptied(p, cs)
    BY DEF LeaveChannels
  <2>2. inviteonly \subseteq exists
    BY DEF Channels
  <2> QED BY <2>1, <2>2
<1>9. \A q \in Person \ here' : channel'[q] = {}
  BY <1>3 DEF Channels
<1>10. \A q \in Person, c \in Channel : c \in channel'[q] <=> q \in members'[c]
  <2> TAKE q \in Person, c \in Channel
  <2>1. c \in channel[q] <=> q \in members[c]
    BY DEF Channels
  <2>2. CASE q = p
    BY <1>3, <1>4, <2>1, <2>2
  <2>3. CASE q # p
    BY <1>3, <1>4, <2>1, <2>3
  <2> QED BY <2>2, <2>3
<1>11. exists' = exists \ Emptied(p, cs)
  BY DEF LeaveChannels
<1> QED BY <1>2, <1>4, <1>5, <1>6, <1>7, <1>8, <1>9, <1>10, <1>11 DEF Channels

(* del_all_accepts leaves no trace of a client on any list.                *)
LEMMA DelAllAcceptsIsolates ==
    ASSUME TypeOK, Accepts, NEW p \in Person, DelAllAccepts(p)
    PROVE  /\ allow_list' \in [Person -> SUBSET Person]
           /\ on_allow_list' \in [Person -> SUBSET Person]
           /\ allow_list' = [q \in Person |-> IF q = p THEN {} ELSE allow_list[q] \ {p}]
           /\ \A q, r \in Person : r \in allow_list'[q] <=> q \in on_allow_list'[r]
<1> DEFINE on == [q \in Person |->
              IF q \in allow_list[p] THEN on_allow_list[q] \ {p} ELSE on_allow_list[q]]
<1>1. /\ allow_list' = [q \in Person |->
              IF q = p THEN {} ELSE IF q \in on[p] THEN allow_list[q] \ {p} ELSE allow_list[q]]
      /\ on_allow_list' = [on EXCEPT ![p] = {q \in @ : q = p \/ p \notin allow_list[q]}]
  BY DEF DelAllAccepts
<1>2. \A q \in Person : on[q] = on_allow_list[q] \ {p}
  <2> TAKE q \in Person
  <2>1. q \in allow_list[p] <=> p \in on_allow_list[q]
    BY DEF Accepts
  <2> QED BY <2>1
<1>3. on \in [Person -> SUBSET Person]
  BY DEF TypeOK
<1> HIDE DEF on
<1>4. on_allow_list' = [q \in Person |->
          IF q = p THEN {r \in on[p] : r = p \/ p \notin allow_list[r]} ELSE on[q]]
  BY <1>1, <1>3
<1>5. on_allow_list'[p] = {}
  BY <1>2, <1>4 DEF Accepts, TypeOK
<1>6. allow_list' = [q \in Person |-> IF q = p THEN {} ELSE allow_list[q] \ {p}]
  <2>1. ASSUME NEW q \in Person, q # p
        PROVE  (IF q \in on[p] THEN allow_list[q] \ {p} ELSE allow_list[q]) = allow_list[q] \ {p}
    <3>1. q \in on[p] <=> p \in allow_list[q]
      BY <1>2, <2>1 DEF Accepts
    <3> QED BY <3>1
  <2> QED BY <1>1, <2>1
<1>7. allow_list' \in [Person -> SUBSET Person] /\ on_allow_list' \in [Person -> SUBSET Person]
  BY <1>3, <1>4, <1>6 DEF TypeOK
<1>8. \A q, r \in Person : r \in allow_list'[q] <=> q \in on_allow_list'[r]
  BY <1>2, <1>4, <1>5, <1>6 DEF Accepts
<1> QED BY <1>6, <1>7, <1>8

(* destroy_channel takes the invites of the channels it destroys from both *)
(* ends.                                                                   *)
LEMMA DestroyKeepsInvitations ==
    ASSUME TypeOK, Invitations, NEW gone, gone \subseteq Channel
    PROVE  /\ InvitesWithout(gone) \in [Channel -> SUBSET Person]
           /\ InvitedWithout(gone) \in [Person -> SUBSET Channel]
           /\ \A q \in Person, c \in Channel :
                 c \in InvitedWithout(gone)[q] <=> q \in InvitesWithout(gone)[c]
           /\ \A c \in Channel :
                 InvitesWithout(gone)[c] = IF c \in gone THEN {} ELSE invites[c]
<1>1. /\ InvitesWithout(gone) \in [Channel -> SUBSET Person]
      /\ InvitedWithout(gone) \in [Person -> SUBSET Channel]
  BY DEF InvitesWithout, InvitedWithout, TypeOK
<1>2. \A c \in Channel : InvitesWithout(gone)[c] = IF c \in gone THEN {} ELSE invites[c]
  BY DEF InvitesWithout
<1>3. ASSUME NEW q \in Person, NEW c \in Channel
      PROVE  c \in InvitedWithout(gone)[q] <=> q \in InvitesWithout(gone)[c]
  <2>1. c \in invited[q] <=> q \in invites[c]
    BY DEF Invitations
  <2>2. InvitedWithout(gone)[q] = invited[q] \ {d \in gone : q \in invites[d]}
    BY DEF InvitedWithout
  <2> QED BY <1>2, <2>1, <2>2
<1> QED BY <1>1, <1>2, <1>3

(* add_invite, whether or not it drops an old one.                         *)
LEMMA AddInviteKeeps ==
    ASSUME TypeOK, Channels, Invitations, NEW t \in here \intersect Local, NEW c \in exists,
           c \notin channel[t], AddInvite(t, c), UNCHANGED << here, exists, members >>
    PROVE  /\ Invitations'
           /\ invited' \in [Person -> SUBSET Channel] /\ invites' \in [Channel -> SUBSET Person]
<1> DEFINE Goal == /\ Invitations'
                   /\ invited' \in [Person -> SUBSET Channel]
                   /\ invites' \in [Channel -> SUBSET Person]
<1>1. t \in Person /\ c \in Channel /\ t \notin members[c]
  BY DEF TypeOK, Channels
<1>2. CASE c \in invited[t]
  BY <1>2 DEF AddInvite, Invitations, TypeOK, invitations
<1>3. ASSUME invited' = [invited EXCEPT ![t] = @ \union {c}],
             invites' = [invites EXCEPT ![c] = @ \union {t}]
      PROVE  Goal
  <2>1. \A d \in Channel : invites'[d] = IF d = c THEN invites[d] \union {t} ELSE invites[d]
    BY <1>3 DEF TypeOK
  <2>2. \A p \in Person : invited'[p] = IF p = t THEN invited[p] \union {c} ELSE invited[p]
    BY <1>3 DEF TypeOK
  <2>3. \A p \in Person, d \in Channel : d \in invited'[p] <=> p \in invites'[d]
    <3> TAKE p \in Person, d \in Channel
    <3>1. d \in invited[p] <=> p \in invites[d]
      BY DEF Invitations
    <3> QED BY <2>1, <2>2, <3>1
  <2>4. \A d \in Channel : invites'[d] \subseteq here \intersect Local
    <3> TAKE d \in Channel
    <3>1. invites[d] \subseteq here \intersect Local
      BY DEF Invitations
    <3> QED BY <2>1, <3>1
  <2>5. \A d \in Channel : d \notin exists => invites'[d] = {}
    BY <2>1 DEF Invitations
  <2>6. \A d \in Channel : members[d] \intersect invites'[d] = {}
    <3> TAKE d \in Channel
    <3>1. members[d] \intersect invites[d] = {}
      BY DEF Invitations
    <3> QED BY <1>1, <2>1, <3>1
  <2> QED BY <1>1, <1>3, <2>3, <2>4, <2>5, <2>6 DEF Invitations, TypeOK
<1>4. ASSUME c \notin invited[t], NEW old \in invited[t],
             invited' = [invited EXCEPT ![t] = (@ \ {old}) \union {c}],
             invites' = [invites EXCEPT ![old] = @ \ {t}, ![c] = @ \union {t}]
      PROVE  Goal
  <2>1. old \in Channel /\ old # c
    BY <1>1, <1>4 DEF TypeOK
  <2>2. \A d \in Channel : invites'[d] =
            IF d = c THEN invites[d] \union {t} ELSE IF d = old THEN invites[d] \ {t} ELSE invites[d]
    BY <1>4, <2>1 DEF TypeOK
  <2>3. \A p \in Person : invited'[p] = IF p = t THEN (invited[p] \ {old}) \union {c} ELSE invited[p]
    BY <1>4 DEF TypeOK
  <2>4. ASSUME NEW p \in Person, NEW d \in Channel
        PROVE  d \in invited'[p] <=> p \in invites'[d]
    <3>1. d \in invited[p] <=> p \in invites[d]
      BY DEF Invitations
    <3>2. CASE p = t
      BY <2>1, <2>2, <2>3, <3>1, <3>2
    <3>3. CASE p # t
      BY <2>2, <2>3, <3>1, <3>3
    <3> QED BY <3>2, <3>3
  <2>5. \A d \in Channel : invites'[d] \subseteq here \intersect Local
    <3> TAKE d \in Channel
    <3>1. invites[d] \subseteq here \intersect Local
      BY DEF Invitations
    <3>2. CASE d = c
      BY <2>2, <3>1, <3>2
    <3>3. CASE d # c
      BY <2>2, <3>1, <3>3
    <3> QED BY <3>2, <3>3
  <2>6. \A d \in Channel : d \notin exists => invites'[d] = {}
    BY <2>2 DEF Invitations
  <2>7. \A d \in Channel : members[d] \intersect invites'[d] = {}
    <3> TAKE d \in Channel
    <3>1. members[d] \intersect invites[d] = {}
      BY DEF Invitations
    <3>2. CASE d = c
      BY <1>1, <2>2, <3>1, <3>2
    <3>3. CASE d # c
      BY <2>2, <3>1, <3>3
    <3> QED BY <3>2, <3>3
  <2>8. invited' \in [Person -> SUBSET Channel] /\ invites' \in [Channel -> SUBSET Person]
    BY <1>1, <1>4, <2>1 DEF TypeOK
  <2> QED BY <2>4, <2>5, <2>6, <2>7, <2>8 DEF Invitations
<1>5. CASE c \notin invited[t] /\ Cardinality(invited[t]) < MaxChans
  BY <1>3, <1>5 DEF AddInvite
<1>6. CASE c \notin invited[t] /\ ~(Cardinality(invited[t]) < MaxChans)
  BY <1>4, <1>6 DEF AddInvite
<1> QED BY <1>2, <1>5, <1>6

-----------------------------------------------------------------------------
(* The actions, in the groups that change the same lists.                  *)

(* Of the invites all that matters of the rest is who is here and who is a *)
(* member.                                                                 *)
LEMMA InvitationsFrame ==
    ASSUME Invitations, UNCHANGED invitations, here \subseteq here', exists \subseteq exists',
           \A c \in Channel : members'[c] \intersect Local \subseteq members[c]
    PROVE  Invitations'
BY DEF Invitations, invitations

LEMMA AcceptsFrame ==
    ASSUME Accepts, UNCHANGED accepts, here \subseteq here'
    PROVE  Accepts'
BY DEF Accepts, accepts

LEMMA JoinKeeps ==
    ASSUME Inductive, NEW p \in Person, NEW c \in Channel, Join(p, c)
    PROVE  Inductive'
<1> USE DEF Inductive
<1>1. /\ p \in here \intersect Local /\ p \notin members[c]
      /\ AddUserToChannel(p, c, c \notin exists) /\ DelInvite(p, c)
      /\ UNCHANGED << here, inviteonly, accepts >>
  BY DEF Join
<1>2. /\ Channels'
      /\ exists' \subseteq Channel /\ channel' \in [Person -> SUBSET Channel]
      /\ members' \in [Channel -> SUBSET Person] /\ locmembers' \in [Channel -> SUBSET Person]
      /\ chanops' \in [Channel -> SUBSET Person]
  BY <1>1, AddKeepsChannels
<1>3. \A d \in Channel : invites'[d] = IF d = c THEN invites[d] \ {p} ELSE invites[d]
  BY <1>1 DEF DelInvite, TypeOK
<1>4. \A q \in Person : invited'[q] = IF q = p THEN invited[q] \ {c} ELSE invited[q]
  BY <1>1 DEF DelInvite, TypeOK
<1>5. \A d \in Channel : members'[d] = IF d = c THEN members[d] \union {p} ELSE members[d]
  BY <1>1 DEF AddUserToChannel, TypeOK
<1>6. Invitations'
  <2>1. \A q \in Person, d \in Channel : d \in invited'[q] <=> q \in invites'[d]
    <3> TAKE q \in Person, d \in Channel
    <3>1. d \in invited[q] <=> q \in invites[d]
      BY DEF Invitations
    <3> QED BY <1>3, <1>4, <3>1
  <2>2. \A d \in Channel : invites'[d] \subseteq here' \intersect Local
    <3> TAKE d \in Channel
    <3>1. invites[d] \subseteq here \intersect Local
      BY DEF Invitations
    <3> QED BY <1>1, <1>3, <3>1
  <2>3. \A d \in Channel : d \notin exists' => invites'[d] = {}
    BY <1>1, <1>3 DEF Invitations, AddUserToChannel
  <2>4. \A d \in Channel : members'[d] \intersect invites'[d] = {}
    BY <1>3, <1>5 DEF Invitations
  <2> QED BY <2>1, <2>2, <2>3, <2>4 DEF Invitations
<1>7. Accepts'
  BY <1>1, AcceptsFrame
<1>8. TypeOK'
  BY <1>1, <1>2 DEF TypeOK, DelInvite, accepts
<1> QED BY <1>2, <1>6, <1>7, <1>8

LEMMA SjoinKeeps ==
    ASSUME Inductive, NEW p \in Person, NEW c \in Channel, NEW op \in BOOLEAN, Sjoin(p, c, op)
    PROVE  Inductive'
<1> USE DEF Inductive
<1>1. /\ p \in here \ Local /\ AddUserToChannel(p, c, op)
      /\ UNCHANGED << here, inviteonly, invitations, accepts >>
  BY DEF Sjoin
<1>2. /\ Channels'
      /\ exists' \subseteq Channel /\ channel' \in [Person -> SUBSET Channel]
      /\ members' \in [Channel -> SUBSET Person] /\ locmembers' \in [Channel -> SUBSET Person]
      /\ chanops' \in [Channel -> SUBSET Person]
  BY <1>1, AddKeepsChannels
<1>3. \A d \in Channel : members'[d] \intersect Local \subseteq members[d]
  BY <1>1 DEF AddUserToChannel, TypeOK
<1>4. exists \subseteq exists'
  BY <1>1 DEF AddUserToChannel
<1>5. Invitations' /\ Accepts'
  BY <1>1, <1>3, <1>4, InvitationsFrame, AcceptsFrame
<1>6. TypeOK'
  BY <1>1, <1>2 DEF TypeOK, accepts, invitations
<1> QED BY <1>2, <1>5, <1>6

(* PART, KICK and JOIN 0.                                                  *)
LEMMA LeaveKeeps ==
    ASSUME Inductive, NEW p \in here, NEW cs, cs \subseteq channel[p], Leave(p, cs)
    PROVE  Inductive'
<1> USE DEF Inductive
<1>1. /\ LeaveChannels(p, cs) /\ UNCHANGED << here, accepts >>
      /\ invites' = InvitesWithout(Emptied(p, cs)) /\ invited' = InvitedWithout(Emptied(p, cs))
  BY DEF Leave
<1>2. /\ Channels' /\ TypeOK!1' /\ TypeOK!2'
      /\ channel' \in [Person -> SUBSET Channel]
      /\ members' \in [Channel -> SUBSET Person] /\ locmembers' \in [Channel -> SUBSET Person]
      /\ chanops' \in [Channel -> SUBSET Person]
      /\ exists' = exists \ Emptied(p, cs)
      /\ \A c \in Channel : members'[c] = IF c \in cs THEN members[c] \ {p} ELSE members[c]
  BY <1>1, LeaveKeepsChannels
<1>3. Emptied(p, cs) \subseteq Channel
  BY DEF Emptied, TypeOK
<1>4. /\ invites' \in [Channel -> SUBSET Person] /\ invited' \in [Person -> SUBSET Channel]
      /\ \A q \in Person, c \in Channel : c \in invited'[q] <=> q \in invites'[c]
      /\ \A c \in Channel : invites'[c] = IF c \in Emptied(p, cs) THEN {} ELSE invites[c]
  BY <1>1, <1>3, DestroyKeepsInvitations
<1>5. Invitations'
  <2>1. \A c \in Channel : invites'[c] \subseteq here' \intersect Local
    BY <1>1, <1>4 DEF Invitations
  <2>2. \A c \in Channel : c \notin exists' => invites'[c] = {}
    BY <1>2, <1>4 DEF Invitations
  <2>3. \A c \in Channel : members'[c] \intersect invites'[c] = {}
    BY <1>2, <1>4 DEF Invitations
  <2> QED BY <1>4, <2>1, <2>2, <2>3 DEF Invitations
<1>6. Accepts'
  BY <1>1, AcceptsFrame
<1>7. TypeOK'
  BY <1>1, <1>2, <1>4 DEF TypeOK, accepts
<1> QED BY <1>2, <1>5, <1>6, <1>7

LEMMA InviteKeeps ==
    ASSUME Inductive, NEW p \in Person, NEW t \in Person, NEW c \in Channel, Invite(p, t, c)
    PROVE  Inductive'
<1> USE DEF Inductive
<1>1. /\ t \in here \intersect Local /\ c \in exists /\ c \notin channel[t] /\ AddInvite(t, c)
      /\ UNCHANGED << here, exists, inviteonly, memberships, accepts >>
  BY DEF Invite
<1>2. UNCHANGED << here, exists, members >>
  BY <1>1 DEF memberships
<1>3. /\ Invitations'
      /\ invited' \in [Person -> SUBSET Channel] /\ invites' \in [Channel -> SUBSET Person]
  BY <1>1, <1>2, AddInviteKeeps
<1>4. Channels'
  BY <1>1 DEF Channels, memberships
<1>5. Accepts'
  BY <1>1, AcceptsFrame
<1>6. TypeOK'
  BY <1>1, <1>3 DEF TypeOK, memberships, accepts
<1> QED BY <1>3, <1>4, <1>5, <1>6

LEMMA ExitKeeps ==
    ASSUME Inductive, NEW p \in Person, Exit(p)
    PROVE  Inductive'
<1> USE DEF Inductive
<1> DEFINE gone == Emptied(p, channel[p])
           left == InvitedWithout(gone)
           kept == InvitesWithout(gone)
<1>1. /\ p \in here /\ here' = here \ {p}
      /\ LeaveChannels(p, channel[p])
      /\ invited' = [left EXCEPT ![p] = {}]
      /\ invites' = [c \in Channel |-> IF c \in left[p] THEN kept[c] \ {p} ELSE kept[c]]
      /\ DelAllAccepts(p)
      /\ known' = [q \in Person |-> IF q = p THEN {} ELSE known[q] \ {p}]
  BY DEF Exit
<1>2. /\ Channels' /\ TypeOK!1' /\ TypeOK!2'
      /\ channel' \in [Person -> SUBSET Channel]
      /\ members' \in [Channel -> SUBSET Person] /\ locmembers' \in [Channel -> SUBSET Person]
      /\ chanops' \in [Channel -> SUBSET Person]
      /\ exists' = exists \ gone
      /\ \A c \in Channel : members'[c] = IF c \in channel[p] THEN members[c] \ {p} ELSE members[c]
  BY <1>1, LeaveKeepsChannels
<1>3. gone \subseteq Channel
  BY DEF Emptied, TypeOK
<1>4. /\ kept \in [Channel -> SUBSET Person] /\ left \in [Person -> SUBSET Channel]
      /\ \A q \in Person, c \in Channel : c \in left[q] <=> q \in kept[c]
      /\ \A c \in Channel : kept[c] = IF c \in gone THEN {} ELSE invites[c]
  BY <1>3, DestroyKeepsInvitations
<1> HIDE DEF gone, left, kept
<1>5. \A c \in Channel : invites'[c] = kept[c] \ {p}
  BY <1>1, <1>4
<1>6. \A q \in Person : invited'[q] = IF q = p THEN {} ELSE left[q]
  BY <1>1, <1>4
<1>7. Invitations'
  <2>1. \A q \in Person, c \in Channel : c \in invited'[q] <=> q \in invites'[c]
    BY <1>4, <1>5, <1>6
  <2>2. \A c \in Channel : invites'[c] \subseteq here' \intersect Local
    BY <1>1, <1>4, <1>5 DEF Invitations
  <2>3. \A c \in Channel : c \notin exists' => invites'[c] = {}
    BY <1>2, <1>4, <1>5 DEF Invitations
  <2>4. \A c \in Channel : members'[c] \intersect invites'[c] = {}
    BY <1>2, <1>4, <1>5 DEF Invitations
  <2> QED BY <2>1, <2>2, <2>3, <2>4 DEF Invitations
<1>8. /\ allow_list' \in [Person -> SUBSET Person]
      /\ on_allow_list' \in [Person -> SUBSET Person]
      /\ allow_list' = [q \in Person |-> IF q = p THEN {} ELSE allow_list[q] \ {p}]
      /\ \A q, r \in Person : r \in allow_list'[q] <=> q \in on_allow_list'[r]
  BY <1>1, DelAllAcceptsIsolates
<1>9. Accepts'
  <2>1. \A q \in Person \ here' : allow_list'[q] = {}
    BY <1>1, <1>8 DEF Accepts
  <2>2. \A q \in Person : allow_list'[q] \subseteq here' \intersect known'[q]
    BY <1>1, <1>8 DEF Accepts
  <2> QED BY <1>8, <2>1, <2>2 DEF Accepts
<1>10. TypeOK'
  <2>1. invites' \in [Channel -> SUBSET Person] /\ invited' \in [Person -> SUBSET Channel]
    BY <1>1, <1>4
  <2>2. here' \subseteq Person /\ known' \in [Person -> SUBSET Person]
    BY <1>1 DEF TypeOK
  <2> QED BY <1>2, <1>8, <2>1, <2>2 DEF TypeOK
<1> QED BY <1>2, <1>7, <1>9, <1>10

LEMMA ChangeNickKeeps ==
    ASSUME Inductive, NEW p \in Person, ChangeNick(p)
    PROVE  Inductive'
<1> USE DEF Inductive
<1>1. /\ p \in here /\ DelAllAccepts(p) /\ known' = [q \in Person |-> known[q] \ {p}]
      /\ UNCHANGED << here, exists, inviteonly, memberships, invitations >>
  BY DEF ChangeNick
<1>2. /\ allow_list' \in [Person -> SUBSET Person]
      /\ on_allow_list' \in [Person -> SUBSET Person]
      /\ allow_list' = [q \in Person |-> IF q = p THEN {} ELSE allow_list[q] \ {p}]
      /\ \A q, r \in Person : r \in allow_list'[q] <=> q \in on_allow_list'[r]
  BY <1>1, DelAllAcceptsIsolates
<1>3. Accepts'
  <2>1. \A q \in Person \ here' : allow_list'[q] = {}
    BY <1>1, <1>2 DEF Accepts
  <2>2. \A q \in Person : allow_list'[q] \subseteq here' \intersect known'[q]
    BY <1>1, <1>2 DEF Accepts
  <2> QED BY <1>2, <2>1, <2>2 DEF Accepts
<1>4. Channels'
  BY <1>1 DEF Channels, memberships
<1>5. Invitations'
  BY <1>1 DEF Invitations, invitations, memberships
<1>6. TypeOK'
  BY <1>1, <1>2 DEF TypeOK, memberships, invitations
<1> QED BY <1>3, <1>4, <1>5, <1>6

(* ACCEPT.                                                                 *)
LEMMA AcceptKeeps ==
    ASSUME Inductive, NEW p \in Person, NEW q \in Person, DelFromAccept(p, q) \/ AddAccept(p, q)
    PROVE  Inductive'
<1> USE DEF Inductive
<1>1. {p, q} \subseteq here /\ UNCHANGED << here, exists, inviteonly, memberships, invitations >>
  BY DEF DelFromAccept, AddAccept
<1>2. Channels' /\ Invitations'
  BY <1>1 DEF Channels, Invitations, memberships, invitations
<1>3. CASE DelFromAccept(p, q)
  <2>1. \A r \in Person : allow_list'[r] = IF r = p THEN allow_list[r] \ {q} ELSE allow_list[r]
    BY <1>3 DEF DelFromAccept, TypeOK
  <2>2. \A r \in Person : on_allow_list'[r] = IF r = q THEN on_allow_list[r] \ {p} ELSE on_allow_list[r]
    BY <1>3 DEF DelFromAccept, TypeOK
  <2>3. \A r \in Person : known'[r] = IF r = p THEN known[r] \ {q} ELSE known[r]
    BY <1>3 DEF DelFromAccept, TypeOK
  <2>4. Accepts'
    <3>1. \A r, s \in Person : s \in allow_list'[r] <=> r \in on_allow_list'[s]
      <4> TAKE r, s \in Person
      <4>1. s \in allow_list[r] <=> r \in on_allow_list[s]
        BY DEF Accepts
      <4> QED BY <2>1, <2>2, <4>1
    <3>2. \A r \in Person \ here' : allow_list'[r] = {}
      BY <1>1, <2>1 DEF Accepts
    <3>3. \A r \in Person : allow_list'[r] \subseteq here' \intersect known'[r]
      BY <1>1, <2>1, <2>3 DEF Accepts
    <3> QED BY <3>1, <3>2, <3>3 DEF Accepts
  <2>5. TypeOK'
    BY <1>1, <1>3 DEF DelFromAccept, TypeOK, memberships, invitations
  <2> QED BY <1>2, <2>4, <2>5
<1>4. CASE AddAccept(p, q)
  <2>1. \A r \in Person : allow_list'[r] = IF r = p THEN allow_list[r] \union {q} ELSE allow_list[r]
    BY <1>4 DEF AddAccept, TypeOK
  <2>2. \A r \in Person :
            on_allow_list'[r] = IF r = q THEN on_allow_list[r] \union {p} ELSE on_allow_list[r]
    BY <1>4 DEF AddAccept, TypeOK
  <2>3. \A r \in Person : known'[r] = IF r = p THEN known[r] \union {q} ELSE known[r]
    BY <1>4 DEF AddAccept, TypeOK
  <2>4. Accepts'
    <3>1. \A r, s \in Person : s \in allow_list'[r] <=> r \in on_allow_list'[s]
      <4> TAKE r, s \in Person
      <4>1. s \in allow_list[r] <=> r \in on_allow_list[s]
        BY DEF Accepts
      <4> QED BY <2>1, <2>2, <4>1
    <3>2. \A r \in Person \ here' : allow_list'[r] = {}
      BY <1>1, <2>1 DEF Accepts
    <3>3. \A r \in Person : allow_list'[r] \subseteq here' \intersect known'[r]
      BY <1>1, <2>1, <2>3 DEF Accepts
    <3> QED BY <3>1, <3>2, <3>3 DEF Accepts
  <2>5. TypeOK'
    BY <1>1, <1>4 DEF AddAccept, TypeOK, memberships, invitations
  <2> QED BY <1>2, <2>4, <2>5
<1> QED BY <1>3, <1>4

-----------------------------------------------------------------------------
LEMMA InitHolds == Init => Inductive
<1> SUFFICES ASSUME Init PROVE Inductive
  OBVIOUS
<1>1. TypeOK
  BY DEF Init, TypeOK
<1>2. Channels /\ Invitations /\ Accepts
  BY DEF Init, Channels, Invitations, Accepts
<1> QED BY <1>1, <1>2 DEF Inductive

LEMMA NextKeeps == Inductive /\ [Next]_vars => Inductive'
<1> SUFFICES ASSUME Inductive, [Next]_vars PROVE Inductive'
  OBVIOUS
<1>1. CASE UNCHANGED vars
  <2>1. UNCHANGED << here, exists, inviteonly, channel, members, locmembers, chanops,
                     invited, invites, allow_list, on_allow_list, known >>
    BY <1>1 DEF vars, memberships, invitations, accepts
  <2>2. TypeOK' /\ Channels' /\ Invitations' /\ Accepts'
    BY <2>1 DEF Inductive, TypeOK, Channels, Invitations, Accepts
  <2> QED BY <2>2 DEF Inductive
<1>2. ASSUME NEW p \in Person, Arrive(p) PROVE Inductive'
  <2> USE DEF Inductive
  <2>1. here' = here \union {p} /\ UNCHANGED << exists, inviteonly, memberships, invitations, accepts >>
    BY <1>2 DEF Arrive
  <2>2. Channels'
    BY <2>1 DEF Channels, memberships
  <2>3. Invitations' /\ Accepts'
    BY <2>1 DEF Invitations, Accepts, invitations, accepts, memberships
  <2>4. TypeOK'
    BY <2>1 DEF TypeOK, memberships, invitations, accepts
  <2> QED BY <2>2, <2>3, <2>4
<1>3. ASSUME NEW p \in Person, JoinZero(p) PROVE Inductive'
  BY <1>3, LeaveKeeps DEF JoinZero
<1>4. ASSUME NEW p \in Person, NEW c \in Channel, Part(p, c) PROVE Inductive'
  BY <1>4, LeaveKeeps DEF Part
<1>5. ASSUME NEW c \in Channel, SetInviteOnly(c) PROVE Inductive'
  <2> USE DEF Inductive
  <2>1. /\ c \in exists /\ inviteonly' \subseteq inviteonly \union {c}
        /\ UNCHANGED << here, exists, memberships, invitations, accepts >>
    BY <1>5 DEF SetInviteOnly
  <2>2. Channels'
    BY <2>1 DEF Channels, memberships
  <2>3. Invitations' /\ Accepts'
    BY <2>1 DEF Invitations, Accepts, invitations, accepts, memberships
  <2>4. TypeOK'
    BY <2>1 DEF TypeOK, memberships, invitations, accepts
  <2> QED BY <2>2, <2>3, <2>4
<1> QED
  BY <1>1, <1>2, <1>3, <1>4, <1>5, JoinKeeps, SjoinKeeps, InviteKeeps, ExitKeeps,
     ChangeNickKeeps, AcceptKeeps DEF Next

(* The lists are in order in every reachable state, for any numbers of     *)
(* clients and channels.                                                   *)
THEOREM InductiveHolds == Spec => []Inductive
<1> QED BY InitHolds, NextKeeps, PTL DEF Spec

(* Every variable keeps its type.                                          *)
THEOREM TypesHold == Spec => []TypeOK
<1>1. Inductive => TypeOK
  BY DEF Inductive
<1> QED BY <1>1, InductiveHolds, PTL

(* Both ends of every membership, invite and accept agree: what one of the *)
(* pair is told to drop is what the other one has.                         *)
THEOREM EndsAlwaysAgree == Spec => []EndsAgree
<1> QED BY InductiveHolds, InductiveImplies, PTL

(* No list of a channel or client names one that is gone.                  *)
THEOREM NothingIsLeftBehind == Spec => []NothingOfTheGone
<1> QED BY InductiveHolds, InductiveImplies, PTL

(* An invite is used up by the JOIN it lets through.                       *)
THEOREM InvitesServeOnce == Spec => []InvitesAreUsedUp
<1> QED BY InductiveHolds, InductiveImplies, PTL

(* An accept does not outlive the nick it was given to.                    *)
THEOREM AcceptsEndWithTheNick == Spec => []AcceptsAreForTheNick
<1> QED BY InductiveHolds, InductiveImplies, PTL

-----------------------------------------------------------------------------
(* The limits.                                                             *)
LEMMA ShrinkingStaysBounded ==
    ASSUME ListsAreBounded,
           \A p \in Person : invited'[p] \subseteq invited[p] /\ allow_list'[p] \subseteq allow_list[p]
    PROVE  ListsAreBounded'
<1> SUFFICES ASSUME NEW p \in Person
             PROVE  /\ IsFiniteSet(invited'[p]) /\ Cardinality(invited'[p]) <= MaxChans
                    /\ IsFiniteSet(allow_list'[p]) /\ Cardinality(allow_list'[p]) <= MaxAccept
  BY DEF ListsAreBounded
<1>1. /\ IsFiniteSet(invited[p]) /\ Cardinality(invited[p]) <= MaxChans
      /\ IsFiniteSet(allow_list[p]) /\ Cardinality(allow_list[p]) <= MaxAccept
  BY DEF ListsAreBounded
<1>2. IsFiniteSet(invited'[p]) /\ Cardinality(invited'[p]) <= Cardinality(invited[p])
  BY <1>1, FS_Subset
<1>3. IsFiniteSet(allow_list'[p]) /\ Cardinality(allow_list'[p]) <= Cardinality(allow_list[p])
  BY <1>1, FS_Subset
<1>4. /\ Cardinality(invited[p]) \in Nat /\ Cardinality(invited'[p]) \in Nat
      /\ Cardinality(allow_list[p]) \in Nat /\ Cardinality(allow_list'[p]) \in Nat
  BY <1>1, <1>2, <1>3, FS_CardinalityType
<1> QED BY <1>1, <1>2, <1>3, <1>4, MembershipsAssumption

LEMMA OneMore ==
    ASSUME NEW S, NEW x, NEW n \in Nat, IsFiniteSet(S), Cardinality(S) < n
    PROVE  IsFiniteSet(S \union {x}) /\ Cardinality(S \union {x}) <= n
<1>1. Cardinality(S) \in Nat
  BY FS_CardinalityType
<1>2. IsFiniteSet(S \union {x})
  BY FS_AddElement
<1>3. Cardinality(S \union {x}) = IF x \in S THEN Cardinality(S) ELSE Cardinality(S) + 1
  BY FS_AddElement
<1> QED BY <1>1, <1>2, <1>3

LEMMA OneForAnother ==
    ASSUME NEW S, NEW x, NEW y \in S, NEW n \in Nat, IsFiniteSet(S), Cardinality(S) <= n
    PROVE  /\ IsFiniteSet((S \ {y}) \union {x})
           /\ Cardinality((S \ {y}) \union {x}) <= n
<1>1. IsFiniteSet(S \ {y}) /\ Cardinality(S \ {y}) = Cardinality(S) - 1
  BY FS_RemoveElement
<1>2. Cardinality(S) \in Nat /\ Cardinality(S \ {y}) \in Nat
  BY <1>1, FS_CardinalityType
<1>3. Cardinality(S \ {y}) < n
  BY <1>1, <1>2
<1> QED BY <1>1, <1>3, OneMore

LEMMA InviteStaysBounded ==
    ASSUME TypeOK, ListsAreBounded, NEW t \in Person, NEW c \in Channel, AddInvite(t, c),
           UNCHANGED allow_list
    PROVE  ListsAreBounded'
<1>1. IsFiniteSet(invited[t]) /\ Cardinality(invited[t]) <= MaxChans /\ MaxChans \in Nat
  BY MembershipsAssumption DEF ListsAreBounded
<1>2. CASE c \in invited[t]
  BY <1>2 DEF AddInvite, invitations, ListsAreBounded
<1>3. CASE c \notin invited[t] /\ Cardinality(invited[t]) < MaxChans
  <2>1. invited' = [invited EXCEPT ![t] = @ \union {c}]
    BY <1>3 DEF AddInvite
  <2>2. IsFiniteSet(invited[t] \union {c}) /\ Cardinality(invited[t] \union {c}) <= MaxChans
    BY <1>1, <1>3, OneMore
  <2>3. \A p \in Person : invited'[p] = IF p = t THEN invited[t] \union {c} ELSE invited[p]
    BY <2>1 DEF TypeOK
  <2> QED BY <2>2, <2>3 DEF ListsAreBounded
<1>4. CASE c \notin invited[t] /\ ~(Cardinality(invited[t]) < MaxChans)
  <2>1. PICK old \in invited[t] : invited' = [invited EXCEPT ![t] = (@ \ {old}) \union {c}]
    BY <1>4 DEF AddInvite
  <2>2. /\ IsFiniteSet((invited[t] \ {old}) \union {c})
        /\ Cardinality((invited[t] \ {old}) \union {c}) <= MaxChans
    BY <1>1, OneForAnother
  <2>3. \A p \in Person :
            invited'[p] = IF p = t THEN (invited[t] \ {old}) \union {c} ELSE invited[p]
    BY <2>1 DEF TypeOK
  <2> QED BY <2>2, <2>3 DEF ListsAreBounded
<1> QED BY <1>2, <1>3, <1>4

LEMMA AcceptStaysBounded ==
    ASSUME TypeOK, ListsAreBounded, NEW p \in Person, NEW q \in Person, AddAccept(p, q)
    PROVE  ListsAreBounded'
<1>1. /\ IsFiniteSet(allow_list[p]) /\ Cardinality(allow_list[p]) < MaxAccept /\ MaxAccept \in Nat
      /\ allow_list' = [allow_list EXCEPT ![p] = @ \union {q}]
      /\ UNCHANGED invited
  BY MembershipsAssumption DEF ListsAreBounded, AddAccept, invitations
<1>2. IsFiniteSet(allow_list[p] \union {q}) /\ Cardinality(allow_list[p] \union {q}) <= MaxAccept
  BY <1>1, OneMore
<1>3. \A r \in Person : allow_list'[r] = IF r = p THEN allow_list[p] \union {q} ELSE allow_list[r]
  BY <1>1 DEF TypeOK
<1> QED BY <1>1, <1>2, <1>3 DEF ListsAreBounded

(* Neither list ever exceeds what the configuration allows.                *)
THEOREM ListsStayBounded == Spec => []ListsAreBounded
<1>1. Init => ListsAreBounded
  BY FS_EmptySet, MembershipsAssumption DEF Init, ListsAreBounded
<1>2. Inductive /\ ListsAreBounded /\ [Next]_vars => ListsAreBounded'
  <2> SUFFICES ASSUME Inductive, ListsAreBounded, [Next]_vars PROVE ListsAreBounded'
    OBVIOUS
  <2> USE DEF Inductive
  <2> DEFINE Smaller == \A p \in Person :
                 invited'[p] \subseteq invited[p] /\ allow_list'[p] \subseteq allow_list[p]
  <2>1. CASE UNCHANGED << invitations, accepts >>
    BY <2>1 DEF invitations, accepts, ListsAreBounded
  <2>2. ASSUME NEW p \in Person, NEW c \in Channel, Join(p, c) PROVE Smaller
    BY <2>2 DEF Join, DelInvite, accepts, TypeOK
  <2>3. ASSUME NEW p \in here, NEW cs, cs \subseteq channel[p], Leave(p, cs) PROVE Smaller
    BY <2>3 DEF Leave, InvitedWithout, accepts, TypeOK
  <2>4. ASSUME NEW p \in Person, Exit(p) PROVE Smaller
    <3>1. allow_list' = [q \in Person |-> IF q = p THEN {} ELSE allow_list[q] \ {p}]
      BY <2>4, DelAllAcceptsIsolates DEF Exit
    <3>2. invited' = [InvitedWithout(Emptied(p, channel[p])) EXCEPT ![p] = {}]
      BY <2>4 DEF Exit
    <3>3. \A q \in Person : invited'[q] \subseteq invited[q]
      BY <3>2 DEF InvitedWithout
    <3> QED BY <3>1, <3>3
  <2>5. ASSUME NEW p \in Person, ChangeNick(p) PROVE Smaller
    <3>1. allow_list' = [q \in Person |-> IF q = p THEN {} ELSE allow_list[q] \ {p}]
      BY <2>5, DelAllAcceptsIsolates DEF ChangeNick
    <3> QED BY <2>5, <3>1 DEF ChangeNick, invitations
  <2>6. ASSUME NEW p \in Person, NEW q \in Person, DelFromAccept(p, q) PROVE Smaller
    BY <2>6 DEF DelFromAccept, invitations, TypeOK
  <2>7. ASSUME NEW p \in Person, NEW t \in Person, NEW c \in Channel, Invite(p, t, c)
        PROVE  ListsAreBounded'
    BY <2>7, InviteStaysBounded DEF Invite, accepts
  <2>8. Smaller => ListsAreBounded'
    BY ShrinkingStaysBounded
  <2> HIDE DEF Smaller
  <2>9. ASSUME Next PROVE ListsAreBounded'
    <3>1. CASE \E p \in Person : Arrive(p)
      BY <2>1, <3>1 DEF Arrive
    <3>2. CASE \E p \in Person : JoinZero(p) \/ ChangeNick(p) \/ Exit(p)
      BY <2>3, <2>4, <2>5, <2>8, <3>2 DEF JoinZero
    <3>3. CASE \E p \in Person, c \in Channel : Join(p, c) \/ Part(p, c)
      BY <2>2, <2>3, <2>8, <3>3 DEF Part
    <3>4. CASE \E p \in Person, c \in Channel, op \in BOOLEAN : Sjoin(p, c, op)
      BY <2>1, <3>4 DEF Sjoin
    <3>5. CASE \E c \in Channel : SetInviteOnly(c)
      BY <2>1, <3>5 DEF SetInviteOnly
    <3>6. CASE \E p, q \in Person : DelFromAccept(p, q) \/ AddAccept(p, q)
      BY <2>6, <2>8, <3>6, AcceptStaysBounded
    <3> QED BY <2>7, <2>9, <3>1, <3>2, <3>3, <3>4, <3>5, <3>6 DEF Next
  <2>10. CASE UNCHANGED vars
    BY <2>1, <2>10 DEF vars
  <2> QED BY <2>9, <2>10
<1> QED BY <1>1, <1>2, InductiveHolds, PTL DEF Spec

-----------------------------------------------------------------------------
(* Every row has a first one: the order of Nat is well founded.            *)
LEMMA LeastExists ==
    ASSUME NEW S \in SUBSET Nat, S # {}
    PROVE  \E m \in S : \A n \in S : m <= n
<1>1. PICK m \in S : \A n \in S : ~(<<n, m>> \in OpToRel(<, Nat))
  BY WFMin, NatLessThanWellFounded
<1>2. \A n \in S : ~(n < m)
  BY <1>1 DEF OpToRel
<1> QED BY <1>2

(* First is in the set it is the first of.                                 *)
LEMMA FirstIn ==
    ASSUME NEW S \in SUBSET Slot, S # {}
    PROVE  First(S) \in S
<1>1. S \in SUBSET Nat
  BY EventAssumption DEF Slot
<1>2. \E m \in S : \A n \in S : m <= n
  BY <1>1, LeastExists
<1> QED BY <1>2 DEF First

(* The types of the columns of a Table.                                    *)
LEMMA TableFields ==
    ASSUME NEW tab \in Table
    PROVE  /\ tab.func \in [Slot -> Func \union {NoFunc}]
           /\ tab.when \in [Slot -> Nat]
           /\ tab.frequency \in [Slot -> Nat]
           /\ tab.min \in Nat \union {-1}
BY DEF Table

(* What a change of the table does to the functions and frequencies of its *)
(* rows, which is all the properties look at.                              *)
SameRows(tab, new) == new.func = tab.func /\ new.frequency = tab.frequency

Filled(tab, new, n, f, frequency) ==
    /\ n \in Slot \ Active(tab)
    /\ new.func = [tab.func EXCEPT ![n] = f]
    /\ new.frequency = [tab.frequency EXCEPT ![n] = frequency]

Vacated(tab, new, n) ==
    new.func = [tab.func EXCEPT ![n] = NoFunc] /\ new.frequency = tab.frequency

(* eventAdd and eventAddOnce fill one inactive row, or nothing when there  *)
(* is none.                                                                *)
LEMMA ScheduleRows ==
    ASSUME NEW tab \in Table, NEW f \in Func, NEW when \in Nat, NEW frequency \in Nat
    PROVE  /\ Schedule(tab, f, when, frequency) \in Table
           /\ \/ Active(tab) = Slot /\ Schedule(tab, f, when, frequency) = tab
              \/ \E n \in Slot : Filled(tab, Schedule(tab, f, when, frequency), n, f, frequency)
<1>0. Active(tab) \subseteq Slot
  BY DEF Active
<1>1. CASE Active(tab) = Slot
  BY <1>1 DEF Schedule
<1>2. CASE Active(tab) # Slot
  <2> DEFINE n == First(Slot \ Active(tab))
             new == Schedule(tab, f, when, frequency)
  <2>1. n \in Slot \ Active(tab)
    BY <1>0, <1>2, FirstIn
  <2>2. new = [tab EXCEPT !.func[n] = f, !.when[n] = when, !.frequency[n] = frequency,
                          !.min = Earlier(@, when)]
    BY <1>2 DEF Schedule
  <2>3. Earlier(tab.min, when) \in Nat \union {-1}
    BY TableFields DEF Earlier
  <2> HIDE DEF n, new
  <2>4. new = [func |-> [tab.func EXCEPT ![n] = f], when |-> [tab.when EXCEPT ![n] = when],
               frequency |-> [tab.frequency EXCEPT ![n] = frequency],
               min |-> Earlier(tab.min, when)]
    BY <2>2 DEF Table
  <2>5. new \in Table
    BY <2>1, <2>3, <2>4, TableFields DEF Table
  <2>6. Filled(tab, new, n, f, frequency)
    BY <2>1, <2>4 DEF Filled
  <2> QED BY <2>1, <2>5, <2>6 DEF new
<1> QED BY <1>1, <1>2

(* eventDelete empties one row of the function, or nothing when there is   *)
(* none.                                                                   *)
LEMMA DeleteRows ==
    ASSUME NEW tab \in Table, NEW f \in Func
    PROVE  /\ eventDelete(tab, f) \in Table
           /\ \/ Rows(tab, f) = {} /\ eventDelete(tab, f) = tab
              \/ \E n \in Rows(tab, f) : Vacated(tab, eventDelete(tab, f), n)
<1>1. CASE Rows(tab, f) = {}
  BY <1>1 DEF eventDelete
<1>2. CASE Rows(tab, f) # {}
  <2> DEFINE n == First(Rows(tab, f))
             new == eventDelete(tab, f)
  <2>1. n \in Rows(tab, f) /\ n \in Slot
    BY <1>2, FirstIn DEF Rows
  <2>2. new = [tab EXCEPT !.func[n] = NoFunc]
    BY <1>2 DEF eventDelete
  <2> HIDE DEF n, new
  <2>3. new = [func |-> [tab.func EXCEPT ![n] = NoFunc], when |-> tab.when,
               frequency |-> tab.frequency, min |-> tab.min]
    BY <2>2 DEF Table
  <2>4. new \in Table
    BY <2>1, <2>3, TableFields DEF Table
  <2>5. Vacated(tab, new, n)
    BY <2>3 DEF Vacated
  <2> QED BY <2>1, <2>4, <2>5 DEF new
<1> QED BY <1>1, <1>2

(* What eventRun does to the row whose function it has called.             *)
LEMMA RescheduledRows ==
    ASSUME NEW tab \in Table, NEW n \in Slot
    PROVE  /\ Rescheduled(tab, n) \in Table
           /\ tab.frequency[n] = 0 => Vacated(tab, Rescheduled(tab, n), n)
           /\ tab.frequency[n] # 0 => SameRows(tab, Rescheduled(tab, n))
<1> DEFINE f == IF tab.frequency[n] = 0 THEN NoFunc ELSE tab.func[n]
           new == Rescheduled(tab, n)
<1>1. new = [tab EXCEPT !.func[n] = f, !.when[n] = tab.frequency[n], !.min = -1]
  BY DEF Rescheduled
<1>2. f \in Func \union {NoFunc} /\ tab.frequency[n] \in Nat
  BY TableFields
<1>3. new = [func |-> [tab.func EXCEPT ![n] = f],
             when |-> [tab.when EXCEPT ![n] = tab.frequency[n]],
             frequency |-> tab.frequency, min |-> -1]
  <2> HIDE DEF f, new
  <2> QED BY <1>1 DEF Table
<1>4. new \in Table
  <2> HIDE DEF f, new
  <2> QED BY <1>2, <1>3, TableFields DEF Table
<1>5. tab.frequency[n] = 0 => Vacated(tab, new, n)
  <2> HIDE DEF new
  <2> QED BY <1>3 DEF Vacated
<1>6. tab.frequency[n] # 0 => SameRows(tab, new)
  <2> HIDE DEF new
  <2> QED BY <1>3, TableFields DEF SameRows
<1> QED BY <1>4, <1>5, <1>6

(* eventNextTime, and the steps of the clock: they change no row.          *)
LEMMA NextTimeType ==
    ASSUME NEW tab \in Table
    PROVE  NextTime(tab) \in Nat \union {-1}
<1>1. CASE tab.min # -1 \/ Active(tab) = {}
  BY <1>1, TableFields DEF NextTime
<1>2. CASE tab.min = -1 /\ Active(tab) # {}
  <2> DEFINE W == {tab.when[n] : n \in Active(tab)}
  <2>1. W \subseteq Nat /\ W # {}
    BY <1>2, TableFields DEF Active
  <2>2. PICK w \in W : \A v \in W : w <= v
    BY <2>1, LeastExists
  <2>3. \A n \in Active(tab) : w <= tab.when[n]
    BY <2>2
  <2>4. NextTime(tab) \in W
    BY <1>2, <2>2, <2>3 DEF NextTime
  <2> QED BY <2>1, <2>4
<1> QED BY <1>1, <1>2, TableFields

LEMMA TimesRows ==
    ASSUME NEW tab \in Table, NEW d \in Nat, NEW m \in Nat \union {-1}
    PROVE  /\ Later(tab, d) \in Table /\ SameRows(tab, Later(tab, d))
           /\ SetBack(tab, d) \in Table /\ SameRows(tab, SetBack(tab, d))
           /\ [tab EXCEPT !.min = m] \in Table /\ SameRows(tab, [tab EXCEPT !.min = m])
<1>1. \A n \in Nat : Down(n, d) \in Nat
  BY DEF Down
<1>2. /\ Later(tab, d) =
            [func |-> tab.func, when |-> [n \in Slot |-> Down(tab.when[n], d)],
             frequency |-> tab.frequency,
             min |-> IF tab.min = -1 THEN tab.min ELSE Down(tab.min, d)]
  <2> DEFINE W == [n \in Slot |-> Down(tab.when[n], d)]
             M == IF tab.min = -1 THEN tab.min ELSE Down(tab.min, d)
  <2>1. Later(tab, d) = [tab EXCEPT !.when = W, !.min = M]
    BY DEF Later
  <2> HIDE DEF W, M
  <2>2. Later(tab, d) = [func |-> tab.func, when |-> W, frequency |-> tab.frequency, min |-> M]
    BY <2>1 DEF Table
  <2> QED BY <2>2 DEF W, M
<1>6. /\ SetBack(tab, d) =
            [func |-> tab.func, when |-> tab.when, frequency |-> tab.frequency,
             min |-> IF tab.min = -1 THEN tab.min ELSE tab.min + d]
  BY DEF SetBack, Table
<1>7. [tab EXCEPT !.min = m] =
            [func |-> tab.func, when |-> tab.when, frequency |-> tab.frequency, min |-> m]
  BY DEF Table
<1>3. (IF tab.min = -1 THEN tab.min ELSE Down(tab.min, d)) \in Nat \union {-1}
  BY <1>1, TableFields
<1>4. (IF tab.min = -1 THEN tab.min ELSE tab.min + d) \in Nat \union {-1}
  BY TableFields
<1>5. [n \in Slot |-> Down(tab.when[n], d)] \in [Slot -> Nat]
  BY <1>1, TableFields
<1> QED BY <1>2, <1>3, <1>4, <1>5, <1>6, <1>7, TableFields DEF Table, SameRows

-----------------------------------------------------------------------------
IsSplit(tab, n) == tab.func[n] \in {"check_splitmode", "finish_splitmode"}
Watched(tab)    == \E n \in Slot : IsSplit(tab, n)
Single(tab)     == \A m, n \in Slot : IsSplit(tab, m) /\ IsSplit(tab, n) => m = n

(* There is one event besides those of split mode, and only                *)
(* finish_splitmode is for once.                                           *)
Sane(tab) ==
    /\ tab \in Table
    /\ \A m, n \in Slot :
         tab.func[m] = "exit_aborted_clients" /\ tab.func[n] = "exit_aborted_clients" => m = n
    /\ \A n \in Slot :
         /\ tab.func[n] = "finish_splitmode" => tab.frequency[n] = 0
         /\ tab.func[n] \in {"check_splitmode", "exit_aborted_clients"} => tab.frequency[n] # 0

Scheduled ==
    /\ Sane(events)
    /\ splitmode /\ "ON" \notin used => splitchecking /\ Watched(events)
    /\ used = {} => Single(events) /\ (Watched(events) => splitmode)

SplitInv == SplitTypeOK /\ SplitIsNoticed /\ Scheduled

(* What it says of SplitMode: the invariants the run checks.               *)
LEMMA SplitInvMeans == SplitInv => SplitTypeOK /\ SplitIsNoticed /\ SomethingWillCheck
<1> SUFFICES ASSUME SplitInv PROVE SomethingWillCheck
  BY DEF SplitInv
<1>1. SplitRows = {n \in Slot : IsSplit(events, n)}
  BY DEF SplitRows, Rows, IsSplit
<1>2. Watched(events) => SplitRows # {}
  BY <1>1 DEF Watched
<1>3. ASSUME Single(events) PROVE Cardinality(SplitRows) <= 1
  <2>1. CASE SplitRows = {}
    BY <2>1, FS_EmptySet
  <2>2. CASE SplitRows # {}
    <3>1. PICK n \in SplitRows : TRUE
      BY <2>2
    <3>2. SplitRows = {n}
      BY <1>1, <1>3, <3>1 DEF Single
    <3>3. Cardinality(SplitRows) = 1
      BY <3>2, FS_Singleton
    <3> QED BY <3>3
  <2> QED BY <2>1, <2>2
<1> QED BY <1>2, <1>3 DEF SplitInv, Scheduled, SomethingWillCheck

(* The change of the rows decides what becomes of the three.               *)
LEMMA SameSane ==
    ASSUME NEW tab \in Table, NEW new \in Table, SameRows(tab, new)
    PROVE  /\ Sane(tab) => Sane(new)
           /\ Watched(tab) <=> Watched(new)
           /\ Single(tab) <=> Single(new)
BY DEF SameRows, Sane, Watched, Single, IsSplit

LEMMA VacatedSane ==
    ASSUME NEW tab \in Table, NEW new \in Table, NEW n \in Slot, Vacated(tab, new, n)
    PROVE  /\ Sane(tab) => Sane(new)
           /\ \A m \in Slot : IsSplit(new, m) <=> m # n /\ IsSplit(tab, m)
<1>1. NoFunc \notin {"check_splitmode", "finish_splitmode", "exit_aborted_clients"}
  BY EventAssumption, SplitAssumption
<1>2. \A m \in Slot : new.func[m] = IF m = n THEN NoFunc ELSE tab.func[m]
  BY TableFields DEF Vacated
<1>3. new.frequency = tab.frequency
  BY DEF Vacated
<1> QED BY <1>1, <1>2, <1>3 DEF Sane, IsSplit

LEMMA FilledSane ==
    ASSUME NEW tab \in Table, NEW new \in Table, NEW n \in Slot,
           NEW f \in {"check_splitmode", "finish_splitmode"}, NEW frequency \in Nat,
           frequency = 0 <=> f = "finish_splitmode",
           Filled(tab, new, n, f, frequency)
    PROVE  /\ Sane(tab) => Sane(new)
           /\ \A m \in Slot : IsSplit(new, m) <=> m = n \/ IsSplit(tab, m)
           /\ \A m \in Active(tab) :
                new.func[m] = tab.func[m] /\ new.frequency[m] = tab.frequency[m] /\ m # n
<1>1. \A m \in Slot : new.func[m] = IF m = n THEN f ELSE tab.func[m]
  BY TableFields DEF Filled
<1>2. \A m \in Slot : new.frequency[m] = IF m = n THEN frequency ELSE tab.frequency[m]
  BY TableFields DEF Filled
<1>3. \A m \in Active(tab) : m \in Slot /\ m # n
  BY DEF Active, Filled
<1>4. Sane(tab) => Sane(new)
  BY <1>1, <1>2 DEF Sane
<1> QED BY <1>1, <1>2, <1>3, <1>4 DEF IsSplit

(* In a full table two rows or more are about split mode.                  *)
LEMMA FullWatches ==
    ASSUME NEW tab, Sane(tab), Active(tab) = Slot, NEW s
    PROVE  \E n \in Slot \ {s} : IsSplit(tab, n)
<1>1. 1 \in Slot /\ 2 \in Slot /\ 3 \in Slot
  BY EventAssumption, SplitAssumption DEF Slot
<1>2. \A n \in Slot : tab.func[n] = "exit_aborted_clients" \/ IsSplit(tab, n)
  BY TableFields, SplitAssumption DEF Sane, Active, IsSplit
<1> QED BY <1>1, <1>2 DEF Sane

(* Adding an event of split mode.                                          *)
Added(tab, new, f) ==
    /\ Sane(new)
    /\ \A m \in Slot : new.func[m] \in {tab.func[m], f}
    /\ \A s : (\A n \in Slot \ Active(tab) : s # n) => \E n \in Slot \ {s} : IsSplit(new, n)
    /\ \A m \in Active(tab) :
         new.func[m] = tab.func[m] /\ new.frequency[m] = tab.frequency[m]
    /\ Single(tab) =>
         \/ new = tab
         \/ \E n \in Slot \ Active(tab) :
              \A m \in Slot : IsSplit(new, m) <=> m = n \/ IsSplit(tab, m)

Settled(f, frequency) == frequency = 0 <=> f = "finish_splitmode"

LEMMA AddSane ==
    ASSUME NEW tab, Sane(tab),
           NEW f \in {"check_splitmode", "finish_splitmode"},
           NEW when \in Nat, NEW frequency \in Nat, Settled(f, frequency)
    PROVE  Added(tab, Schedule(tab, f, when, frequency), f)
<1> DEFINE new == Schedule(tab, f, when, frequency)
<1> SUFFICES Added(tab, new, f)
  OBVIOUS
<1> HIDE DEF new
<1> USE DEF Settled, Added
<1>1. tab \in Table /\ f \in Func
  BY SplitAssumption DEF Sane
<1>2. new \in Table /\ (\/ Active(tab) = Slot /\ new = tab
                        \/ \E n \in Slot : Filled(tab, new, n, f, frequency))
  BY <1>1, ScheduleRows DEF new
<1>3. CASE Active(tab) = Slot /\ new = tab
  BY <1>3, FullWatches
<1>4. CASE \E n \in Slot : Filled(tab, new, n, f, frequency)
  <2>1. PICK n \in Slot : Filled(tab, new, n, f, frequency)
    BY <1>4
  <2>2. /\ Sane(new)
        /\ \A m \in Slot : IsSplit(new, m) <=> m = n \/ IsSplit(tab, m)
        /\ \A m \in Active(tab) :
             new.func[m] = tab.func[m] /\ new.frequency[m] = tab.frequency[m] /\ m # n
    BY <1>1, <1>2, <2>1, FilledSane
  <2>3. n \in Slot \ Active(tab)
    BY <2>1 DEF Filled
  <2>4. \A m \in Slot : new.func[m] \in {tab.func[m], f}
    BY <1>1, <2>1, TableFields DEF Filled
  <2> QED BY <2>2, <2>3, <2>4
<1> QED BY <1>2, <1>3, <1>4

(* Deleting a check.                                                       *)
LEMMA DeleteSane ==
    ASSUME NEW tab, Sane(tab), NEW new, new = eventDelete(tab, "check_splitmode")
    PROVE  /\ Sane(new)
           /\ \A m \in Slot : new.frequency[m] = tab.frequency[m]
           /\ \/ new = tab /\ \A m \in Slot : tab.func[m] # "check_splitmode"
              \/ \E n \in Slot :
                   /\ tab.func[n] = "check_splitmode"
                   /\ \A m \in Slot : IsSplit(new, m) <=> m # n /\ IsSplit(tab, m)
<1>1. tab \in Table /\ "check_splitmode" \in Func
  BY SplitAssumption DEF Sane
<1>2. new \in Table /\ (\/ Rows(tab, "check_splitmode") = {} /\ new = tab
                        \/ \E n \in Rows(tab, "check_splitmode") : Vacated(tab, new, n))
  BY <1>1, DeleteRows
<1>3. CASE Rows(tab, "check_splitmode") = {} /\ new = tab
  BY <1>3 DEF Rows
<1>4. CASE \E n \in Rows(tab, "check_splitmode") : Vacated(tab, new, n)
  <2>1. PICK n \in Rows(tab, "check_splitmode") : Vacated(tab, new, n)
    BY <1>4
  <2>2. n \in Slot /\ tab.func[n] = "check_splitmode"
    BY <2>1 DEF Rows
  <2>3. Sane(new) /\ \A m \in Slot : IsSplit(new, m) <=> m # n /\ IsSplit(tab, m)
    BY <1>1, <1>2, <2>1, <2>2, VacatedSane
  <2> QED BY <2>1, <2>2, <2>3 DEF Vacated
<1> QED BY <1>2, <1>3, <1>4

-----------------------------------------------------------------------------

(* A check is added; a check is pulled; a finish is added for a check.     *)
LEMMA AddCheck ==
    ASSUME NEW tab, Sane(tab), NEW p \in Nat \ {0},
           NEW new, new = eventAdd(tab, "check_splitmode", p)
    PROVE  /\ Sane(new) /\ Watched(new)
           /\ \A m \in Active(tab) :
                new.func[m] = tab.func[m] /\ new.frequency[m] = tab.frequency[m]
           /\ \A m \in Active(tab) : \E n \in Slot \ {m} : IsSplit(new, n)
           /\ Single(tab) =>
                \/ new = tab
                \/ \E n \in Slot \ Active(tab) :
                     \A m \in Slot : IsSplit(new, m) <=> m = n \/ IsSplit(tab, m)
<1>1. new = Schedule(tab, "check_splitmode", p, p)
  BY DEF eventAdd
<1>2. p \in Nat /\ Settled("check_splitmode", p)
  BY DEF Settled
<1>3. Added(tab, new, "check_splitmode")
  BY <1>1, <1>2, AddSane
<1>4. \A n \in Slot \ Active(tab) : 0 # n
  BY EventAssumption DEF Slot
<1>5. Watched(new)
  BY <1>3, <1>4 DEF Watched, Added
<1>6. \A m \in Active(tab) : \A n \in Slot \ Active(tab) : m # n
  OBVIOUS
<1> QED BY <1>3, <1>5, <1>6 DEF Added

LEMMA PullCheck ==
    ASSUME NEW tab, Sane(tab), NEW new, new = eventDelete(tab, "check_splitmode")
    PROVE  /\ Sane(new)
           /\ \A m \in Active(tab) : new.frequency[m] = tab.frequency[m]
           /\ Single(tab) /\ (\E m \in Slot : tab.func[m] = "check_splitmode") =>
                Single(new) /\ ~Watched(new)
<1>1. /\ Sane(new)
      /\ \A m \in Slot : new.frequency[m] = tab.frequency[m]
      /\ \/ new = tab /\ \A m \in Slot : tab.func[m] # "check_splitmode"
         \/ \E n \in Slot :
              /\ tab.func[n] = "check_splitmode"
              /\ \A m \in Slot : IsSplit(new, m) <=> m # n /\ IsSplit(tab, m)
  BY DeleteSane
<1>2. ASSUME Single(tab), \E m \in Slot : tab.func[m] = "check_splitmode"
      PROVE  Single(new) /\ ~Watched(new)
  <2>1. PICK n \in Slot : /\ tab.func[n] = "check_splitmode"
                          /\ \A m \in Slot : IsSplit(new, m) <=> m # n /\ IsSplit(tab, m)
    BY <1>1, <1>2
  <2>2. IsSplit(tab, n)
    BY <2>1 DEF IsSplit
  <2> QED BY <1>2, <2>1, <2>2 DEF Single, Watched
<1>3. Active(tab) \subseteq Slot
  BY DEF Active
<1> QED BY <1>1, <1>2, <1>3

LEMMA FinishForCheck ==
    ASSUME NEW tab, Sane(tab), NEW when \in Nat,
           NEW new,
           new = eventDelete(eventAddOnce(tab, "finish_splitmode", when), "check_splitmode")
    PROVE  /\ Sane(new) /\ Watched(new)
           /\ \A m \in Active(tab) : new.frequency[m] = tab.frequency[m]
           /\ Single(tab) /\ (\E m \in Slot : tab.func[m] = "check_splitmode") => Single(new)
<1>1. PICK mid : mid = Schedule(tab, "finish_splitmode", when, 0)
  OBVIOUS
<1>2. new = eventDelete(mid, "check_splitmode")
  BY <1>1 DEF eventAddOnce
<1>3. Added(tab, mid, "finish_splitmode")
  <2>1. 0 \in Nat /\ Settled("finish_splitmode", 0)
    BY DEF Settled
  <2> QED BY <1>1, <2>1, AddSane
<1> USE DEF Added
<1>4. /\ Sane(new)
      /\ \A m \in Slot : new.frequency[m] = mid.frequency[m]
      /\ \/ new = mid /\ \A m \in Slot : mid.func[m] # "check_splitmode"
         \/ \E n \in Slot :
              /\ mid.func[n] = "check_splitmode"
              /\ \A m \in Slot : IsSplit(new, m) <=> m # n /\ IsSplit(mid, m)
  BY <1>2, <1>3, DeleteSane
<1>5. Active(tab) \subseteq Slot
  BY DEF Active
<1>6. \A m \in Slot : mid.func[m] = "check_splitmode" => m \in Active(tab) /\ tab.func[m] = "check_splitmode"
  BY <1>3, EventAssumption, SplitAssumption DEF Active
<1>7. Watched(new)
  <2>1. CASE new = mid
    <3>1. \A n \in Slot \ Active(tab) : 0 # n
      BY EventAssumption DEF Slot
    <3> QED BY <1>3, <2>1, <3>1 DEF Watched
  <2>2. CASE \E n \in Slot :
               /\ mid.func[n] = "check_splitmode"
               /\ \A m \in Slot : IsSplit(new, m) <=> m # n /\ IsSplit(mid, m)
    <3>1. PICK n \in Slot :
               /\ mid.func[n] = "check_splitmode"
               /\ \A m \in Slot : IsSplit(new, m) <=> m # n /\ IsSplit(mid, m)
      BY <2>2
    <3>2. \A m \in Slot \ Active(tab) : n # m
      BY <1>6, <3>1
    <3>3. \E m \in Slot \ {n} : IsSplit(mid, m)
      BY <1>3, <3>2
    <3> QED BY <3>1, <3>3 DEF Watched
  <2> QED BY <1>4, <2>1, <2>2
<1>8. ASSUME Single(tab), \E m \in Slot : tab.func[m] = "check_splitmode"
      PROVE  Single(new)
  <2>1. PICK c \in Slot : tab.func[c] = "check_splitmode"
    BY <1>8
  <2>2. \A m \in Slot : IsSplit(tab, m) <=> m = c
    BY <1>8, <2>1 DEF Single, IsSplit
  <2>3. mid.func[c] = "check_splitmode"
    BY <1>3, <2>1, EventAssumption, SplitAssumption DEF Active
  <2>4. \A m \in Slot : IsSplit(new, m) => m # c /\ IsSplit(mid, m)
    BY <1>4, <1>6, <2>2, <2>3 DEF IsSplit
  <2>5. CASE mid = tab
    BY <2>2, <2>4, <2>5 DEF Single
  <2>6. CASE \E n \in Slot \ Active(tab) :
               \A m \in Slot : IsSplit(mid, m) <=> m = n \/ IsSplit(tab, m)
    BY <2>2, <2>4, <2>6 DEF Single
  <2> QED BY <1>3, <1>8, <2>5, <2>6
<1> QED BY <1>3, <1>4, <1>5, <1>7, <1>8

CheckOutcome(o, checking, mode, counts, tab, p) ==
    \/ /\ ~checking \/ ~no_on_split \/ mode = Low(counts)
       /\ o.splitmode = mode /\ o.events = tab
    \/ /\ Low(counts) /\ ~mode /\ checking
       /\ o.splitmode = TRUE /\ o.events = eventAdd(tab, "check_splitmode", p)
    \/ /\ ~Low(counts) /\ mode /\ checking
       /\ o.splitmode = FALSE /\ o.events = eventDelete(tab, "check_splitmode")
    \/ /\ ~Low(counts) /\ mode /\ checking /\ split_delay # 0
       /\ o.splitmode = TRUE
       /\ o.events = eventDelete(eventAddOnce(tab, "finish_splitmode", split_delay),
                                 "check_splitmode")

(* check_splitmode, by its branches.                                       *)
LEMMA CheckCases ==
    ASSUME NEW mode \in BOOLEAN, NEW checking \in BOOLEAN, NEW counts, NEW tab, NEW p,
           NEW o, o = Check(checking, mode, counts, tab, p)
    PROVE  CheckOutcome(o, checking, mode, counts, tab, p)
<1> USE DEF CheckOutcome
<1>0. Low(counts) \in BOOLEAN
  BY DEF Low
<1>1. CASE ~checking \/ ~no_on_split \/ mode = Low(counts)
  BY <1>1 DEF Check
<1>2. CASE ~(~checking \/ ~no_on_split \/ mode = Low(counts)) /\ Low(counts)
  <2>1. o = [splitmode |-> TRUE, events |-> eventAdd(tab, "check_splitmode", p)]
    BY <1>2 DEF Check
  <2>2. ~mode /\ checking
    BY Zenon, <1>2
  <2>3. o.splitmode = TRUE /\ o.events = eventAdd(tab, "check_splitmode", p)
    BY <2>1
  <2> QED BY <1>2, <2>2, <2>3
<1>3. CASE ~(~checking \/ ~no_on_split \/ mode = Low(counts)) /\ ~Low(counts)
  <2>1. o = Rejoined(counts, tab, p)
    BY <1>3 DEF Check
  <2>0. mode /\ checking
    BY Zenon, <1>0, <1>3
  <2>2. CASE split_delay = 0
    <3>1. PICK e : e = Finish(TRUE, counts, tab, p)
      OBVIOUS
    <3>2. e = [splitmode |-> FALSE, events |-> tab]
      BY <1>3, <3>1 DEF Finish
    <3>3. o = [e EXCEPT !.events = eventDelete(e.events, "check_splitmode")]
      BY <2>1, <2>2, <3>1 DEF Rejoined
    <3>4. o.splitmode = FALSE /\ o.events = eventDelete(tab, "check_splitmode")
      BY <3>2, <3>3
    <3> QED BY <1>3, <2>0, <3>4
  <2>3. CASE split_delay # 0
    <3> DEFINE mid == eventAddOnce(tab, "finish_splitmode", split_delay)
    <3>1. o = [[splitmode |-> TRUE, events |-> mid]
                 EXCEPT !.events = eventDelete(mid, "check_splitmode")]
      BY <2>1, <2>3 DEF Rejoined
    <3> HIDE DEF mid
    <3>2. o.splitmode = TRUE /\ o.events = eventDelete(mid, "check_splitmode")
      BY <3>1
    <3> QED BY <1>3, <2>0, <2>3, <3>2 DEF mid
  <2> QED BY <2>2, <2>3
<1> QED BY <1>1, <1>2, <1>3

CheckSound(o, checking, mode, counts, tab) ==
    /\ o.splitmode \in BOOLEAN /\ Sane(o.events)
    /\ checking /\ no_on_split /\ ~o.splitmode => ~Low(counts)
    /\ mode /\ ~o.splitmode => ~Low(counts)
    /\ ~checking => o.splitmode = mode
    /\ o.splitmode /\ (mode => Watched(tab)) => Watched(o.events)
    /\ \A m \in Active(tab) : o.events.frequency[m] = tab.frequency[m]
    /\ /\ Single(tab) /\ (Watched(tab) => mode)
       /\ mode => \E m \in Slot : tab.func[m] = "check_splitmode"
       => Single(o.events) /\ (Watched(o.events) => o.splitmode)

(* check_splitmode keeps the table sane, notices a low count, and leaves   *)
(* an event in charge of a mode that is on.                                *)
LEMMA CheckSane ==
    ASSUME SplitTypeOK,
           NEW mode \in BOOLEAN, NEW checking \in BOOLEAN, NEW counts,
           NEW tab, Sane(tab), NEW p \in Period,
           NEW o, o = Check(checking, mode, counts, tab, p)
    PROVE  CheckSound(o, checking, mode, counts, tab)
<1> USE DEF CheckSound
<1>0. p \in Nat \ {0} /\ split_delay \in Nat
  BY SplitAssumption DEF SplitTypeOK
<1>1. CASE /\ ~checking \/ ~no_on_split \/ mode = Low(counts)
           /\ o.splitmode = mode /\ o.events = tab
  BY <1>1 DEF Low
<1>2. CASE /\ Low(counts) /\ ~mode /\ checking
           /\ o.splitmode = TRUE /\ o.events = eventAdd(tab, "check_splitmode", p)
  <2>1. /\ Sane(o.events) /\ Watched(o.events)
        /\ \A m \in Active(tab) : o.events.frequency[m] = tab.frequency[m]
        /\ Single(tab) =>
             \/ o.events = tab
             \/ \E n \in Slot \ Active(tab) :
                  \A m \in Slot : IsSplit(o.events, m) <=> m = n \/ IsSplit(tab, m)
    <3>1. o.events = eventAdd(tab, "check_splitmode", p)
      BY <1>2
    <3> QED BY <1>0, <3>1, AddCheck
  <2>2. Single(tab) /\ ~Watched(tab) => Single(o.events)
    BY <2>1 DEF Watched, Single
  <2> QED BY <1>2, <2>1, <2>2
<1>3. CASE /\ ~Low(counts) /\ mode /\ checking
           /\ o.splitmode = FALSE /\ o.events = eventDelete(tab, "check_splitmode")
  <2>1. /\ Sane(o.events)
        /\ \A m \in Active(tab) : o.events.frequency[m] = tab.frequency[m]
        /\ Single(tab) /\ (\E m \in Slot : tab.func[m] = "check_splitmode") =>
             Single(o.events) /\ ~Watched(o.events)
    BY <1>3, PullCheck
  <2> QED BY <1>3, <2>1
<1>4. CASE /\ ~Low(counts) /\ mode /\ checking /\ split_delay # 0
           /\ o.splitmode = TRUE
           /\ o.events = eventDelete(eventAddOnce(tab, "finish_splitmode", split_delay),
                                     "check_splitmode")
  <2>1. /\ Sane(o.events) /\ Watched(o.events)
        /\ \A m \in Active(tab) : o.events.frequency[m] = tab.frequency[m]
        /\ Single(tab) /\ (\E m \in Slot : tab.func[m] = "check_splitmode") => Single(o.events)
    BY <1>0, <1>4, FinishForCheck
  <2> QED BY <1>4, <2>1
<1>5. CheckOutcome(o, checking, mode, counts, tab, p)
  BY CheckCases
<1> QED BY <1>1, <1>2, <1>3, <1>4, <1>5 DEF CheckOutcome

FinishSound(o, mode, counts, tab, new) ==
    /\ o.splitmode \in BOOLEAN /\ Sane(new)
    /\ o.splitmode => mode /\ Watched(new)
    /\ mode /\ ~o.splitmode => ~Low(counts)
    /\ Single(tab) /\ mode => Single(new) /\ (Watched(new) => o.splitmode)

(* finish_splitmode, with what eventRun does to its row afterwards.        *)
LEMMA FinishSane ==
    ASSUME NEW mode \in BOOLEAN, NEW counts, NEW tab, Sane(tab), NEW p \in Period,
           NEW s \in Slot, tab.func[s] = "finish_splitmode",
           NEW o, o = Finish(mode, counts, tab, p)
    PROVE  FinishSound(o, mode, counts, tab, Rescheduled(o.events, s))
<1> DEFINE new == Rescheduled(o.events, s)
<1> SUFFICES FinishSound(o, mode, counts, tab, new)
  OBVIOUS
<1> USE DEF FinishSound
<1>0. p \in Nat \ {0} /\ s \in Active(tab) /\ IsSplit(tab, s) /\ tab.frequency[s] = 0
  BY SplitAssumption, EventAssumption DEF Active, IsSplit, Sane
<1>1. CASE Low(counts)
  <2>1. PICK mid : mid = eventAdd(tab, "check_splitmode", p)
    OBVIOUS
  <2>2. o.splitmode = mode /\ o.events = mid
    BY <1>1, <2>1 DEF Finish
  <2>3. /\ Sane(mid)
        /\ \A m \in Active(tab) :
             mid.func[m] = tab.func[m] /\ mid.frequency[m] = tab.frequency[m]
        /\ \A m \in Active(tab) : \E n \in Slot \ {m} : IsSplit(mid, n)
        /\ Single(tab) =>
             \/ mid = tab
             \/ \E n \in Slot \ Active(tab) :
                  \A m \in Slot : IsSplit(mid, m) <=> m = n \/ IsSplit(tab, m)
    BY <1>0, <2>1, AddCheck
  <2>4. mid \in Table /\ mid.frequency[s] = 0
    BY <1>0, <2>3 DEF Sane
  <2>5. new \in Table /\ Vacated(mid, new, s)
    BY <2>2, <2>4, RescheduledRows
  <2>6. Sane(new) /\ \A m \in Slot : IsSplit(new, m) <=> m # s /\ IsSplit(mid, m)
    BY <2>3, <2>4, <2>5, VacatedSane
  <2>7. Watched(new)
    BY <1>0, <2>3, <2>6 DEF Watched
  <2>8. Single(tab) => Single(new)
    BY <1>0, <2>3, <2>6 DEF Single
  <2> QED BY <1>1, <2>2, <2>6, <2>7, <2>8
<1>2. CASE ~Low(counts)
  <2>1. o.splitmode = FALSE /\ o.events = tab
    BY <1>2 DEF Finish
  <2>2. tab \in Table
    BY DEF Sane
  <2>3. new \in Table /\ Vacated(tab, new, s)
    BY <1>0, <2>1, <2>2, RescheduledRows
  <2>4. Sane(new) /\ \A m \in Slot : IsSplit(new, m) <=> m # s /\ IsSplit(tab, m)
    BY <2>2, <2>3, VacatedSane
  <2>5. Single(tab) => Single(new) /\ ~Watched(new)
    BY <1>0, <2>4 DEF Single, Watched
  <2> QED BY <1>2, <2>1, <2>4, <2>5
<1> QED BY <1>1, <1>2

-----------------------------------------------------------------------------
(* It holds when the ircd starts.                                          *)
LEMMA SplitInitInv == SplitInit => SplitInv
<1> SUFFICES ASSUME SplitInit PROVE SplitInv
  OBVIOUS
<1>1. PICK p \in Period :
        events = IF splitmode
                 THEN eventAdd(eventAdd(EmptyTable, "exit_aborted_clients", 1), "check_splitmode", p)
                 ELSE eventAdd(EmptyTable, "exit_aborted_clients", 1)
  BY DEF SplitInit
<1>2. PICK started : started = eventAdd(EmptyTable, "exit_aborted_clients", 1)
  OBVIOUS
<1>3. EmptyTable \in Table /\ Active(EmptyTable) = {} /\ Slot # {}
  BY EventAssumption DEF EmptyTable, Table, Active, Slot
<1>4. started \in Table /\ \E n \in Slot : Filled(EmptyTable, started, n, "exit_aborted_clients", 1)
  <2>1. started = Schedule(EmptyTable, "exit_aborted_clients", 1, 1)
    BY <1>2 DEF eventAdd
  <2>2. "exit_aborted_clients" \in Func /\ 1 \in Nat
    BY SplitAssumption
  <2> QED BY <1>3, <2>1, <2>2, ScheduleRows
<1>5. PICK n \in Slot : Filled(EmptyTable, started, n, "exit_aborted_clients", 1)
  BY <1>4
<1>6. /\ \A m \in Slot : started.func[m] = IF m = n THEN "exit_aborted_clients" ELSE NoFunc
      /\ started.frequency[n] = 1
  BY <1>5 DEF Filled, EmptyTable
<1>7. Sane(started) /\ ~Watched(started)
  BY <1>4, <1>6, EventAssumption, SplitAssumption DEF Sane, Watched, IsSplit
<1>8. Sane(events) /\ Single(events) /\ (Watched(events) <=> splitmode)
  <2>1. CASE splitmode
    <3>1. p \in Nat \ {0} /\ events = eventAdd(started, "check_splitmode", p)
      BY <1>1, <1>2, <2>1, SplitAssumption
    <3>2. /\ Sane(events) /\ Watched(events)
          /\ Single(started) =>
               \/ events = started
               \/ \E k \in Slot \ Active(started) :
                    \A m \in Slot : IsSplit(events, m) <=> m = k \/ IsSplit(started, m)
      BY <1>7, <3>1, AddCheck
    <3> QED BY <1>7, <2>1, <3>2 DEF Single, Watched
  <2>2. CASE ~splitmode
    BY <1>1, <1>2, <1>7, <2>2 DEF Single, Watched
  <2> QED BY <2>1, <2>2 DEF SplitInit
<1>9. SplitTypeOK
  BY <1>8, SplitAssumption, EventAssumption DEF SplitInit, SplitTypeOK, Sane
<1> QED BY <1>8, <1>9 DEF SplitInit, SplitInv, SplitIsNoticed, Scheduled

(* The clock and what else leaves the rows alone.                          *)
LEMMA SameScheduled ==
    ASSUME SplitInv, events' \in Table, SameRows(events, events'),
           splitmode' = splitmode, splitchecking' = splitchecking, used \subseteq used'
    PROVE  Scheduled'
<1>1. Sane(events) /\ events \in Table
  BY DEF SplitInv, Scheduled, Sane
<1>2. /\ Sane(events')
      /\ Watched(events) <=> Watched(events')
      /\ Single(events) <=> Single(events')
  BY <1>1, SameSane
<1>3. (Watched(events))' = Watched(events') /\ (Single(events))' = Single(events') /\ (Sane(events))' = Sane(events')
  BY DEF Watched, Single, Sane, IsSplit
<1> QED BY <1>2, <1>3 DEF SplitInv, Scheduled

LEMMA PrimedTable ==
    /\ (Sane(events))' = Sane(events')
    /\ (Watched(events))' = Watched(events')
    /\ (Single(events))' = Single(events')
BY DEF Watched, Single, Sane, IsSplit

(* update_client_exit_stats, in both of the places it is called from.      *)
LEMMA ExitStatsSane ==
    ASSUME SplitInv, NEW counts, NEW p \in Period, NEW o, o = ExitStats(counts, p)
    PROVE  /\ o.splitmode \in BOOLEAN /\ Sane(o.events)
           /\ splitmode => o.splitmode
           /\ splitchecking /\ no_on_split /\ ~o.splitmode => ~Low(counts)
           /\ o.splitmode /\ "ON" \notin used => splitchecking /\ Watched(o.events)
           /\ used = {} => Single(o.events) /\ (Watched(o.events) => o.splitmode)
           /\ \A m \in Active(events) : o.events.frequency[m] = events.frequency[m]
<1>0. SplitTypeOK /\ Sane(events) /\ splitmode \in BOOLEAN /\ splitchecking \in BOOLEAN
  BY DEF SplitInv, Scheduled, SplitTypeOK
<1>1. CASE splitchecking /\ ~splitmode
  <2>1. o = Check(TRUE, FALSE, counts, events, p)
    BY <1>1 DEF ExitStats
  <2>2. CheckSound(o, TRUE, FALSE, counts, events)
    <3>1. TRUE \in BOOLEAN /\ FALSE \in BOOLEAN
      OBVIOUS
    <3> QED BY <1>0, <2>1, <3>1, CheckSane
  <2> QED BY <1>1, <2>2 DEF SplitInv, Scheduled, CheckSound
<1>2. CASE ~(splitchecking /\ ~splitmode)
  <2>1. o.splitmode = splitmode /\ o.events = events
    BY <1>2 DEF ExitStats
  <2> QED BY <1>0, <1>2, <2>1 DEF SplitInv, Scheduled
<1> QED BY <1>1, <1>2

LEMMA ClientExitStep == SplitInv /\ ClientExit => SplitInv'
<1> SUFFICES ASSUME SplitInv, ClientExit PROVE SplitInv'
  OBVIOUS
<1>1. PICK counts \in SUBSET {"servers", "users"}, p \in Period :
        short' = counts /\ Become(ExitStats(counts, p))
  BY DEF ClientExit
<1>2. PICK o : o = ExitStats(counts, p)
  OBVIOUS
<1>3. splitmode' = o.splitmode /\ events' = o.events
  BY <1>1, <1>2 DEF Become
<1>4. /\ o.splitmode \in BOOLEAN /\ Sane(o.events)
      /\ splitchecking /\ no_on_split /\ ~o.splitmode => ~Low(counts)
      /\ o.splitmode /\ "ON" \notin used => splitchecking /\ Watched(o.events)
      /\ used = {} => Single(o.events) /\ (Watched(o.events) => o.splitmode)
  BY <1>2, ExitStatsSane
<1>5. UNCHANGED << splitchecking, split_delay, no_on_split, slot, used, spent >>
  BY DEF ClientExit
<1>6. SplitTypeOK'
  BY <1>1, <1>3, <1>4, <1>5 DEF SplitInv, SplitTypeOK, Sane
<1>7. SplitIsNoticed'
  BY <1>1, <1>3, <1>4, <1>5 DEF SplitIsNoticed, Low
<1>8. Scheduled'
  BY <1>3, <1>4, <1>5, PrimedTable DEF Scheduled
<1> QED BY <1>6, <1>7, <1>8 DEF SplitInv

(* The steps that leave the mode and the rows as they are.                 *)
LEMMA IdleStep ==
    ASSUME SplitInv, Introduce \/ SetDelay \/ Rehash \/ Tick \/ ClockSetBack \/ EventLoop \/ SkipEvent
    PROVE  SplitInv'
<1>0. SplitTypeOK /\ events \in Table /\ SplitIsNoticed
  BY DEF SplitInv, SplitTypeOK
<1>1. UNCHANGED << splitmode, splitchecking >> /\ used \subseteq used' /\ short' \subseteq short
  BY DEF Introduce, SetDelay, Rehash, Tick, ClockSetBack, EventLoop, SkipEvent, Use, split
<1>2. events' \in Table /\ SameRows(events, events')
  <2>1. CASE Introduce \/ SetDelay \/ Rehash \/ SkipEvent
    BY <1>0, <2>1 DEF Introduce, SetDelay, Rehash, SkipEvent, SameRows
  <2>2. CASE Tick
    <3>1. PICK d \in 1..MaxStep : events' = Later(events, d)
      BY <2>2 DEF Tick
    <3>2. d \in Nat /\ -1 \in Nat \union {-1}
      BY SplitAssumption
    <3> QED BY <1>0, <3>1, <3>2, TimesRows
  <2>3. CASE ClockSetBack
    <3>1. PICK d \in 1..MaxStep : events' = SetBack(events, d)
      BY <2>3 DEF ClockSetBack
    <3>2. d \in Nat /\ -1 \in Nat \union {-1}
      BY SplitAssumption
    <3> QED BY <1>0, <3>1, <3>2, TimesRows
  <2>4. CASE EventLoop
    <3>1. events' = [events EXCEPT !.min = NextTime(events)]
      BY <2>4 DEF EventLoop
    <3>2. 0 \in Nat /\ NextTime(events) \in Nat \union {-1}
      BY <1>0, NextTimeType
    <3> QED BY <1>0, <3>1, <3>2, TimesRows
  <2> QED BY <2>1, <2>2, <2>3, <2>4
<1>3. SplitTypeOK'
  <2>1. split_delay' \in {0, Delay} /\ no_on_split' \in BOOLEAN
    BY <1>0 DEF Introduce, SetDelay, Rehash, Tick, ClockSetBack, EventLoop, SkipEvent, split, SplitTypeOK
  <2>2. slot' \in 0..MaxEvents
    BY <1>0, EventAssumption DEF Introduce, SetDelay, Rehash, Tick, ClockSetBack, EventLoop, SkipEvent, Use, NextSlot, SplitTypeOK
  <2>3. used' \subseteq Commands /\ spent' \in 0..MaxCommands
    BY <1>0, SplitAssumption DEF Introduce, SetDelay, Rehash, Tick, ClockSetBack, EventLoop, SkipEvent, Use, SplitTypeOK
  <2> QED BY <1>0, <1>1, <1>2, <2>1, <2>2, <2>3 DEF SplitTypeOK
<1>4. SplitIsNoticed'
  <2>1. no_on_split' = no_on_split \/ "REHASH" \in used'
    BY DEF Introduce, SetDelay, Rehash, Tick, ClockSetBack, EventLoop, SkipEvent, Use, split
  <2> QED BY <1>0, <1>1, <2>1 DEF SplitIsNoticed, Low
<1>5. Scheduled'
  BY <1>1, <1>2, SameScheduled
<1> QED BY <1>3, <1>4, <1>5 DEF SplitInv

(* The commands that change the mode or the events.                        *)
LEMMA SetStep ==
    ASSUME SplitInv, SetOff \/ SetOn
    PROVE  SplitInv'
<1>0. SplitTypeOK /\ Sane(events)
  BY DEF SplitInv, Scheduled
<1>1. events' = eventDelete(events, "check_splitmode")
  BY DEF SetOff, SetOn
<1>2. Sane(events')
  BY <1>0, <1>1, PullCheck
<1>3. used' # {} /\ used' \subseteq Commands /\ spent' \in 0..MaxCommands
  <2>1. used' # {} /\ used' \subseteq Commands /\ spent < MaxCommands /\ spent' = spent + 1
    BY <1>0 DEF SetOff, SetOn, Use, SplitTypeOK
  <2> QED BY <1>0, <2>1, SplitAssumption DEF SplitTypeOK
<1>4. SplitTypeOK'
  BY <1>0, <1>2, <1>3 DEF SetOff, SetOn, Use, SplitTypeOK, Sane
<1>5. SplitIsNoticed'
  BY DEF SetOff, SetOn, SplitIsNoticed
<1>6. splitmode' => "ON" \in used'
  BY DEF SetOff, SetOn, Use
<1>7. Scheduled'
  BY <1>2, <1>3, <1>6, PrimedTable DEF Scheduled
<1> QED BY <1>4, <1>5, <1>7 DEF SplitInv

(* The commands that call check_splitmode.                                 *)
LEMMA CheckedStep ==
    ASSUME SplitInv, SetAuto \/ SetThreshold
    PROVE  SplitInv'
<1>0. SplitTypeOK /\ Sane(events) /\ splitmode \in BOOLEAN /\ splitchecking \in BOOLEAN
  BY DEF SplitInv, Scheduled, SplitTypeOK
<1>1. PICK p \in Period, checking \in BOOLEAN :
        /\ splitchecking' = checking
        /\ \/ checking /\ Become(Check(TRUE, splitmode, short', events, p))
           \/ ~checking /\ ~splitchecking /\ UNCHANGED << splitmode, events >>
  <2>1. CASE SetAuto
    <3>1. splitchecking' = TRUE /\ short' = short
          /\ \E p \in Period : Become(Check(TRUE, splitmode, short, events, p))
      BY <2>1 DEF SetAuto
    <3> QED BY <3>1
  <2>2. CASE SetThreshold
    <3>1. \E p \in Period :
            /\ splitchecking' = splitchecking
            /\ IF splitchecking THEN Become(Check(TRUE, splitmode, short', events, p))
               ELSE UNCHANGED << splitmode, events >>
      BY <2>2 DEF SetThreshold
    <3> QED BY <1>0, <3>1
  <2> QED BY <2>1, <2>2
<1>2. /\ splitmode' \in BOOLEAN /\ splitchecking' \in BOOLEAN /\ Sane(events')
      /\ splitchecking' /\ no_on_split /\ ~splitmode' => ~Low(short')
      /\ splitmode' /\ "ON" \notin used => splitchecking' /\ Watched(events')
  <2>1. CASE checking /\ Become(Check(TRUE, splitmode, short', events, p))
    <3>1. PICK o : o = Check(TRUE, splitmode, short', events, p)
      OBVIOUS
    <3>2. splitmode' = o.splitmode /\ events' = o.events
      BY <2>1, <3>1 DEF Become
    <3>3. CheckSound(o, TRUE, splitmode, short', events)
      <4>1. TRUE \in BOOLEAN
        OBVIOUS
      <4> QED BY <1>0, <3>1, <4>1, CheckSane
    <3> QED BY <1>1, <2>1, <3>2, <3>3 DEF CheckSound, SplitInv, Scheduled
  <2>2. CASE ~checking /\ ~splitchecking /\ UNCHANGED << splitmode, events >>
    BY <1>0, <1>1, <2>2 DEF SplitInv, Scheduled
  <2> QED BY <1>1, <2>1, <2>2
<1>3. /\ used' # {} /\ used \subseteq used' /\ used' \subseteq Commands
      /\ spent < MaxCommands /\ spent' = spent + 1
      /\ UNCHANGED << split_delay, no_on_split, slot >> /\ short' \subseteq {"servers", "users"}
  BY <1>0 DEF SetAuto, SetThreshold, Use, SplitTypeOK
<1>4. SplitTypeOK'
  BY <1>0, <1>2, <1>3, SplitAssumption DEF SplitTypeOK, Sane
<1>5. SplitIsNoticed'
  BY <1>2, <1>3 DEF SplitIsNoticed, Low
<1>6. Scheduled'
  BY <1>2, <1>3, PrimedTable DEF Scheduled
<1> QED BY <1>4, <1>5, <1>6 DEF SplitInv

-----------------------------------------------------------------------------
(* A function that eventRun calls.                                         *)
LEMMA RanStep ==
    ASSUME SplitInv, NextSlot, slot # 0,
           UNCHANGED << splitchecking, split_delay, no_on_split, used, spent >>,
           short' \subseteq {"servers", "users"}, splitmode' \in BOOLEAN, Sane(events'),
           splitchecking /\ no_on_split /\ ~splitmode' /\ "REHASH" \notin used => ~Low(short'),
           splitmode' /\ "ON" \notin used => splitchecking /\ Watched(events'),
           used = {} => Single(events') /\ (Watched(events') => splitmode')
    PROVE  SplitInv'
<1>1. slot' \in 0..MaxEvents
  BY EventAssumption DEF NextSlot, SplitInv, SplitTypeOK
<1>2. SplitTypeOK'
  BY <1>1 DEF SplitInv, SplitTypeOK, Sane
<1>3. SplitIsNoticed'
  BY DEF SplitIsNoticed, Low
<1>4. Scheduled'
  BY PrimedTable DEF Scheduled
<1> QED BY <1>2, <1>3, <1>4 DEF SplitInv

(* The row of the function that ran stays when it has a frequency.         *)
LEMMA StaysRow ==
    ASSUME NEW tab, Sane(tab), NEW s \in Slot, tab.frequency[s] # 0,
           NEW new, new = Rescheduled(tab, s)
    PROVE  Sane(new) /\ (Watched(new) <=> Watched(tab)) /\ (Single(new) <=> Single(tab))
<1>1. tab \in Table
  BY DEF Sane
<1>2. new \in Table /\ SameRows(tab, new)
  BY <1>1, RescheduledRows
<1> QED BY <1>1, <1>2, SameSane

LEMMA RunCheckStep == SplitInv /\ RunCheck => SplitInv'
<1> SUFFICES ASSUME SplitInv, RunCheck PROVE SplitInv'
  OBVIOUS
<1>0. SplitTypeOK /\ Sane(events) /\ splitmode \in BOOLEAN /\ splitchecking \in BOOLEAN
  BY DEF SplitInv, Scheduled, SplitTypeOK
<1>1. PICK p \in Period :
        RunEvent("check_splitmode", Check(splitchecking, splitmode, short, events, p))
  BY DEF RunCheck
<1>2. PICK o : o = Check(splitchecking, splitmode, short, events, p)
  OBVIOUS
<1>3. /\ slot # 0 /\ slot \in Active(events) /\ slot \in Slot
      /\ events.func[slot] = "check_splitmode"
      /\ splitmode' = o.splitmode /\ events' = Rescheduled(o.events, slot) /\ NextSlot
      /\ UNCHANGED << splitchecking, split_delay, no_on_split, used, spent >> /\ short' = short
  BY <1>1, <1>2 DEF RunCheck, RunEvent, Due, Active
<1>4. CheckSound(o, splitchecking, splitmode, short, events)
  BY <1>0, <1>2, CheckSane
<1>5. o.events.frequency[slot] # 0
  BY <1>0, <1>3, <1>4 DEF CheckSound, Sane
<1>6. /\ Sane(events') /\ (Watched(events') <=> Watched(o.events))
      /\ Single(events') <=> Single(o.events)
  <2>1. Sane(o.events)
    BY <1>4 DEF CheckSound
  <2> QED BY <1>3, <1>5, <2>1, StaysRow
<1>7. splitmode' /\ "ON" \notin used => splitchecking /\ Watched(events')
  BY <1>0, <1>3, <1>4, <1>6 DEF CheckSound, SplitInv, Scheduled
<1>8. used = {} => Single(events') /\ (Watched(events') => splitmode')
  <2>1. used = {} => Single(events) /\ (Watched(events) => splitmode)
    BY DEF SplitInv, Scheduled
  <2>2. \E m \in Slot : events.func[m] = "check_splitmode"
    BY <1>3
  <2> QED BY <1>3, <1>4, <1>6, <2>1, <2>2 DEF CheckSound
<1>9. splitchecking /\ no_on_split /\ ~splitmode' /\ "REHASH" \notin used => ~Low(short')
  BY <1>3, <1>4 DEF CheckSound
<1>10. short' \subseteq {"servers", "users"} /\ splitmode' \in BOOLEAN
  BY <1>0, <1>3, <1>4 DEF CheckSound, SplitTypeOK
<1> QED BY <1>3, <1>6, <1>7, <1>8, <1>9, <1>10, RanStep

LEMMA RunFinishStep == SplitInv /\ RunFinish => SplitInv'
<1> SUFFICES ASSUME SplitInv, RunFinish PROVE SplitInv'
  OBVIOUS
<1>0. SplitTypeOK /\ Sane(events) /\ splitmode \in BOOLEAN /\ splitchecking \in BOOLEAN
  BY DEF SplitInv, Scheduled, SplitTypeOK
<1>1. PICK p \in Period : RunEvent("finish_splitmode", Finish(splitmode, short, events, p))
  BY DEF RunFinish
<1>2. PICK o : o = Finish(splitmode, short, events, p)
  OBVIOUS
<1>3. /\ slot # 0 /\ slot \in Slot /\ events.func[slot] = "finish_splitmode"
      /\ splitmode' = o.splitmode /\ events' = Rescheduled(o.events, slot) /\ NextSlot
      /\ UNCHANGED << splitchecking, split_delay, no_on_split, used, spent >> /\ short' = short
  BY <1>1, <1>2 DEF RunFinish, RunEvent, Due, Active
<1>4. FinishSound(o, splitmode, short, events, events')
  BY <1>0, <1>2, <1>3, FinishSane
<1>5. Watched(events)
  BY <1>3 DEF Watched, IsSplit
<1>6. splitmode' /\ "ON" \notin used => splitchecking /\ Watched(events')
  BY <1>3, <1>4 DEF FinishSound, SplitInv, Scheduled
<1>7. used = {} => Single(events') /\ (Watched(events') => splitmode')
  BY <1>3, <1>4, <1>5 DEF FinishSound, SplitInv, Scheduled
<1>8. splitchecking /\ no_on_split /\ ~splitmode' /\ "REHASH" \notin used => ~Low(short')
  BY <1>3, <1>4 DEF FinishSound, SplitInv, SplitIsNoticed
<1>9. short' \subseteq {"servers", "users"} /\ splitmode' \in BOOLEAN
  BY <1>0, <1>3, <1>4 DEF FinishSound, SplitTypeOK
<1> QED BY <1>3, <1>4, <1>6, <1>7, <1>8, <1>9, RanStep DEF FinishSound

LEMMA RunExitsStep == SplitInv /\ RunExits => SplitInv'
<1> SUFFICES ASSUME SplitInv, RunExits PROVE SplitInv'
  OBVIOUS
<1>0. Sane(events)
  BY DEF SplitInv, Scheduled
<1>1. PICK counts \in SUBSET {"servers", "users"}, p \in Period :
        short' = counts /\ RunEvent("exit_aborted_clients", ExitStats(counts, p))
  BY DEF RunExits
<1>2. PICK o : o = ExitStats(counts, p)
  OBVIOUS
<1>3. /\ slot # 0 /\ slot \in Active(events) /\ slot \in Slot
      /\ events.func[slot] = "exit_aborted_clients"
      /\ splitmode' = o.splitmode /\ events' = Rescheduled(o.events, slot) /\ NextSlot
      /\ UNCHANGED << splitchecking, split_delay, no_on_split, used, spent >>
  BY <1>1, <1>2 DEF RunEvent, Due, Active
<1>4. /\ o.splitmode \in BOOLEAN /\ Sane(o.events)
      /\ splitchecking /\ no_on_split /\ ~o.splitmode => ~Low(counts)
      /\ o.splitmode /\ "ON" \notin used => splitchecking /\ Watched(o.events)
      /\ used = {} => Single(o.events) /\ (Watched(o.events) => o.splitmode)
      /\ \A m \in Active(events) : o.events.frequency[m] = events.frequency[m]
  BY <1>2, ExitStatsSane
<1>5. o.events.frequency[slot] # 0
  BY <1>0, <1>3, <1>4 DEF Sane
<1>6. /\ Sane(events') /\ (Watched(events') <=> Watched(o.events))
      /\ Single(events') <=> Single(o.events)
  BY <1>3, <1>4, <1>5, StaysRow
<1> QED BY <1>1, <1>3, <1>4, <1>6, RanStep

(* No step breaks it.                                                      *)
LEMMA SplitStep == SplitInv /\ [SplitNext]_split_vars => SplitInv'
<1> SUFFICES ASSUME SplitInv, [SplitNext]_split_vars PROVE SplitInv'
  OBVIOUS
<1>1. CASE ClientExit
  BY <1>1, ClientExitStep
<1>2. CASE Introduce \/ SetDelay \/ Rehash \/ Tick \/ ClockSetBack \/ EventLoop \/ SkipEvent
  BY <1>2, IdleStep
<1>3. CASE SetOff \/ SetOn
  BY <1>3, SetStep
<1>4. CASE SetAuto \/ SetThreshold
  BY <1>4, CheckedStep
<1>5. CASE RunCheck
  BY <1>5, RunCheckStep
<1>6. CASE RunFinish
  BY <1>6, RunFinishStep
<1>7. CASE RunExits
  BY <1>7, RunExitsStep
<1>8. CASE UNCHANGED split_vars
  <2>1. UNCHANGED << splitmode, splitchecking, short, split_delay, no_on_split, events, slot, used, spent >>
    BY <1>8 DEF split_vars, split
  <2> QED BY <2>1, PrimedTable DEF SplitInv, SplitTypeOK, SplitIsNoticed, Scheduled, Low
<1> QED BY <1>1, <1>2, <1>3, <1>4, <1>5, <1>6, <1>7, <1>8 DEF SplitNext, Command, Run

(* The inductive invariant holds.                                          *)
LEMMA SplitInvHolds == SplitSpec => []SplitInv
BY SplitInitInv, SplitStep, PTL DEF SplitSpec

(* The variables of split mode keep their types; the walk of eventRun      *)
(* stays in the table, whatever the clock does.                            *)
THEOREM SplitTypesHold == SplitSpec => []SplitTypeOK
BY SplitInvHolds, SplitInvMeans, PTL

(* With automatic split mode on and no REHASH the mode is never off while  *)
(* a count is low: check_splitmode is called wherever one can fall.        *)
THEOREM SplitsAreNoticed == SplitSpec => []SplitIsNoticed
BY SplitInvHolds, SplitInvMeans, PTL

(* An automatic split mode always has an event that will look at it again, *)
(* whatever opers do short of SET SPLITMODE ON, even when the table of     *)
(* events is full; and without commands there is one such event at most.   *)
THEOREM SomethingAlwaysWillCheck == SplitSpec => []SomethingWillCheck
BY SplitInvHolds, SplitInvMeans, PTL

(* The steps that can end split mode.                                      *)
LEMMA EndStep ==
    ASSUME SplitInv, [SplitNext]_split_vars, splitmode, ~splitmode'
    PROVE  ~Low(short') \/ SetOff
<1>0. SplitTypeOK /\ Sane(events) /\ splitmode \in BOOLEAN /\ splitchecking \in BOOLEAN
  BY DEF SplitInv, Scheduled, SplitTypeOK
<1>1. CASE ClientExit \/ RunExits
  <2>1. PICK counts \in SUBSET {"servers", "users"}, p \in Period : splitmode' = ExitStats(counts, p).splitmode
    <3>1. CASE ClientExit
      <4>1. PICK counts \in SUBSET {"servers", "users"}, p \in Period : Become(ExitStats(counts, p))
        BY <3>1 DEF ClientExit
      <4> QED BY <4>1 DEF Become
    <3>2. CASE RunExits
      <4>1. PICK counts \in SUBSET {"servers", "users"}, p \in Period :
              RunEvent("exit_aborted_clients", ExitStats(counts, p))
        BY <3>2 DEF RunExits
      <4> QED BY <4>1 DEF RunEvent
    <3> QED BY <1>1, <3>1, <3>2
  <2>2. ExitStats(counts, p).splitmode = splitmode
    BY DEF ExitStats
  <2> QED BY <2>1, <2>2
<1>2. CASE SetAuto \/ SetThreshold \/ RunCheck
  <2>1. PICK p \in Period, checking \in BOOLEAN :
          splitmode' = Check(checking, splitmode, short', events, p).splitmode
    <3>1. CASE SetAuto
      BY <3>1 DEF SetAuto, Become
    <3>2. CASE SetThreshold
      BY <3>2 DEF SetThreshold, Become
    <3>3. CASE RunCheck
      BY <1>0, <3>3 DEF RunCheck, RunEvent
    <3> QED BY <1>2, <3>1, <3>2, <3>3
  <2>2. PICK o : o = Check(checking, splitmode, short', events, p)
    OBVIOUS
  <2>3. CheckSound(o, checking, splitmode, short', events)
    BY <1>0, <2>2, CheckSane
  <2> QED BY <2>1, <2>2, <2>3 DEF CheckSound
<1>3. CASE RunFinish
  <2>1. PICK p \in Period : splitmode' = Finish(splitmode, short, events, p).splitmode
    BY <1>3 DEF RunFinish, RunEvent
  <2>2. short' = short
    BY <1>3 DEF RunFinish
  <2> QED BY <2>1, <2>2 DEF Finish
<1>4. CASE Introduce \/ SetOn \/ SetDelay \/ Rehash \/ Tick \/ ClockSetBack \/ EventLoop \/ SkipEvent
  BY <1>4 DEF Introduce, SetOn, SetDelay, Rehash, Tick, ClockSetBack, EventLoop, SkipEvent, split
<1>5. CASE UNCHANGED split_vars
  BY <1>5 DEF split_vars, split
<1> QED BY <1>1, <1>2, <1>3, <1>4, <1>5 DEF SplitNext, Command, Run

(* Only SET SPLITMODE OFF ends split mode while a count is low.            *)
THEOREM EndsRejoinedHolds == SplitSpec => EndsRejoined
<1>1. SplitInv /\ [SplitNext]_split_vars =>
        [splitmode /\ ~splitmode' => ~Low(short') \/ SetOff]_split_vars
  BY EndStep
<1> QED BY <1>1, SplitInvHolds, PTL DEF SplitSpec, EndsRejoined
=============================================================================
