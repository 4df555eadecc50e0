----------------------------- MODULE Memberships -----------------------------
(***************************************************************************)
(* Who is on which channel, who is invited to which and who accepts whom   *)
(* (src/channel.c, src/client.c, modules/m_join.c, m_invite.c, m_accept.c, *)
(* modules/core/m_part.c, m_kick.c, m_sjoin.c, m_nick.c), on one server.   *)
(* Each of the three is a relation that is kept as two lists, one at each  *)
(* end, and whatever ends a client or a channel has to take it out of the  *)
(* lists of all the others.                                                *)
(*                                                                         *)
(* A list is a set here: nobody is on one twice.  A command that names     *)
(* several channels or nicks is one action for each.                       *)
(***************************************************************************)
EXTENDS Integers, FiniteSets

CONSTANTS
    Person,      \* bound: the memory clients are allocated from
    Local,       \* the ones connected to this server
    Oper,        \* the ones of them that are operators
    Channel,     \* channel names
    Invex,       \* the channels with an invite exception for everybody
    MaxChans,    \* max_chans_per_user
    MaxAccept    \* max_accept

ASSUME MembershipsAssumption ==
    /\ Local \subseteq Person /\ Oper \subseteq Local /\ Invex \subseteq Channel
    /\ MaxChans \in Nat \ {0} /\ MaxAccept \in Nat

VARIABLES
    here,          \* registered clients
    exists,        \* channels in the channel hash
    inviteonly,    \* the ones that are +i
    channel,       \* channel[p]: the channels on user->channel
    members, locmembers, chanops,    \* the memberships on the lists of channel c
    invited, invites,                \* user->invited, chptr->invites
    allow_list, on_allow_list,
    known          \* history: known[p], whom p has accepted under the nick
                   \* they have now

memberships == << channel, members, locmembers, chanops >>
invitations == << invited, invites >>
accepts     == << allow_list, on_allow_list, known >>
vars == << here, exists, inviteonly, memberships, invitations, accepts >>

TypeOK ==
    /\ here \subseteq Person
    /\ exists \subseteq Channel /\ inviteonly \subseteq Channel
    /\ channel \in [Person -> SUBSET Channel]
    /\ members \in [Channel -> SUBSET Person]
    /\ locmembers \in [Channel -> SUBSET Person]
    /\ chanops \in [Channel -> SUBSET Person]
    /\ invited \in [Person -> SUBSET Channel] /\ invites \in [Channel -> SUBSET Person]
    /\ allow_list \in [Person -> SUBSET Person] /\ on_allow_list \in [Person -> SUBSET Person]
    /\ known \in [Person -> SUBSET Person]

Init ==
    /\ here = {} /\ exists = {} /\ inviteonly = {}
    /\ channel = [p \in Person |-> {}]
    /\ members = [c \in Channel |-> {}] /\ locmembers = [c \in Channel |-> {}]
    /\ chanops = [c \in Channel |-> {}]
    /\ invited = [p \in Person |-> {}] /\ invites = [c \in Channel |-> {}]
    /\ allow_list = [p \in Person |-> {}] /\ on_allow_list = [p \in Person |-> {}]
    /\ known = [p \in Person |-> {}]

-----------------------------------------------------------------------------
(* register_local_user, do_remote_user: a new client is on no list.        *)
Arrive(p) ==
    /\ p \notin here /\ here' = here \union {p}
    /\ UNCHANGED << exists, inviteonly, memberships, invitations, accepts >>

(* add_user_to_channel, after get_or_create_channel.                       *)
AddUserToChannel(p, c, op) ==
    /\ exists' = exists \union {c}
    /\ channel' = [channel EXCEPT ![p] = @ \union {c}]
    /\ members' = [members EXCEPT ![c] = @ \union {p}]
    /\ locmembers' = IF p \in Local THEN [locmembers EXCEPT ![c] = @ \union {p}] ELSE locmembers
    /\ chanops' = IF op THEN [chanops EXCEPT ![c] = @ \union {p}] ELSE chanops

(* Mutant of DelInvite: only the channel's list.                           *)
DelInvite_OneSide(p, c) ==
    /\ invites' = [invites EXCEPT ![c] = @ \ {p}]
    /\ UNCHANGED invited

(* del_invite                                                              *)
DelInvite(p, c) ==
    /\ invited' = [invited EXCEPT ![p] = @ \ {c}]
    /\ invites' = [invites EXCEPT ![c] = @ \ {p}]

(* The channels one may be on.                                             *)
ChannelLimit(p) == IF p \in Oper THEN 3 * MaxChans ELSE MaxChans

(* Mutant of Join: the invite is kept.                                     *)
Join_KeepInvite(p, c) ==
    /\ p \in here \intersect Local /\ p \notin members[c]
    /\ Cardinality(channel[p]) < ChannelLimit(p)
    /\ c \in inviteonly => c \in invited[p] \union Invex
    /\ AddUserToChannel(p, c, c \notin exists)
    /\ UNCHANGED << here, inviteonly, invitations, accepts >>

(* m_join for one channel.                                                 *)
Join(p, c) ==
    /\ p \in here \intersect Local /\ p \notin members[c]
    /\ Cardinality(channel[p]) < ChannelLimit(p)
    /\ c \in inviteonly => c \in invited[p] \union Invex
    /\ AddUserToChannel(p, c, c \notin exists)
    /\ DelInvite(p, c)
    /\ UNCHANGED << here, inviteonly, accepts >>

(* ms_sjoin for one client of another server.                              *)
Sjoin(p, c, op) ==
    /\ p \in here \ Local /\ p \notin members[c]
    /\ AddUserToChannel(p, c, op)
    /\ UNCHANGED << here, inviteonly, invitations, accepts >>

(* MODE +i and -i; a new channel has none of the modes of the last.        *)
SetInviteOnly(c) ==
    /\ c \in exists
    /\ inviteonly' = IF c \in inviteonly THEN inviteonly \ {c} ELSE inviteonly \union {c}
    /\ UNCHANGED << here, exists, memberships, invitations, accepts >>

-----------------------------------------------------------------------------
(* The channels that are empty when p leaves cs: destroy_channel.          *)
Emptied(p, cs) == {c \in cs : members[c] \subseteq {p}}

(* remove_user_from_channel for each of cs, but for the invites.           *)
LeaveChannels(p, cs) ==
    /\ channel' = [channel EXCEPT ![p] = @ \ cs]
    /\ members' = [c \in Channel |-> IF c \in cs THEN members[c] \ {p} ELSE members[c]]
    /\ locmembers' = [c \in Channel |->
          IF c \in cs /\ p \in Local THEN locmembers[c] \ {p} ELSE locmembers[c]]
    /\ chanops' = [c \in Channel |-> IF c \in cs THEN chanops[c] \ {p} ELSE chanops[c]]
    /\ exists' = exists \ Emptied(p, cs) /\ inviteonly' = inviteonly \ Emptied(p, cs)

(* Mutant of InvitesWithout: destroy_channel leaves the channel's list.    *)
InvitesWithout_Keep(gone) == invites

(* The invites of a channel go with it.                                    *)
InvitesWithout(gone) == [c \in Channel |-> IF c \in gone THEN {} ELSE invites[c]]
InvitedWithout(gone) == [q \in Person |-> invited[q] \ {c \in gone : q \in invites[c]}]

Leave(p, cs) ==
    /\ LeaveChannels(p, cs)
    /\ invites' = InvitesWithout(Emptied(p, cs)) /\ invited' = InvitedWithout(Emptied(p, cs))
    /\ UNCHANGED << here, accepts >>

(* m_part, m_kick and ms_kick; do_join_0.                                  *)
Part(p, c) == p \in here /\ c \in channel[p] /\ Leave(p, {c})
JoinZero(p) == p \in here /\ channel[p] # {} /\ Leave(p, channel[p])

(* add_invite.  The one it drops when there are too many is the oldest,    *)
(* which is any of them here.                                              *)
AddInvite(t, c) ==
    IF c \in invited[t] THEN UNCHANGED invitations
    ELSE IF Cardinality(invited[t]) < MaxChans
    THEN /\ invited' = [invited EXCEPT ![t] = @ \union {c}]
         /\ invites' = [invites EXCEPT ![c] = @ \union {t}]
    ELSE \E old \in invited[t] :
         /\ invited' = [invited EXCEPT ![t] = (@ \ {old}) \union {c}]
         /\ invites' = [invites EXCEPT ![old] = @ \ {t}, ![c] = @ \union {t}]

(* m_invite as far as it changes a list: the target is here, the channel   *)
(* is +i, and a local source is a channel operator.                        *)
Invite(p, t, c) ==
    /\ p \in here /\ t \in here \intersect Local /\ c \in exists
    /\ p \in Local => p \in chanops[c]
    /\ c \notin channel[t] /\ c \in inviteonly
    /\ AddInvite(t, c)
    /\ UNCHANGED << here, exists, inviteonly, memberships, accepts >>

-----------------------------------------------------------------------------
(* m_accept: a nick to remove, del_from_accept; a nick to add, add_accept. *)
DelFromAccept(p, q) ==
    /\ {p, q} \subseteq here /\ p \in Local /\ q \in allow_list[p]
    /\ allow_list' = [allow_list EXCEPT ![p] = @ \ {q}]
    /\ on_allow_list' = [on_allow_list EXCEPT ![q] = @ \ {p}]
    /\ known' = [known EXCEPT ![p] = @ \ {q}]
    /\ UNCHANGED << here, exists, inviteonly, memberships, invitations >>

AddAccept(p, q) ==
    /\ {p, q} \subseteq here /\ p \in Local /\ q \notin allow_list[p]
    /\ Cardinality(allow_list[p]) < MaxAccept
    /\ allow_list' = [allow_list EXCEPT ![p] = @ \union {q}]
    /\ on_allow_list' = [on_allow_list EXCEPT ![q] = @ \union {p}]
    /\ known' = [known EXCEPT ![p] = @ \union {q}]
    /\ UNCHANGED << here, exists, inviteonly, memberships, invitations >>

(* Mutant of DelAllAccepts: the lists that have p are left.                *)
DelAllAccepts_Own(p) ==
    /\ allow_list' = [allow_list EXCEPT ![p] = {}]
    /\ on_allow_list' = [q \in Person |->
          IF q \in allow_list[p] THEN on_allow_list[q] \ {p} ELSE on_allow_list[q]]

(* del_all_accepts: those p accepts, and then those who accept p.          *)
DelAllAccepts(p) ==
    LET on == [q \in Person |->
                 IF q \in allow_list[p] THEN on_allow_list[q] \ {p} ELSE on_allow_list[q]]
    IN  /\ allow_list' = [q \in Person |->
              IF q = p THEN {} ELSE IF q \in on[p] THEN allow_list[q] \ {p} ELSE allow_list[q]]
        /\ on_allow_list' = [on EXCEPT ![p] = {q \in @ : q = p \/ p \notin allow_list[q]}]

(* change_local_nick and the same for a client of another server.          *)
ChangeNick(p) ==
    /\ p \in here
    /\ DelAllAccepts(p)
    /\ known' = [q \in Person |-> known[q] \ {p}]
    /\ UNCHANGED << here, exists, inviteonly, memberships, invitations >>

(* exit_one_client for a person, and qs exit for one of another server,    *)
(* which differs in locmembers alone, where such a person is not.          *)
Exit(p) ==
    LET gone == Emptied(p, channel[p])
        left == InvitedWithout(gone)
    IN  /\ p \in here /\ here' = here \ {p}
        /\ LeaveChannels(p, channel[p])
        /\ invited' = [left EXCEPT ![p] = {}]
        /\ invites' = [c \in Channel |->
              IF c \in left[p] THEN InvitesWithout(gone)[c] \ {p} ELSE InvitesWithout(gone)[c]]
        /\ DelAllAccepts(p)
        /\ known' = [q \in Person |-> IF q = p THEN {} ELSE known[q] \ {p}]

Next ==
    \/ \E p \in Person : Arrive(p) \/ JoinZero(p) \/ ChangeNick(p) \/ Exit(p)
    \/ \E p \in Person, c \in Channel :
          Join(p, c) \/ Part(p, c) \/ \E op \in BOOLEAN : Sjoin(p, c, op)
    \/ \E c \in Channel : SetInviteOnly(c)
    \/ \E p, t \in Person, c \in Channel : Invite(p, t, c)
    \/ \E p, q \in Person : DelFromAccept(p, q) \/ AddAccept(p, q)

Spec == Init /\ [][Next]_vars

-----------------------------------------------------------------------------
(* Each relation is the same at both ends, and locmembers is the local     *)
(* part of members: find_channel_membership and accept_message look at one *)
(* end, the removal of a client or a channel starts from the other.        *)
EndsAgree ==
    /\ \A p \in Person, c \in Channel :
          /\ c \in channel[p] <=> p \in members[c]
          /\ c \in invited[p] <=> p \in invites[c]
    /\ \A p, q \in Person : q \in allow_list[p] <=> p \in on_allow_list[q]
    /\ \A c \in Channel : locmembers[c] = members[c] \intersect Local

(* A client that has gone and a channel that is no more are on no list, a  *)
(* channel is there as long as it has a member, and so what the next user  *)
(* of the name or the memory finds is empty.                               *)
NothingOfTheGone ==
    /\ \A p \in Person \ here : channel[p] = {} /\ invited[p] = {} /\ allow_list[p] = {}
    /\ \A q \in Person : allow_list[q] \subseteq here
    /\ \A c \in Channel : members[c] \union invites[c] \subseteq here
    /\ \A c \in Channel : c \in exists <=> members[c] # {}
    /\ \A c \in Channel : c \notin exists => invites[c] = {} /\ c \notin inviteonly

(* An invite is good for one JOIN: a member has none for the channel to    *)
(* come back with after a kick.                                            *)
InvitesAreUsedUp == \A c \in Channel : members[c] \intersect invites[c] = {}

(* An ACCEPT list and the list of invites never grow beyond the limits of  *)
(* the configuration: the oldest invite makes room for a new one.          *)
ListsAreBounded ==
    \A p \in Person :
        /\ IsFiniteSet(invited[p]) /\ Cardinality(invited[p]) <= MaxChans
        /\ IsFiniteSet(allow_list[p]) /\ Cardinality(allow_list[p]) <= MaxAccept

(* Nobody is accepted who has changed nick since, so that a user cannot be *)
(* followed through a change of nick.                                      *)
AcceptsAreForTheNick == \A p \in Person : allow_list[p] \subseteq known[p]
=============================================================================
