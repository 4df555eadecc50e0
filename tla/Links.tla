------------------------------- MODULE Links -------------------------------
(***************************************************************************)
(* The links between servers.  A link is a TCP connection, that is a pair  *)
(* of queues, one per direction; a server learns of the loss of a link on  *)
(* its own, when a read, a write or a ping fails, and tells the others by  *)
(* SQUIT.  What the lines say and what a server does with them is for the  *)
(* modules that extend this one: every action here is conjoined there with *)
(* what happens to the state of the server that takes it.                  *)
(***************************************************************************)
EXTENDS Sequences, Naturals, FiniteSets

CONSTANTS
    Server,
    Edge           \* the links that may exist: two-element sets, a tree

ASSUME LinksAssumption == IsFiniteSet(Server) /\ Edge \subseteq SUBSET Server

VARIABLES
    links,     \* links[s]: the neighbours s has a STAT_SERVER client for
    net        \* net[s][t]: lines from s that t has not parsed yet

linkVars == << links, net >>

Neighbour(s) == {t \in Server : {s, t} \in Edge /\ s # t}

(* Mutant of Behind: only the server that was linked is lost.              *)
Behind_Alone(t, s) == {s}

(* The servers t reaches through its neighbour s.                          *)
Behind(t, s) ==
    {x \in Server : \A D \in SUBSET Server :
        (s \in D /\ \A d \in D : Neighbour(d) \ {t} \subseteq D) => x \in D}

(* The network is one piece, and has no way round.                         *)
ASSUME TreeAssumption ==
    /\ \A D \in SUBSET Server :
          D # {} /\ (\A d \in D : Neighbour(d) \subseteq D) => D = Server
    /\ \A s \in Server : \A x, t \in Neighbour(s) : x # t => t \notin Behind(s, x)

LinkMessage == [type : {"SQUIT"}, lost : SUBSET Server] \union [type : {"SERVER", "EOF"}]

LinksTypeOK(Message) ==
    /\ links \in [Server -> SUBSET Server]
    /\ net \in [Server -> [Server -> Seq(Message \union LinkMessage)]]

LinksInit ==
    /\ links = [s \in Server |-> Neighbour(s)]
    /\ net = [s \in Server |-> [t \in Server |-> << >>]]

(* sendto_server: the lines to every linked server but those in `not`.     *)
Sent(s, not, lines) ==
    [net EXCEPT ![s] = [t \in Server |->
        IF t \in links[s] \ not THEN net[s][t] \o lines ELSE net[s][t]]]

(* Server t takes the first line s sent it, answers with `back` and sends  *)
(* `lines` to its other links.                                             *)
Answered(s, t, back, lines) ==
    [net EXCEPT ![s][t] = Tail(@),
                ![t] = [x \in Server |->
                    IF x = s THEN net[t][x] \o back
                    ELSE IF x \in links[t] THEN net[t][x] \o lines ELSE net[t][x]]]
Taken(s, t, lines) == Answered(s, t, << >>, lines)

(* The line t parses next from s.  Only the two lines that open and close  *)
(* a link are read without one.                                            *)
Arrives(s, t, type) ==
    /\ net[s][t] # << >> /\ Head(net[s][t]).type = type
    /\ s \in links[t] \/ type \in {"SERVER", "EOF"}

-----------------------------------------------------------------------------
Leftover(s, t) ==
    IF s \in links[t] \/ (net[s][t] # << >> /\ Head(net[s][t]).type = "SERVER")
    THEN {SubSeq(net[s][t], 1, n) \o << [type |-> "EOF"] >> : n \in 0..Len(net[s][t])}
    ELSE {<< >>}

(* s gives up its link to t (ping timeout, SQUIT, a write that fails).     *)
(* What t sent is not read any more; of what s sent some still arrives,    *)
(* unless t has given up before.                                           *)
CloseLink(s, t) ==
    /\ t \in links[s]
    /\ links' = [links EXCEPT ![s] = @ \ {t}]
    /\ \E left \in Leftover(s, t) :
         net' = [Sent(s, {t}, << [type |-> "SQUIT", lost |-> Behind(s, t)] >>) EXCEPT
                    ![t][s] = << >>, ![s][t] = left]

(* t reads the end of the file: the link is lost, if it still has it.      *)
EofLink(s, t) ==
    /\ Arrives(s, t, "EOF")
    /\ links' = [links EXCEPT ![t] = @ \ {s}]
    /\ net' = IF s \in links[t]
              THEN [Taken(s, t, << [type |-> "SQUIT", lost |-> Behind(t, s)] >>)
                       EXCEPT ![t][s] = << >>]
              ELSE Taken(s, t, << >>)

SquitLink(s, t) ==
    /\ Arrives(s, t, "SQUIT")
    /\ net' = Taken(s, t, << Head(net[s][t]) >>)
    /\ UNCHANGED links

(* server_estab at the end that greets first, with its burst.              *)
EstabLink(s, t, burst) ==
    /\ t \in Neighbour(s) \ links[s] /\ s \notin links[t]
    /\ net[s][t] = << >> /\ net[t][s] = << >>
    /\ links' = [links EXCEPT ![s] = @ \union {t}]
    /\ net' = [net EXCEPT ![s][t] = << [type |-> "SERVER"] >> \o burst]

(* server_estab at the other end, on reading SERVER.                       *)
ServerLink(s, t, burst) ==
    /\ Arrives(s, t, "SERVER")
    /\ links' = [links EXCEPT ![t] = @ \union {s}]
    /\ net' = [net EXCEPT ![s][t] = Tail(@), ![t][s] = @ \o burst]

(* Everything sent has been read, and every link is up at both ends.       *)
Quiet ==
    /\ \A s, t \in Server : net[s][t] = << >>
    /\ \A s \in Server : links[s] = Neighbour(s)
=============================================================================
