---------------------------- MODULE LinksProofs ----------------------------
(***************************************************************************)
(* What the operators and the actions of Links keep true of the queues and *)
(* the links, for any type M of lines: first the types, then what the tree *)
(* of servers looks like from one of its links, then how the two ends of a *)
(* link and the queues between them depend on each other (LinksOK).  The   *)
(* proofs about the modules that extend Links cite these lemmas.           *)
(***************************************************************************)
EXTENDS Links, SequenceTheorems, TLAPS

Queues(M) == [Server -> [Server -> Seq(M \union LinkMessage)]]

(* Lines added to the queues of some neighbours (sendto_server).           *)
LEMMA SentType ==
    ASSUME NEW M, net \in Queues(M), NEW s \in Server, NEW not,
           NEW lines \in Seq(M \union LinkMessage)
    PROVE  Sent(s, not, lines) \in Queues(M)
<1>1. \A t \in Server : net[s][t] \o lines \in Seq(M \union LinkMessage)
    BY DEF Queues
<1> QED BY <1>1 DEF Sent, Queues

(* A line taken from one queue, with answers and relays added to others    *)
(* (parse and the handlers).                                               *)
LEMMA AnsweredType ==
    ASSUME NEW M, net \in Queues(M), NEW s \in Server, NEW t \in Server,
           net[s][t] # << >>,
           NEW back \in Seq(M \union LinkMessage), NEW lines \in Seq(M \union LinkMessage)
    PROVE  Answered(s, t, back, lines) \in Queues(M)
<1> DEFINE L == M \union LinkMessage
<1>1. Tail(net[s][t]) \in Seq(L)
    BY DEF Queues
<1>2. \A x \in Server : net[t][x] \o back \in Seq(L) /\ net[t][x] \o lines \in Seq(L)
    BY DEF Queues
<1>3. [net EXCEPT ![s][t] = Tail(net[s][t])] \in Queues(M)
    BY <1>1 DEF Queues
<1>4. [x \in Server |-> IF x = s THEN net[t][x] \o back
                        ELSE IF x \in links[t] THEN net[t][x] \o lines ELSE net[t][x]]
        \in [Server -> Seq(L)]
    BY <1>2 DEF Queues
<1> QED BY <1>3, <1>4 DEF Answered, Queues

(* One line is read, and others are sent on.                               *)
LEMMA TakenType ==
    ASSUME NEW M, net \in Queues(M), NEW s \in Server, NEW t \in Server,
           net[s][t] # << >>, NEW lines \in Seq(M \union LinkMessage)
    PROVE  Taken(s, t, lines) \in Queues(M)
<1>1. << >> \in Seq(M \union LinkMessage)
    OBVIOUS
<1> QED BY <1>1, AnsweredType DEF Taken

(* Only a server lies behind a neighbour.                                  *)
LEMMA BehindType ==
    ASSUME NEW s, NEW t PROVE Behind(t, s) \in SUBSET Server
BY DEF Behind

(* The head of a queue has the type of its lines, and its own type field   *)
(* tells a line of M from one of LinkMessage.                              *)
LEMMA ArrivesType ==
    ASSUME NEW M, net \in Queues(M), NEW s \in Server, NEW t \in Server, NEW type,
           Arrives(s, t, type)
    PROVE  /\ net[s][t] # << >>
           /\ Head(net[s][t]) \in M \union LinkMessage
           /\ Head(net[s][t]).type = type
<1>1. net[s][t] \in Seq(M \union LinkMessage) /\ net[s][t] # << >>
    BY DEF Queues, Arrives
<1> QED BY <1>1 DEF Arrives

-----------------------------------------------------------------------------
(* The actions of Links, one by one.                                       *)
LEMMA CloseLinkType ==
    ASSUME NEW M, LinksTypeOK(M), NEW s \in Server, NEW t \in Server, CloseLink(s, t)
    PROVE  LinksTypeOK(M)'
<1> DEFINE L == M \union LinkMessage
<1>1. net \in Queues(M) /\ links \in [Server -> SUBSET Server]
    BY DEF LinksTypeOK, Queues
<1>2. links' \in [Server -> SUBSET Server]
    BY <1>1 DEF CloseLink
<1>3. PICK left \in Leftover(s, t) :
        net' = [Sent(s, {t}, << [type |-> "SQUIT", lost |-> Behind(s, t)] >>) EXCEPT
                    ![t][s] = << >>, ![s][t] = left]
    BY DEF CloseLink
<1>4. left \in Seq(L)
    <2>1. << >> \in Seq(L)
        OBVIOUS
    <2>2. [type |-> "EOF"] \in L
        BY DEF LinkMessage
    <2>3. ASSUME NEW n \in 0..Len(net[s][t])
          PROVE  SubSeq(net[s][t], 1, n) \o << [type |-> "EOF"] >> \in Seq(L)
        <3>1. net[s][t] \in Seq(L)
            BY <1>1 DEF Queues
        <3>2. SubSeq(net[s][t], 1, n) \in Seq(L)
            BY <3>1
        <3> QED BY <3>2, <2>2
    <2> QED BY <2>1, <2>3 DEF Leftover
<1>5. Sent(s, {t}, << [type |-> "SQUIT", lost |-> Behind(s, t)] >>) \in Queues(M)
    <2>1. << [type |-> "SQUIT", lost |-> Behind(s, t)] >> \in Seq(L)
        BY BehindType DEF LinkMessage
    <2> QED BY <1>1, <2>1, SentType
<1>6. << >> \in Seq(L)
    OBVIOUS
<1>7. net' \in Queues(M)
    BY <1>3, <1>4, <1>5, <1>6 DEF Queues
<1> QED BY <1>2, <1>7 DEF LinksTypeOK, Queues

(* The end of a link is read.                                              *)
LEMMA EofLinkType ==
    ASSUME NEW M, LinksTypeOK(M), NEW s \in Server, NEW t \in Server, EofLink(s, t)
    PROVE  LinksTypeOK(M)'
<1>1. net \in Queues(M) /\ links \in [Server -> SUBSET Server]
    BY DEF LinksTypeOK, Queues
<1>2. links' \in [Server -> SUBSET Server]
    BY <1>1 DEF EofLink
<1>3. net[s][t] # << >>
    BY <1>1, ArrivesType DEF EofLink
<1>4. Taken(s, t, << [type |-> "SQUIT", lost |-> Behind(t, s)] >>) \in Queues(M)
    <2>1. << [type |-> "SQUIT", lost |-> Behind(t, s)] >> \in Seq(M \union LinkMessage)
        BY BehindType DEF LinkMessage
    <2> QED BY <1>1, <1>3, <2>1, TakenType
<1>5. << >> \in Seq(M \union LinkMessage)
    OBVIOUS
<1>6. Taken(s, t, << >>) \in Queues(M)
    BY <1>1, <1>3, <1>5, TakenType
<1>7. net' \in Queues(M)
    BY <1>4, <1>5, <1>6 DEF EofLink, Queues
<1> QED BY <1>2, <1>7 DEF LinksTypeOK, Queues

(* A SQUIT is read and passed on.                                          *)
LEMMA SquitLinkType ==
    ASSUME NEW M, LinksTypeOK(M), NEW s \in Server, NEW t \in Server, SquitLink(s, t)
    PROVE  LinksTypeOK(M)'
<1>1. net \in Queues(M) /\ links \in [Server -> SUBSET Server]
    BY DEF LinksTypeOK, Queues
<1>2. net[s][t] # << >> /\ Head(net[s][t]) \in M \union LinkMessage
    BY <1>1, ArrivesType DEF SquitLink
<1>3. << Head(net[s][t]) >> \in Seq(M \union LinkMessage)
    BY <1>2
<1>4. net' \in Queues(M)
    BY <1>1, <1>2, <1>3, TakenType DEF SquitLink
<1> QED BY <1>1, <1>4 DEF LinksTypeOK, Queues, SquitLink

(* A greeting and a burst.                                                 *)
LEMMA EstabLinkType ==
    ASSUME NEW M, LinksTypeOK(M), NEW s \in Server, NEW t \in Server,
           NEW burst \in Seq(M), EstabLink(s, t, burst)
    PROVE  LinksTypeOK(M)'
<1>1. net \in Queues(M) /\ links \in [Server -> SUBSET Server]
    BY DEF LinksTypeOK, Queues
<1>2. links' \in [Server -> SUBSET Server]
    BY <1>1 DEF EstabLink
<1>3. << [type |-> "SERVER"] >> \o burst \in Seq(M \union LinkMessage)
    <2>1. << [type |-> "SERVER"] >> \in Seq(M \union LinkMessage)
        BY DEF LinkMessage
    <2>2. burst \in Seq(M \union LinkMessage)
        OBVIOUS
    <2> QED BY <2>1, <2>2
<1>4. net' \in Queues(M)
    BY <1>1, <1>3 DEF EstabLink, Queues
<1> QED BY <1>2, <1>4 DEF LinksTypeOK, Queues

(* A greeting is read and answered with a burst.                           *)
LEMMA ServerLinkType ==
    ASSUME NEW M, LinksTypeOK(M), NEW s \in Server, NEW t \in Server,
           NEW burst \in Seq(M), ServerLink(s, t, burst)
    PROVE  LinksTypeOK(M)'
<1> DEFINE L == M \union LinkMessage
<1>1. net \in Queues(M) /\ links \in [Server -> SUBSET Server]
    BY DEF LinksTypeOK, Queues
<1>2. links' \in [Server -> SUBSET Server]
    BY <1>1 DEF ServerLink
<1>3. net[s][t] # << >>
    BY <1>1, ArrivesType DEF ServerLink
<1>4. burst \in Seq(L)
    OBVIOUS
<1>5. net[t][s] \o burst \in Seq(L) /\ Tail(net[s][t]) \in Seq(L)
    BY <1>1, <1>3, <1>4 DEF Queues
<1>6. net' \in Queues(M)
    BY <1>1, <1>5 DEF ServerLink, Queues
<1> QED BY <1>2, <1>6 DEF LinksTypeOK, Queues

(* No lines yet, and every link is up.                                     *)
LEMMA LinksInitType ==
    ASSUME NEW M, LinksInit PROVE LinksTypeOK(M)
<1>1. \A s \in Server : Neighbour(s) \in SUBSET Server
    BY DEF Neighbour
<1>2. << >> \in Seq(M \union LinkMessage)
    OBVIOUS
<1> QED BY <1>1, <1>2 DEF LinksInit, LinksTypeOK
-----------------------------------------------------------------------------
(* The tree.                                                               *)

(* Links go both ways, and never to oneself.                               *)
LEMMA Neighbours ==
    /\ \A s, t \in Server : t \in Neighbour(s) <=> s \in Neighbour(t)
    /\ \A s : Neighbour(s) \subseteq Server /\ s \notin Neighbour(s)
<1>1. \A s, t : {s, t} = {t, s}
    OBVIOUS
<1> QED BY <1>1 DEF Neighbour

(* What lies behind s, seen from t, is closed under every link but the     *)
(* ones of t, holds s and does not hold t.                                 *)
LEMMA BehindIs ==
    ASSUME NEW s \in Server, NEW t \in Server, s # t
    PROVE  /\ s \in Behind(t, s) /\ t \notin Behind(t, s)
           /\ \A d \in Behind(t, s) : Neighbour(d) \ {t} \subseteq Behind(t, s)
           /\ \A D \in SUBSET Server :
                s \in D /\ (\A d \in D : Neighbour(d) \ {t} \subseteq D) => Behind(t, s) \subseteq D
<1>1. \A D \in SUBSET Server :
        s \in D /\ (\A d \in D : Neighbour(d) \ {t} \subseteq D) => Behind(t, s) \subseteq D
    BY DEF Behind
<1>2. s \in Behind(t, s)
    BY DEF Behind
<1>3. t \notin Behind(t, s)
    <2>1. \A d \in Server \ {t} : Neighbour(d) \ {t} \subseteq Server \ {t}
        BY Neighbours
    <2> QED BY <1>1, <2>1
<1>4. ASSUME NEW d \in Behind(t, s), NEW n \in Neighbour(d) \ {t} PROVE n \in Behind(t, s)
    <2>1. n \in Server
        BY Neighbours
    <2>2. ASSUME NEW D \in SUBSET Server, s \in D, \A e \in D : Neighbour(e) \ {t} \subseteq D
          PROVE  n \in D
        <3>1. d \in D
            BY <1>1, <2>2
        <3> QED BY <1>4, <2>2, <3>1
    <2> QED BY <2>1, <2>2 DEF Behind
<1> QED BY <1>1, <1>2, <1>3, <1>4

(* A link divides the servers.                                             *)
LEMMA BehindDivides ==
    ASSUME NEW s \in Server, NEW t \in Neighbour(s)
    PROVE  /\ Behind(t, s) \union Behind(s, t) = Server
           /\ Behind(t, s) \intersect Behind(s, t) = {}
<1>0. t \in Server /\ s # t /\ s \in Neighbour(t)
    BY Neighbours
<1> DEFINE A == Behind(t, s)
           B == Behind(s, t)
<1>1. /\ s \in A /\ t \notin A /\ \A d \in A : Neighbour(d) \ {t} \subseteq A
      /\ \A D \in SUBSET Server :
           s \in D /\ (\A d \in D : Neighbour(d) \ {t} \subseteq D) => A \subseteq D
    BY <1>0, BehindIs
<1>2. t \in B /\ s \notin B /\ \A d \in B : Neighbour(d) \ {s} \subseteq B
    BY <1>0, BehindIs
<1>3. A \subseteq Server /\ B \subseteq Server
    BY BehindType
<1>4. \A x, y \in Neighbour(s) : x # y => y \notin Behind(s, x)
    BY TreeAssumption
<1>5. \A x \in Neighbour(s) : x # t => x \notin B
    BY <1>4
<1> HIDE DEF A, B
<1>6. A \union B = Server
    <2>1. \A d \in A \union B : Neighbour(d) \subseteq A \union B
        BY <1>1, <1>2
    <2>2. A \union B \in SUBSET Server /\ A \union B # {}
        BY <1>1, <1>3
    <2> QED BY <2>1, <2>2, TreeAssumption
<1>7. A \subseteq A \ B
    <2>1. ASSUME NEW d \in A \ B, NEW n \in Neighbour(d) \ {t} PROVE n \in A \ B
        <3>1. n \in A /\ d \in Server /\ n \in Server
            BY <1>1, <1>3
        <3>2. CASE d = s
            BY <1>5, <2>1, <3>1, <3>2
        <3>3. CASE d # s
            <4>1. d \in Neighbour(n)
                BY <3>1, Neighbours
            <4>2. n \in B => d \in B
                BY <1>2, <3>3, <4>1
            <4> QED BY <2>1, <3>1, <4>2
        <3> QED BY <3>2, <3>3
    <2>2. A \ B \in SUBSET Server /\ s \in A \ B
        BY <1>1, <1>2, <1>3
    <2> QED BY <1>1, <2>1, <2>2
<1> QED BY <1>6, <1>7 DEF A, B

(* What lies behind one neighbour of s is on s's side of the others.       *)
LEMMA BehindThrough ==
    ASSUME NEW s \in Server, NEW x \in Neighbour(s), NEW t \in Neighbour(s), x # t
    PROVE  Behind(s, x) \subseteq Behind(t, s)
<1>0. x \in Server /\ t \in Server /\ s # t /\ s # x
    BY Neighbours
<1> DEFINE A == Behind(t, s)
           B == Behind(s, x)
<1>1. s \in A /\ \A d \in A : Neighbour(d) \ {t} \subseteq A
    BY <1>0, BehindIs
<1>2. /\ x \in B /\ \A d \in B : Neighbour(d) \ {s} \subseteq B
      /\ \A D \in SUBSET Server :
           x \in D /\ (\A d \in D : Neighbour(d) \ {s} \subseteq D) => B \subseteq D
    BY <1>0, BehindIs
<1>3. t \notin B
    BY TreeAssumption
<1>4. A \subseteq Server
    BY BehindType
<1> HIDE DEF A, B
<1>5. x \in A
    BY <1>1
<1>6. \A d \in A \intersect B : Neighbour(d) \ {s} \subseteq A \intersect B
    BY <1>1, <1>2, <1>3
<1>7. A \intersect B \in SUBSET Server
    BY <1>4
<1> QED BY <1>2, <1>5, <1>6, <1>7 DEF A, B

(* What a set of servers hands on along every link that leads away from h, *)
(* it hands on to all.                                                     *)
LEMMA ReachesAll ==
    ASSUME NEW h \in Server, NEW D \in SUBSET Server, h \in D,
           \A d \in D : \A n \in Neighbour(d) : h \in Behind(n, d) => n \in D
    PROVE  D = Server
<1> DEFINE Closed(C) == h \in C /\ \A d \in C : \A n \in Neighbour(d) : h \in Behind(n, d) => n \in C
           E == {x \in Server : \A C \in SUBSET Server : Closed(C) => x \in C}
           F == {d \in E : \A n \in Neighbour(d) : h \in Behind(d, n) => n \in E}
<1>1. \A C \in SUBSET Server : Closed(C) => E \subseteq C
    OBVIOUS
<1>2. Closed(E)
    <2>1. ASSUME NEW d \in E, NEW n \in Neighbour(d), h \in Behind(n, d) PROVE n \in E
        <3>1. n \in Server
            BY Neighbours
        <3>2. ASSUME NEW C \in SUBSET Server, Closed(C) PROVE n \in C
            BY <1>1, <2>1, <3>2
        <3> QED BY <3>1, <3>2
    <2> QED BY <2>1
<1>3. E \subseteq Server /\ E \subseteq D
    <2>1. Closed(D)
        OBVIOUS
    <2> HIDE DEF Closed
    <2> QED BY <2>1
<1> HIDE DEF E
<1>4. Closed(F)
    <2>1. h \in F
        <3>1. \A n \in Neighbour(h) : n \in Server /\ n # h
            BY Neighbours
        <3>2. \A n \in Neighbour(h) : h \notin Behind(h, n)
            BY <3>1, BehindIs
        <3> QED BY <1>2, <3>2
    <2>2. ASSUME NEW d \in F, NEW m \in Neighbour(d), h \in Behind(m, d) PROVE m \in F
        <3>1. d \in E /\ m \in E /\ d \in Server /\ m \in Server /\ d \in Neighbour(m)
            BY <1>2, <1>3, <2>2, Neighbours
        <3>2. ASSUME NEW n \in Neighbour(m), h \in Behind(m, n) PROVE n \in E
            <4>1. CASE n = d
                BY <3>1, <4>1
            <4>2. CASE n # d
                <5>1. Behind(m, n) \subseteq Behind(d, m)
                    BY <3>1, <3>2, <4>2, BehindThrough
                <5>2. Behind(m, d) \intersect Behind(d, m) = {}
                    BY <3>1, BehindDivides
                <5> QED BY <2>2, <3>2, <5>1, <5>2
            <4> QED BY <4>1, <4>2
        <3> QED BY <3>1, <3>2
    <2> QED BY <2>1, <2>2
<1>5. \A d \in E : Neighbour(d) \subseteq E
    <2>1. E \subseteq F
        <3>1. F \in SUBSET Server
            BY <1>3
        <3> HIDE DEF Closed, F
        <3> QED BY <1>1, <1>4, <3>1
    <2>2. ASSUME NEW d \in E, NEW n \in Neighbour(d) PROVE n \in E
        <3>1. d \in Server /\ n \in Server /\ d \in F
            BY <1>3, <2>1, Neighbours
        <3>2. h \in Behind(n, d) \/ h \in Behind(d, n)
            BY <3>1, BehindDivides
        <3> QED BY <1>2, <3>1, <3>2
    <2> QED BY <2>2
<1>6. E = Server
    BY <1>2, <1>3, <1>5, TreeAssumption
<1> QED BY <1>3, <1>6
-----------------------------------------------------------------------------
(* How far two neighbours are with opening and closing their link can be   *)
(* read off what each has of it and the lines between them.                *)

Greets(q) == q # << >> /\ q[1].type = "SERVER"
Ends(q) == q # << >> /\ q[Len(q)].type = "EOF"

(* SERVER comes first and EOF last.                                        *)
Framed(q) ==
    \A n \in 1..Len(q) : /\ q[n].type = "SERVER" => n = 1
                         /\ q[n].type = "EOF" => n = Len(q)

(* Lines that neither open nor close a link.                               *)
Plain(lines) == \A n \in 1..Len(lines) : lines[n].type \notin {"SERVER", "EOF"}

(* A link is opened by a greeting and closed by the end of what was sent.  *)
LinkOK(s, t) ==
    /\ Framed(net[s][t])
    /\ Greets(net[s][t]) => s \notin links[t] /\ net[t][s] = << >>
    /\ Ends(net[s][t]) => t \notin links[s]
    /\ t \notin links[s] => net[s][t] = << >> \/ Ends(net[s][t])
    /\ t \in links[s] /\ s \notin links[t] => Greets(net[s][t]) \/ Ends(net[t][s])

LinksOK ==
    /\ \A s \in Server : links[s] \subseteq Neighbour(s)
    /\ \A s, t \in Server : t \notin Neighbour(s) => net[s][t] = << >>
    /\ \A s \in Server : \A t \in Neighbour(s) : LinkOK(s, t)

(* Lines at the end of a queue leave its frame: greeting first, end last.  *)
LEMMA FrameGrows ==
    ASSUME NEW L, NEW q \in Seq(L), NEW lines \in Seq(L), Plain(lines),
           Framed(q), ~Ends(q)
    PROVE  /\ Framed(q \o lines) /\ ~Ends(q \o lines)
           /\ Greets(q \o lines) <=> Greets(q)
<1> DEFINE r == q \o lines
<1>1. /\ r \in Seq(L) /\ Len(r) = Len(q) + Len(lines)
      /\ \A n \in 1..Len(q) + Len(lines) :
            r[n] = IF n <= Len(q) THEN q[n] ELSE lines[n - Len(q)]
    BY ConcatProperties
<1>2. Len(q) \in Nat /\ Len(lines) \in Nat
    OBVIOUS
<1>3. /\ q # << >> <=> Len(q) # 0
      /\ r # << >> <=> Len(r) # 0
    BY <1>1, EmptySeq
<1> HIDE DEF r
<1>4. ASSUME NEW n \in 1..Len(r)
      PROVE  /\ r[n].type = "SERVER" => n = 1 /\ q # << >> /\ q[1].type = "SERVER"
             /\ r[n].type # "EOF"
    <2>1. CASE n <= Len(q)
        <3>1. r[n] = q[n] /\ n \in 1..Len(q)
            BY <1>1, <1>2, <2>1
        <3> QED BY <1>2, <1>3, <3>1 DEF Framed, Ends
    <2>2. CASE n > Len(q)
        <3>1. r[n] = lines[n - Len(q)] /\ n - Len(q) \in 1..Len(lines)
            BY <1>1, <1>2, <2>2
        <3> QED BY <3>1 DEF Plain
    <2> QED BY <1>1, <1>2, <2>1, <2>2
<1>5. Framed(r) /\ ~Ends(r)
    BY <1>1, <1>2, <1>3, <1>4 DEF Framed, Ends
<1>6. Greets(r) => Greets(q)
    BY <1>1, <1>2, <1>3, <1>4 DEF Greets
<1>7. Greets(q) => Greets(r)
    BY <1>1, <1>2, <1>3 DEF Greets
<1> QED BY <1>5, <1>6, <1>7 DEF r

(* The rest of a queue has a frame as well.                                *)
LEMMA FrameShrinks ==
    ASSUME NEW L, NEW q \in Seq(L), q # << >>, Framed(q)
    PROVE  /\ Framed(Tail(q)) /\ ~Greets(Tail(q))
           /\ Ends(Tail(q)) => Ends(q)
           /\ Ends(q) => Ends(Tail(q)) \/ q[1].type = "EOF"
           /\ q[1].type = "EOF" => Tail(q) = << >>
           /\ Head(q) = q[1]
<1> DEFINE r == Tail(q)
<1>1. /\ r \in Seq(L) /\ Len(r) = Len(q) - 1
      /\ \A n \in 1..Len(r) : r[n] = q[n + 1]
    BY HeadTailProperties
<1>2. Len(q) \in Nat \ {0} /\ Len(r) \in Nat
    BY <1>1, EmptySeq
<1>3. r # << >> <=> Len(r) # 0
    BY <1>1, EmptySeq
<1> HIDE DEF r
<1>4. ASSUME NEW n \in 1..Len(r)
      PROVE  r[n] = q[n + 1] /\ n + 1 \in 1..Len(q)
    BY <1>1, <1>2
<1>5. \A n \in 1..Len(r) : r[n].type # "SERVER" /\ (r[n].type = "EOF" => n = Len(r))
    BY <1>1, <1>2, <1>4 DEF Framed
<1>6. Framed(r) /\ ~Greets(r)
    BY <1>2, <1>3, <1>5 DEF Framed, Greets
<1>7. r # << >> => r[Len(r)] = q[Len(q)]
    BY <1>1, <1>2, <1>3, <1>4
<1>8. Ends(r) => Ends(q)
    BY <1>7 DEF Ends
<1>9. r = << >> => Len(q) = 1
    BY <1>1, <1>2, <1>3
<1>10. Ends(q) => Ends(r) \/ q[1].type = "EOF"
    BY <1>7, <1>9 DEF Ends
<1>11. q[1].type = "EOF" => r = << >>
    <2>0. 1 \in 1..Len(q)
        BY <1>2
    <2>1. q[1].type = "EOF" => Len(q) = 1
        BY <2>0 DEF Framed
    <2> QED BY <1>1, <1>2, <1>3, <2>1
<1> QED BY <1>6, <1>8, <1>10, <1>11 DEF r

(* What is left of a queue when its sender gives up the link.              *)
LEMMA FrameEnds ==
    ASSUME NEW L, NEW q \in Seq(L), Framed(q), ~Ends(q), NEW n \in 0..Len(q)
    PROVE  LET r == SubSeq(q, 1, n) \o << [type |-> "EOF"] >> IN
           /\ Framed(r) /\ Ends(r) /\ (Greets(r) => Greets(q))
           /\ \A i \in 1..Len(r) : r[i].type = "EOF" \/ (i \in 1..Len(q) /\ r[i] = q[i])
<1> DEFINE p == SubSeq(q, 1, n)
           e == << [type |-> "EOF"] >>
           r == p \o e
           K == L \union {[type |-> "EOF"]}
<1>1. Len(q) \in Nat /\ \A i \in 1..n : q[i] \in L
    OBVIOUS
<1>2. /\ p \in Seq(K) /\ Len(p) = n /\ \A i \in 1..n : p[i] = q[i]
    <2>1. /\ p \in Seq(L) /\ Len(p) = IF 1 <= n THEN n - 1 + 1 ELSE 0
          /\ \A i \in 1..n - 1 + 1 : p[i] = q[1 + i - 1]
        BY <1>1, SubSeqProperties
    <2>2. p \in Seq(K)
        BY <2>1, SeqMonotonic
    <2> QED BY <1>1, <2>1, <2>2
<1>3. e \in Seq(K) /\ Len(e) = 1 /\ e[1] = [type |-> "EOF"]
    OBVIOUS
<1> HIDE DEF p, e
<1>4. /\ r \in Seq(K) /\ Len(r) = n + 1
      /\ \A i \in 1..n + 1 : r[i] = IF i <= n THEN p[i] ELSE e[i - n]
    BY <1>2, <1>3, ConcatProperties
<1> HIDE DEF r, K
<1>5. r # << >> /\ Len(r) = n + 1
    BY <1>1, <1>4, EmptySeq
<1>6. r[n + 1] = [type |-> "EOF"] /\ \A i \in 1..n : r[i] = q[i]
    BY <1>1, <1>2, <1>3, <1>4
<1>7. \A i \in 1..n : q[i].type # "EOF" /\ (q[i].type = "SERVER" => i = 1)
    <2>1. ASSUME NEW i \in 1..n PROVE i \in 1..Len(q) /\ q # << >>
        BY <1>1, EmptySeq
    <2> QED BY <2>1 DEF Framed, Ends
<1>8. Framed(r)
    BY <1>5, <1>6, <1>7 DEF Framed
<1>9. Ends(r)
    BY <1>5, <1>6 DEF Ends
<1>10. Greets(r) => Greets(q)
    <2>1. n # 0 => 1 \in 1..n /\ q # << >>
        BY <1>1, EmptySeq
    <2>2. n = 0 => r[1].type = "EOF"
        BY <1>6
    <2>3. n # 0 => r[1] = q[1]
        BY <1>6, <2>1
    <2> QED BY <2>1, <2>2, <2>3 DEF Greets
<1>11. \A i \in 1..Len(r) : r[i].type = "EOF" \/ (i \in 1..Len(q) /\ r[i] = q[i])
    BY <1>1, <1>5, <1>6
<1> QED BY <1>8, <1>9, <1>10, <1>11 DEF r, p, e
(* The queues after the lines of a handler, one by one.                    *)
LEMMA SentIs ==
    ASSUME NEW M, net \in Queues(M), NEW s \in Server, NEW not, NEW lines
    PROVE  \A x, y \in Server :
               Sent(s, not, lines)[x][y] =
                   IF x = s /\ y \in links[s] \ not THEN net[x][y] \o lines ELSE net[x][y]
BY DEF Sent, Queues

(* What sendto_server adds, queue by queue.                                *)
LEMMA SentAll ==
    ASSUME NEW M, net \in Queues(M), NEW s \in Server, NEW lines
    PROVE  \A x, y \in Server :
               Sent(s, {}, lines)[x][y] =
                   IF x = s /\ y \in links[s] THEN net[x][y] \o lines ELSE net[x][y]
BY DEF Sent, Queues

(* What a handler takes and adds, queue by queue.                          *)
LEMMA AnsweredIs ==
    ASSUME NEW M, net \in Queues(M), NEW s \in Server, NEW t \in Server, s # t,
           NEW back, NEW lines
    PROVE  \A x, y \in Server :
               Answered(s, t, back, lines)[x][y] =
                   IF x = s /\ y = t THEN Tail(net[s][t])
                   ELSE IF x = t /\ y = s THEN net[t][s] \o back
                   ELSE IF x = t /\ y \in links[t] THEN net[x][y] \o lines
                   ELSE net[x][y]
<1> TAKE x, y \in Server
<1> DEFINE one == [net EXCEPT ![s][t] = Tail(net[s][t])]
           row == [z \in Server |-> IF z = s THEN net[t][z] \o back
                                    ELSE IF z \in links[t] THEN net[t][z] \o lines
                                    ELSE net[t][z]]
<1>1. Answered(s, t, back, lines) = [one EXCEPT ![t] = row]
    BY DEF Answered
<1>2. one[x][y] = IF x = s /\ y = t THEN Tail(net[s][t]) ELSE net[x][y]
    BY DEF Queues
<1>3. DOMAIN one = Server
    BY DEF Queues
<1>5. row[y] = IF y = s THEN net[t][y] \o back
               ELSE IF y \in links[t] THEN net[t][y] \o lines ELSE net[t][y]
    OBVIOUS
<1> HIDE DEF one, row
<1>4. [one EXCEPT ![t] = row][x] = IF x = t THEN row ELSE one[x]
    BY <1>3
<1> QED BY <1>1, <1>2, <1>4, <1>5

(* The same where nothing goes back to the sender.                         *)
LEMMA TakenIs ==
    ASSUME NEW M, net \in Queues(M), NEW s \in Server, NEW t \in Server, s # t, NEW lines
    PROVE  \A x, y \in Server :
               Taken(s, t, lines)[x][y] =
                   IF x = s /\ y = t THEN Tail(net[s][t])
                   ELSE IF x = t /\ y = s THEN net[t][s]
                   ELSE IF x = t /\ y \in links[t] THEN net[x][y] \o lines
                   ELSE net[x][y]
<1>1. net[t][s] \o << >> = net[t][s]
    <2> DEFINE L == M \union LinkMessage
    <2>1. net[t][s] \in Seq(L)
        BY DEF Queues
    <2> HIDE DEF L
    <2> QED BY <2>1, ConcatEmptySeq
<1> DEFINE none == << >>
<1> HIDE DEF none
<1>2. \A x, y \in Server :
          Answered(s, t, none, lines)[x][y] =
               IF x = s /\ y = t THEN Tail(net[s][t])
               ELSE IF x = t /\ y = s THEN net[t][s] \o none
               ELSE IF x = t /\ y \in links[t] THEN net[x][y] \o lines
               ELSE net[x][y]
    BY AnsweredIs
<1> QED BY <1>1, <1>2 DEF Taken, none

(* Lines are only added while the sender has the link.                     *)
Grows(s, t) ==
    \E M : \E lines \in Seq(M) :
        /\ net[s][t] \in Seq(M) /\ Plain(lines)
        /\ net'[s][t] = net[s][t] \o lines
        /\ t \notin links[s] => lines = << >>

(* A queue that stays as it is.                                            *)
LEMMA GrowsNot ==
    ASSUME NEW M, net \in Queues(M), NEW s \in Server, NEW t \in Server,
           net'[s][t] = net[s][t]
    PROVE  Grows(s, t)
<1> DEFINE L == M \union LinkMessage
<1>1. net[s][t] \in Seq(L)
    BY DEF Queues
<1>2. << >> \in Seq(L) /\ Plain(<< >>)
    BY DEF Plain
<1>3. net[s][t] \o << >> = net[s][t]
    BY <1>1, ConcatEmptySeq
<1> HIDE DEF L
<1> QED BY <1>1, <1>2, <1>3 DEF Grows

(* A queue gets lines that are neither greeting nor end.                   *)
LEMMA GrowsBy ==
    ASSUME NEW M, net \in Queues(M), NEW s \in Server, NEW t \in Server,
           NEW lines \in Seq(M \union LinkMessage), Plain(lines), t \in links[s],
           net'[s][t] = net[s][t] \o lines
    PROVE  Grows(s, t)
<1> DEFINE L == M \union LinkMessage
<1>1. net[s][t] \in Seq(L) /\ lines \in Seq(L)
    BY DEF Queues
<1> HIDE DEF L
<1> QED BY <1>1 DEF Grows

(* A link neither end of which has changed.                                *)
LEMMA PairStays ==
    ASSUME NEW s \in Server, NEW t \in Server, LinkOK(s, t), Grows(s, t), Grows(t, s),
           t \in links'[s] <=> t \in links[s], s \in links'[t] <=> s \in links[t]
    PROVE  LinkOK(s, t)'
<1> DEFINE q == net[s][t]
           r == net[t][s]
<1>1. PICK M : \E lines \in Seq(M) :
        /\ q \in Seq(M) /\ Plain(lines) /\ net'[s][t] = q \o lines
        /\ t \notin links[s] => lines = << >>
    BY DEF Grows
<1>2. PICK K : \E lines \in Seq(K) :
        /\ r \in Seq(K) /\ Plain(lines) /\ net'[t][s] = r \o lines
        /\ s \notin links[t] => lines = << >>
    BY DEF Grows
<1>3. t \notin links[s] => net'[s][t] = q
    BY <1>1, ConcatEmptySeq
<1>4. s \notin links[t] => net'[t][s] = r
    BY <1>2, ConcatEmptySeq
<1>5. t \in links[s] => /\ Framed(net'[s][t]) /\ ~Ends(net'[s][t])
                        /\ Greets(net'[s][t]) <=> Greets(q)
    BY <1>1, FrameGrows DEF LinkOK
<1>6. Framed(net'[s][t]) /\ (Greets(net'[s][t]) <=> Greets(q))
    BY <1>3, <1>5 DEF LinkOK
<1>7. Ends(net'[s][t]) => t \notin links[s]
    BY <1>5
<1> QED BY <1>3, <1>4, <1>6, <1>7 DEF LinkOK

(* Sending over the links a server has keeps all of them in order.         *)
LEMMA SentOK ==
    ASSUME NEW M, LinksTypeOK(M), LinksOK, NEW s \in Server,
           NEW lines \in Seq(M \union LinkMessage), Plain(lines),
           net' = Sent(s, {}, lines), links' = links
    PROVE  LinksOK'
<1>1. net \in Queues(M) /\ links \in [Server -> SUBSET Server]
    BY DEF LinksTypeOK, Queues
<1>2. ASSUME NEW x \in Server, NEW y \in Server
      PROVE  Grows(x, y) /\ (net'[x][y] = net[x][y] \/ y \in links[x])
    <2>1. net'[x][y] = IF x = s /\ y \in links[s] THEN net[x][y] \o lines ELSE net[x][y]
        BY <1>1, SentAll
    <2> QED BY <1>1, <2>1, GrowsNot, GrowsBy
<1>3. \A x \in Server : \A y \in Neighbour(x) : LinkOK(x, y)'
    BY <1>2, PairStays, Neighbours DEF LinksOK
<1>4. \A x, y \in Server : y \notin Neighbour(x) => net'[x][y] = << >>
    BY <1>2 DEF LinksOK
<1> QED BY <1>3, <1>4 DEF LinksOK

(* A line that arrives is the first one.                                   *)
LEMMA ArrivesFirst ==
    ASSUME NEW M, LinksTypeOK(M), LinksOK, NEW s \in Server, NEW t \in Server,
           NEW type, Arrives(s, t, type)
    PROVE  /\ s \in Neighbour(t) /\ t \in Neighbour(s) /\ s # t
           /\ net[s][t] \in Seq(M \union LinkMessage) /\ net[s][t] # << >>
           /\ Head(net[s][t]) = net[s][t][1] /\ net[s][t][1].type = type
           /\ LinkOK(s, t) /\ LinkOK(t, s)
<1>1. net[s][t] # << >> /\ net[s][t] \in Seq(M \union LinkMessage)
    BY DEF LinksTypeOK, Arrives
<1>2. t \in Neighbour(s) /\ s \in Neighbour(t) /\ s # t
    BY <1>1, Neighbours DEF LinksOK
<1>3. Head(net[s][t]) = net[s][t][1]
    BY <1>1
<1> QED BY <1>1, <1>2, <1>3 DEF Arrives, LinksOK

(* So does reading a line and sending on what it says.                     *)
LEMMA TakenOK ==
    ASSUME NEW M, LinksTypeOK(M), LinksOK, NEW s \in Server, NEW t \in Server,
           NEW type, type \notin {"SERVER", "EOF"}, Arrives(s, t, type),
           NEW lines \in Seq(M \union LinkMessage), Plain(lines),
           net' = Taken(s, t, lines), links' = links
    PROVE  LinksOK'
<1> DEFINE q == net[s][t]
<1>1. net \in Queues(M) /\ links \in [Server -> SUBSET Server]
    BY DEF LinksTypeOK, Queues
<1>2. /\ s \in Neighbour(t) /\ t \in Neighbour(s) /\ s # t /\ s \in links[t]
      /\ q \in Seq(M \union LinkMessage) /\ q # << >> /\ q[1].type = type
      /\ LinkOK(s, t) /\ LinkOK(t, s)
    BY ArrivesFirst DEF Arrives
<1>3. ASSUME NEW x \in Server, NEW y \in Server, ~(x = s /\ y = t)
      PROVE  Grows(x, y) /\ (net'[x][y] = net[x][y] \/ y \in links[x])
    <2>2. net'[x][y] = IF x = t /\ y = s THEN net[t][s]
                       ELSE IF x = t /\ y \in links[t] THEN net[x][y] \o lines
                       ELSE net[x][y]
        BY <1>1, <1>2, <1>3, TakenIs
    <2> QED BY <1>1, <2>2, GrowsNot, GrowsBy
<1>4. net'[s][t] = Tail(q) /\ net'[t][s] = net[t][s]
    BY <1>1, <1>2, TakenIs
<1>5. Framed(q)
    BY <1>2 DEF LinkOK
<1> HIDE DEF q
<1>6. /\ Framed(Tail(q)) /\ ~Greets(Tail(q)) /\ (Ends(Tail(q)) => Ends(q))
      /\ Ends(q) => Ends(Tail(q))
    BY <1>2, <1>5, FrameShrinks
<1>7. LinkOK(s, t)'
    BY <1>2, <1>4, <1>6 DEF LinkOK, q
<1>8. LinkOK(t, s)'
    BY <1>2, <1>4, <1>6 DEF LinkOK, q
<1>9. ASSUME NEW x \in Server, NEW y \in Neighbour(x) PROVE LinkOK(x, y)'
    <2>1. y \in Server /\ LinkOK(x, y)
        BY Neighbours DEF LinksOK
    <2>2. CASE (x = s /\ y = t) \/ (x = t /\ y = s)
        BY <1>7, <1>8, <2>2
    <2>3. CASE ~((x = s /\ y = t) \/ (x = t /\ y = s))
        BY <1>3, <2>1, <2>3, PairStays
    <2> QED BY <2>2, <2>3
<1>10. \A x, y \in Server : y \notin Neighbour(x) => net'[x][y] = << >>
    BY <1>2, <1>3 DEF LinksOK
<1> QED BY <1>9, <1>10 DEF LinksOK

-----------------------------------------------------------------------------
(* What is left of a queue: nothing, or some of its lines and EOF.         *)
Left(left, q) ==
    \/ left = << >>
    \/ /\ Framed(left) /\ Ends(left) /\ (Greets(left) => Greets(q))
       /\ \A n \in 1..Len(left) :
             left[n].type = "EOF" \/ (n \in 1..Len(q) /\ left[n] = q[n])

(* A server gives up a link, by itself or because it has read EOF: its own *)
(* lines may still arrive, the ones to it do not, and the others hear it.  *)
GivesUp(s, t, left) ==
    /\ s \in Server /\ t \in Neighbour(s) /\ t \in links[s]
    /\ links' = [links EXCEPT ![s] = links[s] \ {t}]
    /\ net'[t][s] = << >> /\ net'[s][t] = left /\ Left(left, net[s][t])
    /\ s \in links[t] => Ends(left)
    /\ \A x, y \in Server :
          ~(x = s /\ y = t) /\ ~(x = t /\ y = s) =>
              net'[x][y] = IF x = s /\ y \in links[s]
                           THEN net[x][y] \o << [type |-> "SQUIT", lost |-> Behind(s, t)] >>
                           ELSE net[x][y]

(* What the loss of a link does to links and queues.                       *)
LEMMA CloseIs ==
    ASSUME NEW M, LinksTypeOK(M), LinksOK, NEW s \in Server, NEW t \in Server, CloseLink(s, t)
    PROVE  \E left : GivesUp(s, t, left)
<1> DEFINE q == net[s][t]
           squit == << [type |-> "SQUIT", lost |-> Behind(s, t)] >>
           sent == Sent(s, {t}, squit)
<1>1. net \in Queues(M) /\ links \in [Server -> SUBSET Server]
    BY DEF LinksTypeOK, Queues
<1>2. /\ t \in links[s] /\ t \in Neighbour(s) /\ s # t
      /\ links' = [links EXCEPT ![s] = links[s] \ {t}]
      /\ LinkOK(s, t) /\ q \in Seq(M \union LinkMessage)
    BY <1>1, Neighbours DEF CloseLink, LinksOK, Queues
<1>3. PICK left \in Leftover(s, t) : net' = [sent EXCEPT ![t][s] = << >>, ![s][t] = left]
    BY DEF CloseLink
<1>4. \A x, y \in Server :
        sent[x][y] = IF x = s /\ y \in links[s] \ {t} THEN net[x][y] \o squit ELSE net[x][y]
    <2> DEFINE not == {t}
    <2> HIDE DEF not, squit
    <2>1. \A x, y \in Server :
            Sent(s, not, squit)[x][y] =
                IF x = s /\ y \in links[s] \ not THEN net[x][y] \o squit ELSE net[x][y]
        BY <1>1, SentIs
    <2> QED BY <2>1 DEF not
<1>5. sent \in Queues(M)
    <2>1. squit \in Seq(M \union LinkMessage)
        BY BehindType DEF LinkMessage
    <2> HIDE DEF squit
    <2> QED BY <1>1, <2>1, SentType
<1> HIDE DEF sent
<1>6. \A x, y \in Server :
        net'[x][y] = IF x = s /\ y = t THEN left
                     ELSE IF x = t /\ y = s THEN << >> ELSE sent[x][y]
    BY <1>2, <1>3, <1>5 DEF Queues
<1>7. Left(left, q) /\ (s \in links[t] => Ends(left))
    <2>1. CASE s \in links[t] \/ (q # << >> /\ Head(q).type = "SERVER")
        <3>1. PICK n \in 0..Len(q) : left = SubSeq(q, 1, n) \o << [type |-> "EOF"] >>
            BY <1>3, <2>1 DEF Leftover
        <3>2. /\ Framed(left) /\ Ends(left) /\ (Greets(left) => Greets(q))
              /\ \A i \in 1..Len(left) : left[i].type = "EOF" \/ (i \in 1..Len(q) /\ left[i] = q[i])
            BY <1>2, <3>1, FrameEnds DEF LinkOK
        <3> QED BY <3>2 DEF Left
    <2>2. CASE ~(s \in links[t] \/ (q # << >> /\ Head(q).type = "SERVER"))
        BY <1>3, <2>2 DEF Leftover, Left
    <2> QED BY <2>1, <2>2
<1>8. GivesUp(s, t, left)
    <2> HIDE DEF squit
    <2>1. \A x, y \in Server :
            ~(x = s /\ y = t) /\ ~(x = t /\ y = s) =>
                net'[x][y] = IF x = s /\ y \in links[s] THEN net[x][y] \o squit ELSE net[x][y]
        BY <1>4, <1>6
    <2>2. net'[t][s] = << >> /\ net'[s][t] = left
        BY <1>2, <1>6
    <2> QED BY <1>2, <1>7, <2>1, <2>2 DEF GivesUp, squit
<1> QED BY <1>8

(* What the end of a link does to them.                                    *)
LEMMA EofIs ==
    ASSUME NEW M, LinksTypeOK(M), LinksOK, NEW s \in Server, NEW t \in Server, EofLink(s, t)
    PROVE  /\ s \in links[t] => GivesUp(t, s, << >>)
           /\ s \notin links[t] =>
                /\ links' = links /\ net'[s][t] = << >> /\ t \notin links[s]
                /\ t \in Neighbour(s)
                /\ \A x, y \in Server : ~(x = s /\ y = t) => net'[x][y] = net[x][y]
<1> DEFINE q == net[s][t]
           squit == << [type |-> "SQUIT", lost |-> Behind(t, s)] >>
<1>1. net \in Queues(M) /\ links \in [Server -> SUBSET Server]
    BY DEF LinksTypeOK, Queues
<1>2. Arrives(s, t, "EOF") /\ links' = [links EXCEPT ![t] = links[t] \ {s}]
    BY DEF EofLink
<1>3. /\ s \in Neighbour(t) /\ t \in Neighbour(s) /\ s # t
      /\ q \in Seq(M \union LinkMessage) /\ q # << >> /\ q[1].type = "EOF"
      /\ LinkOK(s, t)
    BY <1>2, ArrivesFirst
<1>4. Tail(q) = << >> /\ t \notin links[s]
    <2>1. Framed(q)
        BY <1>3 DEF LinkOK
    <2>2. Len(q) \in Nat \ {0}
        BY <1>3, EmptySeq
    <2>3. 1 \in 1..Len(q)
        BY <2>2
    <2>4. Ends(q)
        BY <1>3, <2>1, <2>3 DEF Framed, Ends
    <2>5. Tail(q) = << >>
        <3> HIDE DEF q
        <3> QED BY <1>3, <2>1, FrameShrinks
    <2> QED BY <1>3, <2>4, <2>5 DEF LinkOK
<1>5. CASE s \in links[t]
    <2>1. net' = [Taken(s, t, squit) EXCEPT ![t][s] = << >>]
        BY <1>5 DEF EofLink
    <2>2. \A x, y \in Server :
            Taken(s, t, squit)[x][y] =
                IF x = s /\ y = t THEN Tail(net[s][t])
                ELSE IF x = t /\ y = s THEN net[t][s]
                ELSE IF x = t /\ y \in links[t] THEN net[x][y] \o squit
                ELSE net[x][y]
        <3> HIDE DEF squit
        <3> QED BY <1>1, <1>3, TakenIs
    <2>3. Taken(s, t, squit) \in Queues(M)
        <3>1. squit \in Seq(M \union LinkMessage)
            BY BehindType DEF LinkMessage
        <3> HIDE DEF squit
        <3> QED BY <1>1, <1>3, <3>1, TakenType
    <2> DEFINE taken == Taken(s, t, squit)
    <2> HIDE DEF taken
    <2>4. \A x, y \in Server :
            net'[x][y] = IF x = t /\ y = s THEN << >> ELSE taken[x][y]
        BY <1>3, <2>1, <2>3 DEF taken, Queues
    <2> HIDE DEF squit
    <2>5. \A x, y \in Server :
            ~(x = t /\ y = s) /\ ~(x = s /\ y = t) =>
                net'[x][y] = IF x = t /\ y \in links[t] THEN net[x][y] \o squit ELSE net[x][y]
        BY <2>2, <2>4 DEF taken
    <2>6. net'[t][s] = << >> /\ net'[s][t] = << >>
        BY <1>3, <1>4, <2>2, <2>4 DEF taken
    <2>7. GivesUp(t, s, << >>)
        BY <1>2, <1>3, <1>4, <1>5, <2>5, <2>6 DEF GivesUp, Left, squit
    <2> QED BY <1>5, <2>7
<1>6. CASE s \notin links[t]
    <2> DEFINE none == << >>
    <2>1. net' = Taken(s, t, none)
        BY <1>6 DEF EofLink
    <2>2. links' = links
        BY <1>1, <1>2, <1>6
    <2> HIDE DEF none
    <2>3. \A x, y \in Server :
            Taken(s, t, none)[x][y] =
                IF x = s /\ y = t THEN Tail(net[s][t])
                ELSE IF x = t /\ y = s THEN net[t][s]
                ELSE IF x = t /\ y \in links[t] THEN net[x][y] \o none
                ELSE net[x][y]
        BY <1>1, <1>3, TakenIs
    <2>4. \A x, y \in Server : net[x][y] \o none = net[x][y]
        <3> DEFINE L == M \union LinkMessage
        <3>1. \A x, y \in Server : net[x][y] \in Seq(L)
            BY <1>1 DEF Queues
        <3> HIDE DEF L
        <3> QED BY <3>1, ConcatEmptySeq DEF none
    <2>5. net'[s][t] = << >> /\ \A x, y \in Server : ~(x = s /\ y = t) => net'[x][y] = net[x][y]
        <3>1. net'[s][t] = << >>
            BY <1>3, <1>4, <2>1, <2>3
        <3>2. ASSUME NEW x \in Server, NEW y \in Server, ~(x = s /\ y = t) PROVE net'[x][y] = net[x][y]
            <4>1. net'[x][y] = net[x][y] \/ net'[x][y] = net[x][y] \o none
                BY <2>1, <2>3, <3>2
            <4> QED BY <2>4, <4>1
        <3> QED BY <3>1, <3>2
    <2> QED BY <1>3, <1>4, <1>6, <2>2, <2>5
<1> QED BY <1>5, <1>6

-----------------------------------------------------------------------------
(* LinksOK is kept by the actions of Links.                                *)
LEMMA LinksInitOK == LinksInit => LinksOK
<1> SUFFICES ASSUME LinksInit PROVE LinksOK
    OBVIOUS
<1>1. \A s \in Server : links[s] = Neighbour(s) /\ \A t \in Server : net[s][t] = << >>
    BY DEF LinksInit
<1>2. Framed(<< >>) /\ ~Greets(<< >>) /\ ~Ends(<< >>)
    BY DEF Framed, Greets, Ends
<1>3. ASSUME NEW s \in Server, NEW t \in Neighbour(s) PROVE LinkOK(s, t)
    <2>1. t \in Server /\ s \in Neighbour(t)
        BY Neighbours
    <2> QED BY <1>1, <1>2, <2>1 DEF LinkOK
<1> QED BY <1>1, <1>3 DEF LinksOK

(* Giving up a link keeps the others in order.                             *)
LEMMA GivesUpOK ==
    ASSUME NEW M, LinksTypeOK(M), LinksOK, NEW s, NEW t, NEW left, GivesUp(s, t, left)
    PROVE  LinksOK'
<1> DEFINE squit == << [type |-> "SQUIT", lost |-> Behind(s, t)] >>
<1>1. net \in Queues(M) /\ links \in [Server -> SUBSET Server]
    BY DEF LinksTypeOK, Queues
<1>2. /\ s \in Server /\ t \in Server /\ t \in Neighbour(s) /\ s \in Neighbour(t) /\ s # t
      /\ t \in links[s] /\ links' = [links EXCEPT ![s] = links[s] \ {t}]
      /\ net'[t][s] = << >> /\ net'[s][t] = left /\ Left(left, net[s][t])
      /\ s \in links[t] => Ends(left)
    BY Neighbours DEF GivesUp
<1>3. \A x \in Server : links'[x] = IF x = s THEN links[s] \ {t} ELSE links[x]
    BY <1>1, <1>2
<1>4. squit \in Seq(M \union LinkMessage) /\ Plain(squit)
    BY BehindType DEF LinkMessage, Plain
<1>5. ASSUME NEW x \in Server, NEW y \in Server, ~(x = s /\ y = t), ~(x = t /\ y = s)
      PROVE  Grows(x, y) /\ (net'[x][y] = net[x][y] \/ y \in links[x])
    <2>1. net'[x][y] = IF x = s /\ y \in links[s] THEN net[x][y] \o squit ELSE net[x][y]
        BY <1>5 DEF GivesUp
    <2> HIDE DEF squit
    <2>2. CASE x = s /\ y \in links[s]
        BY <1>1, <1>4, <2>1, <2>2, GrowsBy
    <2>3. CASE ~(x = s /\ y \in links[s])
        BY <1>1, <2>1, <2>3, GrowsNot
    <2> QED BY <2>1, <2>2, <2>3
<1>6. Framed(<< >>) /\ ~Greets(<< >>) /\ ~Ends(<< >>)
    BY DEF Framed, Greets, Ends
<1>7. LinkOK(s, t) /\ LinkOK(t, s)
    BY <1>2 DEF LinksOK
<1>8. LinkOK(s, t)'
    BY <1>2, <1>3, <1>6, <1>7 DEF LinkOK, Left
<1>9. LinkOK(t, s)'
    BY <1>2, <1>3, <1>6, <1>7 DEF LinkOK, Left
<1>10. ASSUME NEW x \in Server, NEW y \in Neighbour(x) PROVE LinkOK(x, y)'
    <2>1. y \in Server /\ LinkOK(x, y)
        BY Neighbours DEF LinksOK
    <2>2. CASE (x = s /\ y = t) \/ (x = t /\ y = s)
        BY <1>8, <1>9, <2>2
    <2>3. CASE ~((x = s /\ y = t) \/ (x = t /\ y = s))
        <3>1. y \in links'[x] <=> y \in links[x]
            BY <1>2, <1>3, <2>1, <2>3
        <3>2. x \in links'[y] <=> x \in links[y]
            BY <1>2, <1>3, <2>1, <2>3
        <3> QED BY <1>5, <2>1, <2>3, <3>1, <3>2, PairStays
    <2> QED BY <2>2, <2>3
<1>11. \A x, y \in Server : y \notin Neighbour(x) => net'[x][y] = << >>
    BY <1>2, <1>5 DEF LinksOK
<1>12. \A x \in Server : links'[x] \subseteq Neighbour(x)
    BY <1>3 DEF LinksOK
<1> QED BY <1>10, <1>11, <1>12 DEF LinksOK

(* Two queues between one pair of neighbours, and what they know of each   *)
(* other, change; the rest stays.                                          *)
LEMMA OnePairOK ==
    ASSUME NEW M, LinksTypeOK(M), LinksOK, NEW s \in Server, NEW t \in Neighbour(s),
           \A x \in Server : links'[x] \subseteq Neighbour(x),
           \A x, y \in Server : ~(x = s /\ y = t) /\ ~(x = t /\ y = s) =>
               net'[x][y] = net[x][y] /\ (y \in links'[x] <=> y \in links[x]),
           LinkOK(s, t)', LinkOK(t, s)'
    PROVE  LinksOK'
<1>1. net \in Queues(M) /\ t \in Server /\ s \in Neighbour(t)
    BY Neighbours DEF LinksTypeOK, Queues
<1>2. \A x, y \in Server : ~(x = s /\ y = t) /\ ~(x = t /\ y = s) => Grows(x, y)
    BY <1>1, GrowsNot
<1>3. ASSUME NEW x \in Server, NEW y \in Neighbour(x) PROVE LinkOK(x, y)'
    <2>1. y \in Server /\ LinkOK(x, y)
        BY Neighbours DEF LinksOK
    <2>2. CASE (x = s /\ y = t) \/ (x = t /\ y = s)
        BY <2>2
    <2>3. CASE ~((x = s /\ y = t) \/ (x = t /\ y = s))
        <3>1. Grows(x, y) /\ Grows(y, x)
            BY <1>2, <2>1, <2>3
        <3>2. (y \in links'[x] <=> y \in links[x]) /\ (x \in links'[y] <=> x \in links[y])
            BY <2>1, <2>3
        <3> QED BY <2>1, <3>1, <3>2, PairStays
    <2> QED BY <2>2, <2>3
<1>4. \A x, y \in Server : y \notin Neighbour(x) => net'[x][y] = << >>
    BY <1>1 DEF LinksOK
<1> QED BY <1>3, <1>4 DEF LinksOK

(* Reading the end of a link keeps the others in order.                    *)
LEMMA EofOK ==
    ASSUME NEW M, LinksTypeOK(M), LinksOK, NEW s \in Server, NEW t \in Server, EofLink(s, t)
    PROVE  LinksOK'
<1>1. CASE s \in links[t]
    <2>1. GivesUp(t, s, << >>)
        BY <1>1, EofIs
    <2> DEFINE none == << >>
    <2>2. GivesUp(t, s, none)
        BY <2>1
    <2> HIDE DEF none
    <2> QED BY <2>2, GivesUpOK
<1>2. CASE s \notin links[t]
    <2>1. /\ links' = links /\ net'[s][t] = << >> /\ t \notin links[s]
          /\ t \in Neighbour(s)
          /\ \A x, y \in Server : ~(x = s /\ y = t) => net'[x][y] = net[x][y]
        BY <1>2, EofIs
    <2>2. t \in Server /\ s \in Neighbour(t) /\ s # t
        BY <2>1, Neighbours
    <2>3. LinkOK(s, t) /\ LinkOK(t, s) /\ net'[t][s] = net[t][s]
        BY <2>1, <2>2 DEF LinksOK
    <2>4. LinkOK(s, t)'
        BY <1>2, <2>1, <2>3 DEF LinkOK, Framed, Greets, Ends
    <2>5. LinkOK(t, s)'
        BY <1>2, <2>1, <2>3 DEF LinkOK
    <2> QED BY <2>1, <2>4, <2>5, OnePairOK DEF LinksOK
<1> QED BY <1>1, <1>2

(* The queue of the server that greets: SERVER and the burst.              *)
LEMMA FrameStarts ==
    ASSUME NEW L, NEW burst \in Seq(L), Plain(burst)
    PROVE  LET r == << [type |-> "SERVER"] >> \o burst IN
           /\ Framed(r) /\ Greets(r) /\ ~Ends(r) /\ Tail(r) = burst
           /\ Len(r) = Len(burst) + 1
           /\ \A n \in 1..Len(r) : r[n] = IF n = 1 THEN [type |-> "SERVER"] ELSE burst[n - 1]
<1> DEFINE one == << [type |-> "SERVER"] >>
           r == one \o burst
           K == L \union {[type |-> "SERVER"]}
<1>1. one \in Seq(K) /\ Len(one) = 1 /\ one[1] = [type |-> "SERVER"]
    OBVIOUS
<1>2. burst \in Seq(K)
    BY SeqMonotonic
<1>3. Len(burst) \in Nat
    OBVIOUS
<1> HIDE DEF one, K
<1>4. /\ r \in Seq(K) /\ Len(r) = 1 + Len(burst)
      /\ \A n \in 1..1 + Len(burst) : r[n] = IF n <= 1 THEN one[n] ELSE burst[n - 1]
    BY <1>1, <1>2, ConcatProperties
<1> HIDE DEF r
<1>5. r # << >>
    BY <1>3, <1>4, EmptySeq
<1>6. \A n \in 1..Len(r) : r[n] = IF n = 1 THEN [type |-> "SERVER"] ELSE burst[n - 1]
    BY <1>1, <1>3, <1>4
<1>7. \A n \in 1..Len(r) : r[n].type # "EOF" /\ (r[n].type = "SERVER" => n = 1)
    <2>1. ASSUME NEW n \in 1..Len(r), n # 1 PROVE n - 1 \in 1..Len(burst)
        BY <1>3, <1>4, <2>1
    <2> QED BY <1>6, <2>1 DEF Plain
<1>8. 1 \in 1..Len(r) /\ Len(r) \in 1..Len(r)
    BY <1>3, <1>4
<1>9. Framed(r) /\ Greets(r) /\ ~Ends(r)
    BY <1>5, <1>6, <1>7, <1>8 DEF Framed, Greets, Ends
<1>10. Tail(r) = burst
    <2>1. /\ Tail(r) \in Seq(K) /\ Len(Tail(r)) = Len(r) - 1
          /\ \A n \in 1..Len(Tail(r)) : Tail(r)[n] = r[n + 1]
        BY <1>4, <1>5, HeadTailProperties
    <2>2. Len(Tail(r)) = Len(burst)
        BY <1>3, <1>4, <2>1
    <2>3. \A n \in 1..Len(burst) : r[n + 1] = burst[n]
        BY <1>3, <1>4
    <2>4. \A n \in 1..Len(Tail(r)) : Tail(r)[n] = burst[n]
        BY <2>1, <2>2, <2>3
    <2> QED BY <1>2, <2>1, <2>2, <2>4, SeqEqual
<1> QED BY <1>3, <1>4, <1>6, <1>9, <1>10 DEF r, one

(* What the two halves of server_estab do to the queues.                   *)
LEMMA EstabIs ==
    ASSUME NEW M, LinksTypeOK(M), LinksOK, NEW s \in Server, NEW t \in Server,
           NEW burst, EstabLink(s, t, burst)
    PROVE  /\ t \in Neighbour(s) /\ s # t /\ t \notin links[s] /\ s \notin links[t]
           /\ net[s][t] = << >> /\ net[t][s] = << >>
           /\ net'[s][t] = << [type |-> "SERVER"] >> \o burst
           /\ \A x, y \in Server : ~(x = s /\ y = t) => net'[x][y] = net[x][y]
           /\ \A x \in Server : links'[x] = IF x = s THEN links[s] \union {t} ELSE links[x]
<1>1. net \in Queues(M) /\ links \in [Server -> SUBSET Server]
    BY DEF LinksTypeOK, Queues
<1>2. t \in Neighbour(s) /\ s # t
    BY Neighbours DEF EstabLink
<1> DEFINE r == << [type |-> "SERVER"] >> \o burst
<1>3. net' = [net EXCEPT ![s][t] = r] /\ links' = [links EXCEPT ![s] = links[s] \union {t}]
    BY DEF EstabLink
<1> HIDE DEF r
<1>4. \A x, y \in Server : net'[x][y] = IF x = s /\ y = t THEN r ELSE net[x][y]
    BY <1>1, <1>2, <1>3 DEF Queues
<1>5. \A x \in Server : links'[x] = IF x = s THEN links[s] \union {t} ELSE links[x]
    BY <1>1, <1>3
<1>6. t \notin links[s] /\ s \notin links[t] /\ net[s][t] = << >> /\ net[t][s] = << >>
    BY DEF EstabLink
<1>7. net'[s][t] = << [type |-> "SERVER"] >> \o burst
    BY <1>4 DEF r
<1> QED BY <1>2, <1>4, <1>5, <1>6, <1>7

(* Greeting keeps the links in order.                                      *)
LEMMA EstabOK ==
    ASSUME NEW M, LinksTypeOK(M), LinksOK, NEW s \in Server, NEW t \in Server,
           NEW burst \in Seq(M), Plain(burst), EstabLink(s, t, burst)
    PROVE  LinksOK'
<1> DEFINE r == << [type |-> "SERVER"] >> \o burst
<1>1. /\ t \in Neighbour(s) /\ s # t /\ t \notin links[s] /\ s \notin links[t]
      /\ net[s][t] = << >> /\ net[t][s] = << >>
      /\ net'[s][t] = r
      /\ \A x, y \in Server : ~(x = s /\ y = t) => net'[x][y] = net[x][y]
      /\ \A x \in Server : links'[x] = IF x = s THEN links[s] \union {t} ELSE links[x]
    BY EstabIs, Zenon
<1>2. Framed(r) /\ Greets(r) /\ ~Ends(r)
    BY FrameStarts
<1> HIDE DEF r
<1>3. LinkOK(s, t)'
    BY <1>1, <1>2 DEF LinkOK
<1>4. LinkOK(t, s)'
    BY <1>1, <1>2 DEF LinkOK, Framed, Greets, Ends
<1>5. /\ \A x \in Server : links'[x] \subseteq Neighbour(x)
      /\ \A x, y \in Server : ~(x = s /\ y = t) /\ ~(x = t /\ y = s) =>
               net'[x][y] = net[x][y] /\ (y \in links'[x] <=> y \in links[x])
    BY <1>1 DEF LinksOK
<1> QED BY <1>1, <1>3, <1>4, <1>5, OnePairOK

(* What an answered greeting does to links and queues.                     *)
LEMMA ServerIs ==
    ASSUME NEW M, LinksTypeOK(M), LinksOK, NEW s \in Server, NEW t \in Server,
           NEW burst, ServerLink(s, t, burst)
    PROVE  /\ t \in Neighbour(s) /\ s \in Neighbour(t) /\ s # t
           /\ s \notin links[t] /\ net[t][s] = << >>
           /\ Greets(net[s][t]) /\ net'[s][t] = Tail(net[s][t])
           /\ net'[t][s] = << >> \o burst
           /\ \A x, y \in Server :
                ~(x = s /\ y = t) /\ ~(x = t /\ y = s) => net'[x][y] = net[x][y]
           /\ \A x \in Server : links'[x] = IF x = t THEN links[t] \union {s} ELSE links[x]
<1>1. net \in Queues(M) /\ links \in [Server -> SUBSET Server]
    BY DEF LinksTypeOK, Queues
<1>2. Arrives(s, t, "SERVER")
    BY DEF ServerLink
<1>3. /\ s \in Neighbour(t) /\ t \in Neighbour(s) /\ s # t /\ LinkOK(s, t)
      /\ net[s][t] # << >> /\ net[s][t][1].type = "SERVER"
    BY <1>2, ArrivesFirst
<1>4. Greets(net[s][t]) /\ s \notin links[t] /\ net[t][s] = << >>
    BY <1>3 DEF Greets, LinkOK
<1> DEFINE q == Tail(net[s][t])
           r == net[t][s] \o burst
<1>5. /\ net' = [net EXCEPT ![s][t] = q, ![t][s] = r]
      /\ links' = [links EXCEPT ![t] = links[t] \union {s}]
    BY <1>3 DEF ServerLink
<1> HIDE DEF q, r
<1>6. \A x, y \in Server :
        net'[x][y] = IF x = t /\ y = s THEN r ELSE IF x = s /\ y = t THEN q ELSE net[x][y]
    BY <1>1, <1>3, <1>5 DEF Queues
<1>7. \A x \in Server : links'[x] = IF x = t THEN links[t] \union {s} ELSE links[x]
    BY <1>1, <1>5
<1> QED BY <1>3, <1>4, <1>6, <1>7 DEF q, r

(* Answering a greeting keeps the links in order.                          *)
LEMMA ServerOK ==
    ASSUME NEW M, LinksTypeOK(M), LinksOK, NEW s \in Server, NEW t \in Server,
           NEW burst \in Seq(M), Plain(burst), ServerLink(s, t, burst)
    PROVE  LinksOK'
<1> DEFINE q == net[s][t]
<1>1. /\ t \in Neighbour(s) /\ s \in Neighbour(t) /\ s # t
      /\ s \notin links[t] /\ net[t][s] = << >>
      /\ Greets(q) /\ net'[s][t] = Tail(q)
      /\ net'[t][s] = << >> \o burst
      /\ \A x, y \in Server :
            ~(x = s /\ y = t) /\ ~(x = t /\ y = s) => net'[x][y] = net[x][y]
      /\ \A x \in Server : links'[x] = IF x = t THEN links[t] \union {s} ELSE links[x]
    BY ServerIs
<1>2. << >> \o burst = burst
    BY ConcatEmptySeq
<1>3. q \in Seq(M \union LinkMessage) /\ LinkOK(s, t)
    BY <1>1 DEF LinksTypeOK, LinksOK
<1>4. /\ Framed(Tail(q)) /\ ~Greets(Tail(q)) /\ (Ends(Tail(q)) => Ends(q))
      /\ Ends(q) => Ends(Tail(q))
    <2>1. q # << >> /\ Framed(q) /\ q[1].type # "EOF"
        BY <1>1, <1>3 DEF Greets, LinkOK
    <2> HIDE DEF q
    <2> QED BY <1>3, <2>1, FrameShrinks
<1>5. Framed(burst) /\ ~Greets(burst) /\ ~Ends(burst)
    <2>1. burst # << >> => 1 \in 1..Len(burst) /\ Len(burst) \in 1..Len(burst)
        BY EmptySeq
    <2> QED BY <2>1 DEF Plain, Framed, Greets, Ends
<1>6. LinkOK(s, t)'
    BY <1>1, <1>3, <1>4 DEF LinkOK, Greets
<1>7. LinkOK(t, s)'
    BY <1>1, <1>2, <1>3, <1>4, <1>5 DEF LinkOK, Greets
<1>8. /\ \A x \in Server : links'[x] \subseteq Neighbour(x)
      /\ \A x, y \in Server : ~(x = s /\ y = t) /\ ~(x = t /\ y = s) =>
               net'[x][y] = net[x][y] /\ (y \in links'[x] <=> y \in links[x])
    BY <1>1 DEF LinksOK
<1> QED BY <1>1, <1>6, <1>7, <1>8, OnePairOK

(* Passing on a SQUIT keeps the links in order.                            *)
LEMMA SquitOK ==
    ASSUME NEW M, LinksTypeOK(M), LinksOK, NEW s \in Server, NEW t \in Server, SquitLink(s, t)
    PROVE  LinksOK'
<1> DEFINE m == Head(net[s][t])
           lines == << m >>
<1>1. Arrives(s, t, "SQUIT") /\ net' = Taken(s, t, lines) /\ links' = links
    BY DEF SquitLink
<1>2. m \in M \union LinkMessage /\ m.type = "SQUIT"
    BY <1>1, ArrivesType DEF LinksTypeOK, Queues
<1> HIDE DEF m
<1>3. lines \in Seq(M \union LinkMessage) /\ Plain(lines)
    BY <1>2 DEF Plain
<1> HIDE DEF lines
<1> QED BY <1>1, <1>3, TakenOK
=============================================================================
