---------------------------- MODULE NickTSProofs ----------------------------
(***************************************************************************)
(* Proofs about NickTS, for any tree of servers, any users, nicks and      *)
(* clocks, and any bounds.                                                 *)
(*                                                                         *)
(* TypeOK, NicksAreUnique and HistoryIsLive: what a server holds is        *)
(* consistent by itself (ViewOK), since the operators that change it keep  *)
(* it so, whatever line made the server use them.  All it needs to know of *)
(* the network is that no line introduces a connection that is yet to be   *)
(* made.                                                                   *)
(*                                                                         *)
(* LoneClientsAgree: o says whom every nick belongs to, and every line and *)
(* view goes by it (Proper).  Then every step is one of four as far as o   *)
(* is concerned (Quietly, Says, Hears, Drops), or makes or breaks a link.  *)
(* Without kills the lines between two neighbours make what the one knows  *)
(* what the other does (PairsOK), for any links lost; without splits this  *)
(* is said of one client at a time, who may have been lost in between      *)
(* (UserOK).                                                               *)
(***************************************************************************)
EXTENDS NickTS, LinksProofs, FiniteSetTheorems

(* The lines about connections other than those in F.                      *)
Lines(F) == {m \in Message : m.type = "NICK" => m.user \notin F}

Unique(v) ==
    \A u, w \in User : v.client[u].nick = v.client[w].nick /\ u # w => v.client[u].nick = NoNick

ViewOK(v, F) ==
    /\ v \in View
    /\ Unique(v)
    /\ \A u \in User : v.client[u].known => v.client[u].nick \in Nick
    /\ \A n \in Nick : v.was[n] # Nobody => v.client[v.was[n]].known
    /\ \A u \in F : v.client[u].nick = NoNick /\ ~v.client[u].known

(* The inductive invariant.                                                *)
IInv ==
    /\ at \in [Server -> View]
    /\ \A s \in Server : ViewOK(at[s], fresh)
    /\ LinksTypeOK(Lines(fresh))
    /\ fresh \subseteq User /\ killed \subseteq User
    /\ used \subseteq Commands \union {"split"}
    /\ claims \subseteq [user : User, nick : Nick, ts : Nat]
    /\ spent \in [{"commands", "closes"} -> Nat]

-----------------------------------------------------------------------------
(* The operators on what one server holds.                                 *)

LEMMA ExitOK ==
    ASSUME NEW F \in SUBSET User, NEW v, ViewOK(v, F), NEW S \in SUBSET User
    PROVE  ViewOK(Exit(v, S), F)
<1> DEFINE e == Exit(v, S)
           seen == {u \in S : v.client[u].known}
<1>1. /\ v \in [client : [User -> Client], was : [Nick -> User \union {Nobody}]]
      /\ Nobody \notin User
    BY NickAssumption DEF ViewOK, View
<1>2. /\ e.client = [u \in User |-> IF u \in S THEN Absent ELSE v.client[u]]
      /\ e.was = [n \in Nick |-> IF v.was[n] \in seen \/ Holder(v, n) \intersect seen # {}
                                 THEN Nobody ELSE v.was[n]]
    BY DEF Exit
<1>3. e \in View
    <2>1. Absent \in Client
        BY DEF Absent, Client
    <2>2. e.client \in [User -> Client]
        BY <1>1, <1>2, <2>1
    <2>3. e.was \in [Nick -> User \union {Nobody}]
        BY <1>1, <1>2
    <2> QED BY <2>2, <2>3 DEF View, Exit
<1>4. Unique(e)
    BY <1>2 DEF ViewOK, Unique, Absent
<1>5. \A u \in User : e.client[u].known => e.client[u].nick \in Nick
    BY <1>2 DEF ViewOK, Absent
<1>6. ASSUME NEW n \in Nick, e.was[n] # Nobody PROVE e.client[e.was[n]].known
    <2>1. e.was[n] = v.was[n] /\ v.was[n] \notin seen /\ v.was[n] \in User
        BY <1>1, <1>2, <1>6
    <2>2. v.client[v.was[n]].known
        BY <1>6, <2>1 DEF ViewOK
    <2>3. v.was[n] \notin S
        BY <2>1, <2>2
    <2>4. e.client[v.was[n]] = v.client[v.was[n]]
        BY <1>2, <2>1, <2>3
    <2> QED BY <2>1, <2>2, <2>4
<1>7. \A u \in F : e.client[u].nick = NoNick /\ ~e.client[u].known
    BY <1>2 DEF ViewOK, Absent
<1> QED BY <1>3, <1>4, <1>5, <1>6, <1>7 DEF ViewOK

(* A client may enter under a nick that nobody else holds.                 *)
LEMMA EnterOK ==
    ASSUME NEW F \in SUBSET User, NEW v, ViewOK(v, F), NEW u \in User \ F, NEW n \in Nick,
           NEW ts \in Nat, NEW known \in BOOLEAN,
           Holder(v, n) \subseteq {u}, v.client[u].known => known
    PROVE  ViewOK(Enter(v, u, n, ts, known), F)
<1> DEFINE e == Enter(v, u, n, ts, known)
           c == [nick |-> n, ts |-> ts, known |-> known]
<1>1. /\ v \in [client : [User -> Client], was : [Nick -> User \union {Nobody}]]
      /\ NoNick \notin Nick /\ Nobody \notin User
    BY NickAssumption DEF ViewOK, View
<1>2. /\ e.client = [v.client EXCEPT ![u] = c]
      /\ e.was = v.was
    BY <1>1 DEF Enter
<1>3. e \in View
    <2>1. c \in Client
        BY DEF Client
    <2>2. e.client \in [User -> Client]
        BY <1>1, <1>2, <2>1
    <2> QED BY <1>1, <1>2, <2>2 DEF View, Enter
<1>4. Unique(e)
    <2>1. \A x \in User \ {u} : e.client[x] = v.client[x] /\ v.client[x].nick # n
        BY <1>1, <1>2 DEF Holder
    <2>2. e.client[u].nick = n
        BY <1>1, <1>2
    <2> QED BY <2>1, <2>2 DEF ViewOK, Unique
<1>5. \A x \in User : e.client[x].known => e.client[x].nick \in Nick
    BY <1>1, <1>2 DEF ViewOK
<1>6. \A m \in Nick : e.was[m] # Nobody => e.client[e.was[m]].known
    BY <1>1, <1>2 DEF ViewOK
<1>7. \A x \in F : e.client[x].nick = NoNick /\ ~e.client[x].known
    BY <1>1, <1>2 DEF ViewOK
<1> QED BY <1>3, <1>4, <1>5, <1>6, <1>7 DEF ViewOK

(* ... or change to one, with an entry in the whowas table.                *)
LEMMA RenameOK ==
    ASSUME NEW F \in SUBSET User, NEW v, ViewOK(v, F), NEW u \in User \ F, NEW n \in Nick,
           NEW ts \in Nat, Holder(v, n) \subseteq {u}
    PROVE  ViewOK(Rename(v, u, n, ts), F)
<1> DEFINE e == Enter(v, u, n, ts, TRUE)
           r == Rename(v, u, n, ts)
<1>1. ViewOK(e, F)
    BY EnterOK
<1>2. /\ v \in [client : [User -> Client], was : [Nick -> User \union {Nobody}]]
      /\ e \in [client : [User -> Client], was : [Nick -> User \union {Nobody}]]
    BY <1>1 DEF ViewOK, View
<1>3. e.client[u].known
    BY <1>2 DEF Enter
<1>4. /\ r.client = e.client
      /\ r.was = [e.was EXCEPT ![v.client[u].nick] = u]
    BY <1>2 DEF Rename
<1>5. r \in View
    <2>1. r.was \in [Nick -> User \union {Nobody}]
        BY <1>2, <1>4
    <2> QED BY <1>2, <1>4, <2>1 DEF View, Rename
<1>6. \A m \in Nick : r.was[m] # Nobody => r.client[r.was[m]].known
    <2>1. \A m \in Nick : r.was[m] = u \/ r.was[m] = e.was[m]
        BY <1>2, <1>4
    <2> QED BY <1>1, <1>3, <1>4, <2>1 DEF ViewOK
<1>7. Unique(r)
    <2>1. Unique(e)
        BY <1>1 DEF ViewOK
    <2> QED BY <1>4, <2>1 DEF Unique
<1>8. /\ \A x \in User : r.client[x].known => r.client[x].nick \in Nick
      /\ \A x \in F : r.client[x].nick = NoNick /\ ~r.client[x].known
    BY <1>1, <1>4 DEF ViewOK
<1> HIDE DEF r, e
<1> QED BY <1>5, <1>6, <1>7, <1>8 DEF ViewOK, r

(* Evicted leaves nobody but u with the nick, and u as it was.             *)
LEMMA EvictedOK ==
    ASSUME NEW F \in SUBSET User, NEW v, ViewOK(v, F), NEW u \in User, NEW n \in Nick
    PROVE  /\ ViewOK(Evicted(v, u, n), F)
           /\ Holder(Evicted(v, u, n), n) \subseteq {u}
           /\ Evicted(v, u, n).client[u] = v.client[u]
<1> DEFINE S == Holder(v, n) \ {u}
<1>1. S \in SUBSET User /\ NoNick \notin Nick
    BY NickAssumption DEF Holder
<1>2. ViewOK(Exit(v, S), F)
    BY <1>1, ExitOK
<1>3. Exit(v, S).client = [x \in User |-> IF x \in S THEN Absent ELSE v.client[x]]
    BY DEF Exit
<1>4. \A x \in User \ {u} : Exit(v, S).client[x].nick # n
    BY <1>1, <1>3 DEF Holder, Absent
<1> QED BY <1>2, <1>3, <1>4 DEF Evicted, Holder

(* A registered client may get another timestamp, and a client that has a  *)
(* nick may be registered.                                                 *)
LEMMA TouchOK ==
    ASSUME NEW F \in SUBSET User, NEW v, ViewOK(v, F), NEW u \in User,
           v.client[u].nick # NoNick, NEW ts \in Nat
    PROVE  /\ ViewOK([v EXCEPT !.client[u].ts = ts], F)
           /\ ViewOK([v EXCEPT !.client[u].known = TRUE], F)
<1>1. /\ v \in [client : [User -> Client], was : [Nick -> User \union {Nobody}]]
      /\ v.client[u] \in [nick : Nick \union {NoNick}, ts : Nat, known : BOOLEAN]
      /\ u \notin F
    BY DEF ViewOK, View, Client
<1>2. ASSUME NEW c \in Client, c.nick = v.client[u].nick, v.client[u].known => c.known
      PROVE  ViewOK([v EXCEPT !.client[u] = c], F)
    <2> DEFINE e == [v EXCEPT !.client[u] = c]
    <2>1. e.client = [v.client EXCEPT ![u] = c] /\ e.was = v.was
        BY <1>1
    <2>2. e \in View
        BY <1>1, <2>1 DEF View
    <2>3. \A x \in User : e.client[x].nick = v.client[x].nick
        BY <1>1, <1>2, <2>1
    <2>4. Unique(e)
        BY <2>3 DEF ViewOK, Unique
    <2>5. \A x \in User : e.client[x].known => e.client[x].nick \in Nick
        BY <1>1, <2>1, <2>3 DEF ViewOK
    <2>6. \A m \in Nick : e.was[m] # Nobody => e.client[e.was[m]].known
        BY <1>1, <1>2, <2>1 DEF ViewOK
    <2>7. \A x \in F : e.client[x].nick = NoNick /\ ~e.client[x].known
        BY <1>1, <2>1 DEF ViewOK
    <2> QED BY <2>2, <2>4, <2>5, <2>6, <2>7 DEF ViewOK
<1> DEFINE c1 == [v.client[u] EXCEPT !.ts = ts]
           c2 == [v.client[u] EXCEPT !.known = TRUE]
<1>3. /\ c1 \in Client /\ c1.nick = v.client[u].nick /\ c1.known = v.client[u].known
      /\ c2 \in Client /\ c2.nick = v.client[u].nick /\ c2.known
    BY <1>1 DEF Client
<1>4. /\ [v EXCEPT !.client[u] = c1] = [v EXCEPT !.client[u].ts = ts]
      /\ [v EXCEPT !.client[u] = c2] = [v EXCEPT !.client[u].known = TRUE]
    BY <1>1
<1>5. ViewOK([v EXCEPT !.client[u] = c1], F) /\ ViewOK([v EXCEPT !.client[u] = c2], F)
    BY <1>2, <1>3
<1> QED BY <1>4, <1>5

-----------------------------------------------------------------------------
(* The lines a server writes.                                              *)

LEMMA LinesOK ==
    ASSUME NEW F \in SUBSET User, NEW n \in Nick
    PROVE  /\ << >> \in Seq(Lines(F) \union LinkMessage)
           /\ << KillLine(n) >> \in Seq(Lines(F) \union LinkMessage)
           /\ << QuitLine(n) >> \in Seq(Lines(F) \union LinkMessage)
           /\ \A m \in Nick, ts \in Nat :
                << ChangeLine(m, n, ts) >> \in Seq(Lines(F) \union LinkMessage)
<1>1. KillLine(n) \in Lines(F) /\ QuitLine(n) \in Lines(F)
    BY DEF KillLine, QuitLine, Lines, Message
<1>2. \A m \in Nick, ts \in Nat : ChangeLine(m, n, ts) \in Lines(F)
    BY DEF ChangeLine, Lines, Message
<1> QED BY <1>1, <1>2

LEMMA NickLineOK ==
    ASSUME NEW F \in SUBSET User, NEW v, ViewOK(v, F), NEW u \in User,
           v.client[u].nick # NoNick
    PROVE  NickLine(u, v.client[u]) \in Lines(F)
<1>1. v.client[u] \in [nick : Nick \union {NoNick}, ts : Nat, known : BOOLEAN] /\ u \notin F
    BY DEF ViewOK, View, Client
<1> QED BY <1>1 DEF NickLine, Lines, Message

(* A burst is a sequence of introductions.                                 *)
LEMMA BurstOK ==
    ASSUME NEW F \in SUBSET User, NEW v, ViewOK(v, F), NEW lines \in BurstLines(v)
    PROVE  lines \in Seq(Lines(F))
<1> DEFINE K == {u \in User : v.client[u].known}
           line(u) == NickLine(u, v.client[u])
           L == {line(u) : u \in K}
<1>1. \A u \in K : line(u) \in Lines(F)
    <2>1. \A u \in K : v.client[u].nick # NoNick
        BY NickAssumption DEF ViewOK
    <2> QED BY <2>1, NickLineOK
<1>2. IsFiniteSet(L)
    <2>1. IsFiniteSet(K)
        BY NickAssumption, FS_Subset
    <2> DEFINE f == [u \in K |-> line(u)]
    <2>2. f \in Surjection(K, L)
        BY DEF Surjection
    <2> QED BY <2>1, <2>2, FS_Surjection
<1>3. Cardinality(L) \in Nat
    BY <1>2, FS_CardinalityType
<1>4. lines \in [1..Cardinality(L) -> L]
    BY DEF BurstLines, SetToSeqs
<1>5. lines \in Seq(L)
    BY <1>3, <1>4, SeqDef
<1> QED BY <1>1, <1>5

(* The heads of the queues, by their types.                                *)
LEMMA HeadOK ==
    ASSUME NEW F \in SUBSET User, LinksTypeOK(Lines(F)), NEW s \in Server, NEW t \in Server
    PROVE  LET m == Head(net[s][t]) IN
           /\ Arrives(s, t, "NICK") =>
                 m \in [type : {"NICK"}, user : User \ F, nick : Nick, ts : Nat]
           /\ Arrives(s, t, "CHANGE") =>
                 m \in [type : {"CHANGE"}, old : Nick, nick : Nick, ts : Nat]
           /\ Arrives(s, t, "QUIT") \/ Arrives(s, t, "KILL") =>
                 m \in [type : {"KILL", "QUIT"}, nick : Nick]
<1> DEFINE m == Head(net[s][t])
<1>1. ASSUME NEW type, Arrives(s, t, type)
      PROVE  m \in Lines(F) \union LinkMessage /\ m.type = type
    BY <1>1, ArrivesType DEF LinksTypeOK, Queues
<1>2. ASSUME NEW type, Arrives(s, t, type), type \in {"NICK", "CHANGE", "QUIT", "KILL"}
      PROVE  m \in Lines(F) /\ m.type = type
    BY <1>1, <1>2 DEF LinkMessage
<1> HIDE DEF m
<1>3. m \in Lines(F) =>
        /\ m.type = "NICK" => m \in [type : {"NICK"}, user : User \ F, nick : Nick, ts : Nat]
        /\ m.type = "CHANGE" => m \in [type : {"CHANGE"}, old : Nick, nick : Nick, ts : Nat]
        /\ m.type \in {"KILL", "QUIT"} => m \in [type : {"KILL", "QUIT"}, nick : Nick]
    BY DEF Lines, Message
<1>4. /\ Arrives(s, t, "NICK") => m \in Lines(F) /\ m.type = "NICK"
      /\ Arrives(s, t, "CHANGE") => m \in Lines(F) /\ m.type = "CHANGE"
      /\ Arrives(s, t, "QUIT") => m \in Lines(F) /\ m.type = "QUIT"
      /\ Arrives(s, t, "KILL") => m \in Lines(F) /\ m.type = "KILL"
    BY <1>2
<1> QED BY <1>3, <1>4 DEF m

-----------------------------------------------------------------------------
(* A step of one server that leaves the connections to be made alone.      *)
LEMMA StepOK ==
    ASSUME IInv, NEW s \in Server, NEW v, ViewOK(v, fresh),
           at' = [at EXCEPT ![s] = v], fresh' = fresh
    PROVE  /\ at' \in [Server -> View]
           /\ \A x \in Server : ViewOK(at'[x], fresh)
<1>1. v \in View
    BY DEF ViewOK
<1> QED BY <1>1 DEF IInv

LEMMA IInvInit == Init => IInv
<1> SUFFICES ASSUME Init PROVE IInv
    OBVIOUS
<1> DEFINE v == [client |-> [u \in User |-> Absent], was |-> [n \in Nick |-> Nobody]]
<1>1. v \in View
    BY DEF View, Client, Absent
<1>2. ViewOK(v, User)
    BY <1>1 DEF ViewOK, Unique, Absent
<1> HIDE DEF v
<1>3. LinksTypeOK(Lines(fresh))
    BY LinksInitType DEF Init
<1>4. at = [s \in Server |-> v] /\ fresh = User
    BY DEF Init, v
<1> QED BY <1>1, <1>2, <1>3, <1>4 DEF Init, IInv

LEMMA IInvNext == IInv /\ [Next]_vars => IInv'
<1> SUFFICES ASSUME IInv, [Next]_vars PROVE IInv'
    OBVIOUS
<1> DEFINE L == Lines(fresh) \union LinkMessage
<1>0. /\ at \in [Server -> View] /\ home \in [User -> Server]
      /\ \A s \in Server : ViewOK(at[s], fresh)
      /\ net \in Queues(Lines(fresh)) /\ links \in [Server -> SUBSET Server]
      /\ fresh \in SUBSET User /\ NoNick \notin Nick
    BY NickAssumption DEF IInv, LinksTypeOK, Queues
<1>a. ASSUME NEW u \in User, NEW s \in Server
      PROVE  at[s].client[u] \in [nick : Nick \union {NoNick}, ts : Nat, known : BOOLEAN]
    BY <1>0 DEF View, Client
<1>b. ASSUME /\ at' \in [Server -> View] /\ \A s \in Server : ViewOK(at'[s], fresh)
             /\ LinksTypeOK(Lines(fresh))'
             /\ UNCHANGED << fresh, history, spent >>
      PROVE  IInv'
    BY <1>b DEF IInv, history
<1>c. ASSUME NEW what \in {"commands", "closes"}, NEW limit, Spend(what, limit)
      PROVE  spent' \in [{"commands", "closes"} -> Nat]
    BY <1>c DEF Spend, IInv
<1>d. ASSUME NEW command, Use(command)
      PROVE  used' \subseteq Commands \union {"split"}
    BY <1>d DEF Use, IInv
<1>e. ASSUME NEW u \in User, NEW n \in Nick, NEW now \in Nat, Claim(u, n, now)
      PROVE  claims' \subseteq [user : User, nick : Nick, ts : Nat]
    BY <1>e DEF Claim, IInv
<1>f. \A s \in Server : clock[s] \subseteq Nat
    BY NickAssumption
<1>g. ASSUME net' \in Queues(Lines(fresh)), UNCHANGED << links, fresh >>
      PROVE  LinksTypeOK(Lines(fresh))'
    BY <1>0, <1>g DEF LinksTypeOK, Queues
<1>1. ASSUME NEW u \in User, NEW n \in Nick, ChooseNick(u, n) PROVE IInv'
    <2> DEFINE s == home[u]
    <2>1. s \in Server /\ fresh' = fresh \ {u} /\ UNCHANGED << links, net, used, killed >>
        BY <1>0, <1>1 DEF ChooseNick
    <2>2. PICK now \in clock[s] :
            at' = [at EXCEPT ![s] = Enter(at[s], u, n, now, FALSE)] /\ Claim(u, n, now)
        BY <1>1 DEF ChooseNick
    <2>3. now \in Nat
        BY <1>f, <2>1, <2>2
    <2>4. \A x \in Server : ViewOK(at[x], fresh')
        BY <1>0, <2>1 DEF ViewOK
    <2>5. Holder(at[s], n) = {} /\ ~at[s].client[u].known
        BY <1>0, <1>1, <2>1 DEF ChooseNick, ViewOK
    <2>6. ViewOK(Enter(at[s], u, n, now, FALSE), fresh')
        BY <1>0, <2>1, <2>3, <2>4, <2>5, EnterOK
    <2>7. \A x \in Server : ViewOK(at'[x], fresh')
        BY <1>0, <2>1, <2>2, <2>4, <2>6
    <2>8. at' \in [Server -> View]
        BY <1>0, <2>2, <2>6 DEF ViewOK
    <2>9. LinksTypeOK(Lines(fresh))'
        <3>1. Lines(fresh) \union LinkMessage \subseteq Lines(fresh') \union LinkMessage
            BY <2>1 DEF Lines
        <3>2. \A x, y \in Server : net[x][y] \in Seq(Lines(fresh') \union LinkMessage)
            BY <1>0, <3>1, SeqMonotonic DEF Queues
        <3> QED BY <1>0, <2>1, <3>2 DEF LinksTypeOK, Queues
    <2>10. spent' \in [{"commands", "closes"} -> Nat]
        BY <1>1, <1>c DEF ChooseNick
    <2>11. claims' \subseteq [user : User, nick : Nick, ts : Nat]
        BY <1>e, <2>2, <2>3
    <2> QED BY <2>1, <2>7, <2>8, <2>9, <2>10, <2>11 DEF IInv
<1>2. ASSUME NEW u \in User, Register(u) PROVE IInv'
    <2> DEFINE s == home[u]
               c == at[s].client[u]
    <2>1. /\ s \in Server /\ c.nick # NoNick
          /\ at' = [at EXCEPT ![s].client[u].known = TRUE]
          /\ net' = Sent(s, {}, << NickLine(u, c) >>)
          /\ UNCHANGED << links, fresh, history, spent >>
        BY <1>0, <1>2 DEF Register
    <2>2. ViewOK([at[s] EXCEPT !.client[u].known = TRUE], fresh)
        BY <1>0, <2>1, TouchOK
    <2>3. at' = [at EXCEPT ![s] = [at[s] EXCEPT !.client[u].known = TRUE]]
        BY <2>1
    <2>4. at' \in [Server -> View] /\ \A x \in Server : ViewOK(at'[x], fresh)
        BY <2>1, <2>2, <2>3, StepOK
    <2>5. << NickLine(u, c) >> \in Seq(L)
        BY <1>0, <2>1, NickLineOK
    <2>6. net' \in Queues(Lines(fresh))
        BY <1>0, <2>1, <2>5, SentType
    <2> QED BY <1>b, <1>g, <2>1, <2>4, <2>6
<1>3. ASSUME NEW u \in User, NEW n \in Nick, ChangeNick(u, n) PROVE IInv'
    <2> DEFINE s == home[u]
               c == at[s].client[u]
               v == Evicted(at[s], u, n)
    <2>1. s \in Server /\ c.known /\ UNCHANGED << links, fresh, killed >>
        BY <1>0, <1>3 DEF ChangeNick
    <2>2. PICK now \in clock[s] :
            /\ at' = [at EXCEPT ![s] = Rename(v, u, n, now)]
            /\ net' = Sent(s, {}, << ChangeLine(c.nick, n, now) >>)
            /\ Claim(u, n, now)
        BY <1>3 DEF ChangeNick
    <2>3. now \in Nat /\ c.nick \in Nick /\ u \in User \ fresh
        BY <1>0, <1>f, <2>1, <2>2 DEF ViewOK
    <2>4. ViewOK(v, fresh) /\ Holder(v, n) \subseteq {u}
        BY <1>0, <2>1, EvictedOK
    <2>5. ViewOK(Rename(v, u, n, now), fresh)
        BY <1>0, <2>3, <2>4, RenameOK
    <2>6. at' \in [Server -> View] /\ \A x \in Server : ViewOK(at'[x], fresh)
        BY <2>1, <2>2, <2>5, StepOK
    <2>7. net' \in Queues(Lines(fresh))
        BY <1>0, <2>1, <2>2, <2>3, LinesOK, SentType
    <2>8. used' \subseteq Commands \union {"split"} /\ spent' \in [{"commands", "closes"} -> Nat]
        BY <1>3, <1>c, <1>d DEF ChangeNick
    <2>9. claims' \subseteq [user : User, nick : Nick, ts : Nat]
        BY <1>e, <2>2, <2>3
    <2> QED BY <1>g, <2>1, <2>6, <2>7, <2>8, <2>9 DEF IInv
<1>4. ASSUME NEW u \in User, NEW n \in Nick, RefuseNick(u, n) PROVE IInv'
    <2> DEFINE s == home[u]
               v == Evicted(at[s], u, n)
    <2>1. s \in Server /\ at[s].client[u].known /\ UNCHANGED << links, net, fresh, killed, claims >>
        BY <1>0, <1>4 DEF RefuseNick
    <2>2. PICK now \in clock[s] : at' = [at EXCEPT ![s] = [v EXCEPT !.client[u].ts = now]]
        BY <1>4 DEF RefuseNick
    <2>3. now \in Nat /\ v.client[u].nick # NoNick /\ ViewOK(v, fresh)
        <3>0. ViewOK(at[s], fresh) /\ fresh \in SUBSET User
            BY <1>0, <2>1
        <3>1. v.client[u] = at[s].client[u] /\ ViewOK(v, fresh)
            BY ONLY <3>0, EvictedOK, u \in User, n \in Nick
        <3>2. at[s].client[u].nick # NoNick
            BY <1>0, <2>1, <3>0 DEF ViewOK
        <3>3. now \in Nat
            BY <1>0, <1>f, <2>1, <2>2
        <3> QED BY <3>1, <3>2, <3>3
    <2>4. ViewOK([v EXCEPT !.client[u].ts = now], fresh)
        BY <1>0, <2>3, TouchOK
    <2>5. at' \in [Server -> View] /\ \A x \in Server : ViewOK(at'[x], fresh)
        BY <2>1, <2>2, <2>4, StepOK
    <2>6. used' \subseteq Commands \union {"split"} /\ spent' \in [{"commands", "closes"} -> Nat]
        BY <1>4, <1>c, <1>d DEF RefuseNick
    <2> QED BY <1>0, <1>g, <2>1, <2>5, <2>6 DEF IInv
<1>5. ASSUME NEW u \in User, Quit(u) PROVE IInv'
    <2> DEFINE s == home[u]
               c == at[s].client[u]
    <2>1. /\ s \in Server /\ c.nick \in Nick
          /\ at' = [at EXCEPT ![s] = Exit(at[s], {u})]
          /\ net' = IF c.known THEN Sent(s, {}, << QuitLine(c.nick) >>) ELSE net
          /\ UNCHANGED << links, fresh, killed, claims >>
        BY <1>0, <1>5, <1>a DEF Quit
    <2>2. ViewOK(Exit(at[s], {u}), fresh)
        BY <1>0, <2>1, ExitOK
    <2>3. at' \in [Server -> View] /\ \A x \in Server : ViewOK(at'[x], fresh)
        BY <2>1, <2>2, StepOK
    <2>4. Sent(s, {}, << QuitLine(c.nick) >>) \in Queues(Lines(fresh))
        BY <1>0, <2>1, LinesOK, SentType
    <2>5. used' \subseteq Commands \union {"split"} /\ spent' \in [{"commands", "closes"} -> Nat]
        BY <1>5, <1>c, <1>d DEF Quit
    <2> QED BY <1>0, <1>g, <2>1, <2>3, <2>4, <2>5 DEF IInv
<1>h. ASSUME NEW s \in Server, NEW n \in Nick
      PROVE  \A u \in Chased(at[s], n) : u \in User /\ at[s].client[u].nick \in Nick
    <2>1. \A u \in Holder(at[s], n) : u \in User /\ at[s].client[u].nick \in Nick
        BY DEF Holder
    <2>2. at[s].was[n] \in User \union {Nobody}
        BY <1>0 DEF View
    <2>3. at[s].was[n] # Nobody => at[s].client[at[s].was[n]].nick \in Nick
        BY <1>0, <2>2 DEF ViewOK
    <2> QED BY <2>1, <2>2, <2>3 DEF Chased
<1>6. ASSUME NEW s \in Server, NEW n \in Nick, OperKill(s, n) PROVE IInv'
    <2>1. PICK u \in Chased(at[s], n) :
            LET c == at[s].client[u] IN
            /\ Use("kill") /\ Spend("commands", MaxCommands)
            /\ at' = [at EXCEPT ![s] = Exit(at[s], {u})]
            /\ net' = IF home[u] # s THEN Sent(s, {}, << KillLine(c.nick) >>)
                      ELSE IF c.known THEN Sent(s, {}, << QuitLine(c.nick) >>) ELSE net
            /\ killed' = killed \union {u}
            /\ UNCHANGED << links, fresh, claims >>
        BY <1>6 DEF OperKill
    <2> DEFINE c == at[s].client[u]
    <2>2. u \in User /\ c.nick \in Nick
        BY <1>h
    <2>3. ViewOK(Exit(at[s], {u}), fresh)
        BY <1>0, <2>2, ExitOK
    <2>4. at' \in [Server -> View] /\ \A x \in Server : ViewOK(at'[x], fresh)
        BY <2>1, <2>3, StepOK
    <2>5. /\ Sent(s, {}, << KillLine(c.nick) >>) \in Queues(Lines(fresh))
          /\ Sent(s, {}, << QuitLine(c.nick) >>) \in Queues(Lines(fresh))
        BY <1>0, <2>2, LinesOK, SentType
    <2>6. used' \subseteq Commands \union {"split"} /\ spent' \in [{"commands", "closes"} -> Nat]
        BY <2>1, <1>c, <1>d
    <2>7. net' \in Queues(Lines(fresh))
        BY <1>0, <2>1, <2>5
    <2> QED BY <1>0, <1>g, <2>1, <2>2, <2>4, <2>6, <2>7 DEF IInv
<1>i. ASSUME NEW s \in Server, NEW t \in Server, net[s][t] # << >>,
             NEW back \in Seq(L), NEW lines \in Seq(L)
      PROVE  Answered(s, t, back, lines) \in Queues(Lines(fresh))
    BY <1>0, <1>i, AnsweredType
<1>l. ASSUME NEW s \in Server, NEW t \in Server, net[s][t] # << >>, NEW lines \in Seq(L)
      PROVE  Taken(s, t, lines) \in Queues(Lines(fresh))
    BY <1>0, <1>l, TakenType
<1>j. ASSUME NEW t \in Server, NEW S \in SUBSET User
      PROVE  ViewOK(Exit(at[t], S), fresh)
    BY <1>0, ExitOK
<1>7. ASSUME NEW s \in Server, NEW t \in Server, ReceiveNick(s, t) PROVE IInv'
    <2> DEFINE m == Head(net[s][t])
               v == Evicted(at[t], m.user, m.nick)
               accepted == Enter(v, m.user, m.nick, m.ts, TRUE)
    <2>1. /\ Arrives(s, t, "NICK") /\ net[s][t] # << >>
          /\ UNCHANGED << links, fresh, history, spent >>
        BY <1>7 DEF ReceiveNick, Arrives
    <2>2. m \in [type : {"NICK"}, user : User \ fresh, nick : Nick, ts : Nat]
        BY <1>0, <2>1, HeadOK DEF IInv
    <2>3. ViewOK(accepted, fresh)
        <3>0. m.user \in User /\ m.nick \in Nick /\ fresh \in SUBSET User
            BY <1>0, <2>2
        <3> HIDE DEF m
        <3>1. ViewOK(v, fresh) /\ Holder(v, m.nick) \subseteq {m.user}
            BY <1>0, <3>0, EvictedOK
        <3> HIDE DEF v
        <3> QED BY <1>0, <2>2, <3>1, EnterOK
    <2>4. << >> \in Seq(L) /\ << KillLine(m.nick) >> \in Seq(L)
        BY <1>0, <2>2, LinesOK
    <2>5. << m >> \in Seq(L) /\ << KillLine(m.nick), m >> \in Seq(L)
        <3>1. m \in L
            BY <2>2 DEF Lines, Message
        <3>2. KillLine(m.nick) \in L
            BY <2>2 DEF KillLine, Lines, Message
        <3> QED BY <3>1, <3>2
    <2>6. /\ \/ UNCHANGED at
             \/ at' = [at EXCEPT ![t] = accepted]
             \/ \E x \in User : at' = [at EXCEPT ![t] = Exit(at[t], {x})]
          /\ \/ net' = Taken(s, t, << >>)
             \/ net' = Taken(s, t, << m >>)
             \/ net' = Taken(s, t, << KillLine(m.nick), m >>)
             \/ net' = Answered(s, t, << KillLine(m.nick) >>, << KillLine(m.nick) >>)
        BY <1>7 DEF ReceiveNick, Holder
    <2>7. net' \in Queues(Lines(fresh))
        <3> HIDE DEF m
        <3>1. /\ Taken(s, t, << >>) \in Queues(Lines(fresh))
              /\ Taken(s, t, << m >>) \in Queues(Lines(fresh))
              /\ Taken(s, t, << KillLine(m.nick), m >>) \in Queues(Lines(fresh))
            BY <1>l, <2>1, <2>4, <2>5
        <3>2. Answered(s, t, << KillLine(m.nick) >>, << KillLine(m.nick) >>) \in Queues(Lines(fresh))
            BY <1>i, <2>1, <2>4
        <3> QED BY <2>6, <3>1, <3>2
    <2>8. at' \in [Server -> View] /\ \A x \in Server : ViewOK(at'[x], fresh)
        BY <1>0, <1>j, <2>1, <2>3, <2>6, StepOK
    <2> QED BY <1>b, <1>g, <2>1, <2>7, <2>8
<1>k. ASSUME NEW s \in Server, NEW t \in Server, NEW n \in Nick,
             net[s][t] # << >>, Misdirected(s, t, n)
      PROVE  net' \in Queues(Lines(fresh)) /\ UNCHANGED at
    <2>1. << >> \in Seq(L) /\ << KillLine(n) >> \in Seq(L)
        BY <1>0, LinesOK
    <2> QED BY <1>i, <1>k, <2>1 DEF Misdirected
<1>8. ASSUME NEW s \in Server, NEW t \in Server, ReceiveChange(s, t) PROVE IInv'
    <2> DEFINE m == Head(net[s][t])
    <2>1. /\ Arrives(s, t, "CHANGE") /\ net[s][t] # << >>
          /\ UNCHANGED << links, fresh, history, spent >>
        BY <1>8 DEF ReceiveChange, Arrives
    <2>2. m \in [type : {"CHANGE"}, old : Nick, nick : Nick, ts : Nat]
        BY <1>0, <2>1, HeadOK DEF IInv
    <2>3. CASE Misdirected(s, t, m.old)
        <3>1. net' \in Queues(Lines(fresh)) /\ UNCHANGED at
            BY <1>k, <2>1, <2>2, <2>3
        <3> QED BY <1>0, <1>b, <1>g, <2>1, <3>1
    <2>4. CASE \E u \in Source(s, t, m.old) : HandleChange(s, t, u)
        <3>1. PICK u \in Source(s, t, m.old) : HandleChange(s, t, u)
            BY <2>4
        <3> DEFINE old == at[t].client[u].nick
                   ts == IF m.nick = old THEN at[t].client[u].ts ELSE m.ts
                   v == Evicted(at[t], u, m.nick)
                   changed == Rename(v, u, m.nick, ts)
                   line == ChangeLine(old, m.nick, ts)
                   kills == << KillLine(old), KillLine(m.nick) >>
        <3>2. u \in User /\ old \in Nick /\ ts \in Nat /\ u \notin fresh
            <4>1. u \in User /\ old = m.old
                BY DEF Source, Holder
            <4> QED BY <1>0, <1>a, <2>2, <4>1 DEF ViewOK
        <3>3. ViewOK(changed, fresh)
            <4>0. m.nick \in Nick /\ fresh \in SUBSET User
                BY <1>0, <2>2
            <4>1. ViewOK(v, fresh) /\ Holder(v, m.nick) \subseteq {u}
                BY <1>0, <3>2, <4>0, EvictedOK
            <4> HIDE DEF v, ts
            <4> QED BY <1>0, <2>2, <3>2, <4>1, RenameOK
        <3>4. /\ << line >> \in Seq(L) /\ kills \in Seq(L)
              /\ << KillLine(old) >> \in Seq(L) /\ << KillLine(m.nick), line >> \in Seq(L)
            <4>1. KillLine(old) \in L /\ KillLine(m.nick) \in L
                BY <2>2, <3>2 DEF KillLine, Lines, Message
            <4>2. line \in L
                BY <2>2, <3>2 DEF ChangeLine, Lines, Message
            <4> QED BY <4>1, <4>2
        <3>5. /\ \/ at' = [at EXCEPT ![t] = changed]
                 \/ \E S \in SUBSET User : at' = [at EXCEPT ![t] = Exit(at[t], S)]
              /\ \/ net' = Taken(s, t, << line >>)
                 \/ net' = Answered(s, t, kills, kills)
                 \/ net' = Taken(s, t, << KillLine(old) >>)
                 \/ net' = Taken(s, t, << KillLine(m.nick), line >>)
            <4>1. Holder(at[t], m.nick) \subseteq User
                BY DEF Holder
            <4>2. \A x \in Holder(at[t], m.nick) : {u, x} \in SUBSET User /\ {u} \in SUBSET User
                BY <3>2, <4>1
            <4> QED BY <3>1, <4>2 DEF HandleChange
        <3>6. net' \in Queues(Lines(fresh))
            <4> HIDE DEF m, old, line, kills
            <4>1. /\ Taken(s, t, << line >>) \in Queues(Lines(fresh))
                  /\ Taken(s, t, << KillLine(old) >>) \in Queues(Lines(fresh))
                  /\ Taken(s, t, << KillLine(m.nick), line >>) \in Queues(Lines(fresh))
                BY <1>l, <2>1, <3>4
            <4>2. Answered(s, t, kills, kills) \in Queues(Lines(fresh))
                BY <1>i, <2>1, <3>4
            <4> QED BY <3>5, <4>1, <4>2
        <3>7. at' \in [Server -> View] /\ \A x \in Server : ViewOK(at'[x], fresh)
            BY <1>j, <2>1, <3>3, <3>5, StepOK
        <3> QED BY <1>b, <1>g, <2>1, <3>6, <3>7
    <2> QED BY <1>8, <2>3, <2>4 DEF ReceiveChange
<1>9. ASSUME NEW s \in Server, NEW t \in Server, ReceiveQuit(s, t) PROVE IInv'
    <2> DEFINE m == Head(net[s][t])
    <2>1. /\ Arrives(s, t, "QUIT") /\ net[s][t] # << >>
          /\ UNCHANGED << links, fresh, history, spent >>
        BY <1>9 DEF ReceiveQuit, Arrives
    <2>2. m \in [type : {"KILL", "QUIT"}, nick : Nick]
        BY <1>0, <2>1, HeadOK DEF IInv
    <2>3. CASE Misdirected(s, t, m.nick)
        <3>1. net' \in Queues(Lines(fresh)) /\ UNCHANGED at
            BY <1>k, <2>1, <2>2, <2>3
        <3> QED BY <1>0, <1>b, <1>g, <2>1, <3>1
    <2>4. CASE \E u \in Source(s, t, m.nick) :
                 at' = [at EXCEPT ![t] = Exit(at[t], {u})] /\ net' = Taken(s, t, << m >>)
        <3>1. PICK u \in User :
                 at' = [at EXCEPT ![t] = Exit(at[t], {u})] /\ net' = Taken(s, t, << m >>)
            BY <2>4 DEF Source, Holder
        <3>2. << m >> \in Seq(L)
            BY <2>2 DEF Lines, Message
        <3>3. Taken(s, t, << m >>) \in Queues(Lines(fresh))
            <4> HIDE DEF m
            <4> QED BY <1>l, <2>1, <3>2
        <3>4. at' \in [Server -> View] /\ \A x \in Server : ViewOK(at'[x], fresh)
            BY <1>j, <2>1, <3>1, StepOK
        <3> QED BY <1>b, <1>g, <2>1, <3>1, <3>3, <3>4
    <2> QED BY <1>9, <2>3, <2>4 DEF ReceiveQuit
<1>10. ASSUME NEW s \in Server, NEW t \in Server, ReceiveKill(s, t) PROVE IInv'
    <2> DEFINE n == Head(net[s][t]).nick
    <2>1. /\ Arrives(s, t, "KILL") /\ net[s][t] # << >>
          /\ UNCHANGED << links, fresh, history, spent >>
        BY <1>10 DEF ReceiveKill, Arrives
    <2>2. n \in Nick
        BY <1>0, <2>1, HeadOK DEF IInv
    <2>3. << >> \in Seq(L)
        OBVIOUS
    <2>4. CASE net' = Taken(s, t, << >>) /\ UNCHANGED at
        <3>1. net' \in Queues(Lines(fresh))
            BY <1>l, <2>1, <2>3, <2>4
        <3> QED BY <1>0, <1>b, <1>g, <2>1, <2>4, <3>1
    <2>5. CASE \E u \in Chased(at[t], n) :
                 /\ at' = [at EXCEPT ![t] = Exit(at[t], {u})]
                 /\ net' = Taken(s, t, << KillLine(at[t].client[u].nick) >>)
        <3>1. PICK u \in Chased(at[t], n) :
                 /\ at' = [at EXCEPT ![t] = Exit(at[t], {u})]
                 /\ net' = Taken(s, t, << KillLine(at[t].client[u].nick) >>)
            BY <2>5
        <3>2. u \in User /\ at[t].client[u].nick \in Nick
            BY <1>h, <2>2
        <3>3. << KillLine(at[t].client[u].nick) >> \in Seq(L)
            BY <1>0, <3>2, LinesOK
        <3>4. net' \in Queues(Lines(fresh))
            BY <1>l, <2>1, <3>1, <3>3
        <3>5. at' \in [Server -> View] /\ \A x \in Server : ViewOK(at'[x], fresh)
            BY <1>j, <2>1, <3>1, <3>2, StepOK
        <3> QED BY <1>b, <1>g, <2>1, <3>4, <3>5
    <2> QED BY <1>10, <2>4, <2>5 DEF ReceiveKill
<1>m. ASSUME NEW s \in Server, NEW lost, Lose(s, lost)
      PROVE  UNCHANGED fresh =>
                at' \in [Server -> View] /\ \A x \in Server : ViewOK(at'[x], fresh)
    <2>1. ViewOK(Exit(at[s], {u \in User : home[u] \in lost}), fresh)
        BY <1>j
    <2> QED BY <1>m, <2>1, StepOK DEF Lose
<1>11. ASSUME NEW s \in Server, NEW t \in Server, Close(s, t) PROVE IInv'
    <2>1. /\ UNCHANGED << fresh, killed, claims >>
          /\ used' = used \union {"split"}
          /\ CloseLink(s, t) /\ Lose(s, Behind(s, t))
        BY <1>11 DEF Close
    <2>2. at' \in [Server -> View] /\ \A x \in Server : ViewOK(at'[x], fresh)
        BY <1>m, <2>1
    <2>3. LinksTypeOK(Lines(fresh))'
        BY <2>1, CloseLinkType DEF IInv, LinksTypeOK
    <2>4. spent' \in [{"commands", "closes"} -> Nat]
        BY <1>11, <1>c DEF Close
    <2> QED BY <2>1, <2>2, <2>3, <2>4 DEF IInv
<1>12. ASSUME NEW s \in Server, NEW t \in Server, ReceiveEof(s, t) PROVE IInv'
    <2>1. /\ UNCHANGED << fresh, history, spent >> /\ EofLink(s, t)
          /\ Lose(t, Behind(t, s)) \/ UNCHANGED at
        BY <1>12 DEF ReceiveEof
    <2>2. at' \in [Server -> View] /\ \A x \in Server : ViewOK(at'[x], fresh)
        BY <1>0, <1>m, <2>1
    <2>3. LinksTypeOK(Lines(fresh))'
        BY <2>1, EofLinkType DEF IInv, LinksTypeOK
    <2> QED BY <1>b, <2>1, <2>2, <2>3
<1>13. ASSUME NEW s \in Server, NEW t \in Server, ReceiveSquit(s, t) PROVE IInv'
    <2>1. /\ UNCHANGED << fresh, history, spent >> /\ SquitLink(s, t)
          /\ Lose(t, Head(net[s][t]).lost)
        BY <1>13 DEF ReceiveSquit
    <2>2. at' \in [Server -> View] /\ \A x \in Server : ViewOK(at'[x], fresh)
        BY <1>m, <2>1
    <2>3. LinksTypeOK(Lines(fresh))'
        BY <2>1, SquitLinkType DEF IInv, LinksTypeOK
    <2> QED BY <1>b, <2>1, <2>2, <2>3
<1>14. ASSUME NEW s \in Server, NEW t \in Server, Estab(s, t) PROVE IInv'
    <2>1. PICK lines \in BurstLines(at[s]) : EstabLink(s, t, lines)
        BY <1>14 DEF Estab
    <2>2. lines \in Seq(Lines(fresh))
        BY <1>0, BurstOK
    <2>3. LinksTypeOK(Lines(fresh))'
        BY <1>14, <2>1, <2>2, EstabLinkType DEF IInv, LinksTypeOK, Estab
    <2> QED BY <1>0, <1>14, <1>b, <2>3 DEF Estab
<1>15. ASSUME NEW s \in Server, NEW t \in Server, ReceiveServer(s, t) PROVE IInv'
    <2>1. PICK lines \in BurstLines(at[t]) : ServerLink(s, t, lines)
        BY <1>15 DEF ReceiveServer
    <2>2. lines \in Seq(Lines(fresh))
        BY <1>0, BurstOK
    <2>3. LinksTypeOK(Lines(fresh))'
        BY <1>15, <2>1, <2>2, ServerLinkType DEF IInv, LinksTypeOK, ReceiveServer
    <2> QED BY <1>0, <1>15, <1>b, <2>3 DEF ReceiveServer
<1>16. CASE UNCHANGED vars
    <2>1. UNCHANGED << at, links, net, fresh, history, spent >>
        BY <1>16 DEF vars
    <2> QED BY <1>0, <1>b, <1>g, <2>1
<1> QED BY <1>1, <1>2, <1>3, <1>4, <1>5, <1>6, <1>7, <1>8, <1>9, <1>10,
           <1>11, <1>12, <1>13, <1>14, <1>15, <1>16 DEF Next

(* What holds in every reachable state.                                    *)
THEOREM IInvHolds == Spec => []IInv
<1> QED BY IInvInit, IInvNext, PTL DEF Spec

(* Every variable keeps its type, for any network, users and clocks.       *)
THEOREM TypesHold == Spec => []TypeOK
<1>1. ASSUME IInv PROVE TypeOK
    <2>1. Lines(fresh) \union LinkMessage \subseteq Message \union LinkMessage
        BY DEF Lines
    <2>2. \A x, y \in Server : net[x][y] \in Seq(Message \union LinkMessage)
        BY <1>1, <2>1, SeqMonotonic DEF IInv, LinksTypeOK
    <2>3. LinksTypeOK(Message)
        BY <1>1, <2>2 DEF IInv, LinksTypeOK
    <2> QED BY <1>1, <2>3 DEF IInv, TypeOK
<1> QED BY <1>1, IInvHolds, PTL

(* No server ever has two clients of one nick, whatever lines cross:       *)
(* find_client has one answer, and a line goes to the client it names.     *)
THEOREM NicksStayUnique == Spec => []NicksAreUnique
<1>1. ASSUME IInv PROVE NicksAreUnique
    BY <1>1 DEF IInv, ViewOK, Unique, NicksAreUnique
<1> QED BY <1>1, IInvHolds, PTL

(* The whowas table never points to a client that has gone.                *)
THEOREM HistoryStaysLive == Spec => []HistoryIsLive
<1>1. ASSUME IInv PROVE HistoryIsLive
    BY <1>1 DEF IInv, ViewOK, HistoryIsLive
<1> QED BY <1>1, IInvHolds, PTL

-----------------------------------------------------------------------------
(* Nicks that belong to one connection each: o says to whom.               *)
Owners == [Nick -> User]

(* Nobody has taken a nick that belongs to somebody else.                  *)
Obeyed(o) == \A c \in claims : o[c.nick] = c.user

(* Lines and views that name every user by nicks of his own.               *)
ProperLines(o) ==
    {m \in Message : /\ m.type = "NICK" => o[m.nick] = m.user
                     /\ m.type = "CHANGE" => o[m.old] = o[m.nick]}

ProperView(o, v, s) ==
    \A u \in User :
        /\ v.client[u].nick # NoNick => o[v.client[u].nick] = u /\ (home[u] = s \/ v.client[u].known)
        /\ \A n \in Nick : v.was[n] = u => o[n] = u

Proper(o) ==
    /\ LinksTypeOK(ProperLines(o))
    /\ \A s \in Server : ProperView(o, at[s], s)

(* What a server does to its view keeps it so.                             *)

LEMMA ExitProper ==
    ASSUME NEW o, NEW v \in View, NEW s, ProperView(o, v, s), NEW S
    PROVE  ProperView(o, Exit(v, S), s)
<1> DEFINE e == Exit(v, S)
<1>1. /\ \A u \in User : e.client[u] = IF u \in S THEN Absent ELSE v.client[u]
      /\ \A n \in Nick : e.was[n] = v.was[n] \/ e.was[n] = Nobody
    BY DEF Exit
<1>2. \A u \in User : u # Nobody
    BY NickAssumption
<1> HIDE DEF e
<1>3. Absent.nick = NoNick
    BY DEF Absent
<1> QED BY <1>1, <1>2, <1>3 DEF ProperView, e

LEMMA EnterProper ==
    ASSUME NEW o, NEW v \in View, NEW s, ProperView(o, v, s), NEW u \in User, NEW n \in Nick,
           o[n] = u, NEW ts, NEW known, home[u] = s \/ known
    PROVE  ProperView(o, Enter(v, u, n, ts, known), s)
<1> DEFINE e == Enter(v, u, n, ts, known)
<1>1. /\ e.was = v.was
      /\ \A x \in User : e.client[x] =
            IF x = u THEN [nick |-> n, ts |-> ts, known |-> known] ELSE v.client[x]
    BY DEF Enter, View
<1> HIDE DEF e
<1> QED BY <1>1 DEF ProperView, e

LEMMA RenameProper ==
    ASSUME NEW o, NEW v \in View, NEW s, ProperView(o, v, s), NEW u \in User, NEW n \in Nick,
           o[n] = u, NEW ts, v.client[u].nick \in Nick
    PROVE  ProperView(o, Rename(v, u, n, ts), s)
<1> DEFINE e == Enter(v, u, n, ts, TRUE)
           r == Rename(v, u, n, ts)
<1>1. ProperView(o, e, s)
    BY EnterProper
<1>2. e.was \in [Nick -> User \union {Nobody}]
    BY DEF Enter, View
<1>3. r.client = e.client /\ r.was = [e.was EXCEPT ![v.client[u].nick] = u]
    BY DEF Rename, Enter
<1> HIDE DEF e, r
<1>4. o[v.client[u].nick] = u
    BY NickAssumption DEF ProperView
<1> QED BY <1>1, <1>2, <1>3, <1>4 DEF ProperView, r

LEMMA TouchProper ==
    ASSUME NEW o, NEW v \in View, NEW s, ProperView(o, v, s), NEW u \in User, NEW ts
    PROVE  /\ ProperView(o, [v EXCEPT !.client[u].ts = ts], s)
           /\ ProperView(o, [v EXCEPT !.client[u].known = TRUE], s)
<1> DEFINE e == [v EXCEPT !.client[u].ts = ts]
           f == [v EXCEPT !.client[u].known = TRUE]
<1>1. /\ e.was = v.was /\ f.was = v.was
      /\ \A x \in User : e.client[x].nick = v.client[x].nick /\ e.client[x].known = v.client[x].known
      /\ \A x \in User : f.client[x].nick = v.client[x].nick /\ (v.client[x].known => f.client[x].known)
    BY DEF View, Client
<1> HIDE DEF e, f
<1> QED BY <1>1 DEF ProperView, e, f

LEMMA BurstProper ==
    ASSUME NEW o \in Owners, NEW v \in View, NEW s, ProperView(o, v, s),
           \A u \in User : v.client[u].known => v.client[u].nick \in Nick,
           NEW lines \in BurstLines(v)
    PROVE  lines \in Seq(ProperLines(o))
<1> DEFINE B == {NickLine(u, v.client[u]) : u \in {u \in User : v.client[u].known}}
<1>1. ASSUME NEW u \in User, v.client[u].known PROVE NickLine(u, v.client[u]) \in ProperLines(o)
    <2>1. v.client[u] \in Client /\ v.client[u].nick \in Nick /\ v.client[u].nick # NoNick
        BY <1>1, NickAssumption DEF View
    <2>2. NickLine(u, v.client[u]) \in Message
        BY <2>1 DEF NickLine, Message, Client
    <2> QED BY <2>1, <2>2 DEF NickLine, ProperLines, ProperView
<1>2. B \subseteq ProperLines(o)
    BY <1>1
<1>3. lines \in [1..Cardinality(B) -> B]
    BY DEF BurstLines, SetToSeqs
<1>4. IsFiniteSet(B)
    <2> DEFINE K == {u \in User : v.client[u].known}
               f == [u \in K |-> NickLine(u, v.client[u])]
    <2>1. IsFiniteSet(K)
        BY NickAssumption, FS_Subset
    <2>2. f \in Surjection(K, B)
        BY DEF Surjection
    <2> QED BY <2>1, <2>2, FS_Surjection
<1>5. Cardinality(B) \in Nat
    BY <1>4, FS_CardinalityType
<1>6. lines \in Seq(B)
    BY <1>3, <1>5, SeqDef
<1> QED BY <1>2, <1>6

(* Nicks that no line of o's is about are no line's.                       *)
LEMMA ProperHead ==
    ASSUME NEW o, LinksTypeOK(ProperLines(o)), NEW s \in Server, NEW t \in Server, NEW type,
           Arrives(s, t, type), type \in {"NICK", "CHANGE", "QUIT", "KILL"}
    PROVE  LET m == Head(net[s][t]) IN
           /\ m \in ProperLines(o) /\ m.type = type /\ net[s][t] # << >>
           /\ type = "NICK" => m.user \in User /\ m.nick \in Nick /\ o[m.nick] = m.user
           /\ type = "CHANGE" => m.old \in Nick /\ m.nick \in Nick /\ o[m.old] = o[m.nick]
           /\ type \in {"QUIT", "KILL"} => m.nick \in Nick
<1> DEFINE m == Head(net[s][t])
<1>1. m \in ProperLines(o) \union LinkMessage /\ m.type = type /\ net[s][t] # << >>
    BY ArrivesType DEF LinksTypeOK, Queues
<1> HIDE DEF m
<1>2. m \in ProperLines(o)
    BY <1>1 DEF LinkMessage
<1>3. /\ m.type = "NICK" => m.user \in User /\ m.nick \in Nick
      /\ m.type = "CHANGE" => m.old \in Nick /\ m.nick \in Nick
      /\ m.type \in {"KILL", "QUIT"} => m.nick \in Nick
    BY <1>2 DEF ProperLines, Message
<1> QED BY <1>1, <1>2, <1>3 DEF ProperLines, m

(* Any server may write these.                                             *)
LEMMA ProperWrites ==
    ASSUME NEW o, NEW n \in Nick
    PROVE  /\ KillLine(n) \in ProperLines(o) /\ QuitLine(n) \in ProperLines(o)
           /\ \A m \in Nick, ts \in Nat : o[m] = o[n] => ChangeLine(m, n, ts) \in ProperLines(o)
<1>1. KillLine(n) \in ProperLines(o) /\ QuitLine(n) \in ProperLines(o)
    BY DEF KillLine, QuitLine, ProperLines, Message
<1>2. \A m \in Nick, ts \in Nat : o[m] = o[n] => ChangeLine(m, n, ts) \in ProperLines(o)
    BY DEF ChangeLine, ProperLines, Message
<1> QED BY <1>1, <1>2

(* Who holds a nick is whom it belongs to, and so is who held it last.     *)
LEMMA HolderOwn ==
    ASSUME NEW o \in Owners, NEW v \in View, NEW s, ProperView(o, v, s), NEW n \in Nick
    PROVE  /\ Holder(v, n) \subseteq {o[n]} /\ Chased(v, n) \subseteq {o[n]}
           /\ Evicted(v, o[n], n) = v
<1>1. Holder(v, n) \subseteq {o[n]}
    BY NickAssumption DEF Holder, ProperView
<1>2. v.was[n] \in User \union {Nobody}
    BY DEF View
<1>3. Chased(v, n) \subseteq {o[n]}
    BY <1>1, <1>2 DEF Chased, ProperView
<1>4. Exit(v, {}) = v
    <2> DEFINE e == Exit(v, {})
    <2>1. v \in [client : [User -> Client], was : [Nick -> User \union {Nobody}]]
        BY DEF View
    <2>2. e = [client |-> [u \in User |-> v.client[u]], was |-> [k \in Nick |-> v.was[k]]]
        BY DEF Exit
    <2> QED BY <2>1, <2>2
<1>5. Holder(v, n) \ {o[n]} = {}
    BY <1>1
<1> QED BY <1>1, <1>3, <1>4, <1>5 DEF Evicted

(* A step of one server.                                                   *)
LEMMA ProperStep ==
    ASSUME NEW o, \A x \in Server : ProperView(o, at[x], x), at \in [Server -> View],
           NEW s \in Server, NEW v, ProperView(o, v, s),
           at' = [at EXCEPT ![s] = v]
    PROVE  \A x \in Server : ProperView(o, at'[x], x)
OBVIOUS

LEMMA ProperInit == ASSUME Init, NEW o PROVE Proper(o)
<1>1. LinksTypeOK(ProperLines(o))
    BY LinksInitType DEF Init
<1>2. Nobody \notin User
    BY NickAssumption
<1>3. \A s \in Server : ProperView(o, at[s], s)
    BY <1>2 DEF Init, ProperView, Absent
<1> QED BY <1>1, <1>3 DEF Proper

(* As long as users take their own nicks, nobody is called by another's.   *)
LEMMA ProperNext ==
    ASSUME IInv, NEW o \in Owners, Proper(o), Obeyed(o)', [Next]_vars
    PROVE  Proper(o)'
<1> DEFINE L == ProperLines(o) \union LinkMessage
           Good == \A x \in Server : ProperView(o, at'[x], x)
<1>0. /\ at \in [Server -> View] /\ home \in [User -> Server]
      /\ \A s \in Server : ViewOK(at[s], fresh) /\ at[s] \in View /\ ProperView(o, at[s], s)
      /\ LinksTypeOK(ProperLines(o))
      /\ net \in Queues(ProperLines(o)) /\ links \in [Server -> SUBSET Server]
      /\ NoNick \notin Nick /\ Nobody \notin User
    BY NickAssumption DEF IInv, Proper, LinksTypeOK, Queues
<1>a. ASSUME NEW u \in User, NEW s \in Server
      PROVE  /\ at[s].client[u] \in [nick : Nick \union {NoNick}, ts : Nat, known : BOOLEAN]
             /\ at[s].client[u].known => at[s].client[u].nick \in Nick
    BY <1>0 DEF View, Client, ViewOK
<1>b. \A s \in Server : clock[s] \subseteq Nat
    BY NickAssumption
<1>c. ASSUME NEW u \in User, NEW n \in Nick, NEW now, Claim(u, n, now) PROVE o[n] = u
    <2> DEFINE c == [user |-> u, nick |-> n, ts |-> now]
    <2>1. c \in claims' /\ c.user = u /\ c.nick = n
        BY <1>c DEF Claim
    <2>2. \A d \in claims' : o[d.nick] = d.user
        BY DEF Obeyed
    <2> HIDE DEF c
    <2> QED BY <2>1, <2>2
<1>d. ASSUME NEW s \in Server, NEW v, ProperView(o, v, s), at' = [at EXCEPT ![s] = v] PROVE Good
    BY <1>0, <1>d, ProperStep
<1>e. ASSUME NEW t \in Server, NEW S PROVE ProperView(o, Exit(at[t], S), t)
    BY <1>0, ExitProper
<1>f. ASSUME net' \in Queues(ProperLines(o)), UNCHANGED links, Good PROVE Proper(o)'
    BY <1>0, <1>f DEF LinksTypeOK, Queues, Proper
<1>g. ASSUME UNCHANGED at PROVE Good
    BY <1>0, <1>g
<1>i. ASSUME NEW s \in Server, NEW t \in Server, net[s][t] # << >>,
             NEW back \in Seq(L), NEW lines \in Seq(L)
      PROVE  Answered(s, t, back, lines) \in Queues(ProperLines(o))
    BY <1>0, <1>i, AnsweredType
<1>l. ASSUME NEW s \in Server, NEW t \in Server, net[s][t] # << >>, NEW lines \in Seq(L)
      PROVE  Taken(s, t, lines) \in Queues(ProperLines(o))
    BY <1>0, <1>l, TakenType
<1>s. ASSUME NEW s \in Server, NEW m \in L PROVE Sent(s, {}, << m >>) \in Queues(ProperLines(o))
    <2>1. << m >> \in Seq(L)
        OBVIOUS
    <2> QED BY <1>0, <2>1, SentType
<1>1. ASSUME NEW u \in User, NEW n \in Nick, ChooseNick(u, n) PROVE Proper(o)'
    <2> DEFINE s == home[u]
    <2>1. s \in Server /\ UNCHANGED << links, net >>
        BY <1>0, <1>1 DEF ChooseNick
    <2>2. PICK now \in clock[s] :
            at' = [at EXCEPT ![s] = Enter(at[s], u, n, now, FALSE)] /\ Claim(u, n, now)
        BY <1>1 DEF ChooseNick
    <2>3. ProperView(o, Enter(at[s], u, n, now, FALSE), s)
        BY <1>0, <1>c, <2>1, <2>2, EnterProper
    <2> QED BY <1>0, <1>d, <1>f, <2>1, <2>2, <2>3
<1>2. ASSUME NEW u \in User, Register(u) PROVE Proper(o)'
    <2> DEFINE s == home[u]
               c == at[s].client[u]
    <2>1. /\ s \in Server /\ c.nick # NoNick
          /\ at' = [at EXCEPT ![s].client[u].known = TRUE]
          /\ net' = Sent(s, {}, << NickLine(u, c) >>)
          /\ UNCHANGED << links, fresh, history, spent >>
        BY <1>0, <1>2 DEF Register
    <2>2. ProperView(o, [at[s] EXCEPT !.client[u].known = TRUE], s)
        BY <1>0, <2>1, TouchProper
    <2>3. at' = [at EXCEPT ![s] = [at[s] EXCEPT !.client[u].known = TRUE]]
        BY <2>1
    <2>4. NickLine(u, c) \in ProperLines(o)
        <3>1. c.nick \in Nick /\ c.ts \in Nat /\ o[c.nick] = u
            BY <1>0, <1>a, <2>1 DEF ProperView
        <3> QED BY <3>1 DEF NickLine, ProperLines, Message
    <2> QED BY <1>d, <1>f, <1>s, <2>1, <2>2, <2>3, <2>4
<1>3. ASSUME NEW u \in User, NEW n \in Nick, ChangeNick(u, n) PROVE Proper(o)'
    <2> DEFINE s == home[u]
               c == at[s].client[u]
               v == Evicted(at[s], u, n)
    <2>1. s \in Server /\ c.known /\ UNCHANGED << links, fresh, killed >>
        BY <1>0, <1>3 DEF ChangeNick
    <2>2. PICK now \in clock[s] :
            /\ at' = [at EXCEPT ![s] = Rename(v, u, n, now)]
            /\ net' = Sent(s, {}, << ChangeLine(c.nick, n, now) >>)
            /\ Claim(u, n, now)
        BY <1>3 DEF ChangeNick
    <2>3. now \in Nat /\ c.nick \in Nick /\ o[n] = u
        BY <1>a, <1>b, <1>c, <2>1, <2>2
    <2>4. v = at[s] /\ o[c.nick] = u
        <3>1. o[c.nick] = u
            BY <1>0, <2>1, <2>3 DEF ProperView
        <3>2. Evicted(at[s], o[n], n) = at[s]
            BY <1>0, <2>1, HolderOwn
        <3> QED BY <2>3, <3>1, <3>2
    <2>5. ProperView(o, Rename(v, u, n, now), s)
        BY <1>0, <2>1, <2>3, <2>4, RenameProper
    <2>6. ChangeLine(c.nick, n, now) \in ProperLines(o)
        BY <2>3, <2>4, ProperWrites
    <2> QED BY <1>d, <1>f, <1>s, <2>1, <2>2, <2>5, <2>6
<1>4. ASSUME NEW u \in User, NEW n \in Nick, RefuseNick(u, n) PROVE Proper(o)'
    <2> DEFINE s == home[u]
               v == Evicted(at[s], u, n)
    <2>1. s \in Server /\ at[s].client[u].known /\ UNCHANGED << links, net >>
        BY <1>0, <1>4 DEF RefuseNick
    <2>2. PICK now \in clock[s] : at' = [at EXCEPT ![s] = [v EXCEPT !.client[u].ts = now]]
        BY <1>4 DEF RefuseNick
    <2>3. ProperView(o, v, s) /\ v \in View
        <3>1. ProperView(o, v, s)
            BY <1>e, <2>1 DEF Evicted
        <3>2. ViewOK(at[s], fresh) /\ fresh \in SUBSET User
            BY <1>0, <2>1 DEF IInv
        <3>3. ViewOK(v, fresh)
            BY ONLY <3>2, EvictedOK, u \in User, n \in Nick
        <3> QED BY <3>1, <3>3 DEF ViewOK
    <2>4. ProperView(o, [v EXCEPT !.client[u].ts = now], s)
        <3> HIDE DEF v
        <3> QED BY <2>3, TouchProper
    <2> QED BY <1>0, <1>d, <1>f, <2>1, <2>2, <2>4
<1>5. ASSUME NEW u \in User, Quit(u) PROVE Proper(o)'
    <2> DEFINE s == home[u]
               c == at[s].client[u]
    <2>1. /\ s \in Server /\ c.nick \in Nick
          /\ at' = [at EXCEPT ![s] = Exit(at[s], {u})]
          /\ net' = IF c.known THEN Sent(s, {}, << QuitLine(c.nick) >>) ELSE net
          /\ UNCHANGED << links, fresh, killed, claims >>
        BY <1>0, <1>5, <1>a DEF Quit
    <2>2. Sent(s, {}, << QuitLine(c.nick) >>) \in Queues(ProperLines(o))
        BY <1>s, <2>1, ProperWrites
    <2> QED BY <1>0, <1>d, <1>e, <1>f, <2>1, <2>2
<1>h. ASSUME NEW s \in Server, NEW n \in Nick
      PROVE  \A u \in Chased(at[s], n) : u \in User /\ at[s].client[u].nick \in Nick
    <2>1. \A u \in Holder(at[s], n) : u \in User /\ at[s].client[u].nick \in Nick
        BY DEF Holder
    <2>2. at[s].was[n] \in User \union {Nobody}
        BY <1>0 DEF View
    <2>3. at[s].was[n] # Nobody => at[s].client[at[s].was[n]].nick \in Nick
        BY <1>0, <2>2 DEF ViewOK
    <2> QED BY <2>1, <2>2, <2>3 DEF Chased
<1>6. ASSUME NEW s \in Server, NEW n \in Nick, OperKill(s, n) PROVE Proper(o)'
    <2>1. PICK u \in Chased(at[s], n) :
            LET c == at[s].client[u] IN
            /\ at' = [at EXCEPT ![s] = Exit(at[s], {u})]
            /\ net' = IF home[u] # s THEN Sent(s, {}, << KillLine(c.nick) >>)
                      ELSE IF c.known THEN Sent(s, {}, << QuitLine(c.nick) >>) ELSE net
            /\ UNCHANGED links
        BY <1>6 DEF OperKill
    <2> DEFINE c == at[s].client[u]
    <2>2. u \in User /\ c.nick \in Nick
        BY <1>h
    <2>3. KillLine(c.nick) \in L /\ QuitLine(c.nick) \in L
        BY <2>2, ProperWrites
    <2>4. /\ Sent(s, {}, << KillLine(c.nick) >>) \in Queues(ProperLines(o))
          /\ Sent(s, {}, << QuitLine(c.nick) >>) \in Queues(ProperLines(o))
        BY <1>s, <2>3
    <2>5. net' \in Queues(ProperLines(o))
        BY <1>0, <2>1, <2>4
    <2> QED BY <1>d, <1>e, <1>f, <2>1, <2>5
<1>7. ASSUME NEW s \in Server, NEW t \in Server, ReceiveNick(s, t) PROVE Proper(o)'
    <2> DEFINE m == Head(net[s][t])
               v == Evicted(at[t], m.user, m.nick)
               accepted == Enter(v, m.user, m.nick, m.ts, TRUE)
    <2>1. /\ Arrives(s, t, "NICK") /\ net[s][t] # << >>
          /\ UNCHANGED << links, fresh, history, spent >>
        BY <1>7 DEF ReceiveNick, Arrives
    <2>2. m \in ProperLines(o) /\ m.user \in User /\ m.nick \in Nick /\ o[m.nick] = m.user
        BY <1>0, <2>1, ProperHead
    <2>3. ProperView(o, accepted, t)
        <3> HIDE DEF m
        <3>1. v = at[t]
            BY <1>0, <2>2, HolderOwn
        <3> HIDE DEF v
        <3> QED BY <1>0, <2>2, <3>1, EnterProper
    <2>4. << >> \in Seq(L) /\ << KillLine(m.nick) >> \in Seq(L)
        BY <2>2, ProperWrites
    <2>5. << m >> \in Seq(L) /\ << KillLine(m.nick), m >> \in Seq(L)
        BY <2>2, ProperWrites
    <2>6. /\ \/ UNCHANGED at
             \/ at' = [at EXCEPT ![t] = accepted]
             \/ \E x \in User : at' = [at EXCEPT ![t] = Exit(at[t], {x})]
          /\ \/ net' = Taken(s, t, << >>)
             \/ net' = Taken(s, t, << m >>)
             \/ net' = Taken(s, t, << KillLine(m.nick), m >>)
             \/ net' = Answered(s, t, << KillLine(m.nick) >>, << KillLine(m.nick) >>)
        BY <1>7 DEF ReceiveNick, Holder
    <2>7. net' \in Queues(ProperLines(o))
        <3> HIDE DEF m
        <3>1. /\ Taken(s, t, << >>) \in Queues(ProperLines(o))
              /\ Taken(s, t, << m >>) \in Queues(ProperLines(o))
              /\ Taken(s, t, << KillLine(m.nick), m >>) \in Queues(ProperLines(o))
            BY <1>l, <2>1, <2>4, <2>5
        <3>2. Answered(s, t, << KillLine(m.nick) >>, << KillLine(m.nick) >>) \in Queues(ProperLines(o))
            BY <1>i, <2>1, <2>4
        <3> QED BY <2>6, <3>1, <3>2
    <2>8. Good
        <3> HIDE DEF accepted, m, Good
        <3> QED BY <1>d, <1>e, <1>g, <2>3, <2>6
    <2> QED BY <1>f, <2>1, <2>7, <2>8
<1>k. ASSUME NEW s \in Server, NEW t \in Server, NEW n \in Nick,
             net[s][t] # << >>, Misdirected(s, t, n), UNCHANGED links
      PROVE  Proper(o)'
    <2>1. << >> \in Seq(L) /\ << KillLine(n) >> \in Seq(L)
        BY ProperWrites
    <2>2. net' \in Queues(ProperLines(o)) /\ UNCHANGED at
        BY <1>i, <1>k, <2>1 DEF Misdirected
    <2> QED BY <1>f, <1>g, <1>k, <2>2
<1>8. ASSUME NEW s \in Server, NEW t \in Server, ReceiveChange(s, t) PROVE Proper(o)'
    <2> DEFINE m == Head(net[s][t])
    <2>1. /\ Arrives(s, t, "CHANGE") /\ net[s][t] # << >>
          /\ UNCHANGED << links, fresh, history, spent >>
        BY <1>8 DEF ReceiveChange, Arrives
    <2>2. m.old \in Nick /\ m.nick \in Nick /\ o[m.old] = o[m.nick] /\ m.ts \in Nat
        <3>1. m \in ProperLines(o) /\ m.type = "CHANGE" /\ m.old \in Nick /\ m.nick \in Nick
              /\ o[m.old] = o[m.nick]
            BY <1>0, <2>1, ProperHead
        <3> HIDE DEF m
        <3>2. m.ts \in Nat
            BY <3>1 DEF ProperLines, Message
        <3> QED BY <3>1, <3>2
    <2>3. CASE Misdirected(s, t, m.old)
        BY <1>k, <2>1, <2>2, <2>3
    <2>4. CASE \E u \in Source(s, t, m.old) : HandleChange(s, t, u)
        <3>1. PICK u \in Source(s, t, m.old) : HandleChange(s, t, u)
            BY <2>4
        <3> DEFINE old == at[t].client[u].nick
                   ts == IF m.nick = old THEN at[t].client[u].ts ELSE m.ts
                   v == Evicted(at[t], u, m.nick)
                   changed == Rename(v, u, m.nick, ts)
                   line == ChangeLine(old, m.nick, ts)
                   kills == << KillLine(old), KillLine(m.nick) >>
        <3>2. u \in User /\ old = m.old /\ ts \in Nat /\ o[m.nick] = u
            <4>1. u \in User /\ old = m.old /\ u \in Holder(at[t], m.old)
                BY DEF Source, Holder
            <4>2. o[m.old] = u
                BY <1>0, <2>2, <4>1, HolderOwn
            <4> QED BY <1>a, <2>2, <4>1, <4>2
        <3>3. ProperView(o, changed, t)
            <4>1. v = at[t] /\ at[t].client[u].nick \in Nick
                BY <1>0, <2>2, <3>2, HolderOwn
            <4> HIDE DEF v, ts, m
            <4> QED BY <1>0, <2>2, <3>2, <4>1, RenameProper
        <3>4. /\ << line >> \in Seq(L) /\ kills \in Seq(L)
              /\ << KillLine(old) >> \in Seq(L) /\ << KillLine(m.nick), line >> \in Seq(L)
            <4> HIDE DEF m
            <4>1. KillLine(old) \in L /\ KillLine(m.nick) \in L
                BY <2>2, <3>2, ProperWrites
            <4>2. line \in L
                <5> HIDE DEF ts, old
                <5> QED BY <2>2, <3>2, ProperWrites
            <4> QED BY <4>1, <4>2
        <3>5. /\ at' = [at EXCEPT ![t] = changed] \/ \E S : at' = [at EXCEPT ![t] = Exit(at[t], S)]
              /\ \/ net' = Taken(s, t, << line >>)
                 \/ net' = Answered(s, t, kills, kills)
                 \/ net' = Taken(s, t, << KillLine(old) >>)
                 \/ net' = Taken(s, t, << KillLine(m.nick), line >>)
            BY <3>1 DEF HandleChange
        <3>6. net' \in Queues(ProperLines(o))
            <4> HIDE DEF m, old, line, kills
            <4>1. /\ Taken(s, t, << line >>) \in Queues(ProperLines(o))
                  /\ Taken(s, t, << KillLine(old) >>) \in Queues(ProperLines(o))
                  /\ Taken(s, t, << KillLine(m.nick), line >>) \in Queues(ProperLines(o))
                BY <1>l, <2>1, <3>4
            <4>2. Answered(s, t, kills, kills) \in Queues(ProperLines(o))
                BY <1>i, <2>1, <3>4
            <4> QED BY <3>5, <4>1, <4>2
        <3>7. Good
            <4> HIDE DEF changed, Good
            <4> QED BY <1>d, <1>e, <3>3, <3>5
        <3> QED BY <1>f, <2>1, <3>6, <3>7
    <2> QED BY <1>8, <2>3, <2>4 DEF ReceiveChange
<1>9. ASSUME NEW s \in Server, NEW t \in Server, ReceiveQuit(s, t) PROVE Proper(o)'
    <2> DEFINE m == Head(net[s][t])
    <2>1. /\ Arrives(s, t, "QUIT") /\ net[s][t] # << >>
          /\ UNCHANGED << links, fresh, history, spent >>
        BY <1>9 DEF ReceiveQuit, Arrives
    <2>2. m \in ProperLines(o) /\ m.nick \in Nick
        BY <1>0, <2>1, ProperHead
    <2>3. CASE Misdirected(s, t, m.nick)
        BY <1>k, <2>1, <2>2, <2>3
    <2>4. CASE \E u \in Source(s, t, m.nick) :
                 at' = [at EXCEPT ![t] = Exit(at[t], {u})] /\ net' = Taken(s, t, << m >>)
        <3>1. PICK u : at' = [at EXCEPT ![t] = Exit(at[t], {u})] /\ net' = Taken(s, t, << m >>)
            BY <2>4
        <3>2. << m >> \in Seq(L)
            BY <2>2
        <3>3. net' \in Queues(ProperLines(o))
            <4> HIDE DEF m
            <4> QED BY <1>l, <2>1, <3>1, <3>2
        <3>4. Good
            <4> HIDE DEF Good
            <4> QED BY <1>d, <1>e, <3>1
        <3> QED BY <1>f, <2>1, <3>3, <3>4
    <2> QED BY <1>9, <2>3, <2>4 DEF ReceiveQuit
<1>10. ASSUME NEW s \in Server, NEW t \in Server, ReceiveKill(s, t) PROVE Proper(o)'
    <2> DEFINE n == Head(net[s][t]).nick
    <2>1. /\ Arrives(s, t, "KILL") /\ net[s][t] # << >>
          /\ UNCHANGED << links, fresh, history, spent >>
        BY <1>10 DEF ReceiveKill, Arrives
    <2>2. n \in Nick
        BY <1>0, <2>1, ProperHead
    <2>3. << >> \in Seq(L)
        OBVIOUS
    <2>4. CASE net' = Taken(s, t, << >>) /\ UNCHANGED at
        <3>1. net' \in Queues(ProperLines(o))
            BY <1>l, <2>1, <2>3, <2>4
        <3> QED BY <1>f, <1>g, <2>1, <2>4, <3>1
    <2>5. CASE \E u \in Chased(at[t], n) :
                 /\ at' = [at EXCEPT ![t] = Exit(at[t], {u})]
                 /\ net' = Taken(s, t, << KillLine(at[t].client[u].nick) >>)
        <3>1. PICK u \in Chased(at[t], n) :
                 /\ at' = [at EXCEPT ![t] = Exit(at[t], {u})]
                 /\ net' = Taken(s, t, << KillLine(at[t].client[u].nick) >>)
            BY <2>5
        <3>2. << KillLine(at[t].client[u].nick) >> \in Seq(L)
            BY <1>h, <2>2, ProperWrites
        <3>3. net' \in Queues(ProperLines(o))
            BY <1>l, <2>1, <3>1, <3>2
        <3>4. Good
            <4> HIDE DEF Good
            <4> QED BY <1>d, <1>e, <3>1
        <3> QED BY <1>f, <2>1, <3>3, <3>4
    <2> QED BY <1>10, <2>4, <2>5 DEF ReceiveKill
<1>m. ASSUME NEW s \in Server, NEW lost, Lose(s, lost) PROVE Good
    <2> HIDE DEF Good
    <2> QED BY <1>d, <1>e, <1>m DEF Lose
<1>n. ASSUME LinksTypeOK(ProperLines(o))', Good PROVE Proper(o)'
    BY <1>n DEF Proper
<1>11. ASSUME NEW s \in Server, NEW t \in Server, Close(s, t) PROVE Proper(o)'
    <2>1. CloseLink(s, t) /\ Lose(s, Behind(s, t))
        BY <1>11 DEF Close
    <2>2. LinksTypeOK(ProperLines(o))'
        BY <1>0, <2>1, CloseLinkType
    <2> QED BY <1>m, <1>n, <2>1, <2>2
<1>12. ASSUME NEW s \in Server, NEW t \in Server, ReceiveEof(s, t) PROVE Proper(o)'
    <2>1. EofLink(s, t) /\ (Lose(t, Behind(t, s)) \/ UNCHANGED at)
        BY <1>12 DEF ReceiveEof
    <2>2. LinksTypeOK(ProperLines(o))'
        BY <1>0, <2>1, EofLinkType
    <2> QED BY <1>g, <1>m, <1>n, <2>1, <2>2
<1>13. ASSUME NEW s \in Server, NEW t \in Server, ReceiveSquit(s, t) PROVE Proper(o)'
    <2>1. SquitLink(s, t) /\ Lose(t, Head(net[s][t]).lost)
        BY <1>13 DEF ReceiveSquit
    <2>2. LinksTypeOK(ProperLines(o))'
        BY <1>0, <2>1, SquitLinkType
    <2> QED BY <1>m, <1>n, <2>1, <2>2
<1>o. ASSUME NEW s \in Server, NEW lines \in BurstLines(at[s]) PROVE lines \in Seq(ProperLines(o))
    <2>1. \A u \in User : at[s].client[u].known => at[s].client[u].nick \in Nick
        BY <1>a
    <2> QED BY <1>0, <2>1, BurstProper
<1>14. ASSUME NEW s \in Server, NEW t \in Server, Estab(s, t) PROVE Proper(o)'
    <2>1. PICK lines \in BurstLines(at[s]) : EstabLink(s, t, lines)
        BY <1>14 DEF Estab
    <2>2. lines \in Seq(ProperLines(o)) /\ Good
        BY <1>14, <1>g, <1>o DEF Estab
    <2>3. LinksTypeOK(ProperLines(o))'
        BY <1>0, <2>1, <2>2, EstabLinkType
    <2> QED BY <1>n, <2>2, <2>3
<1>15. ASSUME NEW s \in Server, NEW t \in Server, ReceiveServer(s, t) PROVE Proper(o)'
    <2>1. PICK lines \in BurstLines(at[t]) : ServerLink(s, t, lines)
        BY <1>15 DEF ReceiveServer
    <2>2. lines \in Seq(ProperLines(o)) /\ Good
        BY <1>15, <1>g, <1>o DEF ReceiveServer
    <2>3. LinksTypeOK(ProperLines(o))'
        BY <1>0, <2>1, <2>2, ServerLinkType
    <2> QED BY <1>n, <2>2, <2>3
<1>16. CASE UNCHANGED vars
    <2>1. UNCHANGED << at, links, net, fresh, history, spent >>
        BY <1>16 DEF vars
    <2> QED BY <1>0, <1>f, <1>g, <2>1
<1> QED BY <1>1, <1>2, <1>3, <1>4, <1>5, <1>6, <1>7, <1>8, <1>9, <1>10,
           <1>11, <1>12, <1>13, <1>14, <1>15, <1>16 DEF Next

(* What has been taken is never given back.                                *)
LEMMA ClaimsGrow == ASSUME [Next]_vars PROVE claims \subseteq claims'
<1>1. ASSUME NEW u \in User, NEW n \in Nick, ChooseNick(u, n) \/ ChangeNick(u, n) PROVE claims \subseteq claims'
    BY <1>1 DEF ChooseNick, ChangeNick, Claim
<1>2. ASSUME NEW u \in User, Register(u) \/ Quit(u) PROVE claims \subseteq claims'
    BY <1>2 DEF Register, Quit, history
<1>3. ASSUME NEW u \in User, NEW n \in Nick, RefuseNick(u, n) PROVE claims \subseteq claims'
    BY <1>3 DEF RefuseNick
<1>4. ASSUME NEW s \in Server, NEW n \in Nick, OperKill(s, n) PROVE claims \subseteq claims'
    BY <1>4 DEF OperKill
<1>5. ASSUME NEW s \in Server, NEW t \in Server,
             \/ ReceiveNick(s, t) \/ ReceiveChange(s, t) \/ ReceiveQuit(s, t) \/ ReceiveKill(s, t)
             \/ ReceiveSquit(s, t) \/ ReceiveEof(s, t) \/ ReceiveServer(s, t)
             \/ Close(s, t) \/ Estab(s, t)
      PROVE  claims \subseteq claims'
    BY <1>5 DEF ReceiveNick, ReceiveChange, ReceiveQuit, ReceiveKill, ReceiveSquit, ReceiveEof,
               ReceiveServer, Close, Estab, history
<1>6. CASE UNCHANGED vars
    BY <1>6 DEF vars, history
<1> QED BY <1>1, <1>2, <1>3, <1>4, <1>5, <1>6 DEF Next

(* Wherever it is written, in the clients of a server, in its whowas table *)
(* or in a line on its way, a nick is that of the one who took it.         *)
NamesAreOwn == \A o \in Owners : Obeyed(o) => Proper(o)

(* As long as no two connections take one nick, a line can name nobody     *)
(* but its user, however late it is read: a change names him twice, and a  *)
(* KILL that finds its target by the whowas table finds the right one.     *)
THEOREM NamesStayOwn == Spec => []NamesAreOwn
<1>1. Init => NamesAreOwn
    BY ProperInit DEF NamesAreOwn
<1>2. ASSUME IInv, NamesAreOwn, [Next]_vars PROVE NamesAreOwn'
    <2>1. claims \subseteq claims'
        BY <1>2, ClaimsGrow
    <2>2. ASSUME NEW o \in Owners, Obeyed(o)' PROVE Proper(o)'
        <3>1. Obeyed(o)
            BY <2>1, <2>2 DEF Obeyed
        <3>2. Proper(o)
            BY <1>2, <3>1 DEF NamesAreOwn
        <3> QED BY <1>2, <2>2, <3>2, ProperNext
    <2> QED BY <2>2 DEF NamesAreOwn
<1> QED BY <1>1, <1>2, IInvHolds, PTL DEF Spec
-----------------------------------------------------------------------------
(* Agreement about lone clients.                                           *)

Name == Nick \union {NoNick}
Line == Message \union LinkMessage

(* The nick that view v knows u by, NoNick if it does not.                 *)
NickOf(v, u) == IF v.client[u].known THEN v.client[u].nick ELSE NoNick

(* The nicks that v finds u by when it is to be killed.                    *)
Past(v, u) == {n \in Nick : v.client[u].nick = n \/ v.was[n] = u}

(* Whom a line is about, under which nick, and which it leaves him.        *)
Of(o, m) ==
    IF m.type = "NICK" THEN m.user
    ELSE IF m.type = "CHANGE" THEN o[m.old]
    ELSE IF m.type \in {"KILL", "QUIT"} THEN o[m.nick]
    ELSE Nobody
From(m) == IF m.type = "NICK" THEN NoNick ELSE IF m.type = "CHANGE" THEN m.old ELSE m.nick
To(m) == IF m.type \in {"NICK", "CHANGE"} THEN m.nick ELSE NoNick

-----------------------------------------------------------------------------
(* What a step does, as far as it matters who is known by which nick.      *)

(* What line m makes of somebody who is known as a.                        *)
Turns(o, u, a, m, b) ==
    IF Of(o, m) = u THEN a = From(m) /\ b = To(m)
    ELSE IF m.type = "SQUIT" /\ home[u] \in m.lost THEN b = NoNick
    ELSE b = a

(* w knows x by all the nicks that v knew it by.                           *)
Keeps(v, w, x) == NickOf(v, x) # NoNick /\ NickOf(w, x) # NoNick => Past(v, x) \subseteq Past(w, x)
Same(v, w, x) == NickOf(w, x) = NickOf(v, x) /\ Keeps(v, w, x)

(* What line m says of u comes true of u at p, and nothing else happens.   *)
Becomes(o, u, p, m, v, w) ==
    /\ Turns(o, u, NickOf(v[p], u), m, NickOf(w[p], u)) /\ Keeps(v[p], w[p], u)
    /\ \A x \in Server : \A y \in User : ~(x = p /\ y = u) => Same(v[x], w[x], y)

(* Nothing is said, and nobody is known by another nick.                   *)
Quietly ==
    /\ \A x \in Server : \A w \in User : Same(at[x], at'[x], w)
    /\ net' = net /\ links' = links

(* p does something to u, and tells its neighbours.                        *)
Says(o, u, p, m) ==
    /\ p \in Server /\ u \in User /\ m \in Message /\ Of(o, m) = u
    /\ Becomes(o, u, p, m, at, at')
    /\ net' = Sent(p, {}, << m >>) /\ links' = links
    /\ m.type # "KILL" => home[u] = p
    /\ m.type = "NICK" => at[p].client[u].nick # NoNick /\ ~at[p].client[u].known

(* t takes line m about u from s, and passes it on as n, ...               *)
Hears(o, u, s, t, m, n) ==
    /\ s \in Server /\ t \in Server /\ u \in User /\ m \in Message /\ n \in Message
    /\ m = Head(net[s][t]) /\ Arrives(s, t, m.type)
    /\ Of(o, m) = u /\ Of(o, n) = u
    /\ n.type = m.type /\ (m.type # "KILL" => From(n) = From(m) /\ To(n) = To(m))
    /\ Becomes(o, u, t, n, at, at')
    /\ net' = Taken(s, t, << n >>) /\ links' = links

(* ... or does not find u under the nick it names.                         *)
Drops(o, u, s, t, m, back) ==
    /\ s \in Server /\ t \in Server /\ u \in User /\ m \in Message
    /\ m = Head(net[s][t]) /\ Arrives(s, t, m.type) /\ Of(o, m) = u
    /\ m.type \in {"KILL", "CHANGE", "QUIT"}
    /\ IF m.type = "KILL" THEN Chased(at[t], m.nick) = {} /\ back = << >>
       ELSE /\ Source(s, t, From(m)) = {}
            /\ back = IF Holder(at[t], From(m)) = {} THEN << KillLine(From(m)) >> ELSE << >>
    /\ at' = at /\ net' = Answered(s, t, back, << >>) /\ links' = links

(* What becomes of one user leaves the others alone.                       *)
LEMMA EnterIs ==
    ASSUME NEW v \in View, NEW u \in User, NEW c, NEW e, e = [v EXCEPT !.client[u] = c]
    PROVE  /\ NickOf(e, u) = IF c.known THEN c.nick ELSE NoNick
           /\ \A x \in User : x # u => Same(v, e, x)
<1>1. e.was = v.was /\ \A x \in User : e.client[x] = IF x = u THEN c ELSE v.client[x]
    BY DEF View
<1>2. NickOf(e, u) = IF c.known THEN c.nick ELSE NoNick
    BY <1>1 DEF NickOf
<1>3. \A x \in User : x # u => Same(v, e, x)
    BY <1>1 DEF Same, Keeps, NickOf, Past
<1> QED BY <1>2, <1>3

LEMMA ExitIs ==
    ASSUME NEW o, NEW v \in View, NEW s, ProperView(o, v, s), NEW u \in User
    PROVE  LET e == Exit(v, {u}) IN
           /\ NickOf(e, u) = NoNick
           /\ \A x \in User : x # u => Same(v, e, x)
<1> DEFINE e == Exit(v, {u})
           seen == {x \in {u} : v.client[x].known}
<1>1. /\ \A x \in User : e.client[x] = IF x = u THEN Absent ELSE v.client[x]
      /\ \A n \in Nick : e.was[n] =
            IF v.was[n] \in seen \/ Holder(v, n) \intersect seen # {} THEN Nobody ELSE v.was[n]
    BY DEF Exit
<1>2. seen \subseteq {u} /\ NoNick \notin Nick
    BY NickAssumption
<1> HIDE DEF e, seen
<1>3. NickOf(e, u) = NoNick
    BY <1>1 DEF NickOf, Absent
<1>4. ASSUME NEW x \in User, x # u PROVE Same(v, e, x)
    <2>1. NickOf(e, x) = NickOf(v, x) /\ e.client[x].nick = v.client[x].nick
        BY <1>1, <1>4 DEF NickOf
    <2>2. ASSUME NEW n \in Nick, v.was[n] = x PROVE e.was[n] = x
        <3>1. v.was[n] \notin seen
            BY <1>2, <1>4, <2>2
        <3>2. Holder(v, n) \intersect seen = {}
            <4>1. o[n] = x
                BY <2>2 DEF ProperView
            <4>2. v.client[u].nick # n
                BY <1>2, <1>4, <4>1 DEF ProperView
            <4> QED BY <1>2, <4>2 DEF Holder
        <3> QED BY <1>1, <2>2, <3>1, <3>2
    <2>3. Past(v, x) \subseteq Past(e, x)
        BY <2>1, <2>2 DEF Past
    <2> QED BY <2>1, <2>3 DEF Same, Keeps
<1> QED BY <1>3, <1>4 DEF e

LEMMA RenameIs ==
    ASSUME NEW o, NEW v \in View, NEW s, ProperView(o, v, s), NEW u \in User, NEW n \in Nick,
           NEW ts, v.client[u].nick \in Nick
    PROVE  LET r == Rename(v, u, n, ts) IN
           /\ NickOf(r, u) = n /\ Keeps(v, r, u)
           /\ \A x \in User : x # u => Same(v, r, x)
<1> DEFINE r == Rename(v, u, n, ts)
           e == Enter(v, u, n, ts, TRUE)
           old == v.client[u].nick
<1>1. /\ e.was = v.was /\ e.was \in [Nick -> User \union {Nobody}]
      /\ \A x \in User : e.client[x] =
            IF x = u THEN [nick |-> n, ts |-> ts, known |-> TRUE] ELSE v.client[x]
    BY DEF Enter, View
<1>2. r.client = e.client /\ r.was = [e.was EXCEPT ![old] = u]
    BY DEF Rename, Enter
<1> HIDE DEF e, r
<1>3. \A k \in Nick : r.was[k] = IF k = old THEN u ELSE v.was[k]
    BY <1>1, <1>2
<1>4. /\ \A x \in User : x # u => r.client[x] = v.client[x]
      /\ r.client[u].nick = n /\ r.client[u].known
    BY <1>1, <1>2
<1>5. o[old] = u /\ old \in Nick
    BY NickAssumption DEF ProperView
<1>6. NickOf(r, u) = n
    BY <1>4 DEF NickOf
<1>7. Past(v, u) \subseteq Past(r, u)
    BY <1>3 DEF Past
<1>8. ASSUME NEW x \in User, x # u PROVE Same(v, r, x)
    <2>1. NickOf(r, x) = NickOf(v, x) /\ r.client[x] = v.client[x]
        BY <1>4, <1>8 DEF NickOf
    <2>2. ASSUME NEW k \in Nick, v.was[k] = x PROVE r.was[k] = x
        <3>1. o[k] = x
            BY <2>2 DEF ProperView
        <3> QED BY <1>3, <1>5, <1>8, <2>2, <3>1
    <2>3. Past(v, x) \subseteq Past(r, x)
        BY <2>1, <2>2 DEF Past
    <2> QED BY <2>1, <2>3 DEF Same, Keeps
<1> QED BY <1>6, <1>7, <1>8 DEF Keeps, r

LEMMA TouchIs ==
    ASSUME NEW v \in View, NEW u \in User, NEW ts
    PROVE  /\ \A x \in User : Same(v, [v EXCEPT !.client[u].ts = ts], x)
           /\ NickOf([v EXCEPT !.client[u].known = TRUE], u) = v.client[u].nick
           /\ \A x \in User : x # u => Same(v, [v EXCEPT !.client[u].known = TRUE], x)
<1> DEFINE e == [v EXCEPT !.client[u].ts = ts]
           f == [v EXCEPT !.client[u].known = TRUE]
<1>1. /\ e.was = v.was /\ f.was = v.was
      /\ \A x \in User : e.client[x].nick = v.client[x].nick /\ e.client[x].known = v.client[x].known
      /\ \A x \in User : f.client[x].nick = v.client[x].nick
      /\ \A x \in User : x # u => f.client[x].known = v.client[x].known
      /\ f.client[u].known
    BY DEF View, Client
<1> HIDE DEF e, f
<1>2. \A x \in User : Same(v, e, x)
    BY <1>1 DEF Same, Keeps, NickOf, Past
<1>3. NickOf(f, u) = v.client[u].nick /\ \A x \in User : x # u => Same(v, f, x)
    BY <1>1 DEF Same, Keeps, NickOf, Past
<1> QED BY <1>2, <1>3 DEF e, f

LEMMA SameView == \A v, x : Same(v, v, x)
BY DEF Same, Keeps

(* One server changes its view of one user.                                *)
LEMMA ViewStep ==
    ASSUME at \in [Server -> View], NEW p \in Server, NEW w, at' = [at EXCEPT ![p] = w],
           NEW u \in User, \A x \in User : x # u => Same(at[p], w, x)
    PROVE  /\ at'[p] = w
           /\ \A x \in Server : \A y \in User : ~(x = p /\ y = u) => Same(at[x], at'[x], y)
           /\ Same(at[p], w, u) => \A x \in Server : \A y \in User : Same(at[x], at'[x], y)
<1>1. at'[p] = w /\ \A x \in Server : x # p => at'[x] = at[x]
    OBVIOUS
<1>2. \A x \in Server : \A y \in User : x # p => Same(at[x], at'[x], y)
    BY <1>1, SameView
<1> QED BY <1>1, <1>2

(* What the steps below rely on.                                           *)
Sound(o) == IInv /\ o \in Owners /\ Proper(o)

LEMMA SoundIs ==
    ASSUME NEW o, Sound(o)
    PROVE  /\ o \in Owners /\ at \in [Server -> View] /\ home \in [User -> Server]
           /\ NoNick \notin Nick
           /\ net \in Queues(Message) /\ LinksTypeOK(Message) /\ LinksTypeOK(ProperLines(o))
           /\ \A s \in Server :
                 at[s] \in View /\ ViewOK(at[s], fresh) /\ ProperView(o, at[s], s)
           /\ \A s \in Server, u \in User :
                 /\ at[s].client[u] \in [nick : Name, ts : Nat, known : BOOLEAN]
                 /\ at[s].client[u].known => at[s].client[u].nick \in Nick
                 /\ at[s].client[u].nick # NoNick => at[s].client[u].nick \in Nick
<1>1. /\ o \in Owners /\ at \in [Server -> View] /\ home \in [User -> Server]
      /\ NoNick \notin Nick /\ LinksTypeOK(ProperLines(o))
      /\ \A s \in Server :
            at[s] \in View /\ ViewOK(at[s], fresh) /\ ProperView(o, at[s], s)
    BY NickAssumption DEF Sound, IInv, Proper
<1>2. \A s \in Server, u \in User :
         /\ at[s].client[u] \in [nick : Name, ts : Nat, known : BOOLEAN]
         /\ at[s].client[u].known => at[s].client[u].nick \in Nick
         /\ at[s].client[u].nick # NoNick => at[s].client[u].nick \in Nick
    BY <1>1 DEF View, Client, ViewOK, Name
<1>3. LinksTypeOK(Message) /\ net \in Queues(Message)
    <2>1. ProperLines(o) \union LinkMessage \subseteq Message \union LinkMessage
        BY DEF ProperLines
    <2>2. \A x, y \in Server : net[x][y] \in Seq(Message \union LinkMessage)
        BY <1>1, <2>1, SeqMonotonic DEF LinksTypeOK
    <2> QED BY <1>1, <2>2 DEF LinksTypeOK, Queues
<1> QED BY <1>1, <1>2, <1>3

LEMMA ChooseQuietly ==
    ASSUME NEW o, Sound(o), NEW u \in User, NEW n \in Nick, ChooseNick(u, n) PROVE Quietly
<1> DEFINE s == home[u]
<1>1. s \in Server /\ at \in [Server -> View] /\ at[s] \in View /\ links' = links /\ net' = net
    BY SoundIs DEF ChooseNick
<1>2. PICK now \in clock[s] : at' = [at EXCEPT ![s] = Enter(at[s], u, n, now, FALSE)]
    BY DEF ChooseNick
<1> DEFINE e == Enter(at[s], u, n, now, FALSE)
           c == [nick |-> n, ts |-> now, known |-> FALSE]
<1>3. ~at[s].client[u].known
    BY <1>1, SoundIs DEF ChooseNick, ViewOK
<1> HIDE DEF s
<1>4. NickOf(e, u) = NoNick /\ \A x \in User : x # u => Same(at[s], e, x)
    <2>1. e = [at[s] EXCEPT !.client[u] = c] /\ ~c.known
        BY DEF Enter
    <2> HIDE DEF e, c
    <2> QED BY <1>1, <2>1, EnterIs
<1>5. at' = [at EXCEPT ![s] = e]
    BY <1>2
<1> HIDE DEF e
<1>6. Same(at[s], e, u)
    BY <1>3, <1>4 DEF Same, Keeps, NickOf
<1>7. \A x \in Server : \A y \in User : Same(at[x], at'[x], y)
    BY <1>1, <1>4, <1>5, <1>6, ViewStep
<1> QED BY <1>1, <1>7 DEF Quietly

LEMMA RegisterSays ==
    ASSUME NEW o, Sound(o), NEW u \in User, Register(u)
    PROVE  Says(o, u, home[u], NickLine(u, at[home[u]].client[u]))
<1> DEFINE s == home[u]
           c == at[s].client[u]
           m == NickLine(u, c)
           e == [at[s] EXCEPT !.client[u].known = TRUE]
<1>1. /\ s \in Server /\ at \in [Server -> View] /\ at[s] \in View
      /\ c.nick # NoNick /\ ~c.known /\ links' = links /\ net' = Sent(s, {}, << m >>)
      /\ c.nick \in Nick /\ c.ts \in Nat
    BY SoundIs DEF Register
<1>2. at' = [at EXCEPT ![s] = e]
    BY DEF Register
<1> HIDE DEF s
<1>3. NickOf(e, u) = c.nick /\ \A x \in User : x # u => Same(at[s], e, x)
    BY <1>1, TouchIs
<1>4. m \in Message /\ m.type = "NICK" /\ m.user = u /\ m.nick = c.nick
    BY <1>1 DEF NickLine, Message
<1> HIDE DEF e, m
<1>5. /\ at'[s] = e
      /\ \A x \in Server : \A y \in User : ~(x = s /\ y = u) => Same(at[x], at'[x], y)
    BY <1>1, <1>2, <1>3, ViewStep
<1>6. NickOf(at[s], u) = NoNick
    BY <1>1 DEF NickOf
<1>7. Of(o, m) = u /\ From(m) = NoNick /\ To(m) = c.nick
    BY <1>4 DEF Of, From, To
<1>8. Becomes(o, u, s, m, at, at')
    BY <1>3, <1>5, <1>6, <1>7 DEF Becomes, Turns, Keeps
<1> QED BY <1>1, <1>4, <1>7, <1>8 DEF Says, m, s

LEMMA ChangeSays ==
    ASSUME NEW o, Sound(o), NEW u \in User, NEW n \in Nick, ChangeNick(u, n), o[n] = u
    PROVE  \E m : m.type = "CHANGE" /\ Says(o, u, home[u], m)
<1> DEFINE s == home[u]
           c == at[s].client[u]
           v == Evicted(at[s], u, n)
<1>1. /\ s \in Server /\ at \in [Server -> View] /\ at[s] \in View /\ ProperView(o, at[s], s)
      /\ c.known /\ links' = links /\ c.nick \in Nick /\ o[c.nick] = u
    <2>1. /\ home \in [User -> Server] /\ at \in [Server -> View] /\ NoNick \notin Nick
          /\ \A x \in Server : at[x] \in View /\ ProperView(o, at[x], x)
          /\ \A x \in Server : at[x].client[u].known => at[x].client[u].nick \in Nick
        BY SoundIs
    <2>2. c.known /\ links' = links
        BY DEF ChangeNick
    <2>3. s \in Server
        BY <2>1
    <2> HIDE DEF s
    <2>4. c.nick \in Nick /\ c.nick # NoNick
        BY <2>1, <2>2, <2>3
    <2>5. o[c.nick] = u
        BY <2>1, <2>3, <2>4 DEF ProperView
    <2> QED BY <2>1, <2>2, <2>3, <2>4, <2>5
<1>2. PICK now \in clock[s] :
        /\ at' = [at EXCEPT ![s] = Rename(v, u, n, now)]
        /\ net' = Sent(s, {}, << ChangeLine(c.nick, n, now) >>)
    BY DEF ChangeNick
<1>3. v = at[s]
    BY <1>1, SoundIs, HolderOwn
<1> DEFINE e == Rename(at[s], u, n, now)
           m == ChangeLine(c.nick, n, now)
<1>4. at' = [at EXCEPT ![s] = e] /\ net' = Sent(s, {}, << m >>)
    BY <1>2, <1>3
<1> HIDE DEF s
<1>5. NickOf(e, u) = n /\ Keeps(at[s], e, u)
    BY <1>1, RenameIs
<1>a. \A x \in User : x # u => Same(at[s], e, x)
    BY <1>1, RenameIs
<1>6. m \in Message /\ m.type = "CHANGE" /\ m.old = c.nick /\ m.nick = n
    <2>1. now \in Nat
        BY <1>1, <1>2, NickAssumption
    <2> QED BY <1>1, <2>1 DEF ChangeLine, Message
<1> HIDE DEF e, m
<1>7. /\ at'[s] = e
      /\ \A x \in Server : \A y \in User : ~(x = s /\ y = u) => Same(at[x], at'[x], y)
    <2>1. at \in [Server -> View] /\ s \in Server
        BY <1>1
    <2>2. at' = [at EXCEPT ![s] = e]
        BY <1>4
    <2> QED BY <1>a, <2>1, <2>2, ViewStep
<1>8. NickOf(at[s], u) = c.nick
    BY <1>1 DEF NickOf
<1>9. Of(o, m) = u /\ From(m) = c.nick /\ To(m) = n
    BY <1>1, <1>6 DEF Of, From, To
<1>10. Becomes(o, u, s, m, at, at')
    BY <1>5, <1>7, <1>8, <1>9 DEF Becomes, Turns
<1> QED BY <1>1, <1>4, <1>6, <1>9, <1>10 DEF Says, s

(* u goes.                                                                 *)
LEMMA ExitBecomes ==
    ASSUME NEW o, NEW v \in [Server -> View], NEW p \in Server, NEW u \in User,
           ProperView(o, v[p], p), NEW e, NEW S, S = {u}, e = Exit(v[p], S),
           NEW w, w[p] = e, \A x \in Server : x # p => w[x] = v[x],
           NEW m, m.type \in {"QUIT", "KILL"}, m.nick = v[p].client[u].nick,
           v[p].client[u].known, v[p].client[u].nick \in Nick
    PROVE  Of(o, m) = u /\ Becomes(o, u, p, m, v, w)
<1> DEFINE c == v[p].client[u]
<1>1. v[p] \in View /\ o[c.nick] = u
    BY NickAssumption DEF ProperView
<1>2. NickOf(e, u) = NoNick /\ \A x \in User : x # u => Same(v[p], e, x)
    BY <1>1, ExitIs
<1>4. w[p] = e /\ \A x \in Server : x # p => w[x] = v[x]
    OBVIOUS
<1>5. \A x \in Server : \A y \in User : ~(x = p /\ y = u) => Same(v[x], w[x], y)
    BY <1>2, <1>4, SameView
<1>6. Of(o, m) = u /\ From(m) = c.nick /\ To(m) = NoNick /\ NickOf(v[p], u) = c.nick
    BY <1>1 DEF Of, From, To, NickOf
<1> QED BY <1>2, <1>4, <1>5, <1>6 DEF Becomes, Turns, Keeps

(* u goes, who has not registered.                                         *)
LEMMA ExitQuietly ==
    ASSUME NEW o, Sound(o), NEW p \in Server, NEW u \in User, at' = [at EXCEPT ![p] = Exit(at[p], {u})],
           ~at[p].client[u].known, net' = net, links' = links
    PROVE  Quietly
<1> DEFINE e == Exit(at[p], {u})
<1>1. at \in [Server -> View] /\ at[p] \in View /\ ProperView(o, at[p], p)
    BY SoundIs
<1>2. NickOf(e, u) = NoNick /\ \A x \in User : x # u => Same(at[p], e, x)
    BY <1>1, ExitIs
<1>3. at' = [at EXCEPT ![p] = e]
    OBVIOUS
<1> HIDE DEF e
<1>4. Same(at[p], e, u)
    BY <1>2 DEF Same, Keeps, NickOf
<1>5. \A x \in Server : \A y \in User : Same(at[x], at'[x], y)
    BY <1>1, <1>2, <1>3, <1>4, ViewStep
<1> QED BY <1>5 DEF Quietly

LEMMA LineIs ==
    ASSUME NEW n \in Nick
    PROVE  /\ KillLine(n) \in Message /\ KillLine(n).type = "KILL" /\ KillLine(n).nick = n
           /\ QuitLine(n) \in Message /\ QuitLine(n).type = "QUIT" /\ QuitLine(n).nick = n
BY DEF KillLine, QuitLine, Message

LEMMA QuitSays ==
    ASSUME NEW o, Sound(o), NEW u \in User, Quit(u)
    PROVE  Quietly \/ \E m : m.type = "QUIT" /\ Says(o, u, home[u], m)
<1> DEFINE s == home[u]
           c == at[s].client[u]
           m == QuitLine(c.nick)
<1>1. /\ s \in Server /\ c.nick \in Nick /\ links' = links
      /\ at' = [at EXCEPT ![s] = Exit(at[s], {u})]
      /\ net' = IF c.known THEN Sent(s, {}, << m >>) ELSE net
    BY SoundIs DEF Quit
<1>2. CASE ~c.known
    BY <1>1, <1>2, ExitQuietly
<1>3. CASE c.known
    <2>0. c.nick \in Nick /\ at \in [Server -> View] /\ ProperView(o, at[s], s)
        BY <1>1, SoundIs
    <2>1. m \in Message /\ m.type = "QUIT" /\ m.nick = c.nick
        BY <1>1, LineIs
    <2>2. net' = Sent(s, {}, << m >>)
        BY <1>1, <1>3
    <2> DEFINE S == {u}
               e == Exit(at[s], S)
    <2>a. S = {u} /\ e = Exit(at[s], S)
        OBVIOUS
    <2>b. at' = [at EXCEPT ![s] = e]
        BY <1>1
    <2> HIDE DEF m, S, e
    <2>c. at'[s] = e /\ \A x \in Server : x # s => at'[x] = at[x]
        BY <1>1, <2>0, <2>b
    <2>d. s \in Server /\ m.type \in {"QUIT", "KILL"}
        BY <1>1, <2>1
    <2>e. S = {u} /\ e = Exit(at[s], S) /\ m.nick = at[s].client[u].nick
        BY <2>a, <2>1
    <2>3. Of(o, m) = u /\ Becomes(o, u, s, m, at, at')
        <3> HIDE DEF s
        <3>1. at[s].client[u].known /\ at[s].client[u].nick \in Nick
            BY <1>3, <2>0 DEF c
        <3> QED BY <2>0, <2>c, <2>d, <2>e, <3>1, ExitBecomes
    <2>4. Says(o, u, s, m)
        BY <1>1, <2>1, <2>2, <2>3 DEF Says
    <2> QED BY <2>1, <2>4
<1> QED BY <1>2, <1>3

LEMMA KillSays ==
    ASSUME NEW o, Sound(o), NEW s \in Server, NEW n \in Nick, OperKill(s, n)
    PROVE  /\ o[n] \in Chased(at[s], n) /\ killed' = killed \union {o[n]}
           /\ at' = [at EXCEPT ![s] = Exit(at[s], {o[n]})]
           /\ \/ Quietly /\ ~at[s].client[o[n]].known
              \/ \E m : m.type \in {"QUIT", "KILL"} /\ Says(o, o[n], s, m)
<1> DEFINE u == o[n]
           c == at[s].client[u]
<1>0. at[s] \in View /\ ProperView(o, at[s], s) /\ o \in Owners /\ u \in User /\ NoNick \notin Nick
    BY SoundIs DEF Owners
<1>1. /\ u \in Chased(at[s], n) /\ killed' = killed \union {u} /\ links' = links
      /\ at' = [at EXCEPT ![s] = Exit(at[s], {u})]
      /\ net' = IF home[u] # s THEN Sent(s, {}, << KillLine(c.nick) >>)
                ELSE IF c.known THEN Sent(s, {}, << QuitLine(c.nick) >>) ELSE net
    <2>1. PICK x \in Chased(at[s], n) :
            LET d == at[s].client[x] IN
            /\ at' = [at EXCEPT ![s] = Exit(at[s], {x})]
            /\ net' = IF home[x] # s THEN Sent(s, {}, << KillLine(d.nick) >>)
                      ELSE IF d.known THEN Sent(s, {}, << QuitLine(d.nick) >>) ELSE net
            /\ killed' = killed \union {x}
            /\ UNCHANGED << links, fresh, claims >>
        BY DEF OperKill
    <2>2. x = u
        BY <1>0, HolderOwn
    <2> QED BY <2>1, <2>2
<1>3. c.nick \in Nick /\ (home[u] = s \/ c.known)
    <2>1. CASE u \in Holder(at[s], n)
        BY <1>0, <2>1 DEF Holder, ProperView
    <2>2. CASE u \notin Holder(at[s], n)
        <3>1. u = at[s].was[n] /\ u # Nobody
            BY <1>1, <2>2 DEF Chased
        <3>2. c.known
            BY <3>1, SoundIs DEF ViewOK
        <3> QED BY <1>0, <3>2, SoundIs
    <2> QED BY <2>1, <2>2
<1>4. CASE ~c.known
    <2>1. net' = net /\ links' = links
        BY <1>1, <1>3, <1>4
    <2>2. Quietly
        BY <1>0, <1>1, <1>4, <2>1, ExitQuietly
    <2> QED BY <1>1, <1>4, <2>2
<1>5. CASE c.known
    <2>1. PICK m : /\ m = IF home[u] # s THEN KillLine(c.nick) ELSE QuitLine(c.nick)
                   /\ m \in Message /\ m.type \in {"QUIT", "KILL"} /\ m.nick = c.nick
                   /\ m.type # "KILL" => home[u] = s
        BY <1>3, LineIs
    <2>2. net' = Sent(s, {}, << m >>) /\ links' = links
        BY <1>1, <1>5, <2>1
    <2> DEFINE S == {u}
               e == Exit(at[s], S)
    <2>a. S = {u} /\ e = Exit(at[s], S) /\ at' = [at EXCEPT ![s] = e]
        BY <1>1
    <2>b. at \in [Server -> View]
        BY SoundIs
    <2> HIDE DEF S, e
    <2>c. at'[s] = e /\ \A x \in Server : x # s => at'[x] = at[x]
        BY <2>a, <2>b
    <2>d. ProperView(o, at[s], s) /\ u \in User /\ m.type \in {"QUIT", "KILL"}
        BY <1>0, <2>1
    <2>e. S = {u} /\ e = Exit(at[s], S) /\ m.nick = at[s].client[u].nick
        BY <2>a, <2>1
    <2>3. Of(o, m) = u /\ Becomes(o, u, s, m, at, at')
        <3>1. at[s].client[u].known /\ at[s].client[u].nick \in Nick
            BY <1>3, <1>5
        <3> HIDE DEF u, c
        <3> QED BY <2>b, <2>c, <2>d, <2>e, <3>1, ExitBecomes
    <2>4. Says(o, u, s, m)
        BY <1>0, <2>1, <2>2, <2>3, <1>5 DEF Says
    <2>5. \E k : k.type \in {"QUIT", "KILL"} /\ Says(o, o[n], s, k)
        BY <2>1, <2>4
    <2>6. /\ o[n] \in Chased(at[s], n) /\ killed' = killed \union {o[n]}
          /\ at' = [at EXCEPT ![s] = Exit(at[s], {o[n]})]
        BY <1>1
    <2> QED BY <2>5, <2>6
<1> QED BY <1>4, <1>5

(* The lines, as t parses them.                                            *)
LEMMA NickHeard ==
    ASSUME NEW o, Sound(o), NEW s \in Server, NEW t \in Server, ReceiveNick(s, t),
           NEW m, m = Head(net[s][t]), NEW u, u = m.user, NickOf(at[t], u) = NoNick
    PROVE  Hears(o, u, s, t, m, m)
<1> DEFINE n == m.nick
           e == Enter(at[t], u, n, m.ts, TRUE)
<1>1. /\ Arrives(s, t, "NICK") /\ links' = links /\ m.type = "NICK"
      /\ m \in Message /\ u \in User /\ n \in Nick /\ o[n] = u /\ at \in [Server -> View]
      /\ at[t] \in View
    <2>1. Arrives(s, t, "NICK") /\ links' = links /\ LinksTypeOK(ProperLines(o))
        BY SoundIs DEF ReceiveNick
    <2>2. m \in ProperLines(o) /\ m.type = "NICK" /\ u \in User /\ n \in Nick /\ o[n] = u
        BY <2>1, ProperHead
    <2> QED BY <2>1, <2>2, SoundIs DEF ProperLines
<1>2. {x \in Holder(at[t], n) : at[t].client[x].known} = {} /\ Evicted(at[t], u, n) = at[t]
    <2>1. Holder(at[t], n) \subseteq {u} /\ Evicted(at[t], u, n) = at[t]
        BY <1>1, SoundIs, HolderOwn
    <2>2. ~at[t].client[u].known
        BY <1>1, SoundIs DEF NickOf
    <2> QED BY <2>1, <2>2
<1>3. at' = [at EXCEPT ![t] = e] /\ net' = Taken(s, t, << m >>)
    BY <1>2 DEF ReceiveNick
<1>4. NickOf(e, u) = n /\ \A x \in User : x # u => Same(at[t], e, x)
    <2> DEFINE c == [nick |-> n, ts |-> m.ts, known |-> TRUE]
    <2>1. e = [at[t] EXCEPT !.client[u] = c] /\ c.known /\ c.nick = n
        BY DEF Enter
    <2> HIDE DEF c, e
    <2> QED BY <1>1, <2>1, EnterIs
<1> HIDE DEF e
<1>5. /\ at'[t] = e
      /\ \A x \in Server : \A y \in User : ~(x = t /\ y = u) => Same(at[x], at'[x], y)
    <2>1. at \in [Server -> View] /\ u \in User /\ at' = [at EXCEPT ![t] = e]
        BY <1>1, <1>3
    <2>2. \A x \in User : x # u => Same(at[t], e, x)
        BY <1>4
    <2> QED BY ONLY <2>1, <2>2, ViewStep, t \in Server
<1>6. Of(o, m) = u /\ From(m) = NoNick /\ To(m) = n
    BY <1>1 DEF Of, From, To
<1>7. Becomes(o, u, t, m, at, at')
    BY <1>4, <1>5, <1>6 DEF Becomes, Turns, Keeps
<1> QED BY <1>1, <1>3, <1>6, <1>7 DEF Hears

(* Whoever a line comes from, and is found, is known.                      *)
LEMMA SourceIs ==
    ASSUME NEW o, Sound(o), NEW s \in Server, NEW t \in Server, t \notin Behind(t, s), NEW n \in Nick
    PROVE  \A u \in Source(s, t, n) :
               u = o[n] /\ at[t].client[u].known /\ at[t].client[u].nick = n /\ u \in User
<1> SUFFICES ASSUME NEW u \in Source(s, t, n)
             PROVE  u = o[n] /\ at[t].client[u].known /\ at[t].client[u].nick = n /\ u \in User
    OBVIOUS
<1>1. u \in Holder(at[t], n) /\ home[u] # t
    BY DEF Source, Elsewhere
<1>2. at[t] \in View /\ ProperView(o, at[t], t) /\ o \in Owners /\ NoNick \notin Nick
    BY SoundIs
<1>3. u = o[n] /\ u \in User /\ at[t].client[u].nick = n
    BY <1>1, <1>2, HolderOwn DEF Holder
<1> QED BY <1>1, <1>2, <1>3 DEF ProperView

LEMMA NotFound ==
    ASSUME NEW o, Sound(o), NEW s \in Server, NEW t \in Server,
           NEW m \in Message, m = Head(net[s][t]), m.type \in {"CHANGE", "QUIT"}, Arrives(s, t, m.type),
           NEW u \in User, Of(o, m) = u, Misdirected(s, t, From(m)), links' = links
    PROVE  \E back : Drops(o, u, s, t, m, back)
<1> DEFINE back == IF Holder(at[t], From(m)) = {} THEN << KillLine(From(m)) >> ELSE << >>
<1>1. /\ Source(s, t, From(m)) = {} /\ at' = at
      /\ net' = Answered(s, t, back, << >>)
    BY DEF Misdirected
<1> HIDE DEF back
<1>2. back = IF Holder(at[t], From(m)) = {} THEN << KillLine(From(m)) >> ELSE << >>
    BY DEF back
<1>3. Drops(o, u, s, t, m, back)
    BY <1>1, <1>2 DEF Drops
<1> QED BY <1>3

LEMMA ChangeHeard ==
    ASSUME NEW o, Sound(o), NEW s \in Server, NEW t \in Server, t \notin Behind(t, s), ReceiveChange(s, t),
           NEW m, m = Head(net[s][t])
    PROVE  /\ m.type = "CHANGE" /\ o[m.old] \in User
           /\ \/ \E n : Hears(o, o[m.old], s, t, m, n)
              \/ \E back : Drops(o, o[m.old], s, t, m, back)
<1> DEFINE u == o[m.old]
           v == Evicted(at[t], u, m.nick)
           old == at[t].client[u].nick
           ts == IF m.nick = old THEN at[t].client[u].ts ELSE m.ts
           e == Rename(at[t], u, m.nick, ts)
           n == ChangeLine(m.old, m.nick, ts)
<1>1. /\ Arrives(s, t, "CHANGE") /\ links' = links /\ m.type = "CHANGE"
      /\ m \in Message /\ u \in User /\ m.nick \in Nick /\ m.old \in Nick /\ o[m.nick] = u
      /\ at \in [Server -> View] /\ at[t] \in View /\ o \in Owners /\ ProperView(o, at[t], t)
    <2>1. Arrives(s, t, "CHANGE") /\ links' = links /\ LinksTypeOK(ProperLines(o))
        BY SoundIs DEF ReceiveChange
    <2>2. m \in ProperLines(o) /\ m.type = "CHANGE" /\ m.nick \in Nick /\ m.old \in Nick /\ o[m.old] = o[m.nick]
        BY <2>1, ProperHead
    <2> QED BY <2>1, <2>2, SoundIs DEF ProperLines, Owners
<1>2. Of(o, m) = u /\ From(m) = m.old /\ To(m) = m.nick
    BY <1>1 DEF Of, From, To
<1>3. CASE Misdirected(s, t, m.old)
    BY <1>1, <1>2, <1>3, NotFound
<1>4. ASSUME NEW x \in Source(s, t, m.old), HandleChange(s, t, x) PROVE \E k : Hears(o, u, s, t, m, k)
    <2>a. \A z \in Source(s, t, m.old) :
              z = o[m.old] /\ at[t].client[z].known /\ at[t].client[z].nick = m.old
        BY <1>1, SourceIs
    <2>1. x = u /\ at[t].client[u].known /\ old = m.old
        BY <1>4, <2>a
    <2>2. v = at[t] /\ Holder(at[t], m.nick) \subseteq {u}
        BY <1>1, HolderOwn
    <2>3. {y \in Holder(at[t], m.nick) : at[t].client[y].known} \ {u} = {}
        BY <2>2
    <2>4. /\ at' = [at EXCEPT ![t] = Rename(v, u, m.nick, ts)]
          /\ net' = Taken(s, t, << ChangeLine(old, m.nick, ts) >>)
        BY <1>4, <2>1, <2>3 DEF HandleChange
    <2>5. at' = [at EXCEPT ![t] = e] /\ net' = Taken(s, t, << n >>)
        BY <2>1, <2>2, <2>4
    <2>6. n \in Message /\ n.type = "CHANGE" /\ n.old = m.old /\ n.nick = m.nick
        <3>1. m.ts \in Nat /\ at[t].client[u].ts \in Nat
            BY <1>1, SoundIs DEF Message
        <3> QED BY <1>1, <3>1 DEF ChangeLine, Message
    <2>7. NickOf(at[t], u) = m.old
        BY <2>1 DEF NickOf
    <2>8. old \in Nick
        BY <1>1, <2>1
    <2> HIDE DEF u, old, ts, n
    <2>9. NickOf(e, u) = m.nick /\ Keeps(at[t], e, u) /\ \A x_1 \in User : x_1 # u => Same(at[t], e, x_1)
        BY <1>1, <2>8, RenameIs DEF old
    <2> HIDE DEF e
    <2>10. /\ at'[t] = e
           /\ \A x_1 \in Server : \A y \in User : ~(x_1 = t /\ y = u) => Same(at[x_1], at'[x_1], y)
        <3>1. at \in [Server -> View] /\ u \in User /\ at' = [at EXCEPT ![t] = e]
            BY <1>1, <2>5
        <3> QED BY <2>9, <3>1, ViewStep
    <2>11. Of(o, n) = u /\ From(n) = m.old /\ To(n) = m.nick
        BY <2>6 DEF Of, From, To, u
    <2>12. Becomes(o, u, t, n, at, at')
        BY <2>7, <2>9, <2>10, <2>11 DEF Becomes, Turns
    <2>13. Hears(o, u, s, t, m, n)
        BY <1>1, <1>2, <2>5, <2>6, <2>11, <2>12 DEF Hears
    <2> QED BY <2>13
<1>5. Misdirected(s, t, m.old) \/ \E x \in Source(s, t, m.old) : HandleChange(s, t, x)
    BY DEF ReceiveChange
<1> QED BY <1>1, <1>3, <1>4, <1>5

(* t puts u out, and says so.                                              *)
LEMMA ExitHeard ==
    ASSUME NEW o, Sound(o), NEW s \in Server, NEW t \in Server,
           NEW m \in Message, m = Head(net[s][t]), NEW n \in Message, Arrives(s, t, m.type),
           n.type = m.type, m.type \in {"QUIT", "KILL"}, m.type = "QUIT" => n = m,
           NEW u \in User, Of(o, m) = u, at[t].client[u].known, n.nick = at[t].client[u].nick,
           at' = [at EXCEPT ![t] = Exit(at[t], {u})], net' = Taken(s, t, << n >>), links' = links
    PROVE  Hears(o, u, s, t, m, n)
<1> DEFINE S == {u}
           e == Exit(at[t], S)
<1>1. S = {u} /\ e = Exit(at[t], S) /\ at' = [at EXCEPT ![t] = e]
    OBVIOUS
<1>2. at \in [Server -> View] /\ ProperView(o, at[t], t) /\ at[t].client[u].nick \in Nick
    BY SoundIs
<1> HIDE DEF S, e
<1>3. at'[t] = e /\ \A x \in Server : x # t => at'[x] = at[x]
    BY <1>1, <1>2
<1>4. n.type \in {"QUIT", "KILL"} /\ S = {u} /\ e = Exit(at[t], S) /\ n.nick = at[t].client[u].nick
    BY <1>1
<1>a. at[t].client[u].known /\ at[t].client[u].nick \in Nick
    BY <1>2
<1>b. ProperView(o, at[t], t) /\ at \in [Server -> View]
    BY <1>2
<1>5. Of(o, n) = u /\ Becomes(o, u, t, n, at, at')
    BY ONLY <1>a, <1>b, <1>3, <1>4, ExitBecomes, t \in Server, u \in User
<1> QED BY <1>5 DEF Hears

LEMMA QuitHeard ==
    ASSUME NEW o, Sound(o), NEW s \in Server, NEW t \in Server, t \notin Behind(t, s), ReceiveQuit(s, t),
           NEW m, m = Head(net[s][t])
    PROVE  /\ m.type = "QUIT" /\ o[m.nick] \in User
           /\ \/ \E n : Hears(o, o[m.nick], s, t, m, n)
              \/ \E back : Drops(o, o[m.nick], s, t, m, back)
<1> DEFINE u == o[m.nick]
<1>1. /\ Arrives(s, t, "QUIT") /\ links' = links /\ m.type = "QUIT"
      /\ m \in Message /\ u \in User /\ m.nick \in Nick
    <2>1. Arrives(s, t, "QUIT") /\ links' = links /\ LinksTypeOK(ProperLines(o))
        BY SoundIs DEF ReceiveQuit
    <2>2. m \in ProperLines(o) /\ m.type = "QUIT" /\ m.nick \in Nick
        BY <2>1, ProperHead
    <2> QED BY <2>1, <2>2, SoundIs DEF ProperLines, Owners
<1>2. Of(o, m) = u /\ From(m) = m.nick
    BY <1>1 DEF Of, From
<1>3. CASE Misdirected(s, t, m.nick)
    BY <1>1, <1>2, <1>3, NotFound
<1>4. ASSUME NEW x \in Source(s, t, m.nick), at' = [at EXCEPT ![t] = Exit(at[t], {x})],
             net' = Taken(s, t, << m >>)
      PROVE  Hears(o, u, s, t, m, m)
    <2>a. \A z \in Source(s, t, m.nick) :
              z = o[m.nick] /\ at[t].client[z].known /\ at[t].client[z].nick = m.nick
        BY <1>1, SourceIs
    <2>1. x = u /\ at[t].client[u].known /\ at[t].client[u].nick = m.nick
        BY <1>4, <2>a
    <2>2. at' = [at EXCEPT ![t] = Exit(at[t], {u})]
        BY <1>4, <2>1
    <2> QED BY <1>1, <1>2, <1>4, <2>1, <2>2, ExitHeard
<1>5. \/ Misdirected(s, t, m.nick)
      \/ \E x \in Source(s, t, m.nick) :
            at' = [at EXCEPT ![t] = Exit(at[t], {x})] /\ net' = Taken(s, t, << m >>)
    BY DEF ReceiveQuit
<1> QED BY <1>1, <1>3, <1>4, <1>5

LEMMA KillHeard ==
    ASSUME NEW o, Sound(o), NEW s \in Server, NEW t \in Server, ReceiveKill(s, t),
           NEW m, m = Head(net[s][t]),
           \A u \in Chased(at[t], m.nick) : at[t].client[u].known
    PROVE  /\ m.type = "KILL" /\ o[m.nick] \in User
           /\ \/ \E n : Hears(o, o[m.nick], s, t, m, n)
              \/ \E back : Drops(o, o[m.nick], s, t, m, back)
<1> DEFINE u == o[m.nick]
<1>1. /\ Arrives(s, t, "KILL") /\ links' = links /\ m.type = "KILL"
      /\ m \in Message /\ u \in User /\ m.nick \in Nick
    <2>1. Arrives(s, t, "KILL") /\ links' = links /\ LinksTypeOK(ProperLines(o))
        BY SoundIs DEF ReceiveKill
    <2>2. m \in ProperLines(o) /\ m.type = "KILL" /\ m.nick \in Nick
        BY <2>1, ProperHead
    <2> QED BY <2>1, <2>2, SoundIs DEF ProperLines, Owners
<1>2. Of(o, m) = u /\ From(m) = m.nick
    BY <1>1 DEF Of, From
<1>3. CASE Chased(at[t], m.nick) = {} /\ net' = Taken(s, t, << >>) /\ at' = at
    <2> DEFINE back == << >>
    <2>1. back = << >> /\ net' = Answered(s, t, back, << >>)
        BY <1>3 DEF Taken
    <2> HIDE DEF back
    <2>2. Drops(o, u, s, t, m, back)
        BY <1>1, <1>2, <1>3, <2>1 DEF Drops
    <2> QED BY <1>1, <2>2
<1>4. ASSUME NEW x \in Chased(at[t], m.nick), at' = [at EXCEPT ![t] = Exit(at[t], {x})],
             net' = Taken(s, t, << KillLine(at[t].client[x].nick) >>)
      PROVE  \E n : Hears(o, u, s, t, m, n)
    <2>0. at[t] \in View /\ ProperView(o, at[t], t) /\ o \in Owners
        BY SoundIs
    <2>a. Chased(at[t], m.nick) \subseteq {o[m.nick]}
        BY <1>1, <2>0, HolderOwn
    <2>1. x = u /\ at[t].client[u].known
        BY <1>4, <2>a
    <2>2. at' = [at EXCEPT ![t] = Exit(at[t], {u})]
        BY <1>4, <2>1
    <2> DEFINE n == KillLine(at[t].client[u].nick)
    <2>3. n \in Message /\ n.type = "KILL" /\ n.nick = at[t].client[u].nick
        <3>1. at[t].client[u].nick \in Nick
            BY <1>1, <2>1, SoundIs
        <3> QED BY <3>1, LineIs
    <2>4. net' = Taken(s, t, << n >>)
        BY <1>4, <2>1
    <2> HIDE DEF n
    <2>5. Hears(o, u, s, t, m, n)
        BY <1>1, <1>2, <2>1, <2>2, <2>3, <2>4, ExitHeard
    <2> QED BY <2>5
<1>5. \/ Chased(at[t], m.nick) = {} /\ net' = Taken(s, t, << >>) /\ at' = at
      \/ \E x \in Chased(at[t], m.nick) :
            /\ at' = [at EXCEPT ![t] = Exit(at[t], {x})]
            /\ net' = Taken(s, t, << KillLine(at[t].client[x].nick) >>)
    BY DEF ReceiveKill
<1> QED BY <1>1, <1>3, <1>4, <1>5

-----------------------------------------------------------------------------
(* What a queue of lines makes of somebody who is known as a: b.           *)
Trace(o, q, u, a, b) ==
    \E w \in [0..Len(q) -> Name] :
        /\ w[0] = a /\ w[Len(q)] = b
        /\ \A k \in 1..Len(q) : Turns(o, u, w[k - 1], q[k], w[k])

LEMMA TraceEmpty ==
    ASSUME NEW o, NEW u, NEW a \in Name PROVE \A b : Trace(o, << >>, u, a, b) <=> b = a
<1> DEFINE w == [k \in 0..0 |-> a]
           q == << >>
<1>0. Len(q) = 0 /\ 1..0 = {} /\ 0 \in 0..0 /\ q = << >>
    OBVIOUS
<1>1. w \in [0..0 -> Name] /\ w[0] = a
    BY <1>0
<1> HIDE DEF w, q
<1>2. Trace(o, q, u, a, a)
    BY <1>0, <1>1 DEF Trace
<1>3. \A b : Trace(o, q, u, a, b) => b = a
    BY <1>0 DEF Trace
<1>4. \A b : Trace(o, q, u, a, b) <=> b = a
    BY <1>2, <1>3
<1> QED BY <1>0, <1>4

(* A queue starts with somebody's name and leaves him one.                 *)
LEMMA TraceNames ==
    ASSUME NEW o, NEW L, NEW q \in Seq(L), NEW u, NEW a, NEW b, Trace(o, q, u, a, b)
    PROVE  a \in Name /\ b \in Name
<1>1. PICK w \in [0..Len(q) -> Name] : w[0] = a /\ w[Len(q)] = b
    BY DEF Trace
<1>2. Len(q) \in Nat
    OBVIOUS
<1>3. 0 \in 0..Len(q) /\ Len(q) \in 0..Len(q)
    BY <1>2
<1> QED BY <1>1, <1>3

(* One queue after another.                                                *)
LEMMA TraceJoins ==
    ASSUME NEW o, NEW L, NEW p \in Seq(L), NEW q \in Seq(L), NEW u, NEW a, NEW b, NEW c,
           Trace(o, p, u, a, b), Trace(o, q, u, b, c)
    PROVE  Trace(o, p \o q, u, a, c)
<1> DEFINE r == p \o q
           P == Len(p)
           Q == Len(q)
<1>1. /\ P \in Nat /\ Q \in Nat /\ Len(r) = P + Q
      /\ \A k \in 1..P + Q : r[k] = IF k <= P THEN p[k] ELSE q[k - P]
    BY ConcatProperties
<1>2. PICK v \in [0..P -> Name] :
        v[0] = a /\ v[P] = b /\ \A k \in 1..P : Turns(o, u, v[k - 1], p[k], v[k])
    BY DEF Trace
<1>3. PICK w \in [0..Q -> Name] :
        w[0] = b /\ w[Q] = c /\ \A k \in 1..Q : Turns(o, u, w[k - 1], q[k], w[k])
    BY DEF Trace
<1> HIDE DEF r, P, Q
<1> DEFINE x == [k \in 0..P + Q |-> IF k <= P THEN v[k] ELSE w[k - P]]
<1>4. x \in [0..P + Q -> Name]
    <2>1. \A k \in 0..P + Q : (k <= P => k \in 0..P) /\ (k > P => k - P \in 0..Q)
        BY <1>1
    <2>2. \A k \in 0..P + Q : k <= P \/ k > P
        BY <1>1
    <2> QED BY <1>2, <1>3, <2>1, <2>2
<1>5. \A k \in 0..P + Q : x[k] = IF k <= P THEN v[k] ELSE w[k - P]
    OBVIOUS
<1> HIDE DEF x
<1>6. x[0] = a
    BY <1>1, <1>2, <1>5
<1>7. x[P + Q] = c
    <2>1. CASE Q = 0
        BY <1>1, <1>2, <1>3, <1>5, <2>1
    <2>2. CASE Q # 0
        <3>1. PICK n \in 0..P + Q : n = P + Q /\ ~(n <= P) /\ n - P = Q
            BY <1>1, <2>2
        <3>2. x[n] = w[n - P]
            BY <1>5, <3>1
        <3> QED BY <1>3, <3>1, <3>2
    <2> QED BY <2>1, <2>2
<1>8. ASSUME NEW k \in 1..P + Q PROVE Turns(o, u, x[k - 1], r[k], x[k])
    <2>0. k \in 0..P + Q /\ k - 1 \in 0..P + Q
        BY <1>1
    <2>1. CASE k <= P
        <3>1. k \in 1..P /\ k - 1 <= P
            BY <1>1, <2>1
        <3>2. x[k] = v[k] /\ x[k - 1] = v[k - 1] /\ r[k] = p[k]
            BY <1>1, <1>5, <2>0, <2>1, <3>1
        <3> QED BY <1>2, <3>1, <3>2
    <2>2. CASE k = P + 1
        <3>1. /\ k - 1 = P /\ ~(k <= P) /\ k - P = 1 /\ k - 1 <= P
              /\ 1 \in 1..Q /\ 1 - 1 = 0
            BY <1>1, <2>2
        <3>2. x[k] = w[1] /\ x[k - 1] = v[P] /\ r[k] = q[1]
            BY <1>1, <1>5, <2>0, <3>1
        <3> QED BY <1>2, <1>3, <3>1, <3>2
    <2>3. CASE k > P + 1
        <3>1. /\ k - P \in 1..Q /\ ~(k <= P) /\ ~(k - 1 <= P)
              /\ k - 1 - P = k - P - 1
            BY <1>1, <2>3
        <3>2. x[k] = w[k - P] /\ x[k - 1] = w[k - P - 1] /\ r[k] = q[k - P]
            BY <1>1, <1>5, <2>0, <3>1
        <3> QED BY <1>3, <3>1, <3>2
    <2> QED BY <1>1, <2>1, <2>2, <2>3
<1>9. Trace(o, r, u, a, c)
    BY <1>1, <1>4, <1>6, <1>7, <1>8 DEF Trace
<1> QED BY <1>9 DEF r

LEMMA TraceOne ==
    ASSUME NEW o, NEW m, NEW u, NEW a \in Name, NEW b \in Name, Turns(o, u, a, m, b)
    PROVE  Trace(o, << m >>, u, a, b)
<1> DEFINE w == [k \in 0..1 |-> IF k = 0 THEN a ELSE b]
           q == << m >>
<1>1. Len(q) = 1 /\ q[1] = m /\ q = << m >>
    OBVIOUS
<1>2. w \in [0..1 -> Name] /\ w[0] = a /\ w[1] = b
    OBVIOUS
<1>3. \A k \in 1..1 : k = 1 /\ k - 1 = 0
    OBVIOUS
<1> HIDE DEF w, q
<1>4. Trace(o, q, u, a, b)
    BY <1>1, <1>2, <1>3 DEF Trace
<1> QED BY <1>1, <1>4

(* A line at the end of a queue has the last word, ...                     *)
LEMMA TraceGrows ==
    ASSUME NEW o, NEW L, NEW q \in Seq(L), NEW m \in L, NEW u, NEW a, NEW b, NEW c \in Name,
           Trace(o, q, u, a, b), Turns(o, u, b, m, c)
    PROVE  Trace(o, q \o << m >>, u, a, c)
<1>1. b \in Name
    BY TraceNames
<1>2. Trace(o, << m >>, u, b, c)
    BY <1>1, TraceOne
<1> DEFINE p == << m >>
<1>3. p \in Seq(L) /\ Trace(o, p, u, b, c)
    BY <1>2
<1> HIDE DEF p
<1>4. Trace(o, q \o p, u, a, c)
    BY <1>3, TraceJoins
<1> QED BY <1>4 DEF p

(* ... and the first one comes first.                                      *)
LEMMA TraceShrinks ==
    ASSUME NEW o, NEW L, NEW q \in Seq(L), q # << >>, NEW u, NEW a, NEW b, Trace(o, q, u, a, b)
    PROVE  \E c \in Name : Turns(o, u, a, q[1], c) /\ Trace(o, Tail(q), u, c, b)
<1> DEFINE r == Tail(q)
           N == Len(r)
<1>1. N \in Nat /\ Len(q) = N + 1 /\ \A k \in 1..N : r[k] = q[k + 1]
    <2>1. /\ r \in Seq(L) /\ Len(r) = Len(q) - 1
          /\ \A k \in 1..Len(r) : r[k] = q[k + 1]
        BY HeadTailProperties
    <2>2. Len(q) \in Nat \ {0}
        BY EmptySeq
    <2> HIDE DEF r
    <2> QED BY <2>1, <2>2
<1>2. N = Len(r) /\ r = Tail(q)
    OBVIOUS
<1> HIDE DEF r, N
<1>3. PICK w \in [0..N + 1 -> Name] :
        w[0] = a /\ w[N + 1] = b /\ \A k \in 1..N + 1 : Turns(o, u, w[k - 1], q[k], w[k])
    BY <1>1 DEF Trace
<1> DEFINE x == [k \in 0..N |-> w[k + 1]]
<1>4. /\ \A k \in 0..N : k + 1 \in 0..N + 1
      /\ 0 \in 0..N /\ N \in 0..N /\ 1 \in 1..N + 1 /\ 1 - 1 = 0 /\ 0 + 1 = 1
    BY <1>1
<1>5. x \in [0..N -> Name] /\ x[0] = w[1] /\ x[N] = b
    BY <1>3, <1>4
<1>6. ASSUME NEW k \in 1..N PROVE Turns(o, u, x[k - 1], r[k], x[k])
    <2>1. k + 1 \in 1..N + 1 /\ k + 1 - 1 = k /\ k \in 0..N /\ k - 1 \in 0..N /\ k - 1 + 1 = k
        BY <1>1
    <2>2. x[k - 1] = w[k] /\ x[k] = w[k + 1] /\ r[k] = q[k + 1]
        BY <1>1, <2>1
    <2>3. Turns(o, u, w[k + 1 - 1], q[k + 1], w[k + 1])
        BY <1>3, <2>1
    <2> QED BY <2>1, <2>2, <2>3
<1>7. Turns(o, u, a, q[1], w[1])
    BY <1>3, <1>4
<1> HIDE DEF x
<1>8. Trace(o, r, u, w[1], b)
    BY <1>2, <1>5, <1>6 DEF Trace
<1>9. w[1] \in Name
    BY <1>3, <1>4
<1> QED BY <1>2, <1>7, <1>8, <1>9

(* A line makes one thing of a name.                                       *)
LEMMA TurnsOne ==
    ASSUME NEW o, NEW u, NEW a, NEW m, NEW b, NEW c, Turns(o, u, a, m, b), Turns(o, u, a, m, c)
    PROVE  b = c
BY DEF Turns

-----------------------------------------------------------------------------
(* The links, whatever is said over them.                                  *)
LEMMA AnsweredOK ==
    ASSUME NEW M, LinksTypeOK(M), LinksOK, NEW s \in Server, NEW t \in Server,
           NEW type, type \notin {"SERVER", "EOF"}, Arrives(s, t, type),
           NEW back \in Seq(M \union LinkMessage), Plain(back),
           NEW lines \in Seq(M \union LinkMessage), Plain(lines),
           net' = Answered(s, t, back, lines), links' = links
    PROVE  LinksOK'
<1> DEFINE q == net[s][t]
<1>1. net \in Queues(M) /\ links \in [Server -> SUBSET Server]
    BY DEF LinksTypeOK, Queues
<1>2. /\ s \in Neighbour(t) /\ t \in Neighbour(s) /\ s # t /\ s \in links[t]
      /\ q \in Seq(M \union LinkMessage) /\ q # << >> /\ q[1].type = type
      /\ LinkOK(s, t) /\ LinkOK(t, s)
    BY ArrivesFirst DEF Arrives
<1>a. \A x, y \in Server :
        net'[x][y] = IF x = s /\ y = t THEN Tail(q)
                     ELSE IF x = t /\ y = s THEN net[t][s] \o back
                     ELSE IF x = t /\ y \in links[t] THEN net[x][y] \o lines
                     ELSE net[x][y]
    BY <1>1, <1>2, AnsweredIs
<1>3. ASSUME NEW x \in Server, NEW y \in Server, ~(x = s /\ y = t)
      PROVE  Grows(x, y) /\ (net'[x][y] = net[x][y] \/ y \in links[x])
    <2>1. CASE x = t /\ y = s
        <3>1. net'[x][y] = net[x][y] \o back /\ y \in links[x]
            BY <1>2, <1>a, <1>3, <2>1
        <3> QED BY <1>1, <3>1, GrowsBy
    <2>2. CASE x = t /\ y # s /\ y \in links[t]
        <3>1. net'[x][y] = net[x][y] \o lines /\ y \in links[x]
            BY <1>a, <1>3, <2>2
        <3> QED BY <1>1, <3>1, GrowsBy
    <2>3. CASE x # t \/ (y # s /\ y \notin links[t])
        <3>1. net'[x][y] = net[x][y]
            BY <1>a, <1>3, <2>3
        <3> QED BY <1>1, <3>1, GrowsNot
    <2> QED BY <2>1, <2>2, <2>3
<1>5. Framed(q)
    BY <1>2 DEF LinkOK
<1>6. /\ Framed(Tail(q)) /\ ~Greets(Tail(q)) /\ (Ends(Tail(q)) => Ends(q))
      /\ Ends(q) => Ends(Tail(q))
    <2> HIDE DEF q
    <2> QED BY <1>2, <1>5, FrameShrinks
<1>7. LinkOK(s, t)'
    <2>1. net'[s][t] = Tail(q)
        BY <1>a
    <2>2. links' = links /\ s \in links[t]
        BY <1>2
    <2>3. ~Greets(net'[s][t]) /\ Framed(net'[s][t]) /\ (Ends(net'[s][t]) <=> Ends(q))
        BY <1>6, <2>1
    <2>4. t \in links[s] \/ Ends(q)
        BY <1>2 DEF LinkOK
    <2> QED BY <1>2, <2>2, <2>3, <2>4 DEF LinkOK
<1>8. LinkOK(t, s)'
    <2>1. net'[t][s] = net[t][s] \o back /\ net'[s][t] = Tail(q) /\ net[t][s] \in Seq(M \union LinkMessage)
        BY <1>1, <1>2, <1>a DEF Queues
    <2>2. ~Ends(net[t][s]) /\ Framed(net[t][s]) /\ ~Greets(net[t][s])
        BY <1>2 DEF LinkOK
    <2>3. Framed(net'[t][s]) /\ ~Ends(net'[t][s]) /\ ~Greets(net'[t][s])
        BY <2>1, <2>2, FrameGrows
    <2>4. t \notin links[s] => Ends(net'[s][t])
        BY <1>2, <1>6, <2>1 DEF LinkOK
    <2> QED BY <1>2, <2>3, <2>4 DEF LinkOK
<1>9. ASSUME NEW x \in Server, NEW y \in Neighbour(x) PROVE LinkOK(x, y)'
    <2>1. y \in Server /\ LinkOK(x, y)
        BY Neighbours DEF LinksOK
    <2>2. CASE (x = s /\ y = t) \/ (x = t /\ y = s)
        BY <1>7, <1>8, <2>2
    <2>3. CASE ~((x = s /\ y = t) \/ (x = t /\ y = s))
        BY <1>3, <2>1, <2>3, PairStays
    <2> QED BY <2>2, <2>3
<1>10. \A x, y \in Server : y \notin Neighbour(x) => net'[x][y] = << >>
    BY <1>2, <1>3 DEF LinksOK
<1> QED BY <1>9, <1>10 DEF LinksOK

(* Whatever is said of clients opens and closes no link.                   *)
LEMMA MessagePlain == ASSUME NEW lines \in Seq(Message) PROVE Plain(lines)
<1>1. \A m \in Message : m.type \notin {"SERVER", "EOF"}
    BY DEF Message
<1>2. \A k \in 1..Len(lines) : lines[k] \in Message
    OBVIOUS
<1> QED BY <1>1, <1>2 DEF Plain

LEMMA LinesPlain ==
    ASSUME NEW lines \in Seq(Message)
    PROVE  lines \in Seq(Message \union LinkMessage) /\ Plain(lines)
BY MessagePlain, SeqMonotonic

LEMMA MisdirectedIs ==
    ASSUME NEW s, NEW t, NEW n \in Nick, Misdirected(s, t, n)
    PROVE  \E back \in Seq(Message), lines \in Seq(Message) : net' = Answered(s, t, back, lines)
<1> DEFINE back == IF Holder(at[t], n) = {} THEN << KillLine(n) >> ELSE << >>
           none == << >>
<1>1. KillLine(n) \in Message
    BY LineIs
<1>2. << KillLine(n) >> \in Seq(Message) /\ none \in Seq(Message)
    BY <1>1
<1>3. back \in Seq(Message) /\ net' = Answered(s, t, back, none)
    BY <1>2 DEF Misdirected
<1> HIDE DEF back, none
<1> QED BY <1>2, <1>3

LEMMA AnswersIs ==
    ASSUME IInv, NEW s \in Server, NEW t \in Server,
           ReceiveNick(s, t) \/ ReceiveChange(s, t) \/ ReceiveQuit(s, t) \/ ReceiveKill(s, t)
    PROVE  /\ links' = links
           /\ \E type : Arrives(s, t, type) /\ type \notin {"SERVER", "EOF"}
           /\ \E back \in Seq(Message), lines \in Seq(Message) : net' = Answered(s, t, back, lines)
<1> DEFINE m == Head(net[s][t])
           Good == \E back \in Seq(Message), lines \in Seq(Message) : net' = Answered(s, t, back, lines)
<1>0. fresh \in SUBSET User /\ LinksTypeOK(Lines(fresh)) /\ at[t] \in View /\ ViewOK(at[t], fresh)
    BY DEF IInv, ViewOK
<1>1. links' = links /\ \E type : Arrives(s, t, type) /\ type \notin {"SERVER", "EOF"}
    <2>1. /\ links' = links
          /\ Arrives(s, t, "NICK") \/ Arrives(s, t, "CHANGE") \/ Arrives(s, t, "QUIT") \/ Arrives(s, t, "KILL")
        BY DEF ReceiveNick, ReceiveChange, ReceiveQuit, ReceiveKill
    <2>2. /\ "NICK" \notin {"SERVER", "EOF"} /\ "CHANGE" \notin {"SERVER", "EOF"}
          /\ "QUIT" \notin {"SERVER", "EOF"} /\ "KILL" \notin {"SERVER", "EOF"}
        OBVIOUS
    <2> QED BY <2>1, <2>2
<1>a. ASSUME NEW back \in Seq(Message), NEW lines \in Seq(Message), net' = Answered(s, t, back, lines)
      PROVE  Good
    BY <1>a
<1>b. ASSUME NEW lines \in Seq(Message), net' = Taken(s, t, lines) PROVE Good
    <2> DEFINE none == << >>
    <2>1. none \in Seq(Message) /\ net' = Answered(s, t, none, lines)
        BY <1>b DEF Taken
    <2> HIDE DEF none
    <2> QED BY <2>1, <1>a
<1>c. \A u \in User : at[t].client[u] \in [nick : Name, ts : Nat, known : BOOLEAN]
    BY <1>0 DEF View, Client, Name
<1>d. \A n \in Nick : << KillLine(n) >> \in Seq(Message)
    <2>1. \A n \in Nick : KillLine(n) \in Message
        BY LineIs
    <2> QED BY <2>1
<1>e. << >> \in Seq(Message)
    OBVIOUS
<1>2. ASSUME ReceiveNick(s, t) PROVE Good
    <2>1. Arrives(s, t, "NICK")
        BY <1>2 DEF ReceiveNick
    <2>2. m \in [type : {"NICK"}, user : User \ fresh, nick : Nick, ts : Nat]
        BY <1>0, <2>1, HeadOK
    <2>3. m \in Message /\ m.nick \in Nick /\ KillLine(m.nick) \in Message
        BY <2>2, LineIs DEF Message
    <2> DEFINE none == << >>
               one == << m >>
               kill == << KillLine(m.nick) >>
               both == << KillLine(m.nick), m >>
    <2>4. none \in Seq(Message) /\ one \in Seq(Message) /\ kill \in Seq(Message) /\ both \in Seq(Message)
        BY <2>3
    <2>5. \/ net' = Taken(s, t, one)
          \/ net' = Answered(s, t, kill, kill)
          \/ net' = Taken(s, t, none)
          \/ net' = Taken(s, t, both)
        BY <1>2 DEF ReceiveNick
    <2> HIDE DEF m, Good, none, one, kill, both
    <2> QED BY <1>a, <1>b, <2>4, <2>5
<1>3. ASSUME ReceiveChange(s, t) PROVE Good
    <2>1. Arrives(s, t, "CHANGE")
        BY <1>3 DEF ReceiveChange
    <2>2. m \in [type : {"CHANGE"}, old : Nick, nick : Nick, ts : Nat]
        BY <1>0, <2>1, HeadOK
    <2>3. CASE Misdirected(s, t, m.old)
        <3>1. m.old \in Nick
            BY <2>2
        <3> HIDE DEF m
        <3> QED BY <2>3, <3>1, MisdirectedIs
    <2>4. ASSUME NEW u \in Source(s, t, m.old), HandleChange(s, t, u) PROVE Good
        <3> DEFINE old == at[t].client[u].nick
                   ts == IF m.nick = old THEN at[t].client[u].ts ELSE m.ts
                   line == ChangeLine(old, m.nick, ts)
                   kills == << KillLine(old), KillLine(m.nick) >>
        <3>1. u \in User /\ old = m.old /\ at[t].client[u].ts \in Nat
            BY <1>c, <2>4 DEF Source, Holder
        <3>2. line \in Message /\ KillLine(old) \in Message /\ KillLine(m.nick) \in Message
            BY <2>2, <3>1, LineIs DEF ChangeLine, Message
        <3>3. /\ << line >> \in Seq(Message) /\ kills \in Seq(Message)
              /\ << KillLine(old) >> \in Seq(Message) /\ << KillLine(m.nick), line >> \in Seq(Message)
            BY <3>2
        <3>4. \/ net' = Taken(s, t, << line >>)
              \/ net' = Answered(s, t, kills, kills)
              \/ net' = Taken(s, t, << KillLine(old) >>)
              \/ net' = Taken(s, t, << KillLine(m.nick), line >>)
            BY <2>4 DEF HandleChange
        <3> HIDE DEF line, kills, old, m, Good
        <3> QED BY <1>a, <1>b, <3>3, <3>4
    <2> HIDE DEF Good
    <2> QED BY <1>3, <2>3, <2>4 DEF ReceiveChange
<1>4. ASSUME ReceiveQuit(s, t) PROVE Good
    <2>1. Arrives(s, t, "QUIT")
        BY <1>4 DEF ReceiveQuit
    <2>2. m \in [type : {"KILL", "QUIT"}, nick : Nick]
        BY <1>0, <2>1, HeadOK
    <2>3. CASE Misdirected(s, t, m.nick)
        <3>1. m.nick \in Nick
            BY <2>2
        <3> HIDE DEF m
        <3> QED BY <2>3, <3>1, MisdirectedIs
    <2> DEFINE one == << m >>
    <2>4. one \in Seq(Message)
        <3>1. m \in Message
            BY <2>2 DEF Message
        <3> QED BY <3>1
    <2>5. Misdirected(s, t, m.nick) \/ net' = Taken(s, t, one)
        BY <1>4 DEF ReceiveQuit
    <2> HIDE DEF one, m
    <2>6. net' = Taken(s, t, one) => Good
        <3> HIDE DEF Good
        <3> QED BY <1>b, <2>4
    <2> QED BY <2>3, <2>5, <2>6
<1>5. ASSUME ReceiveKill(s, t) PROVE Good
    <2>1. Arrives(s, t, "KILL")
        BY <1>5 DEF ReceiveKill
    <2>2. m \in [type : {"KILL", "QUIT"}, nick : Nick]
        BY <1>0, <2>1, HeadOK
    <2>3. \A u \in Chased(at[t], m.nick) : at[t].client[u].nick \in Nick
        <3>1. at[t].was[m.nick] \in User \union {Nobody} /\ NoNick \notin Nick
            BY <1>0, <2>2, NickAssumption DEF View
        <3>2. \A u \in Holder(at[t], m.nick) : at[t].client[u].nick \in Nick
            BY <2>2 DEF Holder
        <3>3. at[t].was[m.nick] # Nobody => at[t].client[at[t].was[m.nick]].nick \in Nick
            BY <1>0, <2>2, <3>1 DEF ViewOK
        <3> QED BY <3>2, <3>3 DEF Chased
    <2>4. \/ net' = Taken(s, t, << >>)
          \/ \E u \in Chased(at[t], m.nick) : net' = Taken(s, t, << KillLine(at[t].client[u].nick) >>)
        BY <1>5 DEF ReceiveKill
    <2>5. PICK lines \in Seq(Message) : net' = Taken(s, t, lines)
        BY <1>d, <1>e, <2>3, <2>4
    <2> HIDE DEF Good
    <2> QED BY <1>b, <2>5
<1> QED BY <1>1, <1>2, <1>3, <1>4, <1>5

LEMMA LinksOKNext == ASSUME IInv, LinksOK, [Next]_vars PROVE LinksOK'
<1>0. LinksTypeOK(Message) /\ home \in [User -> Server] /\ fresh \in SUBSET User
      /\ \A s \in Server : ViewOK(at[s], fresh) /\ at[s] \in View
    <2>1. Lines(fresh) \union LinkMessage \subseteq Message \union LinkMessage
        BY DEF Lines
    <2>2. \A x, y \in Server : net[x][y] \in Seq(Message \union LinkMessage)
        BY <2>1, SeqMonotonic DEF IInv, LinksTypeOK
    <2> QED BY <2>2, NickAssumption DEF IInv, LinksTypeOK, ViewOK
<1>a. ASSUME UNCHANGED << links, net >> PROVE LinksOK'
    BY <1>a DEF LinksOK, LinkOK
<1>b. ASSUME NEW s \in Server, NEW m \in Message, net' = Sent(s, {}, << m >>), links' = links
      PROVE  LinksOK'
    <2> DEFINE lines == << m >>
    <2>1. lines \in Seq(Message) /\ net' = Sent(s, {}, lines)
        BY <1>b
    <2> HIDE DEF lines
    <2> QED BY <1>0, <1>b, <2>1, LinesPlain, SentOK
<1>c. ASSUME NEW s \in Server, NEW u \in User, at[s].client[u].nick # NoNick
      PROVE  at[s].client[u].nick \in Nick /\ at[s].client[u].ts \in Nat
    BY <1>0, <1>c DEF View, Client
<1>1. ASSUME NEW u \in User, NEW n \in Nick, ChooseNick(u, n) \/ RefuseNick(u, n) PROVE LinksOK'
    BY <1>1, <1>a DEF ChooseNick, RefuseNick
<1>2. ASSUME NEW u \in User, Register(u) PROVE LinksOK'
    <2> DEFINE s == home[u]
               c == at[s].client[u]
    <2>1. /\ s \in Server /\ c.nick # NoNick /\ net' = Sent(s, {}, << NickLine(u, c) >>)
          /\ links' = links
        BY <1>0, <1>2 DEF Register
    <2>2. NickLine(u, c) \in Message
        <3>1. c.nick \in Nick /\ c.ts \in Nat
            BY <1>c, <2>1
        <3> QED BY <3>1 DEF NickLine, Message
    <2> QED BY <1>b, <2>1, <2>2
<1>3. ASSUME NEW u \in User, NEW n \in Nick, ChangeNick(u, n) PROVE LinksOK'
    <2> DEFINE s == home[u]
               c == at[s].client[u]
    <2>1. s \in Server /\ c.nick \in Nick /\ links' = links
        BY <1>0, <1>3 DEF ChangeNick, ViewOK
    <2>2. PICK now \in clock[s] : net' = Sent(s, {}, << ChangeLine(c.nick, n, now) >>)
        BY <1>3 DEF ChangeNick
    <2>3. ChangeLine(c.nick, n, now) \in Message
        <3>1. now \in Nat
            BY <2>1, <2>2, NickAssumption
        <3> QED BY <2>1, <3>1 DEF ChangeLine, Message
    <2> QED BY <1>b, <2>1, <2>2, <2>3
<1>4. ASSUME NEW u \in User, Quit(u) PROVE LinksOK'
    <2> DEFINE s == home[u]
               c == at[s].client[u]
    <2>1. /\ s \in Server /\ c.nick \in Nick /\ links' = links
          /\ net' = net \/ net' = Sent(s, {}, << QuitLine(c.nick) >>)
        BY <1>0, <1>4, <1>c DEF Quit
    <2>2. QuitLine(c.nick) \in Message
        BY <2>1, LineIs
    <2> QED BY <1>a, <1>b, <2>1, <2>2
<1>5. ASSUME NEW s \in Server, NEW n \in Nick, OperKill(s, n) PROVE LinksOK'
    <2>1. PICK u \in Chased(at[s], n) :
            /\ links' = links
            /\ \/ net' = Sent(s, {}, << KillLine(at[s].client[u].nick) >>)
               \/ net' = Sent(s, {}, << QuitLine(at[s].client[u].nick) >>)
               \/ net' = net
        BY <1>5 DEF OperKill
    <2>2. at[s].client[u].nick \in Nick
        <3>1. at[s].was[n] \in User \union {Nobody} /\ NoNick \notin Nick
            BY <1>0, NickAssumption DEF View
        <3>2. u \in Holder(at[s], n) => at[s].client[u].nick \in Nick
            BY DEF Holder
        <3>3. at[s].was[n] # Nobody => at[s].client[at[s].was[n]].nick \in Nick
            BY <1>0, <3>1 DEF ViewOK
        <3> QED BY <2>1, <3>2, <3>3 DEF Chased
    <2>3. KillLine(at[s].client[u].nick) \in Message /\ QuitLine(at[s].client[u].nick) \in Message
        BY <2>2, LineIs
    <2> QED BY <1>a, <1>b, <2>1, <2>3
<1>6. ASSUME NEW s \in Server, NEW t \in Server,
             ReceiveNick(s, t) \/ ReceiveChange(s, t) \/ ReceiveQuit(s, t) \/ ReceiveKill(s, t)
      PROVE  LinksOK'
    <2>1. PICK type : Arrives(s, t, type) /\ type \notin {"SERVER", "EOF"}
        BY <1>6, AnswersIs
    <2>2. PICK back \in Seq(Message), lines \in Seq(Message) : net' = Answered(s, t, back, lines)
        BY <1>6, AnswersIs
    <2>3. links' = links
        BY <1>6, AnswersIs
    <2> QED BY <1>0, <2>1, <2>2, <2>3, LinesPlain, AnsweredOK
<1>7. ASSUME NEW s \in Server, NEW t \in Server, Close(s, t) PROVE LinksOK'
    <2>1. PICK left : GivesUp(s, t, left)
        BY <1>0, <1>7, CloseIs DEF Close
    <2> QED BY <1>0, <2>1, GivesUpOK
<1>8. ASSUME NEW s \in Server, NEW t \in Server, ReceiveEof(s, t) PROVE LinksOK'
    BY <1>0, <1>8, EofOK DEF ReceiveEof
<1>9. ASSUME NEW s \in Server, NEW t \in Server, ReceiveSquit(s, t) PROVE LinksOK'
    BY <1>0, <1>9, SquitOK DEF ReceiveSquit
<1>d. ASSUME NEW t \in Server, NEW lines \in BurstLines(at[t]) PROVE lines \in Seq(Message) /\ Plain(lines)
    <2>1. lines \in Seq(Lines(fresh))
        BY <1>0, BurstOK
    <2>2. Lines(fresh) \subseteq Message
        BY DEF Lines
    <2>3. lines \in Seq(Message)
        BY <2>1, <2>2, SeqMonotonic
    <2> QED BY <2>3, MessagePlain
<1>10. ASSUME NEW s \in Server, NEW t \in Server, Estab(s, t) PROVE LinksOK'
    <2>1. PICK lines \in BurstLines(at[s]) : EstabLink(s, t, lines)
        BY <1>10 DEF Estab
    <2> QED BY <1>0, <1>d, <2>1, EstabOK
<1>11. ASSUME NEW s \in Server, NEW t \in Server, ReceiveServer(s, t) PROVE LinksOK'
    <2>1. PICK lines \in BurstLines(at[t]) : ServerLink(s, t, lines)
        BY <1>11 DEF ReceiveServer
    <2> QED BY <1>0, <1>d, <2>1, ServerOK
<1>12. CASE UNCHANGED vars
    BY <1>12, <1>a DEF vars
<1> QED BY <1>1, <1>2, <1>3, <1>4, <1>5, <1>6, <1>7, <1>8, <1>9, <1>10, <1>11, <1>12 DEF Next

-----------------------------------------------------------------------------
(* Links are lost, and nobody is killed.  Whatever a server still reads    *)
(* from a neighbour leaves it with what the neighbour knows of the users   *)
(* on its side, or knew when it gave up the link.                          *)
UsersOf(S) == {u \in User : home[u] \in S}

(* The users on s's side of its link to t.                                 *)
Near(s, t) == UsersOf(Behind(t, s))

About(o, m) == IF m.type = "SQUIT" THEN UsersOf(m.lost) ELSE {Of(o, m)} \intersect User

(* The lines of q are about users of S, and no KILLs.                      *)
Within(o, q, S) == \A k \in 1..Len(q) : About(o, q[k]) \subseteq S /\ q[k].type # "KILL"

Directed(o, s, t) == Within(o, net[s][t], Near(s, t))

(* While a server does not have the link, or is greeting, it knows nobody  *)
(* from the other side.                                                    *)
Gone(s, t) ==
    t \notin links[s] \/ Greets(net[s][t]) => \A u \in Near(t, s) : NickOf(at[s], u) = NoNick

(* t reads what s has sent, or will.                                       *)
Reads(s, t) == s \in links[t] \/ Greets(net[s][t])

Exact(o, s, t) ==
    Reads(s, t) => \A u \in Near(s, t) : \E b \in Name :
        Trace(o, net[s][t], u, NickOf(at[t], u), b) /\ (t \in links[s] => b = NickOf(at[s], u))

Pair(o, s, t) == Directed(o, s, t) /\ Gone(s, t) /\ Exact(o, s, t)

PairsOK(o) == \A s \in Server : \A t \in Neighbour(s) : Pair(o, s, t)

(* Everybody is known by the same nick, or by the one that line m gives.   *)
Alike(v, w) == \A u \in User : NickOf(w, u) = NickOf(v, u)
Tells(o, m, v, w) == \A u \in User : Turns(o, u, NickOf(v, u), m, NickOf(w, u))

(* A link divides the users; who is beyond one is not beyond another.      *)
LEMMA NearIs ==
    ASSUME NEW s \in Server, NEW t \in Neighbour(s)
    PROVE  /\ UsersOf({s}) \subseteq Near(s, t)
           /\ Near(s, t) \union Near(t, s) = User /\ Near(s, t) \intersect Near(t, s) = {}
           /\ \A x \in Neighbour(s) : x # t =>
                Near(x, s) \subseteq Near(s, t) /\ Near(x, s) \intersect Near(t, s) = {}
<1>1. t \in Server /\ s # t /\ s \in Behind(t, s)
    BY Neighbours, BehindIs
<1>2. Behind(t, s) \union Behind(s, t) = Server /\ Behind(t, s) \intersect Behind(s, t) = {}
    BY BehindDivides
<1>3. \A x \in Neighbour(s) : x # t => Behind(s, x) \subseteq Behind(t, s)
    BY BehindThrough
<1>4. home \in [User -> Server]
    BY NickAssumption
<1>5. UsersOf({s}) \subseteq Near(s, t)
    BY <1>1 DEF UsersOf, Near
<1>6. Near(s, t) \union Near(t, s) = User /\ Near(s, t) \intersect Near(t, s) = {}
    BY <1>2, <1>4 DEF UsersOf, Near
<1>7. \A x \in Neighbour(s) : x # t => Near(x, s) \subseteq Near(s, t)
    BY <1>3 DEF UsersOf, Near
<1> QED BY <1>5, <1>6, <1>7

(* The two sides of a link, as the steps cite them.                        *)
LEMMA NearSides ==
    ASSUME NEW s \in Server, NEW t \in Neighbour(s)
    PROVE  /\ Near(s, t) \subseteq User /\ Near(t, s) \subseteq User
           /\ Near(s, t) \union Near(t, s) = User
           /\ Near(s, t) \intersect Near(t, s) = {} /\ Near(t, s) \intersect Near(s, t) = {}
           /\ UsersOf({s}) \subseteq Near(s, t) /\ t \in Server /\ s # t
<1>1. /\ Near(s, t) \union Near(t, s) = User /\ Near(s, t) \intersect Near(t, s) = {}
      /\ UsersOf({s}) \subseteq Near(s, t)
    BY NearIs
<1>2. t \in Server /\ s # t
    BY Neighbours
<1> QED BY <1>1, <1>2

(* A line leaves alone whom it is not about.                               *)
LEMMA AboutIs ==
    ASSUME NEW o, NEW m, NEW u \in User, u \notin About(o, m), m.type = "SQUIT" => Of(o, m) \notin User
    PROVE  \A a, b : Turns(o, u, a, m, b) <=> b = a
<1>1. CASE m.type = "SQUIT"
    BY <1>1 DEF About, Turns, UsersOf
<1>2. CASE m.type # "SQUIT"
    BY <1>2 DEF About, Turns
<1> QED BY <1>1, <1>2

LEMMA SquitOf == \A o, m : m.type = "SQUIT" => Of(o, m) \notin User
BY NickAssumption DEF Of

LEMMA NickOfName == ASSUME NEW v \in View, NEW u \in User PROVE NickOf(v, u) \in Name
BY DEF NickOf, Name, View, Client

(* The queues, line by line.                                               *)
LEMMA WithinEmpty == \A o, S : Within(o, << >>, S)
BY DEF Within

LEMMA WithinGrows ==
    ASSUME NEW o, NEW L, NEW q \in Seq(L), NEW m \in L, NEW S, Within(o, q, S),
           About(o, m) \subseteq S, m.type # "KILL"
    PROVE  Within(o, q \o << m >>, S)
<1> DEFINE r == q \o << m >>
           N == Len(q)
           one == << m >>
<1>1. N \in Nat /\ Len(r) = N + 1 /\ r[N + 1] = m /\ \A n \in 1..N : r[n] = q[n]
    <2>1. one \in Seq(L) /\ Len(one) = 1 /\ one[1] = m /\ r = q \o one
        OBVIOUS
    <2>3. N \in Nat
        OBVIOUS
    <2> HIDE DEF one
    <2>2. /\ Len(r) = N + Len(one)
          /\ \A n \in 1..N + Len(one) : r[n] = IF n <= N THEN q[n] ELSE one[n - N]
        BY <2>1, ConcatProperties
    <2> HIDE DEF r, N
    <2> QED BY <2>1, <2>2, <2>3
<1>2. N = Len(q) /\ r = q \o << m >>
    OBVIOUS
<1> HIDE DEF r, N
<1>3. \A n \in 1..N + 1 : n = N + 1 \/ n \in 1..N
    BY <1>1
<1>4. Within(o, r, S)
    BY <1>1, <1>2, <1>3 DEF Within
<1> QED BY <1>2, <1>4

LEMMA WithinShrinks ==
    ASSUME NEW o, NEW L, NEW q \in Seq(L), q # << >>, NEW S, Within(o, q, S)
    PROVE  Within(o, Tail(q), S) /\ About(o, q[1]) \subseteq S /\ q[1].type # "KILL" /\ q[1] \in L
<1> DEFINE r == Tail(q)
           N == Len(r)
<1>1. /\ N \in Nat /\ Len(q) = N + 1 /\ \A n \in 1..N : r[n] = q[n + 1]
    <2>1. /\ r \in Seq(L) /\ Len(r) = Len(q) - 1
          /\ \A n \in 1..Len(r) : r[n] = q[n + 1]
        BY HeadTailProperties
    <2>2. Len(q) \in Nat \ {0}
        BY EmptySeq
    <2> HIDE DEF r
    <2> QED BY <2>1, <2>2
<1>2. N = Len(r) /\ r = Tail(q)
    OBVIOUS
<1> HIDE DEF r, N
<1>3. (\A n \in 1..N : n + 1 \in 1..N + 1) /\ 1 \in 1..N + 1
    BY <1>1
<1>4. Within(o, r, S) /\ About(o, q[1]) \subseteq S /\ q[1].type # "KILL"
    BY <1>1, <1>2, <1>3 DEF Within
<1>5. q[1] \in L
    BY <1>1, <1>3
<1> QED BY <1>2, <1>4, <1>5

(* What is left of a queue reads like the queue did, up to its end.        *)
LEMMA TraceCut ==
    ASSUME NEW o, NEW L, NEW q \in Seq(L), NEW r \in Seq(L), NEW u \in User, NEW a, NEW b,
           Trace(o, q, u, a, b), Left(r, q)
    PROVE  \E c \in Name : Trace(o, r, u, a, c)
<1>0. Len(q) \in Nat /\ Len(r) \in Nat /\ a \in Name
    BY TraceNames
<1>1. CASE r = << >>
    BY <1>0, <1>1, TraceEmpty
<1>2. CASE r # << >>
    <2> DEFINE N == Len(r)
    <2>1. /\ N \in Nat \ {0} /\ \A k \in 1..N : r[k].type = "EOF" => k = N
          /\ r[N].type = "EOF"
          /\ \A k \in 1..N : r[k].type = "EOF" \/ (k \in 1..Len(q) /\ r[k] = q[k])
        <3>1. Len(r) # 0
            BY <1>2, EmptySeq
        <3> QED BY <1>0, <1>2, <3>1 DEF Left, Framed, Ends
    <2>2. PICK w \in [0..Len(q) -> Name] :
            w[0] = a /\ \A k \in 1..Len(q) : Turns(o, u, w[k - 1], q[k], w[k])
        BY DEF Trace
    <2>a. N = Len(r)
        OBVIOUS
    <2> HIDE DEF N
    <2> DEFINE x == [k \in 0..N |-> IF k = N THEN w[N - 1] ELSE w[k]]
               c == w[N - 1]
    <2>3. N - 1 \in 0..Len(q) /\ \A k \in 1..N - 1 : k \in 1..Len(q) /\ r[k] = q[k] /\ k \in 1..N
        <3>1. \A k \in 1..N - 1 : k \in 1..N /\ k # N
            BY <2>1
        <3>2. \A k \in 1..N - 1 : k \in 1..Len(q) /\ r[k] = q[k] /\ k \in 1..N
            BY <2>1, <3>1
        <3>3. N - 1 \in 0..Len(q)
            <4>1. CASE N = 1
                BY <1>0, <4>1
            <4>2. CASE N # 1
                <5>1. N - 1 \in 1..N - 1
                    BY <2>1, <4>2
                <5>2. N - 1 \in 1..Len(q)
                    BY <3>2, <5>1
                <5> QED BY <1>0, <5>2
            <4> QED BY <4>1, <4>2
        <3> QED BY <3>2, <3>3
    <2>4. c \in Name
        BY <2>2, <2>3
    <2>5. \A k \in 0..N : k = N \/ k \in 0..Len(q)
        BY <1>0, <2>1, <2>3
    <2>6. x \in [0..N -> Name] /\ \A k \in 0..N : x[k] = IF k = N THEN c ELSE w[k]
        BY <2>2, <2>4, <2>5
    <2> HIDE DEF x, c
    <2>7. x[0] = a /\ x[N] = c
        BY <2>1, <2>2, <2>6
    <2>8. ASSUME NEW k \in 1..N PROVE Turns(o, u, x[k - 1], r[k], x[k])
        <3>0. k \in 0..N /\ k - 1 \in 0..N /\ k - 1 # N
            BY <2>1
        <3>1. CASE k = N
            <4>1. x[k] = c /\ x[k - 1] = w[N - 1] /\ r[k].type = "EOF"
                BY <2>1, <2>6, <3>0, <3>1
            <4>2. x[k - 1] = c
                BY <4>1 DEF c
            <4>3. Of(o, r[k]) # u
                BY <4>1, NickAssumption DEF Of
            <4> QED BY <4>1, <4>2, <4>3 DEF Turns
        <3>2. CASE k # N
            <4>1. k \in 1..N - 1
                BY <2>1, <3>2
            <4>2. k \in 1..Len(q) /\ r[k] = q[k] /\ x[k] = w[k] /\ x[k - 1] = w[k - 1]
                BY <2>3, <2>6, <3>0, <3>2, <4>1
            <4> QED BY <2>2, <4>2
        <3> QED BY <3>1, <3>2
    <2>9. Trace(o, r, u, a, c)
        BY <2>a, <2>6, <2>7, <2>8 DEF Trace
    <2> QED BY <2>4, <2>9
<1> QED BY <1>1, <1>2

(* From here on each step is looked at from one end of a link at a time.   *)

(* The other end, t, has changed what it knows, of nobody on s's side.     *)
LEMMA PairIn ==
    ASSUME NEW o, NEW s \in Server, NEW t \in Neighbour(s), Pair(o, s, t),
           Alike(at[s], at'[s]), net'[s][t] = net[s][t],
           t \in links'[s] <=> t \in links[s], s \in links'[t] <=> s \in links[t],
           \A u \in Near(s, t) : NickOf(at'[t], u) = NickOf(at[t], u)
    PROVE  Pair(o, s, t)'
<1>0. Near(s, t) \subseteq User /\ Near(t, s) \subseteq User
    BY NearSides
<1>1. Directed(o, s, t)'
    BY DEF Pair, Directed
<1>2. Gone(s, t)'
    BY <1>0 DEF Pair, Gone, Alike
<1>3. Exact(o, s, t)'
    <2>1. ASSUME Reads(s, t)', NEW u \in Near(s, t)
          PROVE  \E b \in Name : /\ Trace(o, net'[s][t], u, NickOf(at'[t], u), b)
                                 /\ t \in links'[s] => b = NickOf(at'[s], u)
        <3>1. Reads(s, t)
            BY <2>1 DEF Reads
        <3>2. PICK b \in Name : /\ Trace(o, net[s][t], u, NickOf(at[t], u), b)
                                /\ t \in links[s] => b = NickOf(at[s], u)
            BY <3>1 DEF Pair, Exact
        <3>3. NickOf(at'[t], u) = NickOf(at[t], u) /\ NickOf(at'[s], u) = NickOf(at[s], u)
            BY <1>0 DEF Alike
        <3> QED BY <3>2, <3>3
    <2> QED BY <2>1 DEF Exact
<1> QED BY <1>1, <1>2, <1>3 DEF Pair

(* s knows somebody by another nick, and says so.                          *)
LEMMA PairOut ==
    ASSUME NEW o, NEW s \in Server, NEW t \in Neighbour(s), Pair(o, s, t), NEW L,
           net[s][t] \in Seq(L), NEW m \in L, About(o, m) \subseteq Near(s, t), m.type # "KILL",
           net'[s][t] = IF t \in links[s] THEN net[s][t] \o << m >> ELSE net[s][t],
           Greets(net'[s][t]) <=> Greets(net[s][t]),
           Alike(at[t], at'[t]), Tells(o, m, at[s], at'[s]), at'[s] \in View,
           t \in links'[s] <=> t \in links[s], s \in links'[t] <=> s \in links[t]
    PROVE  Pair(o, s, t)'
<1>0. Near(s, t) \intersect Near(t, s) = {} /\ Near(s, t) \subseteq User /\ Near(t, s) \subseteq User
    BY NearSides
<1>1. Directed(o, s, t)'
    <2>1. Within(o, net[s][t], Near(s, t))
        BY DEF Pair, Directed
    <2>2. Within(o, net[s][t] \o << m >>, Near(s, t))
        BY <2>1, WithinGrows
    <2> QED BY <2>1, <2>2 DEF Directed
<1>2. Gone(s, t)'
    <2>1. ASSUME NEW u \in Near(t, s) PROVE NickOf(at'[s], u) = NickOf(at[s], u)
        <3>1. u \in User /\ u \notin About(o, m)
            BY <1>0, <2>1
        <3>2. Turns(o, u, NickOf(at[s], u), m, NickOf(at'[s], u))
            BY <3>1 DEF Tells
        <3> QED BY <3>1, <3>2, AboutIs, SquitOf
    <2> QED BY <2>1 DEF Pair, Gone
<1>3. Exact(o, s, t)'
    <2>1. ASSUME Reads(s, t)', NEW u \in Near(s, t)
          PROVE  \E b \in Name : /\ Trace(o, net'[s][t], u, NickOf(at'[t], u), b)
                                 /\ t \in links'[s] => b = NickOf(at'[s], u)
        <3>1. Reads(s, t)
            BY <2>1 DEF Reads
        <3>2. PICK b \in Name : /\ Trace(o, net[s][t], u, NickOf(at[t], u), b)
                                /\ t \in links[s] => b = NickOf(at[s], u)
            BY <3>1 DEF Pair, Exact
        <3>3. NickOf(at'[t], u) = NickOf(at[t], u) /\ u \in User
            BY <1>0 DEF Alike
        <3>4. CASE t \in links[s]
            <4>1. Turns(o, u, b, m, NickOf(at'[s], u))
                BY <3>2, <3>3, <3>4 DEF Tells
            <4> DEFINE c == NickOf(at'[s], u)
            <4>2. c \in Name
                BY <3>3, NickOfName
            <4>3. Trace(o, net[s][t] \o << m >>, u, NickOf(at[t], u), c)
                <5> HIDE DEF c
                <5> QED BY <3>2, <4>1, <4>2, TraceGrows DEF c
            <4> QED BY <3>3, <3>4, <4>2, <4>3
        <3>5. CASE t \notin links[s]
            BY <3>2, <3>3, <3>5
        <3> QED BY <3>4, <3>5
    <2> QED BY <2>1 DEF Exact
<1> QED BY <1>1, <1>2, <1>3 DEF Pair

(* t has read the first line from s.                                       *)
LEMMA PairTaken ==
    ASSUME NEW o, NEW s \in Server, NEW t \in Neighbour(s), Pair(o, s, t), NEW L,
           net[s][t] \in Seq(L), net[s][t] # << >>, Framed(net[s][t]),
           net'[s][t] = Tail(net[s][t]), Alike(at[s], at'[s]),
           Tells(o, net[s][t][1], at[t], at'[t]),
           t \in links'[s] <=> t \in links[s],
           s \in links'[t] => Reads(s, t)
    PROVE  Pair(o, s, t)'
<1> DEFINE m == net[s][t][1]
<1>0. Near(s, t) \subseteq User /\ Near(t, s) \subseteq User
    BY NearSides
<1>1. Directed(o, s, t)'
    <2>1. Within(o, net[s][t], Near(s, t))
        BY DEF Pair, Directed
    <2>2. Within(o, Tail(net[s][t]), Near(s, t))
        BY <2>1, WithinShrinks
    <2> QED BY <2>2 DEF Directed
<1>b. ~Greets(net'[s][t])
    BY FrameShrinks
<1>2. Gone(s, t)'
    BY <1>0, <1>b DEF Pair, Gone, Alike
<1>3. Exact(o, s, t)'
    <2>1. ASSUME Reads(s, t)', NEW u \in Near(s, t)
          PROVE  \E b \in Name : /\ Trace(o, net'[s][t], u, NickOf(at'[t], u), b)
                                 /\ t \in links'[s] => b = NickOf(at'[s], u)
        <3>1. Reads(s, t)
            BY <1>b, <2>1 DEF Reads
        <3>2. PICK b \in Name : /\ Trace(o, net[s][t], u, NickOf(at[t], u), b)
                                /\ t \in links[s] => b = NickOf(at[s], u)
            BY <3>1 DEF Pair, Exact
        <3>3. NickOf(at'[s], u) = NickOf(at[s], u) /\ u \in User
            BY <1>0 DEF Alike
        <3>4. Turns(o, u, NickOf(at[t], u), m, NickOf(at'[t], u))
            BY <3>3 DEF Tells
        <3>5. PICK c \in Name : Turns(o, u, NickOf(at[t], u), m, c) /\ Trace(o, Tail(net[s][t]), u, c, b)
            BY <3>2, TraceShrinks
        <3> HIDE DEF m
        <3>6. c = NickOf(at'[t], u)
            BY <3>4, <3>5, TurnsOne
        <3> QED BY <3>2, <3>3, <3>5, <3>6
    <2> QED BY <2>1 DEF Exact
<1> QED BY <1>1, <1>2, <1>3 DEF Pair

(* The same step seen from t.                                              *)
LEMMA PairBack ==
    ASSUME NEW o, NEW s \in Server, NEW t \in Neighbour(s), Pair(o, t, s), Directed(o, s, t), NEW L,
           net[s][t] \in Seq(L), net[s][t] # << >>, s \in links[t], ~Greets(net[t][s]),
           net'[t][s] = net[t][s], Alike(at[s], at'[s]),
           Tells(o, net[s][t][1], at[t], at'[t]),
           t \in links'[s] <=> t \in links[s], s \in links'[t] <=> s \in links[t]
    PROVE  Pair(o, t, s)'
<1> DEFINE m == net[s][t][1]
<1>0. /\ Near(t, s) \intersect Near(s, t) = {} /\ Near(t, s) \subseteq User
      /\ About(o, m) \subseteq Near(s, t)
    <2>1. Near(t, s) \intersect Near(s, t) = {} /\ Near(t, s) \subseteq User
        BY NearSides
    <2>2. Within(o, net[s][t], Near(s, t))
        BY DEF Directed
    <2>3. About(o, m) \subseteq Near(s, t)
        BY <2>2, WithinShrinks
    <2> QED BY <2>1, <2>3
<1>1. Directed(o, t, s)' /\ Gone(t, s)'
    BY DEF Pair, Directed, Gone
<1>2. Exact(o, t, s)'
    <2>1. ASSUME Reads(t, s)', NEW u \in Near(t, s)
          PROVE  \E b \in Name : /\ Trace(o, net'[t][s], u, NickOf(at'[s], u), b)
                                 /\ s \in links'[t] => b = NickOf(at'[t], u)
        <3>1. Reads(t, s)
            BY <2>1 DEF Reads
        <3>2. PICK b \in Name : /\ Trace(o, net[t][s], u, NickOf(at[s], u), b)
                                /\ s \in links[t] => b = NickOf(at[t], u)
            BY <3>1 DEF Pair, Exact
        <3>3. NickOf(at'[s], u) = NickOf(at[s], u) /\ u \in User /\ u \notin About(o, m)
            BY <1>0 DEF Alike
        <3>4. Turns(o, u, NickOf(at[t], u), m, NickOf(at'[t], u))
            BY <3>3 DEF Tells
        <3> HIDE DEF m
        <3>5. NickOf(at'[t], u) = NickOf(at[t], u)
            BY <3>3, <3>4, AboutIs, SquitOf
        <3> QED BY <3>2, <3>3, <3>5
    <2> QED BY <2>1 DEF Exact
<1> QED BY <1>1, <1>2 DEF Pair

(* s gives up the link: what it has left of its lines may arrive.          *)
LEMMA PairCut ==
    ASSUME NEW o, NEW s \in Server, NEW t \in Neighbour(s), Pair(o, s, t), Pair(o, t, s),
           NEW left, GivesUp(s, t, left), links \in [Server -> SUBSET Server], NEW L,
           net[s][t] \in Seq(L), left \in Seq(L),
           \A u \in Near(t, s) : NickOf(at'[s], u) = NoNick, Alike(at[t], at'[t])
    PROVE  Pair(o, s, t)' /\ Pair(o, t, s)'
<1>0. /\ t \in Server /\ s # t /\ t \notin links'[s] /\ Near(s, t) \subseteq User /\ Near(t, s) \subseteq User
      /\ s \in links'[t] <=> s \in links[t]
      /\ net'[t][s] = << >> /\ net'[s][t] = left /\ Left(left, net[s][t])
    <2>1. t \in Server /\ s # t
        BY Neighbours
    <2>2. Near(s, t) \subseteq User /\ Near(t, s) \subseteq User
        BY NearSides
    <2>3. /\ links' = [links EXCEPT ![s] = links[s] \ {t}]
          /\ net'[t][s] = << >> /\ net'[s][t] = left /\ Left(left, net[s][t])
        BY DEF GivesUp
    <2>4. t \notin links'[s] /\ links'[t] = links[t]
        BY <2>1, <2>3
    <2> QED BY <2>1, <2>2, <2>3, <2>4
<1>1. Within(o, left, Near(s, t))
    <2>1. \A n \in 1..Len(left) :
             left[n].type = "EOF" \/ (n \in 1..Len(net[s][t]) /\ left[n] = net[s][t][n])
        BY <1>0 DEF Left
    <2>2. \A m : m.type = "EOF" => About(o, m) = {} /\ m.type # "KILL"
        BY NickAssumption DEF About, Of
    <2>3. Within(o, net[s][t], Near(s, t))
        BY DEF Pair, Directed
    <2> QED BY <2>1, <2>2, <2>3 DEF Within
<1>2. ~Greets(<< >>)
    BY DEF Greets
<1>3. Pair(o, s, t)'
    <2>1. Directed(o, s, t)'
        BY <1>0, <1>1 DEF Directed
    <2>2. Gone(s, t)'
        BY DEF Gone
    <2>3. Exact(o, s, t)'
        <3>1. ASSUME Reads(s, t)', NEW u \in Near(s, t)
              PROVE  \E b \in Name : Trace(o, net'[s][t], u, NickOf(at'[t], u), b)
            <4>1. Reads(s, t)
                <5>1. Greets(left) => Greets(net[s][t])
                    BY <1>2 DEF GivesUp, Left
                <5> QED BY <1>0, <3>1, <5>1 DEF Reads
            <4>2. PICK b \in Name : Trace(o, net[s][t], u, NickOf(at[t], u), b)
                BY <4>1 DEF Pair, Exact
            <4>3. u \in User /\ NickOf(at'[t], u) = NickOf(at[t], u)
                BY <1>0 DEF Alike
            <4>4. \E c \in Name : Trace(o, left, u, NickOf(at[t], u), c)
                BY <1>0, <4>2, <4>3, TraceCut
            <4> QED BY <1>0, <4>3, <4>4
        <3> QED BY <1>0, <3>1 DEF Exact
    <2> QED BY <2>1, <2>2, <2>3 DEF Pair
<1>4. Pair(o, t, s)'
    <2>1. Directed(o, t, s)'
        BY <1>0, WithinEmpty DEF Directed
    <2>2. Gone(t, s)'
        BY <1>0, <1>2 DEF Gone, Pair, Alike
    <2>3. ~Reads(t, s)'
        BY <1>0, <1>2 DEF Reads
    <2>4. Exact(o, t, s)'
        BY <2>3 DEF Exact
    <2> QED BY <2>1, <2>2, <2>4 DEF Pair
<1> QED BY <1>3, <1>4

(* A burst names everybody once: it makes its reader know whom the sender  *)
(* knows.                                                                  *)
LEMMA BurstNames ==
    ASSUME NEW v \in View, NEW lines \in BurstLines(v)
    PROVE  /\ \A k \in 1..Len(lines) : \E x \in User :
                lines[k] = NickLine(x, v.client[x]) /\ v.client[x].known
           /\ \A x \in User : v.client[x].known =>
                \E k \in 1..Len(lines) : lines[k] = NickLine(x, v.client[x])
           /\ \A j, k \in 1..Len(lines) : lines[j] = lines[k] => j = k
           /\ Len(lines) \in Nat
<1> DEFINE K == {u \in User : v.client[u].known}
           line(u) == NickLine(u, v.client[u])
           B == {line(u) : u \in K}
           N == Cardinality(B)
<1>1. lines \in [1..N -> B] /\ \A i, j \in 1..N : i # j => lines[i] # lines[j]
    BY DEF BurstLines, SetToSeqs
<1>2. IsFiniteSet(B)
    <2> DEFINE f == [u \in K |-> line(u)]
    <2>1. IsFiniteSet(K)
        BY NickAssumption, FS_Subset
    <2>2. f \in Surjection(K, B)
        BY DEF Surjection
    <2> QED BY <2>1, <2>2, FS_Surjection
<1>3. N \in Nat
    BY <1>2, FS_CardinalityType
<1>4. lines \in Seq(B) /\ Len(lines) = N
    BY <1>1, <1>3, SeqDef
<1>b. (\A x \in B : \E u \in K : x = line(u)) /\ \A u \in K : line(u) \in B
    OBVIOUS
<1> HIDE DEF B, N
<1>5. \A x \in B : \E k \in 1..N : lines[k] = x
    <2>1. DOMAIN lines = 1..N
        BY <1>1
    <2>2. lines \in Injection(1..N, B)
        BY <1>1, <2>1 DEF Injection, IsInjective
    <2>3. Cardinality(1..N) = N
        <3>1. 1 \in Int /\ N \in Int /\ (IF 1 > N THEN 0 ELSE N - 1 + 1) = N
            BY <1>3
        <3> QED BY <3>1, FS_Interval
    <2>4. lines \in Surjection(1..N, B)
        BY <1>2, <2>2, <2>3, FS_Injection DEF N
    <2> QED BY <2>4 DEF Surjection
<1>6. \A k \in 1..N : lines[k] \in B
    BY <1>1
<1>7. \A k \in 1..N : \E x \in User : lines[k] = line(x) /\ v.client[x].known
    BY <1>6, <1>b
<1>8. \A x \in User : v.client[x].known => \E k \in 1..N : lines[k] = line(x)
    BY <1>5, <1>b
<1> QED BY <1>1, <1>3, <1>4, <1>7, <1>8

LEMMA NickLineIs ==
    ASSUME NEW o, NEW x \in User, NEW c, NEW m, m = NickLine(x, c)
    PROVE  /\ m.type = "NICK" /\ m.user = x /\ Of(o, m) = x /\ From(m) = NoNick /\ To(m) = c.nick
           /\ About(o, m) = {x}
BY DEF NickLine, Of, From, To, About

LEMMA BurstTrace ==
    ASSUME NEW o, NEW v \in View, NEW lines \in BurstLines(v), NEW u \in User
    PROVE  Trace(o, lines, u, NoNick, NickOf(v, u))
<1> DEFINE N == Len(lines)
           mine == NickLine(u, v.client[u])
           c == NickOf(v, u)
           w == [k \in 0..N |-> IF \E j \in 1..k : lines[j].user = u THEN c ELSE NoNick]
<1>1. /\ N \in Nat
      /\ \A k \in 1..N : \E x \in User : lines[k] = NickLine(x, v.client[x]) /\ v.client[x].known
      /\ \A x \in User : v.client[x].known => \E k \in 1..N : lines[k] = NickLine(x, v.client[x])
      /\ \A j, k \in 1..N : lines[j] = lines[k] => j = k
    BY BurstNames
<1>2. c \in Name /\ NoNick \in Name
    BY NickOfName DEF Name
<1>3. w \in [0..N -> Name] /\ \A k \in 0..N : w[k] = IF \E j \in 1..k : lines[j].user = u THEN c ELSE NoNick
    BY <1>2
<1>4. ASSUME NEW k \in 1..N
      PROVE  /\ Of(o, lines[k]) = lines[k].user /\ From(lines[k]) = NoNick /\ lines[k].type = "NICK"
             /\ lines[k].user = u => lines[k] = mine /\ v.client[u].known /\ To(lines[k]) = c
    <2>1. PICK x \in User : lines[k] = NickLine(x, v.client[x]) /\ v.client[x].known
        BY <1>1
    <2>2. /\ lines[k].type = "NICK" /\ lines[k].user = x /\ Of(o, lines[k]) = x
          /\ From(lines[k]) = NoNick /\ To(lines[k]) = v.client[x].nick
        BY <2>1 DEF NickLine, Of, From, To
    <2> QED BY <2>1, <2>2 DEF NickOf
<1> HIDE DEF w, mine, N, c
<1>5. w[0] = NoNick
    <2>1. 0 \in 0..N /\ 1..0 = {}
        BY <1>1
    <2> QED BY <1>3, <2>1
<1>6. w[N] = c
    <2>0. N \in 0..N
        BY <1>1
    <2>1. CASE v.client[u].known
        <3>1. PICK k \in 1..N : lines[k] = mine
            BY <1>1, <2>1 DEF mine
        <3>2. lines[k].user = u
            BY <3>1 DEF mine, NickLine
        <3> QED BY <1>3, <2>0, <3>2
    <2>2. CASE ~v.client[u].known
        <3>1. c = NoNick
            BY <2>2 DEF c, NickOf
        <3> QED BY <1>3, <2>0, <3>1
    <2> QED BY <2>1, <2>2
<1>7. ASSUME NEW k \in 1..N PROVE Turns(o, u, w[k - 1], lines[k], w[k])
    <2>0. /\ k \in 0..N /\ k - 1 \in 0..N /\ k \in 1..k
          /\ \A j \in 1..k - 1 : j \in 1..k /\ j \in 1..N /\ j # k
          /\ \A j \in 1..k : j = k \/ j \in 1..k - 1
        BY <1>1
    <2>1. CASE lines[k].user = u
        <3>1. \A j \in 1..k - 1 : lines[j].user # u
            BY <1>1, <1>4, <2>0, <2>1
        <3>2. w[k - 1] = NoNick /\ w[k] = c
            BY <1>3, <2>0, <2>1, <3>1
        <3> QED BY <1>4, <2>1, <3>2 DEF Turns
    <2>2. CASE lines[k].user # u
        <3>1. (\E j \in 1..k : lines[j].user = u) <=> (\E j \in 1..k - 1 : lines[j].user = u)
            BY <2>0, <2>2
        <3>2. w[k] = w[k - 1]
            BY <1>3, <2>0, <3>1
        <3> QED BY <1>4, <2>2, <3>2 DEF Turns
    <2> QED BY <2>1, <2>2
<1>8. Trace(o, lines, u, NoNick, c)
    BY <1>3, <1>5, <1>6, <1>7 DEF Trace, N
<1> QED BY <1>8 DEF c

(* It is about nobody else.                                                *)
LEMMA BurstWithin ==
    ASSUME NEW o, NEW v \in View, \A u \in User : v.client[u].known => v.client[u].nick \in Nick,
           NEW lines \in BurstLines(v), NEW S, \A u \in User : NickOf(v, u) # NoNick => u \in S
    PROVE  Within(o, lines, S)
<1>1. ASSUME NEW k \in 1..Len(lines) PROVE About(o, lines[k]) \subseteq S /\ lines[k].type # "KILL"
    <2>1. PICK x \in User : lines[k] = NickLine(x, v.client[x]) /\ v.client[x].known
        BY BurstNames
    <2>2. lines[k].type = "NICK" /\ About(o, lines[k]) = {x}
        BY <2>1, NickLineIs
    <2>3. x \in S
        BY <2>1, NickAssumption DEF NickOf
    <2> QED BY <2>2, <2>3
<1> QED BY <1>1 DEF Within

LEMMA BurstPlain ==
    ASSUME NEW lines \in Seq(Message)
    PROVE  lines \in Seq(Line) /\ Plain(lines) /\ ~Greets(lines)
<1>1. lines \in Seq(Line) /\ Plain(lines)
    BY LinesPlain DEF Line
<1>2. lines # << >> => 1 \in 1..Len(lines)
    BY EmptySeq
<1> QED BY <1>1, <1>2 DEF Plain, Greets

(* s greets.                                                               *)
LEMMA PairGreets ==
    ASSUME NEW o, NEW s \in Server, NEW t \in Neighbour(s), Pair(o, s, t), Pair(o, t, s),
           t \notin links[s], s \notin links[t], s \notin links'[t], NEW lines \in Seq(Message),
           net'[s][t] = << [type |-> "SERVER"] >> \o lines, net'[t][s] = net[t][s],
           lines \in BurstLines(at[s]), at[s] \in View, at[t] \in View,
           \A u \in User : at[s].client[u].known => at[s].client[u].nick \in Nick,
           at' = at, net[t][s] = << >>
    PROVE  Pair(o, s, t)' /\ Pair(o, t, s)'
<1>0. /\ Near(s, t) \subseteq User /\ Near(t, s) \subseteq User
      /\ Near(s, t) \union Near(t, s) = User /\ t \in Server
    BY NearSides
<1>1. /\ \A u \in Near(t, s) : NickOf(at[s], u) = NoNick
      /\ \A u \in Near(s, t) : NickOf(at[t], u) = NoNick
    BY DEF Pair, Gone
<1>2. \A u \in User : NickOf(at[s], u) # NoNick => u \in Near(s, t)
    BY <1>0, <1>1
<1>3. Within(o, lines, Near(s, t)) /\ lines \in Seq(Line) /\ Plain(lines)
    BY <1>2, BurstWithin, BurstPlain
<1> DEFINE first == [type |-> "SERVER"]
           one == << first >>
           q == one \o lines
<1>4. /\ Greets(q) /\ Len(q) = Len(lines) + 1 /\ Len(lines) \in Nat
      /\ \A n \in 1..Len(q) : q[n] = IF n = 1 THEN first ELSE lines[n - 1]
    BY <1>3, FrameStarts
<1>a. first \in Line /\ first.type # "KILL" /\ first.type # "SQUIT" /\ Of(o, first) = Nobody
    BY DEF Line, LinkMessage, Of
<1>b. one \in Seq(Line) /\ one = << first >>
    BY <1>a
<1>5. About(o, first) = {} /\ \A u \in User : Of(o, first) # u
    BY <1>a, NickAssumption DEF About
<1>6. net'[s][t] = q /\ q = one \o lines
    OBVIOUS
<1> HIDE DEF first, q, one
<1>7. Directed(o, s, t)'
    <2>1. ASSUME NEW n \in 1..Len(q), n # 1 PROVE About(o, q[n]) \subseteq Near(s, t) /\ q[n].type # "KILL"
        <3>1. n - 1 \in 1..Len(lines)
            BY <1>4, <2>1
        <3> QED BY <1>3, <1>4, <2>1, <3>1 DEF Within
    <2>2. 1 \in 1..Len(q) => About(o, q[1]) \subseteq Near(s, t) /\ q[1].type # "KILL"
        BY <1>4, <1>5, <1>a
    <2> QED BY <1>6, <2>1, <2>2 DEF Directed, Within
<1>8. Gone(s, t)' /\ Directed(o, t, s)' /\ Gone(t, s)'
    BY <1>1, <1>6 DEF Gone, Directed, Pair
<1>9. ASSUME NEW u \in Near(s, t)
      PROVE  Trace(o, q, u, NickOf(at[t], u), NickOf(at[s], u))
    <2>1. NickOf(at[t], u) = NoNick /\ u \in User /\ NoNick \in Name
        BY <1>0, <1>1 DEF Name
    <2>2. Trace(o, lines, u, NoNick, NickOf(at[s], u))
        BY <2>1, BurstTrace
    <2>3. Turns(o, u, NoNick, first, NoNick)
        BY <1>5, <1>a, <2>1 DEF Turns
    <2>4. Trace(o, one, u, NoNick, NoNick)
        BY <1>b, <2>1, <2>3, TraceOne
    <2>5. Trace(o, one \o lines, u, NoNick, NickOf(at[s], u))
        BY <1>3, <1>b, <2>2, <2>4, TraceJoins
    <2> QED BY <1>6, <2>1, <2>5
<1>10. Exact(o, s, t)'
    <2>1. \A u \in Near(s, t) : NickOf(at[s], u) \in Name
        BY <1>0, NickOfName
    <2> QED BY <1>6, <1>9, <2>1 DEF Exact
<1>11. Exact(o, t, s)'
    <2>1. ASSUME NEW u \in Near(t, s)
          PROVE  Trace(o, net'[t][s], u, NickOf(at'[s], u), NoNick) /\ NoNick \in Name
        <3>1. NickOf(at[s], u) = NoNick /\ NoNick \in Name /\ net'[t][s] = << >>
            BY <1>1 DEF Name
        <3>2. Trace(o, << >>, u, NoNick, NoNick)
            BY <3>1, TraceEmpty
        <3> QED BY <3>1, <3>2
    <2> QED BY <2>1 DEF Exact
<1> QED BY <1>7, <1>8, <1>10, <1>11 DEF Pair

(* t answers the greeting of s.                                            *)
LEMMA PairAnswers ==
    ASSUME NEW o, NEW s \in Server, NEW t \in Neighbour(s), Pair(o, s, t), Pair(o, t, s),
           s \notin links[t], Greets(net[s][t]), NEW lines \in Seq(Message),
           net'[t][s] = lines, lines \in BurstLines(at[t]), at[s] \in View, at[t] \in View,
           \A u \in User : at[t].client[u].known => at[t].client[u].nick \in Nick,
           at' = at, s \in links'[t],
           (t \in links'[s] <=> t \in links[s])
    PROVE  Pair(o, t, s)'
<1>0. /\ Near(s, t) \subseteq User /\ Near(t, s) \subseteq User
      /\ Near(s, t) \union Near(t, s) = User /\ t \in Server
    BY NearSides
<1>1. /\ \A u \in Near(t, s) : NickOf(at[s], u) = NoNick
      /\ \A u \in Near(s, t) : NickOf(at[t], u) = NoNick
    BY DEF Pair, Gone
<1>2. \A u \in User : NickOf(at[t], u) # NoNick => u \in Near(t, s)
    BY <1>0, <1>1
<1>3. Within(o, lines, Near(t, s)) /\ ~Greets(lines)
    BY <1>0, <1>2, BurstWithin, BurstPlain
<1>5. Directed(o, t, s)' /\ Gone(t, s)'
    BY <1>3 DEF Directed, Gone
<1>6. ASSUME NEW u \in Near(t, s)
      PROVE  Trace(o, net'[t][s], u, NickOf(at'[s], u), NickOf(at'[t], u)) /\ NickOf(at'[t], u) \in Name
    <2>1. NickOf(at[s], u) = NoNick /\ u \in User
        BY <1>0, <1>1
    <2>2. Trace(o, lines, u, NoNick, NickOf(at[t], u)) /\ NickOf(at[t], u) \in Name
        BY <1>0, <2>1, BurstTrace, NickOfName
    <2> QED BY <2>1, <2>2
<1>7. Exact(o, t, s)'
    BY <1>6 DEF Exact
<1> QED BY <1>5, <1>7 DEF Pair

-----------------------------------------------------------------------------
(* The steps, as far as it matters who is known by which nick.             *)
Framework ==
    /\ LinksTypeOK(Message) /\ LinksOK /\ LinksOK'
    /\ at \in [Server -> View] /\ at' \in [Server -> View]

LEMMA FrameworkIs ==
    ASSUME Framework
    PROVE  /\ net \in Queues(Message) /\ links \in [Server -> SUBSET Server]
           /\ LinksTypeOK(Message) /\ LinksOK /\ LinksOK'
           /\ \A x, y \in Server : net[x][y] \in Seq(Line)
           /\ \A x \in Server : at[x] \in View /\ at'[x] \in View
BY DEF Framework, LinksTypeOK, Queues, Line

LEMMA AlikeSame == \A v : Alike(v, v)
BY DEF Alike

(* A step that touches neither end of a link keeps what is said of it.     *)
LEMMA PairSame ==
    ASSUME NEW o, NEW s \in Server, NEW t \in Neighbour(s), Pair(o, s, t),
           Alike(at[s], at'[s]), Alike(at[t], at'[t]),
           net'[s][t] = net[s][t], t \in links'[s] <=> t \in links[s], s \in links'[t] <=> s \in links[t]
    PROVE  Pair(o, s, t)'
<1>1. \A u \in Near(s, t) : NickOf(at'[t], u) = NickOf(at[t], u)
    BY NearSides DEF Alike
<1> QED BY <1>1, PairIn

LEMMA QuietPairs ==
    ASSUME NEW o, PairsOK(o), \A x \in Server : Alike(at[x], at'[x]), net' = net, links' = links
    PROVE  PairsOK(o)'
<1>1. ASSUME NEW x \in Server, NEW y \in Neighbour(x) PROVE Pair(o, x, y)'
    <2>1. y \in Server /\ Pair(o, x, y)
        BY Neighbours DEF PairsOK
    <2> QED BY <2>1, PairSame
<1> QED BY <1>1 DEF PairsOK

(* A user of s has done something, and s tells its neighbours.             *)
Speaks(o, s, m) ==
    /\ s \in Server /\ m \in Message /\ m.type # "KILL" /\ About(o, m) \subseteq UsersOf({s})
    /\ Tells(o, m, at[s], at'[s])
    /\ \A x \in Server : x # s => Alike(at[x], at'[x])
    /\ net' = Sent(s, {}, << m >>) /\ links' = links

(* t has read a line m from s, and passes it on as n.                      *)
Passes(o, s, t, m, n) ==
    /\ s \in Server /\ t \in Server /\ n \in Line /\ m = Head(net[s][t])
    /\ Arrives(s, t, m.type) /\ m.type \notin {"SERVER", "EOF"}
    /\ n.type = m.type /\ About(o, n) = About(o, m)
    /\ Tells(o, m, at[t], at'[t]) /\ Tells(o, n, at[t], at'[t])
    /\ \A x \in Server : x # t => Alike(at[x], at'[x])
    /\ net' = Taken(s, t, << n >>) /\ links' = links

(* Whom a line of a queue is not about it leaves alone.                    *)
LEMMA TellsNot ==
    ASSUME NEW o, NEW m, NEW v, NEW w, Tells(o, m, v, w), NEW u \in User, u \notin About(o, m)
    PROVE  NickOf(w, u) = NickOf(v, u)
<1>1. Turns(o, u, NickOf(v, u), m, NickOf(w, u))
    BY DEF Tells
<1> QED BY <1>1, AboutIs, SquitOf

(* One line at the end of a queue over a link that is up.                  *)
LEMMA GreetsStays ==
    ASSUME LinksOK, NEW x \in Server, NEW y \in Neighbour(x), net[x][y] \in Seq(Line),
           NEW m \in Line, m.type \notin {"SERVER", "EOF"},
           net'[x][y] = IF y \in links[x] THEN net[x][y] \o << m >> ELSE net[x][y]
    PROVE  Greets(net'[x][y]) <=> Greets(net[x][y])
<1> DEFINE one == << m >>
<1>1. one \in Seq(Line) /\ Plain(one) /\ one = << m >>
    <2>1. Len(one) = 1 /\ one[1] = m /\ \A n \in 1..1 : n = 1
        OBVIOUS
    <2> QED BY <2>1 DEF Plain
<1>2. y \in links[x] => ~Ends(net[x][y]) /\ Framed(net[x][y])
    BY DEF LinksOK, LinkOK
<1> HIDE DEF one
<1>3. y \in links[x] => (Greets(net[x][y] \o one) <=> Greets(net[x][y]))
    BY <1>1, <1>2, FrameGrows
<1> QED BY <1>1, <1>3

(* A command of a local user keeps both ends of every link in step, ...    *)
LEMMA SpeaksOK ==
    ASSUME NEW o, PairsOK(o), Framework, NEW s, NEW m, Speaks(o, s, m)
    PROVE  PairsOK(o)'
<1>0. /\ s \in Server /\ m \in Message /\ m \in Line /\ links' = links /\ m.type # "KILL"
      /\ m.type \notin {"SERVER", "EOF"} /\ About(o, m) \subseteq UsersOf({s})
      /\ Tells(o, m, at[s], at'[s]) /\ \A x \in Server : x # s => Alike(at[x], at'[x])
    <2>1. s \in Server /\ m \in Message
        BY DEF Speaks
    <2>2. m.type \notin {"SERVER", "EOF"} /\ m \in Line
        BY <2>1 DEF Message, Line
    <2> QED BY <2>1, <2>2 DEF Speaks
<1>1. /\ net \in Queues(Message) /\ LinksOK /\ \A x, y \in Server : net[x][y] \in Seq(Line)
      /\ \A x \in Server : at[x] \in View /\ at'[x] \in View
    BY FrameworkIs
<1>2. \A x, y \in Server :
        net'[x][y] = IF x = s /\ y \in links[x] THEN net[x][y] \o << m >> ELSE net[x][y]
    <2>1. \A x, y \in Server :
            Sent(s, {}, << m >>)[x][y] =
                IF x = s /\ y \in links[s] THEN net[x][y] \o << m >> ELSE net[x][y]
        BY <1>0, <1>1, SentAll
    <2> QED BY <2>1 DEF Speaks
<1>6. ASSUME NEW x \in Server, NEW y \in Neighbour(x) PROVE Pair(o, x, y)'
    <2>0. /\ y \in Server /\ x # y /\ Pair(o, x, y) /\ Near(x, y) \subseteq User
          /\ Near(x, y) \intersect Near(y, x) = {}
          /\ UsersOf({x}) \subseteq Near(x, y) /\ UsersOf({y}) \subseteq Near(y, x)
        <3>1. y \in Server /\ x # y /\ x \in Neighbour(y)
            BY Neighbours
        <3> QED BY <3>1, NearSides DEF PairsOK
    <2>1. CASE x = s
        <3>2. net'[x][y] = IF y \in links[x] THEN net[x][y] \o << m >> ELSE net[x][y]
            BY <1>2, <2>0, <2>1
        <3>3. About(o, m) \subseteq Near(x, y)
            BY <1>0, <2>0, <2>1
        <3>6. net[x][y] \in Seq(Line)
            BY <1>1, <2>0
        <3>5. Greets(net'[x][y]) <=> Greets(net[x][y])
            BY <1>0, <1>1, <3>2, <3>6, GreetsStays
        <3>7. Alike(at[y], at'[y]) /\ Tells(o, m, at[x], at'[x]) /\ at'[x] \in View
            BY <1>0, <1>1, <2>0, <2>1
        <3> QED BY <1>0, <2>0, <3>2, <3>3, <3>5, <3>6, <3>7, PairOut
    <2>2. CASE y = s
        <3>1. net'[x][y] = net[x][y] /\ Alike(at[x], at'[x])
            BY <1>0, <1>2, <2>0, <2>2
        <3>2. ASSUME NEW u \in Near(x, y) PROVE NickOf(at'[y], u) = NickOf(at[y], u)
            <4>1. u \in User /\ u \notin About(o, m)
                BY <1>0, <2>0, <2>2
            <4> QED BY <1>0, <2>2, <4>1, TellsNot
        <3> QED BY <1>0, <2>0, <3>1, <3>2, PairIn
    <2>3. CASE x # s /\ y # s
        <3>1. net'[x][y] = net[x][y] /\ Alike(at[x], at'[x]) /\ Alike(at[y], at'[y])
            BY <1>0, <1>2, <2>0, <2>3
        <3> QED BY <1>0, <2>0, <3>1, PairSame
    <2> QED BY <2>1, <2>2, <2>3
<1> QED BY <1>6 DEF PairsOK

(* ... and so does a line from a neighbour.                                *)
LEMMA PassesOK ==
    ASSUME NEW o, PairsOK(o), Framework, NEW s, NEW t, NEW m, NEW n, Passes(o, s, t, m, n)
    PROVE  PairsOK(o)'
<1>0. /\ s \in Server /\ t \in Server /\ links' = links /\ n \in Line /\ n.type = m.type
      /\ m.type \notin {"SERVER", "EOF"} /\ Arrives(s, t, m.type) /\ m = Head(net[s][t])
      /\ About(o, n) = About(o, m)
      /\ Tells(o, m, at[t], at'[t]) /\ Tells(o, n, at[t], at'[t])
      /\ \A x \in Server : x # t => Alike(at[x], at'[x])
    BY DEF Passes
<1>1. /\ net \in Queues(Message) /\ LinksOK /\ LinksTypeOK(Message)
      /\ \A x, y \in Server : net[x][y] \in Seq(Line)
      /\ \A x \in Server : at[x] \in View /\ at'[x] \in View
    BY FrameworkIs
<1>2. /\ s \in Neighbour(t) /\ t \in Neighbour(s) /\ s # t
      /\ net[s][t] \in Seq(Line) /\ net[s][t] # << >>
      /\ m = net[s][t][1] /\ LinkOK(s, t) /\ LinkOK(t, s) /\ s \in links[t]
    <2>1. s \in links[t]
        BY <1>0 DEF Arrives
    <2>2. /\ s \in Neighbour(t) /\ t \in Neighbour(s) /\ s # t
          /\ net[s][t] # << >>
          /\ Head(net[s][t]) = net[s][t][1] /\ LinkOK(s, t) /\ LinkOK(t, s)
        BY <1>0, <1>1, ArrivesFirst
    <2> QED BY <1>0, <1>1, <2>1, <2>2
<1>3. /\ About(o, m) \subseteq Near(s, t) /\ m.type # "KILL" /\ Near(s, t) \subseteq User
      /\ Directed(o, s, t) /\ Pair(o, s, t) /\ Pair(o, t, s)
    <2>1. Pair(o, s, t) /\ Pair(o, t, s)
        BY <1>0, <1>2 DEF PairsOK
    <2>2. Directed(o, s, t)
        BY <2>1 DEF Pair
    <2>3. About(o, m) \subseteq Near(s, t) /\ m.type # "KILL"
        BY <1>2, <2>2, WithinShrinks DEF Directed
    <2> QED BY <1>0, <1>2, <2>1, <2>2, <2>3, NearSides
<1> DEFINE one == << n >>
<1>4. \A x, y \in Server :
            net'[x][y] = IF x = s /\ y = t THEN Tail(net[s][t])
                         ELSE IF x = t /\ y = s THEN net[t][s]
                         ELSE IF x = t /\ y \in links[t] THEN net[x][y] \o << n >>
                         ELSE net[x][y]
    <2>1. net' = Taken(s, t, one)
        BY DEF Passes
    <2>2. one = << n >>
        OBVIOUS
    <2> HIDE DEF one
    <2>3. \A x, y \in Server :
               Taken(s, t, one)[x][y] =
                   IF x = s /\ y = t THEN Tail(net[s][t])
                   ELSE IF x = t /\ y = s THEN net[t][s]
                   ELSE IF x = t /\ y \in links[t] THEN net[x][y] \o one
                   ELSE net[x][y]
        BY <1>0, <1>1, <1>2, TakenIs
    <2> QED BY <2>1, <2>2, <2>3
<1>6. Pair(o, s, t)' /\ Pair(o, t, s)'
    <2>1. net'[s][t] = Tail(net[s][t]) /\ net'[t][s] = net[t][s]
        BY <1>0, <1>2, <1>4
    <2>2. Framed(net[s][t]) /\ ~Greets(net[t][s])
        BY <1>2 DEF LinkOK
    <2>3. Alike(at[s], at'[s]) /\ Tells(o, net[s][t][1], at[t], at'[t])
        BY <1>0, <1>2
    <2>4. s \in links'[t] => Reads(s, t)
        BY <1>2 DEF Reads
    <2>5. Pair(o, s, t)'
        BY <1>0, <1>2, <1>3, <2>1, <2>2, <2>3, <2>4, PairTaken
    <2>6. Pair(o, t, s)'
        BY <1>0, <1>2, <1>3, <2>1, <2>2, <2>3, PairBack
    <2> QED BY <2>5, <2>6
<1>7. ASSUME NEW x \in Server, NEW y \in Neighbour(x) PROVE Pair(o, x, y)'
    <2>0. y \in Server /\ x # y /\ Pair(o, x, y) /\ x \in Neighbour(y) /\ Near(x, y) \subseteq User
        BY Neighbours, NearSides DEF PairsOK
    <2>1. CASE (x = s /\ y = t) \/ (x = t /\ y = s)
        BY <1>6, <2>1
    <2>2. CASE x = t /\ y # s
        <3>1. Alike(at[y], at'[y]) /\ at'[x] \in View /\ Tells(o, n, at[x], at'[x])
            BY <1>0, <1>1, <2>0, <2>2
        <3>2. net'[x][y] = IF y \in links[x] THEN net[x][y] \o << n >> ELSE net[x][y]
            BY <1>4, <2>0, <2>2
        <3>3. About(o, n) \subseteq Near(x, y) /\ n.type # "KILL"
            <4>1. Near(s, t) \subseteq Near(t, y)
                BY <1>0, <1>2, <2>0, <2>2, NearIs
            <4> QED BY <1>0, <1>3, <2>2, <4>1
        <3>4. net[x][y] \in Seq(Line)
            BY <1>1, <2>0
        <3>5. Greets(net'[x][y]) <=> Greets(net[x][y])
            BY <1>0, <1>1, <3>2, <3>4, GreetsStays
        <3> QED BY <1>0, <2>0, <3>1, <3>2, <3>3, <3>4, <3>5, PairOut
    <2>3. CASE y = t /\ x # s
        <3>1. net'[x][y] = net[x][y] /\ Alike(at[x], at'[x])
            BY <1>0, <1>4, <2>0, <2>3
        <3>2. Near(s, t) \intersect Near(x, y) = {}
            <4>1. Near(s, t) \intersect Near(x, t) = {}
                BY <1>0, <1>2, <2>0, <2>3, NearIs
            <4> QED BY <2>3, <4>1
        <3>3. ASSUME NEW u \in Near(x, y) PROVE NickOf(at'[y], u) = NickOf(at[y], u)
            <4>1. u \in User /\ u \notin About(o, m)
                BY <1>3, <2>0, <3>2
            <4> QED BY <1>0, <2>3, <4>1, TellsNot
        <3> QED BY <1>0, <2>0, <3>1, <3>3, PairIn
    <2>4. CASE x # t /\ y # t
        <3>1. net'[x][y] = net[x][y] /\ Alike(at[x], at'[x]) /\ Alike(at[y], at'[y])
            BY <1>0, <1>4, <2>0, <2>4
        <3> QED BY <1>0, <2>0, <3>1, PairSame
    <2> QED BY <2>0, <2>1, <2>2, <2>3, <2>4
<1> QED BY <1>7 DEF PairsOK

(* Whom Exit leaves.                                                       *)
LEMMA ExitAll ==
    ASSUME NEW v, NEW S
    PROVE  \A u \in User : NickOf(Exit(v, S), u) = IF u \in S THEN NoNick ELSE NickOf(v, u)
BY DEF Exit, NickOf, Absent

(* Whom a SQUIT is about.                                                  *)
LEMMA SquitTells ==
    ASSUME NEW o, NEW m, m.type = "SQUIT", NEW v, NEW w,
           \A u \in User : NickOf(w, u) = IF u \in UsersOf(m.lost) THEN NoNick ELSE NickOf(v, u)
    PROVE  Tells(o, m, v, w) /\ About(o, m) = UsersOf(m.lost)
<1>1. \A u \in User : Of(o, m) # u /\ (u \in UsersOf(m.lost) <=> home[u] \in m.lost)
    BY SquitOf DEF UsersOf
<1> QED BY <1>1 DEF Tells, Turns, About

(* Who loses a link forgets what was behind it, and tells the others.      *)
LEMMA GivesUpPairs ==
    ASSUME NEW o, PairsOK(o), Framework, NEW s, NEW t, NEW left, GivesUp(s, t, left), left \in Seq(Line),
           \A u \in User : NickOf(at'[s], u) = IF u \in Near(t, s) THEN NoNick ELSE NickOf(at[s], u),
           \A x \in Server : x # s => Alike(at[x], at'[x])
    PROVE  PairsOK(o)'
<1> DEFINE m == [type |-> "SQUIT", lost |-> Behind(s, t)]
<1>0. /\ s \in Server /\ t \in Neighbour(s) /\ t \in Server /\ s # t /\ t \in links[s]
      /\ links \in [Server -> SUBSET Server]
      /\ Near(t, s) \subseteq User /\ s \in Neighbour(t)
    <2>1. s \in Server /\ t \in Neighbour(s) /\ t \in links[s]
        BY DEF GivesUp
    <2>2. t \in Server /\ s # t /\ Near(t, s) \subseteq User
        BY <2>1, NearSides
    <2> QED BY <2>1, <2>2, Neighbours, FrameworkIs
<1>1. m \in Line /\ m.type = "SQUIT" /\ Tells(o, m, at[s], at'[s]) /\ About(o, m) = Near(t, s)
    <2>1. m \in LinkMessage /\ m.lost = Behind(s, t) /\ m.type = "SQUIT"
        BY BehindType DEF LinkMessage
    <2> HIDE DEF m
    <2>2. Tells(o, m, at[s], at'[s]) /\ About(o, m) = UsersOf(m.lost)
        BY <2>1, SquitTells DEF Near
    <2> QED BY <2>1, <2>2 DEF Line, Near
<1>2. \A x, y \in Server :
          ~(x = s /\ y = t) /\ ~(x = t /\ y = s) =>
              net'[x][y] = IF x = s /\ y \in links[s] THEN net[x][y] \o << m >> ELSE net[x][y]
    BY DEF GivesUp
<1> HIDE DEF m
<1>3. /\ LinksOK /\ \A x, y \in Server : net[x][y] \in Seq(Line)
      /\ \A x \in Server : at[x] \in View /\ at'[x] \in View
    BY FrameworkIs
<1>8. \A x, y \in Server : ~(x = s /\ y = t) => (y \in links'[x] <=> y \in links[x])
    BY <1>0 DEF GivesUp
<1>9. Pair(o, s, t)' /\ Pair(o, t, s)'
    <2>1. Pair(o, s, t) /\ Pair(o, t, s)
        BY <1>0 DEF PairsOK
    <2>2. Alike(at[t], at'[t]) /\ \A u \in Near(t, s) : NickOf(at'[s], u) = NoNick
        BY <1>0
    <2> QED BY <1>0, <1>3, <2>1, <2>2, PairCut
<1>10. ASSUME NEW x \in Server, NEW y \in Neighbour(x) PROVE Pair(o, x, y)'
    <2>0. y \in Server /\ x # y /\ Pair(o, x, y) /\ x \in Neighbour(y) /\ Near(x, y) \subseteq User
        BY Neighbours, NearSides DEF PairsOK
    <2>1. CASE (x = s /\ y = t) \/ (x = t /\ y = s)
        BY <1>9, <2>1
    <2>2. CASE x = s /\ y # t
        <3>1. Alike(at[y], at'[y]) /\ at'[x] \in View /\ Tells(o, m, at[x], at'[x])
            BY <1>1, <1>3, <2>0, <2>2
        <3>2. net'[x][y] = IF y \in links[x] THEN net[x][y] \o << m >> ELSE net[x][y]
            BY <1>0, <1>2, <2>0, <2>2
        <3>3. About(o, m) \subseteq Near(x, y) /\ m.type # "KILL"
            <4>1. Near(t, s) \subseteq Near(s, y)
                BY <1>0, <2>0, <2>2, NearIs
            <4> QED BY <1>1, <2>2, <4>1
        <3>4. net[x][y] \in Seq(Line)
            BY <1>3, <2>0
        <3>5. Greets(net'[x][y]) <=> Greets(net[x][y])
            BY <1>1, <1>3, <3>2, <3>4, GreetsStays
        <3>7. (y \in links'[x] <=> y \in links[x]) /\ (x \in links'[y] <=> x \in links[y])
            BY <1>0, <1>8, <2>0, <2>2
        <3> QED BY <1>1, <2>0, <3>1, <3>2, <3>3, <3>4, <3>5, <3>7, PairOut
    <2>3. CASE y = s /\ x # t
        <3>1. net'[x][y] = net[x][y] /\ Alike(at[x], at'[x])
            BY <1>0, <1>2, <2>0, <2>3
        <3>2. Near(t, s) \intersect Near(x, y) = {}
            <4>1. Near(t, s) \intersect Near(x, s) = {}
                BY <1>0, <2>0, <2>3, NearIs
            <4> QED BY <2>3, <4>1
        <3>3. \A u \in Near(x, y) : NickOf(at'[y], u) = NickOf(at[y], u)
            BY <2>0, <2>3, <3>2
        <3>7. (y \in links'[x] <=> y \in links[x]) /\ (x \in links'[y] <=> x \in links[y])
            BY <1>0, <1>8, <2>0, <2>3
        <3> QED BY <2>0, <3>1, <3>3, <3>7, PairIn
    <2>4. CASE x # s /\ y # s
        <3>1. net'[x][y] = net[x][y] /\ Alike(at[x], at'[x]) /\ Alike(at[y], at'[y])
            BY <1>2, <2>0, <2>4
        <3>7. (y \in links'[x] <=> y \in links[x]) /\ (x \in links'[y] <=> x \in links[y])
            BY <1>8, <2>0, <2>4
        <3> QED BY <2>0, <3>1, <3>7, PairSame
    <2> QED BY <2>1, <2>2, <2>3, <2>4
<1> QED BY <1>10 DEF PairsOK

(* Two neighbours, s and t, have done something to their link, and no view *)
(* has changed.                                                            *)
LEMMA OnePair ==
    ASSUME NEW o, PairsOK(o), NEW s \in Server, NEW t \in Neighbour(s), at' = at,
           \A x, y \in Server : ~(x = s /\ y = t) /\ ~(x = t /\ y = s) =>
               net'[x][y] = net[x][y] /\ (y \in links'[x] <=> y \in links[x]),
           Pair(o, s, t)', Pair(o, t, s)'
    PROVE  PairsOK(o)'
<1>1. ASSUME NEW x \in Server, NEW y \in Neighbour(x) PROVE Pair(o, x, y)'
    <2>0. y \in Server /\ x # y /\ Pair(o, x, y)
        BY Neighbours DEF PairsOK
    <2>1. CASE (x = s /\ y = t) \/ (x = t /\ y = s)
        BY <2>1
    <2>2. CASE ~((x = s /\ y = t) \/ (x = t /\ y = s))
        <3>1. /\ net'[x][y] = net[x][y]
              /\ y \in links'[x] <=> y \in links[x]
              /\ x \in links'[y] <=> x \in links[y]
            BY <2>0, <2>2
        <3>2. Alike(at[x], at'[x]) /\ Alike(at[y], at'[y])
            BY AlikeSame
        <3> QED BY <2>0, <3>1, <3>2, PairSame
    <2> QED BY <2>1, <2>2
<1> QED BY <1>1 DEF PairsOK

(* The end of a link that was lost here already.                           *)
LEMMA EofPairs ==
    ASSUME NEW o, PairsOK(o), Framework, NEW s \in Server, NEW t \in Server,
           EofLink(s, t), s \notin links[t], at' = at
    PROVE  PairsOK(o)'
<1>1. LinksTypeOK(Message) /\ LinksOK
    BY FrameworkIs
<1>2. /\ links' = links /\ net'[s][t] = << >> /\ t \notin links[s] /\ t \in Neighbour(s)
      /\ \A x, y \in Server : ~(x = s /\ y = t) => net'[x][y] = net[x][y]
    BY <1>1, EofIs
<1>3. s \in Neighbour(t) /\ s # t
    BY <1>2, Neighbours
<1>4. Pair(o, s, t) /\ Pair(o, t, s)
    BY <1>2, <1>3 DEF PairsOK
<1>5. Pair(o, s, t)'
    <2>1. Directed(o, s, t)'
        BY <1>2, WithinEmpty DEF Directed
    <2>2. Gone(s, t)'
        BY <1>2, <1>4 DEF Gone, Pair
    <2>3. ~Reads(s, t)'
        BY <1>2 DEF Reads, Greets
    <2>4. Exact(o, s, t)'
        BY <2>3 DEF Exact
    <2> QED BY <2>1, <2>2, <2>4 DEF Pair
<1>6. Pair(o, t, s)'
    <2>1. net'[t][s] = net[t][s]
        BY <1>2, <1>3
    <2>2. Alike(at[t], at'[t]) /\ Alike(at[s], at'[s])
        BY AlikeSame
    <2> QED BY <1>2, <1>3, <1>4, <2>1, <2>2, PairSame
<1> QED BY <1>1, <1>2, <1>3, <1>5, <1>6, OnePair

(* A link is made again: one server greets with a burst, ...               *)
LEMMA EstabPairs ==
    ASSUME NEW o, PairsOK(o), Framework, NEW s \in Server, NEW t \in Server,
           NEW lines \in Seq(Message), EstabLink(s, t, lines), lines \in BurstLines(at[s]), at' = at,
           \A u \in User : at[s].client[u].known => at[s].client[u].nick \in Nick
    PROVE  PairsOK(o)'
<1>1. LinksTypeOK(Message) /\ LinksOK /\ at[s] \in View /\ at[t] \in View
    BY FrameworkIs
<1>2. /\ t \in Neighbour(s) /\ s # t /\ t \notin links[s] /\ s \notin links[t]
      /\ net[s][t] = << >> /\ net[t][s] = << >>
      /\ net'[s][t] = << [type |-> "SERVER"] >> \o lines
      /\ \A x, y \in Server : ~(x = s /\ y = t) => net'[x][y] = net[x][y]
      /\ \A x \in Server : links'[x] = IF x = s THEN links[s] \union {t} ELSE links[x]
    BY <1>1, EstabIs
<1>3. s \in Neighbour(t)
    BY <1>1, <1>2, Neighbours
<1>4. Pair(o, s, t) /\ Pair(o, t, s)
    BY <1>2, <1>3 DEF PairsOK
<1>5. s \notin links'[t] /\ net'[t][s] = net[t][s]
    BY <1>2
<1>6. Pair(o, s, t)' /\ Pair(o, t, s)'
    BY <1>1, <1>2, <1>4, <1>5, PairGreets
<1>7. \A x, y \in Server : ~(x = s /\ y = t) => (y \in links'[x] <=> y \in links[x])
    BY <1>2
<1> QED BY <1>1, <1>2, <1>3, <1>6, <1>7, OnePair

(* ... and the other one answers with its own.                             *)
LEMMA ServerPairs ==
    ASSUME NEW o, PairsOK(o), Framework, NEW s \in Server, NEW t \in Server,
           NEW lines \in Seq(Message), ServerLink(s, t, lines), lines \in BurstLines(at[t]), at' = at,
           \A u \in User : at[t].client[u].known => at[t].client[u].nick \in Nick
    PROVE  PairsOK(o)'
<1>1. /\ LinksTypeOK(Message) /\ LinksOK /\ at[s] \in View /\ at[t] \in View
      /\ \A x, y \in Server : net[x][y] \in Seq(Line)
    BY FrameworkIs
<1>2. /\ t \in Neighbour(s) /\ s \in Neighbour(t) /\ s # t
      /\ s \notin links[t] /\ net[t][s] = << >>
      /\ Greets(net[s][t]) /\ net'[s][t] = Tail(net[s][t])
      /\ net'[t][s] = << >> \o lines
      /\ \A x, y \in Server :
           ~(x = s /\ y = t) /\ ~(x = t /\ y = s) => net'[x][y] = net[x][y]
      /\ \A x \in Server : links'[x] = IF x = t THEN links[t] \union {s} ELSE links[x]
    BY <1>1, ServerIs
<1>3. net'[t][s] = lines
    <2>1. << >> \o lines = lines
        OBVIOUS
    <2> QED BY <1>2, <2>1
<1>4. Pair(o, s, t) /\ Pair(o, t, s)
    BY <1>2 DEF PairsOK
<1>5. s \in links'[t] /\ (t \in links'[s] <=> t \in links[s])
    BY <1>2
<1>6. Pair(o, t, s)'
    BY <1>1, <1>2, <1>3, <1>4, <1>5, PairAnswers
<1>7. Pair(o, s, t)'
    <2> DEFINE m == net[s][t][1]
    <2>1. net[s][t] \in Seq(Line) /\ net[s][t] # << >> /\ m.type = "SERVER"
        BY <1>1, <1>2 DEF Greets
    <2>2. Framed(net[s][t])
        BY <1>1, <1>2 DEF LinksOK, LinkOK
    <2>3. Tells(o, m, at[t], at'[t])
        <3>1. \A u \in User : Of(o, m) # u
            BY <2>1, NickAssumption DEF Of
        <3> HIDE DEF m
        <3> QED BY <2>1, <3>1 DEF Tells, Turns
    <2>4. Reads(s, t) /\ Alike(at[s], at'[s])
        BY <1>2, AlikeSame DEF Reads
    <2> QED BY <1>2, <1>4, <1>5, <2>1, <2>2, <2>3, <2>4, PairTaken
<1>8. \A x, y \in Server : ~(x = t /\ y = s) => (y \in links'[x] <=> y \in links[x])
    BY <1>2
<1> QED BY <1>1, <1>2, <1>6, <1>7, <1>8, OnePair

-----------------------------------------------------------------------------
(* Every action is one of these steps.                                     *)
LEMMA QuietlyAlike ==
    ASSUME NEW o, PairsOK(o), Quietly PROVE PairsOK(o)'
<1>1. \A x \in Server : Alike(at[x], at'[x])
    BY DEF Quietly, Same, Alike
<1> QED BY <1>1, QuietPairs DEF Quietly

(* What a line says of u is all it says.                                   *)
LEMMA BecomesTells ==
    ASSUME NEW o, NEW u \in User, NEW p \in Server, NEW m \in Message, Of(o, m) = u, NEW v, NEW w,
           Becomes(o, u, p, m, v, w)
    PROVE  /\ Tells(o, m, v[p], w[p]) /\ About(o, m) = {u}
           /\ \A x \in Server : x # p => Alike(v[x], w[x])
<1>1. m.type # "SQUIT"
    BY DEF Message
<1>2. \A x \in Server : \A y \in User : ~(x = p /\ y = u) => NickOf(w[x], y) = NickOf(v[x], y)
    BY DEF Becomes, Same
<1>3. Tells(o, m, v[p], w[p])
    <2>1. ASSUME NEW y \in User PROVE Turns(o, y, NickOf(v[p], y), m, NickOf(w[p], y))
        <3>1. CASE y = u
            BY <3>1 DEF Becomes
        <3>2. CASE y # u
            BY <1>1, <1>2, <3>2 DEF Turns
        <3> QED BY <3>1, <3>2
    <2> QED BY <2>1 DEF Tells
<1>4. About(o, m) = {u}
    BY <1>1 DEF About
<1> QED BY <1>2, <1>3, <1>4 DEF Alike

LEMMA SaysSpeaks ==
    ASSUME NEW o, NEW u, NEW p, NEW m, Says(o, u, p, m), m.type # "KILL" PROVE Speaks(o, p, m)
<1>1. p \in Server /\ u \in User /\ m \in Message /\ Of(o, m) = u /\ Becomes(o, u, p, m, at, at') /\ home[u] = p
    BY DEF Says
<1>2. /\ Tells(o, m, at[p], at'[p]) /\ About(o, m) = {u}
      /\ \A x \in Server : x # p => Alike(at[x], at'[x])
    BY <1>1, BecomesTells
<1>3. About(o, m) \subseteq UsersOf({p})
    BY <1>1, <1>2 DEF UsersOf
<1> QED BY <1>1, <1>2, <1>3 DEF Says, Speaks

LEMMA HearsPasses ==
    ASSUME NEW o, NEW u, NEW s, NEW t, NEW m, NEW n, Hears(o, u, s, t, m, n), m.type # "KILL"
    PROVE  Passes(o, s, t, m, n)
<1>1. /\ s \in Server /\ t \in Server /\ u \in User /\ m \in Message /\ n \in Message
      /\ Of(o, m) = u /\ Of(o, n) = u /\ n.type = m.type /\ From(n) = From(m) /\ To(n) = To(m)
      /\ Becomes(o, u, t, n, at, at')
    BY DEF Hears
<1>2. /\ Tells(o, n, at[t], at'[t]) /\ About(o, n) = {u}
      /\ \A x \in Server : x # t => Alike(at[x], at'[x])
    BY <1>1, BecomesTells
<1>3. n.type # "SQUIT" /\ n.type \notin {"SERVER", "EOF"} /\ n \in Line
    BY <1>1 DEF Message, Line
<1>4. About(o, m) = {u}
    BY <1>1, <1>3 DEF About
<1>5. Tells(o, m, at[t], at'[t])
    <2>1. \A y, a, b : Turns(o, y, a, m, b) <=> Turns(o, y, a, n, b)
        BY <1>1, <1>3 DEF Turns
    <2> QED BY <1>2, <2>1 DEF Tells
<1> QED BY <1>1, <1>2, <1>3, <1>4, <1>5 DEF Hears, Passes

(* A line about u finds him under the nick it names, on the side it comes  *)
(* from.                                                                   *)
LEMMA PairFinds ==
    ASSUME NEW o, PairsOK(o), Framework, NEW s \in Server, NEW t \in Server, NEW type,
           Arrives(s, t, type), type \notin {"SERVER", "EOF"}, NEW m, m = Head(net[s][t])
    PROVE  /\ m.type # "KILL" /\ t \notin Behind(t, s)
           /\ \A u \in User : Of(o, m) = u /\ m.type # "SQUIT" =>
                 NickOf(at[t], u) = From(m) /\ ~Elsewhere(s, t, u)
<1>1. LinksTypeOK(Message) /\ LinksOK /\ net[s][t] \in Seq(Line) /\ s \in links[t]
    BY FrameworkIs DEF Arrives
<1>2. t \in Neighbour(s) /\ s # t /\ net[s][t] # << >> /\ m = net[s][t][1]
    BY <1>1, ArrivesFirst
<1>3. Pair(o, s, t) /\ t \notin Behind(t, s)
    BY <1>2, BehindIs DEF PairsOK
<1>4. About(o, m) \subseteq Near(s, t) /\ m.type # "KILL"
    BY <1>1, <1>2, <1>3, WithinShrinks DEF Pair, Directed
<1>5. ASSUME NEW u \in User, Of(o, m) = u, m.type # "SQUIT"
      PROVE  NickOf(at[t], u) = From(m) /\ ~Elsewhere(s, t, u)
    <2>1. u \in Near(s, t)
        BY <1>4, <1>5 DEF About
    <2>2. PICK b \in Name : Trace(o, net[s][t], u, NickOf(at[t], u), b)
        BY <1>1, <1>3, <2>1 DEF Pair, Exact, Reads
    <2>3. PICK c \in Name : Turns(o, u, NickOf(at[t], u), m, c)
        BY <1>1, <1>2, <2>2, TraceShrinks
    <2> QED BY <1>5, <2>1, <2>3 DEF Turns, Elsewhere, Near, UsersOf
<1> QED BY <1>3, <1>4, <1>5

LEMMA FoundIs ==
    ASSUME NEW s \in Server, NEW t \in Server, NEW u \in User, NEW n \in Nick,
           NickOf(at[t], u) = n, ~Elsewhere(s, t, u)
    PROVE  Source(s, t, n) # {}
<1>1. at[t].client[u].nick = n
    BY NickAssumption DEF NickOf
<1> QED BY <1>1 DEF Source, Holder

(* A client that has not registered goes unnoticed.                        *)
LEMMA RefuseUnseen ==
    ASSUME NEW o, Sound(o), NEW u \in User, NEW n \in Nick, RefuseNick(u, n) PROVE Quietly
<1> DEFINE s == home[u]
           v == Evicted(at[s], u, n)
           X == Holder(at[s], n) \ {u}
<1>1. s \in Server /\ at \in [Server -> View] /\ at[s] \in View /\ links' = links /\ net' = net
    BY SoundIs DEF RefuseNick
<1>2. PICK now \in clock[s] : at' = [at EXCEPT ![s] = [v EXCEPT !.client[u].ts = now]]
    BY DEF RefuseNick
<1> DEFINE e == [v EXCEPT !.client[u].ts = now]
<1>3. /\ \A x \in X : ~at[s].client[x].known
      /\ ViewOK(at[s], fresh) /\ fresh \in SUBSET User
    BY <1>1, SoundIs DEF RefuseNick, MayTake, Sound, IInv
<1>4. v \in View
    BY <1>3, EvictedOK DEF ViewOK
<1>5. /\ \A x \in User : v.client[x] = IF x \in X THEN Absent ELSE at[s].client[x]
      /\ \A k \in Nick : v.was[k] = at[s].was[k]
    <2>1. {x \in X : at[s].client[x].known} = {}
        BY <1>3
    <2> QED BY <2>1 DEF Evicted, Exit
<1>6. \A x \in User : Same(at[s], v, x)
    <2>1. \A x \in X : ~v.client[x].known
        BY <1>5 DEF Absent, Holder
    <2> HIDE DEF v, s, X
    <2>2. ASSUME NEW x \in User PROVE Same(at[s], v, x)
        <3>1. CASE x \in X
            BY <1>3, <2>1, <3>1 DEF Same, Keeps, NickOf
        <3>2. CASE x \notin X
            BY <1>5, <3>2 DEF Same, Keeps, NickOf, Past
        <3> QED BY <3>1, <3>2
    <2> QED BY <2>2
<1> HIDE DEF v, s
<1>7. \A x \in User : Same(v, e, x)
    BY <1>4, TouchIs
<1> HIDE DEF e
<1>8. \A x \in User : Same(at[s], e, x)
    <2>1. ASSUME NEW x \in User PROVE Same(at[s], e, x)
        <3>1. Same(at[s], v, x) /\ Same(v, e, x)
            BY <1>6, <1>7
        <3> QED BY <3>1 DEF Same, Keeps
    <2> QED BY <2>1
<1>9. at' = [at EXCEPT ![s] = e]
    BY <1>2 DEF e
<1>10. \A x \in Server : \A y \in User : Same(at[x], at'[x], y)
    BY <1>1, <1>8, <1>9, ViewStep
<1> QED BY <1>1, <1>10 DEF Quietly

(* Commands keep the two ends of every link in step.                       *)
LEMMA CommandsPair ==
    ASSUME NEW o, Sound(o), Framework, PairsOK(o), NEW u \in User, NEW n \in Nick,
           \/ Register(u) \/ Quit(u) \/ ChooseNick(u, n) \/ RefuseNick(u, n)
           \/ ChangeNick(u, n) /\ o[n] = u
    PROVE  PairsOK(o)'
<1>1. CASE Quietly
    BY <1>1, QuietlyAlike
<1>2. ASSUME NEW m, NEW p, Says(o, u, p, m), m.type # "KILL" PROVE PairsOK(o)'
    BY <1>2, SaysSpeaks, SpeaksOK
<1>3. CASE Register(u)
    <2> DEFINE m == NickLine(u, at[home[u]].client[u])
    <2>1. Says(o, u, home[u], m)
        BY <1>3, RegisterSays
    <2>2. m.type # "KILL"
        BY DEF NickLine
    <2> HIDE DEF m
    <2> QED BY <1>2, <2>1, <2>2
<1>4. CASE Quit(u)
    BY <1>1, <1>2, <1>4, QuitSays
<1>5. CASE ChangeNick(u, n) /\ o[n] = u
    <2>1. PICK m : m.type = "CHANGE" /\ Says(o, u, home[u], m)
        BY <1>5, ChangeSays
    <2> QED BY <1>2, <2>1
<1>6. CASE ChooseNick(u, n) \/ RefuseNick(u, n)
    BY <1>1, <1>6, ChooseQuietly, RefuseUnseen
<1> QED BY <1>3, <1>4, <1>5, <1>6

(* So do the lines about clients, ...                                      *)
LEMMA LinesPair ==
    ASSUME NEW o, Sound(o), Framework, PairsOK(o), NEW s \in Server, NEW t \in Server,
           ReceiveNick(s, t) \/ ReceiveChange(s, t) \/ ReceiveQuit(s, t) \/ ReceiveKill(s, t)
    PROVE  PairsOK(o)'
<1> DEFINE m == Head(net[s][t])
<1>0. PICK type : type \in {"NICK", "CHANGE", "QUIT", "KILL"} /\ Arrives(s, t, type) /\ m.type = type
    BY DEF ReceiveNick, ReceiveChange, ReceiveQuit, ReceiveKill, Arrives
<1>1. /\ m.type # "KILL" /\ t \notin Behind(t, s)
      /\ \A u \in User : Of(o, m) = u /\ m.type # "SQUIT" =>
             NickOf(at[t], u) = From(m) /\ ~Elsewhere(s, t, u)
    BY <1>0, PairFinds
<1>2. ASSUME NEW u, NEW n, Hears(o, u, s, t, m, n) PROVE PairsOK(o)'
    <2>1. Passes(o, s, t, m, n)
        BY <1>1, <1>2, HearsPasses
    <2> QED BY <2>1, PassesOK
<1>3. ASSUME NEW u, NEW back, Drops(o, u, s, t, m, back), From(m) \in Nick PROVE FALSE
    <2>1. u \in User /\ Of(o, m) = u /\ m.type # "SQUIT" /\ Source(s, t, From(m)) = {}
        BY <1>1, <1>3 DEF Drops
    <2> HIDE DEF m
    <2> QED BY <1>1, <1>3, <2>1, FoundIs
<1>4. LinksTypeOK(ProperLines(o))
    BY SoundIs
<1>5. CASE ReceiveNick(s, t)
    <2>1. Arrives(s, t, "NICK")
        BY <1>5 DEF ReceiveNick
    <2>2. m.user \in User /\ m.type = "NICK"
        BY <1>4, <2>1, ProperHead DEF Arrives
    <2>3. Of(o, m) = m.user /\ From(m) = NoNick
        BY <2>2 DEF Of, From
    <2>4. NickOf(at[t], m.user) = NoNick
        BY <1>1, <2>2, <2>3
    <2>5. Hears(o, m.user, s, t, m, m)
        <3> DEFINE u == m.user
        <3>1. u = m.user /\ NickOf(at[t], u) = NoNick /\ m = Head(net[s][t])
            BY <2>4
        <3> HIDE DEF m, u
        <3>2. Hears(o, u, s, t, m, m)
            BY <1>5, <3>1, NickHeard
        <3> QED BY <3>1, <3>2
    <2> QED BY <1>2, <2>5
<1>6. CASE ReceiveChange(s, t)
    <2>1. Arrives(s, t, "CHANGE")
        BY <1>6 DEF ReceiveChange
    <2>2. m.old \in Nick /\ m.type = "CHANGE"
        BY <1>4, <2>1, ProperHead
    <2>3. From(m) \in Nick
        BY <2>2 DEF From
    <2>4. \/ \E n : Hears(o, o[m.old], s, t, m, n)
          \/ \E back : Drops(o, o[m.old], s, t, m, back)
        <3>1. m = Head(net[s][t])
            OBVIOUS
        <3> HIDE DEF m
        <3> QED BY <1>1, <1>6, <3>1, ChangeHeard
    <2> HIDE DEF m
    <2> QED BY <1>2, <1>3, <2>3, <2>4
<1>7. CASE ReceiveQuit(s, t)
    <2>1. Arrives(s, t, "QUIT")
        BY <1>7 DEF ReceiveQuit
    <2>2. m.nick \in Nick /\ m.type = "QUIT"
        BY <1>4, <2>1, ProperHead DEF Arrives
    <2>3. From(m) \in Nick
        BY <2>2 DEF From
    <2>4. \/ \E n : Hears(o, o[m.nick], s, t, m, n)
          \/ \E back : Drops(o, o[m.nick], s, t, m, back)
        <3>1. m = Head(net[s][t])
            OBVIOUS
        <3> HIDE DEF m
        <3> QED BY <1>1, <1>7, <3>1, QuitHeard
    <2> HIDE DEF m
    <2> QED BY <1>2, <1>3, <2>3, <2>4
<1>8. CASE ReceiveKill(s, t)
    BY <1>1, <1>8 DEF ReceiveKill, Arrives
<1> QED BY <1>5, <1>6, <1>7, <1>8

(* ... and the links themselves.                                           *)
LEMMA LosesAll ==
    ASSUME at \in [Server -> View], NEW s \in Server, NEW D, Lose(s, D)
    PROVE  /\ \A u \in User : NickOf(at'[s], u) = IF u \in UsersOf(D) THEN NoNick ELSE NickOf(at[s], u)
           /\ \A x \in Server : x # s => Alike(at[x], at'[x])
<1> DEFINE e == Exit(at[s], {u \in User : home[u] \in D})
<1>1. at' = [at EXCEPT ![s] = e]
    BY DEF Lose
<1>2. \A u \in User : NickOf(e, u) = IF u \in UsersOf(D) THEN NoNick ELSE NickOf(at[s], u)
    BY ExitAll DEF UsersOf
<1> HIDE DEF e
<1>3. at'[s] = e /\ \A x \in Server : x # s => at'[x] = at[x]
    BY <1>1
<1> QED BY <1>2, <1>3, AlikeSame

LEMMA LinksPair ==
    ASSUME NEW o, Sound(o), Framework, LinksTypeOK(Message)', PairsOK(o), NEW s \in Server, NEW t \in Server,
           Close(s, t) \/ ReceiveEof(s, t) \/ ReceiveSquit(s, t) \/ Estab(s, t) \/ ReceiveServer(s, t)
    PROVE  PairsOK(o)'
<1>0. /\ LinksTypeOK(Message) /\ LinksOK /\ at \in [Server -> View]
      /\ \A x, y \in Server : net[x][y] \in Seq(Line) /\ net'[x][y] \in Seq(Line)
    BY FrameworkIs DEF LinksTypeOK, Line, Framework
<1>1. CASE Close(s, t)
    <2>1. CloseLink(s, t) /\ Lose(s, Behind(s, t))
        BY <1>1 DEF Close
    <2>2. PICK left : GivesUp(s, t, left)
        BY <1>0, <2>1, CloseIs
    <2>3. left \in Seq(Line)
        BY <1>0, <2>2 DEF GivesUp
    <2>4. /\ \A u \in User : NickOf(at'[s], u) = IF u \in Near(t, s) THEN NoNick ELSE NickOf(at[s], u)
          /\ \A x \in Server : x # s => Alike(at[x], at'[x])
        BY <1>0, <2>1, LosesAll DEF Near
    <2> QED BY <2>2, <2>3, <2>4, GivesUpPairs
<1>2. CASE ReceiveEof(s, t)
    <2>1. EofLink(s, t) /\ IF s \in links[t] THEN Lose(t, Behind(t, s)) ELSE UNCHANGED at
        BY <1>2 DEF ReceiveEof
    <2>2. CASE s \in links[t]
        <3> DEFINE left == << >>
        <3>1. left \in Seq(Line)
            OBVIOUS
        <3>2. GivesUp(t, s, left)
            BY <1>0, <2>1, <2>2, EofIs
        <3> HIDE DEF left
        <3>3. /\ \A u \in User : NickOf(at'[t], u) = IF u \in Near(s, t) THEN NoNick ELSE NickOf(at[t], u)
              /\ \A x \in Server : x # t => Alike(at[x], at'[x])
            BY <1>0, <2>1, <2>2, LosesAll DEF Near
        <3> QED BY <3>1, <3>2, <3>3, GivesUpPairs
    <2>3. CASE s \notin links[t]
        BY <2>1, <2>3, EofPairs
    <2> QED BY <2>2, <2>3
<1>3. CASE ReceiveSquit(s, t)
    <2> DEFINE m == Head(net[s][t])
    <2>1. SquitLink(s, t) /\ Lose(t, m.lost)
        BY <1>3 DEF ReceiveSquit
    <2>2. m.type = "SQUIT" /\ Arrives(s, t, "SQUIT") /\ links' = links /\ net' = Taken(s, t, << m >>)
        BY <2>1 DEF SquitLink, Arrives
    <2>3. m \in Line
        BY <1>0, <2>2, ArrivesFirst, ArrivesType DEF Line, LinksTypeOK, Queues
    <2>4. m = Head(net[s][t])
        OBVIOUS
    <2> HIDE DEF m
    <2>5. /\ \A u \in User : NickOf(at'[t], u) = IF u \in UsersOf(m.lost) THEN NoNick ELSE NickOf(at[t], u)
          /\ \A x \in Server : x # t => Alike(at[x], at'[x])
        BY <1>0, <2>1, LosesAll
    <2>6. Tells(o, m, at[t], at'[t])
        BY <2>2, <2>5, SquitTells
    <2>7. Passes(o, s, t, m, m)
        BY <2>2, <2>3, <2>4, <2>5, <2>6 DEF Passes
    <2> QED BY <2>7, PassesOK
<1>4. ASSUME NEW x \in Server, NEW lines \in BurstLines(at[x])
      PROVE  lines \in Seq(Message) /\ \A u \in User : at[x].client[u].known => at[x].client[u].nick \in Nick
    <2>1. ViewOK(at[x], fresh) /\ fresh \in SUBSET User
        BY SoundIs DEF Sound, IInv
    <2>2. lines \in Seq(Lines(fresh))
        BY <2>1, BurstOK
    <2>3. Lines(fresh) \subseteq Message
        BY DEF Lines
    <2>4. lines \in Seq(Message)
        BY <2>2, <2>3, SeqMonotonic
    <2> QED BY <2>4, SoundIs
<1>5. CASE Estab(s, t)
    <2>1. PICK lines \in BurstLines(at[s]) : EstabLink(s, t, lines)
        BY <1>5 DEF Estab
    <2>2. at' = at
        BY <1>5 DEF Estab
    <2> QED BY <1>4, <2>1, <2>2, EstabPairs
<1>6. CASE ReceiveServer(s, t)
    <2>1. PICK lines \in BurstLines(at[t]) : ServerLink(s, t, lines)
        BY <1>6 DEF ReceiveServer
    <2>2. at' = at
        BY <1>6 DEF ReceiveServer
    <2> QED BY <1>4, <2>1, <2>2, ServerPairs
<1> QED BY <1>1, <1>2, <1>3, <1>5, <1>6

(* As long as nobody is killed, every link is kept in step by every step.  *)
LEMMA PairsNext ==
    ASSUME IInv, IInv', LinksOK, NEW o \in Owners, Proper(o), Obeyed(o)', "kill" \notin used',
           PairsOK(o), [Next]_vars
    PROVE  PairsOK(o)'
<1>1. Sound(o)
    BY DEF Sound
<1>2. LinksTypeOK(Message)'
    <2>1. LinksTypeOK(Lines(fresh))' /\ fresh' \subseteq User
        BY DEF IInv
    <2> DEFINE L == Lines(fresh)' \union LinkMessage
    <2>2. /\ links' \in [Server -> SUBSET Server]
          /\ net' \in [Server -> [Server -> Seq(L)]]
        BY <2>1 DEF LinksTypeOK
    <2>3. L \subseteq Message \union LinkMessage
        BY DEF Lines
    <2> HIDE DEF L
    <2>4. \A x, y \in Server : net'[x][y] \in Seq(Message \union LinkMessage)
        BY <2>2, <2>3, SeqMonotonic
    <2>5. net' \in [Server -> [Server -> Seq(Message \union LinkMessage)]]
        BY <2>2, <2>4
    <2> QED BY <2>2, <2>5 DEF LinksTypeOK
<1>3. Framework
    <2>1. LinksOK'
        BY LinksOKNext
    <2>2. LinksTypeOK(Message) /\ at \in [Server -> View]
        BY <1>1, SoundIs
    <2>3. at' \in [Server -> View]
        BY DEF IInv
    <2> QED BY <2>1, <2>2, <2>3 DEF Framework
<1>4. ASSUME NEW u \in User, NEW n \in Nick, ChangeNick(u, n) PROVE o[n] = u
    <2>1. PICK now : Claim(u, n, now)
        BY <1>4 DEF ChangeNick
    <2> DEFINE c == [user |-> u, nick |-> n, ts |-> now]
    <2>2. c \in claims' /\ c.user = u /\ c.nick = n
        BY <2>1 DEF Claim
    <2>3. \A d \in claims' : o[d.nick] = d.user
        BY DEF Obeyed
    <2> HIDE DEF c
    <2> QED BY <2>2, <2>3
<1>5. ASSUME NEW s \in Server, NEW n \in Nick, OperKill(s, n) PROVE FALSE
    BY <1>5 DEF OperKill, Use
<1>6. ASSUME NEW u \in User, Register(u) \/ Quit(u) PROVE PairsOK(o)'
    <2>1. PICK n \in Nick : n = n
        <3>1. at[home[u]].client[u].nick \in Nick
            BY <1>1, <1>6, SoundIs DEF Register, Quit
        <3> QED BY <3>1
    <2> QED BY <1>1, <1>3, <1>6, CommandsPair
<1>7. ASSUME NEW u \in User, NEW n \in Nick, ChooseNick(u, n) \/ ChangeNick(u, n) \/ RefuseNick(u, n)
      PROVE  PairsOK(o)'
    BY <1>1, <1>3, <1>4, <1>7, CommandsPair
<1>8. ASSUME NEW s \in Server, NEW t \in Server,
             ReceiveNick(s, t) \/ ReceiveChange(s, t) \/ ReceiveQuit(s, t) \/ ReceiveKill(s, t)
      PROVE  PairsOK(o)'
    BY <1>1, <1>3, <1>8, LinesPair
<1>9. ASSUME NEW s \in Server, NEW t \in Server,
             \/ ReceiveSquit(s, t) \/ ReceiveEof(s, t) \/ ReceiveServer(s, t)
             \/ Close(s, t) \/ Estab(s, t)
      PROVE  PairsOK(o)'
    BY <1>1, <1>2, <1>3, <1>9, LinksPair
<1>10. CASE UNCHANGED vars
    <2>1. at' = at /\ net' = net /\ links' = links
        BY <1>10 DEF vars
    <2> QED BY <2>1, AlikeSame, QuietPairs
<1> QED BY <1>5, <1>6, <1>7, <1>8, <1>9, <1>10 DEF Next

LEMMA PairsInit == ASSUME Init, NEW o PROVE PairsOK(o)
<1>1. /\ \A x, y \in Server : net[x][y] = << >>
      /\ \A x \in Server, u \in User : NickOf(at[x], u) = NoNick
    BY DEF Init, LinksInit, NickOf, Absent
<1>2. ASSUME NEW s \in Server, NEW t \in Neighbour(s) PROVE Pair(o, s, t)
    <2>1. t \in Server /\ Near(s, t) \subseteq User /\ Near(t, s) \subseteq User
        BY NearSides
    <2>2. Directed(o, s, t) /\ Gone(s, t)
        BY <1>1, <2>1, WithinEmpty DEF Directed, Gone
    <2>3. Exact(o, s, t)
        <3>1. NoNick \in Name
            BY DEF Name
        <3> DEFINE none == << >>
        <3> HIDE DEF none
        <3>2. ASSUME NEW u \in User PROVE Trace(o, net[s][t], u, NoNick, NoNick)
            <4>1. Trace(o, << >>, u, NoNick, NoNick) <=> NoNick = NoNick
                BY <3>1, TraceEmpty
            <4> QED BY <1>1, <2>1, <4>1
        <3> QED BY <1>1, <2>1, <3>1, <3>2 DEF Exact
    <2> QED BY <2>2, <2>3 DEF Pair
<1> QED BY <1>2 DEF PairsOK

-----------------------------------------------------------------------------
(* Where every line has been read, neighbours know everybody by one nick,  *)
(* ...                                                                     *)
LEMMA NeighboursMeet ==
    ASSUME NEW o, PairsOK(o), Quiet, at \in [Server -> View], NEW s \in Server, NEW t \in Neighbour(s)
    PROVE  Alike(at[s], at[t])
<1>1. /\ t \in Server /\ s \in Neighbour(t)
      /\ Near(s, t) \subseteq User /\ Near(s, t) \union Near(t, s) = User
    BY NearSides, Neighbours
<1>2. /\ net[s][t] = << >> /\ net[t][s] = << >> /\ t \in links[s] /\ s \in links[t]
    BY <1>1 DEF Quiet
<1>3. \A u \in Near(s, t) : NickOf(at[t], u) = NickOf(at[s], u)
    <2> SUFFICES ASSUME NEW u \in Near(s, t) PROVE NickOf(at[t], u) = NickOf(at[s], u)
        OBVIOUS
    <2>1. PICK b \in Name : Trace(o, << >>, u, NickOf(at[t], u), b) /\ b = NickOf(at[s], u)
        BY <1>1, <1>2 DEF PairsOK, Pair, Exact, Reads
    <2>2. NickOf(at[t], u) \in Name
        BY <1>1, NickOfName
    <2> QED BY <2>1, <2>2, TraceEmpty
<1>4. \A u \in Near(t, s) : NickOf(at[s], u) = NickOf(at[t], u)
    <2> SUFFICES ASSUME NEW u \in Near(t, s) PROVE NickOf(at[s], u) = NickOf(at[t], u)
        OBVIOUS
    <2>1. PICK b \in Name : Trace(o, << >>, u, NickOf(at[s], u), b) /\ b = NickOf(at[t], u)
        BY <1>1, <1>2 DEF PairsOK, Pair, Exact, Reads
    <2>2. u \in User /\ NickOf(at[s], u) \in Name
        BY <1>1, NearSides, NickOfName
    <2> QED BY <2>1, <2>2, TraceEmpty
<1> QED BY <1>1, <1>3, <1>4 DEF Alike

(* ... and so do all servers.                                              *)
LEMMA AllMeet ==
    ASSUME \A s \in Server : \A t \in Neighbour(s) : Alike(at[s], at[t])
    PROVE  \A s, t \in Server : Alike(at[s], at[t])
<1> SUFFICES ASSUME NEW s \in Server PROVE \A t \in Server : Alike(at[s], at[t])
    OBVIOUS
<1> DEFINE D == {x \in Server : Alike(at[s], at[x])}
<1>1. \A d \in D : Neighbour(d) \subseteq D
    <2> SUFFICES ASSUME NEW d \in D, NEW n \in Neighbour(d) PROVE n \in D
        OBVIOUS
    <2>1. n \in Server
        BY Neighbours
    <2>2. Alike(at[s], at[d]) /\ Alike(at[d], at[n])
        OBVIOUS
    <2> QED BY <2>1, <2>2 DEF Alike
<1>2. D \in SUBSET Server /\ D # {}
    BY AlikeSame
<1>3. D = Server
    <2> HIDE DEF D
    <2> QED BY <1>1, <1>2, TreeAssumption
<1> QED BY <1>3

LEMMA AlikeMeans ==
    ASSUME IInv, \A s, t \in Server : Alike(at[s], at[t])
    PROVE  SameClients /\ SameNicks
<1>1. \A s \in Server, u \in User :
          (at[s].client[u].known => at[s].client[u].nick \in Nick)
    BY DEF IInv, ViewOK
<1>2. NoNick \notin Nick
    BY NickAssumption
<1>3. \A s \in Server, u \in User :
          /\ at[s].client[u].known <=> NickOf(at[s], u) # NoNick
          /\ at[s].client[u].known => NickOf(at[s], u) = at[s].client[u].nick
    BY <1>1, <1>2 DEF NickOf
<1>4. \A s, t \in Server, u \in User : NickOf(at[t], u) = NickOf(at[s], u)
    BY DEF Alike
<1>5. SameClients
    BY <1>3, <1>4 DEF SameClients, Known
<1>6. SameNicks
    <2> SUFFICES ASSUME NEW s \in Server, NEW t \in Server, NEW u \in User,
                        at[s].client[u].known, at[t].client[u].known
                 PROVE  at[s].client[u].nick = at[t].client[u].nick
        BY DEF SameNicks, Known
    <2> QED BY <1>3, <1>4
<1> QED BY <1>5, <1>6

(* Whom every nick belongs to, if nobody takes another's.                  *)
LEMMA AloneObeyed == ASSUME Alone, claims \subseteq [user : User, nick : Nick, ts : Nat], User # {},
                            IsFiniteSet(User)
                     PROVE \E o \in Owners : Obeyed(o)
<1>1. ASSUME NEW n \in Nick, NEW u \in Contenders(n), NEW v \in Contenders(n) PROVE u = v
    <2> DEFINE C == Contenders(n)
    <2>1. C \subseteq User
        BY DEF Contenders
    <2>2. IsFiniteSet(C) /\ Cardinality(C) <= 1
        BY <2>1, FS_Subset DEF Alone
    <2>3. IsFiniteSet({u, v}) /\ (u # v => Cardinality({u, v}) = 2)
        <3> DEFINE S == {u}
        <3>1. IsFiniteSet(S) /\ Cardinality(S) = 1
            BY FS_Singleton
        <3>2. S \union {v} = {u, v} /\ (u # v => v \notin S)
            OBVIOUS
        <3> HIDE DEF S
        <3>3. /\ IsFiniteSet(S \union {v})
              /\ Cardinality(S \union {v}) = IF v \in S THEN Cardinality(S) ELSE Cardinality(S) + 1
            BY <3>1, FS_AddElement
        <3> QED BY <3>1, <3>2, <3>3
    <2>4. {u, v} \subseteq C
        OBVIOUS
    <2> HIDE DEF C
    <2>5. Cardinality({u, v}) <= Cardinality(C)
        BY <2>2, <2>4, FS_Subset
    <2>6. Cardinality(C) \in Nat
        BY <2>2, FS_CardinalityType
    <2> QED BY <2>2, <2>3, <2>5, <2>6
<1> DEFINE o == [n \in Nick |-> CHOOSE u \in User : Contenders(n) # {} => u \in Contenders(n)]
<1>2. \A n \in Nick : o[n] \in User /\ (Contenders(n) # {} => o[n] \in Contenders(n))
    <2>1. \A n \in Nick : Contenders(n) \subseteq User
        BY DEF Contenders
    <2>2. \A n \in Nick : \E u \in User : Contenders(n) # {} => u \in Contenders(n)
        BY <2>1
    <2> QED BY <2>2
<1>3. o \in Owners
    BY <1>2 DEF Owners
<1>4. Obeyed(o)
    <2> SUFFICES ASSUME NEW c \in claims PROVE o[c.nick] = c.user
        BY DEF Obeyed
    <2>1. c.nick \in Nick /\ c.user \in Contenders(c.nick)
        BY DEF Contenders
    <2> HIDE DEF o
    <2> QED BY <1>1, <1>2, <2>1
<1> QED BY <1>3, <1>4

-----------------------------------------------------------------------------
(* Without kills, lines are never taken amiss, and what a server has sent  *)
(* its neighbour is what it knows.                                         *)
PairsMatch == \A o \in Owners : Obeyed(o) /\ "kill" \notin used => PairsOK(o)

LEMMA UsedGrows == ASSUME [Next]_vars PROVE used \subseteq used'
<1>1. ASSUME NEW u \in User, Register(u) \/ Quit(u) PROVE used \subseteq used'
    BY <1>1 DEF Register, Quit, Use, history
<1>2. ASSUME NEW u \in User, NEW n \in Nick, ChooseNick(u, n) \/ ChangeNick(u, n) \/ RefuseNick(u, n)
      PROVE  used \subseteq used'
    BY <1>2 DEF ChooseNick, ChangeNick, RefuseNick, Use
<1>3. ASSUME NEW s \in Server, NEW n \in Nick, OperKill(s, n) PROVE used \subseteq used'
    BY <1>3 DEF OperKill, Use
<1>4. ASSUME NEW s \in Server, NEW t \in Server,
             \/ ReceiveNick(s, t) \/ ReceiveChange(s, t) \/ ReceiveQuit(s, t) \/ ReceiveKill(s, t)
             \/ ReceiveSquit(s, t) \/ ReceiveEof(s, t) \/ ReceiveServer(s, t) \/ Estab(s, t)
      PROVE  used \subseteq used'
    BY <1>4 DEF ReceiveNick, ReceiveChange, ReceiveQuit, ReceiveKill, ReceiveSquit, ReceiveEof,
                ReceiveServer, Estab, history
<1>5. ASSUME NEW s \in Server, NEW t \in Server, Close(s, t) PROVE used \subseteq used'
    BY <1>5 DEF Close
<1>6. CASE UNCHANGED vars
    BY <1>6 DEF vars, history
<1> QED BY <1>1, <1>2, <1>3, <1>4, <1>5, <1>6 DEF Next

LEMMA NamesInit == Init => NamesAreOwn /\ LinksOK /\ PairsMatch
<1> SUFFICES ASSUME Init PROVE NamesAreOwn /\ LinksOK /\ PairsMatch
    OBVIOUS
<1>1. LinksOK
    BY LinksInitOK DEF Init
<1>2. NamesAreOwn
    BY ProperInit DEF NamesAreOwn
<1>3. PairsMatch
    BY PairsInit DEF PairsMatch
<1> QED BY <1>1, <1>2, <1>3

LEMMA MatchNext ==
    ASSUME IInv, IInv', NamesAreOwn, LinksOK, PairsMatch, [Next]_vars PROVE PairsMatch'
<1> SUFFICES ASSUME NEW o \in Owners, Obeyed(o)', "kill" \notin used' PROVE PairsOK(o)'
    BY DEF PairsMatch
<1>1. Obeyed(o) /\ "kill" \notin used
    BY ClaimsGrow, UsedGrows DEF Obeyed
<1>2. Proper(o) /\ PairsOK(o)
    BY <1>1 DEF NamesAreOwn, PairsMatch
<1> QED BY <1>2, PairsNext

(* As long as nobody is killed by an oper, and no two connections take one *)
(* nick, a line finds its client under the nick it names, whatever has     *)
(* been lost in between (m_nick.c, parse.c, s_serv.c).                     *)
THEOREM PairsStayMatched == Spec => []PairsMatch
<1>1. IInv /\ NamesAreOwn /\ LinksOK /\ [Next]_vars => LinksOK'
    BY LinksOKNext
<1>2. IInv /\ IInv' /\ NamesAreOwn /\ LinksOK /\ PairsMatch /\ [Next]_vars => PairsMatch'
    BY MatchNext
<1>3. Init => LinksOK /\ PairsMatch
    BY NamesInit
<1> QED BY <1>1, <1>2, <1>3, IInvHolds, NamesStayOwn, PTL DEF Spec

-----------------------------------------------------------------------------
(* No link is lost, and users are killed.  Now a line may find its client  *)
(* gone, or under another nick; this is said of one user at a time.        *)

(* The lines of a queue that are about u, and whether one introduces him.  *)
LinesOf(o, q, u) == {q[k] : k \in {j \in 1..Len(q) : Of(o, q[j]) = u}}
Heralds(o, q, u) == \E m \in LinesOf(o, q, u) : m.type = "NICK"

(* A queue introduces nobody twice.                                        *)
Once(o, q, u) ==
    \A j, k \in 1..Len(q) :
        Of(o, q[j]) = u /\ q[j].type = "NICK" /\ Of(o, q[k]) = u /\ q[k].type = "NICK" => j = k

(* What has happened to a queue is no concern of u's.                      *)
Idle(o, q, r, u) ==
    /\ LinesOf(o, r, u) = LinesOf(o, q, u) /\ (Once(o, q, u) => Once(o, r, u))
    /\ \A a, b : Trace(o, q, u, a, b) => Trace(o, r, u, a, b)

LEMMA IdleSame == \A o, q, u : Idle(o, q, q, u)
BY DEF Idle

LEMMA LinesEmpty == \A o, u : LinesOf(o, << >>, u) = {} /\ ~Heralds(o, << >>, u)
BY DEF LinesOf, Heralds

(* m is added to q, and taken from it.                                     *)
Adds(q, m, r) == q \in Seq(Message) /\ m \in Message /\ r = q \o << m >>
Takes(q, m, r) == q \in Seq(Message) /\ q # << >> /\ m = q[1] /\ r = Tail(q)

(* A line at the end of a queue, ...                                       *)
LEMMA AddsIs ==
    ASSUME NEW o, NEW u, NEW q, NEW m, NEW r, Adds(q, m, r)
    PROVE  /\ m \in Message /\ q \in Seq(Message)
           /\ \A n : n \in LinesOf(o, r, u) <=> n \in LinesOf(o, q, u) \/ (Of(o, m) = u /\ n = m)
           /\ Once(o, q, u) /\ (Of(o, m) = u /\ m.type = "NICK" => ~Heralds(o, q, u)) => Once(o, r, u)
<1> DEFINE N == Len(q)
           one == << m >>
<1>0. q \in Seq(Message) /\ m \in Message /\ r = q \o << m >>
    BY DEF Adds
<1>1. N \in Nat /\ Len(r) = N + 1 /\ r[N + 1] = m /\ \A n \in 1..N : r[n] = q[n]
    <2>1. one \in Seq(Message) /\ Len(one) = 1 /\ one[1] = m /\ r = q \o one
        BY <1>0
    <2>3. N \in Nat
        BY <1>0
    <2> HIDE DEF one
    <2>2. /\ Len(r) = N + Len(one)
          /\ \A n \in 1..N + Len(one) : r[n] = IF n <= N THEN q[n] ELSE one[n - N]
        BY <1>0, <2>1, ConcatProperties
    <2> HIDE DEF N
    <2> QED BY <2>1, <2>2, <2>3
<1>2. N = Len(q)
    OBVIOUS
<1> HIDE DEF N
<1>3. (\A n \in 1..N + 1 : n = N + 1 \/ n \in 1..N) /\ (\A n \in 1..N : n \in 1..N + 1) /\ N + 1 \in 1..N + 1
    BY <1>1
<1>4. \A n \in LinesOf(o, r, u) : n \in LinesOf(o, q, u) \/ (Of(o, m) = u /\ n = m)
    <2> SUFFICES ASSUME NEW k \in 1..N + 1, Of(o, r[k]) = u
                 PROVE  r[k] \in LinesOf(o, q, u) \/ (Of(o, m) = u /\ r[k] = m)
        BY <1>1 DEF LinesOf
    <2> QED BY <1>1, <1>2, <1>3 DEF LinesOf
<1>5. LinesOf(o, q, u) \subseteq LinesOf(o, r, u)
    BY <1>1, <1>2, <1>3 DEF LinesOf
<1>6. Of(o, m) = u => m \in LinesOf(o, r, u)
    BY <1>1, <1>3 DEF LinesOf
<1>7. Once(o, q, u) /\ (Of(o, m) = u /\ m.type = "NICK" => ~Heralds(o, q, u)) => Once(o, r, u)
    <2> SUFFICES ASSUME Once(o, q, u), Of(o, m) = u /\ m.type = "NICK" => ~Heralds(o, q, u),
                        NEW j \in 1..N + 1, NEW k \in 1..N + 1,
                        Of(o, r[j]) = u, r[j].type = "NICK", Of(o, r[k]) = u, r[k].type = "NICK"
                 PROVE  j = k
        BY <1>1 DEF Once
    <2>1. ASSUME NEW i \in 1..N, Of(o, q[i]) = u, q[i].type = "NICK" PROVE Heralds(o, q, u)
        BY <1>2, <2>1 DEF Heralds, LinesOf
    <2> QED BY <1>1, <1>2, <1>3, <2>1 DEF Once
<1> QED BY <1>0, <1>4, <1>5, <1>6, <1>7

(* ... and one taken from its head.                                        *)
LEMMA TakesIs ==
    ASSUME NEW o, NEW u, NEW q, NEW m, NEW r, Takes(q, m, r)
    PROVE  /\ m \in Message /\ q \in Seq(Message) /\ r \in Seq(Message)
           /\ \A n : n \in LinesOf(o, q, u) <=> n \in LinesOf(o, r, u) \/ (Of(o, m) = u /\ n = m)
           /\ Once(o, q, u) => Once(o, r, u) /\ (Of(o, m) = u /\ m.type = "NICK" => ~Heralds(o, r, u))
<1> DEFINE N == Len(r)
<1>0. q \in Seq(Message) /\ q # << >> /\ m = q[1] /\ r = Tail(q)
    BY DEF Takes
<1>1. /\ N \in Nat /\ Len(q) = N + 1 /\ (\A n \in 1..N : r[n] = q[n + 1]) /\ r \in Seq(Message)
    <2>1. /\ r \in Seq(Message) /\ Len(r) = Len(q) - 1
          /\ \A n \in 1..Len(r) : r[n] = q[n + 1]
        BY <1>0, HeadTailProperties
    <2>2. Len(q) \in Nat \ {0}
        BY <1>0, EmptySeq
    <2> QED BY <2>1, <2>2
<1>2. N = Len(r)
    OBVIOUS
<1> HIDE DEF N
<1>3. (\A n \in 1..N : n + 1 \in 1..N + 1) /\ 1 \in 1..N + 1
      /\ (\A n \in 1..N + 1 : n = 1 \/ (n - 1 \in 1..N /\ (n - 1) + 1 = n))
      /\ (\A n \in 1..N : n + 1 # 1) /\ (\A i, j \in 1..N : i + 1 = j + 1 => i = j)
    BY <1>1
<1>4. LinesOf(o, r, u) \subseteq LinesOf(o, q, u)
    <2> SUFFICES ASSUME NEW k \in 1..N, Of(o, r[k]) = u PROVE r[k] \in LinesOf(o, q, u)
        BY <1>2 DEF LinesOf
    <2>1. k + 1 \in 1..Len(q) /\ r[k] = q[k + 1]
        BY <1>1, <1>3
    <2> QED BY <2>1 DEF LinesOf
<1>5. Of(o, m) = u => m \in LinesOf(o, q, u)
    BY <1>0, <1>1, <1>3 DEF LinesOf
<1>6. \A n \in LinesOf(o, q, u) : n \in LinesOf(o, r, u) \/ (Of(o, m) = u /\ n = m)
    <2> SUFFICES ASSUME NEW k \in 1..N + 1, Of(o, q[k]) = u
                 PROVE  q[k] \in LinesOf(o, r, u) \/ (Of(o, m) = u /\ q[k] = m)
        BY <1>1 DEF LinesOf
    <2>1. CASE k = 1
        BY <1>0, <2>1
    <2>2. CASE k # 1
        <3>1. PICK n \in 1..N : n = k - 1 /\ n + 1 = k
            BY <1>3, <2>2
        <3>2. q[k] = r[n]
            BY <1>1, <3>1
        <3> QED BY <1>2, <3>1, <3>2 DEF LinesOf
    <2> QED BY <2>1, <2>2
<1>7. ASSUME Once(o, q, u) PROVE Once(o, r, u)
    <2> SUFFICES ASSUME NEW j \in 1..N, NEW k \in 1..N,
                        Of(o, r[j]) = u, r[j].type = "NICK", Of(o, r[k]) = u, r[k].type = "NICK"
                 PROVE  j = k
        BY <1>2 DEF Once
    <2>1. j + 1 \in 1..Len(q) /\ k + 1 \in 1..Len(q) /\ r[j] = q[j + 1] /\ r[k] = q[k + 1]
        BY <1>1, <1>3
    <2>2. j + 1 = k + 1
        BY <1>7, <2>1 DEF Once
    <2> QED BY <1>3, <2>2
<1>8. ASSUME Once(o, q, u), Of(o, m) = u, m.type = "NICK", Heralds(o, r, u) PROVE FALSE
    <2>1. PICK k \in 1..N : Of(o, r[k]) = u /\ r[k].type = "NICK"
        BY <1>2, <1>8 DEF Heralds, LinesOf
    <2>2. k + 1 \in 1..Len(q) /\ r[k] = q[k + 1] /\ 1 \in 1..Len(q)
        BY <1>1, <1>3
    <2>3. k + 1 = 1
        BY <1>0, <1>8, <2>1, <2>2 DEF Once
    <2> QED BY <1>3, <2>3
<1>9. m \in Message
    BY <1>0, <1>1, <1>3
<1> QED BY <1>0, <1>1, <1>4, <1>5, <1>6, <1>7, <1>8, <1>9

(* A queue without lines about u leaves him as he is.                      *)
LEMMA TraceNone ==
    ASSUME NEW o, NEW q \in Seq(Message), NEW u, LinesOf(o, q, u) = {}, NEW a \in Name
    PROVE  Trace(o, q, u, a, a)
<1> DEFINE w == [k \in 0..Len(q) |-> a]
<1>1. \A k \in 1..Len(q) : Turns(o, u, a, q[k], a)
    <2> SUFFICES ASSUME NEW k \in 1..Len(q) PROVE Turns(o, u, a, q[k], a)
        OBVIOUS
    <2>1. q[k] \in Message
        OBVIOUS
    <2>2. Of(o, q[k]) # u
        BY DEF LinesOf
    <2>3. q[k].type # "SQUIT"
        BY <2>1 DEF Message
    <2> QED BY <2>2, <2>3 DEF Turns
<1>2. Len(q) \in Nat
    OBVIOUS
<1>3. /\ w \in [0..Len(q) -> Name] /\ w[0] = a /\ w[Len(q)] = a
      /\ \A k \in 1..Len(q) : w[k - 1] = a /\ w[k] = a
    BY <1>2
<1> HIDE DEF w
<1> QED BY <1>1, <1>3 DEF Trace

-----------------------------------------------------------------------------
LEMMA AddsTrace ==
    ASSUME NEW o, NEW u, NEW q, NEW m, NEW r, Adds(q, m, r),
           NEW a, NEW b, NEW c \in Name, Trace(o, q, u, a, b), Turns(o, u, b, m, c)
    PROVE  Trace(o, r, u, a, c)
<1>1. q \in Seq(Message) /\ m \in Message /\ r = q \o << m >>
    BY DEF Adds
<1>2. Trace(o, q \o << m >>, u, a, c)
    BY <1>1, TraceGrows
<1> QED BY <1>1, <1>2

LEMMA TakesTrace ==
    ASSUME NEW o, NEW u, NEW q, NEW m, NEW r, Takes(q, m, r), NEW a, NEW b, Trace(o, q, u, a, b)
    PROVE  \E c \in Name : Turns(o, u, a, m, c) /\ Trace(o, r, u, c, b)
<1>1. q \in Seq(Message) /\ q # << >> /\ m = q[1] /\ r = Tail(q)
    BY DEF Takes
<1> QED BY <1>1, TraceShrinks

(* Lines about somebody else.                                              *)
LEMMA IdleAdds ==
    ASSUME NEW o, NEW u, NEW q, NEW m, NEW r, Adds(q, m, r), Of(o, m) # u
    PROVE  Idle(o, q, r, u)
<1>1. LinesOf(o, r, u) = LinesOf(o, q, u) /\ (Once(o, q, u) => Once(o, r, u)) /\ m \in Message /\ q \in Seq(Message)
    <2>1. /\ \A n : n \in LinesOf(o, r, u) <=> n \in LinesOf(o, q, u)
          /\ (Once(o, q, u) => Once(o, r, u)) /\ m \in Message /\ q \in Seq(Message)
        BY AddsIs
    <2> QED BY <2>1
<1>2. ASSUME NEW a, NEW b, Trace(o, q, u, a, b) PROVE Trace(o, r, u, a, b)
    <2>1. b \in Name
        BY <1>1, <1>2, TraceNames
    <2>2. Turns(o, u, b, m, b)
        BY <1>1 DEF Turns, Message
    <2> QED BY <1>2, <2>1, <2>2, AddsTrace
<1> QED BY <1>1, <1>2 DEF Idle

LEMMA IdleTakes ==
    ASSUME NEW o, NEW u, NEW q, NEW m, NEW r, Takes(q, m, r), Of(o, m) # u
    PROVE  Idle(o, q, r, u)
<1>1. LinesOf(o, r, u) = LinesOf(o, q, u) /\ (Once(o, q, u) => Once(o, r, u)) /\ m \in Message
    <2>1. /\ \A n : n \in LinesOf(o, r, u) <=> n \in LinesOf(o, q, u)
          /\ (Once(o, q, u) => Once(o, r, u)) /\ m \in Message
        BY TakesIs
    <2> QED BY <2>1
<1>2. ASSUME NEW a, NEW b, Trace(o, q, u, a, b) PROVE Trace(o, r, u, a, b)
    <2>1. PICK c \in Name : Turns(o, u, a, m, c) /\ Trace(o, r, u, c, b)
        BY <1>2, TakesTrace
    <2>2. c = a
        BY <1>1, <2>1 DEF Turns, Message
    <2> QED BY <2>1, <2>2
<1> QED BY <1>1, <1>2 DEF Idle

(* What s, on the same side as u's own server, and its neighbour t know of *)
(* u, in v and w, fits the lines q from s to t and r from t to s: either   *)
(* t will know what s knows, or t has lost u, will not be told of him      *)
(* again, and has told s to kill him if s has not lost him yet.  Only      *)
(* KILLs go back, and they name u by a nick that s finds him by.           *)
Agreed(o, u, v, q, w, r) ==
    Trace(o, q, u, NickOf(w, u), NickOf(v, u)) /\ LinesOf(o, r, u) = {}
LostTo(o, u, v, q, w, r) ==
    /\ NickOf(w, u) = NoNick /\ ~Heralds(o, q, u)
    /\ NickOf(v, u) # NoNick => LinesOf(o, r, u) # {}
Homeward(o, u, r) == \A m \in LinesOf(o, r, u) : m.type = "KILL"
Finds(o, u, v, q, w, r) ==
    NickOf(v, u) # NoNick =>
        LET P == Past(v, u) \union {NoNick} IN
        /\ NickOf(w, u) \in P
        /\ \A m \in LinesOf(o, q, u) : From(m) \in P /\ To(m) \in P
        /\ \A m \in LinesOf(o, r, u) : From(m) \in P
Fit(o, u, v, q, w, r) ==
    /\ Agreed(o, u, v, q, w, r) \/ LostTo(o, u, v, q, w, r)
    /\ Homeward(o, u, r) /\ Finds(o, u, v, q, w, r)

(* Lines about u, by their types.                                          *)
LEMMA NickTypes ==
    ASSUME NEW m \in Message
    PROVE  /\ m.type \in {"NICK", "CHANGE", "KILL", "QUIT"}
           /\ m.type # "NICK" => From(m) \in Nick /\ From(m) # NoNick
           /\ m.type \in {"NICK", "CHANGE"} => To(m) \in Nick /\ To(m) # NoNick
           /\ m.type \in {"KILL", "QUIT"} => To(m) = NoNick
           /\ m.type = "NICK" => From(m) = NoNick
           /\ To(m) \in Name
<1>1. m.type \in {"NICK", "CHANGE", "KILL", "QUIT"} /\ NoNick \notin Nick
    BY NickAssumption DEF Message
<1>2. /\ m.type \in {"NICK", "CHANGE"} => m.nick \in Nick
      /\ m.type = "CHANGE" => m.old \in Nick
      /\ m.type \in {"KILL", "QUIT"} => m.nick \in Nick
    BY DEF Message
<1> QED BY <1>1, <1>2 DEF From, To, Name

LEMMA PastIs ==
    ASSUME NEW v \in View, NEW u \in User
    PROVE  NickOf(v, u) \in Past(v, u) \union {NoNick} /\ NickOf(v, u) \in Name
BY DEF NickOf, Past, View, Client, Name

(* A step that is no concern of u's.                                       *)
LEMMA FitIdle ==
    ASSUME NEW o, NEW u, NEW v, NEW q, NEW w, NEW r, Fit(o, u, v, q, w, r),
           NEW v2, NEW q2, NEW w2, NEW r2, Idle(o, q, q2, u), Idle(o, r, r2, u),
           Same(v, v2, u), NickOf(w2, u) = NickOf(w, u)
    PROVE  Fit(o, u, v2, q2, w2, r2)
<1>1. LinesOf(o, q2, u) = LinesOf(o, q, u) /\ LinesOf(o, r2, u) = LinesOf(o, r, u)
    BY DEF Idle
<1>2. NickOf(v2, u) = NickOf(v, u) /\ (NickOf(v, u) # NoNick => Past(v, u) \subseteq Past(v2, u))
    BY DEF Same, Keeps
<1>3. Agreed(o, u, v, q, w, r) => Agreed(o, u, v2, q2, w2, r2)
    BY <1>1, <1>2 DEF Agreed, Idle
<1>4. LostTo(o, u, v, q, w, r) => LostTo(o, u, v2, q2, w2, r2)
    BY <1>1, <1>2 DEF LostTo, Heralds
<1>5. Homeward(o, u, r2)
    BY <1>1 DEF Fit, Homeward
<1>6. Finds(o, u, v2, q2, w2, r2)
    BY <1>1, <1>2 DEF Fit, Finds
<1> QED BY <1>3, <1>4, <1>5, <1>6 DEF Fit

(* s says something about u, whom it knew, to t.                           *)
LEMMA FitOut ==
    ASSUME NEW o, NEW u \in User, NEW v \in View, NEW q, NEW w, NEW r, Fit(o, u, v, q, w, r),
           NEW v2 \in View, NEW q2, NEW w2, NEW m, Adds(q, m, q2), Of(o, m) = u, m.type # "NICK",
           NickOf(v, u) = From(m), NickOf(v2, u) = To(m), Keeps(v, v2, u), NickOf(w2, u) = NickOf(w, u)
    PROVE  Fit(o, u, v2, q2, w2, r)
<1>1. \A n : n \in LinesOf(o, q2, u) <=> n \in LinesOf(o, q, u) \/ n = m
    BY AddsIs
<1>2. m \in Message /\ From(m) # NoNick /\ To(m) \in Name
    BY AddsIs, NickTypes
<1>3. Agreed(o, u, v, q, w, r) => Agreed(o, u, v2, q2, w2, r)
    <2>1. Turns(o, u, NickOf(v, u), m, NickOf(v2, u)) /\ NickOf(v2, u) \in Name
        BY <1>2 DEF Turns
    <2> QED BY <2>1, AddsTrace DEF Agreed
<1>4. LostTo(o, u, v, q, w, r) => LostTo(o, u, v2, q2, w2, r)
    BY <1>1, <1>2 DEF LostTo, Heralds
<1>5. Finds(o, u, v2, q2, w2, r)
    <2> SUFFICES ASSUME NickOf(v2, u) # NoNick PROVE Finds(o, u, v2, q2, w2, r)
        BY DEF Finds
    <2> DEFINE P == Past(v, u) \union {NoNick}
               P2 == Past(v2, u) \union {NoNick}
    <2>1. P \subseteq P2 /\ From(m) \in P /\ To(m) \in P2
        BY <1>2, PastIs DEF Keeps
    <2>2. /\ NickOf(w, u) \in P
          /\ \A n \in LinesOf(o, q, u) : From(n) \in P /\ To(n) \in P
          /\ \A n \in LinesOf(o, r, u) : From(n) \in P
        BY <1>2 DEF Fit, Finds
    <2> QED BY <1>1, <2>1, <2>2 DEF Finds
<1> QED BY <1>3, <1>4, <1>5 DEF Fit

(* s introduces u to t.                                                    *)
LEMMA FitNew ==
    ASSUME NEW o, NEW u \in User, NEW v, NEW q, NEW w, NEW r,
           NickOf(v, u) = NoNick, NickOf(w, u) = NoNick, LinesOf(o, q, u) = {}, LinesOf(o, r, u) = {},
           NEW v2 \in View, NEW q2, NEW w2, NEW m, Adds(q, m, q2), Of(o, m) = u, m.type = "NICK",
           NickOf(v2, u) = To(m), NickOf(w2, u) = NickOf(w, u)
    PROVE  Fit(o, u, v2, q2, w2, r)
<1>1. \A n : n \in LinesOf(o, q2, u) <=> n = m
    BY AddsIs
<1>2. m \in Message /\ From(m) = NoNick /\ To(m) \in Name /\ q \in Seq(Message)
    BY AddsIs, NickTypes
<1>3. Agreed(o, u, v2, q2, w2, r)
    <2>1. NoNick \in Name
        BY DEF Name
    <2>2. Trace(o, q, u, NoNick, NoNick)
        BY <1>2, <2>1, TraceNone
    <2>3. Turns(o, u, NoNick, m, To(m))
        BY <1>2 DEF Turns
    <2> QED BY <1>2, <2>2, <2>3, AddsTrace DEF Agreed
<1>4. Homeward(o, u, r)
    BY DEF Homeward
<1>5. Finds(o, u, v2, q2, w2, r)
    <2>1. To(m) \in Past(v2, u) \union {NoNick}
        BY PastIs
    <2> QED BY <1>1, <1>2, <2>1 DEF Finds
<1> QED BY <1>3, <1>4, <1>5 DEF Fit

(* t kills u, and tells s.                                                 *)
LEMMA FitKill ==
    ASSUME NEW o, NEW u \in User, NEW v, NEW q, NEW w, NEW r, Fit(o, u, v, q, w, r),
           NEW v2, NEW w2, NEW r2, NEW m, Adds(r, m, r2), Of(o, m) = u, m.type = "KILL", ~Heralds(o, q, u),
           Same(v, v2, u), NickOf(w, u) = From(m), NickOf(w2, u) = NoNick
    PROVE  Fit(o, u, v2, q, w2, r2)
<1>1. \A n : n \in LinesOf(o, r2, u) <=> n \in LinesOf(o, r, u) \/ n = m
    BY AddsIs
<1>2. NickOf(v2, u) = NickOf(v, u) /\ (NickOf(v, u) # NoNick => Past(v, u) \subseteq Past(v2, u))
    BY DEF Same, Keeps
<1>3. LostTo(o, u, v2, q, w2, r2)
    BY <1>1 DEF LostTo
<1>4. Homeward(o, u, r2)
    BY <1>1 DEF Fit, Homeward
<1>5. Finds(o, u, v2, q, w2, r2)
    BY <1>1, <1>2 DEF Fit, Finds
<1> QED BY <1>3, <1>4, <1>5 DEF Fit

(* t reads a line about u from s, and finds him.                           *)
LEMMA FitTake ==
    ASSUME NEW o, NEW u \in User, NEW v, NEW q, NEW w, NEW r, Fit(o, u, v, q, w, r),
           NEW v2, NEW q2, NEW w2, NEW m, Takes(q, m, q2), Of(o, m) = u,
           NEW n \in Message, n.type = m.type, m.type # "KILL" => To(n) = To(m),
           NickOf(w, u) = From(n), NickOf(w2, u) = To(n), Same(v, v2, u)
    PROVE  Fit(o, u, v2, q2, w2, r)
<1>1. /\ \A k : k \in LinesOf(o, q, u) <=> k \in LinesOf(o, q2, u) \/ k = m
      /\ m \in Message
    BY TakesIs
<1>2. NickOf(v2, u) = NickOf(v, u) /\ (NickOf(v, u) # NoNick => Past(v, u) \subseteq Past(v2, u))
    BY DEF Same, Keeps
<1>3. ~LostTo(o, u, v, q, w, r)
    <2> SUFFICES ASSUME LostTo(o, u, v, q, w, r) PROVE FALSE
        OBVIOUS
    <2>1. m.type # "NICK"
        BY <1>1 DEF LostTo, Heralds
    <2> QED BY <2>1, NickTypes DEF LostTo
<1>4. To(n) = To(m)
    BY <1>1, NickTypes
<1>5. Agreed(o, u, v2, q2, w2, r)
    <2>1. Trace(o, q, u, NickOf(w, u), NickOf(v, u)) /\ LinesOf(o, r, u) = {}
        BY <1>3 DEF Fit, Agreed
    <2>2. PICK c \in Name : Turns(o, u, NickOf(w, u), m, c) /\ Trace(o, q2, u, c, NickOf(v, u))
        BY <2>1, TakesTrace
    <2>3. c = NickOf(w2, u)
        BY <1>4, <2>2 DEF Turns
    <2> QED BY <1>2, <2>1, <2>2, <2>3 DEF Agreed
<1>6. Homeward(o, u, r)
    BY DEF Fit
<1>7. Finds(o, u, v2, q2, w2, r)
    BY <1>1, <1>2, <1>4 DEF Fit, Finds
<1> QED BY <1>5, <1>6, <1>7 DEF Fit

(* s reads a KILL from t, and finds him.                                   *)
LEMMA FitDie ==
    ASSUME NEW o, NEW u \in User, NEW v, NEW q, NEW w, NEW r, Fit(o, u, v, q, w, r),
           NEW v2, NEW w2, NEW r2, NEW m, Takes(r, m, r2), Of(o, m) = u,
           NickOf(v2, u) = NoNick, NickOf(w2, u) = NickOf(w, u)
    PROVE  Fit(o, u, v2, q, w2, r2)
<1>1. \A k : k \in LinesOf(o, r, u) <=> k \in LinesOf(o, r2, u) \/ k = m
    BY TakesIs
<1>2. LostTo(o, u, v, q, w, r)
    BY <1>1 DEF Fit, Agreed
<1>3. LostTo(o, u, v2, q, w2, r2)
    BY <1>2 DEF LostTo
<1>4. Homeward(o, u, r2)
    BY <1>1 DEF Fit, Homeward
<1> QED BY <1>3, <1>4 DEF Fit, Finds

(* t does not find him, and may tell s so.                                 *)
LEMMA FitMiss ==
    ASSUME NEW o, NEW u \in User, NEW v, NEW q, NEW w, NEW r, Fit(o, u, v, q, w, r),
           NEW v2, NEW q2, NEW w2, NEW r2, NEW m, Takes(q, m, q2), Of(o, m) = u, NickOf(w, u) # From(m),
           Same(v, v2, u), NickOf(w2, u) = NickOf(w, u),
           r2 = r \/ \E k : Adds(r, k, r2) /\ Of(o, k) = u /\ k.type = "KILL" /\ From(k) = From(m)
    PROVE  Fit(o, u, v2, q2, w2, r2) /\ ~Heralds(o, q, u)
<1>1. /\ \A k : k \in LinesOf(o, q, u) <=> k \in LinesOf(o, q2, u) \/ k = m
      /\ m \in Message
    BY TakesIs
<1>2. NickOf(v2, u) = NickOf(v, u) /\ (NickOf(v, u) # NoNick => Past(v, u) \subseteq Past(v2, u))
    BY DEF Same, Keeps
<1>3. ~Agreed(o, u, v, q, w, r)
    <2> SUFFICES ASSUME Agreed(o, u, v, q, w, r) PROVE FALSE
        OBVIOUS
    <2>1. PICK c \in Name : Turns(o, u, NickOf(w, u), m, c)
        BY TakesTrace DEF Agreed
    <2> QED BY <2>1 DEF Turns
<1>4. LostTo(o, u, v, q, w, r)
    BY <1>3 DEF Fit
<1>5. /\ \A k \in LinesOf(o, r, u) : k \in LinesOf(o, r2, u)
      /\ \A k \in LinesOf(o, r2, u) : k \in LinesOf(o, r, u) \/ (k.type = "KILL" /\ From(k) = From(m))
    <2>1. CASE r2 = r
        BY <2>1
    <2>2. CASE r2 # r
        <3>1. PICK k : Adds(r, k, r2) /\ Of(o, k) = u /\ k.type = "KILL" /\ From(k) = From(m)
            BY <2>2
        <3>2. \A n : n \in LinesOf(o, r2, u) <=> n \in LinesOf(o, r, u) \/ n = k
            BY <3>1, AddsIs
        <3> QED BY <3>1, <3>2
    <2> QED BY <2>1, <2>2
<1>6. LostTo(o, u, v2, q2, w2, r2)
    BY <1>1, <1>2, <1>4, <1>5 DEF LostTo, Heralds
<1>7. Homeward(o, u, r2)
    BY <1>5 DEF Fit, Homeward
<1>8. Finds(o, u, v2, q2, w2, r2)
    BY <1>1, <1>2, <1>5 DEF Fit, Finds
<1> QED BY <1>4, <1>6, <1>7, <1>8 DEF Fit, LostTo

(* s does not find him any more.                                           *)
LEMMA FitGone ==
    ASSUME NEW o, NEW u \in User, NEW v, NEW q, NEW w, NEW r, Fit(o, u, v, q, w, r),
           NEW v2, NEW w2, NEW r2, NEW m, Takes(r, m, r2), Of(o, m) = u, From(m) \notin Past(v, u),
           Same(v, v2, u), NickOf(w2, u) = NickOf(w, u)
    PROVE  Fit(o, u, v2, q, w2, r2)
<1>1. /\ \A k : k \in LinesOf(o, r, u) <=> k \in LinesOf(o, r2, u) \/ k = m
      /\ m \in Message
    BY TakesIs
<1>2. m.type = "KILL" /\ From(m) # NoNick
    BY <1>1, NickTypes DEF Fit, Homeward
<1>3. NickOf(v, u) = NoNick
    BY <1>1, <1>2 DEF Fit, Finds
<1>4. NickOf(v2, u) = NoNick
    BY <1>3 DEF Same
<1>5. LostTo(o, u, v, q, w, r)
    BY <1>1 DEF Fit, Agreed
<1>6. LostTo(o, u, v2, q, w2, r2)
    BY <1>4, <1>5 DEF LostTo
<1>7. Homeward(o, u, r2)
    BY <1>1 DEF Fit, Homeward
<1> QED BY <1>4, <1>6, <1>7 DEF Fit, Finds

-----------------------------------------------------------------------------
(* All servers, in views v and queues q.                                   *)

(* Every link is up.                                                       *)
Linked ==
    /\ \A s \in Server : links[s] = Neighbour(s)
    /\ \A s, t \in Server : net[s][t] \in Seq(Message) /\ (t \notin Neighbour(s) => net[s][t] = << >>)

(* The servers of D have never heard of u.                                 *)
Silent(o, u, v, q, D) ==
    \A x \in D : NickOf(v[x], u) = NoNick /\ \A y \in Server : LinesOf(o, q[x][y], u) = {}

(* Whoever is introduced is new where the line goes.                       *)
Ahead(o, u, v, q) ==
    \A s \in Server : \A t \in Neighbour(s) :
        Heralds(o, q[s][t], u) => Silent(o, u, v, q, Behind(s, t))

AllFit(o, u, v, q) ==
    \A s \in Server : \A t \in Neighbour(s) :
        u \in Near(s, t) => Fit(o, u, v[s], q[s][t], v[t], q[t][s])

AllOnce(o, u, q) == \A x, y \in Server : Once(o, q[x][y], u)

(* s has lost u for good.                                                  *)
Never(o, u, v, q, s) ==
    /\ NickOf(v[s], u) = NoNick
    /\ \A x \in Server : \A y \in Neighbour(x) : Heralds(o, q[x][y], u) => s \notin Behind(x, y)

(* Not registered yet.                                                     *)
Unheard(u) ==
    \/ u \in fresh
    \/ at[home[u]].client[u].nick # NoNick /\ ~at[home[u]].client[u].known

UserOK(o, u) ==
    /\ AllFit(o, u, at, net) /\ Ahead(o, u, at, net) /\ AllOnce(o, u, net)
    /\ Unheard(u) => Silent(o, u, at, net, Server)
    /\ u \in killed => ~Unheard(u) /\ \E s \in Server : Never(o, u, at, net, s)

(* A step that is no concern of u's.                                       *)
LEMMA IdleUser ==
    ASSUME NEW o, NEW u, UserOK(o, u),
           \A x, y \in Server : Idle(o, net[x][y], net'[x][y], u),
           \A x \in Server : Same(at[x], at'[x], u),
           Unheard(u)' => Unheard(u),
           u \in killed' =>
               u \in killed \/ (~Unheard(u)' /\ \E s \in Server : Never(o, u, at, net, s))
    PROVE  UserOK(o, u)'
<1>1. \A x, y \in Server : LinesOf(o, net'[x][y], u) = LinesOf(o, net[x][y], u)
    BY DEF Idle
<1>2. \A x \in Server : NickOf(at'[x], u) = NickOf(at[x], u)
    BY DEF Same
<1>3. \A D \in SUBSET Server : Silent(o, u, at, net, D) => Silent(o, u, at', net', D)
    BY <1>1, <1>2 DEF Silent
<1>4. \A x, y \in Server : Heralds(o, net'[x][y], u) <=> Heralds(o, net[x][y], u)
    BY <1>1 DEF Heralds
<1>5. AllFit(o, u, at', net')
    <2> SUFFICES ASSUME NEW s \in Server, NEW t \in Neighbour(s), u \in Near(s, t)
                 PROVE  Fit(o, u, at'[s], net'[s][t], at'[t], net'[t][s])
        BY DEF AllFit
    <2>1. t \in Server /\ Fit(o, u, at[s], net[s][t], at[t], net[t][s])
        BY Neighbours DEF UserOK, AllFit
    <2> QED BY <1>2, <2>1, FitIdle
<1>6. Ahead(o, u, at', net')
    <2> SUFFICES ASSUME NEW s \in Server, NEW t \in Neighbour(s), Heralds(o, net'[s][t], u)
                 PROVE  Silent(o, u, at', net', Behind(s, t))
        BY DEF Ahead
    <2>1. t \in Server
        BY Neighbours
    <2>2. Silent(o, u, at, net, Behind(s, t))
        BY <1>4, <2>1 DEF UserOK, Ahead
    <2> QED BY <1>3, <2>2, BehindType
<1>7. AllOnce(o, u, net')
    BY DEF AllOnce, UserOK, Idle
<1>8. Unheard(u)' => Silent(o, u, at', net', Server)
    BY <1>3 DEF UserOK
<1>9. ASSUME NEW s \in Server, Never(o, u, at, net, s) PROVE Never(o, u, at', net', s)
    BY <1>2, <1>4, <1>9, Neighbours DEF Never
<1> QED BY <1>5, <1>6, <1>7, <1>8, <1>9 DEF UserOK

(* The queues after each step.                                             *)
LEMMA LinkedIs ==
    ASSUME Linked
    PROVE  /\ \A s, t \in Server : net[s][t] \in Seq(Message) /\ (t \notin Neighbour(s) => net[s][t] = << >>)
           /\ \A s \in Server : links[s] = Neighbour(s)
BY DEF Linked

LEMMA SaysQueues ==
    ASSUME Linked, net \in Queues(Message), NEW o, NEW w, NEW p, NEW m, Says(o, w, p, m)
    PROVE  /\ \A x, y \in Server :
                 IF x = p /\ y \in Neighbour(p) THEN Adds(net[x][y], m, net'[x][y])
                 ELSE net'[x][y] = net[x][y]
           /\ p \in Server /\ m \in Message
<1> DEFINE one == << m >>
<1>1. p \in Server /\ m \in Message /\ net' = Sent(p, {}, one)
    BY DEF Says
<1>2. one = << m >>
    OBVIOUS
<1> HIDE DEF one
<1>3. \A x, y \in Server :
          net'[x][y] = IF x = p /\ y \in links[p] THEN net[x][y] \o one ELSE net[x][y]
    BY <1>1, SentAll
<1>4. ASSUME NEW x \in Server, NEW y \in Server, x = p, y \in Neighbour(p)
      PROVE  Adds(net[x][y], m, net'[x][y])
    <2>1. net[x][y] \in Seq(Message) /\ net'[x][y] = net[x][y] \o << m >>
        BY <1>1, <1>2, <1>3, <1>4, LinkedIs
    <2> QED BY <1>1, <2>1 DEF Adds
<1> QED BY <1>1, <1>3, <1>4, LinkedIs

LEMMA AnswerQueues ==
    ASSUME Linked, net \in Queues(Message), NEW s \in Server, NEW t \in Server, NEW type, Arrives(s, t, type)
    PROVE  /\ t \in Neighbour(s) /\ s \in Neighbour(t) /\ s # t
           /\ Takes(net[s][t], Head(net[s][t]), Tail(net[s][t]))
           /\ \A back, lines : \A x, y \in Server :
                 Answered(s, t, back, lines)[x][y] =
                     IF x = s /\ y = t THEN Tail(net[s][t])
                     ELSE IF x = t /\ y = s THEN net[t][s] \o back
                     ELSE IF x = t /\ y \in Neighbour(t) THEN net[x][y] \o lines
                     ELSE net[x][y]
<1>1. net[s][t] \in Seq(Message) /\ net[s][t] # << >>
    BY LinkedIs DEF Arrives
<1>2. t \in Neighbour(s) /\ s \in Neighbour(t) /\ s # t
    BY <1>1, LinkedIs, Neighbours
<1>3. Takes(net[s][t], Head(net[s][t]), Tail(net[s][t]))
    BY <1>1 DEF Takes
<1>4. ASSUME NEW back, NEW lines
      PROVE  \A x, y \in Server :
                 Answered(s, t, back, lines)[x][y] =
                     IF x = s /\ y = t THEN Tail(net[s][t])
                     ELSE IF x = t /\ y = s THEN net[t][s] \o back
                     ELSE IF x = t /\ y \in Neighbour(t) THEN net[x][y] \o lines
                     ELSE net[x][y]
    BY <1>2, AnsweredIs, LinkedIs
<1> QED BY <1>2, <1>3, <1>4

LEMMA HearsQueues ==
    ASSUME Linked, net \in Queues(Message), NEW o, NEW w, NEW s, NEW t, NEW m, NEW n, Hears(o, w, s, t, m, n)
    PROVE  /\ s \in Server /\ t \in Neighbour(s) /\ s \in Neighbour(t) /\ t \in Server /\ s # t
           /\ Takes(net[s][t], m, net'[s][t])
           /\ \A x, y \in Server : ~(x = s /\ y = t) =>
                 IF x = t /\ y \in Neighbour(t) \ {s} THEN Adds(net[x][y], n, net'[x][y])
                 ELSE net'[x][y] = net[x][y]
<1> DEFINE none == << >>
           one == << n >>
<1>1. /\ s \in Server /\ t \in Server /\ n \in Message /\ m = Head(net[s][t]) /\ Arrives(s, t, m.type)
      /\ net' = Answered(s, t, none, one)
    BY DEF Hears, Taken
<1>2. one = << n >> /\ none = << >>
    OBVIOUS
<1> HIDE DEF none, one
<1>3. /\ t \in Neighbour(s) /\ s \in Neighbour(t) /\ s # t
      /\ Takes(net[s][t], Head(net[s][t]), Tail(net[s][t]))
      /\ \A x, y \in Server :
            Answered(s, t, none, one)[x][y] =
                IF x = s /\ y = t THEN Tail(net[s][t])
                ELSE IF x = t /\ y = s THEN net[t][s] \o none
                ELSE IF x = t /\ y \in Neighbour(t) THEN net[x][y] \o one
                ELSE net[x][y]
    BY <1>1, AnswerQueues
<1>4. \A x, y \in Server :
          net'[x][y] =
              IF x = s /\ y = t THEN Tail(net[s][t])
              ELSE IF x = t /\ y = s THEN net[t][s] \o none
              ELSE IF x = t /\ y \in Neighbour(t) THEN net[x][y] \o one
              ELSE net[x][y]
    BY <1>1, <1>3
<1>5. Takes(net[s][t], m, net'[s][t])
    BY <1>1, <1>3, <1>4
<1>6. net[t][s] \o none = net[t][s]
    <2>1. net[t][s] \in Seq(Message)
        BY <1>1, LinkedIs
    <2> QED BY <1>2, <2>1
<1>7. ASSUME NEW x \in Server, NEW y \in Server, x = t, y \in Neighbour(t) \ {s}
      PROVE  Adds(net[x][y], n, net'[x][y])
    <2>1. net[x][y] \in Seq(Message) /\ net'[x][y] = net[x][y] \o << n >>
        BY <1>2, <1>3, <1>4, <1>7, LinkedIs
    <2> QED BY <1>1, <2>1 DEF Adds
<1>8. ASSUME NEW x \in Server, NEW y \in Server, ~(x = s /\ y = t), ~(x = t /\ y \in Neighbour(t) \ {s})
      PROVE  net'[x][y] = net[x][y]
    BY <1>3, <1>4, <1>6, <1>8
<1> QED BY <1>1, <1>3, <1>5, <1>7, <1>8

(* What t may answer.                                                      *)
Ghosts(o, u, m, q, r) ==
    r = q \/ \E k : Adds(q, k, r) /\ Of(o, k) = u /\ k.type = "KILL" /\ From(k) = From(m)

LEMMA DropsQueues ==
    ASSUME Linked, net \in Queues(Message), NEW o, NEW w, NEW s, NEW t, NEW m, NEW back, Drops(o, w, s, t, m, back)
    PROVE  /\ s \in Server /\ t \in Neighbour(s) /\ s \in Neighbour(t) /\ t \in Server /\ s # t
           /\ Takes(net[s][t], m, net'[s][t])
           /\ Ghosts(o, w, m, net[t][s], net'[t][s])
           /\ m.type = "KILL" => net'[t][s] = net[t][s]
           /\ \A x, y \in Server : ~(x = s /\ y = t) /\ ~(x = t /\ y = s) => net'[x][y] = net[x][y]
<1> DEFINE none == << >>
<1>1. /\ s \in Server /\ t \in Server /\ m \in Message /\ m = Head(net[s][t]) /\ Arrives(s, t, m.type)
      /\ net' = Answered(s, t, back, none) /\ Of(o, m) = w /\ m.type \in {"KILL", "CHANGE", "QUIT"}
      /\ back = << >> \/ (m.type # "KILL" /\ back = << KillLine(From(m)) >>)
    BY DEF Drops
<1>2. none = << >>
    OBVIOUS
<1> HIDE DEF none
<1>3. /\ t \in Neighbour(s) /\ s \in Neighbour(t) /\ s # t
      /\ Takes(net[s][t], Head(net[s][t]), Tail(net[s][t]))
      /\ \A x, y \in Server :
            Answered(s, t, back, none)[x][y] =
                IF x = s /\ y = t THEN Tail(net[s][t])
                ELSE IF x = t /\ y = s THEN net[t][s] \o back
                ELSE IF x = t /\ y \in Neighbour(t) THEN net[x][y] \o none
                ELSE net[x][y]
    BY <1>1, AnswerQueues
<1>4. \A x, y \in Server :
          net'[x][y] =
              IF x = s /\ y = t THEN Tail(net[s][t])
              ELSE IF x = t /\ y = s THEN net[t][s] \o back
              ELSE IF x = t /\ y \in Neighbour(t) THEN net[x][y] \o none
              ELSE net[x][y]
    BY <1>1, <1>3
<1>5. Takes(net[s][t], m, net'[s][t])
    BY <1>1, <1>3, <1>4
<1>6. \A x, y \in Server : net[x][y] \o none = net[x][y]
    <2> SUFFICES ASSUME NEW x \in Server, NEW y \in Server PROVE net[x][y] \o none = net[x][y]
        OBVIOUS
    <2>1. net[x][y] \in Seq(Message)
        BY <1>1, LinkedIs
    <2> QED BY <1>2, <2>1
<1>7. \A x, y \in Server : ~(x = s /\ y = t) /\ ~(x = t /\ y = s) => net'[x][y] = net[x][y]
    BY <1>4, <1>6
<1>8. net[t][s] \in Seq(Message) /\ net'[t][s] = net[t][s] \o back
    BY <1>1, <1>3, <1>4, LinkedIs
<1>9. CASE back = << >>
    <2>1. net'[t][s] = net[t][s]
        BY <1>8, <1>9
    <2> QED BY <1>1, <1>3, <1>5, <1>7, <2>1 DEF Ghosts
<1>10. CASE m.type # "KILL" /\ back = << KillLine(From(m)) >>
    <2> DEFINE k == KillLine(From(m))
    <2>1. From(m) \in Nick
        BY <1>1, NickTypes
    <2>2. k \in Message /\ k.type = "KILL" /\ k.nick = From(m)
        BY <2>1, LineIs
    <2>3. net'[t][s] = net[t][s] \o << k >>
        BY <1>8, <1>10
    <2> HIDE DEF k
    <2>4. Adds(net[t][s], k, net'[t][s])
        BY <1>8, <2>2, <2>3 DEF Adds
    <2>5. From(k) = From(m) /\ Of(o, k) = Of(o, m)
        BY <1>1, <1>10, <2>2 DEF From, Of
    <2>6. Ghosts(o, w, m, net[t][s], net'[t][s])
        BY <1>1, <2>2, <2>4, <2>5 DEF Ghosts
    <2> QED BY <1>1, <1>3, <1>5, <1>7, <1>10, <2>6
<1> QED BY <1>1, <1>9, <1>10

-----------------------------------------------------------------------------
(* Where u is, seen from a server p: nowhere if it is his own, else behind *)
(* one neighbour.                                                          *)
LEMMA Sides ==
    ASSUME NEW u \in User, NEW p \in Server
    PROVE  /\ \A s, x \in Neighbour(p) : u \in Near(s, p) /\ u \in Near(x, p) => s = x
           /\ \A s \in Neighbour(p) : u \in Near(s, p) => home[u] # p
           /\ \A s \in Neighbour(p) : u \in Near(s, p) <=> u \notin Near(p, s)
<1>1. \A s, x \in Neighbour(p) : u \in Near(s, p) /\ u \in Near(x, p) => s = x
    <2> SUFFICES ASSUME NEW s \in Neighbour(p), NEW x \in Neighbour(p), s # x,
                        u \in Near(s, p), u \in Near(x, p)
                 PROVE  FALSE
        OBVIOUS
    <2>1. \A y \in Neighbour(p) : y # x => Near(y, p) \intersect Near(x, p) = {}
        BY NearIs
    <2> QED BY <2>1
<1>2. \A s \in Neighbour(p) : u \in Near(s, p) => home[u] # p
    <2> SUFFICES ASSUME NEW s \in Neighbour(p), u \in Near(s, p), home[u] = p PROVE FALSE
        OBVIOUS
    <2>1. s \in Server /\ s # p /\ p \notin Behind(p, s)
        BY Neighbours, BehindIs
    <2> QED BY <2>1 DEF Near, UsersOf
<1>3. \A s \in Neighbour(p) : u \in Near(s, p) <=> u \notin Near(p, s)
    <2> SUFFICES ASSUME NEW s \in Neighbour(p) PROVE u \in Near(s, p) <=> u \notin Near(p, s)
        OBVIOUS
    <2>1. Near(p, s) \union Near(s, p) = User /\ Near(p, s) \intersect Near(s, p) = {}
        BY NearIs
    <2> QED BY <2>1
<1> QED BY <1>1, <1>2, <1>3

(* Somebody who is known somewhere, or spoken of, has registered.          *)
LEMMA IsHeard ==
    ASSUME NEW o, NEW u, UserOK(o, u), NEW x \in Server,
           NickOf(at[x], u) # NoNick \/ \E y \in Server : LinesOf(o, net[x][y], u) # {}
    PROVE  ~Unheard(u)
BY DEF UserOK, Silent

(* Steps of a server that knows u, and does not introduce him.             *)
LEMMA PlainAhead ==
    ASSUME NEW o, NEW u, NEW p \in Server, NickOf(at[p], u) # NoNick,
           \A x \in Server : x # p => NickOf(at'[x], u) = NickOf(at[x], u),
           \A x, y \in Server : x # p => LinesOf(o, net'[x][y], u) \subseteq LinesOf(o, net[x][y], u),
           \A x, y \in Server : Heralds(o, net'[x][y], u) => Heralds(o, net[x][y], u),
           Ahead(o, u, at, net)
    PROVE  /\ Ahead(o, u, at', net')
           /\ \A s \in Server : Never(o, u, at, net, s) => Never(o, u, at', net', s)
           /\ NickOf(at'[p], u) = NoNick => Never(o, u, at', net', p)
<1>1. ASSUME NEW s \in Server, NEW t \in Neighbour(s), Heralds(o, net'[s][t], u)
      PROVE  Silent(o, u, at, net, Behind(s, t)) /\ p \notin Behind(s, t)
    <2>1. t \in Server
        BY Neighbours
    <2>2. Silent(o, u, at, net, Behind(s, t))
        BY <1>1, <2>1 DEF Ahead
    <2> QED BY <2>2 DEF Silent
<1>2. Ahead(o, u, at', net')
    <2> SUFFICES ASSUME NEW s \in Server, NEW t \in Neighbour(s), Heralds(o, net'[s][t], u)
                 PROVE  Silent(o, u, at', net', Behind(s, t))
        BY DEF Ahead
    <2>1. Silent(o, u, at, net, Behind(s, t)) /\ p \notin Behind(s, t) /\ Behind(s, t) \subseteq Server
        BY <1>1, BehindType
    <2> QED BY <2>1 DEF Silent
<1>3. \A s \in Server : Never(o, u, at, net, s) => Never(o, u, at', net', s)
    BY Neighbours DEF Never
<1>4. NickOf(at'[p], u) = NoNick => Never(o, u, at', net', p)
    BY <1>1 DEF Never
<1> QED BY <1>2, <1>3, <1>4

(* A line about u other than an introduction, on its way.                  *)
LEMMA PlainLine ==
    ASSUME NEW o, NEW u, NEW q, NEW m, NEW r, Adds(q, m, r), m.type # "NICK"
    PROVE  (Heralds(o, r, u) => Heralds(o, q, u)) /\ (Once(o, q, u) => Once(o, r, u))
<1>1. /\ \A n : n \in LinesOf(o, r, u) <=> n \in LinesOf(o, q, u) \/ (Of(o, m) = u /\ n = m)
      /\ Once(o, q, u) /\ (Of(o, m) = u /\ m.type = "NICK" => ~Heralds(o, q, u)) => Once(o, r, u)
    BY AddsIs
<1> QED BY <1>1 DEF Heralds

LEMMA TakenLine ==
    ASSUME NEW o, NEW u, NEW q, NEW m, NEW r, Takes(q, m, r)
    PROVE  /\ Heralds(o, r, u) => Heralds(o, q, u)
           /\ Once(o, q, u) => Once(o, r, u)
           /\ LinesOf(o, r, u) \subseteq LinesOf(o, q, u)
           /\ Of(o, m) = u => m \in LinesOf(o, q, u)
           /\ Once(o, q, u) /\ Of(o, m) = u /\ m.type = "NICK" => ~Heralds(o, r, u)
           /\ m \in Message
<1>1. /\ \A n : n \in LinesOf(o, q, u) <=> n \in LinesOf(o, r, u) \/ (Of(o, m) = u /\ n = m)
      /\ Once(o, q, u) => Once(o, r, u) /\ (Of(o, m) = u /\ m.type = "NICK" => ~Heralds(o, r, u))
      /\ m \in Message
    BY TakesIs
<1> QED BY <1>1 DEF Heralds

-----------------------------------------------------------------------------
(* p does something to u.                                                  *)
Stage ==
    /\ Linked /\ net \in Queues(Message)
    /\ at \in [Server -> View] /\ at' \in [Server -> View]

LEMMA StageIs ==
    ASSUME Stage
    PROVE  /\ Linked /\ net \in Queues(Message)
           /\ \A x \in Server : at[x] \in View /\ at'[x] \in View
BY DEF Stage

LEMMA BecomesIs ==
    ASSUME NEW o, NEW u \in User, NEW p \in Server, NEW m, Of(o, m) = u, NEW v, NEW w, Becomes(o, u, p, m, v, w)
    PROVE  /\ NickOf(v[p], u) = From(m) /\ NickOf(w[p], u) = To(m) /\ Keeps(v[p], w[p], u)
           /\ \A x \in Server : x # p => Same(v[x], w[x], u) /\ NickOf(w[x], u) = NickOf(v[x], u)
           /\ \A x \in Server : \A y \in User : y # u => Same(v[x], w[x], y)
BY DEF Becomes, Turns, Same

LEMMA SaysFit ==
    ASSUME Stage, NEW o, NEW u, NEW p, NEW m, Says(o, u, p, m), UserOK(o, u), m.type = "NICK" => Unheard(u)
    PROVE  AllFit(o, u, at', net')
<1>1. p \in Server /\ u \in User /\ m \in Message /\ Of(o, m) = u /\ (m.type # "KILL" => home[u] = p)
    BY DEF Says
<1>2. \A x, y \in Server :
          IF x = p /\ y \in Neighbour(p) THEN Adds(net[x][y], m, net'[x][y])
          ELSE net'[x][y] = net[x][y]
    BY StageIs, SaysQueues
<1>3. /\ NickOf(at[p], u) = From(m) /\ NickOf(at'[p], u) = To(m) /\ Keeps(at[p], at'[p], u)
      /\ \A x \in Server : x # p => Same(at[x], at'[x], u) /\ NickOf(at'[x], u) = NickOf(at[x], u)
    BY <1>1, BecomesIs DEF Says
<1>4. m.type # "NICK" => From(m) # NoNick
    BY <1>1, NickTypes
<1> SUFFICES ASSUME NEW s \in Server, NEW t \in Neighbour(s), u \in Near(s, t)
             PROVE  Fit(o, u, at'[s], net'[s][t], at'[t], net'[t][s])
    BY DEF AllFit
<1>5. /\ t \in Server /\ s # t /\ s \in Neighbour(t)
      /\ at[s] \in View /\ at'[s] \in View
      /\ Fit(o, u, at[s], net[s][t], at[t], net[t][s])
    BY Neighbours, StageIs DEF UserOK, AllFit
<1>6. CASE s = p
    <2>1. Adds(net[s][t], m, net'[s][t]) /\ net'[t][s] = net[t][s] /\ NickOf(at'[t], u) = NickOf(at[t], u)
        BY <1>2, <1>3, <1>5, <1>6
    <2>2. CASE m.type = "NICK"
        <3>1. Silent(o, u, at, net, Server)
            BY <2>2 DEF UserOK
        <3>2. /\ NickOf(at[s], u) = NoNick /\ NickOf(at[t], u) = NoNick
              /\ LinesOf(o, net[s][t], u) = {} /\ LinesOf(o, net[t][s], u) = {}
            BY <1>5, <3>1 DEF Silent
        <3> QED BY <1>1, <1>3, <1>5, <1>6, <2>1, <2>2, <3>2, FitNew
    <2>3. CASE m.type # "NICK"
        BY <1>1, <1>3, <1>5, <1>6, <2>1, <2>3, FitOut
    <2> QED BY <2>2, <2>3
<1>7. CASE t = p
    <2>1. Adds(net[t][s], m, net'[t][s]) /\ net'[s][t] = net[s][t] /\ Same(at[s], at'[s], u)
        BY <1>2, <1>3, <1>5, <1>7
    <2>2. m.type = "KILL"
        BY <1>1, <1>5, <1>7, Sides
    <2>3. ~Heralds(o, net[s][t], u)
        <3> SUFFICES ASSUME Heralds(o, net[s][t], u) PROVE FALSE
            OBVIOUS
        <3>1. Silent(o, u, at, net, Behind(s, t)) /\ t \in Behind(s, t)
            BY <1>5, BehindIs DEF UserOK, Ahead
        <3> QED BY <1>3, <1>4, <1>7, <2>2, <3>1 DEF Silent
    <2>4. NickOf(at[t], u) = From(m) /\ NickOf(at'[t], u) = NoNick
        BY <1>1, <1>3, <1>7, <2>2, NickTypes
    <2> QED BY <1>1, <1>5, <2>1, <2>2, <2>3, <2>4, FitKill
<1>8. CASE s # p /\ t # p
    <2>1. net'[s][t] = net[s][t] /\ net'[t][s] = net[t][s]
        BY <1>2, <1>5, <1>8
    <2>2. Same(at[s], at'[s], u) /\ NickOf(at'[t], u) = NickOf(at[t], u)
        BY <1>3, <1>5, <1>8
    <2>3. Idle(o, net[s][t], net'[s][t], u) /\ Idle(o, net[t][s], net'[t][s], u)
        BY <2>1, IdleSame
    <2> QED BY <1>5, <2>2, <2>3, FitIdle
<1> QED BY <1>6, <1>7, <1>8

LEMMA SaysAhead ==
    ASSUME Stage, NEW o, NEW u, NEW p, NEW m, Says(o, u, p, m), UserOK(o, u), m.type = "NICK" => Unheard(u)
    PROVE  /\ Ahead(o, u, at', net') /\ AllOnce(o, u, net')
           /\ m.type # "NICK" => /\ \A s \in Server : Never(o, u, at, net, s) => Never(o, u, at', net', s)
                                 /\ To(m) = NoNick => Never(o, u, at', net', p)
                                 /\ ~Unheard(u)
<1>1. p \in Server /\ u \in User /\ m \in Message /\ Of(o, m) = u
    BY DEF Says
<1>2. \A x, y \in Server :
          IF x = p /\ y \in Neighbour(p) THEN Adds(net[x][y], m, net'[x][y])
          ELSE net'[x][y] = net[x][y]
    BY StageIs, SaysQueues
<1>3. /\ NickOf(at[p], u) = From(m) /\ NickOf(at'[p], u) = To(m)
      /\ \A x \in Server : x # p => NickOf(at'[x], u) = NickOf(at[x], u)
    <2>1. /\ NickOf(at[p], u) = From(m) /\ NickOf(at'[p], u) = To(m) /\ Keeps(at[p], at'[p], u)
          /\ \A x \in Server : x # p => Same(at[x], at'[x], u) /\ NickOf(at'[x], u) = NickOf(at[x], u)
        BY <1>1, BecomesIs DEF Says
    <2> QED BY <2>1
<1>4. CASE m.type # "NICK"
    <2>1. NickOf(at[p], u) # NoNick
        BY <1>1, <1>3, <1>4, NickTypes
    <2>2. ASSUME NEW x \in Server, NEW y \in Server
          PROVE  /\ Heralds(o, net'[x][y], u) => Heralds(o, net[x][y], u)
                 /\ Once(o, net[x][y], u) => Once(o, net'[x][y], u)
        <3>1. CASE x = p /\ y \in Neighbour(p)
            <4>1. Adds(net[x][y], m, net'[x][y])
                BY <1>2, <3>1
            <4> QED BY <1>4, <4>1, PlainLine
        <3>2. CASE ~(x = p /\ y \in Neighbour(p))
            <4>1. net'[x][y] = net[x][y]
                BY <1>2, <3>2
            <4> QED BY <4>1
        <3> QED BY <3>1, <3>2
    <2>3. \A x, y \in Server : x # p => LinesOf(o, net'[x][y], u) \subseteq LinesOf(o, net[x][y], u)
        BY <1>2
    <2>4. Ahead(o, u, at, net)
        BY DEF UserOK
    <2>5. /\ Ahead(o, u, at', net')
          /\ \A s \in Server : Never(o, u, at, net, s) => Never(o, u, at', net', s)
          /\ NickOf(at'[p], u) = NoNick => Never(o, u, at', net', p)
        BY <1>1, <1>3, <2>1, <2>2, <2>3, <2>4, PlainAhead
    <2>6. AllOnce(o, u, net')
        BY <2>2 DEF UserOK, AllOnce
    <2>7. ~Unheard(u)
        BY <1>1, <2>1, IsHeard
    <2> QED BY <1>3, <1>4, <2>5, <2>6, <2>7
<1>5. CASE m.type = "NICK"
    <2>1. Silent(o, u, at, net, Server)
        BY <1>5 DEF UserOK
    <2>2. \A x, y \in Server : LinesOf(o, net[x][y], u) = {}
        BY <2>1 DEF Silent
    <2>3. \A x, y \in Server : ~(x = p /\ y \in Neighbour(p)) => LinesOf(o, net'[x][y], u) = {}
        BY <1>2, <2>2
    <2>4. Ahead(o, u, at', net')
        <3> SUFFICES ASSUME NEW s \in Server, NEW t \in Neighbour(s), Heralds(o, net'[s][t], u)
                     PROVE  Silent(o, u, at', net', Behind(s, t))
            BY DEF Ahead
        <3>1. t \in Server /\ s # t
            BY Neighbours
        <3>2. s = p
            BY <2>3, <3>1 DEF Heralds
        <3>3. p \notin Behind(s, t) /\ Behind(s, t) \subseteq Server
            BY <3>1, <3>2, BehindIs, BehindType
        <3> QED BY <1>3, <2>1, <2>3, <3>3 DEF Silent
    <2>5. AllOnce(o, u, net')
        <3> SUFFICES ASSUME NEW x \in Server, NEW y \in Server PROVE Once(o, net'[x][y], u)
            BY DEF AllOnce
        <3>1. Once(o, net[x][y], u) /\ ~Heralds(o, net[x][y], u)
            BY <2>2 DEF UserOK, AllOnce, Heralds
        <3>2. CASE x = p /\ y \in Neighbour(p)
            <4>1. Adds(net[x][y], m, net'[x][y])
                BY <1>2, <3>2
            <4> QED BY <3>1, <4>1, AddsIs
        <3>3. CASE ~(x = p /\ y \in Neighbour(p))
            <4>1. net'[x][y] = net[x][y]
                BY <1>2, <3>3
            <4> QED BY <3>1, <4>1
        <3> QED BY <3>2, <3>3
    <2> QED BY <1>5, <2>4, <2>5
<1> QED BY <1>4, <1>5

(* The user of a command.                                                  *)
LEMMA SaysUser ==
    ASSUME Stage, NEW o, NEW u, NEW p, NEW m, Says(o, u, p, m), UserOK(o, u),
           m.type = "NICK" => Unheard(u) /\ ~Unheard(u)', Unheard(u)' => Unheard(u),
           u \in killed' => u \in killed \/ m.type \in {"QUIT", "KILL"}
    PROVE  UserOK(o, u)'
<1>1. AllFit(o, u, at', net')
    BY SaysFit
<1>2. /\ Ahead(o, u, at', net') /\ AllOnce(o, u, net')
      /\ m.type # "NICK" => /\ \A s \in Server : Never(o, u, at, net, s) => Never(o, u, at', net', s)
                            /\ To(m) = NoNick => Never(o, u, at', net', p)
                            /\ ~Unheard(u)
    BY SaysAhead
<1>3. ~Unheard(u)'
    BY <1>2
<1>4. ASSUME u \in killed' PROVE \E s \in Server : Never(o, u, at', net', s)
    <2>1. CASE u \in killed
        BY <1>2, <2>1 DEF UserOK
    <2>2. CASE m.type \in {"QUIT", "KILL"}
        <3>1. To(m) = NoNick /\ p \in Server
            BY <2>2, NickTypes DEF Says
        <3> QED BY <1>2, <2>2, <3>1
    <2> QED BY <1>4, <2>1, <2>2
<1> QED BY <1>1, <1>2, <1>3, <1>4 DEF UserOK

(* Everybody else.                                                         *)
LEMMA SaysOther ==
    ASSUME Stage, NEW o, NEW w, NEW p, NEW m, Says(o, w, p, m), NEW u \in User, u # w, UserOK(o, u),
           Unheard(u)' => Unheard(u), u \in killed' => u \in killed
    PROVE  UserOK(o, u)'
<1>1. p \in Server /\ w \in User /\ Of(o, m) = w
    BY DEF Says
<1>2. \A x, y \in Server :
          IF x = p /\ y \in Neighbour(p) THEN Adds(net[x][y], m, net'[x][y])
          ELSE net'[x][y] = net[x][y]
    BY StageIs, SaysQueues
<1>3. \A x \in Server : Same(at[x], at'[x], u)
    BY <1>1, BecomesIs DEF Says
<1>4. ASSUME NEW x \in Server, NEW y \in Server PROVE Idle(o, net[x][y], net'[x][y], u)
    <2>1. Adds(net[x][y], m, net'[x][y]) \/ net'[x][y] = net[x][y]
        BY <1>2
    <2> QED BY <1>1, <2>1, IdleAdds, IdleSame
<1> QED BY <1>3, <1>4, IdleUser

-----------------------------------------------------------------------------
(* A line about u that is on its way from s cannot reach t but from s, so  *)
(* that who has never heard of u, behind a link he is introduced over,     *)
(* does not hear of him by any other.                                      *)
LEMMA Reaches ==
    ASSUME NEW o, NEW u, Ahead(o, u, at, net), NEW x \in Server, NEW y \in Neighbour(x), Heralds(o, net[x][y], u),
           NEW s \in Server, NEW t \in Neighbour(s), LinesOf(o, net[s][t], u) # {}, t \in Behind(x, y)
    PROVE  s = x /\ t = y
<1>1. y \in Server /\ x # y /\ t \in Server /\ s \in Neighbour(t)
    BY Neighbours
<1>2. Silent(o, u, at, net, Behind(x, y))
    BY <1>1 DEF Ahead
<1>3. s \notin Behind(x, y)
    BY <1>1, <1>2 DEF Silent
<1>4. s = x
    <2>1. \A d \in Behind(x, y) : Neighbour(d) \ {x} \subseteq Behind(x, y)
        BY <1>1, BehindIs
    <2> QED BY <1>1, <1>3, <2>1
<1>5. t = y
    BY <1>4, TreeAssumption
<1> QED BY <1>4, <1>5

LEMMA SilentStays ==
    ASSUME NEW o, NEW u, NEW v, NEW q, NEW D, Silent(o, u, v, q, D), D \subseteq Server, NEW v2, NEW q2,
           \A x \in D : NickOf(v2[x], u) = NickOf(v[x], u),
           \A x \in D : \A y \in Server : LinesOf(o, q2[x][y], u) \subseteq LinesOf(o, q[x][y], u)
    PROVE  Silent(o, u, v2, q2, D)
BY DEF Silent

LEMMA HearsIs ==
    ASSUME Stage, NEW o, NEW u, NEW s, NEW t, NEW m, NEW n, Hears(o, u, s, t, m, n)
    PROVE  /\ s \in Server /\ t \in Server /\ t \in Neighbour(s) /\ s \in Neighbour(t) /\ s # t
           /\ u \in User /\ m \in Message /\ n \in Message /\ Of(o, m) = u /\ Of(o, n) = u
           /\ n.type = m.type /\ (m.type # "KILL" => To(n) = To(m))
           /\ Takes(net[s][t], m, net'[s][t])
           /\ \A x, y \in Server : ~(x = s /\ y = t) =>
                 IF x = t /\ y \in Neighbour(t) \ {s} THEN Adds(net[x][y], n, net'[x][y])
                 ELSE net'[x][y] = net[x][y]
           /\ NickOf(at[t], u) = From(n) /\ NickOf(at'[t], u) = To(n) /\ Keeps(at[t], at'[t], u)
           /\ \A x \in Server : x # t => Same(at[x], at'[x], u) /\ NickOf(at'[x], u) = NickOf(at[x], u)
           /\ \A x \in Server : \A y \in User : y # u => Same(at[x], at'[x], y)
<1>1. /\ t \in Server /\ u \in User /\ m \in Message /\ n \in Message /\ Of(o, m) = u /\ Of(o, n) = u
      /\ n.type = m.type /\ (m.type # "KILL" => To(n) = To(m)) /\ Becomes(o, u, t, n, at, at')
    BY DEF Hears
<1>2. /\ s \in Server /\ t \in Neighbour(s) /\ s \in Neighbour(t) /\ t \in Server /\ s # t
      /\ Takes(net[s][t], m, net'[s][t])
      /\ \A x, y \in Server : ~(x = s /\ y = t) =>
            IF x = t /\ y \in Neighbour(t) \ {s} THEN Adds(net[x][y], n, net'[x][y])
            ELSE net'[x][y] = net[x][y]
    BY StageIs, HearsQueues
<1>3. /\ NickOf(at[t], u) = From(n) /\ NickOf(at'[t], u) = To(n) /\ Keeps(at[t], at'[t], u)
      /\ \A x \in Server : x # t => Same(at[x], at'[x], u) /\ NickOf(at'[x], u) = NickOf(at[x], u)
      /\ \A x \in Server : \A y \in User : y # u => Same(at[x], at'[x], y)
    BY <1>1, BecomesIs
<1> QED BY <1>1, <1>2, <1>3

LEMMA HearsFit ==
    ASSUME Stage, NEW o, NEW u, NEW s, NEW t, NEW m, NEW n, Hears(o, u, s, t, m, n), UserOK(o, u)
    PROVE  AllFit(o, u, at', net')
<1>1. /\ s \in Server /\ t \in Server /\ t \in Neighbour(s) /\ s \in Neighbour(t) /\ s # t
      /\ u \in User /\ m \in Message /\ n \in Message /\ Of(o, m) = u /\ Of(o, n) = u
      /\ n.type = m.type /\ (m.type # "KILL" => To(n) = To(m))
      /\ Takes(net[s][t], m, net'[s][t])
    BY HearsIs
<1>2. \A x, y \in Server : ~(x = s /\ y = t) =>
          IF x = t /\ y \in Neighbour(t) \ {s} THEN Adds(net[x][y], n, net'[x][y])
          ELSE net'[x][y] = net[x][y]
    BY HearsIs
<1>3. /\ NickOf(at[t], u) = From(n) /\ NickOf(at'[t], u) = To(n) /\ Keeps(at[t], at'[t], u)
      /\ \A x \in Server : x # t => Same(at[x], at'[x], u) /\ NickOf(at'[x], u) = NickOf(at[x], u)
    BY HearsIs
<1>4. m \in LinesOf(o, net[s][t], u)
    BY <1>1, TakenLine
<1>5. n.type # "NICK" => From(n) # NoNick
    BY <1>1, NickTypes
<1>6. u \notin Near(s, t) => m.type = "KILL" /\ To(n) = NoNick
    <2> SUFFICES ASSUME u \notin Near(s, t) PROVE m.type = "KILL" /\ To(n) = NoNick
        OBVIOUS
    <2>1. u \in Near(t, s)
        BY <1>1, Sides
    <2>2. Homeward(o, u, net[s][t])
        BY <1>1, <2>1 DEF UserOK, AllFit, Fit
    <2>3. m.type = "KILL"
        BY <1>4, <2>2 DEF Homeward
    <2> QED BY <1>1, <2>3, NickTypes
<1> SUFFICES ASSUME NEW x \in Server, NEW y \in Neighbour(x), u \in Near(x, y)
             PROVE  Fit(o, u, at'[x], net'[x][y], at'[y], net'[y][x])
    BY DEF AllFit
<1>7. /\ y \in Server /\ x # y /\ x \in Neighbour(y)
      /\ at[x] \in View /\ at'[x] \in View
      /\ Fit(o, u, at[x], net[x][y], at[y], net[y][x])
    BY Neighbours, StageIs DEF UserOK, AllFit
<1>8. CASE x = s /\ y = t
    <2>1. net'[t][s] = net[t][s]
        BY <1>1, <1>2
    <2>2. Same(at[s], at'[s], u)
        BY <1>1, <1>3
    <2> QED BY <1>1, <1>3, <1>7, <1>8, <2>1, <2>2, FitTake
<1>9. CASE x = t /\ y = s
    <2>1. net'[t][s] = net[t][s] /\ NickOf(at'[s], u) = NickOf(at[s], u)
        BY <1>1, <1>2, <1>3
    <2>2. u \notin Near(s, t)
        BY <1>1, <1>7, <1>9, Sides
    <2>3. NickOf(at'[t], u) = NoNick
        BY <1>3, <1>6, <2>2
    <2> QED BY <1>1, <1>7, <1>9, <2>1, <2>3, FitDie
<1>10. CASE x = t /\ y # s
    <2>1. /\ Adds(net[x][y], n, net'[x][y]) /\ net'[y][x] = net[y][x]
          /\ NickOf(at'[y], u) = NickOf(at[y], u)
        BY <1>1, <1>2, <1>3, <1>7, <1>10
    <2>2. CASE n.type = "NICK"
        <3>1. Heralds(o, net[s][t], u)
            BY <1>1, <1>4, <2>2 DEF Heralds
        <3>2. Silent(o, u, at, net, Behind(s, t))
            BY <1>1, <3>1 DEF UserOK, Ahead
        <3>3. t \in Behind(s, t) /\ y \in Behind(t, y) /\ Behind(t, y) \subseteq Behind(s, t)
            BY <1>1, <1>7, <1>10, BehindIs, BehindThrough
        <3>4. x \in Behind(s, t) /\ y \in Behind(s, t)
            BY <1>10, <3>3
        <3>5. /\ NickOf(at[x], u) = NoNick /\ NickOf(at[y], u) = NoNick
              /\ LinesOf(o, net[x][y], u) = {} /\ LinesOf(o, net[y][x], u) = {}
            BY <1>7, <3>2, <3>4 DEF Silent
        <3>6. NickOf(at'[x], u) = To(n)
            BY <1>3, <1>10
        <3> QED BY <1>1, <1>7, <2>1, <2>2, <3>5, <3>6, FitNew
    <2>3. CASE n.type # "NICK"
        <3>1. NickOf(at[x], u) = From(n) /\ NickOf(at'[x], u) = To(n) /\ Keeps(at[x], at'[x], u)
            BY <1>3, <1>10
        <3> QED BY <1>1, <1>7, <2>1, <2>3, <3>1, FitOut
    <2> QED BY <2>2, <2>3
<1>11. CASE y = t /\ x # s
    <2>1. Adds(net[y][x], n, net'[y][x]) /\ net'[x][y] = net[x][y] /\ Same(at[x], at'[x], u)
        BY <1>1, <1>2, <1>3, <1>7, <1>11
    <2>2. u \notin Near(s, t)
        BY <1>1, <1>7, <1>11, Sides
    <2>3. n.type = "KILL" /\ NickOf(at[y], u) = From(n) /\ NickOf(at'[y], u) = NoNick
        BY <1>1, <1>3, <1>6, <1>11, <2>2
    <2>4. ~Heralds(o, net[x][y], u)
        <3> SUFFICES ASSUME Heralds(o, net[x][y], u) PROVE FALSE
            OBVIOUS
        <3>1. Silent(o, u, at, net, Behind(x, y)) /\ y \in Behind(x, y)
            BY <1>7, BehindIs DEF UserOK, Ahead
        <3> QED BY <1>5, <2>3, <3>1 DEF Silent
    <2> QED BY <1>1, <1>7, <2>1, <2>3, <2>4, FitKill
<1>12. CASE x # t /\ y # t
    <2>1. net'[x][y] = net[x][y] /\ net'[y][x] = net[y][x]
        BY <1>2, <1>7, <1>12
    <2>2. Same(at[x], at'[x], u) /\ NickOf(at'[y], u) = NickOf(at[y], u)
        BY <1>3, <1>7, <1>12
    <2>3. Idle(o, net[x][y], net'[x][y], u) /\ Idle(o, net[y][x], net'[y][x], u)
        BY <2>1, IdleSame
    <2> QED BY <1>7, <2>2, <2>3, FitIdle
<1> QED BY <1>8, <1>9, <1>10, <1>11, <1>12

(* t takes a line about u.                                                 *)
LEMMA HearsAhead ==
    ASSUME Stage, NEW o, NEW u, NEW s, NEW t, NEW m, NEW n, Hears(o, u, s, t, m, n), UserOK(o, u)
    PROVE  /\ Ahead(o, u, at', net') /\ AllOnce(o, u, net')
           /\ \A x \in Server : Never(o, u, at, net, x) => Never(o, u, at', net', x)
<1>1. /\ s \in Server /\ t \in Server /\ t \in Neighbour(s) /\ s \in Neighbour(t) /\ s # t
      /\ u \in User /\ m \in Message /\ n \in Message /\ Of(o, m) = u /\ Of(o, n) = u
      /\ n.type = m.type /\ Takes(net[s][t], m, net'[s][t])
    BY HearsIs
<1>2. \A x, y \in Server : ~(x = s /\ y = t) =>
          IF x = t /\ y \in Neighbour(t) \ {s} THEN Adds(net[x][y], n, net'[x][y])
          ELSE net'[x][y] = net[x][y]
    BY HearsIs
<1>3. /\ NickOf(at[t], u) = From(n)
      /\ \A x \in Server : x # t => NickOf(at'[x], u) = NickOf(at[x], u)
    BY HearsIs
<1>4. m \in LinesOf(o, net[s][t], u)
    BY <1>1, TakenLine
<1>5. \A x, y \in Server : x # t => LinesOf(o, net'[x][y], u) \subseteq LinesOf(o, net[x][y], u)
    <2> SUFFICES ASSUME NEW x \in Server, NEW y \in Server, x # t
                 PROVE  LinesOf(o, net'[x][y], u) \subseteq LinesOf(o, net[x][y], u)
        OBVIOUS
    <2>1. CASE x = s /\ y = t
        BY <1>1, <2>1, TakenLine
    <2>2. CASE ~(x = s /\ y = t)
        BY <1>2, <2>2
    <2> QED BY <2>1, <2>2
<1>6. Ahead(o, u, at, net) /\ \A x, y \in Server : Once(o, net[x][y], u)
    BY DEF UserOK, AllOnce
<1>7. CASE n.type # "NICK"
    <2>1. NickOf(at[t], u) # NoNick
        BY <1>1, <1>3, <1>7, NickTypes
    <2>2. ASSUME NEW x \in Server, NEW y \in Server
          PROVE  /\ Heralds(o, net'[x][y], u) => Heralds(o, net[x][y], u)
                 /\ Once(o, net[x][y], u) => Once(o, net'[x][y], u)
        <3>1. CASE x = s /\ y = t
            BY <1>1, <3>1, TakenLine
        <3>2. CASE x = t /\ y \in Neighbour(t) \ {s}
            <4>1. Adds(net[x][y], n, net'[x][y])
                BY <1>1, <1>2, <3>2
            <4> QED BY <1>7, <4>1, PlainLine
        <3>3. CASE ~(x = s /\ y = t) /\ ~(x = t /\ y \in Neighbour(t) \ {s})
            <4>1. net'[x][y] = net[x][y]
                BY <1>2, <3>3
            <4> QED BY <4>1
        <3> QED BY <3>1, <3>2, <3>3
    <2>3. /\ Ahead(o, u, at', net')
          /\ \A x \in Server : Never(o, u, at, net, x) => Never(o, u, at', net', x)
        BY <1>1, <1>3, <1>5, <1>6, <2>1, <2>2, PlainAhead
    <2>4. AllOnce(o, u, net')
        BY <1>6, <2>2 DEF AllOnce
    <2> QED BY <2>3, <2>4
<1>8. CASE n.type = "NICK"
    <2>1. Heralds(o, net[s][t], u)
        BY <1>1, <1>4, <1>8 DEF Heralds
    <2>2. Silent(o, u, at, net, Behind(s, t)) /\ t \in Behind(s, t) /\ s \notin Behind(s, t)
        BY <1>1, <1>6, <2>1, BehindIs DEF Ahead
    <2>3. \A y \in Server : LinesOf(o, net[t][y], u) = {} /\ ~Heralds(o, net[t][y], u)
        BY <1>1, <2>2 DEF Silent, Heralds
    <2>4. ~Heralds(o, net'[s][t], u) /\ (Once(o, net[s][t], u) => Once(o, net'[s][t], u))
        <3>1. m.type = "NICK" /\ Once(o, net[s][t], u)
            BY <1>1, <1>6, <1>8
        <3>2. /\ Once(o, net[s][t], u) => Once(o, net'[s][t], u)
              /\ Once(o, net[s][t], u) /\ Of(o, m) = u /\ m.type = "NICK" => ~Heralds(o, net'[s][t], u)
            BY <1>1, TakenLine
        <3> QED BY <1>1, <3>1, <3>2
    <2>5. \A y \in Neighbour(t) \ {s} : Behind(t, y) \subseteq Behind(s, t) /\ t \notin Behind(t, y)
        <3> SUFFICES ASSUME NEW y \in Neighbour(t), y # s
                     PROVE  Behind(t, y) \subseteq Behind(s, t) /\ t \notin Behind(t, y)
            OBVIOUS
        <3>1. y \in Server /\ t # y
            BY Neighbours
        <3>2. Behind(t, y) \subseteq Behind(s, t)
            BY <1>1, BehindThrough
        <3>3. t \notin Behind(t, y)
            BY <1>1, <3>1, BehindIs
        <3> QED BY <3>2, <3>3
    <2>6. ASSUME NEW x \in Server, NEW y \in Neighbour(x), Heralds(o, net'[x][y], u)
          PROVE  \/ x = t /\ y \in Neighbour(t) \ {s}
                 \/ Heralds(o, net[x][y], u) /\ t \notin Behind(x, y)
        <3>1. y \in Server /\ ~(x = s /\ y = t)
            BY <2>4, <2>6, Neighbours
        <3>2. CASE ~(x = t /\ y \in Neighbour(t) \ {s})
            <4>1. Heralds(o, net[x][y], u)
                BY <1>2, <2>6, <3>1, <3>2
            <4>2. LinesOf(o, net[s][t], u) # {}
                BY <1>4
            <4>3. t \notin Behind(x, y)
                BY <1>1, <1>6, <3>1, <4>1, <4>2, Reaches
            <4> QED BY <4>1, <4>3
        <3> QED BY <3>2
    <2>7. ASSUME NEW D \in SUBSET Server, Silent(o, u, at, net, D), t \notin D
          PROVE  Silent(o, u, at', net', D)
        <3>1. /\ \A x \in D : NickOf(at'[x], u) = NickOf(at[x], u)
              /\ \A x \in D : \A y \in Server : LinesOf(o, net'[x][y], u) \subseteq LinesOf(o, net[x][y], u)
            BY <1>3, <1>5, <2>7
        <3> QED BY <2>7, <3>1, SilentStays
    <2>8. Ahead(o, u, at', net')
        <3> SUFFICES ASSUME NEW x \in Server, NEW y \in Neighbour(x), Heralds(o, net'[x][y], u)
                     PROVE  Silent(o, u, at', net', Behind(x, y))
            BY DEF Ahead
        <3>1. Silent(o, u, at, net, Behind(x, y)) /\ t \notin Behind(x, y)
            <4>1. CASE x = t /\ y \in Neighbour(t) \ {s}
                BY <2>2, <2>5, <4>1 DEF Silent
            <4>2. CASE Heralds(o, net[x][y], u) /\ t \notin Behind(x, y)
                BY <1>6, <4>2 DEF Ahead
            <4> QED BY <2>6, <4>1, <4>2
        <3> QED BY <2>7, <3>1, BehindType
    <2>9. AllOnce(o, u, net')
        <3> SUFFICES ASSUME NEW x \in Server, NEW y \in Server PROVE Once(o, net'[x][y], u)
            BY DEF AllOnce
        <3>1. CASE x = s /\ y = t
            BY <1>6, <2>4, <3>1
        <3>2. CASE x = t /\ y \in Neighbour(t) \ {s}
            <4>1. Adds(net[x][y], n, net'[x][y]) /\ ~Heralds(o, net[x][y], u) /\ Once(o, net[x][y], u)
                BY <1>1, <1>2, <1>6, <2>3, <3>2
            <4> QED BY <4>1, AddsIs
        <3>3. CASE ~(x = s /\ y = t) /\ ~(x = t /\ y \in Neighbour(t) \ {s})
            <4>1. net'[x][y] = net[x][y]
                BY <1>2, <3>3
            <4> QED BY <1>6, <4>1
        <3> QED BY <3>1, <3>2, <3>3
    <2>10. ASSUME NEW x \in Server, Never(o, u, at, net, x) PROVE Never(o, u, at', net', x)
        <3>1. x \notin Behind(s, t)
            BY <1>1, <2>1, <2>10 DEF Never
        <3>2. NickOf(at'[x], u) = NoNick
            BY <1>3, <2>2, <2>10, <3>1 DEF Never
        <3>3. ASSUME NEW a \in Server, NEW b \in Neighbour(a), Heralds(o, net'[a][b], u)
              PROVE  x \notin Behind(a, b)
            <4>1. CASE a = t /\ b \in Neighbour(t) \ {s}
                BY <2>5, <3>1, <4>1
            <4>2. CASE Heralds(o, net[a][b], u)
                BY <2>10, <4>2 DEF Never
            <4> QED BY <2>6, <3>3, <4>1, <4>2
        <3> QED BY <3>2, <3>3 DEF Never
    <2> QED BY <2>8, <2>9, <2>10
<1> QED BY <1>7, <1>8

LEMMA HearsUser ==
    ASSUME Stage, NEW o, NEW u, NEW s, NEW t, NEW m, NEW n, Hears(o, u, s, t, m, n), UserOK(o, u),
           Unheard(u)' => Unheard(u), u \in killed' => u \in killed
    PROVE  UserOK(o, u)'
<1>1. AllFit(o, u, at', net')
    BY HearsFit
<1>2. /\ Ahead(o, u, at', net') /\ AllOnce(o, u, net')
      /\ \A x \in Server : Never(o, u, at, net, x) => Never(o, u, at', net', x)
    BY HearsAhead
<1>3. ~Unheard(u)
    <2>1. /\ s \in Server /\ t \in Server /\ Of(o, m) = u /\ Takes(net[s][t], m, net'[s][t])
        BY HearsIs
    <2>2. m \in LinesOf(o, net[s][t], u)
        BY <2>1, TakenLine
    <2>3. LinesOf(o, net[s][t], u) # {}
        BY <2>2
    <2> QED BY <2>1, <2>3, IsHeard
<1> QED BY <1>1, <1>2, <1>3 DEF UserOK

LEMMA HearsOther ==
    ASSUME Stage, NEW o, NEW w, NEW s, NEW t, NEW m, NEW n, Hears(o, w, s, t, m, n),
           NEW u \in User, u # w, UserOK(o, u), Unheard(u)' => Unheard(u), u \in killed' => u \in killed
    PROVE  UserOK(o, u)'
<1>1. /\ Of(o, m) = w /\ Of(o, n) = w /\ Takes(net[s][t], m, net'[s][t])
      /\ \A x \in Server : \A y \in User : y # w => Same(at[x], at'[x], y)
    BY HearsIs
<1>2. \A x, y \in Server : ~(x = s /\ y = t) =>
          IF x = t /\ y \in Neighbour(t) \ {s} THEN Adds(net[x][y], n, net'[x][y])
          ELSE net'[x][y] = net[x][y]
    BY HearsIs
<1>3. ASSUME NEW x \in Server, NEW y \in Server PROVE Idle(o, net[x][y], net'[x][y], u)
    <2>1. CASE x = s /\ y = t
        BY <1>1, <2>1, IdleTakes
    <2>2. CASE ~(x = s /\ y = t)
        <3>1. Adds(net[x][y], n, net'[x][y]) \/ net'[x][y] = net[x][y]
            BY <1>2, <2>2
        <3> QED BY <1>1, <3>1, IdleAdds, IdleSame
    <2> QED BY <2>1, <2>2
<1> QED BY <1>1, <1>3, IdleUser

-----------------------------------------------------------------------------
(* Whom t does not find.                                                   *)
LEMMA NotPast ==
    ASSUME NEW v \in View, NEW u \in User, NEW n \in Nick, Chased(v, n) = {}
    PROVE  n \notin Past(v, u) /\ NickOf(v, u) # n
<1>1. Holder(v, n) = {} /\ {v.was[n]} \ {Nobody} = {}
    BY DEF Chased
<1>2. v.client[u].nick # n
    BY <1>1 DEF Holder
<1>3. v.was[n] # u
    BY <1>1, NickAssumption
<1>4. NoNick # n
    BY NickAssumption
<1> QED BY <1>2, <1>3, <1>4 DEF Past, NickOf

LEMMA DropsIs ==
    ASSUME Stage, NEW o, NEW u, NEW s, NEW t, NEW m, NEW back, Drops(o, u, s, t, m, back)
    PROVE  /\ s \in Server /\ t \in Server /\ t \in Neighbour(s) /\ s \in Neighbour(t) /\ s # t
           /\ u \in User /\ m \in Message /\ Of(o, m) = u /\ m.type # "NICK" /\ at' = at
           /\ Takes(net[s][t], m, net'[s][t]) /\ Ghosts(o, u, m, net[t][s], net'[t][s])
           /\ m.type = "KILL" => net'[t][s] = net[t][s] /\ From(m) \notin Past(at[t], u)
           /\ u \in Near(s, t) => NickOf(at[t], u) # From(m)
           /\ \A x, y \in Server : ~(x = s /\ y = t) /\ ~(x = t /\ y = s) => net'[x][y] = net[x][y]
<1>1. /\ s \in Server /\ t \in Server /\ u \in User /\ m \in Message /\ Of(o, m) = u /\ at' = at
      /\ m.type \in {"KILL", "CHANGE", "QUIT"}
      /\ m.type = "KILL" => Chased(at[t], m.nick) = {}
      /\ m.type # "KILL" => Source(s, t, From(m)) = {}
    BY DEF Drops
<1>2. /\ t \in Neighbour(s) /\ s \in Neighbour(t) /\ s # t
      /\ Takes(net[s][t], m, net'[s][t]) /\ Ghosts(o, u, m, net[t][s], net'[t][s])
      /\ m.type = "KILL" => net'[t][s] = net[t][s]
      /\ \A x, y \in Server : ~(x = s /\ y = t) /\ ~(x = t /\ y = s) => net'[x][y] = net[x][y]
    BY StageIs, DropsQueues
<1>3. From(m) \in Nick /\ at[t] \in View /\ (m.type = "KILL" => From(m) = m.nick)
    BY <1>1, NickTypes, StageIs DEF From
<1>4. m.type = "KILL" => From(m) \notin Past(at[t], u) /\ NickOf(at[t], u) # From(m)
    BY <1>1, <1>3, NotPast
<1>5. ASSUME m.type # "KILL", u \in Near(s, t), NickOf(at[t], u) = From(m) PROVE FALSE
    <2>1. ~Elsewhere(s, t, u)
        BY <1>5 DEF Near, UsersOf, Elsewhere
    <2>2. Source(s, t, From(m)) # {}
        BY <1>1, <1>3, <1>5, <2>1, FoundIs
    <2> QED BY <1>1, <1>5, <2>2
<1> QED BY <1>1, <1>2, <1>4, <1>5

LEMMA DropsFit ==
    ASSUME Stage, NEW o, NEW u, NEW s, NEW t, NEW m, NEW back, Drops(o, u, s, t, m, back), UserOK(o, u)
    PROVE  AllFit(o, u, at', net') /\ ~Heralds(o, net[s][t], u)
<1>1. /\ s \in Server /\ t \in Server /\ t \in Neighbour(s) /\ s \in Neighbour(t) /\ s # t
      /\ u \in User /\ m \in Message /\ Of(o, m) = u /\ at' = at
      /\ Takes(net[s][t], m, net'[s][t]) /\ Ghosts(o, u, m, net[t][s], net'[t][s])
      /\ m.type = "KILL" => net'[t][s] = net[t][s] /\ From(m) \notin Past(at[t], u)
      /\ u \in Near(s, t) => NickOf(at[t], u) # From(m)
    BY DropsIs
<1>2. \A x, y \in Server : ~(x = s /\ y = t) /\ ~(x = t /\ y = s) => net'[x][y] = net[x][y]
    BY DropsIs
<1>3. m \in LinesOf(o, net[s][t], u)
    BY <1>1, TakenLine
<1>4. \A x \in Server : at'[x] = at[x] /\ Same(at[x], at'[x], u) /\ NickOf(at'[x], u) = NickOf(at[x], u)
    BY <1>1, SameView
<1>5. ASSUME u \in Near(s, t)
      PROVE  Fit(o, u, at'[s], net'[s][t], at'[t], net'[t][s]) /\ ~Heralds(o, net[s][t], u)
    <2>1. Fit(o, u, at[s], net[s][t], at[t], net[t][s])
        BY <1>1, <1>5 DEF UserOK, AllFit
    <2>2. NickOf(at[t], u) # From(m) /\ Same(at[s], at'[s], u) /\ NickOf(at'[t], u) = NickOf(at[t], u)
        BY <1>1, <1>4, <1>5
    <2>3. \/ net'[t][s] = net[t][s]
          \/ \E k : Adds(net[t][s], k, net'[t][s]) /\ Of(o, k) = u /\ k.type = "KILL" /\ From(k) = From(m)
        BY <1>1 DEF Ghosts
    <2> QED BY <1>1, <2>1, <2>2, <2>3, FitMiss
<1>6. ASSUME u \in Near(t, s)
      PROVE  Fit(o, u, at'[t], net'[t][s], at'[s], net'[s][t]) /\ ~Heralds(o, net[s][t], u)
    <2>1. Fit(o, u, at[t], net[t][s], at[s], net[s][t])
        BY <1>1, <1>6 DEF UserOK, AllFit
    <2>2. \A k \in LinesOf(o, net[s][t], u) : k.type = "KILL"
        BY <2>1 DEF Fit, Homeward
    <2>3. net'[t][s] = net[t][s] /\ From(m) \notin Past(at[t], u)
        BY <1>1, <1>3, <2>2
    <2>4. Same(at[t], at'[t], u) /\ NickOf(at'[s], u) = NickOf(at[s], u)
        BY <1>1, <1>4
    <2>5. Fit(o, u, at'[t], net[t][s], at'[s], net'[s][t])
        BY <1>1, <2>1, <2>3, <2>4, FitGone
    <2>6. ~Heralds(o, net[s][t], u)
        BY <2>2 DEF Heralds
    <2> QED BY <2>3, <2>5, <2>6
<1>7. ~Heralds(o, net[s][t], u)
    BY <1>1, <1>5, <1>6, Sides
<1>8. ASSUME NEW x \in Server, NEW y \in Neighbour(x), u \in Near(x, y)
      PROVE  Fit(o, u, at'[x], net'[x][y], at'[y], net'[y][x])
    <2>1. /\ y \in Server
          /\ Fit(o, u, at[x], net[x][y], at[y], net[y][x])
        BY <1>8, Neighbours DEF UserOK, AllFit
    <2>2. CASE x = s /\ y = t
        BY <1>5, <1>8, <2>2
    <2>3. CASE x = t /\ y = s
        BY <1>6, <1>8, <2>3
    <2>4. CASE ~(x = s /\ y = t) /\ ~(x = t /\ y = s)
        <3>1. net'[x][y] = net[x][y] /\ net'[y][x] = net[y][x] /\ at'[x] = at[x] /\ at'[y] = at[y]
            BY <1>2, <1>4, <2>1, <2>4
        <3> QED BY <2>1, <3>1
    <2> QED BY <2>2, <2>3, <2>4
<1> QED BY <1>7, <1>8 DEF AllFit

LEMMA DropsUser ==
    ASSUME Stage, NEW o, NEW u, NEW s, NEW t, NEW m, NEW back, Drops(o, u, s, t, m, back), UserOK(o, u),
           Unheard(u)' => Unheard(u), u \in killed' => u \in killed
    PROVE  UserOK(o, u)'
<1>1. AllFit(o, u, at', net') /\ ~Heralds(o, net[s][t], u)
    BY DropsFit
<1>2. /\ s \in Server /\ t \in Server /\ t \in Neighbour(s) /\ s \in Neighbour(t) /\ s # t
      /\ u \in User /\ m \in Message /\ Of(o, m) = u /\ at' = at
      /\ Takes(net[s][t], m, net'[s][t]) /\ Ghosts(o, u, m, net[t][s], net'[t][s])
    BY DropsIs
<1>3. \A x, y \in Server : ~(x = s /\ y = t) /\ ~(x = t /\ y = s) => net'[x][y] = net[x][y]
    BY DropsIs
<1>4. Ahead(o, u, at, net) /\ \A x, y \in Server : Once(o, net[x][y], u)
    BY DEF UserOK, AllOnce
<1>5. /\ Heralds(o, net'[s][t], u) => Heralds(o, net[s][t], u)
      /\ Once(o, net[s][t], u) => Once(o, net'[s][t], u)
      /\ LinesOf(o, net'[s][t], u) \subseteq LinesOf(o, net[s][t], u)
      /\ m \in LinesOf(o, net[s][t], u)
    BY <1>2, TakenLine
<1>6. /\ Heralds(o, net'[t][s], u) => Heralds(o, net[t][s], u)
      /\ Once(o, net[t][s], u) => Once(o, net'[t][s], u)
    <2>1. CASE net'[t][s] = net[t][s]
        BY <2>1
    <2>2. CASE net'[t][s] # net[t][s]
        <3>1. PICK k : Adds(net[t][s], k, net'[t][s]) /\ Of(o, k) = u /\ k.type = "KILL"
            BY <1>2, <2>2 DEF Ghosts
        <3>2. k.type # "NICK"
            BY <3>1
        <3> QED BY <3>1, <3>2, PlainLine
    <2> QED BY <2>1, <2>2
<1>7. ASSUME NEW x \in Server, NEW y \in Server
      PROVE  /\ Heralds(o, net'[x][y], u) => Heralds(o, net[x][y], u)
             /\ Once(o, net[x][y], u) => Once(o, net'[x][y], u)
             /\ x # t => LinesOf(o, net'[x][y], u) \subseteq LinesOf(o, net[x][y], u)
    <2>1. CASE x = s /\ y = t
        BY <1>5, <2>1
    <2>2. CASE x = t /\ y = s
        BY <1>6, <2>2
    <2>3. CASE ~(x = s /\ y = t) /\ ~(x = t /\ y = s)
        <3>1. net'[x][y] = net[x][y]
            BY <1>3, <2>3
        <3> QED BY <3>1
    <2> QED BY <2>1, <2>2, <2>3
<1>8. Ahead(o, u, at', net')
    <2> SUFFICES ASSUME NEW x \in Server, NEW y \in Neighbour(x), Heralds(o, net'[x][y], u)
                 PROVE  Silent(o, u, at', net', Behind(x, y))
        BY DEF Ahead
    <2>1. y \in Server /\ LinesOf(o, net[s][t], u) # {}
        BY <1>5, Neighbours
    <2>2. Heralds(o, net[x][y], u)
        BY <1>7, <2>1
    <2>3. t \notin Behind(x, y)
        BY <1>1, <1>2, <1>4, <2>1, <2>2, Reaches
    <2>4. Silent(o, u, at, net, Behind(x, y)) /\ Behind(x, y) \subseteq Server
        BY <1>4, <2>2, BehindType DEF Ahead
    <2>5. /\ \A d \in Behind(x, y) : NickOf(at'[d], u) = NickOf(at[d], u)
          /\ \A d \in Behind(x, y) : \A e \in Server : LinesOf(o, net'[d][e], u) \subseteq LinesOf(o, net[d][e], u)
        BY <1>2, <1>7, <2>3, <2>4
    <2> QED BY <2>4, <2>5, SilentStays
<1>9. AllOnce(o, u, net')
    BY <1>4, <1>7 DEF AllOnce
<1>10. \A x \in Server : Never(o, u, at, net, x) => Never(o, u, at', net', x)
    BY <1>2, <1>7, Neighbours DEF Never
<1>11. ~Unheard(u)
    <2>1. LinesOf(o, net[s][t], u) # {}
        BY <1>5
    <2> QED BY <1>2, <2>1, IsHeard
<1> QED BY <1>1, <1>8, <1>9, <1>10, <1>11 DEF UserOK

LEMMA DropsOther ==
    ASSUME Stage, NEW o, NEW w, NEW s, NEW t, NEW m, NEW back, Drops(o, w, s, t, m, back),
           NEW u \in User, u # w, UserOK(o, u), Unheard(u)' => Unheard(u), u \in killed' => u \in killed
    PROVE  UserOK(o, u)'
<1>1. /\ Of(o, m) = w /\ Takes(net[s][t], m, net'[s][t]) /\ Ghosts(o, w, m, net[t][s], net'[t][s]) /\ at' = at
    BY DropsIs
<1>2. \A x, y \in Server : ~(x = s /\ y = t) /\ ~(x = t /\ y = s) => net'[x][y] = net[x][y]
    BY DropsIs
<1>3. ASSUME NEW x \in Server, NEW y \in Server PROVE Idle(o, net[x][y], net'[x][y], u)
    <2>1. CASE x = s /\ y = t
        BY <1>1, <2>1, IdleTakes
    <2>2. CASE x = t /\ y = s
        <3>1. CASE net'[t][s] = net[t][s]
            BY <2>2, <3>1, IdleSame
        <3>2. CASE net'[t][s] # net[t][s]
            <4>1. PICK k : Adds(net[t][s], k, net'[t][s]) /\ Of(o, k) = w
                BY <1>1, <3>2 DEF Ghosts
            <4>2. Of(o, k) # u
                BY <4>1
            <4> QED BY <2>2, <4>1, <4>2, IdleAdds
        <3> QED BY <3>1, <3>2
    <2>3. CASE ~(x = s /\ y = t) /\ ~(x = t /\ y = s)
        <3>1. net'[x][y] = net[x][y]
            BY <1>2, <2>3
        <3> QED BY <3>1, IdleSame
    <2> QED BY <2>1, <2>2, <2>3
<1>4. \A x \in Server : Same(at[x], at'[x], u)
    BY <1>1, SameView
<1> QED BY <1>3, <1>4, IdleUser

-----------------------------------------------------------------------------
(* Who is registered stays so, or goes.                                    *)
Settles(v, w) ==
    \A u \in User : w.client[u].nick # NoNick /\ ~w.client[u].known =>
                    v.client[u].nick # NoNick /\ ~v.client[u].known

LEMMA ExitSettles == ASSUME NEW v, NEW S PROVE Settles(v, Exit(v, S))
<1> DEFINE e == Exit(v, S)
<1>1. \A u \in User : e.client[u] = IF u \in S THEN Absent ELSE v.client[u]
    BY DEF Exit
<1> HIDE DEF e
<1>2. Settles(v, e)
    BY <1>1 DEF Settles, Absent
<1> QED BY <1>2 DEF e

LEMMA EnterSettles ==
    ASSUME NEW v \in View, NEW u \in User, NEW n, NEW ts PROVE Settles(v, Enter(v, u, n, ts, TRUE))
<1> DEFINE e == Enter(v, u, n, ts, TRUE)
<1>1. \A x \in User : e.client[x] = IF x = u THEN [nick |-> n, ts |-> ts, known |-> TRUE] ELSE v.client[x]
    BY DEF Enter, View
<1> HIDE DEF e
<1>2. Settles(v, e)
    BY <1>1 DEF Settles
<1> QED BY <1>2 DEF e

LEMMA TakeSettles ==
    ASSUME NEW F \in SUBSET User, NEW v, ViewOK(v, F), NEW u \in User, NEW k, NEW n, NEW ts
    PROVE  /\ Settles(v, Enter(Evicted(v, u, k), u, n, ts, TRUE))
           /\ Settles(v, Rename(Evicted(v, u, k), u, n, ts))
           /\ Settles(v, [Evicted(v, u, k) EXCEPT !.client[u].ts = ts])
<1> DEFINE e == Evicted(v, u, k)
           f == Enter(e, u, n, ts, TRUE)
           r == Rename(e, u, n, ts)
           g == [e EXCEPT !.client[u].ts = ts]
<1>1. Settles(v, e)
    BY ExitSettles DEF Evicted
<1>2. e \in View
    <2>1. Holder(v, k) \ {u} \in SUBSET User
        BY DEF Holder
    <2>2. ViewOK(Exit(v, Holder(v, k) \ {u}), F)
        BY <2>1, ExitOK
    <2> QED BY <2>2 DEF Evicted, ViewOK
<1> HIDE DEF e
<1>3. Settles(e, f)
    BY <1>2, EnterSettles
<1>4. r.client = f.client
    BY DEF Rename, Enter
<1>5. \A x \in User : g.client[x].nick = e.client[x].nick /\ g.client[x].known = e.client[x].known
    BY <1>2 DEF View, Client
<1> HIDE DEF f, r, g
<1>6. Settles(v, f) /\ Settles(v, r) /\ Settles(v, g)
    BY <1>1, <1>3, <1>4, <1>5 DEF Settles
<1> QED BY <1>6 DEF e, f, r, g

LEMMA StepUnheard ==
    ASSUME at \in [Server -> View], NEW s \in Server, NEW w, at' = [at EXCEPT ![s] = w],
           Settles(at[s], w), fresh' \subseteq fresh, NEW u \in User, Unheard(u)'
    PROVE  Unheard(u)
<1>1. at'[s] = w /\ \A x \in Server : x # s => at'[x] = at[x]
    OBVIOUS
<1>2. home[u] \in Server
    BY NickAssumption
<1> QED BY <1>1, <1>2 DEF Unheard, Settles

LEMMA UnheardStays ==
    ASSUME at' = at, fresh' \subseteq fresh, NEW u \in User, Unheard(u)' PROVE Unheard(u)
BY DEF Unheard

(* Whoever has registered never is to register again.                      *)
LEMMA UnheardShrinks ==
    ASSUME IInv, NEW u \in User, Unheard(u)', NEW x \in User, NEW n \in Nick,
           Register(x) \/ Quit(x) \/ ChooseNick(x, n) \/ ChangeNick(x, n) \/ RefuseNick(x, n)
    PROVE  Unheard(u)
<1> DEFINE s == home[x]
           v == at[s]
<1>1. s \in Server /\ at \in [Server -> View] /\ v \in View /\ ViewOK(v, fresh) /\ fresh \in SUBSET User
    BY NickAssumption DEF IInv
<1>2. ASSUME NEW w, at' = [at EXCEPT ![s] = w], Settles(v, w), fresh' \subseteq fresh PROVE Unheard(u)
    BY <1>1, <1>2, StepUnheard
<1>3. CASE Register(x)
    <2> DEFINE w == [v EXCEPT !.client[x].known = TRUE]
    <2>1. at' = [at EXCEPT ![s] = w] /\ fresh' = fresh
        BY <1>3 DEF Register
    <2>2. \A y \in User : /\ w.client[y].nick = v.client[y].nick
                          /\ ~w.client[y].known => ~v.client[y].known
        BY <1>1 DEF View, Client
    <2> HIDE DEF w
    <2>3. Settles(v, w)
        BY <2>2 DEF Settles
    <2> QED BY <1>2, <2>1, <2>3
<1>4. CASE Quit(x)
    <2> DEFINE w == Exit(v, {x})
    <2>1. at' = [at EXCEPT ![s] = w] /\ fresh' = fresh
        BY <1>4 DEF Quit
    <2>2. Settles(v, w)
        BY ExitSettles
    <2> HIDE DEF w
    <2> QED BY <1>2, <2>1, <2>2
<1>5. CASE ChooseNick(x, n)
    <2>1. PICK now : at' = [at EXCEPT ![s] = Enter(v, x, n, now, FALSE)]
        BY <1>5 DEF ChooseNick
    <2>2. fresh' = fresh \ {x} /\ Unheard(x)
        BY <1>5 DEF ChooseNick, Unheard
    <2> DEFINE w == Enter(v, x, n, now, FALSE)
    <2>3. \A y \in User : y # x => w.client[y] = v.client[y]
        BY <1>1 DEF Enter, View
    <2>4. at' = [at EXCEPT ![s] = w]
        BY <2>1
    <2> HIDE DEF w
    <2>5. \A y \in Server : at'[y] = IF y = s THEN w ELSE at[y]
        BY <1>1, <2>4
    <2>6. home[u] \in Server
        BY NickAssumption
    <2>7. u # x => Unheard(u)
        BY <2>2, <2>3, <2>5, <2>6 DEF Unheard
    <2> QED BY <2>2, <2>7
<1>6. CASE ChangeNick(x, n)
    <2>1. PICK now : at' = [at EXCEPT ![s] = Rename(Evicted(v, x, n), x, n, now)]
        BY <1>6 DEF ChangeNick
    <2>2. fresh' = fresh
        BY <1>6 DEF ChangeNick
    <2> DEFINE w == Rename(Evicted(v, x, n), x, n, now)
    <2>3. Settles(v, w)
        BY <1>1, TakeSettles
    <2> HIDE DEF w
    <2> QED BY <1>2, <2>1, <2>2, <2>3 DEF w
<1>7. CASE RefuseNick(x, n)
    <2>1. PICK now : at' = [at EXCEPT ![s] = [Evicted(v, x, n) EXCEPT !.client[x].ts = now]]
        BY <1>7 DEF RefuseNick
    <2>2. fresh' = fresh
        BY <1>7 DEF RefuseNick
    <2> DEFINE w == [Evicted(v, x, n) EXCEPT !.client[x].ts = now]
    <2>3. Settles(v, w)
        BY <1>1, TakeSettles
    <2> HIDE DEF w
    <2> QED BY <1>2, <2>1, <2>2, <2>3 DEF w
<1> QED BY <1>3, <1>4, <1>5, <1>6, <1>7

LEMMA UnheardKill ==
    ASSUME IInv, NEW u \in User, Unheard(u)', NEW s \in Server, NEW n \in Nick, OperKill(s, n) PROVE Unheard(u)
<1>1. PICK x : at' = [at EXCEPT ![s] = Exit(at[s], {x})]
    BY DEF OperKill
<1>2. fresh' = fresh /\ at \in [Server -> View] /\ Settles(at[s], Exit(at[s], {x}))
    BY ExitSettles DEF OperKill, IInv
<1> QED BY <1>1, <1>2, StepUnheard

LEMMA UnheardLine ==
    ASSUME IInv, NEW u \in User, Unheard(u)', NEW s \in Server, NEW t \in Server,
           ReceiveNick(s, t) \/ ReceiveChange(s, t) \/ ReceiveQuit(s, t) \/ ReceiveKill(s, t)
    PROVE  Unheard(u)
<1> DEFINE v == at[t]
           m == Head(net[s][t])
<1>1. at \in [Server -> View] /\ v \in View /\ ViewOK(v, fresh) /\ fresh \in SUBSET User
    BY DEF IInv
<1>2. fresh' = fresh
    BY DEF ReceiveNick, ReceiveChange, ReceiveQuit, ReceiveKill
<1>3. ASSUME NEW w, at' = [at EXCEPT ![t] = w], Settles(v, w) PROVE Unheard(u)
    BY <1>1, <1>2, <1>3, StepUnheard
<1>4. ASSUME NEW S, at' = [at EXCEPT ![t] = Exit(v, S)] PROVE Unheard(u)
    <2>1. Settles(v, Exit(v, S))
        BY ExitSettles
    <2> QED BY <1>3, <1>4, <2>1
<1>5. CASE at' = at
    BY <1>2, <1>5, UnheardStays
<1>6. CASE ReceiveNick(s, t)
    <2>1. LinksTypeOK(Lines(fresh)) /\ Arrives(s, t, "NICK")
        BY <1>6 DEF IInv, ReceiveNick
    <2>2. m.user \in User
        BY <1>1, <2>1, HeadOK
    <2> DEFINE w == Enter(Evicted(v, m.user, m.nick), m.user, m.nick, m.ts, TRUE)
    <2>3. Settles(v, w)
        <3> HIDE DEF m, v
        <3> QED BY <1>1, <2>2, TakeSettles
    <2>4. at' = at \/ at' = [at EXCEPT ![t] = w] \/ \E x : at' = [at EXCEPT ![t] = Exit(v, {x})]
        BY <1>6 DEF ReceiveNick
    <2> HIDE DEF w
    <2> QED BY <1>3, <1>4, <1>5, <2>3, <2>4
<1>7. CASE ReceiveChange(s, t)
    <2>1. Misdirected(s, t, m.old) \/ \E x \in Source(s, t, m.old) : HandleChange(s, t, x)
        BY <1>7 DEF ReceiveChange
    <2>2. CASE Misdirected(s, t, m.old)
        BY <1>5, <2>2 DEF Misdirected
    <2>3. ASSUME NEW x \in Source(s, t, m.old), HandleChange(s, t, x) PROVE Unheard(u)
        <3> DEFINE ts == IF m.nick = v.client[x].nick THEN v.client[x].ts ELSE m.ts
                   w == Rename(Evicted(v, x, m.nick), x, m.nick, ts)
        <3>1. x \in User
            BY DEF Source, Holder
        <3>2. Settles(v, w)
            <4> HIDE DEF m, v, ts
            <4> QED BY <1>1, <3>1, TakeSettles
        <3>3. \/ at' = [at EXCEPT ![t] = w]
              \/ \E y : at' = [at EXCEPT ![t] = Exit(v, {x, y})]
              \/ at' = [at EXCEPT ![t] = Exit(v, {x})]
            BY <2>3 DEF HandleChange
        <3> HIDE DEF w
        <3> QED BY <1>3, <1>4, <3>2, <3>3
    <2> QED BY <2>1, <2>2, <2>3
<1>8. CASE ReceiveQuit(s, t)
    <2>1. at' = at \/ \E x : at' = [at EXCEPT ![t] = Exit(v, {x})]
        BY <1>8 DEF ReceiveQuit, Misdirected
    <2> QED BY <1>4, <1>5, <2>1
<1>9. CASE ReceiveKill(s, t)
    <2>1. at' = at \/ \E x : at' = [at EXCEPT ![t] = Exit(v, {x})]
        BY <1>9 DEF ReceiveKill
    <2> QED BY <1>4, <1>5, <2>1
<1> QED BY <1>6, <1>7, <1>8, <1>9

-----------------------------------------------------------------------------
(* What is kept of a lone client as long as no link is lost.               *)
LoneOK(o) == Linked /\ \A u \in User : UserOK(o, u)

LEMMA AddsSeq == ASSUME NEW q, NEW m, NEW r, Adds(q, m, r) PROVE r \in Seq(Message)
BY DEF Adds

LEMMA LinkedStays ==
    ASSUME Linked, links' = links,
           \A x, y \in Server :
               \/ net'[x][y] = net[x][y]
               \/ net'[x][y] \in Seq(Message) /\ y \in Neighbour(x)
    PROVE  Linked'
BY DEF Linked

LEMMA LoneQuietly ==
    ASSUME NEW o, LoneOK(o), Quietly,
           \A u \in User : Unheard(u)' => Unheard(u),
           \A u \in User : u \in killed' =>
               u \in killed \/ (~Unheard(u)' /\ \E s \in Server : Never(o, u, at, net, s))
    PROVE  LoneOK(o)'
<1>1. Linked'
    BY LinkedStays DEF Quietly, LoneOK
<1>2. ASSUME NEW u \in User PROVE UserOK(o, u)'
    <2>1. UserOK(o, u) /\ \A x \in Server : Same(at[x], at'[x], u)
        BY DEF LoneOK, Quietly
    <2>2. \A x, y \in Server : Idle(o, net[x][y], net'[x][y], u)
        BY IdleSame DEF Quietly
    <2> QED BY <2>1, <2>2, IdleUser
<1> QED BY <1>1, <1>2 DEF LoneOK

LEMMA LoneSays ==
    ASSUME Stage, NEW o, LoneOK(o), NEW w, NEW p, NEW m, Says(o, w, p, m),
           m.type = "NICK" => Unheard(w) /\ ~Unheard(w)',
           \A u \in User : Unheard(u)' => Unheard(u),
           \A u \in User : u \in killed' => u \in killed \/ (u = w /\ m.type \in {"QUIT", "KILL"})
    PROVE  LoneOK(o)'
<1>1. \A x, y \in Server :
          IF x = p /\ y \in Neighbour(p) THEN Adds(net[x][y], m, net'[x][y])
          ELSE net'[x][y] = net[x][y]
    BY StageIs, SaysQueues
<1>2. Linked'
    <2>1. links' = links /\ Linked
        BY StageIs DEF Says
    <2> QED BY <1>1, <2>1, AddsSeq, LinkedStays
<1>3. ASSUME NEW u \in User PROVE UserOK(o, u)'
    <2>1. UserOK(o, u)
        BY DEF LoneOK
    <2>2. CASE u = w
        BY <2>1, <2>2, SaysUser
    <2>3. CASE u # w
        BY <2>1, <2>3, SaysOther
    <2> QED BY <2>2, <2>3
<1> QED BY <1>2, <1>3 DEF LoneOK

LEMMA LoneHears ==
    ASSUME Stage, NEW o, LoneOK(o), NEW w, NEW s, NEW t, NEW m, NEW n, Hears(o, w, s, t, m, n),
           \A u \in User : Unheard(u)' => Unheard(u), killed' = killed
    PROVE  LoneOK(o)'
<1>1. /\ t \in Neighbour(s) /\ Takes(net[s][t], m, net'[s][t])
      /\ \A x, y \in Server : ~(x = s /\ y = t) =>
            IF x = t /\ y \in Neighbour(t) \ {s} THEN Adds(net[x][y], n, net'[x][y])
            ELSE net'[x][y] = net[x][y]
    BY HearsIs
<1>2. Linked'
    <2>1. links' = links /\ Linked
        BY StageIs DEF Hears
    <2>2. net'[s][t] \in Seq(Message)
        BY <1>1, TakesIs
    <2> QED BY <1>1, <2>1, <2>2, AddsSeq, LinkedStays
<1>3. ASSUME NEW u \in User PROVE UserOK(o, u)'
    <2>1. UserOK(o, u)
        BY DEF LoneOK
    <2>2. CASE u = w
        BY <2>1, <2>2, HearsUser
    <2>3. CASE u # w
        BY <2>1, <2>3, HearsOther
    <2> QED BY <2>2, <2>3
<1> QED BY <1>2, <1>3 DEF LoneOK

LEMMA LoneDrops ==
    ASSUME Stage, NEW o, LoneOK(o), NEW w, NEW s, NEW t, NEW m, NEW back, Drops(o, w, s, t, m, back),
           \A u \in User : Unheard(u)' => Unheard(u), killed' = killed
    PROVE  LoneOK(o)'
<1>1. /\ t \in Neighbour(s) /\ s \in Neighbour(t)
      /\ Takes(net[s][t], m, net'[s][t]) /\ Ghosts(o, w, m, net[t][s], net'[t][s])
      /\ \A x, y \in Server : ~(x = s /\ y = t) /\ ~(x = t /\ y = s) => net'[x][y] = net[x][y]
    BY DropsIs
<1>2. Linked'
    <2>1. links' = links /\ Linked
        BY StageIs DEF Drops
    <2>2. net'[s][t] \in Seq(Message)
        BY <1>1, TakesIs
    <2>3. net'[t][s] = net[t][s] \/ net'[t][s] \in Seq(Message)
        BY <1>1, AddsSeq DEF Ghosts
    <2> QED BY <1>1, <2>1, <2>2, <2>3, LinkedStays
<1>3. ASSUME NEW u \in User PROVE UserOK(o, u)'
    <2>1. UserOK(o, u)
        BY DEF LoneOK
    <2>2. CASE u = w
        BY <2>1, <2>2, DropsUser
    <2>3. CASE u # w
        BY <2>1, <2>3, DropsOther
    <2> QED BY <2>2, <2>3
<1> QED BY <1>2, <1>3 DEF LoneOK

-----------------------------------------------------------------------------
LEMMA StageNow ==
    ASSUME NEW o, Sound(o), LoneOK(o), IInv' PROVE Stage
<1>1. net \in Queues(Message) /\ at \in [Server -> View] /\ Linked
    BY SoundIs DEF LoneOK
<1>2. at' \in [Server -> View]
    BY DEF IInv
<1> QED BY <1>1, <1>2 DEF Stage

(* What users do.                                                          *)
LEMMA LoneCommands ==
    ASSUME NEW o, Sound(o), Obeyed(o)', LoneOK(o), IInv', NEW x \in User, NEW n \in Nick,
           Register(x) \/ Quit(x) \/ ChooseNick(x, n) \/ ChangeNick(x, n) \/ RefuseNick(x, n)
    PROVE  LoneOK(o)'
<1>1. \A u \in User : Unheard(u)' => Unheard(u)
    BY UnheardShrinks DEF Sound
<1>2. Stage /\ killed' = killed
    <2>1. killed' = killed
        BY DEF Register, Quit, ChooseNick, ChangeNick, RefuseNick, history
    <2> QED BY <2>1, StageNow
<1>3. CASE Quietly
    <2>1. \A u \in User : u \in killed' => u \in killed
        BY <1>2
    <2> QED BY <1>1, <1>3, <2>1, LoneQuietly
<1>4. ASSUME NEW m, NEW p, Says(o, x, p, m), m.type # "NICK" PROVE LoneOK(o)'
    BY <1>1, <1>2, <1>4, LoneSays
<1>5. CASE Register(x)
    <2> DEFINE m == NickLine(x, at[home[x]].client[x])
    <2>1. Says(o, x, home[x], m)
        BY <1>5, RegisterSays
    <2>2. Unheard(x)
        BY <1>5 DEF Register, Unheard
    <2>3. at'[home[x]].client[x].known /\ fresh' = fresh
        <3>1. at \in [Server -> View] /\ home[x] \in Server
            BY SoundIs
        <3>2. at' = [at EXCEPT ![home[x]].client[x].known = TRUE] /\ fresh' = fresh
            BY <1>5 DEF Register
        <3>3. at'[home[x]].client[x].known
            BY <3>1, <3>2 DEF View, Client
        <3> QED BY <3>2, <3>3
    <2>4. x \notin fresh
        <3>1. home[x] \in Server /\ ViewOK(at[home[x]], fresh)
            BY SoundIs
        <3> QED BY <1>5, <3>1 DEF Register, ViewOK
    <2>5. ~Unheard(x)'
        BY <2>3, <2>4 DEF Unheard
    <2> HIDE DEF m
    <2> QED BY <1>1, <1>2, <2>1, <2>2, <2>5, LoneSays
<1>6. CASE Quit(x)
    <2>1. Quietly \/ \E m : m.type = "QUIT" /\ Says(o, x, home[x], m)
        BY <1>6, QuitSays
    <2> QED BY <1>3, <1>4, <2>1
<1>7. CASE ChangeNick(x, n)
    <2>1. o[n] = x
        <3>1. PICK now : claims' = claims \union {[user |-> x, nick |-> n, ts |-> now]}
            BY <1>7 DEF ChangeNick, Claim
        <3>2. [user |-> x, nick |-> n, ts |-> now] \in claims'
            BY <3>1
        <3> QED BY <3>2 DEF Obeyed
    <2>2. PICK m : m.type = "CHANGE" /\ Says(o, x, home[x], m)
        BY <1>7, <2>1, ChangeSays
    <2> QED BY <1>4, <2>2
<1>8. CASE ChooseNick(x, n) \/ RefuseNick(x, n)
    BY <1>3, <1>8, ChooseQuietly, RefuseUnseen
<1> QED BY <1>5, <1>6, <1>7, <1>8

(* What opers do.                                                          *)
LEMMA LoneKill ==
    ASSUME NEW o, Sound(o), LoneOK(o), IInv', NEW s \in Server, NEW n \in Nick, OperKill(s, n)
    PROVE  LoneOK(o)'
<1> DEFINE w == o[n]
<1>1. \A u \in User : Unheard(u)' => Unheard(u)
    BY UnheardKill DEF Sound
<1>2. /\ w \in Chased(at[s], n) /\ killed' = killed \union {w}
      /\ at' = [at EXCEPT ![s] = Exit(at[s], {w})]
      /\ \/ Quietly /\ ~at[s].client[w].known
         \/ \E m : m.type \in {"QUIT", "KILL"} /\ Says(o, w, s, m)
    BY KillSays
<1>3. Stage /\ w \in User
    BY StageNow, SoundIs DEF Owners
<1>4. ASSUME NEW m, m.type \in {"QUIT", "KILL"}, Says(o, w, s, m) PROVE LoneOK(o)'
    BY <1>1, <1>2, <1>3, <1>4, LoneSays
<1>5. CASE Quietly /\ ~at[s].client[w].known
    <2>1. at[s] \in View /\ ViewOK(at[s], fresh) /\ ProperView(o, at[s], s) /\ at \in [Server -> View]
        BY SoundIs
    <2>2. w \in Holder(at[s], n)
        BY <1>2, <1>5, <2>1 DEF Chased, ViewOK
    <2>3. at[s].client[w].nick # NoNick
        BY <2>2, NickAssumption DEF Holder
    <2>4. home[w] = s /\ w \notin fresh
        BY <1>3, <1>5, <2>1, <2>3 DEF ProperView, ViewOK
    <2>5. Unheard(w)
        BY <1>5, <2>3, <2>4 DEF Unheard
    <2>6. Never(o, w, at, net, s)
        <3>1. Silent(o, w, at, net, Server)
            BY <1>3, <2>5 DEF LoneOK, UserOK
        <3>2. \A x, y \in Server : ~Heralds(o, net[x][y], w)
            BY <3>1 DEF Silent, Heralds
        <3> QED BY <3>1, <3>2, Neighbours DEF Silent, Never
    <2>7. ~Unheard(w)'
        <3> DEFINE S == {w}
        <3>1. at'[s].client[w] = Absent
            <4>1. at'[s] = Exit(at[s], S) /\ w \in S
                BY <1>2, <2>1
            <4> HIDE DEF S
            <4> QED BY <1>3, <4>1 DEF Exit
        <3>2. fresh' = fresh
            BY DEF OperKill
        <3> QED BY <2>4, <3>1, <3>2 DEF Unheard, Absent
    <2>8. \A u \in User : u \in killed' =>
               u \in killed \/ (~Unheard(u)' /\ \E x \in Server : Never(o, u, at, net, x))
        BY <1>2, <2>6, <2>7
    <2> HIDE DEF w
    <2> QED BY <1>1, <1>5, <2>8, LoneQuietly
<1> QED BY <1>2, <1>4, <1>5

(* What servers say to each other.                                         *)
LEMMA LoneLines ==
    ASSUME NEW o, Sound(o), LoneOK(o), IInv', NEW s \in Server, NEW t \in Server,
           ReceiveNick(s, t) \/ ReceiveChange(s, t) \/ ReceiveQuit(s, t) \/ ReceiveKill(s, t)
    PROVE  LoneOK(o)'
<1> DEFINE m == Head(net[s][t])
<1>1. Stage /\ Linked /\ net \in Queues(Message) /\ LinksTypeOK(ProperLines(o))
    BY StageNow, SoundIs DEF LoneOK
<1>2. killed' = killed /\ \A u \in User : Unheard(u)' => Unheard(u)
    <2>1. killed' = killed
        BY DEF ReceiveNick, ReceiveChange, ReceiveQuit, ReceiveKill, history
    <2>2. \A u \in User : Unheard(u)' => Unheard(u)
        BY UnheardLine DEF Sound
    <2> QED BY <2>1, <2>2
<1>3. PICK type : type \in {"NICK", "CHANGE", "QUIT", "KILL"} /\ Arrives(s, t, type)
    BY DEF ReceiveNick, ReceiveChange, ReceiveQuit, ReceiveKill
<1>4. /\ t \in Neighbour(s) /\ s \in Neighbour(t) /\ s # t
      /\ Takes(net[s][t], m, Tail(net[s][t]))
    BY <1>1, <1>3, AnswerQueues
<1>5. t \notin Behind(t, s) /\ t \in Behind(s, t)
    BY <1>4, BehindIs
<1>6. ASSUME NEW w, NEW n, Hears(o, w, s, t, m, n) PROVE LoneOK(o)'
    BY <1>1, <1>2, <1>6, LoneHears
<1>7. ASSUME NEW w, NEW back, Drops(o, w, s, t, m, back) PROVE LoneOK(o)'
    BY <1>1, <1>2, <1>7, LoneDrops
<1>8. m \in LinesOf(o, net[s][t], Of(o, m))
    BY <1>4, TakenLine
<1>9. m = Head(net[s][t])
    OBVIOUS
<1> HIDE DEF m
<1>10. CASE ReceiveNick(s, t)
    <2>1. Arrives(s, t, "NICK")
        BY <1>10 DEF ReceiveNick
    <2>2. m.user \in User /\ m.type = "NICK"
        BY <1>1, <1>9, <2>1, ProperHead
    <2> DEFINE w == m.user
    <2>3. Of(o, m) = w
        BY <2>2 DEF Of
    <2>4. Heralds(o, net[s][t], w)
        BY <1>8, <2>2, <2>3 DEF Heralds
    <2>5. Silent(o, w, at, net, Behind(s, t))
        BY <1>4, <2>2, <2>4 DEF LoneOK, UserOK, Ahead
    <2>6. NickOf(at[t], w) = NoNick /\ w = m.user
        BY <1>5, <2>5 DEF Silent
    <2> HIDE DEF w
    <2>7. Hears(o, w, s, t, m, m)
        BY <1>9, <1>10, <2>6, NickHeard
    <2> QED BY <1>6, <2>7
<1>11. CASE ReceiveChange(s, t)
    <2>1. \/ \E n : Hears(o, o[m.old], s, t, m, n)
          \/ \E back : Drops(o, o[m.old], s, t, m, back)
        BY <1>5, <1>9, <1>11, ChangeHeard
    <2> QED BY <1>6, <1>7, <2>1
<1>12. CASE ReceiveQuit(s, t)
    <2>1. \/ \E n : Hears(o, o[m.nick], s, t, m, n)
          \/ \E back : Drops(o, o[m.nick], s, t, m, back)
        BY <1>5, <1>9, <1>12, QuitHeard
    <2> QED BY <1>6, <1>7, <2>1
<1>13. CASE ReceiveKill(s, t)
    <2>1. Arrives(s, t, "KILL")
        BY <1>13 DEF ReceiveKill
    <2>2. m.nick \in Nick /\ m.type = "KILL"
        BY <1>1, <1>9, <2>1, ProperHead
    <2> DEFINE w == o[m.nick]
    <2>3. Of(o, m) = w /\ w \in User
        BY <2>2, SoundIs DEF Of, Owners
    <2>4. ~Unheard(w)
        <3>1. LinesOf(o, net[s][t], w) # {} /\ UserOK(o, w)
            BY <1>8, <2>3 DEF LoneOK
        <3> QED BY <3>1, IsHeard
    <2>5. at[t] \in View /\ ViewOK(at[t], fresh) /\ ProperView(o, at[t], t) /\ o \in Owners
        BY SoundIs
    <2>6. Chased(at[t], m.nick) \subseteq {w}
        BY <2>2, <2>5, HolderOwn
    <2>7. ASSUME w \in Chased(at[t], m.nick) PROVE at[t].client[w].known
        <3>1. CASE w \in Holder(at[t], m.nick)
            <4>1. at[t].client[w].nick # NoNick
                BY <2>2, <3>1, NickAssumption DEF Holder
            <4> HIDE DEF w
            <4> QED BY <2>3, <2>4, <2>5, <4>1 DEF ProperView, Unheard
        <3>2. CASE w \notin Holder(at[t], m.nick)
            <4>1. w = at[t].was[m.nick] /\ w # Nobody
                BY <2>7, <3>2 DEF Chased
            <4> QED BY <2>2, <2>5, <4>1 DEF ViewOK
        <3> QED BY <3>1, <3>2
    <2>8. \A u \in Chased(at[t], m.nick) : at[t].client[u].known
        BY <2>6, <2>7
    <2>9. \/ \E n : Hears(o, o[m.nick], s, t, m, n)
          \/ \E back : Drops(o, o[m.nick], s, t, m, back)
        BY <1>9, <1>13, <2>8, KillHeard
    <2> QED BY <1>6, <1>7, <2>9
<1> QED BY <1>10, <1>11, <1>12, <1>13

(* No link is opened or closed.                                            *)
LEMMA LoneLinks ==
    ASSUME Linked, NEW s \in Server, NEW t \in Server
    PROVE  ~ReceiveSquit(s, t) /\ ~ReceiveEof(s, t) /\ ~ReceiveServer(s, t) /\ ~Estab(s, t)
<1>1. \A type \in {"SQUIT", "EOF", "SERVER"} : ~Arrives(s, t, type)
    <2> SUFFICES ASSUME NEW type \in {"SQUIT", "EOF", "SERVER"}, Arrives(s, t, type) PROVE FALSE
        OBVIOUS
    <2>1. net[s][t] \in Seq(Message) /\ net[s][t] # << >> /\ Head(net[s][t]).type = type
        BY LinkedIs DEF Arrives
    <2>2. Head(net[s][t]) \in Message
        BY <2>1
    <2>3. Head(net[s][t]).type \in {"NICK", "CHANGE", "KILL", "QUIT"}
        BY <2>2, NickTypes
    <2> QED BY <2>1, <2>3
<1>2. ~ReceiveSquit(s, t) /\ ~ReceiveEof(s, t) /\ ~ReceiveServer(s, t)
    BY <1>1 DEF ReceiveSquit, ReceiveEof, ReceiveServer, SquitLink, EofLink, ServerLink
<1>3. ~Estab(s, t)
    BY LinkedIs DEF Estab, EstabLink
<1> QED BY <1>2, <1>3

LEMMA LoneNext ==
    ASSUME NEW o, Sound(o), Obeyed(o)', LoneOK(o), IInv', "split" \notin used', [Next]_vars
    PROVE  LoneOK(o)'
<1>1. ASSUME NEW u \in User, Register(u) \/ Quit(u) PROVE LoneOK(o)'
    <2>1. CASE Nick = {}
        <3>1. at[home[u]].client[u].nick = NoNick
            BY <2>1, SoundIs
        <3> QED BY <1>1, <3>1 DEF Register, Quit
    <2>2. CASE Nick # {}
        BY <1>1, <2>2, LoneCommands
    <2> QED BY <2>1, <2>2
<1>2. ASSUME NEW u \in User, NEW n \in Nick, ChooseNick(u, n) \/ ChangeNick(u, n) \/ RefuseNick(u, n)
      PROVE  LoneOK(o)'
    BY <1>2, LoneCommands
<1>3. ASSUME NEW s \in Server, NEW n \in Nick, OperKill(s, n) PROVE LoneOK(o)'
    BY <1>3, LoneKill
<1>4. ASSUME NEW s \in Server, NEW t \in Server,
             ReceiveNick(s, t) \/ ReceiveChange(s, t) \/ ReceiveQuit(s, t) \/ ReceiveKill(s, t)
      PROVE  LoneOK(o)'
    BY <1>4, LoneLines
<1>5. ASSUME NEW s \in Server, NEW t \in Server,
             ReceiveSquit(s, t) \/ ReceiveEof(s, t) \/ ReceiveServer(s, t) \/ Close(s, t) \/ Estab(s, t)
      PROVE  LoneOK(o)'
    <2>1. ~Close(s, t)
        BY DEF Close
    <2> QED BY <1>5, <2>1, LoneLinks DEF LoneOK
<1>6. CASE UNCHANGED vars
    <2>1. Quietly /\ killed' = killed /\ at' = at /\ fresh' = fresh
        BY <1>6, SameView DEF vars, history, Quietly
    <2>2. /\ \A u \in User : Unheard(u)' => Unheard(u)
          /\ \A u \in User : u \in killed' => u \in killed
        BY <2>1 DEF Unheard
    <2> QED BY <2>1, <2>2, LoneQuietly
<1> QED BY <1>1, <1>2, <1>3, <1>4, <1>5, <1>6 DEF Next

LEMMA LoneInit == ASSUME Init, NEW o PROVE LoneOK(o)
<1>1. /\ \A x, y \in Server : net[x][y] = << >>
      /\ \A x \in Server : links[x] = Neighbour(x)
    BY DEF Init, LinksInit
<1>2. \A x \in Server, u \in User : NickOf(at[x], u) = NoNick /\ ~at[x].client[u].known
    BY DEF Init, NickOf, Absent
<1>3. fresh = User /\ killed = {}
    BY DEF Init
<1> DEFINE none == << >>
<1>4. none \in Seq(Message) /\ \A x, y \in Server : net[x][y] = none
    BY <1>1
<1>5. ASSUME NEW u PROVE LinesOf(o, none, u) = {} /\ ~Heralds(o, none, u) /\ Once(o, none, u)
    <2>1. Once(o, none, u)
        BY DEF Once
    <2> QED BY <2>1, LinesEmpty
<1> HIDE DEF none
<1>6. Linked
    BY <1>1, <1>4 DEF Linked
<1>7. ASSUME NEW u \in User PROVE UserOK(o, u)
    <2>1. ASSUME NEW x \in Server, NEW y \in Server PROVE Fit(o, u, at[x], none, at[y], none)
        <3>1. Trace(o, none, u, NoNick, NoNick)
            <4>1. NoNick \in Name
                BY DEF Name
            <4> QED BY <1>4, <1>5, <4>1, TraceNone
        <3> QED BY <1>2, <1>5, <3>1 DEF Fit, Agreed, Homeward, Finds
    <2>3. AllFit(o, u, at, net)
        BY <1>4, <2>1, Neighbours DEF AllFit
    <2>4. Ahead(o, u, at, net) /\ AllOnce(o, u, net) /\ Silent(o, u, at, net, Server)
        BY <1>2, <1>4, <1>5, Neighbours DEF Ahead, AllOnce, Silent
    <2> QED BY <1>3, <2>3, <2>4 DEF UserOK
<1> QED BY <1>6, <1>7 DEF LoneOK

(* Where every line has been read, neighbours know everybody by one nick,  *)
(* and whoever has been killed is gone everywhere.                         *)
LEMMA LoneMeet ==
    ASSUME NEW o, LoneOK(o), Quiet, at \in [Server -> View]
    PROVE  /\ \A s, t \in Server : Alike(at[s], at[t])
           /\ \A u \in User : u \in killed => \A s \in Server : NickOf(at[s], u) = NoNick
<1>1. ASSUME NEW s \in Server, NEW t \in Neighbour(s), NEW u \in User, u \in Near(s, t)
      PROVE  NickOf(at[s], u) = NickOf(at[t], u)
    <2> DEFINE none == << >>
    <2>1. t \in Server /\ NickOf(at[t], u) \in Name
        BY <1>1, Neighbours, NickOfName
    <2>2. net[s][t] = none /\ net[t][s] = none
        BY <2>1 DEF Quiet
    <2>3. LinesOf(o, none, u) = {} /\ \A b : Trace(o, none, u, NickOf(at[t], u), b) => b = NickOf(at[t], u)
        BY <2>1, LinesEmpty, TraceEmpty
    <2> HIDE DEF none
    <2>4. Fit(o, u, at[s], none, at[t], none)
        BY <1>1, <2>2 DEF LoneOK, UserOK, AllFit
    <2> QED BY <2>3, <2>4 DEF Fit, Agreed, LostTo
<1>2. \A s \in Server : \A t \in Neighbour(s) : Alike(at[s], at[t])
    <2> SUFFICES ASSUME NEW s \in Server, NEW t \in Neighbour(s), NEW u \in User
                 PROVE  NickOf(at[s], u) = NickOf(at[t], u)
        BY DEF Alike
    <2>1. t \in Server /\ s \in Neighbour(t) /\ (u \in Near(s, t) \/ u \in Near(t, s))
        BY Neighbours, Sides
    <2> QED BY <1>1, <2>1
<1>3. \A s, t \in Server : Alike(at[s], at[t])
    BY <1>2, AllMeet
<1>4. ASSUME NEW u \in User, u \in killed, NEW s \in Server PROVE NickOf(at[s], u) = NoNick
    <2>1. PICK x \in Server : NickOf(at[x], u) = NoNick
        BY <1>4 DEF LoneOK, UserOK, Never
    <2> QED BY <1>3, <2>1 DEF Alike
<1> QED BY <1>3, <1>4

-----------------------------------------------------------------------------
(* Without splits, ...                                                     *)
LonesMatch == \A o \in Owners : Obeyed(o) /\ "split" \notin used => LoneOK(o)

LEMMA LonesNext ==
    ASSUME IInv, IInv', NamesAreOwn, LonesMatch, [Next]_vars PROVE LonesMatch'
<1> SUFFICES ASSUME NEW o \in Owners, Obeyed(o)', "split" \notin used' PROVE LoneOK(o)'
    BY DEF LonesMatch
<1>1. Obeyed(o) /\ "split" \notin used
    BY ClaimsGrow, UsedGrows DEF Obeyed
<1>2. Sound(o) /\ LoneOK(o)
    BY <1>1 DEF NamesAreOwn, LonesMatch, Sound
<1> QED BY <1>2, LoneNext

(* As long as no link is lost, and no two connections take one nick, the   *)
(* lines between two neighbours make what the one knows of a client what   *)
(* the other does, or the one farther from his own server has lost him,    *)
(* will not be told of him again, and has told the other to kill him by a  *)
(* nick that finds him there, if only in the whowas table; and some server *)
(* has lost for good whoever an oper has killed (m_kill.c, parse.c).       *)
THEOREM LonesStayMatched == Spec => []LonesMatch
<1>1. Init => LonesMatch
    BY LoneInit DEF LonesMatch
<1>2. IInv /\ IInv' /\ NamesAreOwn /\ LonesMatch /\ [Next]_vars => LonesMatch'
    BY LonesNext
<1> QED BY <1>1, <1>2, IInvHolds, NamesStayOwn, PTL DEF Spec

LEMMA LonesAgree ==
    ASSUME IInv, PairsMatch, LonesMatch PROVE LoneClientsAgree
<1>1. /\ at \in [Server -> View] /\ claims \subseteq [user : User, nick : Nick, ts : Nat]
      /\ IsFiniteSet(User) /\ killed \subseteq User /\ NoNick \notin Nick
      /\ \A s \in Server, u \in User : at[s].client[u].known => at[s].client[u].nick \in Nick
    BY NickAssumption DEF IInv, ViewOK
<1>2. CASE User = {}
    <2>1. \A s, t \in Server : Alike(at[s], at[t])
        BY <1>2 DEF Alike
    <2>2. SameClients /\ SameNicks
        BY <2>1, AlikeMeans
    <2>3. killed = {}
        BY <1>1, <1>2
    <2> QED BY <2>2, <2>3 DEF LoneClientsAgree
<1>3. ASSUME User # {}, Alone, "kill" \notin used PROVE SameClients /\ SameNicks
    <2>1. PICK o \in Owners : Obeyed(o)
        BY <1>1, <1>3, AloneObeyed
    <2>2. PairsOK(o)
        BY <1>3, <2>1 DEF PairsMatch
    <2>3. Quiet => \A s, t \in Server : Alike(at[s], at[t])
        BY <1>1, <2>2, NeighboursMeet, AllMeet
    <2>4. CASE Quiet
        BY <2>3, <2>4, AlikeMeans
    <2>5. CASE ~Quiet
        BY <2>5 DEF SameClients, SameNicks
    <2> QED BY <2>4, <2>5
<1>4. ASSUME User # {}, Alone, "split" \notin used
      PROVE  /\ SameClients /\ SameNicks
             /\ Quiet => \A s \in Server : Known(s) \intersect killed = {}
    <2>1. PICK o \in Owners : Obeyed(o)
        BY <1>1, <1>4, AloneObeyed
    <2>2. LoneOK(o)
        BY <1>4, <2>1 DEF LonesMatch
    <2>3. CASE Quiet
        <3>1. /\ \A s, t \in Server : Alike(at[s], at[t])
              /\ \A u \in User : u \in killed => \A s \in Server : NickOf(at[s], u) = NoNick
            BY <1>1, <2>2, <2>3, LoneMeet
        <3>2. SameClients /\ SameNicks
            BY <3>1, AlikeMeans
        <3>3. ASSUME NEW s \in Server, NEW u \in killed, u \in Known(s) PROVE FALSE
            BY <1>1, <3>1, <3>3 DEF Known, NickOf
        <3> QED BY <3>2, <3>3
    <2>4. CASE ~Quiet
        BY <2>4 DEF SameClients, SameNicks
    <2> QED BY <2>3, <2>4
<1>5. CASE User # {}
    BY <1>3, <1>4, <1>5 DEF LoneClientsAgree
<1> QED BY <1>2, <1>5

(* Without contention the servers agree whatever their users do, and a     *)
(* KILL that crosses a change of nick still finds its client: that is what *)
(* the whowas table and remove_unknown are for (m_kill.c, parse.c).        *)
THEOREM LoneClientsMeet == Spec => []LoneClientsAgree
<1>1. IInv /\ PairsMatch /\ LonesMatch => LoneClientsAgree
    BY LonesAgree
<1> QED BY <1>1, IInvHolds, PairsStayMatched, LonesStayMatched, PTL
=============================================================================
