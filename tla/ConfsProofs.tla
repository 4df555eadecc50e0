---------------------------- MODULE ConfsProofs ----------------------------
(***************************************************************************)
(* TypeOK, UsersCounted, NothingDangles and NothingLeaks of Confs, for any *)
(* clients and blocks, any contents of ircd.conf and any number of reads.  *)
(* The invariants are inductive together with what a rehash relies on:     *)
(* exactly the classes that are not in the list are marked, what is listed *)
(* has a class that is, and a name that is read again is a new one.        *)
(***************************************************************************)
EXTENDS Confs, FiniteSetTheorems, TLAPS

Att(x, a) == {c \in Client : << c, a >> \in x.attached}
InUse(x, k) == {p \in x.attached : x.of[p[2]] = k}

(* The counts are exact.                                                   *)
Counted(x) ==
    /\ \A a \in x.lines : x.clients[a] = Cardinality(Att(x, a))
    /\ \A k \in x.classes : x.users[k] = Cardinality(InUse(x, k))

(* What can be reached is allocated.                                       *)
Reachable(x) ==
    /\ x.listed \subseteq x.lines /\ x.inList \subseteq x.classes
    /\ \A p \in x.attached : p[2] \in x.lines
    /\ \A a \in x.lines : x.of[a] \in x.classes \union {NoClass}

(* What is not listed is in use.                                           *)
Needed(x) ==
    /\ \A a \in x.lines \ x.listed : Att(x, a) # {}
    /\ \A k \in x.classes \ x.inList : InUse(x, k) # {}

(* A class is marked when it has left the list, which no listed line's     *)
(* class has; the default never does.                                      *)
Marked(x) ==
    /\ \A k \in x.inList : x.max[k] >= 0
    /\ \A k \in x.classes \ x.inList : x.max[k] = -1
    /\ \A a \in x.listed : x.of[a] \in x.inList \union {NoClass}
    /\ Default \in x.inList
    /\ \A a \in x.lines : Kind(a) = "hub" => x.of[a] = NoClass

(* Nothing comes from a file that is yet to be read.                       *)
Earlier(x, n) ==
    /\ \A a \in x.lines : a[2] <= n
    /\ \A k \in x.classes \ {Default} : k[2] <= n

Good(x, n) ==
    /\ x \in Tables /\ IsFiniteSet(x.attached)
    /\ Counted(x) /\ Reachable(x) /\ Needed(x) /\ Marked(x) /\ Earlier(x, n)

(* The inductive invariant: a connection that is not registered yet, and   *)
(* that this server has not made, is attached to nothing.                  *)
Inductive ==
    /\ Good(t, reads)
    /\ phase \in [Client -> Phases] /\ reads \in 0..MaxReads
    /\ \A p \in t.attached : phase[p[1]] \notin {"gone", "unknown"}

-----------------------------------------------------------------------------
LEMMA InductiveImplies ==
    Inductive => TypeOK /\ UsersCounted /\ NothingDangles /\ NothingLeaks
<1> SUFFICES ASSUME Inductive PROVE TypeOK /\ UsersCounted /\ NothingDangles /\ NothingLeaks
    OBVIOUS
<1>1. TypeOK
    BY DEF Inductive, Good, TypeOK
<1>2. UsersCounted
    BY DEF Inductive, Good, Counted, Att, InUse, UsersCounted
<1>3. NothingDangles
    BY DEF Inductive, Good, Reachable, NothingDangles
<1>4. NothingLeaks
    <2>1. \A a \in t.lines \ t.listed : \E c \in Client : << c, a >> \in t.attached
        BY DEF Inductive, Good, Needed, Att
    <2>2. \A k \in t.classes \ t.inList : \E p \in t.attached : t.of[p[2]] = k
        BY DEF Inductive, Good, Needed, InUse
    <2> QED BY <2>1, <2>2 DEF NothingLeaks
<1> QED BY <1>1, <1>2, <1>3, <1>4

(* The fields of a table.                                                  *)
LEMMA TableIs ==
    ASSUME NEW x \in Tables
    PROVE  /\ x.lines \subseteq Line /\ x.listed \subseteq Line
           /\ x.attached \subseteq Client \X Line
           /\ x.clients \in [Line -> Nat] /\ x.of \in [Line -> Class \union {NoClass}]
           /\ x.classes \subseteq Class /\ x.inList \subseteq Class
           /\ x.max \in [Class -> Int] /\ x.cidr \in [Class -> Nat]
           /\ x.users \in [Class -> Nat] /\ x.perCidr \in [Class -> Nat]
BY DEF Tables

LEMMA Names ==
    /\ Default \in Class /\ NoClass \notin Class /\ NoClass # Default
    /\ \A k \in Class \ {Default} : k[1] \in ClassName /\ k[2] \in 1..MaxReads
    /\ \A k \in Class : k[1] \in ClassName <=> k # Default
    /\ \A a \in Line : a[1] \in Block /\ a[2] \in 1..MaxReads
<1>1. "default" \notin ClassName /\ "none" \notin ClassName
    BY ConfsAssumption
<1> QED BY <1>1 DEF Default, NoClass, Class, Line

(* The sets that are counted are finite.                                   *)
LEMMA Finite ==
    ASSUME NEW x, IsFiniteSet(x.attached)
    PROVE  /\ \A a : /\ IsFiniteSet(Att(x, a)) /\ Cardinality(Att(x, a)) \in Nat
                     /\ Cardinality(Att(x, a)) = 0 <=> Att(x, a) = {}
           /\ \A k : /\ IsFiniteSet(InUse(x, k)) /\ Cardinality(InUse(x, k)) \in Nat
                     /\ Cardinality(InUse(x, k)) = 0 <=> InUse(x, k) = {}
<1>1. \A a : IsFiniteSet(Att(x, a))
    BY FS_Subset, ConfsAssumption DEF Att
<1>2. \A k : IsFiniteSet(InUse(x, k))
    BY FS_Subset DEF InUse
<1> QED BY <1>1, <1>2, FS_CardinalityType, FS_EmptySet

-----------------------------------------------------------------------------
(* detach_conf.                                                            *)

(* Of a class's users, those that one client's lines D make: as many as    *)
(* there are lines of that class.                                          *)
LEMMA InClassIs ==
    ASSUME NEW x \in Tables, IsFiniteSet(x.attached), NEW c \in Client, NEW D \in SUBSET Line,
           \A a \in D : << c, a >> \in x.attached, NEW k
    PROVE  /\ InClass(x, D, k) \in Nat /\ InClass(x, D, k) <= Cardinality(InUse(x, k))
           /\ Cardinality(InUse(x, k) \ ({c} \X D)) = Cardinality(InUse(x, k)) - InClass(x, D, k)
           /\ InClass(x, D, k) = 0 <=> \A a \in D : x.of[a] # k
<1> DEFINE K == {a \in D : x.of[a] = k}
           E == {c} \X K
           f == [p \in E |-> p[2]]
<1>1. E \subseteq InUse(x, k) /\ InUse(x, k) \ ({c} \X D) = InUse(x, k) \ E
      /\ InUse(x, k) \intersect E = E
    BY DEF InUse
<1>2. IsFiniteSet(InUse(x, k)) /\ Cardinality(InUse(x, k)) \in Nat
    BY Finite
<1>3. IsFiniteSet(E) /\ Cardinality(E) <= Cardinality(InUse(x, k))
    BY <1>1, <1>2, FS_Subset
<1>4. f \in Bijection(E, K)
    <2>1. \A p \in E : p = << c, p[2] >> /\ p[2] \in K
        OBVIOUS
    <2>2. \A a \in K : << c, a >> \in E /\ f[<< c, a >>] = a
        OBVIOUS
    <2>3. f \in [E -> K] /\ \A p \in E : f[p] = p[2]
        BY <2>1
    <2> HIDE DEF E, K, f
    <2>4. \A p, q \in E : f[p] = f[q] => p = q
        BY <2>1, <2>3
    <2>5. f \in Injection(E, K)
        <3>1. DOMAIN f = E
            BY <2>3
        <3>2. IsInjective(f)
            BY <2>4, <3>1 DEF IsInjective
        <3> QED BY <2>3, <3>2 DEF Injection
    <2>6. \A a \in K : \E p \in E : f[p] = a
        BY <2>2
    <2>7. f \in Surjection(E, K)
        BY <2>1, <2>3, <2>6 DEF Surjection
    <2> QED BY <2>5, <2>7 DEF Bijection
<1>5. ExistsBijection(E, K)
    BY <1>4 DEF ExistsBijection
<1>6. IsFiniteSet(K) /\ Cardinality(K) = Cardinality(E)
    BY <1>3, <1>5, FS_Bijection
<1>7. InClass(x, D, k) = Cardinality(K)
    BY DEF InClass
<1>8. Cardinality(K) \in Nat /\ (Cardinality(K) = 0 <=> K = {})
    BY <1>6, FS_CardinalityType, FS_EmptySet
<1>9. Cardinality(InUse(x, k) \ E) = Cardinality(InUse(x, k)) - Cardinality(E)
    <2> HIDE DEF E
    <2>1. Cardinality(InUse(x, k) \ E) = Cardinality(InUse(x, k)) - Cardinality(InUse(x, k) \intersect E)
        BY <1>2, FS_Difference
    <2> QED BY <1>1, <2>1
<1>10. K = {} <=> \A a \in D : x.of[a] # k
    OBVIOUS
<1> HIDE DEF K, E
<1> QED BY <1>1, <1>3, <1>6, <1>7, <1>8, <1>9, <1>10

(* What detach_conf leaves alone, and what it does.                        *)
LEMMA DetachIs ==
    ASSUME NEW x, NEW n, Good(x, n), NEW c \in Client, NEW S \in SUBSET Line
    PROVE  LET y == DetachConf(x, c, S)
               D == {a \in S : << c, a >> \in x.attached}
           IN  /\ y \in Tables
               /\ y.listed = x.listed /\ y.inList = x.inList /\ y.max = x.max /\ y.of = x.of
               /\ y.cidr = x.cidr
               /\ y.attached = x.attached \ ({c} \X D)
               /\ \A k \in x.classes : y.users[k] = x.users[k] - InClass(x, D, k)
               /\ \A a \in x.lines : y.clients[a] = IF a \in D THEN x.clients[a] - 1 ELSE x.clients[a]
               /\ y.classes = x.classes \ {k \in x.classes : /\ \E a \in D : x.of[a] = k
                                                           /\ x.max[k] = -1 /\ y.users[k] = 0}
               /\ y.lines = x.lines \ {a \in D : y.clients[a] = 0 /\ a \notin x.listed}
<1> DEFINE D == {a \in S : << c, a >> \in x.attached}
           users == [k \in Class |-> IF x.users[k] >= InClass(x, D, k)
                                     THEN x.users[k] - InClass(x, D, k) ELSE 0]
           freedClass == {k \in x.classes : /\ \E a \in D : x.of[a] = k
                                            /\ x.max[k] = -1 /\ users[k] = 0}
           clients == [a \in Line |-> IF a \in D THEN x.clients[a] - 1 ELSE x.clients[a]]
           freed == {a \in D : clients[a] = 0 /\ a \notin x.listed}
           perCidr == [k \in Class |-> RemoveIpLimit(x, k, InClass(x, D, k))]
           y == [x EXCEPT !.perCidr = perCidr, !.users = users, !.classes = x.classes \ freedClass,
                          !.clients = clients, !.lines = x.lines \ freed,
                          !.attached = x.attached \ ({c} \X D)]
<1>1. DetachConf(x, c, S) = y
    BY DEF DetachConf
<1>2. /\ x \in Tables /\ IsFiniteSet(x.attached) /\ D \in SUBSET Line
      /\ \A a \in D : << c, a >> \in x.attached
    BY DEF Good
<1>3. \A k \in Class : InClass(x, D, k) \in Nat /\ InClass(x, D, k) <= Cardinality(InUse(x, k))
    BY <1>2, InClassIs
<1>4. \A k \in Class : x.users[k] \in Nat /\ x.perCidr[k] \in Nat /\ x.cidr[k] \in Nat
    BY <1>2, TableIs
<1>5. users \in [Class -> Nat]
    BY <1>3, <1>4
<1>6. \A k \in x.classes : users[k] = x.users[k] - InClass(x, D, k)
    <2>1. \A k \in x.classes : k \in Class /\ x.users[k] = Cardinality(InUse(x, k))
        BY <1>2, TableIs DEF Good, Counted
    <2> QED BY <1>3, <1>4, <2>1
<1>7. \A k \in Class : RemoveIpLimit(x, k, InClass(x, D, k)) \in Nat
    BY <1>3, <1>4 DEF RemoveIpLimit
<1>8. perCidr \in [Class -> Nat]
    BY <1>7
<1>9. clients \in [Line -> Nat]
    <2>1. ASSUME NEW a \in D PROVE x.clients[a] \in Nat \ {0}
        <3>1. a \in x.lines /\ << c, a >> \in x.attached
            BY DEF Good, Reachable
        <3>2. Att(x, a) # {}
            BY <3>1 DEF Att
        <3>3. x.clients[a] = Cardinality(Att(x, a))
            BY <3>1 DEF Good, Counted
        <3> QED BY <1>2, <3>2, <3>3, Finite
    <2>2. \A a \in Line : x.clients[a] \in Nat
        BY <1>2, TableIs
    <2> HIDE DEF D
    <2> QED BY <2>1, <2>2
<1>10. \A a \in x.lines : clients[a] = IF a \in D THEN x.clients[a] - 1 ELSE x.clients[a]
    BY <1>2, TableIs
<1> HIDE DEF D, users, clients, perCidr
<1>11. /\ y.listed = x.listed /\ y.inList = x.inList /\ y.max = x.max /\ y.of = x.of
       /\ y.cidr = x.cidr /\ y.perCidr = perCidr
       /\ y.attached = x.attached \ ({c} \X D)
       /\ y.users = users /\ y.clients = clients
       /\ y.classes = x.classes \ freedClass /\ y.lines = x.lines \ freed
    BY <1>2 DEF Tables
<1>12. y \in Tables
    BY <1>2, <1>5, <1>8, <1>9 DEF Tables
<1> HIDE DEF y
<1> QED BY <1>1, <1>6, <1>10, <1>11, <1>12 DEF D

LEMMA DetachOK ==
    ASSUME NEW x, NEW n, Good(x, n), NEW c \in Client, NEW S \in SUBSET Line
    PROVE  Good(DetachConf(x, c, S), n)
<1> DEFINE y == DetachConf(x, c, S)
           D == {a \in S : << c, a >> \in x.attached}
           freedClass == {k \in x.classes : /\ \E a \in D : x.of[a] = k
                                            /\ x.max[k] = -1 /\ y.users[k] = 0}
           freed == {a \in D : y.clients[a] = 0 /\ a \notin x.listed}
<1>1. /\ y \in Tables
      /\ y.listed = x.listed /\ y.inList = x.inList /\ y.max = x.max /\ y.of = x.of
      /\ y.attached = x.attached \ ({c} \X D)
      /\ \A k \in x.classes : y.users[k] = x.users[k] - InClass(x, D, k)
      /\ \A a \in x.lines : y.clients[a] = IF a \in D THEN x.clients[a] - 1 ELSE x.clients[a]
      /\ y.classes = x.classes \ freedClass /\ y.lines = x.lines \ freed
    BY DetachIs
<1>2. /\ x \in Tables /\ IsFiniteSet(x.attached) /\ D \in SUBSET Line
      /\ \A a \in D : << c, a >> \in x.attached
      /\ Counted(x) /\ Reachable(x) /\ Needed(x) /\ Marked(x) /\ Earlier(x, n)
    BY DEF Good
<1> HIDE DEF y, D
<1>3. IsFiniteSet(y.attached)
    <2>1. y.attached \in SUBSET x.attached
        BY <1>1
    <2> QED BY <1>2, <2>1, FS_Subset
<1>4. \A a : Att(y, a) = IF a \in D THEN Att(x, a) \ {c} ELSE Att(x, a)
    BY <1>1 DEF Att
<1>5. \A k : InUse(y, k) = InUse(x, k) \ ({c} \X D)
    BY <1>1 DEF InUse
<1>6. ASSUME NEW a \in x.lines PROVE y.clients[a] = Cardinality(Att(y, a))
    <2>1. x.clients[a] = Cardinality(Att(x, a)) /\ IsFiniteSet(Att(x, a))
        BY <1>2, Finite DEF Counted
    <2>2. CASE a \in D
        <3>1. c \in Att(x, a)
            BY <1>2, <2>2 DEF Att
        <3>2. Cardinality(Att(x, a) \ {c}) = Cardinality(Att(x, a)) - 1
            BY <2>1, <3>1, FS_RemoveElement
        <3> QED BY <1>1, <1>4, <2>1, <2>2, <3>2
    <2>3. CASE a \notin D
        BY <1>1, <1>4, <2>1, <2>3
    <2> QED BY <2>2, <2>3
<1>7. ASSUME NEW k \in x.classes PROVE y.users[k] = Cardinality(InUse(y, k))
    <2>1. x.users[k] = Cardinality(InUse(x, k))
        BY <1>2 DEF Counted
    <2>2. Cardinality(InUse(x, k) \ ({c} \X D)) = Cardinality(InUse(x, k)) - InClass(x, D, k)
        BY <1>2, InClassIs
    <2> QED BY <1>1, <1>5, <2>1, <2>2
<1>8. Counted(y)
    BY <1>1, <1>6, <1>7 DEF Counted
<1>9. /\ \A a \in x.lines : y.clients[a] = 0 <=> Att(y, a) = {}
      /\ \A k \in x.classes : y.users[k] = 0 <=> InUse(y, k) = {}
    BY <1>3, <1>6, <1>7, Finite
<1>10. Needed(y)
    <2>1. ASSUME NEW a \in y.lines \ y.listed PROVE Att(y, a) # {}
        <3>1. a \in x.lines /\ a \notin freed /\ a \notin x.listed
            BY <1>1
        <3>2. CASE a \in D
            BY <1>9, <3>1, <3>2
        <3>3. CASE a \notin D
            BY <1>2, <1>4, <3>1, <3>3 DEF Needed
        <3> QED BY <3>2, <3>3
    <2>2. ASSUME NEW k \in y.classes \ y.inList PROVE InUse(y, k) # {}
        <3>1. k \in x.classes \ x.inList /\ k \notin freedClass
            BY <1>1
        <3>2. x.max[k] = -1
            BY <1>2, <3>1 DEF Marked
        <3>3. CASE \E a \in D : x.of[a] = k
            BY <1>9, <3>1, <3>2, <3>3
        <3>4. CASE \A a \in D : x.of[a] # k
            <4>1. InUse(y, k) = InUse(x, k)
                BY <1>5, <3>4 DEF InUse
            <4> QED BY <1>2, <3>1, <4>1 DEF Needed
        <3> QED BY <3>3, <3>4
    <2> QED BY <2>1, <2>2 DEF Needed
<1>11. Reachable(y)
    <2>1. y.listed \subseteq y.lines
        BY <1>1, <1>2 DEF Reachable
    <2>2. y.inList \subseteq y.classes
        <3>1. \A k \in freedClass : k \notin x.inList
            <4>1. \A k \in x.inList : x.max[k] >= 0
                BY <1>2 DEF Marked
            <4> QED BY <4>1
        <3> QED BY <1>1, <1>2, <3>1 DEF Reachable
    <2>3. ASSUME NEW p \in y.attached PROVE p[2] \in y.lines
        <3>1. p \in x.attached /\ p[2] \in x.lines /\ p = << p[1], p[2] >> /\ p[1] \in Client
            BY <1>1, <1>2, TableIs DEF Reachable
        <3>2. p[1] \in Att(y, p[2])
            BY <3>1 DEF Att
        <3>3. y.clients[p[2]] # 0
            BY <1>9, <3>1, <3>2
        <3> QED BY <1>1, <3>1, <3>3
    <2>4. ASSUME NEW a \in y.lines PROVE y.of[a] \in y.classes \union {NoClass}
        <3> DEFINE k == x.of[a]
        <3>1. a \in x.lines /\ a \notin freed /\ y.of[a] = k /\ k \in x.classes \union {NoClass}
            BY <1>1, <1>2 DEF Reachable
        <3>2. ASSUME k \in freedClass PROVE FALSE
            <4>1. k \in x.classes /\ InUse(y, k) = {} /\ x.max[k] = -1
                BY <1>9, <3>2
            <4>2. a \notin x.listed
                <5>1. k \notin x.inList
                    BY <1>2, <4>1 DEF Marked
                <5>2. k # NoClass
                    BY <1>2, <4>1, TableIs, Names
                <5> QED BY <1>2, <5>1, <5>2 DEF Marked
            <4>3. Att(y, a) # {}
                BY <1>1, <1>10, <3>1, <4>2 DEF Needed
            <4>4. PICK d \in Client : << d, a >> \in y.attached
                BY <4>3 DEF Att
            <4>5. << d, a >> \in InUse(y, k)
                BY <3>1, <4>4 DEF InUse
            <4> QED BY <4>1, <4>5
        <3> QED BY <1>1, <3>1, <3>2
    <2> QED BY <2>1, <2>2, <2>3, <2>4 DEF Reachable
<1>12. Marked(y) /\ Earlier(y, n)
    BY <1>1, <1>2 DEF Marked, Earlier
<1> QED BY <1>1, <1>3, <1>8, <1>10, <1>11, <1>12 DEF Good, y

-----------------------------------------------------------------------------
(* attach_conf.                                                            *)

(* add_ip_limit touches nothing but the count of the block.                *)
LEMMA AddIpLimitIs ==
    ASSUME NEW x \in Tables, NEW a \in Line
    PROVE  \E f \in [Class -> Nat] : AddIpLimit(x, a) = [x EXCEPT !.perCidr = f]
<1> DEFINE k == x.of[a]
           f == [x.perCidr EXCEPT ![k] = x.perCidr[k] + 1]
<1>1. x.perCidr \in [Class -> Nat] /\ k \in Class \union {NoClass}
    BY TableIs
<1>2. x = [x EXCEPT !.perCidr = x.perCidr]
    BY DEF Tables
<1>3. CASE AddIpLimit(x, a) = x
    BY <1>1, <1>2, <1>3
<1>4. CASE k # NoClass /\ AddIpLimit(x, a) = [x EXCEPT !.perCidr[k] = @ + 1]
    <2>1. f \in [Class -> Nat]
        BY <1>1, <1>4
    <2>2. AddIpLimit(x, a) = [x EXCEPT !.perCidr = f]
        BY <1>4
    <2> QED BY <2>1, <2>2
<1> QED BY <1>3, <1>4 DEF AddIpLimit

LEMMA PerCidrOK ==
    ASSUME NEW x, NEW n, Good(x, n), NEW f \in [Class -> Nat]
    PROVE  LET y == [x EXCEPT !.perCidr = f] IN
           /\ Good(y, n)
           /\ y.attached = x.attached /\ y.listed = x.listed /\ y.of = x.of
           /\ y.clients = x.clients /\ y.users = x.users
<1> DEFINE y == [x EXCEPT !.perCidr = f]
<1>1. x \in Tables /\ IsFiniteSet(x.attached)
    BY DEF Good
<1>2. /\ y \in Tables
      /\ y.lines = x.lines /\ y.listed = x.listed /\ y.attached = x.attached
      /\ y.clients = x.clients /\ y.of = x.of /\ y.classes = x.classes
      /\ y.inList = x.inList /\ y.max = x.max /\ y.users = x.users
    BY <1>1 DEF Tables
<1> HIDE DEF y
<1>3. (\A a : Att(y, a) = Att(x, a)) /\ (\A k : InUse(y, k) = InUse(x, k))
    BY <1>2 DEF Att, InUse
<1>4. Counted(y)
    BY <1>2, <1>3 DEF Good, Counted
<1>5. Reachable(y) /\ Marked(y) /\ Earlier(y, n)
    BY <1>2 DEF Good, Reachable, Marked, Earlier
<1>6. Needed(y)
    BY <1>2, <1>3 DEF Good, Needed
<1> QED BY <1>1, <1>2, <1>4, <1>5, <1>6 DEF Good, y

(* Lines that are listed get one client more, their class one user.        *)
LEMMA CountOK ==
    ASSUME NEW x, NEW n, Good(x, n), NEW c \in Client, NEW a \in x.listed,
           << c, a >> \notin x.attached
    PROVE  Good([x EXCEPT !.attached = @ \union {<< c, a >>}, !.clients[a] = @ + 1,
                          !.users = [k \in Class |-> IF k = x.of[a] THEN @[k] + 1 ELSE @[k]]], n)
<1> DEFINE users == [k \in Class |-> IF k = x.of[a] THEN x.users[k] + 1 ELSE x.users[k]]
           clients == [x.clients EXCEPT ![a] = x.clients[a] + 1]
           attached == x.attached \union {<< c, a >>}
           y == [x EXCEPT !.attached = attached, !.clients = clients, !.users = users]
<1>1. y = [x EXCEPT !.attached = @ \union {<< c, a >>}, !.clients[a] = @ + 1,
                    !.users = [k \in Class |-> IF k = x.of[a] THEN @[k] + 1 ELSE @[k]]]
    BY DEF Good, Tables
<1>2. /\ x \in Tables /\ IsFiniteSet(x.attached) /\ a \in Line /\ a \in x.lines
      /\ Counted(x) /\ Reachable(x) /\ Needed(x) /\ Marked(x) /\ Earlier(x, n)
    BY TableIs DEF Good, Reachable
<1>3. clients \in [Line -> Nat] /\ users \in [Class -> Nat] /\ attached \in SUBSET (Client \X Line)
    BY <1>2, TableIs
<1>4. /\ y \in Tables
      /\ y.lines = x.lines /\ y.listed = x.listed /\ y.attached = attached
      /\ y.clients = clients /\ y.of = x.of /\ y.classes = x.classes
      /\ y.inList = x.inList /\ y.max = x.max /\ y.users = users
    BY <1>2, <1>3 DEF Tables
<1>5. IsFiniteSet(attached)
    BY <1>2, FS_AddElement
<1>6. \A b \in Line : clients[b] = IF b = a THEN x.clients[b] + 1 ELSE x.clients[b]
    BY <1>2, TableIs
<1>7. \A k \in Class : users[k] = IF k = x.of[a] THEN x.users[k] + 1 ELSE x.users[k]
    OBVIOUS
<1> HIDE DEF y, clients, users
<1>8. \A b : Att(y, b) = IF b = a THEN Att(x, b) \union {c} ELSE Att(x, b)
    BY <1>4 DEF Att
<1>9. \A k : InUse(y, k) = IF k = x.of[a] THEN InUse(x, k) \union {<< c, a >>} ELSE InUse(x, k)
    BY <1>4 DEF InUse
<1>10. Counted(y)
    <2>1. ASSUME NEW b \in x.lines PROVE clients[b] = Cardinality(Att(y, b))
        <3>1. b \in Line /\ x.clients[b] = Cardinality(Att(x, b)) /\ IsFiniteSet(Att(x, b))
            BY <1>2, TableIs, Finite DEF Counted
        <3>2. CASE b = a
            <4>1. c \notin Att(x, b)
                BY <3>2 DEF Att
            <4>2. Cardinality(Att(x, b) \union {c}) = Cardinality(Att(x, b)) + 1
                BY <3>1, <4>1, FS_AddElement
            <4> QED BY <1>6, <1>8, <3>1, <3>2, <4>2
        <3>3. CASE b # a
            BY <1>6, <1>8, <3>1, <3>3
        <3> QED BY <3>2, <3>3
    <2>2. ASSUME NEW k \in x.classes PROVE users[k] = Cardinality(InUse(y, k))
        <3>1. k \in Class /\ x.users[k] = Cardinality(InUse(x, k)) /\ IsFiniteSet(InUse(x, k))
            BY <1>2, TableIs, Finite DEF Counted
        <3>2. CASE k = x.of[a]
            <4>1. << c, a >> \notin InUse(x, k)
                BY DEF InUse
            <4>2. Cardinality(InUse(x, k) \union {<< c, a >>}) = Cardinality(InUse(x, k)) + 1
                BY <3>1, <4>1, FS_AddElement
            <4> QED BY <1>7, <1>9, <3>1, <3>2, <4>2
        <3>3. CASE k # x.of[a]
            BY <1>7, <1>9, <3>1, <3>3
        <3> QED BY <3>2, <3>3
    <2> QED BY <1>4, <2>1, <2>2 DEF Counted
<1>11. Reachable(y) /\ Marked(y) /\ Earlier(y, n)
    BY <1>2, <1>4 DEF Reachable, Marked, Earlier
<1>12. Needed(y)
    BY <1>2, <1>4, <1>8, <1>9 DEF Needed
<1> QED BY <1>1, <1>4, <1>5, <1>10, <1>11, <1>12 DEF Good

LEMMA AttachOK ==
    ASSUME NEW x, NEW n, Good(x, n), NEW c \in Client, NEW a \in Line
    PROVE  LET y == AttachConf(x, c, a) IN
           /\ Good(y, n) /\ y.listed = x.listed
           /\ y.attached \subseteq x.attached \union {<< c, a >>}
           /\ Refused(x, c, a) => y.attached = x.attached
<1> DEFINE y == AttachConf(x, c, a)
           z == AddIpLimit(x, a)
           new == [z EXCEPT !.attached = @ \union {<< c, a >>}, !.clients[a] = @ + 1,
                            !.users = [k \in Class |-> IF k = x.of[a] THEN @[k] + 1 ELSE @[k]]]
<1>1. x \in Tables
    BY DEF Good
<1>2. /\ Good(z, n) /\ z.listed = x.listed /\ z.attached = x.attached /\ z.of = x.of
    <2>1. PICK f \in [Class -> Nat] : z = [x EXCEPT !.perCidr = f]
        BY <1>1, AddIpLimitIs
    <2> QED BY <2>1, PerCidrOK
<1>3. CASE y = x
    BY <1>3
<1>4. CASE y = z
    BY <1>2, <1>4
<1>5. CASE /\ << c, a >> \notin x.attached /\ a \in x.listed /\ ~Refused(x, c, a)
           /\ y = new
    <2> HIDE DEF y, z
    <2>1. << c, a >> \notin z.attached /\ a \in z.listed
        BY <1>2, <1>5
    <2>2. new = [z EXCEPT !.attached = @ \union {<< c, a >>}, !.clients[a] = @ + 1,
                          !.users = [k \in Class |-> IF k = z.of[a] THEN @[k] + 1 ELSE @[k]]]
        BY <1>2
    <2>3. Good(new, n)
        BY <1>2, <2>1, <2>2, CountOK
    <2>4. new.listed = z.listed /\ new.attached = z.attached \union {<< c, a >>}
        <3>1. z \in Tables
            BY <1>2 DEF Good
        <3> QED BY <3>1 DEF Tables
    <2> HIDE DEF new
    <2> QED BY <1>2, <1>5, <2>3, <2>4 DEF y
<1>6. \/ y = x
      \/ y = z
      \/ << c, a >> \notin x.attached /\ a \in x.listed /\ ~Refused(x, c, a) /\ y = new
    <2>1. ClassFull(x, a) => Kind(a) = "auth"
        BY DEF ClassFull
    <2> HIDE DEF z
    <2> QED BY <2>1 DEF AttachConf, Refused, z
<1> HIDE DEF y, z, new
<1> QED BY <1>3, <1>4, <1>5, <1>6 DEF y

(* The lines of a file, and so what may be attached, are finitely many.    *)
LEMMA LinesAreFinite == IsFiniteSet(Line)
<1>1. MaxReads \in Int /\ 1 \in Int
    BY ConfsAssumption
<1>2. IsFiniteSet(1..MaxReads)
    BY <1>1, FS_Interval
<1> QED BY <1>2, FS_Product, ConfsAssumption DEF Line

LEMMA AttachHubsOK ==
    ASSUME NEW x, NEW n, Good(x, n), NEW c \in Client, NEW H \in SUBSET x.listed,
           \A a \in H : Kind(a) = "hub"
    PROVE  LET y == AttachHubs(x, c, H) IN
           Good(y, n) /\ y.attached \subseteq x.attached \union ({c} \X Line)
<1> DEFINE new == {a \in H : << c, a >> \notin x.attached}
           attached == x.attached \union ({c} \X new)
           clients == [a \in Line |-> IF a \in new THEN x.clients[a] + 1 ELSE x.clients[a]]
           y == [x EXCEPT !.attached = attached, !.clients = clients]
<1>1. AttachHubs(x, c, H) = y
    BY DEF AttachHubs
<1>2. /\ x \in Tables /\ IsFiniteSet(x.attached) /\ x.lines \subseteq Line
      /\ Counted(x) /\ Reachable(x) /\ Needed(x) /\ Marked(x) /\ Earlier(x, n)
    BY TableIs DEF Good
<1>3. new \subseteq Line /\ new \subseteq x.lines /\ \A a \in new : x.of[a] = NoClass
    BY <1>2 DEF Reachable, Marked
<1>4. clients \in [Line -> Nat] /\ attached \in SUBSET (Client \X Line)
    <2>1. x.clients \in [Line -> Nat] /\ x.attached \subseteq Client \X Line
        BY <1>2, TableIs
    <2> HIDE DEF new
    <2> QED BY <1>3, <2>1
<1>5. IsFiniteSet(attached)
    <2>1. IsFiniteSet({c}) /\ IsFiniteSet(new)
        BY <1>3, LinesAreFinite, FS_Singleton, FS_Subset
    <2>2. IsFiniteSet({c} \X new)
        BY <2>1, FS_Product
    <2> QED BY <1>2, <2>2, FS_Union
<1>6. /\ y \in Tables
      /\ y.lines = x.lines /\ y.listed = x.listed /\ y.attached = attached
      /\ y.clients = clients /\ y.of = x.of /\ y.classes = x.classes
      /\ y.inList = x.inList /\ y.max = x.max /\ y.users = x.users
    <2> HIDE DEF attached, clients
    <2> QED BY <1>2, <1>4 DEF Tables
<1>7. \A a \in Line : clients[a] = IF a \in new THEN x.clients[a] + 1 ELSE x.clients[a]
    OBVIOUS
<1> HIDE DEF y, clients
<1>8. \A a : Att(y, a) = IF a \in new THEN Att(x, a) \union {c} ELSE Att(x, a)
    BY <1>6 DEF Att
<1>9. \A k \in Class : InUse(y, k) = InUse(x, k)
    <2>1. \A p \in {c} \X new : x.of[p[2]] = NoClass
        BY <1>3
    <2> QED BY <1>6, <2>1, Names DEF InUse
<1>10. Counted(y)
    <2>1. ASSUME NEW a \in x.lines PROVE clients[a] = Cardinality(Att(y, a))
        <3>1. a \in Line /\ x.clients[a] = Cardinality(Att(x, a)) /\ IsFiniteSet(Att(x, a))
            BY <1>2, Finite DEF Counted
        <3>2. CASE a \in new
            <4>1. c \notin Att(x, a)
                BY <3>2 DEF Att
            <4>2. Cardinality(Att(x, a) \union {c}) = Cardinality(Att(x, a)) + 1
                BY <3>1, <4>1, FS_AddElement
            <4> HIDE DEF new
            <4> QED BY <1>7, <1>8, <3>1, <3>2, <4>2
        <3>3. CASE a \notin new
            <4> HIDE DEF new
            <4> QED BY <1>7, <1>8, <3>1, <3>3
        <3> QED BY <3>2, <3>3
    <2>2. ASSUME NEW k \in x.classes PROVE x.users[k] = Cardinality(InUse(y, k))
        BY <1>2, <1>9, TableIs DEF Counted
    <2> QED BY <1>6, <2>1, <2>2 DEF Counted
<1>11. Reachable(y) /\ Marked(y) /\ Earlier(y, n)
    BY <1>2, <1>3, <1>6 DEF Reachable, Marked, Earlier
<1>12. Needed(y)
    <2>1. x.classes \subseteq Class
        BY <1>2, TableIs
    <2> QED BY <1>2, <1>6, <1>8, <1>9, <2>1 DEF Needed
<1>13. y.attached \subseteq x.attached \union ({c} \X Line)
    BY <1>3, <1>6
<1> QED BY <1>1, <1>5, <1>6, <1>10, <1>11, <1>12, <1>13 DEF Good

-----------------------------------------------------------------------------
(* A rehash: what the tables are after the file is read for the m-th time. *)

Rehashed(x, file, m) ==
    CheckClass(AddLines(AddClasses(ClearOutOldConf(x), file, m), file, m))

(* The lines and classes there are then.                                   *)
Kept(x)  == x.lines \ {a \in x.listed : x.clients[a] = 0}
NewLines(file, m) == {<< b, m >> : b \in file.has}
Defined(file) == {name \in ClassName : file.max[name] >= 0}
NewClasses(x, file, m) ==
    {<< name, m >> : name \in {q \in Defined(file) : \A k \in x.inList : k[1] # q}}

(* ... and which of them are unmarked.                                     *)
MaxRead(x, file, m) ==
    [k \in Class |->
        IF k \in {j \in x.inList : j[1] \in Defined(file)} \union NewClasses(x, file, m)
        THEN file.max[k[1]]
        ELSE IF k \in x.inList \ {Default} THEN -1 ELSE x.max[k]]

LEMMA RehashIs ==
    ASSUME NEW x \in Tables, NEW file \in Contents, NEW m \in 1..MaxReads
    PROVE  LET y   == Rehashed(x, file, m)
               all == x.inList \union NewClasses(x, file, m)
               max == MaxRead(x, file, m)
               out == {k \in all : max[k] < 0}
           IN  /\ y \in Tables
               /\ y.lines = Kept(x) \union NewLines(file, m) /\ y.listed = NewLines(file, m)
               /\ y.attached = x.attached /\ y.max = max
               /\ \A a \in Line : y.clients[a] = IF a \in NewLines(file, m) THEN 0 ELSE x.clients[a]
               /\ \A k \in Class : y.users[k] = IF k \in NewClasses(x, file, m) THEN 0 ELSE x.users[k]
               /\ y.inList = all \ out
               /\ y.classes = (x.classes \union NewClasses(x, file, m)) \ {k \in out : y.users[k] <= 0}
               /\ \A a \in Line \ NewLines(file, m) : y.of[a] = x.of[a]
               /\ \A a \in NewLines(file, m) :
                    /\ Kind(a) = "hub" => y.of[a] = NoClass
                    /\ y.of[a] \in {k \in all : max[k] >= 0} \union {Default, NoClass}
<1> DEFINE x1 == ClearOutOldConf(x)
           x2 == AddClasses(x1, file, m)
           x3 == AddLines(x2, file, m)
           y  == CheckClass(x3)
           newC == NewClasses(x, file, m)
           newL == NewLines(file, m)
           max1 == [k \in Class |-> IF k \in x.inList \ {Default} THEN -1 ELSE x.max[k]]
           max  == MaxRead(x, file, m)
           all  == x.inList \union newC
           old  == {j \in x.inList : j[1] \in Defined(file)}
           users == [k \in Class |-> IF k \in newC THEN 0 ELSE x.users[k]]
           cidr == [k \in Class |-> IF k \in old \union newC THEN file.cidr[k[1]] ELSE x.cidr[k]]
           perCidr == [k \in Class |-> IF k \in newC THEN 0 ELSE x.perCidr[k]]
           clients == [a \in Line |-> IF a \in newL THEN 0 ELSE x.clients[a]]
           of == [a \in Line |->
                      IF a \notin newL THEN x.of[a]
                      ELSE IF Kind(a) = "hub" THEN NoClass ELSE FindClass(x2, file.class[a[1]])]
           out == {k \in all : max[k] < 0}
<1>1. /\ file.has \subseteq Block /\ file.max \in [ClassName -> Nat \union {-1}]
      /\ file.cidr \in [ClassName -> Nat]
    BY DEF Contents
<1>2. newL \subseteq Line /\ newC \subseteq Class
    BY <1>1 DEF NewLines, NewClasses, Defined, Line, Class
<1>3. /\ x1 \in Tables
      /\ x1.lines = Kept(x) /\ x1.listed = {} /\ x1.max = max1
      /\ x1.attached = x.attached /\ x1.clients = x.clients /\ x1.of = x.of
      /\ x1.classes = x.classes /\ x1.inList = x.inList /\ x1.cidr = x.cidr
      /\ x1.users = x.users /\ x1.perCidr = x.perCidr
    <2>1. max1 \in [Class -> Int] /\ Kept(x) \in SUBSET Line
        BY TableIs DEF Kept
    <2>2. x1 = [x EXCEPT !.lines = Kept(x), !.listed = {}, !.max = max1]
        BY DEF ClearOutOldConf, Kept, Tables
    <2> HIDE DEF max1, x1
    <2> QED BY <2>1, <2>2 DEF Tables
<1> HIDE DEF x1, max1
<1>4. \A k \in old \union newC : k[1] \in ClassName /\ k \in Class
    BY <1>1, <1>2, TableIs DEF NewClasses, Defined
<1>5. max \in [Class -> Int] /\ cidr \in [Class -> Nat] /\ users \in [Class -> Nat]
      /\ perCidr \in [Class -> Nat]
    <2>1. \A k \in old \union newC : file.max[k[1]] \in Int /\ file.cidr[k[1]] \in Nat
        BY <1>1, <1>4
    <2>2. \A k \in Class : x.max[k] \in Int /\ x.cidr[k] \in Nat /\ x.users[k] \in Nat /\ x.perCidr[k] \in Nat
        BY TableIs
    <2> HIDE DEF newC, old
    <2>3. max = [k \in Class |-> IF k \in old \union newC THEN file.max[k[1]]
                                 ELSE IF k \in x.inList \ {Default} THEN -1 ELSE x.max[k]]
        BY DEF MaxRead, old, newC
    <2>4. max \in [Class -> Int]
        BY <2>1, <2>2, <2>3
    <2> QED BY <2>1, <2>2, <2>4
<1>6. x2 = [x1 EXCEPT !.classes = x.classes \union newC, !.inList = all, !.max = max,
                      !.cidr = cidr, !.users = users, !.perCidr = perCidr]
    <2>1. x2 = [x1 EXCEPT
                  !.classes = x1.classes \union newC, !.inList = x1.inList \union newC,
                  !.max  = [k \in Class |-> IF k \in old \union newC THEN file.max[k[1]] ELSE x1.max[k]],
                  !.cidr = [k \in Class |-> IF k \in old \union newC THEN file.cidr[k[1]] ELSE x1.cidr[k]],
                  !.users = [k \in Class |-> IF k \in newC THEN 0 ELSE x1.users[k]],
                  !.perCidr = [k \in Class |-> IF k \in newC THEN 0 ELSE x1.perCidr[k]]]
        BY <1>3 DEF AddClasses, NewClasses, Defined
    <2>2. [k \in Class |-> IF k \in old \union newC THEN file.max[k[1]] ELSE x1.max[k]] = max
        BY <1>3 DEF max1, MaxRead
    <2> HIDE DEF newC, old, max
    <2> QED BY <1>3, <2>1, <2>2
<1>7. /\ x2 \in Tables
      /\ x2.lines = Kept(x) /\ x2.listed = {} /\ x2.max = max
      /\ x2.attached = x.attached /\ x2.clients = x.clients /\ x2.of = x.of
      /\ x2.classes = x.classes \union newC /\ x2.inList = all /\ x2.users = users
    <2>1. x.classes \union newC \in SUBSET Class /\ all \in SUBSET Class
        BY <1>2, TableIs
    <2> HIDE DEF x2, max, cidr, users, perCidr, all, newC
    <2> QED BY <1>3, <1>5, <1>6, <2>1 DEF Tables
<1> HIDE DEF x2
<1>8. \A name : FindClass(x2, name) \in {k \in all : max[k] >= 0} \union {Default}
    BY <1>7 DEF FindClass
<1>9. of \in [Line -> Class \union {NoClass}] /\ clients \in [Line -> Nat]
    <2>1. \A name : FindClass(x2, name) \in Class
        BY <1>2, <1>8, TableIs, Names
    <2>2. x.of \in [Line -> Class \union {NoClass}] /\ x.clients \in [Line -> Nat]
        BY TableIs
    <2> HIDE DEF newL
    <2> QED BY <2>1, <2>2
<1>10. x3 = [x2 EXCEPT !.lines = Kept(x) \union newL, !.listed = newL,
                       !.clients = clients, !.of = of]
    <2>1. x3 = [x2 EXCEPT !.lines = x2.lines \union newL, !.listed = x2.listed \union newL,
                  !.clients = [a \in Line |-> IF a \in newL THEN 0 ELSE x2.clients[a]],
                  !.of = [a \in Line |->
                      IF a \notin newL THEN x2.of[a]
                      ELSE IF Kind(a) = "hub" THEN NoClass ELSE FindClass(x2, file.class[a[1]])]]
        BY <1>7 DEF AddLines, NewLines
    <2> HIDE DEF newL
    <2> QED BY <1>7, <2>1
<1>11. /\ x3 \in Tables
       /\ x3.lines = Kept(x) \union newL /\ x3.listed = newL /\ x3.max = max
       /\ x3.attached = x.attached /\ x3.clients = clients /\ x3.of = of
       /\ x3.classes = x.classes \union newC /\ x3.inList = all /\ x3.users = users
    <2>1. Kept(x) \union newL \in SUBSET Line /\ newL \in SUBSET Line
        BY <1>2, TableIs DEF Kept
    <2> HIDE DEF x3, max, users, clients, of, all, newC, newL
    <2> QED BY <1>7, <1>9, <1>10, <2>1 DEF Tables
<1> HIDE DEF x3
<1>12. y = [x3 EXCEPT !.inList = all \ out, !.classes = (x.classes \union newC) \ {k \in out : users[k] <= 0}]
    BY <1>11 DEF CheckClass
<1>13. /\ y \in Tables
       /\ y.lines = Kept(x) \union newL /\ y.listed = newL /\ y.max = max
       /\ y.attached = x.attached /\ y.clients = clients /\ y.of = of /\ y.users = users
       /\ y.inList = all \ out
       /\ y.classes = (x.classes \union newC) \ {k \in out : users[k] <= 0}
    <2>1. all \ out \in SUBSET Class /\ (x.classes \union newC) \ {k \in out : users[k] <= 0} \in SUBSET Class
        BY <1>2, TableIs
    <2> HIDE DEF y, max, users, clients, of, all, newC, newL, out
    <2> QED BY <1>11, <1>12, <2>1 DEF Tables
<1>14. /\ \A a \in Line : clients[a] = IF a \in newL THEN 0 ELSE x.clients[a]
       /\ \A k \in Class : users[k] = IF k \in newC THEN 0 ELSE x.users[k]
       /\ \A a \in Line \ newL : of[a] = x.of[a]
    OBVIOUS
<1>15. ASSUME NEW a \in newL
       PROVE  /\ Kind(a) = "hub" => of[a] = NoClass
              /\ of[a] \in {k \in all : max[k] >= 0} \union {Default, NoClass}
    <2>1. a \in Line
        BY <1>2
    <2>2. of[a] = IF Kind(a) = "hub" THEN NoClass ELSE FindClass(x2, file.class[a[1]])
        BY <2>1
    <2> HIDE DEF of, newL, all, max
    <2> QED BY <1>8, <2>2
<1>16. y = Rehashed(x, file, m)
    BY DEF Rehashed, x3, x2, x1
<1> HIDE DEF y, max, users, clients, of, all, newC, newL
<1> QED BY <1>13, <1>14, <1>15, <1>16 DEF max, all, newC, newL

LEMMA RehashOK ==
    ASSUME NEW x, NEW n \in Nat, Good(x, n), NEW file \in Contents, n + 1 \in 1..MaxReads
    PROVE  Good(Rehashed(x, file, n + 1), n + 1)
<1> DEFINE m == n + 1
           y == Rehashed(x, file, m)
           newL == NewLines(file, m)
           newC == NewClasses(x, file, m)
           all == x.inList \union newC
           max == MaxRead(x, file, m)
           out == {k \in all : max[k] < 0}
<1>1. /\ x \in Tables /\ IsFiniteSet(x.attached)
      /\ Counted(x) /\ Reachable(x) /\ Needed(x) /\ Marked(x) /\ Earlier(x, n)
    BY DEF Good
<1>2. /\ y \in Tables
      /\ y.lines = Kept(x) \union newL /\ y.listed = newL
      /\ y.attached = x.attached /\ y.max = max
      /\ \A a \in Line : y.clients[a] = IF a \in newL THEN 0 ELSE x.clients[a]
      /\ \A k \in Class : y.users[k] = IF k \in newC THEN 0 ELSE x.users[k]
      /\ y.inList = all \ out
      /\ y.classes = (x.classes \union newC) \ {k \in out : y.users[k] <= 0}
      /\ \A a \in Line \ newL : y.of[a] = x.of[a]
      /\ \A a \in newL : /\ Kind(a) = "hub" => y.of[a] = NoClass
                         /\ y.of[a] \in {k \in all : max[k] >= 0} \union {Default, NoClass}
    BY <1>1, RehashIs
<1>3. /\ x.lines \subseteq Line /\ x.attached \subseteq Client \X Line /\ x.classes \subseteq Class
      /\ x.listed \subseteq x.lines /\ x.inList \subseteq x.classes
      /\ max \in [Class -> Int]
      /\ x.max \in [Class -> Int]
    <2>1. y.max \in [Class -> Int]
        BY <1>2, TableIs
    <2> QED BY <1>1, <1>2, <2>1, TableIs DEF Reachable
<1>4. /\ newL \subseteq Line /\ newC \subseteq Class /\ newL \intersect x.lines = {}
      /\ newC \intersect x.classes = {} /\ Default \notin newC
    <2>1. newL \subseteq Line /\ newC \subseteq Class
        BY DEF NewLines, NewClasses, Defined, Contents, Line, Class
    <2>2. (\A a \in newL : a[2] = m) /\ (\A k \in newC : k[2] = m /\ k[1] \in ClassName)
        BY DEF NewLines, NewClasses, Defined
    <2>3. Default \notin newC
        BY <2>2, Names
    <2>4. (\A a \in x.lines : a[2] <= n) /\ (\A k \in x.classes \ {Default} : k[2] <= n)
        BY <1>1 DEF Earlier
    <2>5. \A a \in Line : a[2] \in Nat
        BY Names
    <2>6. \A k \in Class \ {Default} : k[2] \in Nat
        BY Names
    <2> HIDE DEF newL, newC
    <2>7. newL \intersect x.lines = {}
        BY <2>1, <2>2, <2>4, <2>5
    <2>8. newC \intersect x.classes = {}
        BY <2>1, <2>2, <2>3, <2>4, <2>6
    <2> QED BY <2>1, <2>3, <2>7, <2>8
<1>5. \A k \in Class :
        max[k] = IF k \in {j \in x.inList : j[1] \in Defined(file)} \union newC THEN file.max[k[1]]
                 ELSE IF k \in x.inList \ {Default} THEN -1 ELSE x.max[k]
    BY DEF MaxRead
<1>6. /\ \A k \in newC : max[k] >= 0
      /\ max[Default] >= 0
      /\ \A k \in out : k \in x.inList /\ max[k] = -1
      /\ \A k \in x.classes \ x.inList : max[k] = x.max[k]
    <2>1. \A k \in newC : file.max[k[1]] >= 0 /\ k \in Class
        BY <1>4 DEF NewClasses, Defined
    <2>2. \A k \in x.inList : k[1] \in Defined(file) => file.max[k[1]] >= 0 /\ k # Default
        BY <1>3, Names DEF Defined
    <2>3. Default \in Class /\ x.max[Default] >= 0
        BY <1>1, Names DEF Marked
    <2>4. \A k \in newC : max[k] >= 0
        BY <1>5, <2>1
    <2>5. max[Default] >= 0
        BY <1>4, <1>5, <2>2, <2>3
    <2>6. ASSUME NEW k \in out PROVE k \in x.inList /\ max[k] = -1
        <3>1. k \in all /\ max[k] < 0 /\ k \in Class /\ max[k] \in Int
            BY <1>3, <1>4
        <3> HIDE DEF max, newC
        <3>2. k \notin newC
            BY <2>4, <3>1
        <3>3. k \in x.inList /\ k # Default
            BY <2>5, <3>1, <3>2
        <3>4. k[1] \notin Defined(file)
            <4>1. ASSUME k[1] \in Defined(file) PROVE FALSE
                <5>1. max[k] = file.max[k[1]]
                    BY <1>5, <3>1, <3>3, <4>1
                <5> QED BY <2>2, <3>1, <3>3, <4>1, <5>1
            <4> QED BY <4>1
        <3> QED BY <1>5, <3>1, <3>2, <3>3, <3>4
    <2>7. ASSUME NEW k \in x.classes \ x.inList PROVE max[k] = x.max[k]
        <3>1. k \in Class /\ k \notin newC
            BY <1>3, <1>4
        <3> HIDE DEF newC, max
        <3> QED BY <1>5, <3>1
    <2> QED BY <2>4, <2>5, <2>6, <2>7
<1> HIDE DEF y, newL, newC, max
<1>7. \A p \in x.attached : p[2] \in x.lines /\ y.of[p[2]] = x.of[p[2]]
    BY <1>1, <1>2, <1>3, <1>4 DEF Reachable
<1>8. (\A a : Att(y, a) = Att(x, a)) /\ (\A k : InUse(y, k) = InUse(x, k))
    BY <1>2, <1>7 DEF Att, InUse
<1>9. \A a \in newL : Att(x, a) = {}
    <2>1. \A a \in newL, d \in Client : << d, a >> \notin x.attached
        BY <1>4, <1>7
    <2> QED BY <2>1 DEF Att
<1>10. \A k \in newC : InUse(x, k) = {}
    <2>1. \A p \in x.attached : x.of[p[2]] \in x.classes \union {NoClass}
        BY <1>1, <1>7 DEF Reachable
    <2> QED BY <1>4, <2>1, Names DEF InUse
<1>11. \A a \in Line : a \in x.lines => x.clients[a] = Cardinality(Att(x, a))
    BY <1>1 DEF Counted
<1>12. \A k \in x.classes : x.users[k] = Cardinality(InUse(x, k))
    BY <1>1 DEF Counted
<1>13. /\ \A a : Cardinality(Att(x, a)) \in Nat /\ (Cardinality(Att(x, a)) = 0 <=> Att(x, a) = {})
       /\ \A k : Cardinality(InUse(x, k)) \in Nat /\ (Cardinality(InUse(x, k)) = 0 <=> InUse(x, k) = {})
    BY <1>1, Finite
<1>14. Counted(y)
    <2>1. ASSUME NEW a \in y.lines PROVE y.clients[a] = Cardinality(Att(y, a))
        <3>1. CASE a \in newL
            BY <1>2, <1>4, <1>8, <1>9, <1>13, <3>1
        <3>2. CASE a \notin newL
            <4>1. a \in x.lines /\ a \in Line
                BY <1>2, <1>3, <3>2 DEF Kept
            <4> QED BY <1>2, <1>8, <1>11, <3>2, <4>1
        <3> QED BY <3>1, <3>2
    <2>2. ASSUME NEW k \in y.classes PROVE y.users[k] = Cardinality(InUse(y, k))
        <3>1. CASE k \in newC
            BY <1>2, <1>4, <1>8, <1>10, <1>13, <3>1
        <3>2. CASE k \notin newC
            <4>1. k \in x.classes /\ k \in Class
                BY <1>2, <1>3, <3>2
            <4> QED BY <1>2, <1>8, <1>12, <3>2, <4>1
        <3> QED BY <3>1, <3>2
    <2> QED BY <2>1, <2>2 DEF Counted
<1>15. \A a \in Kept(x) : a \in x.lines /\ Att(x, a) # {}
    <2>1. ASSUME NEW a \in Kept(x) PROVE a \in x.lines /\ Att(x, a) # {}
        <3>1. a \in x.lines /\ (a \in x.listed => x.clients[a] # 0)
            BY DEF Kept
        <3>2. CASE a \in x.listed
            BY <1>3, <1>11, <1>13, <3>1, <3>2
        <3>3. CASE a \notin x.listed
            BY <1>1, <3>1, <3>3 DEF Needed
        <3> QED BY <3>1, <3>2, <3>3
    <2> QED BY <2>1
<1>16. \A k \in out : k \in y.classes => InUse(x, k) # {}
    <2>1. ASSUME NEW k \in out, k \in y.classes PROVE InUse(x, k) # {}
        <3>1. ~(y.users[k] <= 0)
            BY <1>2, <2>1
        <3>2. y.users[k] = Cardinality(InUse(x, k))
            BY <1>8, <1>14, <2>1 DEF Counted
        <3> QED BY <1>13, <3>1, <3>2
    <2> QED BY <2>1
<1>17. Needed(y)
    <2>1. \A a \in y.lines \ y.listed : Att(y, a) # {}
        BY <1>2, <1>8, <1>15
    <2>2. ASSUME NEW k \in y.classes \ y.inList PROVE InUse(y, k) # {}
        <3>1. CASE k \in out
            BY <1>8, <1>16, <3>1
        <3>2. CASE k \notin out
            <4>1. k \in x.classes \ x.inList
                BY <1>2, <3>2
            <4> QED BY <1>1, <1>8, <4>1 DEF Needed
        <3> QED BY <3>1, <3>2
    <2> QED BY <2>1, <2>2 DEF Needed
<1>18. \A k \in all \ out : k \in y.classes /\ k \in y.inList
    BY <1>2, <1>3
<1>19. \A k \in all : k \in Class /\ max[k] \in Int
    BY <1>3, <1>4
<1>20. \A a \in newL : y.of[a] \in y.inList \union {NoClass}
    <2>1. Default \in all \ out
        BY <1>1, <1>6 DEF Marked
    <2>2. \A k \in all : max[k] >= 0 => k \notin out
        BY <1>19
    <2> QED BY <1>2, <1>18, <2>1, <2>2
<1>21. Reachable(y)
    <2>1. y.listed \subseteq y.lines
        BY <1>2
    <2>2. y.inList \subseteq y.classes
        BY <1>2, <1>18
    <2>3. ASSUME NEW p \in y.attached PROVE p[2] \in y.lines
        <3>1. p \in x.attached /\ p[2] \in x.lines /\ p = << p[1], p[2] >> /\ p[1] \in Client /\ p[2] \in Line
            BY <1>2, <1>3, <1>7
        <3>2. p[1] \in Att(x, p[2])
            BY <3>1 DEF Att
        <3>3. x.clients[p[2]] # 0
            BY <1>11, <1>13, <3>1, <3>2
        <3> QED BY <1>2, <3>1, <3>3 DEF Kept
    <2>4. ASSUME NEW a \in y.lines PROVE y.of[a] \in y.classes \union {NoClass}
        <3>1. CASE a \in newL
            BY <1>20, <2>2, <3>1
        <3>2. CASE a \notin newL
            <4> DEFINE k == x.of[a]
            <4>1. a \in x.lines /\ a \in Line /\ Att(x, a) # {} /\ y.of[a] = k
                BY <1>2, <1>3, <1>15, <3>2
            <4>2. k \in x.classes \union {NoClass}
                BY <1>1, <4>1 DEF Reachable
            <4>3. InUse(x, k) # {}
                <5>1. PICK d \in Client : << d, a >> \in x.attached
                    BY <4>1 DEF Att
                <5>2. << d, a >> \in InUse(x, k)
                    BY <5>1 DEF InUse
                <5> QED BY <5>2
            <4>4. CASE k \in x.classes
                <5>1. y.users[k] = x.users[k]
                    BY <1>2, <1>3, <1>4, <4>4
                <5>2. ~(y.users[k] <= 0)
                    BY <1>12, <1>13, <4>3, <4>4, <5>1
                <5> QED BY <1>2, <4>1, <4>4, <5>2
            <4> QED BY <4>1, <4>2, <4>4
        <3> QED BY <3>1, <3>2
    <2> QED BY <2>1, <2>2, <2>3, <2>4 DEF Reachable
<1>22. Marked(y)
    <2>1. \A k \in y.inList : y.max[k] >= 0
        <3>1. \A k \in all \ out : max[k] >= 0
            BY <1>19
        <3> QED BY <1>2, <3>1
    <2>2. \A k \in y.classes \ y.inList : y.max[k] = -1
        <3>1. ASSUME NEW k \in y.classes \ y.inList, k \notin out PROVE max[k] = -1
            <4>1. k \in x.classes \ x.inList
                BY <1>2, <3>1
            <4> QED BY <1>1, <1>6, <4>1 DEF Marked
        <3> QED BY <1>2, <1>6, <3>1
    <2>3. \A a \in y.listed : y.of[a] \in y.inList \union {NoClass}
        BY <1>2, <1>20
    <2>4. Default \in y.inList
        BY <1>1, <1>2, <1>6 DEF Marked
    <2>5. \A a \in y.lines : Kind(a) = "hub" => y.of[a] = NoClass
        <3>1. \A a \in y.lines \ newL : a \in x.lines /\ y.of[a] = x.of[a]
            BY <1>2, <1>3 DEF Kept
        <3> QED BY <1>1, <1>2, <3>1 DEF Marked
    <2> QED BY <2>1, <2>2, <2>3, <2>4, <2>5 DEF Marked
<1>23. Earlier(y, m)
    <2>1. \A a \in newL : a[2] = m
        BY DEF newL, NewLines
    <2>2. \A k \in newC : k[2] = m
        BY DEF newC, NewClasses
    <2>3. \A a \in x.lines : a[2] \in Nat /\ a[2] <= n
        BY <1>1, <1>3, Names DEF Earlier
    <2>4. \A k \in x.classes \ {Default} : k[2] \in Nat /\ k[2] <= n
        BY <1>1, <1>3, Names DEF Earlier
    <2>5. \A a \in y.lines : a \in x.lines \/ a \in newL
        BY <1>2 DEF Kept
    <2>6. \A k \in y.classes : k \in x.classes \/ k \in newC
        BY <1>2
    <2>7. \A a \in y.lines : a[2] <= m
        BY <2>1, <2>3, <2>5
    <2>8. \A k \in y.classes \ {Default} : k[2] <= m
        BY <2>2, <2>4, <2>6
    <2> QED BY <2>7, <2>8 DEF Earlier
<1>24. IsFiniteSet(y.attached) /\ y \in Tables
    BY <1>1, <1>2
<1> QED BY <1>14, <1>17, <1>21, <1>22, <1>23, <1>24 DEF Good, y

-----------------------------------------------------------------------------
LEMMA InitOK == Init => Inductive
<1> SUFFICES ASSUME Init PROVE Inductive
    OBVIOUS
<1>1. /\ t.lines = {} /\ t.listed = {} /\ t.attached = {}
      /\ t.clients = [a \in Line |-> 0] /\ t.of = [a \in Line |-> NoClass]
      /\ t.classes = {Default} /\ t.inList = {Default}
      /\ t.max = [k \in Class |-> IF k = Default THEN 1 ELSE 0]
      /\ t.cidr = [k \in Class |-> 0] /\ t.users = [k \in Class |-> 0]
      /\ t.perCidr = [k \in Class |-> 0]
    BY DEF Init
<1>2. t \in Tables
    <2>1. t = [lines |-> t.lines, listed |-> t.listed, attached |-> t.attached,
               clients |-> t.clients, of |-> t.of, classes |-> t.classes, inList |-> t.inList,
               max |-> t.max, cidr |-> t.cidr, users |-> t.users, perCidr |-> t.perCidr]
        BY DEF Init
    <2>2. t.clients \in [Line -> Nat] /\ t.of \in [Line -> Class \union {NoClass}]
        BY <1>1
    <2>3. /\ t.max \in [Class -> Int] /\ t.cidr \in [Class -> Nat]
          /\ t.users \in [Class -> Nat] /\ t.perCidr \in [Class -> Nat]
        BY <1>1
    <2>4. /\ t.lines \in SUBSET Line /\ t.listed \in SUBSET Line
          /\ t.attached \in SUBSET (Client \X Line)
          /\ t.classes \in SUBSET Class /\ t.inList \in SUBSET Class
        BY <1>1, Names
    <2> QED BY <2>1, <2>2, <2>3, <2>4 DEF Tables
<1>3. IsFiniteSet(t.attached)
    BY <1>1, FS_EmptySet
<1>4. Counted(t)
    <2>1. InUse(t, Default) = {}
        BY <1>1 DEF InUse
    <2>2. t.users[Default] = 0
        BY <1>1, Names
    <2> QED BY <1>1, <2>1, <2>2, FS_EmptySet DEF Counted
<1>5. Reachable(t) /\ Needed(t)
    BY <1>1 DEF Reachable, Needed
<1>6. Marked(t)
    <2>1. t.max[Default] = 1
        BY <1>1, Names
    <2> QED BY <1>1, <2>1 DEF Marked
<1>7. Earlier(t, reads)
    BY <1>1 DEF Earlier
<1>8. /\ phase \in [Client -> Phases] /\ reads \in 0..MaxReads
    BY ConfsAssumption DEF Init, Phases
<1> QED BY <1>1, <1>2, <1>3, <1>4, <1>5, <1>6, <1>7, <1>8 DEF Inductive, Good

(* A client's move from one phase to the next.                             *)
LEMMA BecomesOK ==
    ASSUME Inductive, NEW c \in Client, NEW p \in Phases, Becomes(c, p), Good(t', reads),
           \/ t'.attached \subseteq t.attached \union ({c} \X Line) /\ p \notin {"gone", "unknown"}
           \/ t'.attached \subseteq t.attached /\ \A a \in Line : << c, a >> \notin t'.attached
    PROVE  Inductive'
<1>1. reads' = reads /\ phase' = [phase EXCEPT ![c] = p]
    BY DEF Becomes
<1>2. phase' \in [Client -> Phases] /\ reads' \in 0..MaxReads /\ Good(t, reads)'
    BY <1>1 DEF Inductive
<1>3. t'.attached \subseteq Client \X Line
    BY TableIs DEF Good
<1>4. ASSUME NEW q \in t'.attached PROVE phase'[q[1]] \notin {"gone", "unknown"}
    <2>1. q[1] \in Client /\ q[2] \in Line /\ q = << q[1], q[2] >>
        BY <1>3
    <2>2. CASE q[1] # c
        <3>1. q \in t.attached
            BY <2>1, <2>2
        <3> QED BY <1>1, <2>1, <2>2, <3>1 DEF Inductive
    <2>3. CASE q[1] = c
        <3>1. p \notin {"gone", "unknown"}
            BY <2>1, <2>3
        <3> QED BY <1>1, <2>1, <2>3, <3>1 DEF Inductive
    <2> QED BY <2>2, <2>3
<1> QED BY <1>2, <1>4 DEF Inductive

(* A connection in one of the first two phases has no lines.               *)
LEMMA Unattached ==
    ASSUME Inductive, NEW c \in Client, phase[c] \in {"gone", "unknown"}
    PROVE  \A a \in Line : << c, a >> \notin t.attached
BY DEF Inductive

LEMMA NextOK == Inductive /\ [Next]_vars => Inductive'
<1> SUFFICES ASSUME Inductive, [Next]_vars PROVE Inductive'
    OBVIOUS
<1>1. Good(t, reads) /\ reads \in 0..MaxReads /\ MaxReads \in Nat
    BY ConfsAssumption DEF Inductive
<1>2. ASSUME NEW file \in Config, ReadConf(file) PROVE Inductive'
    <2>1. /\ reads < MaxReads /\ reads' = reads + 1 /\ phase' = phase
          /\ t' = Rehashed(t, file, reads + 1)
        BY <1>2 DEF ReadConf, Rehashed
    <2>2. file \in Contents /\ reads \in Nat /\ reads + 1 \in 1..MaxReads
        BY <1>1, <2>1, ConfsAssumption
    <2>3. Good(t', reads + 1)
        BY <1>1, <2>1, <2>2, RehashOK
    <2>4. t'.attached = t.attached
        BY <1>1, <2>1, <2>2, RehashIs DEF Good
    <2> QED BY <2>1, <2>2, <2>3, <2>4 DEF Inductive
<1>3. ASSUME NEW c \in Client, Accept(c) PROVE Inductive'
    <2>1. t' = t /\ phase[c] = "gone" /\ Becomes(c, "unknown")
        BY <1>3 DEF Accept
    <2>2. \A a \in Line : << c, a >> \notin t.attached
        BY <2>1, Unattached
    <2> QED BY <1>1, <2>1, <2>2, BecomesOK DEF Phases
<1>4. ASSUME NEW c \in Client, Deoper(c) PROVE Inductive'
    <2>1. t' = t /\ Becomes(c, "user")
        BY <1>4 DEF Deoper
    <2>2. t'.attached \subseteq t.attached \union ({c} \X Line)
        BY <2>1
    <2> QED BY <1>1, <2>1, <2>2, BecomesOK DEF Phases
<1>5. ASSUME NEW c \in Client, Exit(c) PROVE Inductive'
    <2>1. t' = DetachConf(t, c, Of(c)) /\ Becomes(c, "gone") /\ Of(c) \in SUBSET Line
        BY <1>5 DEF Exit, Of
    <2>2. Good(t', reads)
        BY <1>1, <2>1, DetachOK
    <2>3. t'.attached = t.attached \ ({c} \X {a \in Of(c) : << c, a >> \in t.attached})
        BY <1>1, <2>1, DetachIs
    <2>4. \A a \in Line : << c, a >> \notin t'.attached
        BY <2>3 DEF Of
    <2>5. t'.attached \subseteq t.attached
        BY <2>3
    <2> QED BY <2>1, <2>2, <2>4, <2>5, BecomesOK DEF Phases
<1>6. ASSUME NEW c \in Client, NEW a \in Line, ServConnect(c, a) PROVE Inductive'
    <2>1. t' = AttachConf(t, c, a) /\ Becomes(c, "handshake")
        BY <1>6 DEF ServConnect
    <2>2. Good(t', reads) /\ t'.attached \subseteq t.attached \union {<< c, a >>}
        BY <1>1, <2>1, AttachOK
    <2>3. t'.attached \subseteq t.attached \union ({c} \X Line)
        BY <2>2
    <2> QED BY <2>1, <2>2, <2>3, BecomesOK DEF Phases
<1>7. ASSUME NEW c \in Client, NEW a \in Line, Register(c, a) PROVE Inductive'
    <2>1. /\ t' = AttachConf(t, c, a) /\ phase[c] = "unknown"
          /\ Becomes(c, IF Refused(t, c, a) THEN "gone" ELSE "user")
        BY <1>7 DEF Register
    <2>2. /\ Good(t', reads) /\ t'.attached \subseteq t.attached \union {<< c, a >>}
          /\ Refused(t, c, a) => t'.attached = t.attached
        BY <1>1, <2>1, AttachOK
    <2>3. CASE Refused(t, c, a)
        <3>1. \A b \in Line : << c, b >> \notin t.attached
            BY <2>1, Unattached
        <3> QED BY <2>1, <2>2, <2>3, <3>1, BecomesOK DEF Phases
    <2>4. CASE ~Refused(t, c, a)
        <3>1. t'.attached \subseteq t.attached \union ({c} \X Line)
            BY <2>2
        <3> QED BY <2>1, <2>2, <2>4, <3>1, BecomesOK DEF Phases
    <2> QED BY <2>3, <2>4
<1>8. ASSUME NEW c \in Client, NEW a \in Line, Oper(c, a) PROVE Inductive'
    <2> DEFINE x == DetachConf(t, c, Of(c))
    <2>1. t' = AttachConf(x, c, a) /\ Becomes(c, "oper") /\ Of(c) \in SUBSET Line
        BY <1>8 DEF Oper, Of
    <2>2. Good(x, reads)
        BY <1>1, <2>1, DetachOK
    <2>3. x.attached \subseteq t.attached
        <3>1. x.attached = t.attached \ ({c} \X {b \in Of(c) : << c, b >> \in t.attached})
            BY <1>1, <2>1, DetachIs
        <3> QED BY <3>1
    <2> HIDE DEF x
    <2>4. Good(t', reads) /\ t'.attached \subseteq x.attached \union {<< c, a >>}
        BY <2>1, <2>2, AttachOK
    <2>5. t'.attached \subseteq t.attached \union ({c} \X Line)
        BY <2>3, <2>4
    <2> QED BY <2>1, <2>4, <2>5, BecomesOK DEF Phases
<1>9. ASSUME NEW c \in Client, NEW a \in Line, NEW H \in SUBSET Listed("hub"), Establish(c, a, H)
      PROVE  Inductive'
    <2> DEFINE x == AttachConf(t, c, a)
    <2>1. t' = AttachHubs(x, c, H) /\ Becomes(c, "server")
        BY <1>9 DEF Establish
    <2>2. Good(x, reads) /\ x.listed = t.listed /\ x.attached \subseteq t.attached \union {<< c, a >>}
        BY <1>1, AttachOK
    <2> HIDE DEF x
    <2>3. H \in SUBSET x.listed /\ \A b \in H : Kind(b) = "hub"
        BY <2>2 DEF Listed
    <2>4. Good(t', reads) /\ t'.attached \subseteq x.attached \union ({c} \X Line)
        BY <2>1, <2>2, <2>3, AttachHubsOK
    <2>5. t'.attached \subseteq t.attached \union ({c} \X Line)
        BY <2>2, <2>4
    <2> QED BY <2>1, <2>4, <2>5, BecomesOK DEF Phases
<1>10. CASE UNCHANGED vars
    BY <1>10 DEF vars, Inductive
<1> QED BY <1>2, <1>3, <1>4, <1>5, <1>6, <1>7, <1>8, <1>9, <1>10 DEF Next

-----------------------------------------------------------------------------
(* Clients connect, register, oper and exit in any order and the file is   *)
(* read again whenever, with whatever contents: the invariant holds.       *)
THEOREM InductiveHolds == Spec => []Inductive
<1> QED BY InitOK, NextOK, PTL DEF Spec

(* The counts never fall below zero: detach_conf only decrements what      *)
(* attach_conf has incremented.                                            *)
THEOREM TypesHold == Spec => []TypeOK
<1>1. Inductive => TypeOK
    BY InductiveImplies
<1> QED BY <1>1, InductiveHolds, PTL

(* ConfItem.clients and CurrUsers count the attachments exactly, which     *)
(* rehash_conf relies on when it decides what to free.                     *)
THEOREM UsersAlwaysCounted == Spec => []UsersCounted
<1>1. Inductive => UsersCounted
    BY InductiveImplies
<1> QED BY <1>1, InductiveHolds, PTL

(* No line or class is freed by a rehash, by detach_conf or by an exit     *)
(* while something refers to it.                                           *)
THEOREM NothingEverDangles == Spec => []NothingDangles
<1>1. Inductive => NothingDangles
    BY InductiveImplies
<1> QED BY <1>1, InductiveHolds, PTL

(* What has left ircd.conf is freed as soon as nobody is attached to it.   *)
THEOREM NothingEverLeaks == Spec => []NothingLeaks
<1>1. Inductive => NothingLeaks
    BY InductiveImplies
<1> QED BY <1>1, InductiveHolds, PTL
=============================================================================
