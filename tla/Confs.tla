------------------------------- MODULE Confs -------------------------------
(***************************************************************************)
(* Configuration lines and connection classes, and the clients attached    *)
(* to them (src/s_conf.c, src/class.c, src/newconf.c, modules/m_oper.c,    *)
(* src/s_serv.c).  A line that is read stays in memory while a client is   *)
(* attached to it, listed or not; so does a class.  What decides whether   *)
(* one may be freed are two counts, ConfItem.clients and Class.CurrUsers,  *)
(* which a rehash finds and leaves as they are.                            *)
(*                                                                         *)
(* All clients connect from one CIDR block; which of the matching lines is *)
(* found is free.  A line's list is ConfigItemList, or the address table   *)
(* for auth blocks: CONF_ILLEGAL is set exactly when a line leaves it.     *)
(* Several lines are attached and detached at once where the code's loop   *)
(* does one after the other: the counts do not depend on the order.        *)
(***************************************************************************)
EXTENDS Integers, FiniteSets

CONSTANTS
    Client,     \* local connections
    Block,      \* the blocks of ircd.conf that make a line
    KindOf,     \* KindOf[b]: what b is a block of
    Exempt,     \* auth blocks with CONF_FLAGS_EXEMPTLIMITS
    ClassName,  \* the classes ircd.conf may define
    Config,     \* the contents of ircd.conf a rehash may find
    MaxReads    \* bound: how often ircd.conf is read

Default == << "default", 0 >>    \* class0, the head of ClassList
NoClass == << "none", 0 >>       \* ClassPtr is NULL

Kinds == {"auth", "operator", "connect", "hub"}
Line  == Block \X (1..MaxReads)
Class == (ClassName \X (1..MaxReads)) \union {Default}

(* What a file says: the blocks it has, each with the class it gets (one   *)
(* defined above it, or the default), and max_number and number_per_cidr   *)
(* of the classes it defines, -1 for one it does not.                      *)
Contents ==
    [has : SUBSET Block, class : [Block -> ClassName \union {"default"}],
     max : [ClassName -> Nat \union {-1}], cidr : [ClassName -> Nat]]

ASSUME ConfsAssumption ==
    /\ IsFiniteSet(Client) /\ IsFiniteSet(Block)
    /\ KindOf \in [Block -> Kinds] /\ Exempt \subseteq Block
    /\ {"default", "none"} \intersect ClassName = {}
    /\ Config \subseteq Contents /\ MaxReads \in Nat

VARIABLES
    t,        \* the tables, see Tables
    phase,    \* phase[c]: "gone", "unknown", "handshake", "user", "oper" or "server"
    reads     \* how often the file has been read

vars == << t, phase, reads >>

Tables ==
    [lines    : SUBSET Line,              \* allocated
     listed   : SUBSET Line,              \* in ConfigItemList or atable
     attached : SUBSET (Client \X Line),  \* localClient->confs
     clients  : [Line -> Nat],            \* ConfItem.clients
     of       : [Line -> Class \union {NoClass}],  \* ConfItem.c_class
     classes  : SUBSET Class,             \* allocated
     inList   : SUBSET Class,             \* in ClassList
     max      : [Class -> Int],           \* max_total
     cidr     : [Class -> Nat],           \* cidr_amount
     users    : [Class -> Nat],           \* curr_total
     perCidr  : [Class -> Nat]]           \* ip_limits, for our CIDR block

Phases == {"gone", "unknown", "handshake", "user", "oper", "server"}

TypeOK ==
    /\ t \in Tables
    /\ phase \in [Client -> Phases]
    /\ reads \in 0..MaxReads

Of(c) == {a \in Line : << c, a >> \in t.attached}
Kind(a) == KindOf[a[1]]
Listed(kind) == {a \in t.listed : Kind(a) = kind}

-----------------------------------------------------------------------------
(* remove_ip_limit, for one class and n lines of it.  The node goes with   *)
(* its last count, and what is counted off after that finds no node.       *)
RemoveIpLimit(x, k, n) ==
    IF x.cidr[k] = 0 THEN x.perCidr[k]
    ELSE IF x.perCidr[k] < n THEN 0 ELSE x.perCidr[k] - n

InClass(x, S, k) == Cardinality({a \in S : x.of[a] = k})

(* detach_conf, for every line of S that c is attached to.                 *)
DetachConf(x, c, S) ==
    LET D     == {a \in S : << c, a >> \in x.attached}
        users == [k \in Class |-> IF x.users[k] >= InClass(x, D, k)
                                  THEN x.users[k] - InClass(x, D, k) ELSE 0]
        freedClass == {k \in x.classes : /\ \E a \in D : x.of[a] = k
                                         /\ x.max[k] = -1 /\ users[k] = 0}
        clients == [a \in Line |-> IF a \in D THEN x.clients[a] - 1 ELSE x.clients[a]]
        freed == {a \in D : clients[a] = 0 /\ a \notin x.listed}
    IN  [x EXCEPT !.perCidr  = [k \in Class |-> RemoveIpLimit(x, k, InClass(x, D, k))],
                  !.users    = users,
                  !.classes  = @ \ freedClass,
                  !.clients  = clients,
                  !.lines    = @ \ freed,
                  !.attached = @ \ ({c} \X D)]

(* add_ip_limit: whether the class has room for one more of this block.    *)
IpLimitReached(x, a) ==
    /\ x.of[a] # NoClass
    /\ x.cidr[x.of[a]] # 0 /\ x.perCidr[x.of[a]] >= x.cidr[x.of[a]]
    /\ a[1] \notin Exempt

AddIpLimit(x, a) ==
    IF x.of[a] = NoClass \/ Kind(a) = "operator" THEN x
    ELSE IF x.cidr[x.of[a]] = 0 THEN x ELSE [x EXCEPT !.perCidr[x.of[a]] = @ + 1]

ClassFull(x, a) ==
    /\ Kind(a) = "auth" /\ a[1] \notin Exempt
    /\ x.max[x.of[a]] > 0 /\ x.users[x.of[a]] >= x.max[x.of[a]]

(* attach_conf fails: already attached, illegal, too many or class full.   *)
Refused(x, c, a) ==
    \/ << c, a >> \in x.attached \/ a \notin x.listed
    \/ Kind(a) # "operator" /\ (IpLimitReached(x, a) \/ ClassFull(x, a))

(* What attach_conf leaves: a full class is found after add_ip_limit.      *)
AttachConf(x, c, a) ==
    IF << c, a >> \in x.attached \/ a \notin x.listed THEN x
    ELSE IF Kind(a) # "operator" /\ IpLimitReached(x, a) THEN x
    ELSE IF ClassFull(x, a) THEN AddIpLimit(x, a)
    ELSE [AddIpLimit(x, a) EXCEPT
             !.attached = @ \union {<< c, a >>},
             !.clients[a] = @ + 1,
             !.users = [k \in Class |-> IF k = x.of[a] THEN @[k] + 1 ELSE @[k]]]

(* attach_conf of hub and leaf lines, which have no class.                 *)
AttachHubs(x, c, H) ==
    LET new == {a \in H : << c, a >> \notin x.attached}
    IN  [x EXCEPT !.attached = @ \union ({c} \X new),
                  !.clients = [a \in Line |-> IF a \in new THEN @[a] + 1 ELSE @[a]]]

-----------------------------------------------------------------------------
(* Mutant of ClearOutOldConf: the counts of the lines start again.         *)
ClearOutOldConf_Forget(x) ==
    [x EXCEPT !.lines  = @ \ {a \in x.listed : x.clients[a] = 0},
              !.listed = {}, !.clients = [a \in Line |-> 0],
              !.max    = [k \in Class |-> IF k \in x.inList \ {Default} THEN -1 ELSE @[k]]]

(* clear_out_old_conf and clear_out_address_conf: lines in use become      *)
(* illegal, the others are freed; every class but the default is marked.   *)
ClearOutOldConf(x) ==
    [x EXCEPT !.lines  = @ \ {a \in x.listed : x.clients[a] = 0},
              !.listed = {},
              !.max    = [k \in Class |-> IF k \in x.inList \ {Default} THEN -1 ELSE @[k]]]

(* Mutant of AddClasses: an old class starts with no users as well.        *)
AddClasses_Reset(x, file, n) ==
    LET set == {k \in x.inList \ {Default} : file.max[k[1]] >= 0}
        new == {<< name, n >> : name \in {m \in ClassName : file.max[m] >= 0 /\ \A k \in x.inList : k[1] # m}}
    IN  [x EXCEPT !.classes = @ \union new, !.inList = @ \union new,
                  !.max  = [k \in Class |-> IF k \in set \union new THEN file.max[k[1]] ELSE @[k]],
                  !.users = [k \in Class |-> IF k \in set \union new THEN 0 ELSE @[k]]]

(* conf_end_class and add_class: a class of that name that is still in the *)
(* list takes the new limits, else the new one is put into it.             *)
AddClasses(x, file, n) ==
    LET defined == {name \in ClassName : file.max[name] >= 0}
        old == {k \in x.inList : k[1] \in defined}
        new == {<< name, n >> : name \in {m \in defined : \A k \in x.inList : k[1] # m}}
    IN  [x EXCEPT !.classes = @ \union new, !.inList = @ \union new,
                  !.max  = [k \in Class |-> IF k \in old \union new THEN file.max[k[1]] ELSE @[k]],
                  !.cidr = [k \in Class |-> IF k \in old \union new THEN file.cidr[k[1]] ELSE @[k]],
                  !.users = [k \in Class |-> IF k \in new THEN 0 ELSE @[k]],
                  !.perCidr = [k \in Class |-> IF k \in new THEN 0 ELSE @[k]]]

(* Mutant of FindClass: a class that is only marked is found as well.      *)
FindClass_Marked(x, name) ==
    IF \E k \in x.inList : k[1] = name
    THEN CHOOSE k \in x.inList : k[1] = name ELSE Default

(* conf_add_class_to_conf: the default for a class the file lacks.         *)
FindClass(x, name) ==
    IF \E k \in x.inList : k[1] = name /\ x.max[k] >= 0
    THEN CHOOSE k \in x.inList : k[1] = name /\ x.max[k] >= 0 ELSE Default

(* conf_end_auth, conf_end_oper, conf_end_connect                          *)
AddLines(x, file, n) ==
    LET new == {<< b, n >> : b \in file.has}
    IN  [x EXCEPT !.lines = @ \union new, !.listed = @ \union new,
                  !.clients = [a \in Line |-> IF a \in new THEN 0 ELSE @[a]],
                  !.of = [a \in Line |->
                      IF a \notin new THEN @[a]
                      ELSE IF Kind(a) = "hub" THEN NoClass ELSE FindClass(x, file.class[a[1]])]]

(* Mutant of CheckClass: an unused class is only unlinked.                 *)
CheckClass_Unlink(x) == [x EXCEPT !.inList = {k \in @ : x.max[k] >= 0}]

(* check_class                                                             *)
CheckClass(x) ==
    LET out == {k \in x.inList : x.max[k] < 0}
    IN  [x EXCEPT !.inList = @ \ out, !.classes = @ \ {k \in out : x.users[k] <= 0}]

(* read_conf_files, cold or from rehash.  A file that cannot be opened     *)
(* ends it before anything is cleared.                                     *)
ReadConf(file) ==
    /\ reads < MaxReads
    /\ reads' = reads + 1
    /\ t' = CheckClass(AddLines(AddClasses(ClearOutOldConf(t), file, reads'), file, reads'))
    /\ UNCHANGED phase

-----------------------------------------------------------------------------
Init ==
    /\ t = [lines |-> {}, listed |-> {}, attached |-> {},
            clients |-> [a \in Line |-> 0], of |-> [a \in Line |-> NoClass],
            classes |-> {Default}, inList |-> {Default},
            max |-> [k \in Class |-> IF k = Default THEN 1 ELSE 0],
            cidr |-> [k \in Class |-> 0], users |-> [k \in Class |-> 0],
            perCidr |-> [k \in Class |-> 0]]
    /\ phase = [c \in Client |-> "gone"]
    /\ reads = 0

Becomes(c, p) == phase' = [phase EXCEPT ![c] = p] /\ UNCHANGED reads

(* add_connection                                                          *)
Accept(c) == phase[c] = "gone" /\ Becomes(c, "unknown") /\ UNCHANGED t

(* serv_connect: attach_connect_block, whose result is not looked at.      *)
ServConnect(c, a) ==
    /\ phase[c] = "gone" /\ a \in Listed("connect")
    /\ t' = AttachConf(t, c, a)
    /\ Becomes(c, "handshake")

(* register_local_user, check_client, verify_access: the auth block that   *)
(* is found is attached, or the client exits.                              *)
Register(c, a) ==
    /\ phase[c] = "unknown" /\ a \in Listed("auth")
    /\ t' = AttachConf(t, c, a)
    /\ Becomes(c, IF Refused(t, c, a) THEN "gone" ELSE "user")

(* m_oper, m_challenge: the line at the head is detached, then the         *)
(* operator block found is attached.                                       *)
Oper(c, a) ==
    /\ phase[c] = "user" /\ a \in Listed("operator") /\ t.clients[a] < t.max[t.of[a]]
    /\ t' = AttachConf(DetachConf(t, c, Of(c)), c, a)
    /\ Becomes(c, "oper")

(* MODE -o leaves the operator block attached.                             *)
Deoper(c) == phase[c] = "oper" /\ Becomes(c, "user") /\ UNCHANGED t

(* check_server and server_estab: besides the connect block its hub and    *)
(* leaf lines are attached.                                                *)
Establish(c, a, H) ==
    /\ phase[c] \in {"unknown", "handshake"}
    /\ a \in Listed("connect") /\ H \subseteq Listed("hub")
    /\ t' = AttachHubs(AttachConf(t, c, a), c, H)
    /\ Becomes(c, "server")

(* exit_client, in whatever state: close_connection detaches every line.   *)
Exit(c) ==
    /\ phase[c] # "gone"
    /\ t' = DetachConf(t, c, Of(c))
    /\ Becomes(c, "gone")

Next ==
    \/ \E file \in Config : ReadConf(file)
    \/ \E c \in Client : Accept(c) \/ Deoper(c) \/ Exit(c)
    \/ \E c \in Client, a \in Line : ServConnect(c, a) \/ Register(c, a) \/ Oper(c, a)
    \/ \E c \in Client, a \in Line : \E H \in SUBSET Listed("hub") : Establish(c, a, H)

Spec == Init /\ [][Next]_vars

-----------------------------------------------------------------------------
(* The two counts that decide when memory is freed are exact across every  *)
(* rehash: a line's clients are those attached to it, and a class's users  *)
(* are those attached to all the lines it has, old and new ones.           *)
UsersCounted ==
    /\ \A a \in t.lines : t.clients[a] = Cardinality({c \in Client : << c, a >> \in t.attached})
    /\ \A k \in t.classes : t.users[k] = Cardinality({p \in t.attached : t.of[p[2]] = k})

(* Nothing freed is reachable: what is listed or attached is allocated,    *)
(* and so is the class of every line, however many rehashes ago either     *)
(* left the file; and a client that has exited is attached to nothing.     *)
NothingDangles ==
    /\ t.listed \subseteq t.lines /\ t.inList \subseteq t.classes
    /\ \A p \in t.attached : p[2] \in t.lines /\ phase[p[1]] # "gone"
    /\ \A a \in t.lines : t.of[a] \in t.classes \union {NoClass}

(* Nothing is kept that nobody can reach: a line that has left the file is *)
(* freed with the last client attached to it, and a class with its last    *)
(* user.                                                                   *)
NothingLeaks ==
    /\ \A a \in t.lines \ t.listed : \E c \in Client : << c, a >> \in t.attached
    /\ \A k \in t.classes \ t.inList : \E p \in t.attached : t.of[p[2]] = k
=============================================================================
