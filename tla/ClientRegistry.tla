-------------------------- MODULE ClientRegistry --------------------------
(***************************************************************************)
(* What client.c promises the rest of the ircd about its clients: a set of *)
(* pending connections and a tree of registered clients under Root.  A     *)
(* member leaves together with everything behind it, in one step; an       *)
(* exited client stays readable ("gone") until its block is reclaimed.     *)
(***************************************************************************)
CONSTANTS Client, Root
VARIABLES state, parent
vars == << state, parent >>

In(st) == {c \in Client : state[c] = st}
Become(S, st) == [c \in Client |-> IF c \in S THEN st ELSE state[c]]
Under(S, p) == [c \in Client |-> IF c \in S THEN p ELSE parent[c]]

Init ==
    /\ state = [c \in Client |-> "absent"]
    /\ parent = [c \in Client |-> Root]

Connect(c) ==
    /\ state[c] = "absent"
    /\ state' = Become({c}, "pending")
    /\ UNCHANGED parent

(* p is the member a newcomer is introduced by.                            *)
Introduce(c, p) ==
    /\ state[c] = "absent" /\ state[p] = "member"
    /\ state' = Become({c}, "member")
    /\ parent' = Under({c}, p)

Register(c) ==
    /\ state[c] = "pending"
    /\ state' = Become({c}, "member")
    /\ UNCHANGED parent

(* The members with an ancestor, or themselves, in S: the least closure.   *)
Subtree(S) ==
    {c \in In("member") :
        \A D \in SUBSET In("member") :
            (S \subseteq D /\ \A d \in In("member") : parent[d] \in D => d \in D) => c \in D}

Leave(c) ==
    /\ state[c] = "member"
    /\ state' = Become(Subtree({c}), "gone")
    /\ parent' = Under(Subtree({c}), Root)

Drop(S) ==
    /\ S # {} /\ S \subseteq In("pending")
    /\ state' = Become(S, "gone")
    /\ UNCHANGED parent

Reclaim(S) ==
    /\ S # {} /\ S \subseteq In("gone")
    /\ state' = Become(S, "absent")
    /\ UNCHANGED parent

Next ==
    \/ \E c \in Client : Connect(c) \/ Register(c) \/ Leave(c)
    \/ \E c, p \in Client : Introduce(c, p)
    \/ \E S \in SUBSET Client : Drop(S) \/ Reclaim(S)

Spec == Init /\ [][Next]_vars
=============================================================================
