----------------------------- MODULE EventTable -----------------------------
(***************************************************************************)
(* The table of scheduled events of src/event.c and the cached time of the *)
(* next one, as pure operators; SplitMode runs them.  Times are seconds    *)
(* from CurrentTime: `when` is 0 once the event is due.                    *)
(***************************************************************************)
EXTENDS Integers

CONSTANTS Func, NoFunc, MaxEvents

ASSUME EventAssumption == NoFunc \notin Func /\ MaxEvents \in Nat \ {0}

Slot == 1..MaxEvents

(* event_table, where an inactive row has no function, and event_time_min. *)
Table ==
    [func : [Slot -> Func \union {NoFunc}], when : [Slot -> Nat],
     frequency : [Slot -> Nat], min : Nat \union {-1}]

EmptyTable ==
    [func |-> [i \in Slot |-> NoFunc], when |-> [i \in Slot |-> 0],
     frequency |-> [i \in Slot |-> 0], min |-> -1]

Active(tab) == {i \in Slot : tab.func[i] # NoFunc}
Rows(tab, f) == {i \in Slot : tab.func[i] = f}
First(S) == CHOOSE i \in S : \A j \in S : i <= j

Earlier(min, when) == IF min = -1 \/ when < min THEN when ELSE min

(* The first inactive row; nothing when there is none.  An event_time_min  *)
(* of -1, which says that the time is not known, is taken for no time.     *)
Schedule(tab, f, when, frequency) ==
    LET i == First(Slot \ Active(tab))
    IN  IF Active(tab) = Slot THEN tab
        ELSE [tab EXCEPT !.func[i] = f, !.when[i] = when, !.frequency[i] = frequency,
                         !.min = Earlier(@, when)]

eventAdd(tab, f, when)     == Schedule(tab, f, when, when)
eventAddOnce(tab, f, when) == Schedule(tab, f, when, 0)

(* The first row of f, and only that one; event_time_min stays.            *)
eventDelete(tab, f) ==
    IF Rows(tab, f) = {} THEN tab ELSE [tab EXCEPT !.func[First(Rows(tab, f))] = NoFunc]

(* Mutant of Rescheduled: every event is for once.                         *)
Rescheduled_Never(tab, i) == [tab EXCEPT !.func[i] = NoFunc, !.min = -1]

(* eventRun after it has called row i: the row may have been deleted by    *)
(* its own function.                                                       *)
Rescheduled(tab, i) ==
    [tab EXCEPT !.func[i] = IF tab.frequency[i] = 0 THEN NoFunc ELSE @,
                !.when[i] = tab.frequency[i],
                !.min = -1]

(* eventNextTime computes the time when it does not remember it.           *)
NextTime(tab) ==
    IF tab.min # -1 \/ Active(tab) = {} THEN tab.min
    ELSE CHOOSE w \in {tab.when[i] : i \in Active(tab)} :
            \A i \in Active(tab) : w <= tab.when[i]

Down(n, d) == IF n > d THEN n - d ELSE 0

(* d seconds pass.                                                         *)
Later(tab, d) ==
    [tab EXCEPT !.when = [i \in Slot |-> Down(@[i], d)],
                !.min = IF @ = -1 THEN @ ELSE Down(@, d)]

(* The clock is found to be d seconds behind: set_back_events moves every  *)
(* row with it, and leaves event_time_min.                                 *)
SetBack(tab, d) == [tab EXCEPT !.min = IF @ = -1 THEN @ ELSE @ + d]
=============================================================================
