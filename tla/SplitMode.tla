----------------------------- MODULE SplitMode -----------------------------
(***************************************************************************)
(* Split mode (src/channel.c, modules/m_set.c, src/client.c): while the    *)
(* network is split users may not create or join channels.  The mode       *)
(* starts at once when the network becomes too small, and is ended by two  *)
(* timed events that schedule and delete one another; an oper may change   *)
(* everything in between with SET.                                         *)
(*                                                                         *)
(* Count.server and Count.total matter only by whether they are below      *)
(* split_servers and split_users.  Of the other events the table holds     *)
(* one, which exits clients and is due every second.                       *)
(***************************************************************************)
EXTENDS EventTable, FiniteSets

CONSTANTS
    Period,     \* what eventAddIsh may make of ten seconds
    Delay,      \* GlobalSetOptions.split_delay when it is not 0
    Commands,   \* what opers do here
    MaxCommands,\* bound: commands of opers
    MaxStep     \* bound: seconds the clock moves at once, either way

ASSUME SplitAssumption ==
    /\ MaxEvents > 2     \* MAX_EVENTS is 50
    /\ Func = {"check_splitmode", "finish_splitmode", "exit_aborted_clients"}
    /\ Period \subseteq Nat \ {0} /\ Period # {}
    /\ Delay \in Nat \ {0}
    /\ Commands \subseteq {"OFF", "ON", "AUTO", "NUM", "DELAY", "REHASH", "CLOCK"}
    /\ MaxCommands \in Nat /\ MaxStep \in Nat \ {0}

VARIABLES
    splitmode, splitchecking,
    short,        \* the counts that are below their threshold
    split_delay,
    no_on_split,  \* no_join_on_split or no_create_on_split is configured
    events,       \* event_table and event_time_min
    slot,         \* 0: comm_select; i: eventRun is at row i
    used,         \* history: the kinds of commands there have been
    spent         \* how much of MaxCommands is used up

split == << splitmode, splitchecking, short, split_delay, no_on_split >>
split_vars  == << split, events, slot, used, spent >>

SplitTypeOK ==
    /\ splitmode \in BOOLEAN /\ splitchecking \in BOOLEAN
    /\ short \subseteq {"servers", "users"}
    /\ split_delay \in {0, Delay} /\ no_on_split \in BOOLEAN
    /\ events \in Table
    /\ slot \in 0..MaxEvents
    /\ used \subseteq Commands /\ spent \in 0..MaxCommands

(* A server that is configured for split mode starts in it; the first      *)
(* check comes later than the others will.                                 *)
SplitInit ==
    /\ splitmode \in BOOLEAN
    /\ splitchecking = splitmode
    /\ short \in SUBSET {"servers", "users"}
    /\ split_delay \in {0, Delay}
    /\ no_on_split \in BOOLEAN /\ (splitmode => no_on_split)
    /\ \E p \in Period :
         LET started == eventAdd(EmptyTable, "exit_aborted_clients", 1)
         IN  events = IF splitmode THEN eventAdd(started, "check_splitmode", p) ELSE started
    /\ slot = 0
    /\ used = {} /\ spent = 0

Low(counts) == counts # {}

Outcome == [splitmode : BOOLEAN, events : Table]

(* Mutants of Finish: the counts are not compared again; nothing checks    *)
(* on a split that came back.                                              *)
Finish_Anyway(mode, counts, tab, p) == [splitmode |-> FALSE, events |-> tab]
Finish_NoCheck(mode, counts, tab, p) ==
    IF Low(counts) THEN [splitmode |-> mode, events |-> tab]
    ELSE [splitmode |-> FALSE, events |-> tab]

(* finish_splitmode, with the period that eventAddIsh would choose.        *)
Finish(mode, counts, tab, p) ==
    IF Low(counts)
    THEN [splitmode |-> mode, events |-> eventAdd(tab, "check_splitmode", p)]
    ELSE [splitmode |-> FALSE, events |-> tab]

(* The network is whole again: the end is scheduled, or comes at once.     *)
Rejoined(counts, tab, p) ==
    LET end == IF split_delay = 0 THEN Finish(TRUE, counts, tab, p)
               ELSE [splitmode |-> TRUE,
                     events |-> eventAddOnce(tab, "finish_splitmode", split_delay)]
    IN  [end EXCEPT !.events = eventDelete(@, "check_splitmode")]

(* check_splitmode.                                                        *)
Check(checking, mode, counts, tab, p) ==
    IF ~checking \/ ~no_on_split \/ mode = Low(counts)
    THEN [splitmode |-> mode, events |-> tab]
    ELSE IF Low(counts)
         THEN [splitmode |-> TRUE, events |-> eventAdd(tab, "check_splitmode", p)]
         ELSE Rejoined(counts, tab, p)

Become(outcome) == splitmode' = outcome.splitmode /\ events' = outcome.events

-----------------------------------------------------------------------------
(* Mutant of ExitStats: nobody looks.                                      *)
ExitStats_Unnoticed(counts, p) == [splitmode |-> splitmode, events |-> events]

(* update_client_exit_stats when the clients that left leave these counts. *)
ExitStats(counts, p) ==
    IF splitchecking /\ ~splitmode THEN Check(TRUE, FALSE, counts, events, p)
    ELSE [splitmode |-> splitmode, events |-> events]

ClientExit ==
    /\ slot = 0
    /\ \E counts \in SUBSET {"servers", "users"}, p \in Period :
         /\ short \subseteq counts
         /\ short' = counts
         /\ Become(ExitStats(counts, p))
    /\ UNCHANGED << splitchecking, split_delay, no_on_split, slot, used, spent >>

(* A server or a user is introduced; nobody looks at split mode.           *)
Introduce ==
    /\ slot = 0
    /\ short' \in SUBSET short
    /\ UNCHANGED << splitmode, splitchecking, split_delay, no_on_split, events, slot, used, spent >>

Use(command) ==
    /\ slot = 0
    /\ command \in Commands /\ spent < MaxCommands
    /\ used' = used \union {command}
    /\ spent' = spent + 1
    /\ UNCHANGED slot

(* SET SPLITMODE OFF and ON: only the check is pulled.                     *)
SetOff ==
    /\ Use("OFF")
    /\ splitmode' = FALSE /\ splitchecking' = FALSE
    /\ events' = eventDelete(events, "check_splitmode")
    /\ UNCHANGED << short, split_delay, no_on_split >>

SetOn ==
    /\ Use("ON")
    /\ splitmode' = TRUE /\ splitchecking' = FALSE
    /\ events' = eventDelete(events, "check_splitmode")
    /\ UNCHANGED << short, split_delay, no_on_split >>

SetAuto ==
    /\ Use("AUTO")
    /\ splitchecking' = TRUE
    /\ \E p \in Period : Become(Check(TRUE, splitmode, short, events, p))
    /\ UNCHANGED << short, split_delay, no_on_split >>

(* SET SPLITNUM and SET SPLITUSERS: one count gets another threshold.      *)
SetThreshold ==
    /\ Use("NUM")
    /\ \E n \in {"servers", "users"}, p \in Period :
         \E counts \in {short \union {n}, short \ {n}} :
            /\ short' = counts
            /\ IF splitchecking
               THEN Become(Check(TRUE, splitmode, counts, events, p))
               ELSE UNCHANGED << splitmode, events >>
    /\ UNCHANGED << splitchecking, split_delay, no_on_split >>

SetDelay ==
    /\ Use("DELAY")
    /\ split_delay' \in {0, Delay}
    /\ UNCHANGED << splitmode, splitchecking, short, no_on_split, events >>

(* REHASH re-reads the two options and touches nothing else of this.       *)
Rehash ==
    /\ Use("REHASH")
    /\ no_on_split' \in BOOLEAN
    /\ UNCHANGED << splitmode, splitchecking, short, split_delay, events >>

-----------------------------------------------------------------------------
(* set_time, in comm_select.                                               *)
Tick ==
    /\ slot = 0
    /\ \E d \in 1..MaxStep : events' = Later(events, d)
    /\ UNCHANGED << split, slot, used, spent >>

ClockSetBack ==
    /\ Use("CLOCK")
    /\ \E d \in 1..MaxStep : events' = SetBack(events, d)
    /\ UNCHANGED split

(* io_loop: eventNextTime, and eventRun when that time has come.           *)
EventLoop ==
    /\ slot = 0
    /\ events' = [events EXCEPT !.min = NextTime(events)]
    /\ slot' = IF NextTime(events) = 0 THEN 1 ELSE 0
    /\ UNCHANGED << split, used, spent >>

Due == slot # 0 /\ slot \in Active(events) /\ events.when[slot] = 0

(* Mutant of NextSlot: the loop goes one row too far.                      *)
NextSlot_Past == slot' = IF slot > MaxEvents THEN 0 ELSE slot + 1

NextSlot == slot' = IF slot = MaxEvents THEN 0 ELSE slot + 1

SkipEvent ==
    /\ slot # 0 /\ ~Due
    /\ NextSlot
    /\ UNCHANGED << split, events, used, spent >>

(* eventRun calls the function of the row and then settles the row.        *)
RunEvent(f, outcome) ==
    /\ Due /\ events.func[slot] = f
    /\ splitmode' = outcome.splitmode
    /\ events' = Rescheduled(outcome.events, slot)
    /\ NextSlot
    /\ UNCHANGED << splitchecking, split_delay, no_on_split, used, spent >>

RunCheck ==
    /\ \E p \in Period :
        RunEvent("check_splitmode", Check(splitchecking, splitmode, short, events, p))
    /\ UNCHANGED short

RunFinish ==
    /\ \E p \in Period : RunEvent("finish_splitmode", Finish(splitmode, short, events, p))
    /\ UNCHANGED short

RunExits ==
    \E counts \in SUBSET {"servers", "users"}, p \in Period :
        /\ short \subseteq counts
        /\ short' = counts
        /\ RunEvent("exit_aborted_clients", ExitStats(counts, p))

-----------------------------------------------------------------------------
Command ==
    \/ SetOff \/ SetOn \/ SetAuto \/ SetThreshold \/ SetDelay \/ Rehash \/ ClockSetBack

Run == EventLoop \/ SkipEvent \/ RunCheck \/ RunFinish \/ RunExits

SplitNext == ClientExit \/ Introduce \/ Command \/ Tick \/ Run

SplitSpec == SplitInit /\ [][SplitNext]_split_vars

(* io_loop goes round, and the clock goes on.                              *)
SplitFairSpec == SplitSpec /\ WF_split_vars(Run) /\ WF_split_vars(Tick)

-----------------------------------------------------------------------------
(* A network that is too small is noticed: with automatic split mode on    *)
(* the mode is never off while a count is low, whoever left in which       *)
(* order and whatever the events were about to do.                         *)
SplitIsNoticed ==
    splitchecking /\ no_on_split /\ ~splitmode /\ "REHASH" \notin used => ~Low(short)

SplitRows == Rows(events, "check_splitmode") \union Rows(events, "finish_splitmode")

(* An automatic split mode always has an event in the table that will look *)
(* at it again, unless an oper has forced the mode in between; and left    *)
(* alone the ircd schedules one event at a time: check and finish hand     *)
(* over to one another and neither multiplies.                             *)
SomethingWillCheck ==
    /\ (splitmode /\ splitchecking /\ "ON" \notin used) => SplitRows # {}
    /\ used = {} => Cardinality(SplitRows) <= 1

(* Only SET SPLITMODE OFF ends the mode while a count is low.              *)
EndsRejoined ==
    [][splitmode /\ ~splitmode' => ~Low(short') \/ SetOff]_split_vars

(* The example configuration: "you may force splitmode to be permanent".   *)
ForcedIsPermanent ==
    [][splitmode /\ ~splitchecking /\ ~splitmode' => SetOff]_split_vars

(* Automatic split mode ends after the network has rejoined for good, and  *)
(* as it is meant to: "the ircd will check every 10s".                     *)
SplitEnds ==
    (splitmode /\ splitchecking /\ no_on_split /\ ~Low(short))
        ~> (~splitmode \/ ~splitchecking \/ ~no_on_split \/ Low(short))
SplitEndsUnforced ==
    (splitmode /\ splitchecking /\ no_on_split /\ ~Low(short))
        ~> (~splitmode \/ ~splitchecking \/ ~no_on_split \/ Low(short) \/ "ON" \in used)
=============================================================================
