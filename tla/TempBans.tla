------------------------------ MODULE TempBans ------------------------------
(***************************************************************************)
(* K-lines and D-lines, temporary and permanent (src/s_conf.c, src/client. *)
(* c, src/hostmask.c, modules/m_kline.c, modules/m_unkline.c).  A temporary*)
(* line is in the address table, where clients are looked up, and on one   *)
(* of the lists that timed events go through, the longer it has the less   *)
(* often.  A permanent one is in the table and in a file, and the table is *)
(* filled from the file again by every rehash, UNKLINE's among them.       *)
(*                                                                         *)
(* All the lines here match all the clients, under the host they show and  *)
(* the one they have, and an auth block always does.  SET IDLETIME, whose  *)
(* K-lines nobody checks the others for, is off.  A rehash that resets     *)
(* kline_queued lets a second event in, which finds nothing left to do. No *)
(* server sends a negative duration.  Times are in minutes and relative to *)
(* CurrentTime, with the periods of the events scaled.                     *)
(***************************************************************************)
EXTENDS Integers, Sequences, FiniteSets

CONSTANTS
    Line,      \* bound: the memory temporary lines are allocated from
    Person,    \* local connections
    NoKline,   \* the ones whose auth block says kline_exempt
    NoDline,   \* the ones an exempt block matches
    From,      \* From[l]: what a line on list l had left when it was put there
    Period,    \* Period[l]: what eventAddIsh made of the event of list l
    Holds,     \* the durations opers give
    Delay      \* kline_delay when it is not 0

Lists == 1..Len(From)    \* tkline_min, tkline_hour, tkline_day, tkline_week
Kinds == {"K", "D"}

ASSUME TempBansAssumption ==
    /\ From \in Seq(Nat) /\ Len(From) \in 1..4 /\ From[1] = 0
    /\ Period \in [Lists -> Nat \ {0}]
    /\ \A l \in Lists \ {1} : From[l - 1] < From[l] /\ 3 * Period[l] < 4 * From[l]
    /\ Holds \subseteq Nat \ {0} /\ Delay \in Nat \ {0}
    /\ NoKline \subseteq Person /\ NoDline \subseteq Person

VARIABLES
    lines,    \* allocated temporary lines
    kind,     \* kind[i]: CONF_KILL or CONF_DLINE
    left,     \* left[i]: hold - CurrentTime
    lists,    \* lists[l]: the temporary lines on list l
    table,    \* the temporary lines in atable
    perm,     \* the kinds there is a permanent line of in atable
    file,     \* the kinds there is a line of in kline.conf and dline.conf
    due,      \* due[l]: when the event of list l runs
    check,    \* when check_klines_event runs, -1: kline_queued is 0
    delay, redundant,   \* kline_delay, non_redundant_klines
    at,       \* at[p]: "off", "unknown" or "person"
    overlooked  \* history: whom the last check for K-lines passed over

bans == << lines, kind, left, lists, table, perm, file >>
conf == << delay, redundant >>
people == << at, overlooked >>
vars == << bans, due, check, conf, people >>

TypeOK ==
    /\ lines \subseteq Line /\ table \subseteq Line
    /\ kind \in [Line -> Kinds] /\ left \in [Line -> Int]
    /\ lists \in [Lists -> SUBSET Line]
    /\ perm \subseteq Kinds /\ file \subseteq Kinds
    /\ due \in [Lists -> Nat] /\ check \in -1..Delay
    /\ delay \in {0, Delay} /\ redundant \in BOOLEAN
    /\ at \in [Person -> {"off", "unknown", "person"}]
    /\ overlooked \subseteq NoDline

Init ==
    /\ lines = {} /\ table = {} /\ lists = [l \in Lists |-> {}]
    /\ kind = [i \in Line |-> "K"] /\ left = [i \in Line |-> 0]
    /\ perm \in SUBSET Kinds /\ file = perm
    /\ due = Period /\ check = -1
    /\ delay \in {0, Delay} /\ redundant \in BOOLEAN
    /\ at = [p \in Person |-> "off"] /\ overlooked = {}

-----------------------------------------------------------------------------
(* find_conf_by_address: the kinds of lines that are in the table.         *)
InTable == perm \union {kind[i] : i \in table}

(* Who may not be here: check_klines is about registered clients, check_   *)
(* dlines about all.                                                       *)
Hit(p, k) ==
    CASE k = "K" -> at[p] = "person" /\ p \notin NoKline
      [] k = "D" -> at[p] # "off" /\ p \notin NoDline

(* check_klines, check_dlines: the clients that lines of these kinds hit   *)
(* exit.                                                                   *)
Expel(kinds) ==
    /\ at' = [p \in Person |-> IF \E k \in kinds : Hit(p, k) THEN "off" ELSE at[p]]
    /\ overlooked' = IF "K" \in kinds THEN {} ELSE overlooked

(* check_banned_lines: an exempt block ends the check of a client before   *)
(* its K-lines have been looked for.                                       *)
CheckBannedLines(kinds) ==
    /\ at' = [p \in Person |->
          IF p \notin NoDline /\ \E k \in kinds : Hit(p, k) THEN "off" ELSE at[p]]
    /\ overlooked' = {p \in NoDline : "K" \in kinds /\ Hit(p, "K")}

(* After a new line: check_dlines, check_klines or an event for it.        *)
CheckLines(k) ==
    IF k = "K" /\ delay > 0
    THEN check' = (IF check = -1 THEN delay ELSE check) /\ UNCHANGED people
    ELSE Expel({k}) /\ UNCHANGED check

(* already_placed_kline, and its like in mo_dline, which refuses a         *)
(* permanent line for a temporary one too.                                 *)
AlreadyPlaced(k, temporary) ==
    /\ redundant
    /\ \/ k \in perm
       \/ (temporary \/ k = "D") /\ k \in InTable

(* Mutant of LevelOf: one list too far.                                    *)
LevelOf_Next(time) == CHOOSE l \in Lists :
    /\ l = Len(From) \/ time < From[l]
    /\ \A m \in Lists : m < l => From[m] <= time

(* The list for a line that has so long to go.                             *)
LevelOf(time) == CHOOSE l \in Lists :
    /\ l = 1 \/ From[l] <= time
    /\ \A m \in Lists : m > l => time < From[m]

(* mo_kline, ms_kline, mo_dline with a duration: add_temp_kline            *)
AddTemp(k, i, hold) ==
    /\ i \notin lines /\ ~AlreadyPlaced(k, TRUE)
    /\ lines' = lines \union {i} /\ table' = table \union {i}
    /\ kind' = [kind EXCEPT ![i] = k] /\ left' = [left EXCEPT ![i] = hold]
    /\ lists' = [lists EXCEPT ![LevelOf(hold)] = @ \union {i}]
    /\ CheckLines(k)
    /\ UNCHANGED << perm, file, due, conf >>

(* ... and without: apply_kline.  The line is in the table whether or not  *)
(* the file could be written.                                              *)
AddPerm(k, written) ==
    /\ ~AlreadyPlaced(k, FALSE)
    /\ perm' = perm \union {k}
    /\ file' = IF written THEN file \union {k} ELSE file
    /\ UNCHANGED << lines, kind, left, lists, table >>
    /\ CheckLines(k)
    /\ UNCHANGED << due, conf >>

(* Lines that leave the list they are on, the table and memory.            *)
Free(gone) ==
    /\ lines' = lines \ gone /\ table' = table \ gone
    /\ left' = [i \in Line |-> IF i \in gone THEN 0 ELSE left[i]]
    /\ kind' = [i \in Line |-> IF i \in gone THEN "K" ELSE kind[i]]

(* Mutant of Reload: the address table is cleared of every line.           *)
Reload_All(contents, readable) ==
    /\ perm' = contents \intersect readable /\ file' = contents
    /\ lines' = {} /\ table' = {}
    /\ UNCHANGED << kind, left, lists, due, check, conf >>
    /\ CheckBannedLines(contents \intersect readable)

(* Mutant of Reload: no check_banned_lines.                                *)
Reload_Unchecked(contents, readable) ==
    /\ perm' = contents \intersect readable /\ file' = contents
    /\ UNCHANGED << lines, kind, left, lists, table, due, check, conf, people >>

(* read_conf_files as far as it is about bans, and check_banned_lines: the *)
(* temporary lines stay; a file that cannot be opened counts as empty.     *)
Reload(contents, readable) ==
    /\ perm' = contents \intersect readable /\ file' = contents
    /\ delay' \in {0, Delay} /\ redundant' \in BOOLEAN
    /\ UNCHANGED << lines, kind, left, lists, table, due, check >>
    /\ CheckBannedLines((contents \intersect readable) \union {kind[i] : i \in table})

(* rehash, and one that ends early because ircd.conf cannot be opened.     *)
Rehash(readable) == Reload(file, readable)

RehashAborted == CheckBannedLines(InTable) /\ UNCHANGED << bans, due, check, conf >>

(* mo_unkline, ms_unkline, mo_undline: a temporary line if there is one,   *)
(* else the file is written without the line and read again.               *)
RemoveTemp(k, i) ==
    /\ \E l \in Lists : i \in lists[l] /\ lists' = [lists EXCEPT ![l] = @ \ {i}]
    /\ kind[i] = k
    /\ Free({i})
    /\ UNCHANGED << perm, file, due, check, conf, people >>

RemovePerm(k) ==
    /\ \A l \in Lists, i \in Line : i \in lists[l] => kind[i] # k
    /\ Reload(file \ {k}, Kinds)

(* REHASH TKLINES, REHASH TDLINES: clear_temps                             *)
ClearTemps(k) ==
    LET gone == {i \in UNION {lists[l] : l \in Lists} : kind[i] = k}
    IN  /\ lists' = [l \in Lists |-> lists[l] \ gone]
        /\ Free(gone)
        /\ UNCHANGED << perm, file, due, check, conf, people >>

(* expire_tkline and expire_tdline for one list.                           *)
Expire(l) ==
    LET gone == {i \in lists[l] : left[i] <= 0}
        down == {i \in lists[l] \ gone : left[i] < From[l]}
    IN  /\ due[l] = 0
        /\ due' = [due EXCEPT ![l] = Period[l]]
        /\ lists' = [m \in Lists |->
              IF m = l THEN lists[l] \ (gone \union down)
              ELSE lists[m] \union {i \in down : LevelOf(left[i]) = m}]
        /\ Free(gone)
        /\ UNCHANGED << perm, file, check, conf, people >>

(* check_klines_event                                                      *)
CheckKlinesEvent ==
    /\ check = 0 /\ check' = -1
    /\ UNCHANGED << bans, due, conf >>
    /\ Expel(InTable \intersect {"K"})

(* A minute passes once every event that is due has run.                   *)
Tick ==
    /\ \A l \in Lists : due[l] > 0
    /\ check # 0
    /\ due' = [l \in Lists |-> due[l] - 1]
    /\ check' = IF check = -1 THEN -1 ELSE check - 1
    /\ left' = [i \in Line |-> IF i \in lines THEN left[i] - 1 ELSE left[i]]
    /\ UNCHANGED << lines, kind, lists, table, perm, file, conf, people >>

-----------------------------------------------------------------------------
(* accept_connection: conf_connect_allowed refuses a D-lined address.      *)
Connect(p) ==
    /\ at[p] = "off"
    /\ UNCHANGED << bans, due, check, conf, overlooked >>
    /\ p \in NoDline \/ "D" \notin InTable
    /\ at' = [at EXCEPT ![p] = "unknown"]

(* register_local_user, verify_access: a K-lined client exits.             *)
Register(p) ==
    /\ at[p] = "unknown"
    /\ UNCHANGED << bans, due, check, conf, overlooked >>
    /\ at' = [at EXCEPT ![p] =
          IF p \notin NoKline /\ "K" \in InTable THEN "off" ELSE "person"]

Exit(p) ==
    /\ at[p] # "off"
    /\ at' = [at EXCEPT ![p] = "off"] /\ overlooked' = overlooked \ {p}
    /\ UNCHANGED << bans, due, check, conf >>

(* Somebody edits kline.conf or dline.conf.                                *)
Edit(contents) ==
    /\ contents # file /\ file' = contents
    /\ UNCHANGED << lines, kind, left, lists, table, perm, due, check, conf, people >>

Next ==
    \/ \E k \in Kinds, i \in Line, hold \in Holds : AddTemp(k, i, hold)
    \/ \E k \in Kinds, written \in BOOLEAN : AddPerm(k, written)
    \/ \E k \in Kinds, i \in Line : RemoveTemp(k, i)
    \/ \E k \in Kinds : RemovePerm(k) \/ ClearTemps(k)
    \/ \E readable \in SUBSET Kinds : Rehash(readable)
    \/ \E contents \in SUBSET Kinds : Edit(contents)
    \/ \E l \in Lists : Expire(l)
    \/ RehashAborted \/ CheckKlinesEvent \/ Tick
    \/ \E p \in Person : Connect(p) \/ Register(p) \/ Exit(p)

Spec == Init /\ [][Next]_vars

-----------------------------------------------------------------------------
(* A temporary line that is allocated is in the table and on exactly one   *)
(* list, and nothing else is on either: no event or UNKLINE finds a line   *)
(* that has been freed, and none is lost to the lists and kept for ever,   *)
(* whatever moves, expires, is removed and survives a rehash in between.   *)
ListsMatchTable ==
    /\ table = lines
    /\ UNION {lists[l] : l \in Lists} = lines
    /\ \A l, m \in Lists : l # m => lists[l] \intersect lists[m] = {}

(* No client a line hits stays: one who is here in spite of a K-line is    *)
(* thrown out by an event that is already scheduled, however lines, the    *)
(* delay and the clients come and go, unless it is in an exempt block and  *)
(* a rehash has passed it over; with a D-line there is none at all.        *)
NobodyStays ==
    \A p \in Person, k \in Kinds :
        k \in InTable /\ Hit(p, k) => k = "K" /\ (check >= 0 \/ p \in overlooked)

(* A client that has a K-line exits, or an event is scheduled that will    *)
(* make it: what check_banned_lines says it does for every rehash, "Check  *)
(* all connections for a pending k/d/gline against the client, exit the    *)
(* client if found", where an exempt block is to count against D-lines.    *)
KlinedLeave ==
    \A p \in Person : "K" \in InTable /\ Hit(p, "K") => check >= 0

(* No line outlives its duration by more than the period of the list it is *)
(* on exceeds the time that list is for, wherever it was put and in        *)
(* whatever order the events that move it run.                             *)
ExpiresInTime ==
    \A l \in Lists : \A i \in lists[l] : left[i] >= From[l] - Period[l]
=============================================================================
