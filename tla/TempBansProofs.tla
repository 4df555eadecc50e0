---------------------------- MODULE TempBansProofs ----------------------------
(***************************************************************************)
(* Proofs about TempBans, for any lines, clients, lists of lines and       *)
(* periods of their events.                                                *)
(*                                                                         *)
(* The type invariant is split into Bans, Times and People.  What makes    *)
(* ExpiresInTime inductive is Timely: the time until the event of its list *)
(* counts against a line.                                                  *)
(***************************************************************************)
EXTENDS TempBans, TLAPS

Bans ==
    /\ lines \subseteq Line /\ table \subseteq Line
    /\ kind \in [Line -> Kinds] /\ left \in [Line -> Int]
    /\ lists \in [Lists -> SUBSET Line]
    /\ perm \subseteq Kinds /\ file \subseteq Kinds

Times  == due \in [Lists -> Nat] /\ check \in -1..Delay /\ delay \in {0, Delay}
People ==
    /\ redundant \in BOOLEAN /\ at \in [Person -> {"off", "unknown", "person"}]
    /\ overlooked \subseteq NoDline

Timely ==
    \A l \in Lists :
        /\ due[l] <= Period[l]
        /\ \A i \in lists[l] : left[i] - due[l] >= From[l] - Period[l]

Inductive == Bans /\ Times /\ People /\ ListsMatchTable /\ Timely /\ NobodyStays

LEMMA TypeParts == TypeOK <=> Bans /\ Times /\ People
BY Zenon DEF TypeOK, Bans, Times, People

-----------------------------------------------------------------------------
(* What From and Period are.                                               *)
LEMMA Scale ==
    /\ 1 \in Lists /\ From[1] = 0
    /\ \A l \in Lists : l \in 1..4 /\ From[l] \in Nat /\ Period[l] \in Nat \ {0}
    /\ \A l, m \in Lists : l < m => From[l] < From[m]
<1>1. /\ Len(From) \in 1..4 /\ From \in Seq(Nat) /\ From[1] = 0
      /\ Period \in [Lists -> Nat \ {0}]
      /\ \A l \in Lists \ {1} : From[l - 1] < From[l]
  BY TempBansAssumption
<1>2. \A l \in Lists : l \in 1..4 /\ From[l] \in Nat
  BY <1>1 DEF Lists
<1>3. \A l \in Lists : l + 1 \in Lists => From[l] < From[l + 1]
  BY <1>1, <1>2 DEF Lists
<1>4. ASSUME NEW l \in Lists, NEW m \in Lists, l < m
      PROVE  From[l] < From[m]
  <2>1. \A n \in Lists : n <= m => n \in Lists
    OBVIOUS
  <2>2. CASE m = l + 1
    BY <1>3, <2>2
  <2>3. CASE m = l + 2
    <3>1. l + 1 \in Lists
      BY <1>1, <2>3 DEF Lists
    <3> QED BY <1>2, <1>3, <2>3, <3>1
  <2>4. CASE m = l + 3
    <3>1. l + 1 \in Lists /\ l + 2 \in Lists
      BY <1>1, <2>4 DEF Lists
    <3>2. From[l] < From[l + 1] /\ From[l + 1] < From[l + 2] /\ From[l + 2] < From[l + 3]
      <4>1. (l + 1) + 1 = l + 2 /\ (l + 2) + 1 = l + 3
        BY <1>2
      <4> QED BY <1>3, <2>4, <3>1, <4>1
    <3> QED BY <1>2, <2>4, <3>1, <3>2
  <2> QED BY <1>2, <1>4, <2>2, <2>3, <2>4
<1>5. 1 \in Lists /\ From[1] = 0
  BY <1>1 DEF Lists
<1>6. \A l \in Lists : Period[l] \in Nat \ {0}
  BY <1>1
<1> QED BY <1>2, <1>4, <1>5, <1>6

(* There is a list for every time, and it is one whose lines may have so   *)
(* long to go.                                                             *)
LEMMA Level ==
    ASSUME NEW time \in Nat
    PROVE  LevelOf(time) \in Lists /\ From[LevelOf(time)] <= time
<1> DEFINE Fits(l) == /\ l = 1 \/ From[l] <= time
                      /\ \A m \in Lists : m > l => time < From[m]
<1>1. \E l \in Lists : Fits(l)
  <2>1. CASE 4 \in Lists /\ From[4] <= time
    BY <2>1, Scale
  <2>2. CASE ~(4 \in Lists /\ From[4] <= time) /\ (3 \in Lists /\ From[3] <= time)
    BY <2>2, Scale
  <2>3. CASE ~(4 \in Lists /\ From[4] <= time) /\ ~(3 \in Lists /\ From[3] <= time)
             /\ (2 \in Lists /\ From[2] <= time)
    BY <2>3, Scale
  <2>4. CASE ~(4 \in Lists /\ From[4] <= time) /\ ~(3 \in Lists /\ From[3] <= time)
             /\ ~(2 \in Lists /\ From[2] <= time)
    BY <2>4, Scale
  <2> QED BY <2>1, <2>2, <2>3, <2>4
<1>2. LevelOf(time) \in Lists /\ Fits(LevelOf(time))
  BY <1>1 DEF LevelOf
<1> QED BY <1>2, Scale

-----------------------------------------------------------------------------
(* What can be said of Timely when only lists have become shorter.         *)
LEMMA StaysTimely ==
    ASSUME Inductive,
           Bans',
           due' = due,
           \A l \in Lists : lists'[l] \subseteq lists[l],
           \A l \in Lists : \A i \in lists'[l] : left'[i] = left[i]
    PROVE  Timely'
BY Scale DEF Inductive, Timely, Bans, Times

(* Fewer kinds of lines, and fewer clients that they hit.                  *)
LEMMA StaysEmpty ==
    ASSUME Inductive,
           InTable' \subseteq InTable,
           \A p \in Person, k \in Kinds : Hit(p, k)' => Hit(p, k),
           check' = check, overlooked' = overlooked
    PROVE  NobodyStays'
BY DEF Inductive, NobodyStays

(* Whoever is hit after Expel was hit before, and by none of the kinds; no *)
(* K-lined client that it has not looked at is forgotten.                  *)
LEMMA Expelled ==
    ASSUME NEW kinds \in SUBSET Kinds, People, Expel(kinds)
    PROVE  /\ at' \in [Person -> {"off", "unknown", "person"}]
           /\ overlooked' \subseteq NoDline
           /\ "K" \notin kinds => overlooked' = overlooked
           /\ \A p \in Person, k \in Kinds : Hit(p, k)' => Hit(p, k) /\ k \notin kinds
<1>1. \A p \in Person : at'[p] = at[p] \/ at'[p] = "off"
  BY DEF Expel, People
<1>2. \A p \in Person, k \in kinds : Hit(p, k) => at'[p] = "off"
  BY DEF Expel, People
<1>3. at' \in [Person -> {"off", "unknown", "person"}]
  BY DEF Expel, People
<1>4. ASSUME NEW p \in Person, NEW k \in Kinds, Hit(p, k)'
      PROVE  Hit(p, k) /\ k \notin kinds
  <2>1. at'[p] # "off"
    BY <1>4 DEF Hit, Kinds
  <2>2. at'[p] = at[p]
    BY <1>1, <2>1
  <2>3. Hit(p, k)
    BY <1>4, <2>2 DEF Hit, Kinds
  <2> QED BY <1>2, <2>1, <2>3
<1>5. overlooked' \subseteq NoDline /\ ("K" \notin kinds => overlooked' = overlooked)
  BY DEF Expel, People
<1> QED BY <1>3, <1>4, <1>5

(* After check_banned_lines whoever is hit by one of the kinds has been    *)
(* passed over, and what hits him is a K-line.                             *)
LEMMA BannedLinesChecked ==
    ASSUME NEW kinds \in SUBSET Kinds, People, CheckBannedLines(kinds)
    PROVE  /\ at' \in [Person -> {"off", "unknown", "person"}]
           /\ overlooked' \subseteq NoDline
           /\ \A p \in Person, k \in kinds : Hit(p, k)' => k = "K" /\ p \in overlooked'
<1>1. at' \in [Person -> {"off", "unknown", "person"}] /\ overlooked' \subseteq NoDline
  BY DEF CheckBannedLines, People
<1>2. ASSUME NEW p \in Person, NEW k \in kinds, Hit(p, k)'
      PROVE  k = "K" /\ p \in overlooked'
  <2>1. k \in Kinds /\ at'[p] # "off"
    BY <1>2 DEF Hit, Kinds
  <2>2. at'[p] = at[p] /\ (p \notin NoDline => ~Hit(p, k))
    BY <2>1 DEF CheckBannedLines
  <2>3. Hit(p, k)
    BY <1>2, <2>1, <2>2 DEF Hit, Kinds
  <2>4. p \in NoDline /\ k = "K"
    BY <2>1, <2>2, <2>3 DEF Hit, Kinds
  <2> QED BY <2>3, <2>4 DEF CheckBannedLines
<1> QED BY <1>1, <1>2

(* A new line of kind k, in whatever way it comes into the table.          *)
LEMMA NewLine ==
    ASSUME Inductive, NEW k \in Kinds, CheckLines(k),
           InTable' = InTable \union {k}, UNCHANGED delay, UNCHANGED redundant
    PROVE  /\ People' /\ check' \in -1..Delay
           /\ NobodyStays'
<1>1. CASE k = "K" /\ delay > 0
  <2>1. /\ at' = at /\ overlooked' = overlooked
        /\ check' = (IF check = -1 THEN delay ELSE check)
    BY <1>1 DEF CheckLines, people
  <2>2. check' \in 0..Delay
    BY <1>1, <2>1, TempBansAssumption DEF Inductive, Times
  <2>3. \A p \in Person, j \in Kinds : Hit(p, j)' <=> Hit(p, j)
    BY <2>1 DEF Hit
  <2>4. NobodyStays'
    BY <1>1, <2>2, <2>3 DEF Inductive, NobodyStays
  <2> QED BY <2>1, <2>2, <2>4, TempBansAssumption DEF Inductive, People
<1>2. CASE ~(k = "K" /\ delay > 0)
  <2>1. Expel({k}) /\ check' = check
    BY <1>2 DEF CheckLines
  <2>2. /\ at' \in [Person -> {"off", "unknown", "person"}]
        /\ overlooked' \subseteq NoDline /\ (k # "K" => overlooked' = overlooked)
        /\ \A p \in Person, j \in Kinds : Hit(p, j)' => Hit(p, j) /\ j # k
    BY <2>1, Expelled DEF Inductive
  <2>3. NobodyStays'
    BY <2>1, <2>2 DEF Inductive, NobodyStays
  <2> QED BY <2>1, <2>2, <2>3 DEF Inductive, People, Times
<1> QED BY <1>1, <1>2

-----------------------------------------------------------------------------
LEMMA AddTempKeeps ==
    ASSUME Inductive, NEW k \in Kinds, NEW i \in Line, NEW hold \in Holds, AddTemp(k, i, hold)
    PROVE  Inductive'
<1> DEFINE L == LevelOf(hold)
<1>1. hold \in Nat /\ L \in Lists /\ From[L] <= hold
  BY Level, TempBansAssumption
<1>2. /\ lines' = lines \union {i} /\ table' = table \union {i} /\ i \notin lines
      /\ kind' = [kind EXCEPT ![i] = k] /\ left' = [left EXCEPT ![i] = hold]
      /\ lists' = [lists EXCEPT ![L] = @ \union {i}]
      /\ CheckLines(k)
      /\ UNCHANGED << perm, file, due, delay, redundant >>
  BY DEF AddTemp, conf
<1> HIDE DEF L
<1>3. Bans'
  BY <1>1, <1>2 DEF Inductive, Bans
<1>4. ListsMatchTable'
  <2>1. \A l \in Lists : lists'[l] = IF l = L THEN lists[l] \union {i} ELSE lists[l]
    BY <1>1, <1>2 DEF Inductive, Bans
  <2>2. table' = lines' /\ (UNION {lists'[l] : l \in Lists}) = lines'
    BY <1>1, <1>2, <2>1 DEF Inductive, ListsMatchTable
  <2>3. \A l, m \in Lists : l # m => lists'[l] \intersect lists'[m] = {}
    BY <1>2, <2>1 DEF Inductive, ListsMatchTable
  <2> QED BY <2>2, <2>3 DEF ListsMatchTable
<1>5. Timely'
  <2> SUFFICES ASSUME NEW l \in Lists
               PROVE  /\ due[l] <= Period[l]
                      /\ \A j \in lists'[l] : left'[j] - due[l] >= From[l] - Period[l]
    BY <1>2 DEF Timely
  <2>1. due[l] <= Period[l] /\ due[l] \in Nat /\ From[l] \in Nat /\ Period[l] \in Nat
    BY Scale DEF Inductive, Timely, Times
  <2>2. ASSUME NEW j \in lists'[l] PROVE left'[j] - due[l] >= From[l] - Period[l]
    <3>1. CASE j = i
      <4>1. i \notin lists[l]
        BY <1>2 DEF Inductive, ListsMatchTable
      <4>2. l = L
        BY <1>1, <1>2, <2>2, <3>1, <4>1 DEF Inductive, Bans
      <4>3. left'[j] = hold
        BY <1>2, <3>1 DEF Inductive, Bans
      <4> QED BY <1>1, <2>1, <4>2, <4>3
    <3>2. CASE j # i
      <4>1. j \in lists[l] /\ j \in Line
        BY <1>1, <1>2, <2>2, <3>2 DEF Inductive, Bans
      <4>2. left'[j] = left[j]
        BY <1>2, <3>2, <4>1 DEF Inductive, Bans
      <4> QED BY <4>1, <4>2 DEF Inductive, Timely
    <3> QED BY <3>1, <3>2
  <2> QED BY <2>1, <2>2
<1>6. InTable' = InTable \union {k}
  <2>1. \A j \in table : j # i /\ j \in Line
    BY <1>2 DEF Inductive, ListsMatchTable, Bans
  <2>2. kind'[i] = k /\ \A j \in table : kind'[j] = kind[j]
    BY <1>2, <2>1 DEF Inductive, Bans
  <2> QED BY <1>2, <2>2 DEF InTable
<1>7. People' /\ check' \in -1..Delay /\ NobodyStays'
  BY <1>2, <1>6, NewLine
<1>8. Times'
  BY <1>2, <1>7 DEF Inductive, Times
<1> QED BY <1>3, <1>4, <1>5, <1>7, <1>8 DEF Inductive

LEMMA AddPermKeeps ==
    ASSUME Inductive, NEW k \in Kinds, NEW written \in BOOLEAN, AddPerm(k, written)
    PROVE  Inductive'
<1>1. /\ perm' = perm \union {k} /\ file' \subseteq file \union {k} /\ CheckLines(k)
      /\ UNCHANGED << lines, kind, left, lists, table, due, delay, redundant >>
  BY DEF AddPerm, conf
<1>2. Bans' /\ ListsMatchTable' /\ Timely'
  BY <1>1 DEF Inductive, Bans, ListsMatchTable, Timely
<1>3. InTable' = InTable \union {k}
  BY <1>1 DEF InTable
<1>4. People' /\ check' \in -1..Delay /\ NobodyStays'
  BY <1>1, <1>3, NewLine
<1>5. Times'
  BY <1>1, <1>4 DEF Inductive, Times
<1> QED BY <1>2, <1>4, <1>5 DEF Inductive

(* Lines that are freed leave the table, and the others stay as they are.  *)
LEMMA Freed ==
    ASSUME Inductive, NEW gone \in SUBSET Line, Free(gone), perm' = perm
    PROVE  /\ lines' = lines \ gone /\ table' = table \ gone
           /\ kind' \in [Line -> Kinds] /\ left' \in [Line -> Int]
           /\ \A i \in Line \ gone : left'[i] = left[i]
           /\ InTable' \subseteq InTable
<1>1. /\ lines' = lines \ gone /\ table' = table \ gone
      /\ left' = [i \in Line |-> IF i \in gone THEN 0 ELSE left[i]]
      /\ kind' = [i \in Line |-> IF i \in gone THEN "K" ELSE kind[i]]
  BY DEF Free
<1>2. \A i \in table \ gone : kind'[i] = kind[i]
  BY <1>1 DEF Inductive, Bans
<1>3. InTable' \subseteq InTable
  BY <1>1, <1>2 DEF InTable
<1>4. kind' \in [Line -> Kinds] /\ left' \in [Line -> Int]
  BY <1>1 DEF Inductive, Bans, Kinds
<1> QED BY <1>1, <1>3, <1>4

LEMMA RemoveTempKeeps ==
    ASSUME Inductive, NEW k \in Kinds, NEW i \in Line, RemoveTemp(k, i)
    PROVE  Inductive'
<1>1. PICK l \in Lists : i \in lists[l] /\ lists' = [lists EXCEPT ![l] = @ \ {i}]
  BY DEF RemoveTemp
<1>2. Free({i}) /\ UNCHANGED << perm, file, due, check, delay, redundant, at, overlooked >>
  BY DEF RemoveTemp, conf, people
<1>3. /\ lines' = lines \ {i} /\ table' = table \ {i}
      /\ kind' \in [Line -> Kinds] /\ left' \in [Line -> Int]
      /\ \A j \in Line \ {i} : left'[j] = left[j]
      /\ InTable' \subseteq InTable
  BY <1>2, Freed
<1>4. \A m \in Lists : lists'[m] = lists[m] \ {i}
  BY <1>1 DEF Inductive, Bans, ListsMatchTable
<1>5. Bans'
  BY <1>1, <1>2, <1>3 DEF Inductive, Bans
<1>6. ListsMatchTable'
  BY <1>3, <1>4 DEF Inductive, ListsMatchTable
<1>7. Timely'
  <2>1. \A m \in Lists : \A j \in lists'[m] : left'[j] = left[j]
    BY <1>3, <1>4 DEF Inductive, Bans
  <2> QED BY <1>2, <1>4, <1>5, <2>1, StaysTimely
<1>8. NobodyStays'
  BY <1>2, <1>3, StaysEmpty DEF Hit
<1> QED BY <1>2, <1>5, <1>6, <1>7, <1>8 DEF Inductive, Times, People

LEMMA ClearTempsKeeps ==
    ASSUME Inductive, NEW k \in Kinds, ClearTemps(k)
    PROVE  Inductive'
<1> DEFINE gone == {i \in UNION {lists[l] : l \in Lists} : kind[i] = k}
<1>1. /\ lists' = [l \in Lists |-> lists[l] \ gone]
      /\ Free(gone)
      /\ UNCHANGED << perm, file, due, check, delay, redundant, at, overlooked >>
  BY DEF ClearTemps, conf, people
<1>2. gone \subseteq Line
  BY DEF Inductive, Bans
<1> HIDE DEF gone
<1>3. /\ lines' = lines \ gone /\ table' = table \ gone
      /\ kind' \in [Line -> Kinds] /\ left' \in [Line -> Int]
      /\ \A j \in Line \ gone : left'[j] = left[j]
      /\ InTable' \subseteq InTable
  BY <1>1, <1>2, Freed
<1>4. \A m \in Lists : lists'[m] = lists[m] \ gone
  BY <1>1
<1>5. Bans'
  BY <1>1, <1>3 DEF Inductive, Bans
<1>6. ListsMatchTable'
  BY <1>3, <1>4 DEF Inductive, ListsMatchTable
<1>7. Timely'
  <2>1. \A m \in Lists : \A j \in lists'[m] : left'[j] = left[j]
    BY <1>3, <1>4 DEF Inductive, Bans
  <2> QED BY <1>1, <1>4, <1>5, <2>1, StaysTimely
<1>8. NobodyStays'
  BY <1>1, <1>3, StaysEmpty DEF Hit
<1> QED BY <1>1, <1>5, <1>6, <1>7, <1>8 DEF Inductive, Times, People

(* An event frees lines that are over and moves others, which are not.     *)
LEMMA ExpireKeeps ==
    ASSUME Inductive, NEW l \in Lists, Expire(l)
    PROVE  Inductive'
<1> DEFINE gone == {i \in lists[l] : left[i] <= 0}
           down == {i \in lists[l] \ gone : left[i] < From[l]}
<1>1. /\ due' = [due EXCEPT ![l] = Period[l]]
      /\ lists' = [m \in Lists |->
             IF m = l THEN lists[l] \ (gone \union down)
             ELSE lists[m] \union {i \in down : LevelOf(left[i]) = m}]
      /\ Free(gone)
      /\ UNCHANGED << perm, file, check, delay, redundant, at, overlooked >>
  BY DEF Expire, conf, people
<1>2. gone \subseteq Line /\ down \subseteq lists[l] \ gone /\ lists[l] \subseteq Line
  BY DEF Inductive, Bans
<1>3. ASSUME NEW i \in down
      PROVE  /\ LevelOf(left[i]) \in Lists /\ From[LevelOf(left[i])] <= left[i]
             /\ LevelOf(left[i]) # l
  <2>1. left[i] \in Nat /\ left[i] < From[l]
    BY <1>2 DEF Inductive, Bans
  <2>2. LevelOf(left[i]) \in Lists /\ From[LevelOf(left[i])] <= left[i]
    BY <2>1, Level
  <2> HIDE DEF down
  <2> QED BY <2>1, <2>2, Scale
<1>4. /\ lines' = lines \ gone /\ table' = table \ gone
      /\ kind' \in [Line -> Kinds] /\ left' \in [Line -> Int]
      /\ \A j \in Line \ gone : left'[j] = left[j]
      /\ InTable' \subseteq InTable
  <2> HIDE DEF gone
  <2> QED BY <1>1, <1>2, Freed
<1>5. Bans'
  <2>1. lists' \in [Lists -> SUBSET Line]
    BY <1>1, <1>2 DEF Inductive, Bans
  <2> HIDE DEF gone, down
  <2> QED BY <1>1, <1>4, <2>1 DEF Inductive, Bans
<1>6. ListsMatchTable'
  <2> HIDE DEF gone, down
  <2>1. \A i \in gone : i \in lists[l]
    BY DEF gone
  <2>2. \A m \in Lists, i \in gone : i \notin lists'[m]
    BY <1>1, <1>2, <2>1 DEF Inductive, ListsMatchTable
  <2>3. table' = lines'
    BY <1>4 DEF Inductive, ListsMatchTable
  <2>4. \A m \in Lists : \A i \in lists'[m] : i \in lines'
    BY <1>1, <1>2, <1>4, <2>2 DEF Inductive, ListsMatchTable
  <2>5. ASSUME NEW i \in lines' PROVE \E m \in Lists : i \in lists'[m]
    <3>1. i \in lines /\ i \notin gone
      BY <1>4
    <3>2. PICK m \in Lists : i \in lists[m]
      BY <3>1 DEF Inductive, ListsMatchTable
    <3>3. CASE i \in down
      BY <1>1, <1>3, <3>3
    <3>4. CASE i \notin down
      BY <1>1, <3>1, <3>2, <3>4
    <3> QED BY <3>3, <3>4
  <2>6. ASSUME NEW m \in Lists, NEW n \in Lists, m # n, NEW i, i \in lists'[m], i \in lists'[n]
        PROVE  FALSE
    <3>1. CASE i \in down
      <4>1. \A o \in Lists : i \in lists'[o] => o = LevelOf(left[i])
        BY <1>1, <1>2, <3>1 DEF Inductive, ListsMatchTable
      <4> QED BY <2>6, <4>1
    <3>2. CASE i \notin down
      BY <1>1, <2>6, <3>2 DEF Inductive, ListsMatchTable
    <3> QED BY <3>1, <3>2
  <2>7. (UNION {lists'[m] : m \in Lists}) = lines'
    BY <2>4, <2>5
  <2>8. \A m, n \in Lists : m # n => lists'[m] \intersect lists'[n] = {}
    BY <2>6
  <2> QED BY <2>3, <2>7, <2>8 DEF ListsMatchTable
<1>7. Timely'
  <2> SUFFICES ASSUME NEW m \in Lists
               PROVE  /\ due'[m] <= Period[m]
                      /\ \A i \in lists'[m] : left'[i] - due'[m] >= From[m] - Period[m]
    BY DEF Timely
  <2>1. /\ due'[m] = IF m = l THEN Period[l] ELSE due[m]
        /\ due[m] \in Nat /\ due[m] <= Period[m] /\ From[m] \in Nat /\ Period[m] \in Nat
    BY <1>1, Scale DEF Inductive, Times, Timely
  <2>2. ASSUME NEW i \in lists'[m]
        PROVE  left'[i] - due'[m] >= From[m] - Period[m]
    <3>1. i \in Line \ gone
      BY <1>1, <1>2, <2>2 DEF Inductive, Bans, ListsMatchTable
    <3>2. left'[i] = left[i] /\ left[i] \in Int
      BY <1>4, <3>1 DEF Inductive, Bans
    <3>3. CASE m = l
      <4>1. left[i] >= From[l]
        BY <1>1, <2>1, <2>2, <3>2, <3>3
      <4> QED BY <2>1, <3>2, <3>3, <4>1
    <3>4. CASE m # l /\ i \in lists[m]
      BY <2>1, <3>2, <3>4 DEF Inductive, Timely
    <3>5. CASE m # l /\ i \notin lists[m]
      <4>1. i \in down /\ LevelOf(left[i]) = m
        BY <1>1, <2>2, <3>5
      <4>2. From[m] <= left[i]
        BY <1>3, <4>1
      <4> QED BY <2>1, <3>2, <3>5, <4>2
    <3> QED BY <3>3, <3>4, <3>5
  <2>3. due'[m] <= Period[m]
    BY <2>1
  <2> QED BY <2>2, <2>3
<1>8. NobodyStays'
  <2> HIDE DEF gone, down
  <2> QED BY <1>1, <1>4, StaysEmpty DEF Hit
<1>9. Times' /\ People'
  BY <1>1, Scale DEF Inductive, Times, People
<1> QED BY <1>5, <1>6, <1>7, <1>8, <1>9 DEF Inductive

-----------------------------------------------------------------------------
(* Whatever throws out those that lines in the table hit, and leaves what  *)
(* is not permanent alone: a rehash, one that is aborted, the queued check.*)
LEMMA CheckedKeeps ==
    ASSUME Inductive,
           UNCHANGED << lines, kind, left, lists, table, due >>,
           perm' \subseteq Kinds, file' \subseteq Kinds,
           delay' \in {0, Delay}, redundant' \in BOOLEAN, check' \in {check, -1},
           at' \in [Person -> {"off", "unknown", "person"}], overlooked' \subseteq NoDline,
           NobodyStays'
    PROVE  Inductive'
<1>1. Bans' /\ ListsMatchTable' /\ Timely'
  BY DEF Inductive, Bans, ListsMatchTable, Timely
<1>2. Times' /\ People'
  BY TempBansAssumption DEF Inductive, Times, People
<1> QED BY <1>1, <1>2 DEF Inductive

LEMMA ReloadKeeps ==
    ASSUME Inductive, NEW contents \in SUBSET Kinds, NEW readable \in SUBSET Kinds,
           Reload(contents, readable)
    PROVE  Inductive'
<1> DEFINE kinds == (contents \intersect readable) \union {kind[i] : i \in table}
<1>1. /\ perm' = contents \intersect readable /\ file' = contents
      /\ delay' \in {0, Delay} /\ redundant' \in BOOLEAN
      /\ UNCHANGED << lines, kind, left, lists, table, due, check >>
      /\ CheckBannedLines(kinds)
  BY DEF Reload
<1>2. InTable' = kinds
  BY <1>1 DEF InTable
<1>3. kinds \subseteq Kinds
  BY DEF Inductive, Bans
<1> HIDE DEF kinds
<1>4. /\ at' \in [Person -> {"off", "unknown", "person"}] /\ overlooked' \subseteq NoDline
      /\ \A p \in Person, k \in kinds : Hit(p, k)' => k = "K" /\ p \in overlooked'
  BY <1>1, <1>3, BannedLinesChecked DEF Inductive
<1>5. NobodyStays'
  BY <1>2, <1>4 DEF NobodyStays
<1> QED BY <1>1, <1>4, <1>5, CheckedKeeps

LEMMA ChecksKeep ==
    ASSUME Inductive, RehashAborted \/ CheckKlinesEvent
    PROVE  Inductive'
<1>1. InTable \subseteq Kinds
  BY DEF Inductive, Bans, InTable
<1>2. UNCHANGED << lines, kind, left, lists, table, perm, file, due, delay, redundant >>
  BY DEF RehashAborted, CheckKlinesEvent, bans, conf
<1>3. InTable' = InTable
  BY <1>2 DEF InTable
<1>4. /\ perm' \subseteq Kinds /\ file' \subseteq Kinds
      /\ delay' \in {0, Delay} /\ redundant' \in BOOLEAN
  BY <1>2 DEF Inductive, Bans, Times, People
<1>5. CASE RehashAborted
  <2>1. CheckBannedLines(InTable) /\ check' = check
    BY <1>5 DEF RehashAborted
  <2>2. /\ at' \in [Person -> {"off", "unknown", "person"}] /\ overlooked' \subseteq NoDline
        /\ \A p \in Person, k \in InTable : Hit(p, k)' => k = "K" /\ p \in overlooked'
    BY <1>1, <2>1, BannedLinesChecked DEF Inductive
  <2>3. NobodyStays'
    BY <1>3, <2>2 DEF NobodyStays
  <2> QED BY <1>2, <1>4, <2>1, <2>2, <2>3, CheckedKeeps
<1>6. CASE CheckKlinesEvent
  <2>1. Expel(InTable \intersect {"K"}) /\ check' = -1
    BY <1>6 DEF CheckKlinesEvent
  <2> DEFINE kinds == InTable \intersect {"K"}
  <2>2. /\ at' \in [Person -> {"off", "unknown", "person"}] /\ overlooked' \subseteq NoDline
        /\ \A p \in Person, k \in Kinds : Hit(p, k)' => Hit(p, k) /\ k \notin kinds
    <3>1. kinds \in SUBSET Kinds /\ Expel(kinds) /\ People
      BY <1>1, <2>1 DEF Inductive
    <3> HIDE DEF kinds
    <3> QED BY <3>1, Expelled
  <2>3. NobodyStays'
    <3> SUFFICES ASSUME NEW p \in Person, NEW k \in Kinds, k \in InTable, Hit(p, k)'
                 PROVE  FALSE
      BY <1>3 DEF NobodyStays
    <3>1. Hit(p, k) /\ k # "K"
      BY <2>2
    <3> QED BY <3>1 DEF Inductive, NobodyStays
  <2> QED BY <1>2, <1>4, <2>1, <2>2, <2>3, CheckedKeeps
<1> QED BY <1>5, <1>6

LEMMA TickKeeps ==
    ASSUME Inductive, Tick
    PROVE  Inductive'
<1>1. /\ due' = [l \in Lists |-> due[l] - 1]
      /\ left' = [i \in Line |-> IF i \in lines THEN left[i] - 1 ELSE left[i]]
      /\ UNCHANGED << lines, kind, lists, table, perm, file, delay, redundant, at, overlooked >>
      /\ \A l \in Lists : due[l] > 0
  BY DEF Tick, conf, people
<1>2. Bans'
  BY <1>1 DEF Inductive, Bans
<1>3. check' \in -1..Delay /\ (check >= 0 => check' >= 0)
  BY TempBansAssumption DEF Tick, Inductive, Times
<1>4. Times' /\ People'
  BY <1>1, <1>3 DEF Inductive, Times, People
<1>5. ListsMatchTable'
  BY <1>1 DEF Inductive, ListsMatchTable
<1>6. Timely'
  <2> SUFFICES ASSUME NEW l \in Lists
               PROVE  /\ due'[l] <= Period[l]
                      /\ \A i \in lists'[l] : left'[i] - due'[l] >= From[l] - Period[l]
    BY DEF Timely
  <2>1. /\ due'[l] = due[l] - 1 /\ due[l] \in Nat
        /\ due[l] <= Period[l] /\ From[l] \in Nat /\ Period[l] \in Nat
    BY <1>1, Scale DEF Inductive, Times, Timely
  <2>2. ASSUME NEW i \in lists'[l] PROVE left'[i] - due'[l] >= From[l] - Period[l]
    <3>1. i \in lines /\ i \in Line /\ i \in lists[l]
      BY <1>1 DEF Inductive, ListsMatchTable, Bans
    <3>2. left'[i] = left[i] - 1 /\ left[i] \in Int
      BY <1>1, <3>1 DEF Inductive, Bans
    <3>3. left[i] - due[l] >= From[l] - Period[l]
      BY <3>1 DEF Inductive, Timely
    <3> QED BY <2>1, <3>2, <3>3
  <2> QED BY <2>1, <2>2
<1>7. NobodyStays'
  <2>1. InTable' = InTable /\ \A p \in Person, k \in Kinds : Hit(p, k)' <=> Hit(p, k)
    BY <1>1 DEF InTable, Hit
  <2> QED BY <1>1, <1>3, <2>1 DEF Inductive, NobodyStays
<1> QED BY <1>2, <1>4, <1>5, <1>6, <1>7 DEF Inductive

(* Clients that come, register and go.                                     *)
LEMMA PeopleKeep ==
    ASSUME Inductive, NEW p \in Person, Connect(p) \/ Register(p) \/ Exit(p)
    PROVE  Inductive'
<1>1. /\ UNCHANGED << lines, kind, left, lists, table, perm, file, due, check, delay, redundant >>
      /\ InTable' = InTable
  BY DEF Connect, Register, Exit, bans, conf, InTable
<1>2. /\ at' \in [Person -> {"off", "unknown", "person"}]
      /\ overlooked' \subseteq overlooked /\ overlooked \ {p} \subseteq overlooked'
  BY DEF Connect, Register, Exit, Inductive, People
<1>3. Bans' /\ ListsMatchTable' /\ Timely' /\ Times' /\ People'
  BY <1>1, <1>2 DEF Inductive, Bans, ListsMatchTable, Timely, Times, People
<1>4. \A q \in Person, k \in InTable : Hit(q, k)' /\ k \in Kinds => Hit(q, k)
  <2> SUFFICES ASSUME NEW q \in Person, NEW k \in InTable, Hit(q, k)', k \in Kinds
               PROVE  Hit(q, k)
    OBVIOUS
  <2>1. CASE q # p
    <3>1. at'[q] = at[q]
      BY <2>1 DEF Connect, Register, Exit, Inductive, People
    <3> QED BY <3>1 DEF Hit
  <2>2. CASE q = p /\ Connect(p)
    <3>1. at'[p] = "unknown" /\ (p \in NoDline \/ "D" \notin InTable)
      BY <2>2 DEF Connect, Inductive, People
    <3> QED BY <2>2, <3>1 DEF Hit, Kinds
  <2>3. CASE q = p /\ Register(p)
    <3>1. /\ at[p] = "unknown"
          /\ at'[p] = IF p \notin NoKline /\ "K" \in InTable THEN "off" ELSE "person"
      BY <2>3 DEF Register, Inductive, People
    <3> QED BY <2>3, <3>1 DEF Hit, Kinds
  <2>4. CASE q = p /\ Exit(p)
    <3>1. at'[p] = "off"
      BY <2>4 DEF Exit, Inductive, People
    <3> QED BY <2>4, <3>1 DEF Hit, Kinds
  <2> QED BY <2>1, <2>2, <2>3, <2>4
<1>5. ASSUME NEW q \in Person, NEW k \in InTable, Hit(q, k)', k \in Kinds, q \in overlooked
      PROVE  q \in overlooked'
  <2>1. CASE q = p /\ Exit(p)
    BY <1>5, <2>1 DEF Exit, Inductive, People, Hit, Kinds
  <2>2. CASE ~(q = p /\ Exit(p))
    BY <1>2, <1>5, <2>2 DEF Connect, Register
  <2> QED BY <2>1, <2>2
<1>6. NobodyStays'
  BY <1>1, <1>4, <1>5 DEF Inductive, NobodyStays
<1> QED BY <1>3, <1>6 DEF Inductive

-----------------------------------------------------------------------------
LEMMA InitHolds == Init => Inductive
<1> SUFFICES ASSUME Init PROVE Inductive
  OBVIOUS
<1>1. Bans /\ ListsMatchTable
  BY DEF Init, Bans, ListsMatchTable, Kinds
<1>2. Times
  BY Scale, TempBansAssumption DEF Init, Times
<1>3. People /\ NobodyStays
  BY DEF Init, People, NobodyStays, Hit, Kinds
<1>4. Timely
  BY Scale DEF Init, Timely
<1> QED BY <1>1, <1>2, <1>3, <1>4 DEF Inductive

(* Nothing but the file changes, if anything.                              *)
LEMMA FileKeeps ==
    ASSUME Inductive, file' \subseteq Kinds,
           UNCHANGED << lines, kind, left, lists, table, perm, due, check, delay, redundant, at, overlooked >>
    PROVE  Inductive'
<1>1. Bans'
  BY DEF Inductive, Bans
<1>2. Times'
  BY DEF Inductive, Times
<1>3. People'
  BY DEF Inductive, People
<1>4. ListsMatchTable' /\ Timely'
  BY DEF Inductive, ListsMatchTable, Timely
<1>5. NobodyStays'
  <2>1. InTable' = InTable
    BY DEF InTable
  <2>2. \A p \in Person, k \in Kinds : Hit(p, k)' <=> Hit(p, k)
    BY DEF Hit
  <2> QED BY <2>1, <2>2 DEF Inductive, NobodyStays
<1> QED BY <1>1, <1>2, <1>3, <1>4, <1>5 DEF Inductive

LEMMA NextKeeps == Inductive /\ [Next]_vars => Inductive'
<1> SUFFICES ASSUME Inductive, [Next]_vars PROVE Inductive'
  OBVIOUS
<1>1. ASSUME NEW k \in Kinds, NEW i \in Line, NEW hold \in Holds, AddTemp(k, i, hold)
      PROVE  Inductive'
  BY <1>1, AddTempKeeps
<1>2. ASSUME NEW k \in Kinds, NEW written \in BOOLEAN, AddPerm(k, written)
      PROVE  Inductive'
  BY <1>2, AddPermKeeps
<1>3. ASSUME NEW k \in Kinds, NEW i \in Line, RemoveTemp(k, i)
      PROVE  Inductive'
  BY <1>3, RemoveTempKeeps
<1>4. ASSUME NEW k \in Kinds, RemovePerm(k)
      PROVE  Inductive'
  <2>1. file \ {k} \in SUBSET Kinds /\ Reload(file \ {k}, Kinds)
    BY <1>4 DEF RemovePerm, Inductive, Bans
  <2> QED BY <2>1, ReloadKeeps
<1>5. ASSUME NEW readable \in SUBSET Kinds, Rehash(readable)
      PROVE  Inductive'
  BY <1>5, ReloadKeeps DEF Rehash, Inductive, Bans
<1>6. ASSUME NEW contents \in SUBSET Kinds, Edit(contents)
      PROVE  Inductive'
  BY <1>6, FileKeeps DEF Edit, conf, people
<1>7. ASSUME NEW l \in Lists, Expire(l)
      PROVE  Inductive'
  BY <1>7, ExpireKeeps
<1>8. CASE RehashAborted \/ CheckKlinesEvent
  BY <1>8, ChecksKeep
<1>9. CASE Tick
  BY <1>9, TickKeeps
<1>10. ASSUME NEW p \in Person, Connect(p) \/ Register(p) \/ Exit(p)
       PROVE  Inductive'
  BY <1>10, PeopleKeep
<1>11. CASE UNCHANGED vars
  <2>1. file' \subseteq Kinds
    BY <1>11 DEF vars, bans, Inductive, Bans
  <2> QED BY <1>11, <2>1, FileKeeps DEF vars, bans, conf, people
<1>12. ASSUME NEW k \in Kinds, ClearTemps(k)
       PROVE  Inductive'
  BY <1>12, ClearTempsKeeps
<1> QED
  BY <1>1, <1>2, <1>3, <1>4, <1>5, <1>6, <1>7, <1>8, <1>9, <1>10, <1>11, <1>12 DEF Next

(* The invariants hold in every reachable state, for any time lists and    *)
(* periods the assumption admits.                                          *)
THEOREM InductiveHolds == Spec => []Inductive
BY InitHolds, NextKeeps, PTL DEF Spec

(* Every variable of the ban lists keeps its type (src/s_conf.c).          *)
THEOREM TypesHold == Spec => []TypeOK
<1>1. Inductive => TypeOK
  BY TypeParts DEF Inductive
<1> QED BY <1>1, InductiveHolds, PTL

(* A temporary line is on one list as long as it is in the table           *)
(* (expire_tkline, remove_temp_kline).                                     *)
THEOREM ListsAlwaysMatch == Spec => []ListsMatchTable
<1>1. Inductive => ListsMatchTable
  BY DEF Inductive
<1> QED BY <1>1, InductiveHolds, PTL

(* A client that a line hits is out or is about to be, or is in an exempt  *)
(* block and a rehash passed it over (check_klines, check_dlines, check_   *)
(* banned_lines).                                                          *)
THEOREM NobodyEverStays == Spec => []NobodyStays
<1>1. Inductive => NobodyStays
  BY DEF Inductive
<1> QED BY <1>1, InductiveHolds, PTL

(* A temporary line ends in time, whatever lists it has gone through       *)
(* (cleanup_temps_min and its like).                                       *)
THEOREM ExpireInTime == Spec => []ExpiresInTime
<1>1. Inductive => ExpiresInTime
  <2> SUFFICES ASSUME Inductive, NEW l \in Lists, NEW i \in lists[l]
               PROVE  left[i] >= From[l] - Period[l]
    BY DEF ExpiresInTime
  <2>1. left[i] - due[l] >= From[l] - Period[l] /\ due[l] \in Nat
    BY DEF Inductive, Timely, Times
  <2>2. left[i] \in Int /\ From[l] \in Nat /\ Period[l] \in Nat
    BY Scale DEF Inductive, Bans
  <2> QED BY <2>1, <2>2
<1> QED BY <1>1, InductiveHolds, PTL
=============================================================================
