---------------------------- MODULE FloodControl ----------------------------
(***************************************************************************)
(* How fast the lines of one local connection are parsed (src/packet.c).   *)
(* read_packet queues what it reads and parses what it may; what is left   *)
(* waits for flood_recalc, which a flush timer runs and which sets that    *)
(* timer again.  Only a connection that came in gets the timer, from       *)
(* release_auth_client; one to another server has none, and depends on its *)
(* next read, which the PINGs of check_pings are to bring about.           *)
(*                                                                         *)
(* A line is what parsing it does: the queue is a number of lines and the  *)
(* choice is made when a line is taken from it.  Only the empty ones are   *)
(* known by their place.  When a ping or a connection times out is a       *)
(* choice too.                                                             *)
(***************************************************************************)
EXTENDS Integers

CONSTANTS
    MAX_FLOOD, MAX_FLOOD_BURST,
    OperFactor,     \* how much more an operator may send, 4 in the code
    ClientFlood,    \* client_flood
    RecvMax         \* bound: lines in the queue when read_packet has added its own

ASSUME FloodAssumption ==
    /\ MAX_FLOOD \in Nat \ {0} /\ MAX_FLOOD_BURST \in Nat
    /\ MAX_FLOOD < MAX_FLOOD_BURST
    /\ OperFactor \in Nat \ {0} /\ ClientFlood \in Nat /\ RecvMax \in Nat

VARIABLES
    status,     \* "auth" until it is released, then client_p->status
    outgoing,   \* this server made the connection
    dead,       \* FLAGS_DEADSOCKET
    exempt, oper, done,    \* FLAGS2_EXEMPTFLOOD, UMODE_OPER, FLAGS2_FLOODDONE
    no_oper_flood,
    allow_read, sent_parsed,
    pinged,     \* FLAGS_PINGSENT
    queue,      \* complete lines in buf_recvq
    blanks,     \* the places in the queue of the lines of length 0
    flush,      \* seconds until the flush timer fires, -1 when it is not set
    handler,    \* who called parse_client_queued, "none" outside it
    branch,     \* the loop it is in
    i, checkflood,   \* its variables
    mine,       \* history: the place in the queue of a line we look at, or 0
    bucket,     \* history: lines parsed since the grace period that the
                \* seconds since have not paid for
    opered      \* history: it was an operator in that time

flags  == << exempt, oper, done >>
rate   == << allow_read, sent_parsed >>
parser == << handler, branch, i, checkflood >>
recvq  == << queue, blanks, mine >>
vars   == << status, outgoing, dead, flags, no_oper_flood, rate, pinged, recvq, flush,
             parser, bucket, opered >>

TypeOK ==
    /\ status \in {"auth", "unknown", "handshake", "server", "client"}
    /\ outgoing \in BOOLEAN /\ dead \in BOOLEAN
    /\ exempt \in BOOLEAN /\ oper \in BOOLEAN /\ done \in BOOLEAN
    /\ no_oper_flood \in BOOLEAN /\ pinged \in BOOLEAN
    /\ allow_read \in {0, MAX_FLOOD, MAX_FLOOD_BURST}
    /\ sent_parsed \in 0..OperFactor * allow_read
    /\ queue \in Nat /\ blanks \subseteq 1..queue /\ flush \in -1..2
    /\ handler \in {"none", "read", "recalc"}
    /\ branch \in {"unknown", "all", "limited", "end"}
    /\ i \in 0..MAX_FLOOD /\ checkflood \in BOOLEAN
    /\ mine \in 0..queue /\ bucket \in Nat /\ opered \in BOOLEAN

Init ==
    /\ outgoing \in BOOLEAN
    /\ status = IF outgoing THEN "handshake" ELSE "auth"
    /\ dead = FALSE /\ exempt = FALSE /\ oper = FALSE /\ done = FALSE
    /\ no_oper_flood \in BOOLEAN
    /\ allow_read = 0 /\ sent_parsed = 0 /\ flush = -1
    /\ pinged = FALSE /\ queue = 0 /\ blanks = {}
    /\ handler = "none" /\ branch = "end" /\ i = 0 /\ checkflood = TRUE
    /\ mine = 0 /\ bucket = 0 /\ opered = FALSE

-----------------------------------------------------------------------------
(* The loop parse_client_queued runs for one who is no longer unknown.     *)
Served(st, ex) ==
    CASE st \in {"handshake", "server"} \/ ex -> "all"
      [] st = "client" /\ ~ex -> "limited"
      [] OTHER -> "end"

(* It is called by h; and it returns.                                      *)
Parse(h, st) ==
    /\ handler' = h /\ i' = 0
    /\ branch' = IF st = "unknown" THEN "unknown" ELSE Served(st, exempt)
    /\ checkflood' = ~(oper /\ no_oper_flood)

Return == handler' = "none" /\ i' = 0 /\ branch' = "end" /\ checkflood' = TRUE

(* linebuf_parse adds n lines, one of which may be the line we look at,    *)
(* and before them an empty one when what is read begins with the LF whose *)
(* CR has ended a line already: linebuf_skip_crlf swallows all other empty *)
(* lines.                                                                  *)
Queue(empty, n) ==
    /\ queue' = queue + empty + n
    /\ blanks' = blanks \union (queue + 1)..(queue + empty)
    /\ mine' \in IF mine = 0 /\ n > 0 THEN {0, queue + empty + n} ELSE {mine}

(* dead_link, and exit_client, which closes the descriptor as well.        *)
Die == dead' = TRUE /\ flush' \in {flush, -1}
Exit == dead' = TRUE /\ flush' = -1

(* read_packet: data, if only a part of a line, or an error.               *)
ReadPacket(empty, n) ==
    /\ handler = "none" /\ status # "auth" /\ ~dead
    /\ queue + empty + n <= RecvMax
    /\ Queue(empty, n) /\ pinged' = FALSE
    /\ Parse("read", status)
    /\ UNCHANGED << status, outgoing, dead, flags, no_oper_flood, rate, flush, bucket, opered >>

ReadError ==
    /\ handler = "none" /\ status # "auth" /\ ~dead
    /\ Exit
    /\ UNCHANGED << status, outgoing, flags, no_oper_flood, rate, pinged, recvq, parser, bucket, opered >>

(* release_auth_client, with what its read_packet finds.                   *)
ReleaseAuthClient(empty, n) ==
    /\ status = "auth" /\ status' = "unknown"
    /\ allow_read' = MAX_FLOOD /\ flush' = 2
    /\ empty + n <= RecvMax /\ Queue(empty, n)
    /\ IF empty + n > 0 THEN Parse("read", "unknown") ELSE UNCHANGED parser
    /\ UNCHANGED << outgoing, dead, flags, no_oper_flood, sent_parsed, pinged, bucket, opered >>

(* Mutant of FloodRecalc: what was sent is forgotten, as in the grace.     *)
FloodRecalc_Forget ==
    /\ handler = "none" /\ flush = 0 /\ flush' = -1
    /\ sent_parsed' = 0
    /\ Parse("recalc", status)
    /\ UNCHANGED << status, outgoing, dead, flags, no_oper_flood, allow_read, pinged, recvq, bucket, opered >>

(* flood_recalc, called by comm_checktimeouts, up to its parse.            *)
FloodRecalc ==
    /\ handler = "none" /\ flush = 0 /\ flush' = -1
    /\ sent_parsed' = IF done /\ sent_parsed > 2 THEN sent_parsed - 2 ELSE 0
    /\ Parse("recalc", status)
    /\ UNCHANGED << status, outgoing, dead, flags, no_oper_flood, allow_read, pinged, recvq, bucket, opered >>

(* Mutant of CheckPings: nobody waits for the answer.                      *)
CheckPings_Once ==
    /\ handler = "none" /\ status \in {"client", "server"} /\ ~dead
    /\ ~pinged /\ pinged' = TRUE
    /\ UNCHANGED << dead, flush >> \/ Die
    /\ UNCHANGED << status, outgoing, flags, no_oper_flood, rate, recvq, parser, bucket, opered >>

(* check_pings_list: a connection that has been silent gets a PING, which  *)
(* may fail to be written, and is closed when it stays silent.             *)
CheckPings ==
    /\ handler = "none" /\ status \in {"client", "server"} /\ ~dead
    /\ IF pinged THEN Exit /\ UNCHANGED pinged
       ELSE pinged' = TRUE /\ (UNCHANGED << dead, flush >> \/ Die)
    /\ UNCHANGED << status, outgoing, flags, no_oper_flood, rate, recvq, parser, bucket, opered >>

(* check_unknowns_list: one that is not registered in time is closed.      *)
CheckUnknownsList ==
    /\ handler = "none" /\ status \in {"unknown", "handshake"}
    /\ Exit
    /\ UNCHANGED << status, outgoing, flags, no_oper_flood, rate, pinged, recvq, parser, bucket, opered >>

(* A second: comm_setflush(1000) fires when CurrentTime is past the next.  *)
Tick ==
    /\ handler = "none"
    /\ flush' = IF flush > 0 THEN flush - 1 ELSE flush
    /\ bucket' = IF bucket > 0 THEN bucket - 1 ELSE 0
    /\ UNCHANGED << status, outgoing, dead, flags, no_oper_flood, rate, pinged, recvq, parser, opered >>

-----------------------------------------------------------------------------
(* What client_dopacket can do to these variables.  st is the new status.  *)
NoChange == UNCHANGED << status, dead, flags, allow_read, flush >>

Register ==
    /\ status = "unknown"
    /\ \/ status' = "server" /\ UNCHANGED << dead, flags, allow_read, flush >>
       \/ /\ status' = "client" /\ exempt' \in BOOLEAN /\ allow_read' = MAX_FLOOD_BURST
          /\ UNCHANGED << dead, oper, done, flush >>

BecomeServer ==
    /\ status = "handshake" /\ status' = "server"
    /\ UNCHANGED << dead, flags, allow_read, flush >>

Quit == Die /\ UNCHANGED << status, flags, allow_read >>

(* A command that ends the grace period, OPER among them.                  *)
FloodEndgrace ==
    /\ status = "client" /\ done' = TRUE
    /\ allow_read' = IF done THEN allow_read ELSE MAX_FLOOD
    /\ oper' \in {oper, TRUE}
    /\ UNCHANGED << status, dead, exempt, flush >>

Deoper ==
    /\ status = "client" /\ oper /\ oper' = FALSE
    /\ UNCHANGED << status, dead, exempt, done, allow_read, flush >>

DoPacket == NoChange \/ Register \/ BecomeServer \/ Quit \/ FloodEndgrace \/ Deoper

(* linebuf_get: the first line leaves the queue, and what its length is.   *)
Take ==
    /\ queue > 0 /\ queue' = queue - 1
    /\ blanks' = {b - 1 : b \in blanks \ {1}}
    /\ mine' = IF mine = 0 THEN 0 ELSE mine - 1

Blank == 1 \in blanks

Others == UNCHANGED << outgoing, no_oper_flood, pinged, handler >>

(* How many lines parse_client_queued lets through before it stops.        *)
Limit == (IF checkflood THEN 1 ELSE OperFactor) * allow_read

(* A line of length 0 ends the loop like an empty queue.                   *)
BlankLine ==
    /\ branch # "end" /\ Blank
    /\ branch = "unknown" => i < MAX_FLOOD
    /\ branch = "limited" => sent_parsed < Limit
    /\ Take /\ branch' = "end"
    /\ NoChange /\ Others /\ UNCHANGED << i, checkflood, sent_parsed, bucket, opered >>

(* The buffers of one that has died are emptied.                           *)
DropBuffers ==
    /\ branch \in {"unknown", "all"}
    /\ branch = "unknown" => i < MAX_FLOOD
    /\ dead /\ queue > 0 /\ ~Blank
    /\ queue' = 0 /\ blanks' = {} /\ mine' = 0 /\ branch' = "end"
    /\ NoChange /\ Others /\ UNCHANGED << i, checkflood, sent_parsed, bucket, opered >>

ParseUnknown ==
    /\ branch = "unknown" /\ i < MAX_FLOOD /\ ~dead
    /\ ~Blank /\ Take /\ DoPacket /\ i' = i + 1
    /\ branch' = IF status' = "unknown" THEN "unknown" ELSE Served(status', exempt')
    /\ Others /\ UNCHANGED << checkflood, sent_parsed, bucket, opered >>

ParseAll ==
    /\ branch = "all" /\ ~dead
    /\ ~Blank /\ Take /\ DoPacket
    /\ Others /\ UNCHANGED << branch, i, checkflood, sent_parsed, bucket, opered >>

ParseLimited ==
    /\ branch = "limited" /\ sent_parsed < Limit
    /\ ~Blank /\ Take
    /\ \/ /\ dead /\ branch' = "end"
          /\ NoChange /\ UNCHANGED << sent_parsed, bucket, opered >>
       \/ /\ ~dead /\ DoPacket /\ UNCHANGED branch
          /\ sent_parsed' = IF done' /\ ~done THEN 1 ELSE sent_parsed + 1
          /\ bucket' = IF done THEN bucket + 1 ELSE IF done' THEN 1 ELSE 0
          /\ opered' = (opered \/ oper')
    /\ Others /\ UNCHANGED << i, checkflood >>

(* The loop is over.                                                       *)
Stopped ==
    \/ branch = "end" \/ queue = 0
    \/ branch = "unknown" /\ i = MAX_FLOOD
    \/ branch = "limited" /\ sent_parsed >= Limit

(* Back in read_packet: Excess Flood, where the part of a line counts too. *)
EndRead(part) ==
    /\ handler = "read" /\ Stopped /\ Return
    /\ IF /\ status \notin {"handshake", "server"} /\ queue + part > ClientFlood
          /\ ~(no_oper_flood /\ oper)
       THEN Exit ELSE UNCHANGED << dead, flush >>
    /\ UNCHANGED << status, outgoing, flags, no_oper_flood, rate, pinged, recvq, bucket, opered >>

(* Mutant of EndRecalc: the timer is set again only for lines that wait.   *)
EndRecalc_IfQueued ==
    /\ handler = "recalc" /\ Stopped /\ Return
    /\ flush' = IF dead \/ queue = 0 THEN flush ELSE 2
    /\ UNCHANGED << status, outgoing, dead, flags, no_oper_flood, rate, pinged, recvq, bucket, opered >>

(* Back in flood_recalc.                                                   *)
EndRecalc ==
    /\ handler = "recalc" /\ Stopped /\ Return
    /\ flush' = IF dead THEN flush ELSE 2
    /\ UNCHANGED << status, outgoing, dead, flags, no_oper_flood, rate, pinged, recvq, bucket, opered >>

(* A rehash while no line is parsed; one that dead_link marked is exited.  *)
Rehash ==
    /\ handler = "none" /\ no_oper_flood' = ~no_oper_flood
    /\ UNCHANGED << status, outgoing, dead, flags, rate, pinged, recvq, flush, parser, bucket, opered >>

ExitAborted ==
    /\ handler = "none" /\ dead /\ Exit /\ queue' = 0 /\ blanks' = {} /\ mine' = 0
    /\ UNCHANGED << status, outgoing, flags, no_oper_flood, rate, pinged, parser, bucket, opered >>

ParseLine == BlankLine \/ DropBuffers \/ ParseUnknown \/ ParseAll \/ ParseLimited
EndParse == EndRecalc \/ \E part \in 0..1 : EndRead(part)

Next ==
    \/ \E empty \in 0..1, n \in 0..RecvMax : ReadPacket(empty, n) \/ ReleaseAuthClient(empty, n)
    \/ ReadError \/ CheckPings \/ CheckUnknownsList \/ FloodRecalc \/ Tick \/ Rehash \/ ExitAborted
    \/ ParseLine \/ EndParse

(* A handler runs to its end; the loop of the server comes to the timers   *)
(* between any two reads; the dead are exited.  check_pings runs for all   *)
(* connections, but only those that have no timer need it here.            *)
Spec ==
    /\ Init /\ [][Next]_vars
    /\ WF_vars(ParseLine \/ EndParse)
    /\ SF_vars(FloodRecalc) /\ SF_vars(Tick /\ flush > 0) /\ WF_vars(ExitAborted)
    /\ WF_vars(CheckPings /\ outgoing) /\ WF_vars(CheckUnknownsList /\ outgoing)

-----------------------------------------------------------------------------
(* After the grace period a user has at most MAX_FLOOD lines parsed and    *)
(* one more for every second, and two, over any stretch of time; one who   *)
(* was an operator, OperFactor times MAX_FLOOD.  sent_parsed only knows    *)
(* of the passes of flood_recalc, which the timer allows every other       *)
(* second.                                                                 *)
RateIsLimited ==
    done => bucket <= (IF opered THEN OperFactor ELSE 1) * MAX_FLOOD + 2

(* Every line of a connection that was accepted is parsed, or the          *)
(* connection goes: whatever read_packet left in the queue, flood_recalc   *)
(* comes to, though neither reads again.                                   *)
LinesAreParsed == (mine > 0 /\ ~outgoing) ~> mine = 0

(* Nor does a line wait for ever on a connection that has no timer: when   *)
(* an empty line has ended the loop before it, the next read goes on, and  *)
(* the other server has to answer a PING or loses the link.                *)
ServerLinesAreParsed == (mine > 0 /\ outgoing) ~> mine = 0
=============================================================================
