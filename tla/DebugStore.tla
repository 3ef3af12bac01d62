------------------------------ MODULE DebugStore ----------------------------
(***************************************************************************)
(* What the debug dashboard shows of the daemon: the log, followed by a    *)
(* browser (GET /api/logs, then a stream since the last line it has), the  *)
(* children it has spawned and the time an agent has spent in each state.  *)
(* Nothing is shared between the three, and one of them is followed.       *)
(*                                                                         *)
(* A line is its seq.  The other rings of the store, and what is averaged  *)
(* over them, are left out.                                                *)
(***************************************************************************)
EXTENDS Integers, Sequences, FiniteSets
LOCAL INSTANCE SequencesExt
LOCAL INSTANCE FiniteSetsExt

CONSTANTS
    DsTopics,       \* subset of {"log", "spawns", "states"}
    DsRing,         \* lines the daemon keeps (LOG_CAP)
    DsBacklog,      \* lines a stream begins with at most
    DsMaxLines,     \* bound on lines
    DsMaxStreams,   \* bound on streams of the browser
    DsChildren,     \* bound on children
    DsMaxClock,     \* bound on the clock
    DsLapses        \* subset of {"restart", "twice"}: a restart under a dashboard, a tab opened again at once

ASSUME DsAssumption == DsBacklog \in 1 .. DsRing /\ {DsMaxLines, DsMaxStreams, DsChildren, DsMaxClock} \subseteq Nat

VARIABLE ds

DsVars == <<ds>>

States == {"idle", "thinking"}

(* get: the answer of GET /api/logs on its way; es: the stream the page    *)
(* knows of; skipped: lines that were gone when a stream began.            *)
DsInit ==
    \E topic \in DsTopics :
       ds = [topic |-> topic, seq |-> 0, ring |-> <<>>, tab |-> FALSE, gets |-> {}, streams |-> <<>>, es |-> 0,
             lastSeq |-> 0, lines |-> <<>>, skipped |-> {}, restarts |-> 0, children |-> <<>>, live |-> {},
             ended |-> [good |-> 0, bad |-> 0, error |-> 0], clock |-> 0, state |-> "none", since |-> 0, first |-> 0,
             time |-> [s \in States |-> 0]]

Newest(n, lines) == SubSeq(lines, Max({1, Len(lines) - n + 1}), Len(lines))

(* recordDebugLog: the listeners are the streams that are open. *)
RecordDebugLog ==
    /\ ds.topic = "log" /\ ds.seq < DsMaxLines
    /\ LET n == ds.seq + 1 IN
       ds' = [ds EXCEPT !.seq = n, !.ring = Newest(DsRing, Append(@, n)),
                        !.streams = [i \in DOMAIN @ |-> IF @[i].open THEN [@[i] EXCEPT !.wire = Append(@, n)] ELSE @[i]]]

(* queryLogs since a line. *)
Since(seq) == SelectSeq(ds.ring, LAMBDA n : n > seq)

NewStream(s) ==
    [s EXCEPT !.streams = Append(@, [open |-> FALSE, gone |-> FALSE, since |-> s.lastSeq, wire |-> <<>>]), !.es = Len(s.streams) + 1]

StreamRoom == Len(ds.streams) + Cardinality(ds.gets) < DsMaxStreams

(* openLogStream: what the page has no line of is asked for first. *)
OpenLogStream ==
    /\ ds.topic = "log" /\ ~ds.tab /\ StreamRoom
    /\ ds.gets = {} \/ "twice" \in DsLapses
    /\ ds' = IF ds.es # 0 THEN [ds EXCEPT !.tab = TRUE]
             ELSE IF ds.lastSeq = 0 THEN [ds EXCEPT !.tab = TRUE, !.gets = @ \cup {[lines |-> ds.ring, seq |-> ds.seq]}]
             ELSE [NewStream(ds) EXCEPT !.tab = TRUE]

(* The stream starts even if the tab was left meanwhile. *)
LogsArrive ==
    \E get \in ds.gets :
       ds' = NewStream([ds EXCEPT !.gets = @ \ {get}, !.lines = get.lines, !.lastSeq = get.seq])

CloseLogStream ==
    /\ ds.tab
    /\ ds' = [ds EXCEPT !.tab = FALSE, !.es = 0,
                        !.streams = [i \in DOMAIN @ |-> IF i = ds.es THEN [@[i] EXCEPT !.open = FALSE, !.gone = TRUE, !.wire = <<>>]
                                                                     ELSE @[i]]]

(* The backlog, then every line; a stream that is opened again begins      *)
(* where it began.                                                         *)
MutStreamOpens == \E i \in DOMAIN ds.streams :
    /\ ~ds.streams[i].open /\ ~ds.streams[i].gone
    /\ ds' = [ds EXCEPT !.streams[i].open = TRUE]
StreamOpens == \E i \in DOMAIN ds.streams :
    /\ ~ds.streams[i].open /\ ~ds.streams[i].gone
    /\ LET backlog == Newest(DsBacklog, Since(ds.streams[i].since)) IN
       ds' = [ds EXCEPT !.streams[i].open = TRUE, !.streams[i].wire = backlog,
                        !.skipped = @ \cup ((ds.streams[i].since + 1 .. ds.seq) \ Range(backlog))]

StreamBreaks ==
    \E i \in DOMAIN ds.streams :
       /\ ds.streams[i].open
       /\ ds' = [ds EXCEPT !.streams[i].open = FALSE, !.streams[i].wire = <<>>]

(* onmessage: a line the page has, or has passed, is dropped. *)
StreamLine ==
    \E i \in DOMAIN ds.streams :
       /\ ds.streams[i].wire # <<>>
       /\ LET n == Head(ds.streams[i].wire)
              taken == [ds EXCEPT !.streams[i].wire = Tail(@)] IN
          ds' = IF n <= ds.lastSeq THEN taken ELSE [taken EXCEPT !.lastSeq = n, !.lines = Append(@, n)]

(* The numbers of a new daemon begin again; one restart is enough. *)
DsRestart ==
    /\ ds.topic = "log" /\ ds.restarts = 0
    /\ "restart" \in DsLapses \/ (ds.lastSeq = 0 /\ ds.gets = {} /\ ds.streams = <<>>)
    /\ ds' = [ds EXCEPT !.seq = 0, !.ring = <<>>, !.skipped = {}, !.restarts = 1,
                        !.streams = [i \in DOMAIN @ |-> [@[i] EXCEPT !.open = FALSE, !.wire = <<>>]]]

-----------------------------------------------------------------------------
(* recordSpawn: a child that could not be spawned has no pid. *)
RecordSpawn ==
    /\ ds.topic = "spawns" /\ Len(ds.children) < DsChildren
    /\ \E started \in BOOLEAN :
          ds' = [ds EXCEPT !.children = Append(@, [stage |-> IF started THEN "alive" ELSE "failed", done |-> FALSE]),
                           !.live = IF started THEN @ \cup {Len(ds.children) + 1} ELSE @]

(* finish: exit and close both tell of the end, and it is counted once. *)
MutDsFinish(s, i, how) == [s EXCEPT !.live = @ \ {i}, !.ended[how] = @ + 1]
DsFinish(s, i, how) ==
    IF s.children[i].done THEN s ELSE [s EXCEPT !.children[i].done = TRUE, !.live = @ \ {i}, !.ended[how] = @ + 1]

ChildExits ==
    \E i \in DOMAIN ds.children, how \in {"good", "bad"} :
       ds.children[i].stage = "alive" /\ ds' = DsFinish([ds EXCEPT !.children[i].stage = "exited"], i, how)

(* close comes when nobody holds the pipes any more; of a failed spawn it  *)
(* is all that comes.                                                      *)
ChildCloses ==
    \E i \in DOMAIN ds.children :
       \/ ds.children[i].stage = "exited" /\ ds' = DsFinish([ds EXCEPT !.children[i].stage = "closed"], i, "good")
       \/ ds.children[i].stage = "failed" /\ ds' = DsFinish([ds EXCEPT !.children[i].stage = "closed"], i, "error")

-----------------------------------------------------------------------------
(* recordAgentState; a state reported again is none. *)
RecordAgentState ==
    /\ ds.topic = "states"
    /\ \E state \in States \ {ds.state} :
          ds' = [ds EXCEPT !.state = state, !.since = ds.clock, !.first = IF ds.state = "none" THEN ds.clock ELSE @,
                           !.time = IF ds.state = "none" THEN @ ELSE [@ EXCEPT ![ds.state] = @ + ds.clock - ds.since]]

DsTick == ds.topic = "states" /\ ds.clock < DsMaxClock /\ ds' = [ds EXCEPT !.clock = @ + 1]

(* agentStateInfo. *)
TimeByState == [s \in States |-> ds.time[s] + IF s = ds.state THEN ds.clock - ds.since ELSE 0]

DsNext ==
    \/ RecordDebugLog \/ OpenLogStream \/ LogsArrive \/ CloseLogStream \/ StreamOpens \/ StreamBreaks \/ StreamLine
    \/ DsRestart \/ RecordSpawn \/ ChildExits \/ ChildCloses \/ RecordAgentState \/ DsTick

DsSpec == DsInit /\ [][DsNext]_DsVars

-----------------------------------------------------------------------------
DsTypeOK ==
    /\ ds.topic \in DsTopics /\ ds.seq \in 0 .. DsMaxLines /\ ds.tab \in BOOLEAN /\ ds.es \in 0 .. Len(ds.streams)
    /\ Len(ds.ring) <= DsRing /\ ds.lastSeq \in 0 .. DsMaxLines /\ ds.live \subseteq DOMAIN ds.children

(* The page shows each line once and in the order they were logged, and    *)
(* misses only those that were gone when a stream began, however often it  *)
(* broke or the tab was left (debug/index.ts:738, dashboard-html.ts:1011). *)
DsNoHole ==
    /\ \A k \in 1 .. Len(ds.lines) - 1 : ds.lines[k] < ds.lines[k + 1]
    /\ ds.lines # <<>> => (Head(ds.lines) .. Last(ds.lines)) \subseteq Range(ds.lines) \cup ds.skipped

(* A stream that is open and has nothing on its way has shown all.         *)
DsFollowed ==
    \A i \in DOMAIN ds.streams : ds.streams[i].open /\ ds.streams[i].wire = <<>> => ds.lastSeq = ds.seq

(* The children said to live do, and the end of each is counted once,      *)
(* though two events tell of it (debug/store.ts:445).                      *)
DsCounted ==
    /\ ds.live = {i \in DOMAIN ds.children : ds.children[i].stage = "alive"}
    /\ ds.ended.good + ds.ended.bad + ds.ended.error =
          Cardinality({i \in DOMAIN ds.children : ds.children[i].stage \in {"exited", "closed"}})

(* The times by state add up to how long the agent is known.               *)
DsTimed == ds.state # "none" => TimeByState["idle"] + TimeByState["thinking"] = ds.clock - ds.first

DebugKept == DsNoHole /\ DsFollowed /\ DsCounted /\ DsTimed
=============================================================================
