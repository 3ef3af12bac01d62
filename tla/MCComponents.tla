---------------------------- MODULE MCComponents ----------------------------
(***************************************************************************)
(* The components that share nothing, checked in one run: `part` is chosen *)
(* once and says which of them moves; the others rest in their initial     *)
(* states.  What can be reached is the sum of their state spaces, and a    *)
(* property of one of them is checked in all of its states.                *)
(***************************************************************************)
EXTENDS TurnGate, SessionQueue, ClaudeTurn, DshTurn, ClientLink, Outbox, SuitePark, KeyRing,
        BridgeCall, GrokTurn, OpenCodeTurn, Conversation, HangWatch, SelfUpdate, GraphIndex,
        AgentSpawn, TaskWorktree, GitRequests, LiveView, Shadow, Catalogs, OpenDesign,
        McpOverride, FileRequests, CodexHome, OneShot, DebugStore

CONSTANT Parts      \* the components this run is about

MCPools == {"main", "bg"}
MCMax == [p \in MCPools |-> IF p = "main" THEN 2 ELSE 1]
MCPrincipals == {"ana", "bia"}

(* Their thresholds in order, not to scale. *)
MCGrok == [soft |-> 1, hard |-> 1, dead |-> 1, tools |-> 4, first |-> 2, post |-> 2, life |-> 0, cap |-> 0,
           ceiling |-> 5, atCeiling |-> "ask", marks |-> TRUE, retries |-> TRUE,
           frees |-> TRUE]
MCQwen == [soft |-> 1, hard |-> 2, dead |-> 1, tools |-> 0, first |-> 0, post |-> 0, life |-> 4, cap |-> 5,
           ceiling |-> 6, atCeiling |-> "recover", marks |-> TRUE, retries |-> TRUE,
           frees |-> FALSE]
MCCodex == [soft |-> 1, hard |-> 2, dead |-> 1, tools |-> 3, first |-> 0, post |-> 0, life |-> 0, cap |-> 0,
            ceiling |-> 4, atCeiling |-> "kill", marks |-> FALSE, retries |-> FALSE,
            frees |-> FALSE]
MCNoLapses == {}

MCProfiles == {MCGrok, MCQwen, MCCodex}

VARIABLE part

partsVars ==
    <<vars, SessionVars, ClaudeVars, DshVars, LinkVars, OutVars, SuiteVars, RingVars, BridgeVars,
      GrokVars, UpdVars, GraphVars, OcVars, HangVars, CvVars, AgVars, TwVars, GitVars, LvVars, ShVars,
      CtVars, OdVars, MoVars, FrVars, ChVars, OsVars, DsVars, part>>

PartsInit ==
    /\ Init /\ SessionInit /\ ClaudeInit /\ DshInit /\ LinkInit /\ OutInit /\ SuiteInit
    /\ RingInit /\ BridgeInit /\ GrokInit /\ UpdInit /\ GraphInit /\ OcInit /\ HangInit /\ CvInit
    /\ AgInit /\ TwInit /\ GitInit /\ LvInit /\ ShInit /\ CtInit /\ OdInit /\ MoInit /\ FrInit
    /\ ChInit /\ OsInit /\ DsInit
    /\ part \in Parts
    /\ part # "watch"        => hw.t = MCGrok
    /\ part # "conversation" => cv.cli = "codex"
    /\ part # "spawn"        => ag.key
    /\ part # "shadow"       => sh.key
    /\ part # "catalog"      => ct.kind = "line"
    /\ part # "files"        => \A p \in FrPaths : Held(p) = Absent
    /\ part # "codexhome"    => ch.name = "none" /\ ~ch.home.there
    /\ part # "oneshot"      => os.held /\ ~os.required
    /\ part # "debug"        => ds.topic = "log"

PartsNext ==
    /\ UNCHANGED part
    /\ IF part = "gate"         THEN Next        ELSE UNCHANGED vars
    /\ IF part = "session"      THEN SessionNext ELSE UNCHANGED SessionVars
    /\ IF part = "claude"       THEN ClaudeNext  ELSE UNCHANGED ClaudeVars
    /\ IF part = "dsh"          THEN DshNext     ELSE UNCHANGED DshVars
    /\ IF part = "link"         THEN LinkNext    ELSE UNCHANGED LinkVars
    /\ IF part = "outbox"       THEN OutNext     ELSE UNCHANGED OutVars
    /\ IF part = "suite"        THEN SuiteNext   ELSE UNCHANGED SuiteVars
    /\ IF part = "ring"         THEN RingNext    ELSE UNCHANGED RingVars
    /\ IF part = "bridge"       THEN BridgeNext  ELSE UNCHANGED BridgeVars
    /\ IF part = "grok"         THEN GrokNext    ELSE UNCHANGED GrokVars
    /\ IF part = "update"       THEN UpdNext     ELSE UNCHANGED UpdVars
    /\ IF part = "graph"        THEN GraphNext   ELSE UNCHANGED GraphVars
    /\ IF part = "opencode"     THEN OcNext      ELSE UNCHANGED OcVars
    /\ IF part = "watch"        THEN HangNext    ELSE UNCHANGED HangVars
    /\ IF part = "conversation" THEN CvNext      ELSE UNCHANGED CvVars
    /\ IF part = "spawn"        THEN AgNext      ELSE UNCHANGED AgVars
    /\ IF part = "task"         THEN TwNext      ELSE UNCHANGED TwVars
    /\ IF part = "git"          THEN GitNext     ELSE UNCHANGED GitVars
    /\ IF part = "view"         THEN LvNext      ELSE UNCHANGED LvVars
    /\ IF part = "shadow"       THEN ShNext      ELSE UNCHANGED ShVars
    /\ IF part = "catalog"      THEN CtNext      ELSE UNCHANGED CtVars
    /\ IF part = "design"       THEN OdNext      ELSE UNCHANGED OdVars
    /\ IF part = "mcps"         THEN MoNext      ELSE UNCHANGED MoVars
    /\ IF part = "files"        THEN FrNext      ELSE UNCHANGED FrVars
    /\ IF part = "codexhome"    THEN ChNext      ELSE UNCHANGED ChVars
    /\ IF part = "oneshot"      THEN OsNext      ELSE UNCHANGED OsVars
    /\ IF part = "debug"        THEN DsNext      ELSE UNCHANGED DsVars

PartsSpec == PartsInit /\ [][PartsNext]_partsVars

(* In its initial state no component owes a step, so the fairness of those *)
(* that rest asks nothing.                                                 *)
PartsFairness ==
    /\ Fairness /\ DshFairness /\ LinkFairness /\ SuiteFairness /\ BridgeFairness /\ UpdFairness
    /\ GraphFairness /\ LvFairness

PartsLiveSpec == PartsSpec /\ PartsFairness

(* The shape of the state of the component that moves. *)
PartsTypeOK ==
    /\ part = "gate"         => TypeOK
    /\ part = "session"      => SessionTypeOK
    /\ part = "claude"       => ClaudeTypeOK
    /\ part = "dsh"          => DshTypeOK
    /\ part = "link"         => LinkTypeOK
    /\ part = "outbox"       => OutTypeOK
    /\ part = "suite"        => SuiteTypeOK
    /\ part = "ring"         => RingTypeOK
    /\ part = "bridge"       => BridgeTypeOK
    /\ part = "grok"         => GrokTypeOK
    /\ part = "update"       => UpdTypeOK
    /\ part = "graph"        => GraphTypeOK
    /\ part = "opencode"     => OcTypeOK
    /\ part = "watch"        => HangTypeOK
    /\ part = "conversation" => CvTypeOK
    /\ part = "spawn"        => AgTypeOK
    /\ part = "task"         => TwTypeOK
    /\ part = "git"          => GitTypeOK
    /\ part = "view"         => LvTypeOK
    /\ part = "shadow"       => ShTypeOK
    /\ part = "catalog"      => CtTypeOK
    /\ part = "design"       => OdTypeOK
    /\ part = "mcps"         => MoTypeOK
    /\ part = "files"        => FrTypeOK
    /\ part = "codexhome"    => ChTypeOK
    /\ part = "oneshot"      => OsTypeOK
    /\ part = "debug"        => DsTypeOK

(* Two senders share no turn, and the messages of one are begun in the     *)
(* order they were sent (enqueueOrCoalesce and the turns of SessionQueue). *)
SendersKeptApart == TurnsOfOneSender /\ SenderOrderKept

(* The opencode runner that is busy is heard of by somebody, and a session *)
(* of its server has one run at a time (OpenCodeTurn).                     *)
OcAccounted == OcInTouch /\ OcOneRun

(* A conversation keeps what it was told, and one turn of the runner talks *)
(* to it at a time (Conversation); those of codex stay where its database  *)
(* says (CodexHome), and of those of grok only what one-shots left behind  *)
(* is swept (OneShot).                                                     *)
ConversationKept == CvContextKept /\ CvSoleTurn /\ CodexHomeKept /\ OneShotKept

(* Of two daemons one serves (ClientLink), and a critical frame for the    *)
(* link is in one place (Outbox).                                          *)
LinkKept == LinkOneDaemon /\ OutKept

(* What is reported of the daemon's work is so: the delegations it would   *)
(* have spared (Shadow) and what the debug dashboard shows (DebugStore).   *)
ReportsKept == ShTold /\ DebugKept

(* What the catalogs show goes forward, and a change of Open Design that   *)
(* is answered as done was done (Catalogs, OpenDesign).                    *)
DesignKept == CatalogsKept /\ OdReadsBack

(* The edits of the override are in it, and a rename spares what it found  *)
(* (McpOverride, FileRequests), as the git requests stay in their places   *)
(* (GitRequests).                                                          *)
RequestsKept == MoKept /\ FrSpared /\ GitOwnPlace

(* What the host shows of an agent is so, and the worktree of a task goes  *)
(* only with nothing of it lost (AgentSpawn, TaskWorktree).                *)
WorktreesKept == AgInStep /\ TwKept
=============================================================================
