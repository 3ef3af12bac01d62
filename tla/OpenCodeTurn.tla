---------------------------- MODULE OpenCodeTurn ----------------------------
(***************************************************************************)
(* The opencode runner: one `opencode serve` per agent (OpenCodeTransport) *)
(* and a turn that is a synchronous POST to it.  A turn is a coroutine; at *)
(* each of its awaits a clear, a stop, the watchdog or the exit of the     *)
(* serve may come in between, and a turn that was given up goes on after   *)
(* it.  A run is what the serve does for a POST; it ends when the serve    *)
(* says so, not when the POST does.  The order in the turn gate is         *)
(* TurnGate's; texts, tools, permissions and compact are left out.         *)
(***************************************************************************)
EXTENDS Naturals, Sequences, FiniteSets
LOCAL INSTANCE FiniteSetsExt

CONSTANTS
    OcMessages,     \* messages that are sent
    OcMaxEvents,    \* failures, exits, recovers, clears and stops
    OcRetries,      \* OC_EMPTY_RETRIES
    OcClearAt       \* where a clear may find a turn

OcPlaces == {"gate", "boot", "open", "post", "abort", "parts", "wait"}

ASSUME OcAssumption == {OcMessages, OcMaxEvents, OcRetries} \subseteq Nat /\ OcClearAt \subseteq OcPlaces

VARIABLE oc         \* the state, see OcTypeOK

OcVars == <<oc>>

OcInit ==
    oc = [queue |-> <<>>, busy |-> FALSE, slot |-> 0, epoch |-> 1, sess |-> 0, opened |-> 0,
          turns |-> {}, server |-> "none", stream |-> "none", runs |-> {}, aborts |-> {}, left |-> {},
          stopped |-> FALSE, sent |-> 0, events |-> 0]

OcOwns(s, t) == t.epoch = s.epoch /\ t.sess = s.sess

OcPlace(s, t, at) == [s EXCEPT !.turns = {v \in @ : v.msg # t.msg} \cup {[t EXCEPT !.at = at]}]

OcDrain(s) ==
    IF s.busy \/ s.slot # 0 \/ s.stopped \/ s.queue = <<>> THEN s
    ELSE [s EXCEPT !.busy = TRUE, !.queue = Tail(@),
                   !.turns = @ \cup {[msg |-> Head(s.queue), retry |-> 0, epoch |-> 0, sess |-> 0,
                                      at |-> "gate", answer |-> ""]}]

(* releaseActiveTurnSlot(releaseSlot) and the drain behind it. *)
OcFinally(s, t) == OcDrain([s EXCEPT !.slot = IF @ = t.msg THEN 0 ELSE @])

(* The turn returns, and its wrapper releases and drains. *)
OcReturn(s, t) == OcFinally([s EXCEPT !.turns = {v \in @ : v.msg # t.msg}], t)

OcEnd(s, t) == OcReturn([s EXCEPT !.busy = FALSE], t)

(* After an await: a stopped runner is not busy, a turn that lost its      *)
(* session touches nothing, and the owner goes on to `next`.               *)
OcResume(s, t, next) ==
    IF s.stopped THEN OcEnd(s, t) ELSE IF ~OcOwns(s, t) THEN OcReturn(s, t) ELSE next

(* The turn is tried again in 1.2 s: busy stays, the slot does not. *)
OcRetry(s, t) == OcFinally([OcPlace(s, t, "wait") EXCEPT !.busy = TRUE], t)

OcFailed(s, t) == IF t.retry < OcRetries THEN OcRetry(s, t) ELSE OcReturn(s, t)

OcPost(s, t) ==
    [OcPlace(s, [t EXCEPT !.epoch = s.epoch, !.sess = s.sess], "post")
       EXCEPT !.runs = @ \cup {[msg |-> t.msg, retry |-> t.retry, sess |-> s.sess]}]

(* runOpenCodeMessageAttached up to its first await. *)
OcAttached(s, t) ==
    IF s.stopped THEN OcReturn(s, t)
    ELSE IF s.sess = 0 THEN OcPlace(s, t, "open") ELSE OcPost(s, t)

OcEvent == oc.events < OcMaxEvents
OcAt(at) == {t \in oc.turns : t.at = at}
Counted(s) == [s EXCEPT !.events = @ + 1]

-----------------------------------------------------------------------------
OcPush ==
    /\ oc.sent < OcMessages /\ ~oc.stopped
    /\ oc' = OcDrain([oc EXCEPT !.sent = @ + 1, !.queue = Append(@, oc.sent + 1)])

(* gateTurn, then ensureServer: one boot, whoever asks for it. *)
OcGateGrants(t) ==
    /\ t \in OcAt("gate")
    /\ oc' = IF oc.stopped THEN [oc EXCEPT !.turns = @ \ {t}, !.busy = FALSE]
             ELSE LET s == [oc EXCEPT !.slot = t.msg]
                  IN  IF s.server = "up" THEN OcAttached(s, t)
                      ELSE [OcPlace(s, t, "boot") EXCEPT !.server = "boot"]

OcBootReady ==
    /\ oc.server = "boot"
    /\ oc' = FoldSet(LAMBDA t, s : OcAttached(s, t),
                     [oc EXCEPT !.server = "up", !.stream = "open"], OcAt("boot"))

(* No port, no spawn, an early exit, or no answer in time and no probe     *)
(* under way; everyone who waits for the boot hears of it.                 *)
OcBootFails ==
    /\ OcAt("boot") # {} /\ (oc.server = "none" \/ (oc.server = "boot" /\ OcEvent))
    /\ oc' = FoldSet(LAMBDA t, s : OcEnd(s, t),
                     [oc EXCEPT !.server = "none", !.events = IF oc.server = "boot" THEN @ + 1 ELSE @],
                     OcAt("boot"))

OcSessionOpens(t) ==
    /\ t \in OcAt("open") /\ oc.server = "up"
    /\ oc' = OcPost([oc EXCEPT !.opened = @ + 1, !.sess = oc.opened + 1], t)

OcSessionFails(t) ==
    /\ t \in OcAt("open") /\ (oc.server # "up" \/ OcEvent)
    /\ oc' = OcEnd(IF oc.server = "up" THEN Counted(oc) ELSE oc, t)

OcRunOf(t) == [msg |-> t.msg, retry |-> t.retry, sess |-> t.sess]

(* The POST answers: with text, with nothing, with the provider's error,   *)
(* or that the session was aborted.                                        *)
OcPostAnswers(t) ==
    /\ t \in OcAt("post")
    /\ \E answer \in IF OcRunOf(t) \in oc.runs THEN {"text", "empty", "error"}
                     ELSE IF oc.server = "up" THEN {"aborted"} ELSE {} :
          LET s == [oc EXCEPT !.runs = @ \ {OcRunOf(t)}]
          IN  oc' = OcResume(s, t, OcPlace(s, [t EXCEPT !.answer = answer], "parts"))

(* The POST fails: the socket goes with the serve, the serve refuses it,   *)
(* or its own ceiling cuts it, and then the run goes on in the serve.      *)
OcPostFails(t) ==
    /\ t \in OcAt("post")
    /\ \/ /\ oc.server # "up"
          /\ LET s == [oc EXCEPT !.busy = @ /\ ~OcOwns(oc, t)]
             IN  oc' = OcResume(s, t, OcFailed(s, [t EXCEPT !.answer = "failed"]))
       \/ /\ oc.server = "up" /\ OcEvent
          /\ LET s == [Counted(oc) EXCEPT !.busy = @ /\ ~OcOwns(oc, t), !.runs = @ \ {OcRunOf(t)}]
                 answer == IF OcRunOf(t) \in oc.runs THEN "failed" ELSE "aborted"
             IN  oc' = OcResume(s, t, OcFailed(s, [t EXCEPT !.answer = answer]))
       \/ /\ oc.server = "up" /\ OcEvent
          /\ LET s == [Counted(oc) EXCEPT !.busy = @ /\ ~OcOwns(oc, t)]
             IN  oc' = OcResume(s, t, OcPlace(s, [t EXCEPT !.answer = "timeout"], "abort"))

(* abortSession is awaited; who owns the session is not asked again.  An   *)
(* abort that fails leaves the run (`left`, if no retry in a new session   *)
(* follows).                                                               *)
OcAbortEnds(t) ==
    /\ t \in OcAt("abort")
    /\ \E ok \in BOOLEAN :
          /\ ok \/ OcEvent
          /\ oc' = OcFailed([oc EXCEPT !.runs = IF ok THEN {v \in @ : v.sess # t.sess} ELSE @,
                                       !.left = IF ok \/ t.retry < OcRetries THEN @ ELSE @ \cup {t.sess},
                                       !.events = IF ok THEN @ ELSE @ + 1], t)

(* T-796 as it was: the aborted session is forgotten before the turn asks  *)
(* whether it owns it.                                                     *)
MutOcPartsEnd(t) ==
    /\ t \in OcAt("parts")
    /\ LET s == [oc EXCEPT !.sess = IF t.answer = "aborted" THEN 0 ELSE @]
       IN  oc' = OcResume(s, t, OcEnd(s, t))

(* The GET of the parts behind the answer, and the end of the turn. *)
OcPartsEnd(t) ==
    /\ t \in OcAt("parts")
    /\ LET s == [oc EXCEPT !.busy = FALSE, !.sess = IF t.answer = "aborted" THEN 0 ELSE @]
       IN  oc' = OcResume(oc, t, IF t.answer = "empty" THEN OcFailed(s, t) ELSE OcReturn(s, t))

(* The retry stays in the session of a run that may still be going on.     *)
MutOcRetryTimer(t) ==
    /\ t \in OcAt("wait")
    /\ oc' = IF oc.stopped THEN [oc EXCEPT !.turns = @ \ {t}, !.busy = FALSE]
             ELSE IF ~OcOwns(oc, t) THEN [oc EXCEPT !.turns = @ \ {t}]
             ELSE OcPlace(oc, [t EXCEPT !.retry = @ + 1], "gate")

(* The timer of a retry. *)
OcRetryTimer(t) ==
    /\ t \in OcAt("wait")
    /\ oc' = IF oc.stopped THEN [oc EXCEPT !.turns = @ \ {t}, !.busy = FALSE]
             ELSE IF ~OcOwns(oc, t) THEN [oc EXCEPT !.turns = @ \ {t}]
             ELSE OcPlace([oc EXCEPT !.sess = IF t.answer \in {"timeout", "aborted"} THEN 0 ELSE @],
                          [t EXCEPT !.retry = @ + 1], "gate")

-----------------------------------------------------------------------------
(* The serve exits; its event stream goes with it. *)
OcServeExits ==
    /\ oc.server = "up" /\ OcEvent
    /\ oc' = [Counted(oc) EXCEPT !.server = "none", !.stream = "none", !.runs = {}, !.aborts = {}]

(* The event stream ends, and is opened again after a second. *)
OcStreamEnds == oc.stream = "open" /\ OcEvent /\ oc' = [Counted(oc) EXCEPT !.stream = "timer"]
OcStreamReopens == oc.stream = "timer" /\ oc' = [oc EXCEPT !.stream = "open"]

(* recoverHungTurn.  Its limits are longer than a boot, and a turn in the  *)
(* gate is none of its business.  The message is not sent again, for this  *)
(* runner notes none as in flight; the abort is not awaited.               *)
OcRecover ==
    /\ OcEvent /\ oc.busy /\ ~oc.stopped
    /\ \A t \in oc.turns : t.at \notin {"gate", "boot", "open"}
    /\ oc' = OcDrain([Counted(oc) EXCEPT !.slot = 0, !.epoch = @ + 1, !.busy = FALSE,
                         !.aborts = IF oc.sess # 0 /\ oc.server = "up" THEN @ \cup {oc.sess} ELSE @])

(* The abort of a recover reaches the serve, whatever runs there by then.  *)
OcAbortArrives ==
    \E sess \in oc.aborts :
        oc' = [oc EXCEPT !.aborts = @ \ {sess}, !.runs = {v \in @ : v.sess # sess}]

OcClear ==
    /\ OcEvent /\ ~oc.stopped
    /\ \A t \in oc.turns : t.at \in OcClearAt
    /\ oc' = [Counted(oc) EXCEPT !.queue = <<>>, !.slot = 0, !.busy = FALSE,
                                 !.epoch = @ + 1, !.sess = 0]

OcStop ==
    /\ OcEvent /\ ~oc.stopped
    /\ oc' = [Counted(oc) EXCEPT !.stopped = TRUE, !.slot = 0, !.queue = <<>>, !.server = "none",
                                 !.stream = "none", !.runs = {}, !.aborts = {}]

OcNext ==
    \/ OcPush \/ OcBootReady \/ OcBootFails \/ OcServeExits \/ OcStreamEnds \/ OcStreamReopens
    \/ OcRecover \/ OcAbortArrives \/ OcClear \/ OcStop
    \/ \E t \in oc.turns :
          \/ OcGateGrants(t) \/ OcSessionOpens(t) \/ OcSessionFails(t) \/ OcPostAnswers(t)
          \/ OcPostFails(t) \/ OcAbortEnds(t) \/ OcPartsEnd(t) \/ OcRetryTimer(t)

OcSpec == OcInit /\ [][OcNext]_OcVars

-----------------------------------------------------------------------------
OcTypeOK ==
    /\ oc.queue \in Seq(1..OcMessages) /\ oc.sent \in 0..OcMessages /\ oc.events \in 0..OcMaxEvents
    /\ {oc.busy, oc.stopped} \subseteq BOOLEAN /\ oc.slot \in 0..OcMessages
    /\ oc.server \in {"none", "boot", "up"} /\ oc.stream \in {"none", "open", "timer"}
    /\ oc.sess \in 0..oc.opened
    /\ \A t \in oc.turns : t.at \in OcPlaces /\ t.msg \in 1..oc.sent /\ t.retry \in 0..OcRetries

(* A busy runner has a turn that will make it idle - T-796: one that lost  *)
(* its session touches nothing, and the runner is mute until the watchdog  *)
(* cuts a turn that is not there - and a serve that is up is listened to,  *)
(* at once or when a timer fires.                                          *)
OcInTouch ==
    /\ oc.busy /\ ~oc.stopped =>
          \E t \in oc.turns : t.at \in {"gate", "boot", "open"} \/ (t.at # "abort" /\ OcOwns(oc, t))
    /\ oc.server = "up" => oc.stream # "none"

(* Never two runs in one session of the serve (T-784: tools would take     *)
(* effect twice), unless the abort that a recover sent is on its way or    *)
(* the abort of the last try failed.                                       *)
OcOneRun == \A v, w \in oc.runs : v.sess = w.sess => v = w \/ v.sess \in oc.aborts \cup oc.left
=============================================================================
