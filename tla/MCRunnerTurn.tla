---------------------------- MODULE MCRunnerTurn ----------------------------
(* Two runners, one that retries and one that does not, or three. *)
EXTENDS RunnerTurn

MCRunners == {"qwen", "gemini"}
MCRetrying == {"qwen"}
MCThree == {"qwen", "gemini", "codex"}
MCNone == {}

(* LiveSpec where MaxNudges is 0 and no nudge can fire. *)
MCLiveSpec == Init /\ [][Moves]_w /\ Fairness
=============================================================================
