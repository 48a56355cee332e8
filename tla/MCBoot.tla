------------------------------- MODULE MCBoot -------------------------------
(* The boot command: one window, and one visitor on the console URL. *)
EXTENDS Lifecycle
CONSTANTS w1, v1, nil
MCWindows == {w1}
MCVisitors == {v1}
\* Bound: the exit pattern comes with a window and a save.
MCConfigs == {c \in AllConfigs : c.ExitPattern => c.SaveOnExit /\ ~c.ChromeDP}
=============================================================================
