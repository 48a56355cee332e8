------------------------------- MODULE MCEmbed ------------------------------
(* A program that embeds the VM and may restart it once: two windows. *)
EXTENDS Lifecycle
CONSTANTS w1, w2, nil
MCWindows == {w1, w2}
MCVisitors == {}
MCConfigs == {c \in AllConfigs : ~c.SaveOnExit /\ ~c.ExitPattern}
=============================================================================
