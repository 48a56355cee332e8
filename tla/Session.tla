------------------------------- MODULE Session -------------------------------
(****************************************************************************)
(* What an env86 VM promises to the program that drives it through Start,   *)
(* Wait, Restart and Close (vm.go), with nothing of how it is done.         *)
(*   - Start returns only after some console page has reported "loaded";    *)
(*   - Wait returns only after some console has gone or some Exit has done  *)
(*     its work (its save included).                                        *)
(* Lifecycle is shown to implement this specification.                      *)
(****************************************************************************)
CONSTANTS Pages,      \* the console pages
          ExitKinds   \* the places of the code that call VM.Exit

VARIABLES phase,      \* where the driving program stands
          reported,   \* the pages that have called "loaded"
          gone,       \* the pages that have been closed or unloaded
          finished    \* the Exit calls that are past their save

sessionVars == <<phase, reported, gone, finished>>

Phases == {"down", "starting", "up", "waiting", "returned", "closed", "ended"}

Init ==
    /\ phase = "down"
    /\ reported = {}
    /\ gone = {}
    /\ finished = {}

Start ==
    /\ phase = "down"
    /\ phase' = "starting"
    /\ UNCHANGED <<reported, gone, finished>>

\* A console page reports that its machine is loaded.
Report ==
    /\ \E p \in Pages : reported' = reported \cup {p}
    /\ UNCHANGED <<phase, gone, finished>>

StartReturns ==
    /\ phase = "starting"
    /\ reported # {}
    /\ phase' = "up"
    /\ UNCHANGED <<reported, gone, finished>>

\* Consoles go: their user closes them, or the VM unloads its own.
Lose ==
    /\ gone \subseteq gone'
    /\ UNCHANGED <<phase, reported, finished>>

Finish ==
    /\ \E e \in ExitKinds : finished' = finished \cup {e}
    /\ UNCHANGED <<phase, reported, gone>>

Wait ==
    /\ phase \in {"up", "returned"}
    /\ phase' = "waiting"
    /\ UNCHANGED <<reported, gone, finished>>

WaitReturns ==
    /\ phase = "waiting"
    /\ gone # {} \/ finished # {}
    /\ phase' = "returned"
    /\ UNCHANGED <<reported, gone, finished>>

\* Restart and Close stop the machine first, which may take a page away.
Stop ==
    /\ phase \in {"up", "returned"}
    /\ phase' \in {"down", "closed"}
    /\ gone \subseteq gone'
    /\ UNCHANGED <<reported, finished>>

\* The process may end at any time.
End ==
    /\ phase' = "ended"
    /\ UNCHANGED <<reported, gone, finished>>

Next ==
    \/ Start \/ Report \/ StartReturns \/ Lose \/ Finish
    \/ Wait \/ WaitReturns \/ Stop \/ End

Spec == Init /\ [][Next]_sessionVars
=============================================================================
