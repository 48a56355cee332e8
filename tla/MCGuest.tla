------------------------------- MODULE MCGuest ------------------------------
(* Two callers of Ready, and a first run that leaves its copier to a second. *)
EXTENDS GuestService
CONSTANTS k1, k2
MCWaiters == {k1, k2}
\* Bound: the last call, like those of the run command, asks for a terminal.
MCTerminals == {{2}, {1, 2}}
=============================================================================
