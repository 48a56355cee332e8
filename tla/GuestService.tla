---------------------------- MODULE GuestService ----------------------------
(****************************************************************************)
(* The host's side of the guest service: handleGuest, which serves its      *)
(* connection, the callers of Guest.Ready (guest.go), and the run command   *)
(* (cmd/env86/run.go), which uses vm.Guest() as soon as Start returns.      *)
(* The programs that are then run are those of GuestExec.  Bound: the       *)
(* program that calls Ready runs nothing; the run command never calls it.   *)
(****************************************************************************)
EXTENDS GuestExec

CONSTANTS Waiters   \* goroutines of an embedding program that call Ready

VARIABLES
    client,   \* who uses the guest: "runner" or "waiters"
    present,  \* the image has the guest service (has_guest_service)
    serving,  \* where handleGuest stands
    guest,    \* vm.guest is set
    cond,     \* its cond is set
    version,  \* its ver is set
    ready,    \* its ready is set
    waiter,   \* waiter[k]: where caller k of Ready stands
    driver    \* where the run command stands

sessionVars == <<client, present, serving, guest, cond, version, ready>>
vars == <<execVars, sessionVars, waiter, driver>>

ServingStages == {"none", "connected", "assigned", "calling", "versioned", "ready",
                  "responding", "over"}
WaiterStages == {"idle", "checking", "waiting", "parked", "woken", "returned", "panicked"}

TypeOK ==
    /\ ExecTypeOK
    /\ client \in {"runner", "waiters"}
    /\ present \in BOOLEAN
    /\ serving \in ServingStages
    /\ guest \in BOOLEAN
    /\ cond \in BOOLEAN
    /\ version \in BOOLEAN
    /\ ready \in BOOLEAN
    /\ waiter \in [Waiters -> WaiterStages]
    /\ driver \in {"starting", "resetting", "running", "notFound", "failed"}

Init ==
    /\ ExecInit
    /\ client \in {"runner", "waiters"}
    /\ present \in BOOLEAN
    /\ serving = "none"
    /\ guest = FALSE
    /\ cond = FALSE
    /\ version = FALSE
    /\ ready = FALSE
    /\ waiter = [k \in Waiters |-> "idle"]
    /\ driver = "starting"

----------------------------------------------------------------------------
(* handleGuest *)

\* The handler gets from one stage to the next.
Serves(from, to) ==
    /\ serving = from
    /\ serving' = to
    /\ UNCHANGED <<execVars, client, present, driver>>

\* The page opens its second socket, if its image has a guest service.
GuestConnects ==
    /\ present
    /\ serving = "none"
    /\ serving' = "connected"
    /\ link' = "up"
    /\ UNCHANGED <<pty, hostVars, guestVars, wire, open, stdinVars,
                   client, present, guest, cond, version, ready, waiter, driver>>

GuestAssign ==
    /\ Serves("connected", "assigned")
    /\ guest' = TRUE
    /\ UNCHANGED <<cond, version, ready, waiter>>

CondAssign ==
    /\ Serves("assigned", "calling")
    /\ cond' = TRUE
    /\ UNCHANGED <<guest, version, ready, waiter>>

\* The call fails: the handler returns, and vm.guest stays as it is.
VersionFails ==
    /\ link = "down"
    /\ Serves("calling", "over")
    /\ UNCHANGED <<guest, cond, version, ready, waiter>>

\* Mutant: ready is set before the version.
VersionAssignLate ==
    /\ link = "up"
    /\ Serves("calling", "versioned")
    /\ ready' = TRUE
    /\ UNCHANGED <<guest, cond, version, waiter>>

\* The call of vm.Version is answered.
VersionAssign ==
    /\ link = "up"
    /\ Serves("calling", "versioned")
    /\ version' = TRUE
    /\ UNCHANGED <<guest, cond, ready, waiter>>

\* ready is set without g.mu.
ReadyAssign ==
    /\ Serves("versioned", "ready")
    /\ ready' = TRUE
    /\ UNCHANGED <<guest, cond, version, waiter>>

\* Mutant: Signal in the place of Broadcast.
BroadcastOne ==
    /\ Serves("ready", "responding")
    /\ \/ \E k \in Waiters : waiter[k] = "parked" /\ waiter' = [waiter EXCEPT ![k] = "woken"]
       \/ (\A k \in Waiters : waiter[k] # "parked") /\ UNCHANGED waiter
    /\ UNCHANGED <<guest, cond, version, ready>>

Broadcast ==
    /\ Serves("ready", "responding")
    /\ waiter' = [k \in Waiters |-> IF waiter[k] = "parked" THEN "woken" ELSE waiter[k]]
    /\ UNCHANGED <<guest, cond, version, ready>>

Respond ==
    /\ link = "down"
    /\ Serves("responding", "over")
    /\ UNCHANGED <<guest, cond, version, ready, waiter>>

ServeStep ==
    \/ GuestAssign \/ CondAssign \/ VersionFails
    \/ VersionAssign \/ ReadyAssign \/ Broadcast \/ Respond

\* The page goes, and the machine with it.
LinkLost ==
    /\ link = "up"
    /\ link' = "down"
    /\ UNCHANGED <<pty, hostVars, guestVars, wire, open, stdinVars, sessionVars, waiter, driver>>

----------------------------------------------------------------------------
(* Guest.Ready *)

\* Nobody is between Lock and Unlock.
MuFree == \A k \in Waiters : waiter[k] \notin {"checking", "waiting"}

WaiterTo(k, stage) ==
    /\ waiter' = [waiter EXCEPT ![k] = stage]
    /\ UNCHANGED <<execVars, sessionVars, driver>>

\* Ready locks g.mu; so does Wait once it is woken.
ReadyLock(k) ==
    /\ client = "waiters"
    /\ (waiter[k] = "idle" /\ guest) \/ waiter[k] = "woken"
    /\ MuFree
    /\ WaiterTo(k, "checking")

\* The loop: return, or wait on a cond that may not be there yet.
ReadyCheck(k) ==
    /\ waiter[k] = "checking"
    /\ WaiterTo(k, IF ready THEN "returned" ELSE IF cond THEN "waiting" ELSE "panicked")

\* cond.Wait enters the list of those a Broadcast wakes, and unlocks.
ReadyPark(k) ==
    /\ waiter[k] = "waiting"
    /\ WaiterTo(k, "parked")

WaiterStep(k) == ReadyLock(k) \/ ReadyCheck(k) \/ ReadyPark(k)

----------------------------------------------------------------------------
(* the run command *)

DriverTo(stage) == driver' = stage /\ UNCHANGED <<execVars, sessionVars, waiter>>

\* Start returns on "loaded", which the page calls after it has begun to open
\* its second socket, whether that is open or not.
GuestLookup ==
    /\ client = "runner"
    /\ driver = "starting"
    /\ DriverTo(IF guest THEN "resetting" ELSE "notFound")

\* ResetNetwork is answered, or fails.
NetworkReset ==
    /\ driver = "resetting"
    /\ \/ link = "up" /\ DriverTo("running")
       \/ DriverTo("failed")

\* Bound: the first call waits for handleGuest to settle, on whose stage nothing
\* in a call depends.
RunCall ==
    /\ driver = "running"
    /\ serving \in {"responding", "over"}
    /\ \E c \in Calls : HostCall(c)
    /\ UNCHANGED <<sessionVars, waiter, driver>>

DriverStep == GuestLookup \/ NetworkReset \/ RunCall

----------------------------------------------------------------------------
\* A panic ends the process; what is left is for nobody to see.
Alive == \A k \in Waiters : waiter[k] # "panicked"

Next ==
    /\ Alive
    /\ \/ GuestConnects \/ ServeStep \/ LinkLost
       \/ \E k \in Waiters : WaiterStep(k)
       \/ DriverStep
       \/ ExecStep /\ UNCHANGED <<sessionVars, waiter, driver>>

\* Goroutines and the guest service run; users, programs and pages need not.
Fairness ==
    /\ WF_vars(Alive /\ ServeStep)
    /\ \A k \in Waiters : WF_vars(Alive /\ WaiterStep(k))
    /\ \A c \in Calls :
         /\ WF_vars(Alive /\ HostStep(c) /\ UNCHANGED <<sessionVars, waiter, driver>>)
         /\ WF_vars(Alive /\ HandlerStep(c) /\ UNCHANGED <<sessionVars, waiter, driver>>)

Spec == Init /\ [][Next]_vars /\ Fairness

----------------------------------------------------------------------------
\* Ready returns only for a guest whose version is known.
ReadyMeansVersion == \A k \in Waiters : waiter[k] = "returned" => version

\* A caller that waits before the guest is ready is woken and returns, unless
\* the connection or the process is lost first.
ParkedWakes ==
    \A k \in Waiters :
      waiter[k] = "parked" /\ ~ready ~> waiter[k] = "returned" \/ link = "down" \/ ~Alive

\* Once its program has exited Run returns, whatever the user types and
\* whatever the copiers and readers of this and earlier calls wait for.
RunReturns ==
    \A c \in Calls :
      host[c] = "receiving" /\ prog[c] = "exited" ~> host[c] \in Ended \/ ~Alive

\* The run command "requires guest service": "guest not found" is what it says
\* of an image that has none.
NotFoundMeansAbsent == driver = "notFound" => ~present
=============================================================================
