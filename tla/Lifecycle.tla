------------------------------ MODULE Lifecycle ------------------------------
(****************************************************************************)
(* The life of an env86 VM: the goroutines that start, watch and stop it,   *)
(* and the shared fields of VM they use without a lock.                     *)
(*                                                                          *)
(*   main      the caller of Start, Wait, Restart and Close (vm.go)         *)
(*   HTTP      startHTTP (http.go)                                          *)
(*   UI        runs the closures given to desktop.Dispatch, in order        *)
(*   page p    console.html with env86.js in a window or a browser          *)
(*   control p handleControl for the control socket of page p (http.go)     *)
(*   handler p the goroutine that serves page p's "loaded" call             *)
(*   exit e    a call of VM.Exit: Ctrl-D or the exit pattern in handleTTY   *)
(*             (tty.go), or the end of stdin in the boot command (boot.go)  *)
(****************************************************************************)
EXTENDS Naturals, Sequences

CONSTANTS Windows,    \* pages that Start can open, one per call
          Visitors,   \* pages that someone opens in a browser of their own
          NoPage,     \* the nil of page-valued fields
          Command,    \* who drives the VM: "boot" or a program that embeds it
    Configs     \* the configurations it may run with

ASSUME PagesAssumption == Windows \cap Visitors = {} /\ NoPage \notin Windows \cup Visitors
\* The fields of Config that steer the life cycle.  The pattern is only looked
\* for on a terminal.
AllConfigs == {c \in [EnableTTY : BOOLEAN, SaveOnExit : BOOLEAN,
                      ChromeDP : BOOLEAN, ExitPattern : BOOLEAN] :
                 c.ExitPattern => c.EnableTTY}

ASSUME ConfigsAssumption == Configs \subseteq AllConfigs
ASSUME CommandAssumption == Command \in {"boot", "embed"}

Pages == Windows \cup Visitors
PageRef == Pages \cup {NoPage}
ExitKinds == {"ctrlD", "pattern", "stdin"}

VARIABLES
    cfg,         \* vm.config
    proc,        \* the process: running, exited, fatal (log.Fatal) or panicked
    pc,          \* where main stands
    own,         \* the page that the latest Start opens
    loaded,      \* vm.loaded: nil, or the channel made by that page's Start
    srv,         \* vm.srv and whether it listens
    win,         \* vm.win
    cdpCancel,   \* vm.cdpCancel: the headless page it would cancel
    peer,        \* vm.peer: the page at its other end
    ui,          \* closures dispatched to the UI and not run yet
    page,        \* page p: how far it came
    ctl,         \* control p
    hnd,         \* handler p
    hndChan,     \* the channel that handler p sends on
    ttyOn,       \* handleTTY reads the terminal
    ex,          \* exit e
    exPeer,      \* the page that exit e asked for the machine's state
    image        \* initial.state on disk: old, partial, mixed or new

mainVars == <<pc, own, loaded>>
vmVars   == <<srv, win, cdpCancel, peer, ui>>
pageVars == <<page, ctl, hnd, hndChan, ttyOn>>
exitVars == <<ex, exPeer, image>>
vars == <<cfg, proc, mainVars, vmVars, pageVars, exitVars>>

Connected == {"connected", "ready", "tty", "loaded"}
Shown == Connected \cup {"opening", "failed"}
Gone == {"closed", "unloaded"}
PageStages == Shown \cup Gone \cup {"absent", "requested"}
MainStages == {"start", "await", "clear", "started", "waiting", "returned",
               "restart", "restarting", "close", "closing", "closeServer", "closed"}
\* What a goroutine that calls Stop goes through.
Stopping == {"stop", "cancel", "forget", "signal", "done"}
ControlStages == {"none", "serving"} \cup Stopping
HandlerStages == {"none", "checking", "evaluating", "sending", "done"}
ExitStages == {"idle", "saving", "writing"} \cup Stopping

\* A headless run has no window, and any other run nothing to cancel.
WindowRef == IF cfg.ChromeDP THEN {NoPage} ELSE Windows \cup {NoPage}
HeadlessRef == IF cfg.ChromeDP THEN Windows \cup {NoPage} ELSE {NoPage}

TypeOK ==
    /\ cfg \in Configs
    /\ proc \in {"running", "exited", "fatal", "panicked"}
    /\ pc \in MainStages
    /\ own \in PageRef
    /\ loaded \in PageRef
    /\ srv \in {"none", "starting", "up", "failed", "closed"}
    /\ win \in WindowRef
    /\ cdpCancel \in HeadlessRef
    /\ peer \in PageRef
    /\ ui \in Seq(WindowRef)
    /\ page \in [Pages -> PageStages]
    /\ ctl \in [Pages -> ControlStages]
    /\ hnd \in [Pages -> HandlerStages]
    /\ hndChan \in [Pages -> PageRef]
    /\ ttyOn \in BOOLEAN
    /\ ex \in [ExitKinds -> ExitStages]
    /\ exPeer \in [ExitKinds -> PageRef]
    /\ image \in {"old", "partial", "mixed", "new"}

Init ==
    /\ cfg \in Configs
    /\ proc = "running"
    /\ pc = "start"
    /\ own = NoPage
    /\ loaded = NoPage
    /\ srv = "none"
    /\ win = NoPage
    /\ cdpCancel = NoPage
    /\ peer = NoPage
    /\ ui = <<>>
    /\ page = [p \in Pages |-> "absent"]
    /\ ctl = [p \in Pages |-> "none"]
    /\ hnd = [p \in Pages |-> "none"]
    /\ hndChan = [p \in Pages |-> NoPage]
    /\ ttyOn = FALSE
    /\ ex = [e \in ExitKinds |-> "idle"]
    /\ exPeer = [e \in ExitKinds |-> NoPage]
    /\ image = "old"

Running == proc = "running" /\ UNCHANGED cfg
Continues == Running /\ UNCHANGED proc
Ends(how) == Running /\ proc' = how /\ UNCHANGED <<mainVars, vmVars, pageVars, exitVars>>

\* The closure that Stop dispatches; the one that Start dispatches is its page.
Unload == NoPage

\* The page ps with page p taken away by the VM.
Without(p, ps) ==
    [q \in Pages |-> IF q = p /\ ps[q] \in Shown \cup {"requested"} THEN "unloaded" ELSE ps[q]]

\* Page p gets from one of the stages in from to the stage to.
PageMove(p, from, to) ==
    /\ Continues
    /\ page[p] \in from
    /\ page' = [page EXCEPT ![p] = to]

\* VM.Stop, first: it closes the window, if any, and looks whether there is a
\* headless page to cancel.
StopLook ==
    /\ ui' = IF win # NoPage THEN Append(ui, Unload) ELSE ui
    /\ UNCHANGED <<srv, win, cdpCancel, peer, page>>

AfterLook == IF cdpCancel # NoPage THEN "cancel" ELSE "signal"

\* Then it reads vm.cdpCancel again and calls it, which takes the page away.
StopCancel ==
    /\ cdpCancel # NoPage
    /\ page' = Without(cdpCancel, page)
    /\ UNCHANGED vmVars

\* Another Stop has cleared it since: the call of a nil function.
StopPanics == cdpCancel = NoPage

\* Then it clears it.
StopForget ==
    /\ cdpCancel' = NoPage
    /\ UNCHANGED <<srv, win, peer, ui, page>>

\* At last, only a Wait that is already parked receives the signal.
StopSignal ==
    /\ pc' = IF pc = "waiting" THEN "returned" ELSE pc
    /\ UNCHANGED <<own, loaded>>

----------------------------------------------------------------------------
(* main *)

\* Mutant: Start dispatches a window in every mode.
MainStartAlwaysWindow ==
    /\ Continues
    /\ pc = "start"
    /\ \E p \in Windows :
         /\ page[p] = "absent"
         /\ page' = [page EXCEPT ![p] = "requested"]
         /\ own' = p
         /\ loaded' = p
         /\ cdpCancel' = IF cfg.ChromeDP THEN p ELSE cdpCancel
         /\ ui' = Append(ui, p)
    /\ srv' = IF srv = "none" THEN "starting" ELSE srv
    /\ pc' = "await"
    /\ UNCHANGED <<win, peer, ctl, hnd, hndChan, ttyOn, exitVars>>

\* VM.Start up to the receive.  startHTTP runs in a goroutine of its own.
MainStart ==
    /\ Continues
    /\ pc = "start"
    /\ \E p \in Windows :
         /\ page[p] = "absent"
         /\ page' = [page EXCEPT ![p] = "requested"]
         /\ own' = p
         /\ loaded' = p
         /\ cdpCancel' = IF cfg.ChromeDP THEN p ELSE cdpCancel
         /\ ui' = IF cfg.ChromeDP THEN ui ELSE Append(ui, p)
    /\ srv' = IF srv = "none" THEN "starting" ELSE srv
    /\ pc' = "await"
    /\ UNCHANGED <<win, peer, ctl, hnd, hndChan, ttyOn, exitVars>>

\* The receive of Start meets the send of a "loaded" handler.
Rendezvous(p) ==
    /\ Continues
    /\ pc = "await"
    /\ hnd[p] = "sending"
    /\ hndChan[p] = own
    /\ pc' = "clear"
    /\ hnd' = [hnd EXCEPT ![p] = "done"]
    /\ UNCHANGED <<own, loaded, vmVars, page, ctl, hndChan, ttyOn, exitVars>>

\* Mutant: Start does not receive from vm.loaded.
MainClearEarly ==
    /\ Continues
    /\ pc \in {"await", "clear"}
    /\ loaded' = NoPage
    /\ pc' = "started"
    /\ UNCHANGED <<own, vmVars, pageVars, exitVars>>

MainClear ==
    /\ Continues
    /\ pc = "clear"
    /\ loaded' = NoPage
    /\ pc' = "started"
    /\ UNCHANGED <<own, vmVars, pageVars, exitVars>>

MainWait ==
    /\ Continues
    /\ pc \in IF Command = "boot" THEN {"started"} ELSE {"started", "returned"}
    /\ pc' = "waiting"
    /\ UNCHANGED <<own, loaded, vmVars, pageVars, exitVars>>

\* Restart and Close begin with Stop, whose signal nobody waits for here.
MainRestartOrClose ==
    /\ Continues
    /\ Command = "embed"
    /\ pc \in {"started", "returned"}
    /\ pc' \in IF cdpCancel # NoPage THEN {"restart", "close"} ELSE {"start", "closeServer"}
    /\ StopLook
    /\ UNCHANGED <<own, loaded, ctl, hnd, hndChan, ttyOn, exitVars>>

MainCancel ==
    /\ Continues
    /\ \/ pc = "restart" /\ pc' = "restarting"
       \/ pc = "close" /\ pc' = "closing"
    /\ StopCancel
    /\ UNCHANGED <<own, loaded, ctl, hnd, hndChan, ttyOn, exitVars>>

MainForget ==
    /\ Continues
    /\ \/ pc = "restarting" /\ pc' = "start"
       \/ pc = "closing" /\ pc' = "closeServer"
    /\ StopForget
    /\ UNCHANGED <<own, loaded, ctl, hnd, hndChan, ttyOn, exitVars>>

MainPanic ==
    /\ pc \in {"restart", "close"}
    /\ StopPanics
    /\ Ends("panicked")

MainCloseServer ==
    /\ Continues
    /\ pc = "closeServer"
    /\ pc' = "closed"
    /\ srv' = "closed"
    /\ UNCHANGED <<own, loaded, win, cdpCancel, peer, ui, pageVars, exitVars>>

\* The boot command ends with its Wait.
MainExit ==
    /\ Command = "boot"
    /\ pc = "returned"
    /\ Ends("exited")

MainStep ==
    \/ MainStart \/ MainClear \/ MainWait \/ MainCancel \/ MainForget \/ MainPanic
    \/ MainCloseServer \/ MainExit

----------------------------------------------------------------------------
(* HTTP *)

\* The bundle cannot be built.
HTTPFatal == srv = "starting" /\ Ends("fatal")

\* The server listens, or cannot: its port was free when ListenAddr tried it.
HTTPListen ==
    /\ Continues
    /\ srv = "starting"
    /\ srv' \in {"up", "failed"}
    /\ UNCHANGED <<mainVars, win, cdpCancel, peer, ui, pageVars, exitVars>>

----------------------------------------------------------------------------
(* UI *)

UIOpen ==
    /\ ui # <<>>
    /\ Head(ui) \in Windows
    /\ PageMove(Head(ui), {"requested"}, "opening")
    /\ win' = Head(ui)
    /\ ui' = Tail(ui)
    /\ UNCHANGED <<mainVars, srv, cdpCancel, peer, ctl, hnd, hndChan, ttyOn, exitVars>>

UIUnload ==
    /\ Continues
    /\ ui # <<>>
    /\ Head(ui) = Unload
    /\ win # NoPage
    /\ page' = Without(win, page)
    /\ win' = NoPage
    /\ ui' = Tail(ui)
    /\ UNCHANGED <<mainVars, srv, cdpCancel, peer, ctl, hnd, hndChan, ttyOn, exitVars>>

\* The closure reads vm.win again when it runs: Unload of a nil window.
UIPanic ==
    /\ ui # <<>>
    /\ Head(ui) = Unload
    /\ win = NoPage
    /\ Ends("panicked")

UIStep == UIOpen \/ UIUnload \/ UIPanic

----------------------------------------------------------------------------
(* page p *)

\* The goroutine of Start navigates the headless browser.
PageNavigate(p) ==
    /\ PageMove(p, {"requested"}, "opening")
    /\ cfg.ChromeDP
    /\ UNCHANGED <<mainVars, vmVars, ctl, hnd, hndChan, ttyOn, exitVars>>

\* Nobody listens: the window shows an error and nothing retries.
PageFail(p) ==
    /\ PageMove(p, {"opening"}, "failed")
    /\ srv # "up"
    /\ UNCHANGED <<mainVars, vmVars, ctl, hnd, hndChan, ttyOn, exitVars>>

\* The page's control socket is accepted: handleControl runs.
PageConnect(p) ==
    /\ PageMove(p, {"opening"}, "connected")
    /\ srv = "up"
    /\ ctl' = [ctl EXCEPT ![p] = "serving"]
    /\ peer' = p
    /\ UNCHANGED <<mainVars, srv, win, cdpCancel, ui, hnd, hndChan, ttyOn, exitVars>>

\* The page has its config, made the machine and answers calls.
PageReady(p) ==
    /\ PageMove(p, {"connected"}, "ready")
    /\ UNCHANGED <<mainVars, vmVars, ctl, hnd, hndChan, ttyOn, exitVars>>

\* The "tty" call: handleTTY takes over the terminal.
PageTTY(p) ==
    /\ PageMove(p, {"ready"}, "tty")
    /\ cfg.EnableTTY
    /\ ttyOn' = TRUE
    /\ UNCHANGED <<mainVars, vmVars, ctl, hnd, hndChan, exitVars>>

\* The terminal cannot be made raw.
PageTTYFatal(p) ==
    /\ page[p] = "ready"
    /\ cfg.EnableTTY
    /\ Ends("fatal")

\* The "loaded" call, which a goroutine of its own serves.
PageLoaded(p) ==
    /\ PageMove(p, IF cfg.EnableTTY THEN {"tty"} ELSE {"ready"}, "loaded")
    /\ hnd' = [hnd EXCEPT ![p] = "checking"]
    /\ UNCHANGED <<mainVars, vmVars, ctl, hndChan, ttyOn, exitVars>>

PageStep(p) ==
    \/ PageNavigate(p) \/ PageFail(p) \/ PageConnect(p) \/ PageReady(p)
    \/ PageTTY(p) \/ PageTTYFatal(p) \/ PageLoaded(p)

----------------------------------------------------------------------------
(* handler p: if vm.loaded != nil { vm.loaded <- true } *)

\* Mutant: the nil check is the wrong way round.
HandlerCheckInverted(p) ==
    /\ Continues
    /\ hnd[p] = "checking"
    /\ hnd' = [hnd EXCEPT ![p] = IF loaded = NoPage THEN "evaluating" ELSE "done"]
    /\ UNCHANGED <<mainVars, vmVars, page, ctl, hndChan, ttyOn, exitVars>>

HandlerCheck(p) ==
    /\ Continues
    /\ hnd[p] = "checking"
    /\ hnd' = [hnd EXCEPT ![p] = IF loaded # NoPage THEN "evaluating" ELSE "done"]
    /\ UNCHANGED <<mainVars, vmVars, page, ctl, hndChan, ttyOn, exitVars>>

\* The second read of vm.loaded; a send on nil blocks for ever.
HandlerEvaluate(p) ==
    /\ Continues
    /\ hnd[p] = "evaluating"
    /\ hnd' = [hnd EXCEPT ![p] = "sending"]
    /\ hndChan' = [hndChan EXCEPT ![p] = loaded]
    /\ UNCHANGED <<mainVars, vmVars, page, ctl, ttyOn, exitVars>>

HandlerStep(p) == HandlerCheck(p) \/ HandlerEvaluate(p)

----------------------------------------------------------------------------
(* control p: what handleControl does once its socket is closed *)

\* Mutant: Respond runs in a goroutine, so the clean-up does not wait for it.
ControlCleanupEager(p) ==
    /\ Continues
    /\ ctl[p] = "serving"
    /\ win' = NoPage
    /\ ctl' = [ctl EXCEPT ![p] = "stop"]
    /\ UNCHANGED <<mainVars, srv, cdpCancel, peer, ui, page, hnd, hndChan, ttyOn, exitVars>>

\* Mutant: handleControl forgets to call Stop.
ControlCleanupOnly(p) ==
    /\ Continues
    /\ ctl[p] = "serving"
    /\ page[p] \in Gone
    /\ win' = NoPage
    /\ ctl' = [ctl EXCEPT ![p] = "done"]
    /\ UNCHANGED <<mainVars, srv, cdpCancel, peer, ui, page, hnd, hndChan, ttyOn, exitVars>>

ControlCleanup(p) ==
    /\ Continues
    /\ ctl[p] = "serving"
    /\ page[p] \in Gone
    /\ win' = NoPage
    /\ ctl' = [ctl EXCEPT ![p] = "stop"]
    /\ UNCHANGED <<mainVars, srv, cdpCancel, peer, ui, page, hnd, hndChan, ttyOn, exitVars>>

ControlStop(p) ==
    /\ Continues
    /\ ctl[p] = "stop"
    /\ StopLook
    /\ ctl' = [ctl EXCEPT ![p] = AfterLook]
    /\ UNCHANGED <<mainVars, hnd, hndChan, ttyOn, exitVars>>

ControlCancel(p) ==
    /\ Continues
    /\ ctl[p] = "cancel"
    /\ StopCancel
    /\ ctl' = [ctl EXCEPT ![p] = "forget"]
    /\ UNCHANGED <<mainVars, hnd, hndChan, ttyOn, exitVars>>

ControlForget(p) ==
    /\ Continues
    /\ ctl[p] = "forget"
    /\ StopForget
    /\ ctl' = [ctl EXCEPT ![p] = "signal"]
    /\ UNCHANGED <<mainVars, hnd, hndChan, ttyOn, exitVars>>

\* net/http recovers the panic of a handler: its goroutine ends without the
\* signal, and the process goes on.
ControlPanic(p) ==
    /\ Continues
    /\ ctl[p] = "cancel"
    /\ StopPanics
    /\ ctl' = [ctl EXCEPT ![p] = "done"]
    /\ UNCHANGED <<mainVars, vmVars, page, hnd, hndChan, ttyOn, exitVars>>

ControlSignal(p) ==
    /\ Continues
    /\ ctl[p] = "signal"
    /\ StopSignal
    /\ ctl' = [ctl EXCEPT ![p] = "done"]
    /\ UNCHANGED <<vmVars, page, hnd, hndChan, ttyOn, exitVars>>

ControlStep(p) ==
    \/ ControlCleanup(p) \/ ControlStop(p) \/ ControlCancel(p) \/ ControlForget(p)
    \/ ControlPanic(p) \/ ControlSignal(p)

----------------------------------------------------------------------------
(* exit e: a call of VM.Exit.  Bound: at most one call of each kind. *)

\* Ctrl-D on the terminal, the pattern in the output of a live machine, or the
\* end of stdin, which boot reads only when no terminal does.
ExitCause(e) ==
    CASE e = "ctrlD"   -> ttyOn
      [] e = "pattern" -> cfg.ExitPattern /\ \E p \in Pages : page[p] \in {"tty", "loaded"}
      [] e = "stdin"   -> Command = "boot" /\ ~cfg.EnableTTY /\ pc \in {"started", "waiting", "returned"}

\* Mutant: Exit stops without its save.
ExitBeginUnsaved(e) ==
    /\ Continues
    /\ ex[e] = "idle"
    /\ ExitCause(e)
    /\ ex' = [ex EXCEPT ![e] = "stop"]
    /\ exPeer' = [exPeer EXCEPT ![e] = NoPage]
    /\ UNCHANGED <<mainVars, vmVars, pageVars, image>>

ExitBegin(e) ==
    /\ Continues
    /\ ex[e] = "idle"
    /\ ExitCause(e)
    /\ cfg.SaveOnExit => peer # NoPage
    /\ ex' = [ex EXCEPT ![e] = IF cfg.SaveOnExit THEN "saving" ELSE "stop"]
    /\ exPeer' = [exPeer EXCEPT ![e] = IF cfg.SaveOnExit THEN peer ELSE NoPage]
    /\ UNCHANGED <<mainVars, vmVars, pageVars, image>>

\* "not ready", a call that fails because its page is gone, or a failed write.
ExitFatal(e) ==
    /\ \/ ex[e] = "idle" /\ ExitCause(e) /\ cfg.SaveOnExit /\ peer = NoPage
       \/ ex[e] = "saving" /\ page[exPeer[e]] \in Gone
       \/ ex[e] = "writing"
    /\ Ends("fatal")

Writers == {e \in ExitKinds : ex[e] = "writing"}

\* The page answers with its state and the image file is truncated.
ExitOpenImage(e) ==
    /\ Continues
    /\ ex[e] = "saving"
    /\ page[exPeer[e]] \in {"ready", "tty", "loaded"}
    /\ ex' = [ex EXCEPT ![e] = "writing"]
    /\ image' = IF Writers = {} THEN "partial" ELSE "mixed"
    /\ UNCHANGED <<mainVars, vmVars, pageVars, exPeer>>

\* Mutant: Exit returns after its save.
ExitWrittenOnly(e) ==
    /\ Continues
    /\ ex[e] = "writing"
    /\ ex' = [ex EXCEPT ![e] = "done"]
    /\ image' \in IF Writers # {e} THEN {"mixed"}
                  ELSE IF image = "mixed" THEN {"mixed", "new"} ELSE {"new"}
    /\ UNCHANGED <<mainVars, vmVars, pageVars, exPeer>>

\* The last byte is written.  Two writers at once may leave parts of both.
ExitWritten(e) ==
    /\ Continues
    /\ ex[e] = "writing"
    /\ ex' = [ex EXCEPT ![e] = "stop"]
    /\ image' \in IF Writers # {e} THEN {"mixed"}
                  ELSE IF image = "mixed" THEN {"mixed", "new"} ELSE {"new"}
    /\ UNCHANGED <<mainVars, vmVars, pageVars, exPeer>>

ExitStop(e) ==
    /\ Continues
    /\ ex[e] = "stop"
    /\ StopLook
    /\ ex' = [ex EXCEPT ![e] = AfterLook]
    /\ UNCHANGED <<mainVars, ctl, hnd, hndChan, ttyOn, exPeer, image>>

ExitCancel(e) ==
    /\ Continues
    /\ ex[e] = "cancel"
    /\ StopCancel
    /\ ex' = [ex EXCEPT ![e] = "forget"]
    /\ UNCHANGED <<mainVars, ctl, hnd, hndChan, ttyOn, exPeer, image>>

ExitForget(e) ==
    /\ Continues
    /\ ex[e] = "forget"
    /\ StopForget
    /\ ex' = [ex EXCEPT ![e] = "signal"]
    /\ UNCHANGED <<mainVars, ctl, hnd, hndChan, ttyOn, exPeer, image>>

ExitPanic(e) ==
    /\ ex[e] = "cancel"
    /\ StopPanics
    /\ Ends("panicked")

ExitSignal(e) ==
    /\ Continues
    /\ ex[e] = "signal"
    /\ StopSignal
    /\ ex' = [ex EXCEPT ![e] = "done"]
    /\ UNCHANGED <<vmVars, pageVars, exPeer, image>>

ExitStep(e) ==
    \/ ExitFatal(e) \/ ExitOpenImage(e) \/ ExitWritten(e)
    \/ ExitStop(e) \/ ExitCancel(e) \/ ExitForget(e) \/ ExitPanic(e) \/ ExitSignal(e)

----------------------------------------------------------------------------
(* the people around it *)

VisitorOpen(p) ==
    /\ p \in Visitors
    /\ Command = "boot" => pc \in {"started", "waiting", "returned"}
    /\ PageMove(p, {"absent"}, "opening")
    /\ UNCHANGED <<mainVars, vmVars, ctl, hnd, hndChan, ttyOn, exitVars>>

UserClose(p) ==
    /\ p \in Visitors \/ ~cfg.ChromeDP
    /\ PageMove(p, Shown, "closed")
    /\ UNCHANGED <<mainVars, vmVars, ctl, hnd, hndChan, ttyOn, exitVars>>

----------------------------------------------------------------------------
Next ==
    \/ MainStep \/ MainRestartOrClose
    \/ HTTPFatal \/ HTTPListen
    \/ UIStep
    \/ \E p \in Pages : \/ Rendezvous(p) \/ PageStep(p) \/ HandlerStep(p)
                        \/ ControlStep(p) \/ VisitorOpen(p) \/ UserClose(p)
    \/ \E e \in ExitKinds : ExitBegin(e) \/ ExitStep(e)

\* Goroutines that can run do run, and the people around them need not act.
Fairness ==
    /\ WF_vars(MainStep)
    /\ WF_vars(HTTPFatal \/ HTTPListen)
    /\ WF_vars(UIStep)
    /\ \A p \in Pages : /\ WF_vars(Rendezvous(p))
                        /\ WF_vars(PageStep(p))
                        /\ WF_vars(HandlerStep(p))
                        /\ WF_vars(ControlStep(p))
    /\ \A e \in ExitKinds : WF_vars(ExitStep(e))

Spec == Init /\ [][Next]_vars /\ Fairness

----------------------------------------------------------------------------
(* What the VM promises its driver: see Session. *)

Phase ==
    IF proc # "running" THEN "ended"
    ELSE CASE pc \in {"restart", "restarting", "start"} -> "down"
           [] pc = "await" -> "starting"
           [] pc \in {"clear", "started"} -> "up"
           [] pc \in {"close", "closing", "closeServer", "closed"} -> "closed"
           [] OTHER -> pc

VMSession == INSTANCE Session WITH
    phase    <- Phase,
    reported <- {p \in Pages : hnd[p] # "none"},
    gone     <- {p \in Pages : page[p] \in Gone},
    finished <- {e \in ExitKinds : ex[e] \in Stopping}

\* The VM keeps its promises: Start returns only after a console has loaded,
\* Wait only after one has gone or an Exit is past its save.
ImplementsSession == VMSession!Spec

\* At most one call of Exit has begun.
LoneExit == \A e, f \in ExitKinds : ex[e] # "idle" /\ ex[f] # "idle" => e = f
UserClosed == {p \in Pages : page[p] = "closed"}

\* A boot with SaveOnExit that one Exit ends, no user having closed a console,
\* leaves the new state whole on disk (Exit saves before it stops).
CleanExitSaved ==
    proc = "exited" /\ cfg.SaveOnExit /\ UserClosed = {} /\ LoneExit
      => image = "new"

\* The process dies of a nil vm.win in Stop's closure, or of a nil vm.cdpCancel
\* in Stop itself, only when two parties stop the VM: never with one Exit and
\* no console closed by its user.  A headless page that this Exit cancels does
\* bring the Stop of its handleControl on the way, which may meet the nil in the
\* Exit's stead, but ends no more than its own goroutine by that.
LoneStopIsSafe ==
    proc = "panicked" => UserClosed # {} \/ ~LoneExit

\* Start returns unless its own page was lost before it loaded.
StartReturns ==
    pc = "await" ~> \/ pc # "await"
                    \/ own # NoPage /\ page[own] \in Gone \cup {"failed"}
                    \/ proc # "running"

\* When a connected console goes while the driver waits, the wait ends.
ConsoleGoneEndsWait ==
    \A p \in Pages :
      pc = "waiting" /\ ctl[p] = "serving" /\ page[p] \in Gone
        ~> pc # "waiting" \/ proc # "running"

\* An Exit begun while the driver waits ends the wait.
ExitEndsWait ==
    \A e \in ExitKinds :
      pc = "waiting" /\ ex[e] \in ExitStages \ {"idle", "done"}
        ~> pc # "waiting" \/ proc # "running"

\* Where nobody visits, Start returns only after the page it opened has loaded,
\* never on the report of a page that an earlier Start opened.
StartMatchesItsPage ==
    pc \in {"clear", "started"} => page[own] \in {"loaded"} \cup Gone

\* Where nobody visits, the goroutine that serves a "loaded" call ends: its
\* send meets the receive of the Start it belongs to.
LoadedHandlerReturns ==
    \A p \in Pages : hnd[p] = "checking" ~> hnd[p] = "done" \/ proc # "running"

\* handleControl says of its clean-up "websocket closed, so we assume window
\* was closed": the window it forgets is the one of its own page.
ClosedSocketMeansClosedWindow ==
    [][\A p \in Pages : ctl[p] = "serving" /\ ctl'[p] = "stop" => win \in {p, NoPage}]_vars

\* README: Ctrl-D with --save first saves the state to the initial state of
\* the image, and then the VM ends (here: when no user closes a console).
CtrlDSaves ==
    proc = "exited" /\ cfg.SaveOnExit /\ ex["ctrlD"] # "idle" /\ UserClosed = {}
      => image = "new"
=============================================================================
