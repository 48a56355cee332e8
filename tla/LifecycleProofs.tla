--------------------------- MODULE LifecycleProofs ---------------------------
(****************************************************************************)
(* Theorems about Lifecycle, for every set of windows and visitors, every   *)
(* set of configurations and both drivers.                                  *)
(****************************************************************************)
EXTENDS Lifecycle, SequenceTheorems, TLAPS

\* NoPage, the nil window, is a window reference in every configuration.
LEMMA NilRefs == NoPage \in WindowRef /\ NoPage \in HeadlessRef
  BY DEF WindowRef, HeadlessRef

\* Stop keeps the types of the fields it writes, up to its signal.
LEMMA StopType ==
    ASSUME TypeOK, StopLook \/ StopCancel \/ StopForget
    PROVE  /\ ui' \in Seq(WindowRef)
           /\ page' \in [Pages -> PageStages]
           /\ cdpCancel' \in {cdpCancel, NoPage}
           /\ srv' = srv /\ win' = win /\ peer' = peer
  <1>1. ui' \in Seq(WindowRef)
    BY NilRefs, AppendProperties DEF TypeOK, StopLook, StopCancel, StopForget, Unload, vmVars
  <1>2. page' \in [Pages -> PageStages]
    BY DEF TypeOK, StopLook, StopCancel, StopForget, Without, PageStages, Gone
  <1> QED
    BY <1>1, <1>2 DEF StopLook, StopCancel, StopForget, vmVars

\* Initial states are well typed.
LEMMA InitType == Init => TypeOK
  <1> SUFFICES ASSUME Init PROVE TypeOK
    OBVIOUS
  <1>1. ui \in Seq(WindowRef)
    BY DEF Init
  <1>2. win \in WindowRef /\ cdpCancel \in HeadlessRef
    BY NilRefs DEF Init
  <1> QED
    BY <1>1, <1>2 DEF Init, TypeOK, PageRef, MainStages, PageStages, ControlStages, HandlerStages,
       ExitStages

\* Every step keeps the types.
LEMMA StepType == TypeOK /\ [Next]_vars => TypeOK'
  <1> SUFFICES ASSUME TypeOK, [Next]_vars PROVE TypeOK'
    OBVIOUS
  <1> USE DEF Continues, Running, mainVars, vmVars, pageVars, exitVars
  <1>0. UNCHANGED cfg => WindowRef' = WindowRef /\ HeadlessRef' = HeadlessRef
    BY DEF WindowRef, HeadlessRef
  <1>1. ASSUME NEW how \in {"exited", "fatal", "panicked"}, Ends(how) PROVE TypeOK'
    BY <1>0, <1>1 DEF TypeOK, Ends
  <1>2. CASE MainStart
    <2> PICK p \in Windows :
          /\ page' = [page EXCEPT ![p] = "requested"]
          /\ own' = p
          /\ loaded' = p
          /\ cdpCancel' = (IF cfg.ChromeDP THEN p ELSE cdpCancel)
          /\ ui' = (IF cfg.ChromeDP THEN ui ELSE Append(ui, p))
      BY <1>2 DEF MainStart
    <2>1. ui' \in Seq(WindowRef)
      BY AppendProperties DEF TypeOK, WindowRef
    <2>2. cdpCancel' \in HeadlessRef
      BY DEF TypeOK, HeadlessRef
    <2>3. page' \in [Pages -> PageStages]
      BY DEF TypeOK, PageStages
    <2>4. own' \in PageRef /\ loaded' \in PageRef
      BY DEF Pages, PageRef
    <2> QED
      BY <1>0, <1>2, <2>1, <2>2, <2>3, <2>4 DEF MainStart, TypeOK, MainStages
  <1>3. CASE MainClear
    BY <1>0, <1>3 DEF MainClear, TypeOK, PageRef, MainStages
  <1>4. CASE MainWait
    BY <1>0, <1>4 DEF MainWait, TypeOK, MainStages
  <1>5. CASE MainCloseServer
    BY <1>0, <1>5 DEF MainCloseServer, TypeOK, MainStages
  <1>6. CASE MainExit \/ MainPanic
    BY <1>1, <1>6 DEF MainExit, MainPanic
  <1>21. CASE MainCancel \/ MainForget
    BY <1>0, <1>21, NilRefs, StopType DEF MainCancel, MainForget, TypeOK, MainStages
  <1>7. CASE MainRestartOrClose
    BY <1>0, <1>7, NilRefs, StopType DEF MainRestartOrClose, TypeOK, MainStages
  <1>8. CASE HTTPFatal
    BY <1>1, <1>8 DEF HTTPFatal
  <1>9. CASE HTTPListen
    BY <1>0, <1>9 DEF HTTPListen, TypeOK
  <1>10. CASE UIOpen
    <2>1. Tail(ui) \in Seq(WindowRef) /\ Head(ui) \in WindowRef
      BY <1>10, HeadTailProperties DEF UIOpen, TypeOK
    <2> QED
      BY <1>0, <1>10, <2>1 DEF UIOpen, PageMove, TypeOK, PageStages, Shown
  <1>11. CASE UIUnload
    <2>1. Tail(ui) \in Seq(WindowRef)
      BY <1>11, HeadTailProperties DEF UIUnload, TypeOK
    <2> QED
      BY <1>0, <1>11, <2>1, NilRefs DEF UIUnload, TypeOK, Without, PageStages, Gone
  <1>12. CASE UIPanic
    BY <1>1, <1>12 DEF UIPanic
  <1>13. ASSUME NEW p \in Pages, Rendezvous(p) PROVE TypeOK'
    BY <1>0, <1>13 DEF Rendezvous, TypeOK, MainStages, HandlerStages
  <1>14. ASSUME NEW p \in Pages, PageStep(p) PROVE TypeOK'
    <2>0. ASSUME NEW from, NEW to \in Shown, PageMove(p, from, to)
          PROVE  page' \in [Pages -> PageStages]
      BY <2>0 DEF PageMove, TypeOK, PageStages
    <2>1. CASE PageNavigate(p)
      BY <1>0, <2>0, <2>1 DEF PageNavigate, PageMove, TypeOK, Shown
    <2>2. CASE PageFail(p)
      BY <1>0, <2>0, <2>2 DEF PageFail, PageMove, TypeOK, Shown
    <2>3. CASE PageConnect(p)
      BY <1>0, <2>0, <2>3 DEF PageConnect, PageMove, TypeOK, Shown, Connected, ControlStages, PageRef
    <2>4. CASE PageReady(p)
      BY <1>0, <2>0, <2>4 DEF PageReady, PageMove, TypeOK, Shown, Connected
    <2>5. CASE PageTTY(p)
      BY <1>0, <2>0, <2>5 DEF PageTTY, PageMove, TypeOK, Shown, Connected
    <2>6. CASE PageTTYFatal(p)
      BY <1>1, <2>6 DEF PageTTYFatal
    <2>7. CASE PageLoaded(p)
      BY <1>0, <2>0, <2>7 DEF PageLoaded, PageMove, TypeOK, Shown, Connected, HandlerStages
    <2> QED
      BY <1>14, <2>1, <2>2, <2>3, <2>4, <2>5, <2>6, <2>7 DEF PageStep
  <1>15. ASSUME NEW p \in Pages, HandlerStep(p) PROVE TypeOK'
    BY <1>0, <1>15 DEF HandlerStep, HandlerCheck, HandlerEvaluate, TypeOK, HandlerStages
  <1>16. ASSUME NEW p \in Pages, ControlStep(p) PROVE TypeOK'
    <2>1. CASE ControlCleanup(p)
      BY <1>0, <2>1, NilRefs DEF ControlCleanup, TypeOK, ControlStages, Stopping
    <2>2. CASE ControlStop(p)
      BY <1>0, <2>2, NilRefs, StopType DEF ControlStop, AfterLook, TypeOK, ControlStages, Stopping
    <2>4. CASE ControlCancel(p) \/ ControlForget(p)
      BY <1>0, <2>4, NilRefs, StopType DEF ControlCancel, ControlForget, TypeOK, ControlStages, Stopping
    <2>5. CASE ControlPanic(p)
      BY <1>0, <2>5 DEF ControlPanic, TypeOK, ControlStages, Stopping
    <2>3. CASE ControlSignal(p)
      BY <1>0, <2>3 DEF ControlSignal, StopSignal, TypeOK, ControlStages, Stopping, MainStages
    <2> QED
      BY <1>16, <2>1, <2>2, <2>3, <2>4, <2>5 DEF ControlStep
  <1>17. ASSUME NEW p \in Pages, VisitorOpen(p) \/ UserClose(p) PROVE TypeOK'
    BY <1>0, <1>17 DEF VisitorOpen, UserClose, PageMove, TypeOK, PageStages, Shown, Gone
  <1>18. ASSUME NEW e \in ExitKinds, ExitBegin(e) PROVE TypeOK'
    BY <1>0, <1>18 DEF ExitBegin, TypeOK, ExitStages, Stopping, PageRef
  <1>19. ASSUME NEW e \in ExitKinds, ExitStep(e) PROVE TypeOK'
    <2>1. CASE ExitFatal(e)
      BY <1>1, <2>1 DEF ExitFatal
    <2>2. CASE ExitOpenImage(e)
      BY <1>0, <2>2 DEF ExitOpenImage, TypeOK, ExitStages, Stopping
    <2>3. CASE ExitWritten(e)
      BY <1>0, <2>3 DEF ExitWritten, TypeOK, ExitStages, Stopping
    <2>4. CASE ExitStop(e)
      BY <1>0, <2>4, NilRefs, StopType DEF ExitStop, AfterLook, TypeOK, ExitStages, Stopping
    <2>6. CASE ExitCancel(e) \/ ExitForget(e)
      BY <1>0, <2>6, NilRefs, StopType DEF ExitCancel, ExitForget, TypeOK, ExitStages, Stopping
    <2>7. CASE ExitPanic(e)
      BY <1>1, <2>7 DEF ExitPanic
    <2>5. CASE ExitSignal(e)
      BY <1>0, <2>5 DEF ExitSignal, StopSignal, TypeOK, ExitStages, Stopping, MainStages
    <2> QED
      BY <1>19, <2>1, <2>2, <2>3, <2>4, <2>5, <2>6, <2>7 DEF ExitStep
  <1>20. CASE UNCHANGED vars
    BY <1>0, <1>20 DEF vars, TypeOK
  <1> QED
    BY <1>2, <1>3, <1>4, <1>5, <1>6, <1>7, <1>8, <1>9, <1>10, <1>11, <1>12,
       <1>13, <1>14, <1>15, <1>16, <1>17, <1>18, <1>19, <1>20, <1>21
       DEF Next, MainStep, UIStep

\* The state of the VM keeps its types in every behaviour.
THEOREM TypeCorrect == Spec => []TypeOK
  BY InitType, StepType, PTL DEF Spec

----------------------------------------------------------------------------
(* A boot that one Exit ends has saved: the inductive invariant. *)

\* Someone has asked the VM to stop: a user closed a console, or an Exit is
\* past its save.
StopCause ==
    \/ \E p \in Pages : page[p] = "closed"
    \/ \E e \in ExitKinds : ex[e] \in Stopping

UnloadPending == \E i \in 1..Len(ui) : ui[i] = Unload

\* In a boot, nothing stops but for a cause: no page is unloaded, no unloading
\* is pending and no Wait has returned without one.
BootStopsForCause ==
    Command = "boot" =>
      /\ \A p \in Pages : page[p] = "unloaded" => StopCause
      /\ UnloadPending => StopCause
      /\ pc = "returned" => StopCause

\* handleControl cleans up only after its page has gone.
ControlAfterPage == \A p \in Pages : ctl[p] \in Stopping => page[p] \in Gone

\* A lone Exit that saves writes the image alone, and is past it once whole.
LoneSave ==
    cfg.SaveOnExit /\ LoneExit =>
      \A e \in ExitKinds : /\ ex[e] = "writing" => image = "partial"
                           /\ ex[e] \in Stopping => image = "new"

ExitedFromBoot == proc = "exited" => Command = "boot" /\ pc = "returned"

\* The boot command neither restarts nor closes its VM.
BootStages ==
    Command = "boot" => pc \in {"start", "await", "clear", "started", "waiting", "returned"}

BootInv ==
    /\ TypeOK
    /\ BootStages
    /\ BootStopsForCause
    /\ ControlAfterPage
    /\ LoneSave
    /\ ExitedFromBoot

\* The boot command stays away from Restart and Close.
LEMMA BootStagesStep == ASSUME BootStages, [Next]_vars PROVE BootStages'
  <1> SUFFICES ASSUME Command = "boot" PROVE BootStages'
    BY DEF BootStages
  <1> USE DEF Continues, Running, mainVars, BootStages
  <1>1. CASE MainStep \/ MainRestartOrClose
    BY <1>1 DEF MainStep, MainStart, MainClear, MainWait, MainCancel, MainForget, MainPanic,
       MainCloseServer, MainExit, MainRestartOrClose, Ends
  <1>2. ASSUME NEW p \in Pages, Rendezvous(p) \/ PageStep(p) \/ HandlerStep(p) \/ ControlStep(p)
                               \/ VisitorOpen(p) \/ UserClose(p)
        PROVE  BootStages'
    BY <1>2 DEF Ends, PageMove, Rendezvous, PageStep, PageNavigate, PageFail, PageConnect, PageReady,
       PageTTY, PageTTYFatal, PageLoaded, HandlerStep, HandlerCheck, HandlerEvaluate, ControlStep,
       ControlCleanup, ControlStop, ControlCancel, ControlForget, ControlPanic, ControlSignal,
       StopSignal, VisitorOpen, UserClose
  <1>3. CASE HTTPFatal \/ HTTPListen \/ UIStep \/ UNCHANGED vars
    BY <1>3 DEF vars, Ends, PageMove, HTTPFatal, HTTPListen, UIStep, UIOpen, UIUnload, UIPanic
  <1>4. ASSUME NEW e \in ExitKinds, ExitBegin(e) \/ ExitStep(e) PROVE BootStages'
    BY <1>4 DEF Ends, ExitBegin, ExitStep, ExitFatal, ExitOpenImage, ExitWritten, ExitStop,
       ExitCancel, ExitForget, ExitPanic, ExitSignal, StopSignal
  <1> QED
    BY <1>1, <1>2, <1>3, <1>4 DEF Next

\* A page that has gone stays gone, and a closed one closed.
LEMMA GoneForGood ==
    ASSUME TypeOK, [Next]_vars, NEW p \in Pages, page[p] \in Gone
    PROVE  page'[p] = page[p]
  <1> USE DEF Continues, Running, pageVars, Gone, Shown, Connected
  <1>1. ASSUME NEW how, Ends(how) PROVE page' = page
    BY <1>1 DEF Ends
  <1>2. ASSUME NEW q \in Pages, NEW from, NEW to, from \cap Gone = {}, PageMove(q, from, to)
        PROVE  page'[p] = page[p]
    BY <1>2 DEF PageMove, TypeOK
  <1>3. ASSUME StopLook \/ StopCancel \/ StopForget PROVE page'[p] = page[p]
    BY <1>3 DEF StopLook, StopCancel, StopForget, Without
  <1>4. CASE MainStep
    BY <1>1, <1>3, <1>4 DEF MainStep, MainStart, MainClear, MainWait, MainCancel, MainForget,
       MainPanic, MainCloseServer, MainExit, TypeOK
  <1>5. CASE MainRestartOrClose
    BY <1>3, <1>5 DEF MainRestartOrClose, MainCancel, MainForget, MainPanic
  <1>6. CASE HTTPFatal \/ HTTPListen
    BY <1>1, <1>6 DEF HTTPFatal, HTTPListen
  <1>7. CASE UIStep
    <2>1. CASE UIOpen
      BY <1>2, <2>1 DEF UIOpen, Pages
    <2>2. CASE UIUnload
      BY <2>2 DEF UIUnload, Without
    <2> QED
      BY <1>1, <1>7, <2>1, <2>2 DEF UIStep, UIPanic
  <1>8. ASSUME NEW q \in Pages, PageStep(q) \/ VisitorOpen(q) \/ UserClose(q)
        PROVE  page'[p] = page[p]
    BY <1>1, <1>2, <1>8 DEF PageStep, PageNavigate, PageFail, PageConnect, PageReady,
       PageTTY, PageTTYFatal, PageLoaded, VisitorOpen, UserClose
  <1>9. ASSUME NEW q \in Pages, Rendezvous(q) \/ HandlerStep(q) PROVE page'[p] = page[p]
    BY <1>9 DEF Rendezvous, HandlerStep, HandlerCheck, HandlerEvaluate
  <1>10. ASSUME NEW q \in Pages, ControlStep(q) PROVE page'[p] = page[p]
    BY <1>3, <1>10 DEF ControlStep, ControlCleanup, ControlStop, ControlCancel, ControlForget,
       ControlPanic, ControlSignal
  <1>11. ASSUME NEW e \in ExitKinds, ExitBegin(e) \/ ExitStep(e) PROVE page'[p] = page[p]
    BY <1>1, <1>3, <1>11 DEF ExitBegin, ExitStep, ExitFatal, ExitOpenImage, ExitWritten,
       ExitStop, ExitCancel, ExitForget, ExitPanic, ExitSignal
  <1> QED
    BY <1>4, <1>5, <1>6, <1>7, <1>8, <1>9, <1>10, <1>11 DEF Next, vars

\* An Exit that is past its save stays so, and one that has begun stays begun.
LEMMA ExitsGoForward ==
    ASSUME TypeOK, [Next]_vars, NEW f \in ExitKinds
    PROVE  /\ ex[f] \in Stopping => ex'[f] \in Stopping
           /\ ex[f] # "idle" => ex'[f] # "idle"
           /\ ex[f] = "forget" => ex'[f] \in {"forget", "signal"}
           /\ ex[f] \in {"signal", "done"} => ex'[f] \in {"signal", "done"}
  <1> DEFINE Forward == /\ ex[f] \in Stopping => ex'[f] \in Stopping
                        /\ ex[f] # "idle" => ex'[f] # "idle"
                        /\ ex[f] = "forget" => ex'[f] \in {"forget", "signal"}
                        /\ ex[f] \in {"signal", "done"} => ex'[f] \in {"signal", "done"}
  <1> USE DEF Continues, Running, exitVars, Stopping
  <1>1. CASE ex' = ex
    BY <1>1
  <1>2. ASSUME NEW e \in ExitKinds, ExitBegin(e) PROVE Forward
    BY <1>2 DEF ExitBegin, TypeOK
  <1>3. ASSUME NEW e \in ExitKinds, ExitStep(e) PROVE Forward
    BY <1>3 DEF ExitStep, ExitFatal, Ends, ExitOpenImage, ExitWritten, ExitStop,
       ExitCancel, ExitForget, ExitPanic, ExitSignal, AfterLook, TypeOK
  <1>4. ASSUME \A e \in ExitKinds : ~ExitBegin(e) /\ ~ExitStep(e) PROVE ex' = ex
    BY <1>4 DEF Next, vars, Ends, MainStep, MainStart, MainClear, MainWait, MainCloseServer,
       MainExit, MainRestartOrClose, MainCancel, MainForget, MainPanic, HTTPFatal, HTTPListen,
       UIStep, UIOpen, UIUnload, UIPanic, Rendezvous, PageStep, PageNavigate, PageFail, PageConnect,
       PageReady, PageTTY, PageTTYFatal, PageLoaded, HandlerStep, HandlerCheck, HandlerEvaluate,
       ControlStep, ControlCleanup, ControlStop, ControlCancel, ControlForget, ControlPanic,
       ControlSignal, VisitorOpen, UserClose
  <1> QED
    BY <1>1, <1>2, <1>3, <1>4

\* A cause for stopping does not go away.
LEMMA StopCauseStays == ASSUME TypeOK, [Next]_vars, StopCause PROVE StopCause'
  <1>1. CASE \E p \in Pages : page[p] = "closed"
    BY <1>1, GoneForGood DEF StopCause, Gone
  <1>2. CASE \E e \in ExitKinds : ex[e] \in Stopping
    BY <1>2, ExitsGoForward DEF StopCause
  <1> QED
    BY <1>1, <1>2 DEF StopCause

\* Without a cause for stopping, no step of a boot unloads a page, sends for
\* one to be unloaded, or ends a Wait.
LEMMA BootStopsForCauseStep ==
    ASSUME BootInv, [Next]_vars
    PROVE  BootStopsForCause'
  <1> SUFFICES ASSUME Command = "boot", ~StopCause'
               PROVE  /\ \A p \in Pages : page'[p] # "unloaded"
                      /\ ~UnloadPending'
                      /\ pc' # "returned"
    BY DEF BootStopsForCause
  <1> USE DEF Continues, Running, mainVars, vmVars, pageVars, exitVars
  <1>1. ~StopCause
    BY StopCauseStays DEF BootInv
  <1>2. /\ \A p \in Pages : page[p] \notin Gone
        /\ ~UnloadPending
        /\ pc # "returned"
        /\ \A e \in ExitKinds : ex[e] \notin Stopping
    BY <1>1 DEF BootInv, BootStopsForCause, StopCause, Gone
  <1>3. \A p \in Pages : ctl[p] \notin Stopping
    BY <1>2 DEF BootInv, ControlAfterPage
  <1>4. ASSUME NEW how, Ends(how) PROVE page' = page /\ ui' = ui /\ pc' = pc
    BY <1>4 DEF Ends
  <1>5. ASSUME page' = page, ui' = ui, pc' = pc \/ pc' # "returned"
        PROVE  /\ \A q \in Pages : page'[q] # "unloaded"
               /\ ~UnloadPending'
               /\ pc' # "returned"
    BY <1>2, <1>5 DEF UnloadPending, Gone
  <1>6. CASE MainStep
    <2>1. CASE MainStart
      <3>1. PICK p \in Windows :
              /\ page' = [page EXCEPT ![p] = "requested"]
              /\ ui' = (IF cfg.ChromeDP THEN ui ELSE Append(ui, p))
        BY <2>1 DEF MainStart
      <3>2. p # NoPage
        BY PagesAssumption
      <3>3. ~UnloadPending'
        BY <1>2, <3>1, <3>2, AppendProperties DEF UnloadPending, Unload, BootInv, TypeOK
      <3> QED
        BY <1>2, <2>1, <3>1, <3>3 DEF MainStart, BootInv, TypeOK, Gone
    <2>2. CASE MainClear \/ MainWait \/ MainCloseServer \/ MainExit
      BY <1>4, <1>5, <2>2 DEF MainClear, MainWait, MainCloseServer, MainExit
    <2>3. ~MainCancel /\ ~MainForget /\ ~MainPanic
      BY DEF BootInv, BootStages, MainCancel, MainForget, MainPanic
    <2> QED
      BY <1>6, <2>1, <2>2, <2>3 DEF MainStep
  <1>7. CASE MainRestartOrClose
    BY <1>7 DEF MainRestartOrClose
  <1>8. CASE HTTPFatal \/ HTTPListen
    BY <1>4, <1>5, <1>8 DEF HTTPFatal, HTTPListen
  <1>9. CASE UIStep
    <2>1. CASE UIOpen
      <3>1. ~UnloadPending'
        BY <1>2, <2>1, HeadTailProperties DEF UIOpen, UnloadPending, BootInv, TypeOK
      <3> QED
        BY <1>2, <2>1, <3>1 DEF UIOpen, PageMove, BootInv, TypeOK, Gone
    <2>2. CASE UIUnload
      <3>1. ui[1] = Unload /\ 1 \in 1..Len(ui)
        BY <2>2, HeadTailProperties DEF UIUnload, BootInv, TypeOK
      <3> QED
        BY <1>2, <3>1 DEF UnloadPending
    <2> QED
      BY <1>4, <1>5, <1>9, <2>1, <2>2 DEF UIStep, UIPanic
  <1>10. ASSUME NEW p \in Pages, Rendezvous(p) \/ HandlerStep(p)
        PROVE  /\ \A q \in Pages : page'[q] # "unloaded"
               /\ ~UnloadPending'
               /\ pc' # "returned"
    BY <1>5, <1>10 DEF Rendezvous, HandlerStep, HandlerCheck, HandlerEvaluate
  <1>11. ASSUME NEW p \in Pages, PageStep(p) \/ VisitorOpen(p) \/ UserClose(p)
        PROVE  /\ \A q \in Pages : page'[q] # "unloaded"
               /\ ~UnloadPending'
               /\ pc' # "returned"
    <2>1. ASSUME NEW from, NEW to \in PageStages \ {"unloaded"}, PageMove(p, from, to)
          PROVE  \A q \in Pages : page'[q] # "unloaded"
      BY <1>2, <2>1 DEF PageMove, BootInv, TypeOK, Gone
    <2>2. ui' = ui /\ pc' = pc
      BY <1>4, <1>11 DEF PageStep, PageNavigate, PageFail, PageConnect, PageReady, PageTTY,
         PageTTYFatal, PageLoaded, VisitorOpen, UserClose
    <2>3. \A q \in Pages : page'[q] # "unloaded"
      BY <1>2, <1>4, <1>11, <2>1 DEF PageStep, PageNavigate, PageFail, PageConnect, PageReady,
         PageTTY, PageTTYFatal, PageLoaded, VisitorOpen, UserClose, PageStages, Shown, Gone, Connected
    <2> QED
      BY <1>2, <2>2, <2>3 DEF UnloadPending
  <1>12. ASSUME NEW p \in Pages, ControlStep(p)
        PROVE  /\ \A q \in Pages : page'[q] # "unloaded"
               /\ ~UnloadPending'
               /\ pc' # "returned"
    BY <1>3, <1>5, <1>12 DEF ControlStep, ControlCleanup, ControlStop, ControlCancel, ControlForget,
       ControlPanic, ControlSignal, Stopping
  <1>13. ASSUME NEW e \in ExitKinds, ExitBegin(e) \/ ExitStep(e)
        PROVE  /\ \A q \in Pages : page'[q] # "unloaded"
               /\ ~UnloadPending'
               /\ pc' # "returned"
    BY <1>2, <1>4, <1>5, <1>13 DEF ExitBegin, ExitStep, ExitFatal, ExitOpenImage, ExitWritten,
       ExitStop, ExitCancel, ExitForget, ExitPanic, ExitSignal, Stopping
  <1>14. CASE UNCHANGED vars
    BY <1>5, <1>14 DEF vars
  <1> QED
    BY <1>6, <1>7, <1>8, <1>9, <1>10, <1>11, <1>12, <1>13, <1>14 DEF Next

\* A control goroutine is past its clean-up only when its page has gone.
LEMMA ControlAfterPageStep == ASSUME BootInv, [Next]_vars PROVE ControlAfterPage'
  <1> SUFFICES ASSUME NEW p \in Pages, ctl'[p] \in Stopping PROVE page'[p] \in Gone
    BY DEF ControlAfterPage
  <1> USE DEF Continues, Running, pageVars
  <1>1. page[p] \in Gone => page'[p] \in Gone
    BY GoneForGood DEF BootInv
  <1>2. CASE ctl[p] \in Stopping
    BY <1>1, <1>2 DEF BootInv, ControlAfterPage
  <1>3. CASE ctl[p] \notin Stopping
    <2>1. ASSUME NEW q \in Pages, ControlStep(q) PROVE page[p] \in Gone
      BY <1>3, <2>1 DEF ControlStep, ControlCleanup, ControlStop, ControlCancel, ControlForget,
         ControlPanic, ControlSignal, BootInv, TypeOK, Stopping
    <2>2. ASSUME NEW q \in Pages, PageStep(q) PROVE ctl'[p] \notin Stopping
      BY <1>3, <2>2 DEF PageStep, PageNavigate, PageFail, PageConnect, PageReady, PageTTY,
         PageTTYFatal, PageLoaded, Ends, BootInv, TypeOK, Stopping
    <2>3. ASSUME \A q \in Pages : ~ControlStep(q) /\ ~PageStep(q) PROVE ctl' = ctl
      BY <2>3 DEF Next, vars, Ends, MainStep, MainStart, MainClear, MainWait, MainCloseServer,
         MainExit, MainRestartOrClose, MainCancel, MainForget, MainPanic, HTTPFatal, HTTPListen,
         UIStep, UIOpen, UIUnload, UIPanic, PageMove, Rendezvous, HandlerStep, HandlerCheck,
         HandlerEvaluate, VisitorOpen, UserClose, ExitBegin, ExitStep, ExitFatal, ExitOpenImage,
         ExitWritten, ExitStop, ExitCancel, ExitForget, ExitPanic, ExitSignal
    <2> QED
      BY <1>1, <1>3, <2>1, <2>2, <2>3
  <1> QED
    BY <1>2, <1>3

\* A lone Exit that saves keeps the image to itself.
LEMMA LoneSaveStep == ASSUME BootInv, [Next]_vars PROVE LoneSave'
  <1> SUFFICES ASSUME cfg.SaveOnExit, LoneExit', NEW f \in ExitKinds
               PROVE  /\ ex'[f] = "writing" => image' = "partial"
                      /\ ex'[f] \in Stopping => image' = "new"
    <2>1. cfg' = cfg
      BY DEF Next, vars, Ends, Continues, Running, PageMove, MainStep, MainStart, MainClear,
         MainWait, MainCloseServer, MainExit, MainRestartOrClose, MainCancel, MainForget, MainPanic,
         HTTPFatal, HTTPListen, UIStep, UIOpen, UIUnload, UIPanic, Rendezvous, PageStep,
         PageNavigate, PageFail, PageConnect, PageReady, PageTTY, PageTTYFatal, PageLoaded,
         HandlerStep, HandlerCheck, HandlerEvaluate, ControlStep, ControlCleanup, ControlStop,
         ControlCancel, ControlForget, ControlPanic, ControlSignal, VisitorOpen, UserClose,
         ExitBegin, ExitStep, ExitFatal, ExitOpenImage, ExitWritten, ExitStop, ExitCancel,
         ExitForget, ExitPanic, ExitSignal
    <2> QED
      BY <2>1 DEF LoneSave
  <1> USE DEF Continues, Running, exitVars, Stopping
  <1>1. LoneExit
    BY ExitsGoForward DEF LoneExit, BootInv
  <1>2. \A e \in ExitKinds : /\ ex[e] = "writing" => image = "partial"
                             /\ ex[e] \in Stopping => image = "new"
    BY <1>1 DEF BootInv, LoneSave
  <1>3. ASSUME NEW e \in ExitKinds, ex[e] # "idle" \/ ex'[e] # "idle", f # e
        PROVE  ex'[f] = "idle"
    BY <1>3, ExitsGoForward DEF LoneExit, BootInv
  <1>4. ASSUME NEW e \in ExitKinds, ExitBegin(e)
        PROVE  /\ ex'[f] = "writing" => image' = "partial"
               /\ ex'[f] \in Stopping => image' = "new"
    BY <1>2, <1>3, <1>4 DEF ExitBegin, BootInv, TypeOK
  <1>5. ASSUME NEW e \in ExitKinds, ExitStep(e)
        PROVE  /\ ex'[f] = "writing" => image' = "partial"
               /\ ex'[f] \in Stopping => image' = "new"
    <2>1. ex[e] # "idle" => \A g \in ExitKinds : g # e => ex[g] = "idle"
      BY <1>1 DEF LoneExit
    <2>2. CASE ExitFatal(e)
      BY <1>2, <2>2 DEF ExitFatal, Ends
    <2>3. CASE ExitOpenImage(e)
      BY <1>3, <2>1, <2>3 DEF ExitOpenImage, Writers, BootInv, TypeOK
    <2>4. CASE ExitWritten(e)
      <3>1. Writers = {e}
        BY <2>1, <2>4 DEF ExitWritten, Writers
      <3>2. image = "partial"
        BY <1>2, <2>4 DEF ExitWritten
      <3> QED
        BY <1>3, <2>4, <3>1, <3>2 DEF ExitWritten, BootInv, TypeOK
    <2>5. CASE ExitStop(e) \/ ExitCancel(e) \/ ExitForget(e) \/ ExitSignal(e)
      BY <1>2, <1>3, <2>5 DEF ExitStop, ExitCancel, ExitForget, ExitSignal, AfterLook,
         Stopping, BootInv, TypeOK
    <2>6. CASE ExitPanic(e)
      BY <1>2, <2>6 DEF ExitPanic, Ends
    <2> QED
      BY <1>5, <2>2, <2>3, <2>4, <2>5, <2>6 DEF ExitStep
  <1>6. ASSUME \A e \in ExitKinds : ~ExitBegin(e) /\ ~ExitStep(e)
        PROVE  ex' = ex /\ image' = image
    BY <1>6 DEF Next, vars, Ends, PageMove, MainStep, MainStart, MainClear, MainWait,
       MainCloseServer, MainExit, MainRestartOrClose, MainCancel, MainForget, MainPanic, HTTPFatal,
       HTTPListen, UIStep, UIOpen, UIUnload, UIPanic, Rendezvous, PageStep, PageNavigate, PageFail,
       PageConnect, PageReady, PageTTY, PageTTYFatal, PageLoaded, HandlerStep, HandlerCheck,
       HandlerEvaluate, ControlStep, ControlCleanup, ControlStop, ControlCancel, ControlForget,
       ControlPanic, ControlSignal, VisitorOpen, UserClose
  <1> QED
    BY <1>2, <1>4, <1>5, <1>6

\* The process exits only at the end of a boot, and nothing runs after that.
LEMMA ExitedFromBootStep == ASSUME BootInv, [Next]_vars PROVE ExitedFromBoot'
  <1> USE DEF Continues, Running, mainVars, ExitedFromBoot
  <1>1. CASE MainExit
    BY <1>1 DEF MainExit, Ends
  <1>2. CASE UNCHANGED vars
    BY <1>2 DEF vars, BootInv
  <1>3. CASE [Next]_vars /\ ~MainExit /\ ~UNCHANGED vars
    <2>1. proc' # "exited"
      BY <1>3 DEF Next, Ends, PageMove, MainStep, MainStart, MainClear, MainWait, MainCloseServer,
         MainRestartOrClose, MainCancel, MainForget, MainPanic, HTTPFatal, HTTPListen, UIStep,
         UIOpen, UIUnload, UIPanic, Rendezvous, PageStep, PageNavigate, PageFail, PageConnect,
         PageReady, PageTTY, PageTTYFatal, PageLoaded, HandlerStep, HandlerCheck, HandlerEvaluate,
         ControlStep, ControlCleanup, ControlStop, ControlCancel, ControlForget, ControlPanic,
         ControlSignal, VisitorOpen, UserClose, ExitBegin, ExitStep, ExitFatal, ExitOpenImage,
         ExitWritten, ExitStop, ExitCancel, ExitForget, ExitPanic, ExitSignal
    <2> QED
      BY <2>1
  <1> QED
    BY <1>1, <1>2, <1>3

\* Initial states satisfy the invariant: nothing has happened yet.
LEMMA BootInvInit == Init => BootInv
  <1> SUFFICES ASSUME Init PROVE BootInv
    OBVIOUS
  <1>1. Len(ui) = 0
    BY DEF Init
  <1> QED
    BY <1>1, InitType DEF Init, BootInv, BootStages, BootStopsForCause, UnloadPending, ControlAfterPage,
       LoneSave, ExitedFromBoot, Stopping

\* The invariant holds in every behaviour.
LEMMA BootInvHolds == Spec => []BootInv
  <1>1. BootInv /\ [Next]_vars => BootInv'
    BY StepType, BootStagesStep, BootStopsForCauseStep, ControlAfterPageStep, LoneSaveStep,
       ExitedFromBootStep DEF BootInv
  <1> QED
    BY BootInvInit, <1>1, PTL DEF Spec

\* A boot that one Exit ends, with SaveOnExit and no console closed by a user,
\* leaves the new state whole on disk, however many windows and visitors.
THEOREM CleanExitIsSaved == Spec => []CleanExitSaved
  <1>1. BootInv => CleanExitSaved
    BY DEF BootInv, BootStopsForCause, LoneSave, ExitedFromBoot, CleanExitSaved, StopCause, UserClosed
  <1> QED
    BY BootInvHolds, <1>1, PTL

----------------------------------------------------------------------------
(* A boot that one Exit ends unloads no nil window and cancels no nil page. *)

\* Before Start nothing has been shown or is to be shown.
NothingAtStart ==
    pc = "start" =>
      /\ ui = <<>>
      /\ win = NoPage
      /\ cdpCancel = NoPage
      /\ \A p \in Pages : page[p] = "absent"

\* The closure that waits for the UI, if any, opens the window or unloads it:
\* only an Exit that has stopped the VM asks for the latter, while the window is
\* there.  Once a page is unloaded no window is left and no closure waits, and an
\* Exit has done it or cancelled the page; until then one that is about to cancel
\* finds the page.
OneUnload ==
    /\ Len(ui) <= 1
    /\ win # NoPage => \A i \in 1..Len(ui) : ui[i] = Unload
    /\ UnloadPending => win # NoPage /\ \E e \in ExitKinds : ex[e] \in {"signal", "done"}
    /\ (\E p \in Pages : page[p] = "unloaded") =>
         win = NoPage /\ ui = <<>> /\ \E e \in ExitKinds : ex[e] \in {"forget", "signal", "done"}
    /\ \A e \in ExitKinds : ex[e] = "cancel" => cdpCancel # NoPage

LoneStop ==
    Command = "boot" =>
      /\ NothingAtStart
      /\ UserClosed = {} /\ LoneExit => proc # "panicked" /\ OneUnload

StopInv == BootInv /\ LoneStop

\* No user has closed a console, and one Exit has begun at most, before a step
\* after which that is so.
LEMMA LoneBefore ==
    ASSUME TypeOK, [Next]_vars, UserClosed' = {}, LoneExit'
    PROVE  UserClosed = {} /\ LoneExit
  BY GoneForGood, ExitsGoForward DEF UserClosed, LoneExit, Gone

\* A headless run asks the UI for nothing.
LEMMA HeadlessUI ==
    ASSUME TypeOK, OneUnload, cdpCancel # NoPage
    PROVE  win = NoPage /\ ui = <<>>
  <1>1. cfg.ChromeDP
    BY DEF TypeOK, HeadlessRef
  <1>2. win = NoPage /\ WindowRef = {NoPage}
    BY <1>1 DEF TypeOK, WindowRef
  <1>3. \A i \in 1..Len(ui) : ui[i] = Unload
    BY <1>2, ElementOfSeq DEF TypeOK, Unload
  <1>4. Len(ui) = 0
    BY <1>2, <1>3, LenProperties DEF TypeOK, OneUnload, UnloadPending
  <1> QED
    BY <1>2, <1>4, EmptySeq DEF TypeOK

\* Before Start there is nothing to show or to stop.
LEMMA NothingAtStartStep ==
    ASSUME Command = "boot", TypeOK, BootStages, NothingAtStart, [Next]_vars
    PROVE  NothingAtStart'
  <1> SUFFICES ASSUME pc' = "start"
               PROVE  /\ ui' = <<>> /\ win' = NoPage /\ cdpCancel' = NoPage
                      /\ \A p \in Pages : page'[p] = "absent"
    BY DEF NothingAtStart
  <1> USE DEF Continues, Running, mainVars, vmVars, pageVars, exitVars, BootStages
  <1>1. pc = "start"
    BY DEF Next, vars, Ends, PageMove, MainStep, MainStart, MainClear, MainWait, MainCloseServer,
       MainExit, MainRestartOrClose, MainCancel, MainForget, MainPanic, HTTPFatal, HTTPListen,
       UIStep, UIOpen, UIUnload, UIPanic, Rendezvous, PageStep, PageNavigate, PageFail, PageConnect,
       PageReady, PageTTY, PageTTYFatal, PageLoaded, HandlerStep, HandlerCheck, HandlerEvaluate,
       ControlStep, ControlCleanup, ControlStop, ControlCancel, ControlForget, ControlPanic,
       ControlSignal, StopSignal, VisitorOpen, UserClose, ExitBegin, ExitStep, ExitFatal,
       ExitOpenImage, ExitWritten, ExitStop, ExitCancel, ExitForget, ExitPanic, ExitSignal
  <1>2. /\ ui = <<>> /\ win = NoPage /\ cdpCancel = NoPage
        /\ \A p \in Pages : page[p] = "absent"
    BY <1>1 DEF NothingAtStart
  <1>3. StopLook \/ StopCancel \/ StopForget => UNCHANGED <<ui, win, cdpCancel, page>>
    BY <1>2 DEF StopLook, StopCancel, StopForget
  <1>4. CASE UNCHANGED <<ui, win, cdpCancel, page>>
    BY <1>2, <1>4
  <1>5. ~MainStart
    BY <1>1 DEF MainStart
  <1>6. ~UIStep
    BY <1>2 DEF UIStep, UIOpen, UIUnload, UIPanic
  <1>7. ASSUME NEW p \in Pages, PageStep(p) \/ VisitorOpen(p) \/ UserClose(p) PROVE FALSE
    BY <1>1, <1>2, <1>7 DEF PageStep, PageNavigate, PageFail, PageConnect, PageReady, PageTTY,
       PageTTYFatal, PageLoaded, VisitorOpen, UserClose, PageMove, Shown, Connected
  <1>8. ASSUME NEW p \in Pages, ControlStep(p) PROVE UNCHANGED <<ui, win, cdpCancel, page>>
    BY <1>2, <1>3, <1>8 DEF ControlStep, ControlCleanup, ControlStop, ControlCancel, ControlForget,
       ControlPanic, ControlSignal
  <1>9. ASSUME \A p \in Pages : ~PageStep(p) /\ ~VisitorOpen(p) /\ ~UserClose(p) /\ ~ControlStep(p)
        PROVE  UNCHANGED <<ui, win, cdpCancel, page>>
    BY <1>1, <1>3, <1>5, <1>6, <1>9 DEF Next, vars, Ends, MainStep, MainClear, MainWait,
       MainCloseServer, MainExit, MainRestartOrClose, MainCancel, MainForget, MainPanic, HTTPFatal,
       HTTPListen, Rendezvous, HandlerStep, HandlerCheck, HandlerEvaluate, ExitBegin, ExitStep,
       ExitFatal, ExitOpenImage, ExitWritten, ExitStop, ExitCancel, ExitForget, ExitPanic,
       ExitSignal
  <1> QED
    BY <1>4, <1>7, <1>8, <1>9

\* One Exit asks for one unloading, and the window is there when the UI does it;
\* and the page is there when the Exit cancels it.
LEMMA OneUnloadStep ==
    ASSUME Command = "boot", StopInv, [Next]_vars, UserClosed' = {}, LoneExit'
    PROVE  proc' # "panicked" /\ OneUnload'
  <1> DEFINE Unloaded == \E p \in Pages : page[p] = "unloaded"
  <1> USE DEF Continues, Running, mainVars, vmVars, pageVars, exitVars
  <1>0. /\ TypeOK /\ NothingAtStart /\ OneUnload /\ proc # "panicked" /\ UserClosed = {} /\ LoneExit
        /\ ControlAfterPage /\ BootStages
    BY LoneBefore DEF StopInv, BootInv, LoneStop
  <1>1. ui \in Seq(WindowRef) /\ Len(ui) \in 0..1 /\ NoPage \notin Pages
    <2>1. ui \in Seq(WindowRef) /\ Len(ui) <= 1 /\ NoPage \notin Pages
      BY <1>0, PagesAssumption DEF TypeOK, OneUnload, Pages
    <2>2. Len(ui) \in Nat
      BY <2>1, LenProperties
    <2>3. \A n \in Nat : n <= 1 => n \in 0..1
      OBVIOUS
    <2> QED
      BY <2>1, <2>2, <2>3
  <1>2. \A e \in ExitKinds : /\ ex[e] \in {"signal", "done"} => ex'[e] \in {"signal", "done"}
                             /\ ex[e] = "forget" => ex'[e] \in {"forget", "signal"}
    BY <1>0, ExitsGoForward
  <1>3. ASSUME ui' = ui, win' = win, cdpCancel' = cdpCancel, Unloaded' => Unloaded,
               \A e \in ExitKinds : ex'[e] = "cancel" => ex[e] = "cancel"
        PROVE  OneUnload'
    BY <1>0, <1>2, <1>3 DEF OneUnload, UnloadPending
  <1>4. ASSUME NEW e \in ExitKinds, ex[e] \in Stopping, ex'[e] # "cancel"
        PROVE  \A f \in ExitKinds : ex'[f] # "cancel"
    BY <1>0, <1>4, ExitsGoForward DEF LoneExit, Stopping
  <1>6. \A p \in Pages : ctl[p] \in Stopping => Unloaded
    BY <1>0 DEF ControlAfterPage, UserClosed, Gone
  <1>7. CASE MainStart
    <2>1. PICK p \in Windows :
            /\ page' = [page EXCEPT ![p] = "requested"]
            /\ ui' = (IF cfg.ChromeDP THEN ui ELSE Append(ui, p))
      BY <1>7 DEF MainStart
    <2>2. /\ ui = <<>> /\ win = NoPage /\ \A q \in Pages : page[q] = "absent"
          /\ win' = win /\ proc' = proc /\ ex' = ex /\ cdpCancel = NoPage
      BY <1>0, <1>7 DEF MainStart, NothingAtStart
    <2>3. \A q \in Pages : page'[q] # "unloaded"
      BY <1>0, <2>1, <2>2 DEF TypeOK
    <2>4. ui' = <<>> \/ ui' = <<p>>
      BY <2>1, <2>2
    <2>5. Len(ui') <= 1 /\ \A i \in 1..Len(ui') : ui'[i] # Unload
      BY <1>1, <2>4 DEF Unload, Pages
    <2> QED
      BY <1>0, <2>2, <2>3, <2>5 DEF OneUnload, UnloadPending
  <1>8. CASE MainClear \/ MainWait \/ MainCloseServer \/ MainExit
    BY <1>0, <1>3, <1>8 DEF MainClear, MainWait, MainCloseServer, MainExit, Ends
  <1>9. CASE HTTPFatal \/ HTTPListen
    BY <1>0, <1>3, <1>9 DEF HTTPFatal, HTTPListen, Ends
  <1>10. CASE UIOpen
    <2>1. Len(ui) = 1 /\ ui[1] = Head(ui) /\ ui' = Tail(ui) /\ win' = Head(ui) /\ Head(ui) \in Windows
      BY <1>1, <1>10, EmptySeq DEF UIOpen
    <2>2. ui' = <<>>
      BY <1>1, <2>1
    <2>3. win = NoPage /\ ~Unloaded
      <3>1. ui # <<>> /\ ui[1] # Unload /\ 1 \in 1..Len(ui)
        BY <1>1, <1>10, <2>1 DEF UIOpen, Unload, Pages
      <3> QED
        BY <1>0, <3>1 DEF OneUnload
    <2>4. ~Unloaded'
      BY <1>0, <1>10, <2>3 DEF UIOpen, PageMove, TypeOK
    <2> QED
      BY <1>0, <1>10, <2>2, <2>4 DEF OneUnload, UnloadPending, UIOpen, PageMove
  <1>11. CASE UIUnload
    <2>1. Len(ui) = 1 /\ ui[1] = Unload /\ ui' = Tail(ui) /\ win' = NoPage
      BY <1>1, <1>11, EmptySeq DEF UIUnload
    <2>2. ui' = <<>> /\ UnloadPending
      BY <1>1, <2>1 DEF UnloadPending
    <2>3. win # NoPage /\ \E e \in ExitKinds : ex[e] \in {"signal", "done"}
      BY <1>0, <2>2 DEF OneUnload
    <2>4. ~UnloadPending' /\ Len(ui') = 0
      BY <2>2 DEF UnloadPending
    <2>5. ex' = ex /\ cdpCancel' = cdpCancel /\ proc' = proc
      BY <1>11 DEF UIUnload
    <2>6. \E e \in ExitKinds : ex'[e] \in {"forget", "signal", "done"}
      BY <2>3, <2>5
    <2>7. \A e \in ExitKinds : ex'[e] = "cancel" => cdpCancel' # NoPage
      BY <1>0, <2>5 DEF OneUnload
    <2>8. OneUnload'
      <3>1. win' = NoPage /\ ui' = <<>>
        BY <1>11, <2>2 DEF UIUnload
      <3>2. Len(ui') <= 1
        BY <2>4
      <3> QED
        BY <2>4, <2>6, <2>7, <3>1, <3>2 DEF OneUnload
    <2> QED
      BY <1>0, <2>5, <2>8
  <1>12. ~UIPanic
    <2>1. ui # <<>> /\ Head(ui) = Unload => UnloadPending
      BY <1>1, EmptySeq DEF UnloadPending
    <2> QED
      BY <1>0, <2>1 DEF UIPanic, OneUnload
  <1>13. ASSUME NEW p \in Pages, Rendezvous(p) \/ HandlerStep(p) PROVE proc' # "panicked" /\ OneUnload'
    BY <1>0, <1>3, <1>13 DEF Rendezvous, HandlerStep, HandlerCheck, HandlerEvaluate
  <1>14. ASSUME NEW p \in Pages, PageStep(p) \/ VisitorOpen(p) \/ UserClose(p)
         PROVE  proc' # "panicked" /\ OneUnload'
    <2>1. ui' = ui /\ win' = win /\ proc' # "panicked"
      BY <1>0, <1>14 DEF PageStep, PageNavigate, PageFail, PageConnect, PageReady, PageTTY,
         PageTTYFatal, PageLoaded, VisitorOpen, UserClose, PageMove, Ends
    <2>2. Unloaded' => Unloaded
      BY <1>0, <1>14 DEF PageStep, PageNavigate, PageFail, PageConnect, PageReady, PageTTY,
         PageTTYFatal, PageLoaded, VisitorOpen, UserClose, PageMove, Ends, TypeOK
    <2>3. cdpCancel' = cdpCancel /\ ex' = ex
      BY <1>14 DEF PageStep, PageNavigate, PageFail, PageConnect, PageReady, PageTTY,
         PageTTYFatal, PageLoaded, VisitorOpen, UserClose, PageMove, Ends
    <2> QED
      BY <1>3, <2>1, <2>2, <2>3
  <1>15. ASSUME NEW p \in Pages, ControlStep(p) PROVE proc' # "panicked" /\ OneUnload'
    <2>1. Unloaded /\ proc' = proc /\ ex' = ex
      BY <1>0, <1>6, <1>15 DEF ControlStep, ControlCleanup, ControlStop, ControlCancel,
         ControlForget, ControlPanic, ControlSignal, UserClosed, Gone, Stopping
    <2>2. /\ win = NoPage /\ ui = <<>>
          /\ \E e \in ExitKinds : ex[e] \in {"forget", "signal", "done"}
      BY <1>0, <2>1 DEF OneUnload
    <2>3. ui' = ui /\ win' = NoPage
      BY <1>15, <2>2 DEF ControlStep, ControlCleanup, ControlStop, ControlCancel,
         ControlForget, ControlPanic, ControlSignal, StopLook, StopCancel, StopForget
    <2>4. \A e \in ExitKinds : ex[e] # "cancel"
      BY <1>0, <2>2 DEF LoneExit
    <2> QED
      BY <1>0, <2>1, <2>2, <2>3, <2>4 DEF OneUnload, UnloadPending
  <1>16. ASSUME NEW e \in ExitKinds, ExitBegin(e) \/ ExitFatal(e) \/ ExitOpenImage(e)
                                     \/ ExitWritten(e) \/ ExitSignal(e)
         PROVE  proc' # "panicked" /\ OneUnload'
    <2>1. \A f \in ExitKinds : ex'[f] = "cancel" => ex[f] = "cancel"
      BY <1>0, <1>16 DEF ExitBegin, ExitFatal, ExitOpenImage, ExitWritten, ExitSignal, Ends, TypeOK
    <2> QED
      BY <1>0, <1>3, <1>16, <2>1 DEF ExitBegin, ExitFatal, ExitOpenImage, ExitWritten, ExitSignal, Ends
  <1>17. ASSUME NEW e \in ExitKinds, ExitStop(e) PROVE proc' # "panicked" /\ OneUnload'
    <2>1. /\ ex[e] = "stop" /\ ex' = [ex EXCEPT ![e] = AfterLook] /\ StopLook /\ proc' = proc
      BY <1>17 DEF ExitStop
    <2>2. /\ win' = win /\ cdpCancel' = cdpCancel /\ page' = page
          /\ ex'[e] = AfterLook /\ \A f \in ExitKinds \ {e} : ex'[f] = "idle"
      BY <1>0, <2>1 DEF StopLook, TypeOK, LoneExit
    <2>3. ~Unloaded /\ ~UnloadPending
      BY <1>0, <2>1 DEF OneUnload, LoneExit
    <2>4. \A f \in ExitKinds : ex'[f] = "cancel" => cdpCancel' # NoPage
      BY <2>2 DEF AfterLook
    <2>5. CASE win = NoPage
      BY <1>0, <2>1, <2>2, <2>3, <2>4, <2>5 DEF StopLook, OneUnload, UnloadPending
    <2>6. CASE win # NoPage
      <3>1. Len(ui) = 0
        BY <1>0, <1>1, <2>3, <2>6 DEF OneUnload, UnloadPending
      <3>2. ui' = <<Unload>>
        BY <1>1, <2>1, <2>6, <3>1, EmptySeq DEF StopLook
      <3>3. Len(ui') = 1 /\ ui'[1] = Unload
        BY <3>2
      <3>4. cdpCancel = NoPage
        BY <1>0, <2>6, HeadlessUI
      <3> QED
        BY <1>0, <2>1, <2>2, <2>3, <2>4, <2>6, <3>3, <3>4 DEF OneUnload, UnloadPending, AfterLook
    <2> QED
      BY <2>5, <2>6
  <1>20. ASSUME NEW e \in ExitKinds, ExitCancel(e) \/ ExitForget(e) \/ ExitPanic(e)
         PROVE  proc' # "panicked" /\ OneUnload'
    <2>1. ~ExitPanic(e)
      BY <1>0 DEF ExitPanic, StopPanics, OneUnload
    <2>2. CASE ExitCancel(e)
      <3>1. ui' = ui /\ win' = win /\ proc' = proc /\ ex[e] = "cancel" /\ ex'[e] = "forget"
        BY <1>0, <2>2 DEF ExitCancel, StopCancel, TypeOK
      <3>2. win = NoPage /\ ui = <<>>
        BY <1>0, <2>2, HeadlessUI DEF ExitCancel, StopCancel
      <3>3. \A f \in ExitKinds : ex'[f] # "cancel"
        BY <1>4, <3>1 DEF Stopping
      <3> QED
        BY <1>0, <3>1, <3>2, <3>3 DEF OneUnload, UnloadPending
    <2>3. CASE ExitForget(e)
      <3>1. /\ ui' = ui /\ win' = win /\ proc' = proc /\ page' = page
            /\ ex[e] = "forget" /\ ex'[e] = "signal"
        BY <1>0, <2>3 DEF ExitForget, StopForget, TypeOK
      <3>2. \A f \in ExitKinds : ex'[f] # "cancel"
        BY <1>4, <3>1 DEF Stopping
      <3> QED
        BY <1>0, <1>2, <3>1, <3>2 DEF OneUnload, UnloadPending
    <2> QED
      BY <1>20, <2>1, <2>2, <2>3
  <1>18. CASE UNCHANGED vars
    BY <1>0, <1>3, <1>18 DEF vars
  <1>19. ~MainRestartOrClose /\ ~MainCancel /\ ~MainForget /\ ~MainPanic
    BY <1>0 DEF BootStages, MainRestartOrClose, MainCancel, MainForget, MainPanic
  <1> QED
    BY <1>7, <1>8, <1>9, <1>10, <1>11, <1>12, <1>13, <1>14, <1>15, <1>16, <1>17, <1>18, <1>19, <1>20
       DEF Next, MainStep, UIStep, ExitStep

\* A boot dies of no nil window and of no nil page unless a user has closed a
\* console or a second Exit has begun, with any number of visitors.
THEOREM LoneStopNeverPanics == ASSUME Command = "boot" PROVE Spec => []LoneStopIsSafe
  <1>1. Init => StopInv
    <2> SUFFICES ASSUME Init PROVE LoneStop
      BY BootInvInit DEF StopInv
    <2> QED
      BY DEF Init, LoneStop, NothingAtStart, OneUnload, UnloadPending
  <1>2. StopInv /\ [Next]_vars => StopInv'
    <2> SUFFICES ASSUME StopInv, [Next]_vars PROVE StopInv'
      OBVIOUS
    <2>1. BootInv'
      BY StepType, BootStagesStep, BootStopsForCauseStep, ControlAfterPageStep, LoneSaveStep,
         ExitedFromBootStep DEF BootInv, StopInv
    <2>2. NothingAtStart'
      BY NothingAtStartStep DEF StopInv, BootInv, LoneStop
    <2>3. UserClosed' = {} /\ LoneExit' => proc' # "panicked" /\ OneUnload'
      BY OneUnloadStep
    <2> QED
      BY <2>1, <2>2, <2>3 DEF StopInv, LoneStop
  <1>3. StopInv => LoneStopIsSafe
    BY DEF StopInv, LoneStop, LoneStopIsSafe
  <1> QED
    BY <1>1, <1>2, <1>3, PTL DEF Spec

----------------------------------------------------------------------------
(* Where nobody visits, Start meets the report of its own page. *)

Reporting == {"checking", "evaluating", "sending"}
HasLoaded == {"loaded"} \cup Gone

\* The pages that are not the latest are past loading or not asked for; the
\* latest is past loading as soon as Start is past its receive; and a report on
\* its way is of the latest page, while Start waits for it.
OneStartAtATime ==
    /\ pc \in {"await", "clear"} => own # NoPage /\ loaded = own
    /\ \A p \in Pages : p # own => page[p] \in {"absent"} \cup HasLoaded
    /\ pc # "await" => own = NoPage \/ page[own] \in HasLoaded
    /\ pc \in {"clear", "started"} => own # NoPage
    /\ \A p \in Pages : hnd[p] \in Reporting => p = own /\ pc = "await" /\ page[p] \in HasLoaded

StartInv == TypeOK /\ OneStartAtATime

\* A page that has loaded or gone stays so.
LEMMA LoadedForGood ==
    ASSUME TypeOK, [Next]_vars, NEW p \in Pages, page[p] \in HasLoaded
    PROVE  page'[p] \in HasLoaded
  <1> USE DEF Continues, Running, pageVars, HasLoaded
  <1>1. CASE page[p] \in Gone
    BY <1>1, GoneForGood
  <1>2. CASE page[p] = "loaded" /\ page' = page
    BY <1>2
  <1>3. ASSUME page[p] = "loaded", NEW q \in Pages, NEW from, NEW to, PageMove(q, from, to),
               "loaded" \notin from \/ to \in Gone
        PROVE  page'[p] \in HasLoaded
    BY <1>3 DEF PageMove, TypeOK
  <1>4. ASSUME page[p] = "loaded", NEW q, page' = Without(q, page) PROVE page'[p] \in HasLoaded
    BY <1>4 DEF Without, Gone
  <1>5. CASE page[p] = "loaded" /\ MainStart
    BY <1>5 DEF MainStart, TypeOK
  <1>6. ASSUME page[p] = "loaded", NEW q \in Pages, PageStep(q) \/ VisitorOpen(q) \/ UserClose(q)
        PROVE  page'[p] \in HasLoaded
    BY <1>2, <1>3, <1>6 DEF PageStep, PageNavigate, PageFail, PageConnect, PageReady, PageTTY,
       PageTTYFatal, PageLoaded, VisitorOpen, UserClose, Ends, Gone
  <1>7. CASE page[p] = "loaded" /\ UIOpen
    BY <1>3, <1>7 DEF UIOpen, Pages
  <1>8. CASE page[p] = "loaded" /\ ~MainStart /\ ~UIOpen
             /\ \A q \in Pages : ~PageStep(q) /\ ~VisitorOpen(q) /\ ~UserClose(q)
    <2>1. page' = page \/ \E q : page' = Without(q, page)
      BY <1>8 DEF Next, vars, Ends, MainStep, MainClear, MainWait, MainCloseServer, MainExit,
         MainRestartOrClose, MainCancel, MainForget, MainPanic, HTTPFatal, HTTPListen, UIStep,
         UIUnload, UIPanic, Rendezvous, HandlerStep, HandlerCheck, HandlerEvaluate, ControlStep,
         ControlCleanup, ControlStop, ControlCancel, ControlForget, ControlPanic, ControlSignal,
         ExitBegin, ExitStep, ExitFatal, ExitOpenImage, ExitWritten, ExitStop, ExitCancel,
         ExitForget, ExitPanic, ExitSignal, StopLook, StopCancel, StopForget
    <2> QED
      BY <1>2, <1>4, <1>8, <2>1
  <1> QED
    BY <1>1, <1>2, <1>5, <1>6, <1>7, <1>8

\* One Start at a time, and none takes the report of an earlier page.
LEMMA OneStartStep ==
    ASSUME Visitors = {}, StartInv, [Next]_vars
    PROVE  OneStartAtATime'
  <1> USE DEF Continues, Running, mainVars, vmVars, pageVars, exitVars
  <1>0. TypeOK /\ OneStartAtATime
    BY DEF StartInv
  <1>1. \A p \in Pages : page[p] \in HasLoaded => page'[p] \in HasLoaded
    BY <1>0, LoadedForGood
  <1>2. ASSUME UNCHANGED <<pc, own, loaded, hnd>>,
               \A p \in Pages : p # own /\ page[p] = "absent" => page'[p] \in {"absent"} \cup HasLoaded
        PROVE  OneStartAtATime'
    <2>1. /\ own' = own /\ loaded' = loaded /\ pc' = pc /\ hnd' = hnd
          /\ own \in PageRef
      BY <1>0, <1>2 DEF TypeOK
    <2> QED
      BY <1>0, <1>1, <1>2, <2>1 DEF OneStartAtATime, PageRef
  <1>3. CASE MainStart
    <2>1. PICK p \in Windows :
            /\ page[p] = "absent"
            /\ page' = [page EXCEPT ![p] = "requested"]
            /\ own' = p /\ loaded' = p
      BY <1>3 DEF MainStart
    <2>2. /\ pc' = "await" /\ hnd' = hnd /\ p \in Pages /\ p # NoPage
          /\ \A q \in Pages : hnd[q] \notin Reporting
          /\ \A q \in Pages : page[q] \in {"absent"} \cup HasLoaded
      BY <1>0, <1>3, PagesAssumption DEF MainStart, OneStartAtATime, Pages
    <2>3. \A q \in Pages : q # p => page'[q] = page[q]
      BY <1>0, <2>1 DEF TypeOK
    <2> QED
      BY <2>1, <2>2, <2>3 DEF OneStartAtATime
  <1>4. CASE MainClear
    <2>1. /\ pc = "clear" /\ pc' = "started" /\ own' = own /\ page' = page /\ hnd' = hnd
      BY <1>4 DEF MainClear
    <2> QED
      BY <1>0, <2>1 DEF OneStartAtATime
  <1>5. CASE MainWait \/ MainCloseServer
    <2>1. /\ pc \notin {"await", "clear"} /\ pc' \in {"waiting", "closed"}
          /\ own' = own /\ page' = page /\ hnd' = hnd
      BY <1>5 DEF MainWait, MainCloseServer
    <2> QED
      BY <1>0, <2>1 DEF OneStartAtATime
  <1>6. ASSUME NEW how, Ends(how) PROVE OneStartAtATime'
    BY <1>2, <1>6 DEF Ends
  <1>7. CASE MainRestartOrClose \/ MainCancel \/ MainForget
    <2>1. /\ pc \notin {"await", "clear"} /\ pc' \notin {"await", "clear", "started"}
          /\ own' = own /\ hnd' = hnd /\ page' \in {page, Without(cdpCancel, page)}
      BY <1>7 DEF MainRestartOrClose, MainCancel, MainForget, StopLook, StopCancel, StopForget
    <2>2. own \in PageRef /\ \A q \in Pages : page[q] = "absent" => page'[q] = "absent"
      BY <1>0, <2>1 DEF TypeOK, Without, Shown, Connected
    <2> QED
      BY <1>0, <1>1, <2>1, <2>2 DEF OneStartAtATime, PageRef
  <1>8. CASE HTTPListen
    BY <1>2, <1>8 DEF HTTPListen
  <1>9. CASE UIOpen
    <2>1. \A q \in Pages : page[q] = "absent" => page'[q] = "absent"
      BY <1>0, <1>9 DEF UIOpen, PageMove, TypeOK
    <2> QED
      BY <1>2, <1>9, <2>1 DEF UIOpen
  <1>10. CASE UIUnload
    <2>1. \A q \in Pages : page[q] = "absent" => page'[q] = "absent"
      BY <1>10 DEF UIUnload, Without, Shown, Connected
    <2> QED
      BY <1>2, <1>10, <2>1 DEF UIUnload
  <1>11. ASSUME NEW p \in Pages, Rendezvous(p) PROVE OneStartAtATime'
    <2>1. /\ pc = "await" /\ pc' = "clear" /\ hnd[p] = "sending" /\ hnd' = [hnd EXCEPT ![p] = "done"]
          /\ own' = own /\ loaded' = loaded /\ page' = page
      BY <1>11 DEF Rendezvous
    <2>2. p = own /\ page[own] \in HasLoaded
      BY <1>0, <2>1 DEF OneStartAtATime, Reporting
    <2>3. \A q \in Pages : hnd'[q] \notin Reporting
      BY <1>0, <2>1, <2>2 DEF OneStartAtATime, TypeOK, Reporting
    <2> QED
      BY <1>0, <2>1, <2>2, <2>3 DEF OneStartAtATime
  <1>12. ASSUME NEW p \in Pages, PageStep(p) PROVE OneStartAtATime'
    <2>1. CASE PageLoaded(p)
      <3>1. /\ page[p] \in {"tty", "ready"} /\ page' = [page EXCEPT ![p] = "loaded"]
            /\ hnd' = [hnd EXCEPT ![p] = "checking"]
            /\ pc' = pc /\ own' = own /\ loaded' = loaded
        BY <2>1 DEF PageLoaded, PageMove
      <3>2. p = own /\ pc = "await"
        BY <1>0, <3>1, PagesAssumption DEF OneStartAtATime, HasLoaded, Gone, Pages
      <3>3. page'[p] = "loaded" /\ \A q \in Pages : q # p => page'[q] = page[q] /\ hnd'[q] = hnd[q]
        BY <1>0, <3>1 DEF TypeOK
      <3> QED
        BY <1>0, <3>1, <3>2, <3>3 DEF OneStartAtATime, HasLoaded
    <2>2. CASE ~PageLoaded(p)
      <3>1. \A q \in Pages : page[q] = "absent" => page'[q] = "absent"
        BY <1>0, <1>12, <2>2 DEF PageStep, PageNavigate, PageFail, PageConnect, PageReady, PageTTY,
           PageTTYFatal, PageMove, Ends, TypeOK
      <3> QED
        BY <1>2, <1>6, <1>12, <2>2, <3>1 DEF PageStep, PageNavigate, PageFail, PageConnect,
           PageReady, PageTTY, PageTTYFatal
    <2> QED
      BY <2>1, <2>2
  <1>13. ASSUME NEW p \in Pages, HandlerStep(p) PROVE OneStartAtATime'
    <2>1. /\ hnd[p] \in Reporting /\ pc' = pc /\ own' = own /\ loaded' = loaded /\ page' = page
          /\ \A q \in Pages : q # p => hnd'[q] = hnd[q]
      BY <1>0, <1>13 DEF HandlerStep, HandlerCheck, HandlerEvaluate, TypeOK, Reporting
    <2> QED
      BY <1>0, <2>1 DEF OneStartAtATime
  <1>14. ASSUME NEW p \in Pages, ControlStep(p) PROVE OneStartAtATime'
    <2>1. CASE ControlCleanup(p)
      BY <1>2, <2>1 DEF ControlCleanup
    <2>2. CASE ControlStop(p) \/ ControlCancel(p) \/ ControlForget(p) \/ ControlPanic(p)
      <3>1. \A q \in Pages : page[q] = "absent" => page'[q] = "absent"
        BY <2>2 DEF ControlStop, ControlCancel, ControlForget, ControlPanic, StopLook, StopCancel,
           StopForget, Without, Shown, Connected
      <3> QED
        BY <1>2, <2>2, <3>1 DEF ControlStop, ControlCancel, ControlForget, ControlPanic
    <2>3. CASE ControlSignal(p)
      <3>1. /\ pc' = pc \/ (pc = "waiting" /\ pc' = "returned")
            /\ own' = own /\ loaded' = loaded /\ hnd' = hnd /\ page' = page
        BY <2>3 DEF ControlSignal, StopSignal
      <3> QED
        BY <1>0, <3>1 DEF OneStartAtATime
    <2> QED
      BY <1>14, <2>1, <2>2, <2>3 DEF ControlStep
  <1>15. ASSUME NEW p \in Pages, VisitorOpen(p) \/ UserClose(p) PROVE OneStartAtATime'
    <2>1. \A q \in Pages : page[q] = "absent" => page'[q] = "absent"
      BY <1>0, <1>15 DEF VisitorOpen, UserClose, PageMove, TypeOK, Shown, Connected
    <2> QED
      BY <1>2, <1>15, <2>1 DEF VisitorOpen, UserClose
  <1>16. ASSUME NEW e \in ExitKinds, ExitBegin(e) \/ ExitOpenImage(e) \/ ExitWritten(e)
         PROVE  OneStartAtATime'
    BY <1>2, <1>16 DEF ExitBegin, ExitOpenImage, ExitWritten
  <1>17. ASSUME NEW e \in ExitKinds, ExitStop(e) \/ ExitCancel(e) \/ ExitForget(e)
         PROVE  OneStartAtATime'
    <2>1. \A q \in Pages : page[q] = "absent" => page'[q] = "absent"
      BY <1>17 DEF ExitStop, ExitCancel, ExitForget, StopLook, StopCancel, StopForget, Without,
         Shown, Connected
    <2> QED
      BY <1>2, <1>17, <2>1 DEF ExitStop, ExitCancel, ExitForget
  <1>18. ASSUME NEW e \in ExitKinds, ExitSignal(e) PROVE OneStartAtATime'
    <2>1. /\ pc' = pc \/ (pc = "waiting" /\ pc' = "returned")
          /\ own' = own /\ loaded' = loaded /\ hnd' = hnd /\ page' = page
      BY <1>18 DEF ExitSignal, StopSignal
    <2> QED
      BY <1>0, <2>1 DEF OneStartAtATime
  <1>19. CASE UNCHANGED vars
    BY <1>2, <1>19 DEF vars
  <1> QED
    BY <1>3, <1>4, <1>5, <1>6, <1>7, <1>8, <1>9, <1>10, <1>11, <1>12, <1>13, <1>14, <1>15, <1>16,
       <1>17, <1>18, <1>19
       DEF Next, MainStep, MainExit, MainPanic, HTTPFatal, UIStep, UIPanic, ExitStep, ExitFatal, ExitPanic

\* Where nobody visits, Start returns on the report of the page it opened, with
\* any number of restarts, in the boot command and in a program that embeds it.
THEOREM StartMeetsItsPage == ASSUME Visitors = {} PROVE Spec => []StartMatchesItsPage
  <1>1. Init => StartInv
    BY InitType DEF Init, StartInv, OneStartAtATime, Reporting
  <1>2. StartInv /\ [Next]_vars => StartInv'
    BY StepType, OneStartStep DEF StartInv
  <1>3. StartInv => StartMatchesItsPage
    BY DEF StartInv, OneStartAtATime, StartMatchesItsPage, HasLoaded
  <1> QED
    BY <1>1, <1>2, <1>3, PTL DEF Spec

----------------------------------------------------------------------------
(* The VM implements Session. *)

\* The refinement mapping, named.
Reported == {p \in Pages : hnd[p] # "none"}
GonePages == {p \in Pages : page[p] \in Gone}
Finished == {e \in ExitKinds : ex[e] \in Stopping}

\* A step of the VM is a step of its Session, or none.
LEMMA SessionStep == BootInv /\ [Next]_vars => [VMSession!Next]_(VMSession!sessionVars)
  <1> SUFFICES ASSUME BootInv, [Next]_vars PROVE VMSession!Next \/ UNCHANGED VMSession!sessionVars
    OBVIOUS
  <1> USE DEF Continues, Running, mainVars, vmVars, pageVars, exitVars
  <1> DEFINE Quiet == UNCHANGED <<Phase, Reported, GonePages, Finished>>
  <1>0. Quiet => UNCHANGED VMSession!sessionVars
    BY DEF VMSession!sessionVars, Reported, GonePages, Finished, Stopping
  <1>1. GonePages \subseteq GonePages'
    BY GoneForGood DEF GonePages, BootInv
  <1>2. ASSUME proc = "running", NEW how \in {"exited", "fatal", "panicked"}, Ends(how) PROVE VMSession!End
    BY <1>2 DEF Ends, VMSession!End, Phase
  <1>3. CASE MainStart
    <2>1. GonePages' = GonePages
      BY <1>3 DEF MainStart, GonePages, BootInv, TypeOK, Gone
    <2> QED
      BY <1>3, <2>1 DEF MainStart, VMSession!Next, VMSession!Start, Phase, GonePages
  <1>4. CASE MainClear
    BY <1>0, <1>4 DEF MainClear, Phase, Reported, GonePages, Finished
  <1>5. CASE MainWait
    BY <1>5 DEF MainWait, VMSession!Next, VMSession!Wait, Phase
  <1>6. CASE MainCloseServer
    BY <1>0, <1>6 DEF MainCloseServer, Phase, Reported, GonePages, Finished
  <1>7. CASE MainExit \/ MainPanic \/ HTTPFatal \/ UIPanic
    BY <1>2, <1>7 DEF MainExit, MainPanic, HTTPFatal, UIPanic, Ends, VMSession!Next
  <1>8. CASE MainRestartOrClose
    BY <1>1, <1>8 DEF MainRestartOrClose, VMSession!Next, VMSession!Stop, Phase, GonePages
  <1>24. CASE MainCancel \/ MainForget
    BY <1>1, <1>24 DEF MainCancel, MainForget, VMSession!Next, VMSession!Lose, Phase, GonePages
  <1>9. CASE HTTPListen
    BY <1>0, <1>9 DEF HTTPListen, Phase, Reported, GonePages, Finished
  <1>10. CASE UIOpen \/ UIUnload
    BY <1>1, <1>10 DEF UIOpen, UIUnload, PageMove, VMSession!Next, VMSession!Lose, Phase, GonePages
  <1>11. ASSUME NEW p \in Pages, Rendezvous(p) PROVE VMSession!Next
    <2>1. Reported # {} /\ Reported' = Reported
      BY <1>11 DEF Rendezvous, Reported, BootInv, TypeOK
    <2> QED
      BY <1>11, <2>1 DEF Rendezvous, VMSession!Next, VMSession!StartReturns, Phase, Reported
  <1>12. ASSUME NEW p \in Pages, PageStep(p), ~PageLoaded(p), ~PageTTYFatal(p) PROVE VMSession!Next
    BY <1>1, <1>12 DEF PageStep, PageNavigate, PageFail, PageConnect, PageReady, PageTTY,
       PageMove, VMSession!Next, VMSession!Lose, Phase, GonePages
  <1>13. ASSUME NEW p \in Pages, PageTTYFatal(p) PROVE VMSession!Next
    BY <1>2, <1>13 DEF PageTTYFatal, Ends, VMSession!Next
  <1>14. ASSUME NEW p \in Pages, PageLoaded(p) PROVE VMSession!Next
    <2>1. Reported' = Reported \cup {p}
      BY <1>14 DEF PageLoaded, Reported, BootInv, TypeOK
    <2>2. GonePages' = GonePages
      BY <1>14 DEF PageLoaded, PageMove, GonePages, BootInv, TypeOK, Gone
    <2> QED
      BY <1>14, <2>1, <2>2 DEF PageLoaded, PageMove, VMSession!Next, VMSession!Report, Phase,
         Reported, GonePages
  <1>15. ASSUME NEW p \in Pages, HandlerStep(p) PROVE UNCHANGED VMSession!sessionVars
    <2>1. Reported' = Reported
      BY <1>15 DEF HandlerStep, HandlerCheck, HandlerEvaluate, Reported, BootInv, TypeOK
    <2> QED
      BY <1>0, <1>15, <2>1 DEF HandlerStep, HandlerCheck, HandlerEvaluate, Phase, GonePages, Finished
  <1>16. ASSUME NEW p \in Pages, ControlCleanup(p) \/ ControlStop(p) \/ ControlCancel(p)
                                \/ ControlForget(p) \/ ControlPanic(p)
         PROVE  VMSession!Next
    BY <1>1, <1>16 DEF ControlCleanup, ControlStop, ControlCancel, ControlForget, ControlPanic,
       VMSession!Next, VMSession!Lose, Phase, GonePages
  <1>17. ASSUME NEW p \in Pages, ControlSignal(p) PROVE VMSession!Next \/ UNCHANGED VMSession!sessionVars
    <2>1. GonePages # {} /\ GonePages' = GonePages
      BY <1>17 DEF ControlSignal, GonePages, BootInv, ControlAfterPage, Stopping
    <2>2. CASE pc = "waiting"
      BY <1>17, <2>1, <2>2 DEF ControlSignal, StopSignal, VMSession!Next, VMSession!WaitReturns,
         Phase, GonePages
    <2>3. CASE pc # "waiting"
      BY <1>0, <1>17, <2>1, <2>3 DEF ControlSignal, StopSignal, Phase, Reported, Finished
    <2> QED
      BY <2>2, <2>3
  <1>18. ASSUME NEW p \in Pages, VisitorOpen(p) \/ UserClose(p) PROVE VMSession!Next
    BY <1>1, <1>18 DEF VisitorOpen, UserClose, PageMove, VMSession!Next, VMSession!Lose, Phase,
       GonePages
  <1>19. ASSUME NEW e \in ExitKinds, ExitBegin(e) \/ ExitWritten(e) \/ ExitOpenImage(e)
         PROVE  VMSession!Next \/ UNCHANGED VMSession!sessionVars
    <2>1. Finished' = Finished \/ Finished' = Finished \cup {e}
      BY <1>19 DEF ExitBegin, ExitWritten, ExitOpenImage, Finished, Stopping, BootInv, TypeOK
    <2>2. UNCHANGED <<Phase, Reported, GonePages>>
      BY <1>19 DEF ExitBegin, ExitWritten, ExitOpenImage, Phase, Reported, GonePages
    <2>3. CASE Finished' = Finished
      BY <1>0, <2>2, <2>3
    <2>4. CASE Finished' = Finished \cup {e}
      BY <2>2, <2>4 DEF VMSession!Next, VMSession!Finish, Reported, GonePages, Finished, Stopping
    <2> QED
      BY <2>1, <2>3, <2>4
  <1>20. ASSUME NEW e \in ExitKinds, ExitFatal(e) PROVE VMSession!Next
    BY <1>2, <1>20 DEF ExitFatal, Ends, VMSession!Next
  <1>25. ASSUME NEW e \in ExitKinds, ExitPanic(e) PROVE VMSession!Next
    BY <1>2, <1>25 DEF ExitPanic, Ends, VMSession!Next
  <1>21. ASSUME NEW e \in ExitKinds, ExitStop(e) \/ ExitCancel(e) \/ ExitForget(e)
         PROVE  VMSession!Next
    <2>1. Finished' = Finished
      BY <1>21 DEF ExitStop, ExitCancel, ExitForget, AfterLook, Finished, Stopping, BootInv, TypeOK
    <2> QED
      BY <1>1, <1>21, <2>1 DEF ExitStop, ExitCancel, ExitForget, VMSession!Next, VMSession!Lose,
         Phase, GonePages, Finished, Stopping
  <1>22. ASSUME NEW e \in ExitKinds, ExitSignal(e) PROVE VMSession!Next \/ UNCHANGED VMSession!sessionVars
    <2>1. Finished # {} /\ Finished' = Finished
      BY <1>22 DEF ExitSignal, Finished, Stopping, BootInv, TypeOK
    <2>2. CASE pc = "waiting"
      BY <1>22, <2>1, <2>2 DEF ExitSignal, StopSignal, VMSession!Next, VMSession!WaitReturns, Phase,
         Finished, Stopping
    <2>3. CASE pc # "waiting"
      BY <1>0, <1>22, <2>1, <2>3 DEF ExitSignal, StopSignal, Phase, Reported, GonePages
    <2> QED
      BY <2>2, <2>3
  <1>23. CASE UNCHANGED vars
    BY <1>0, <1>23 DEF vars, Phase, Reported, GonePages, Finished
  <1> QED
    BY <1>3, <1>4, <1>5, <1>6, <1>7, <1>8, <1>9, <1>10, <1>11, <1>12, <1>13, <1>14, <1>15,
       <1>16, <1>17, <1>18, <1>19, <1>20, <1>21, <1>22, <1>23, <1>24, <1>25
       DEF Next, MainStep, UIStep, HandlerStep, ControlStep, ExitStep

\* The VM keeps the promises of Session: Start returns only after a console
\* has loaded, and Wait only after one has gone or an Exit is past its save.
THEOREM SessionImplemented == Spec => ImplementsSession
  <1>1. Init => VMSession!Init
    BY DEF Init, VMSession!Init, Phase, Gone, Stopping
  <1> QED
    BY BootInvHolds, <1>1, SessionStep, PTL DEF Spec, ImplementsSession, VMSession!Spec
=============================================================================
