# A TLA+ project for env86

env86 runs v86 virtual machines: a Go library and command line tool serve a web
page in which the emulator runs, talk to that page over websockets, and keep
machine images on disk. These modules model the parts of it whose correctness
depends on the order of things: goroutines that share fields without a lock,
files written while a process may die, and connections copied both ways. Paths
below are relative to `src/`.

Contents: [inventory](#inventory), [plan](#plan), [modules](#modules-and-the-code),
[runs](#runs), [fairness](#fairness), [findings](#findings),
[proofs](#proofs), [limits](#what-is-not-modelled).

## Inventory

| Component | State it keeps | Operations | Talks to |
|---|---|---|---|
| VM (`vm.go`, `http.go`) | fields of `VM`: `win`, `cdpCancel`, `peer`, `loaded`, `stopped`, `srv`, `guest`; no lock | `New`, `Start`, `Wait`, `Stop`, `Restart`, `Close`, `Exit`, `Save`, `Restore`, `handleControl` | UI queue (closures), page (websocket `/ctl`), image, terminal |
| Terminal (`tty.go`) | raw mode, buffer of recent output | `handleTTY`, `joinSerialPipe` | page (channel of the `tty` call), `Exit` |
| Image (`image.go`) | files `image.json`, `initial.state[.zst]` | `LoadImage`, `Config`, `SaveInitialState`, `Prepare`, `splitFile` | VM, prepare and serve commands |
| Page (`assets/env86.js`) | the emulator, buffer of serial 1 | `boot`, `downloadChunks`, handlers for the calls of the VM | VM (`/ctl`), guest service (`/guest`), network (`/net`) |
| Guest API (`guest.go`) | `Guest`: `ver`, `ready`, `cond`, `peer` | `handleGuest`, `Ready`, `Command`, `Run`, `Mount` | guest service over serial 1 |
| Guest service (`cmd/guest86`) | one program per call of `Run` | `Run`, `Dial`, `Terminal`, `Mount9P`, file calls | guest API |
| Commands (`cmd/env86`) | files of the global image store | `boot`, `run`, `create`, `pull`, `prepare`, `serve`, `network`, `assets` | all of the above |
| Network adapter (`network/handler.go`) | read and write buffers of `qemuAdapter` | `Handler`, `Read`, `Write` | page (`/net`), virtual network |
| File systems (`namespacefs`, `tarfs`, `fsutil`) | mounts; index of a tarball | `Mount`, `Unmount`, `Open`, `ReadDir`, `CopyFS` | VM, image |
| Console API (`console.go`) | none | keyboard, screen, screenshot | page |

How they interact. `boot` loads an image, makes a `VM` and calls `Start`, which
starts the HTTP server in a goroutine, hands a closure to the UI and blocks on
`vm.loaded`. The page that the UI opens connects to `/ctl`; the goroutine of
that connection (`handleControl`) sets `vm.peer` and serves the page's calls,
each in a goroutine of its own: `config`, `tty` (`handleTTY`) and `loaded`,
which ends `Start`. `Wait` blocks on `vm.stopped`. A closed page ends
`handleControl`, which clears `vm.win` and calls `Stop`; Ctrl-D, the exit
pattern and the end of stdin call `Exit`, which may save and then calls `Stop`.
Everybody may call `Stop`, and its signal reaches only a `Wait` that is parked.

What is hard, and the properties that make each part correct:

* *Life cycle.* Interleavings of main, UI, connections, handlers and exits over
  unlocked fields; signals that are dropped; pages that fail or go. Correct
  means: `Start` returns when a page has loaded and only then, `Wait` returns
  when a console has gone or an exit has done its work and only then, `Exit`
  saves before it stops, no nil window is unloaded, nobody is left blocked.
* *Image store.* Boots, saves, crashes and publishing in any order. Correct
  means: what was saved last is what a boot restores, and what is published is
  what a boot would have started from.
* *Guest.* A connection that may be slow or lost; a condition variable without
  its lock; a program's output in a race with its exit; stdin copiers that stay
  behind. Correct means: output in order and complete where it can be, input in
  order, `Run` and `Ready` return.
* *Relays.* Half-closed connections, failing copies, programs that read no more.
  Correct means: a relay returns if no program holds it up, and has delivered
  what it should have by then.
* *Streams* (network adapter, serial 1, terminal). Messages cut into arbitrary
  pieces, a link that opens late or goes, a state saved in the middle of a
  message. Correct means: what goes in comes out, whole and in order, nothing
  that is finished waits, and the exit pattern is found however it is cut.
* *File systems.* Nested mounts whose order changes, paths compared as text,
  directories read in pages; copies that fail half way and are tried again over
  what they left. Correct means: every path is served by the newest mount that
  holds it, each entry is listed once, and a copy that reports no error is one.
* *Images on their way.* Pulls that fail or overlap while releases come out, a
  directory that changes while an image is made of it. Correct means: a command
  that reports no error leaves every regular file of the image that it was asked
  for, and no directory of the store mixes two releases.

`PROJECT.json` lists every hazard with its line and the properties that watch it.

## Plan

In this order, the most important behaviour first. Steps 1 to 9 are done.

1. `Session`, `Lifecycle`: the abstract promise and the goroutines that keep it.
2. `LifecycleProofs`: types, save before a clean exit, refinement of `Session`.
3. `ImageStore`, `ImageStoreProofs`.
4. `GuestExec`, and `GuestService` on top of it.
5. `Proxy`, `ProxyProofs`.
6. `NetAdapter`, `GuestLink` and `Terminal`, composed in `Streams`, which
   implements the abstract `Fifo`.
7. `NamespaceFS` and `TarCopy`, which has `tarfs` and `fsutil.CopyFS`.
8. `ImagePull` and `ImageCreate`; with those of step 7 composed in `Files`.
9. `DataFacts`, `ImageProofs`, `FilesProofs`, `GuestProofs`, `StreamsProofs`: every
   invariant and action property that a run checks is a theorem now.
10. Left: the safety of the embedding program where visitors come and go, which
    no run states beyond the refinement of `Session`.

## Modules and the code

**`Session`** states what the driver of a VM may rely on: four variables (the
driver's phase, the pages that reported, the pages that went, the exits past
their save) and no mechanism.

**`Lifecycle`** has one stage function or variable per goroutine and one per
shared field:

| TLA+ | code |
|---|---|
| `pc`: `MainStart`, `Rendezvous`, `MainClear`, `MainWait`, ... | `Start` up to the receive, the receive, `vm.loaded = nil`, `Wait`, `Restart`, `Close` |
| `srv`: `HTTPListen`, `HTTPFatal` | `startHTTP` |
| `ui`: `UIOpen`, `UIUnload`, `UIPanic` | closures given to `desktop.Dispatch`, run in order |
| `page[p]`: `PageConnect`, `PageTTY`, `PageLoaded`, ... | `console.html` with `boot` of `env86.js` |
| `hnd[p]`: `HandlerCheck`, `HandlerEvaluate` | the two reads of `vm.loaded` in the `loaded` handler |
| `ctl[p]`: `ControlCleanup`, `ControlStop`, `ControlCancel`, `ControlForget`, `ControlPanic`, `ControlSignal` | the end of `handleControl` with its `Stop` |
| `ex[e]`: `ExitBegin` ... `ExitSignal` | one call of `Exit`, save and stop included |
| `StopLook`, `StopCancel`, `StopPanics`, `StopForget`, `StopSignal` | the steps of `Stop`: the looks at `win` and `cdpCancel`, the call of what is read of `cdpCancel` again, a nil in its place, `vm.cdpCancel = nil`, the signal to `Wait` |

A page that is opened more than once, a restart for example, is a new page `p`.
A channel made by `Start` is named by the page that `Start` opens, so a handler
that read an old channel is seen to send on it. `image` is `partial` while a
writer has truncated the file, and `mixed` when two writers may have left parts
of both states.

`Restart`, `Close`, `Exit` and the end of `handleControl` each have the steps of
`Stop` as actions of their own, so that two Stops may meet between the look at
`vm.cdpCancel` and its call. A nil that is called ends the process, except in
`handleControl`: that runs in the goroutine of an HTTP handler, where `net/http`
recovers it (external), so `ControlPanic` ends that goroutine alone, without its
signal.

Merged steps: assigning `vm.peer` with accepting the connection; `handleTTY`'s
`MakeRaw` with the `tty` call; the looks of `Stop` at `win` and at `cdpCancel`,
of which a configuration uses one. `desktop.Dispatch` is taken to queue closures and
run them in order on one thread, and `win.Reload()` right after `window.New` not
to load the page twice; both are outside the repository. `serialPipe` is nil.

**`ImageStore`** keeps the two state files, what the last boot started from and
what was published. A state is a row of blocks whose last is marked, so a file
that lost its end, or a part of it, is seen to be no state. `SaveTruncate` and
`SaveWrite` are the two effects of `fs.WriteFile`, with `SaveCrash` between them.
`Parts`, `PartCount` and `WebBoot` are `splitFile` and the page's download.
`splitFile` returns the right count only because the reader of the in-memory
file system reports the end of a file on an empty read; the mutant
`PartCountLast` is the other kind of reader. A machine booted from the kernel
has nothing to save before it has run.

**`GuestExec`** models each call of `GuestCmd.Run`: the host's loop, the guest's
handler, one reader per stream, the program, and the stdin copier, which outlives
its call. With pipes, `cmd.Wait` closes them (`PipesClosed`) and a reader loses
what is left; with a terminal it goes on and sends to a channel that is soon
closed. A chunk is a number; frames of one channel are taken to be written whole
and to arrive in order (the RPC library). **`GuestService`** adds `handleGuest`
field by field, `Ready` split at every point where its lock or the condition
variable's list changes, and the `run` command.

**`Proxy`** is one joined pair of connections, in one of three modes: `first` ends
with the first copy (`forwardPort`), `both` waits for both and then closes the
channel (`Mount`, `Dial`, `Terminal`, `Mount9P`), `serial` waits for both and
closes nothing (`joinSerialPipe`). A program may stop reading without leaving
(`AppStopsReading`); a Write to it goes through while there is room on the way,
and may wait for ever. The dials before it have succeeded.

**`Fifo`** is a stream with no mechanism: on each way, what comes out is a
beginning of what went in. The adapter and the terminal implement it, on two ways
each. Serial port 1 does not, as it may drop messages; its own promises are
`LinkWhole` and `LinkBytesInOrder`.

**`BigEndian`** is a length in four bytes, and such bytes read as a length. `Radix`
is the number of values a byte has: 256 in the code, 2 in the run.

**`NetAdapter`** is `qemuAdapter`, byte by byte, with the length in front of each
frame as `BigEndian` has it. A message of the page is a
frame; `ReadFetch` and `ReadRest` are `Read` with an empty and a filled buffer,
for any number of bytes asked; `WriteKeeps`, `WriteSends` and `WriteFails` are
`Write` for any number of bytes brought; `SocketFails` ends `Handler`. A frame
stands for its length and its place in the stream.

**`GuestLink`** is the listener of `serial1-output-byte` in `env86.js`: the table
of message sizes, the four bytes of the length that a data message brings, and
the buffer, with
the three ways a message ends (`ByteSends`, `ByteDropped` on a closed socket,
`ByteThrows` before it is open). Its initial states include a machine that was
saved in the middle of a message.

**`Terminal`** is `handleTTY` with its bytes: `CopierTakes` and `CopierPrints` are
`io.Copy` through the tee and the pipe, `ScannerMisses`, `ScannerFinds` and
`ScannerExits` the goroutine that looks for the exit pattern, `Kept` its
`temp.Next`, and the `Stdin...` actions the loop that reads stdin. `Lifecycle`
has the same session as events. **`Streams`** puts the three side by side. They
share no state, so one of them is busy at a time.

**`NamespaceFS`** has `binds`, which the code keeps, beside `live`, which it ought
to: the mounts that have not been undone, the newest first. A path is a sequence
of names, and `Begins` says which name begins with the text of which, since the
code compares text: `HasTextPrefix`, `TrimMountPoint`. `Delegate` stands for the
operations that ask the mount that serves a path, `OpenDirectory` and `OpenOther`
for `OpenFile`, and `FirstPage`, `NextPage`, `LastPage` and `ReadAll` for the
`ReadDir` of a directory with mounts in it.

**`TarCopy`** is `CopyFS` over a source that is an archive in memory or a
directory: `CopyDirEnters` and `CopyDirLeaves` for `copyDir` with the modes it
sets, `CopyFileOpens` and `CopyFileWrites` for `copyFile`, `Refuses` for what is
in the way. `EntryAt`, `EntriesIn`, `ReadDirFails`, `ContentsAt` and `IsSpecial`
are what `tarfs` says of an archive. The order in which a directory lists its
entries is left open, as a map's is.

**`ImagePull`** has one stage per step of `pull.go` and command, with `dirs` and
`stored` as the store that they share; releases are published at any time, and
`PullFails` is every `log.Fatal` and crash. `SkipsEntry` is the branch for an
entry that is neither a directory nor a regular file (`Irregular`): it is logged
and left out, and the pull goes on. The copy of the pulled image goes to the
store, where it is looked for first (`LooksForCopy`), or to a path that begins
with a dot, where nothing is looked for and `CopyFS` meets what is there.
**`ImageCreate`** follows
`create --from-dir` through the three times it reads a file: for the index
(`IndexFile`), for the name under which it is stored (`BlobOpened`,
`BlobSkipped`) and for its contents (`BlobWritten`, `BlobFails`). In `WalkSkips`
a walk has no access to a path and goes on without it. `unreported` notes that
and every other error that the code ignores. **`Files`** puts the four side by side; each
is the work of a command of its own.

Operators whose comment begins with "Mutant" are not part of the model. Each is
a plausible wrong version of the definition after it; the property listed with
it in `PROJECT.json` fails when it takes that definition's place.

## Runs

| Run | Instance | Shows |
|---|---|---|
| `boot` | boot command, one window, one visitor, 9 configurations | `TypeOK`, `CleanExitSaved`, `LoneStopIsSafe`, `StartReturns`, `ConsoleGoneEndsWait`, `ExitEndsWait`; refinement of `Session` |
| `embed` | a program that restarts once, two windows | `StartMatchesItsPage`, `LoadedHandlerReturns`; refinement of `Session` across a restart |
| `image_store` | states of 1 to 4 blocks, parts of 2, two changes | `TypeOK`, `BootRestoresSaved`, `WebStartsAsPublished` |
| `guest` | two callers of `Ready`; two runs, two chunks of output and of input | `OutputInOrder`, `QuietExitComplete`, `InputInOrder`, `ReadyMeansVersion`, `ParkedWakes`, `RunReturns` |
| `proxy` | three modes, two chunks each way, programs that read no more | `JoinedNothingLost`, `ForwardedOneWayComplete`, `JoinEnds`, `ForwardEnds` |
| `streams` | two frames of 0 or 2 bytes each way; two messages, data of 1 or 5 bytes; five patterns, four bytes of output in pieces | `TypeOK`, `LoneFrameNotHeld`, `LinkWhole`, `LinkBytesInOrder`, `PatternFound`, `PatternExits`; adapter and terminal implement `Fifo` (`StreamsInOrder`) |
| `files` | three mounts on nested paths; archives of up to three entries; two pulls and two releases, the later with a link in the place of a file; directories of three files | `TypeOK`, `ServedByNewest`, `DirectoryWhole`, `CopyFaithful`, `CopyFailsForCause`, `PulledWhole`, `OneRelease`, `CreatedServesFiles` |
| `restart_window`, `ctrl_d_save`, `compressed_save`, `compressed_prepare`, `guest_missed` | as above | the [findings](#findings) |

Bounds, and why they are enough:

* *boot.* `Start` runs once, so one window. One visitor gives the second console
  that can set `peer`, clear `win` and stop the VM; a third would repeat it. Each
  kind of exit happens at most once, which gives three at a time. The exit
  pattern is combined with a save and a window only (`MCConfigs`); the pattern
  matters as a second exit, and as such where there is something to save.
* *embed.* One restart is enough for an old page beside a new one. Without exits
  and visitors, which `boot` has; `Close` is final.
* *image_store.* Four blocks in parts of two make states of exactly one and two
  parts and of less; two changes let a later save meet an earlier one.
* *guest.* A second run meets the copier of the first; two chunks can be out of
  order. All programs together write at most two. The last run asks for a
  terminal, as those of the run command do, the first for either. The first call
  waits until `handleGuest` has settled, on whose stage nothing in a call depends,
  and the programs that call `Ready` run nothing. One connection: a machine whose
  page went does not come back.
* *proxy.* Two chunks: one in the copier's hands while another waits.
* *streams.* Two frames: a Read or Write that has the end of one and the
  beginning of the next. A frame of no bytes is only its length. Bytes have two
  values, so that the lengths 2 and 5 take two and three of their four bytes. The patterns
  have up to three characters and overlap themselves, and both buffers are
  smaller than what the machine writes, so that a pattern is cut at every place.
  Data messages of two lengths, and another kind beside them. What the theorems
  of `StreamsProofs` add is every length that four bytes hold, with any number of
  values of a byte, and every pattern and cut.
* *files.* Three mounts are the fewest of which an Unmount can change the order
  of two others. `ab` begins with `a`, and `.b` with the text of the root. Two
  entries may be listed in two pages with mounts beside them. Three entries make
  a file in a directory beside another one, twice the same name, and a file in
  the place of a directory. Two pulls can overlap or follow a failed one, with
  one release before and one after; in one of them an entry is left out. Three
  files: the guest service, and two whose contents have one short hash; an empty
  file is one of those contents, so that a guest service that was only opened can
  collide too. Two pulls differ in nothing but what they are asked for
  (`PullersAlike`).

`CHECK_DEADLOCK FALSE` where the system may stop: a process that has ended, a
`Wait` that nobody ends, a connection over. The image store never stops.

Properties that hold only with a condition state it: `LoneStopIsSafe`, which is
about the process, excludes a user who closes a console and a second Exit,
`CleanExitSaved` a user who closes the console during the save,
`QuietExitComplete` a program that exits with output unsent, `ParkedWakes` a
caller that has not parked before the broadcast. The excluded cases are real and stand among the hazards: a panic on a nil window, a failed
save, lost output, and a lost wake-up because `ready` is set without the lock
(`guest.go:38`). In the same way:

* `LoneStopIsSafe` says nothing of the goroutine of `handleControl`. When a lone
  Exit cancels a headless page, the Stop of `handleControl` follows, may look at
  `vm.cdpCancel` before the Exit clears it and call it after that (`vm.go:210`).
  The Exit itself has made its call by then. What the nil costs is that
  goroutine's signal; the process and the Exit go on.
* `JoinEnds` and `ForwardEnds` exclude a receiver that reads no more and does not
  leave: the copier stays in its Write, and the relay with it
  (`cmd/env86/boot.go:147`, `cmd/guest86/tcp.go:39`).
* `LoneFrameNotHeld` excludes a Write with the ends of two frames, of which the
  second stays until more bytes come (`network/handler.go:97`).
* `LinkWhole` excludes a machine that was saved in the middle of a message, and
  bytes that a socket threw back or dropped: the framing is lost for good
  (`assets/env86.js:101`). `LinkBytesInOrder` holds without a condition.
* `ServedByNewest` excludes an Unmount that changes the order of the others, and
  a path on which a name begins with the text of another: it may be served by a
  mount on half of a name, under a name that is cut (`namespacefs/fs.go:73`).
* `DirectoryWhole` excludes a directory with mounts in it that is read in pages,
  if the first page has less room than it has entries of its own, or if it has
  none: the code leaves out the rest, or the mounts (`namespacefs/dirsfile.go:17`).
  After an Unmount that changed the order it still promises every name, and no
  other, but not how often: of two mounts on one path the wrong one may have gone.
* `CopyFailsForCause` says of each error what it tells of the source or the
  target: a file in the way, an archive with a symbolic link or an empty
  directory, a directory on disk that has files in it and may not be written in,
  for which `copyDir` sets a mode that does not help (`fsutil/copy.go:88`). Of a
  failed write it says nothing.
* `PulledWhole` speaks of the regular files of a release: others are left out
  without an error (`cmd/env86/pull.go:151`). It and the second part of
  `OneRelease` exclude pulls at one time, which may write one directory; the
  latter also a copy at a path, which may come to lie beside another release.
* `CreatedServesFiles` excludes a directory that changes while it is read and an
  error that `create` ignores, a path that a walk has no access to among them
  (`cmd/env86/v86util.go:84`).

## Fairness

Weak fairness of goroutines that can run, one condition for each goroutine (or
page, handler, connection): the Go scheduler and the browser run what is ready.
For a page it means that its script gets on while nobody closes it; a page that
nobody serves fails, which is its progress. For the guest service it means that
it answers, as long as the link is up. No fairness for users (typing, closing,
visiting), for programs in the guest (they may never write or exit), for the
loss of a link, or for the beginning of an exit. `StartReturns` therefore names
the loss of its page as the only other outcome, and the `...EndsWait` properties
begin with a driver that is already waiting. In `Proxy` a copier's own steps are
fair, but a Write is so only while its receiver reads: one that reads takes what
comes, and one that does not may hold the Write for ever. In `Terminal` and `Streams` the
goroutine that copies and the one that looks for the pattern are fair, and no
machine or user is. The other parts state no liveness.

## Findings

* `restart_window`: `http.go:81-82` takes a closed connection for a closed
  window and clears `vm.win`, which after a restart is the window of the new page.
* `ctrl_d_save`: the README promises that Ctrl-D saves first; with two exits at
  once the process ends while the image file is being written (`vm.go:123-136`).
* `compressed_save`: an image with `initial.state.zst` is saved as a stream
  without its end, as the bytes are taken before the encoder is closed
  (`image.go:128-133`).
* `compressed_prepare`: `Prepare` leaves such an image without a state that the
  page looks for and without a kernel (`image.go:180-182`).
* `guest_missed`: the run command says "guest not found" of a guest whose socket
  is not accepted yet (`cmd/env86/run.go:46`).

## Proofs

All are checked by TLAPS for every value of the constants that the modules'
assumptions allow; a theorem that assumes more says so in its statement. Where an
invariant is not inductive, the strengthening is named here.

**Life cycle** (`LifecycleProofs`, from `PagesAssumption`, `ConfigsAssumption`).

* `TypeCorrect`: `TypeOK`, which includes that a headless run has no window and
  any other nothing to cancel. It is inductive.
* `CleanExitIsSaved`: `CleanExitSaved`. The property speaks of the end only; the
  inductive `BootInv` follows what leads to it. `BootStopsForCause` says that a
  stop on its way, or a returned `Wait`, has a cause: an exit past its save, or a
  page that is gone; `ControlAfterPage` that a connection is served only for a
  page that connected; `LoneSave` that a lone exit past its save has left the
  image new, which needs that nobody else writes; `ExitedFromBoot` ties the
  exited process to the returned `Wait`. If no user closed a page, the first page
  to go was taken by a stop, and the first stop is an exit's.
* `LoneStopNeverPanics`, for the boot command, which neither restarts nor closes
  its VM (`BootStages`): `LoneStopIsSafe`. `NothingAtStart` and `OneUnload` are
  added to `BootInv`: the UI never has more than one closure waiting; when that
  one unloads a window there is one; once a page has been unloaded, no window and
  nothing waiting is left and some Exit has done it; and until then an Exit that
  is about to cancel the page finds it, so that only the Stop of `handleControl`,
  which follows the loss of the page, can meet a nil. `LoneBefore` lets the condition
  (one exit, no closed console) be used before a step as well as after it.
* `StartMeetsItsPage`, for no visitors: `StartMatchesItsPage` for any number of
  restarts. `OneStartAtATime` says that every page but the latest is past loading
  or was never asked for, and that a report on its way is the latest page's.
  With a visitor the code does not have the property: `Start` takes any report.
* `SessionImplemented`: every step of `Lifecycle` is a step of `Session` or leaves
  its four variables alone, one lemma per group of actions.

**Image store** (`ImageStoreProofs`, from `BoundsAssumption`, `NoFileAssumption`).

* `StoreTypeCorrect`, and `BootRestores`: `BootRestoresSaved` for states of any
  size, with what a save in progress knows as the strengthening.
* `PageStartsAsPublished`: `WebStartsAsPublished`. Its core is `PartsMakeUp`: the
  parts that `splitFile` cuts, put together, are the file, for any size of the
  file and of a part. `WebInv` keeps the state that was published; `StaysPlain`
  says that an image without a compressed state never had one.

**Images on their way** (`ImageProofs`, from `PullAssumption`, `CreateAssumption`).

* `KeepsReleasesApart`: `OneRelease`. `ChosenTag` follows the tag from the command
  to the file, so that a directory named for a tag gets nothing else, with any
  number of pulls at one time. For the directory `latest` and the copy, which are
  named for no tag, `Alone` says that one command works at a time, `MakesNew`
  that it found nothing there, and `FillsFromOne` that it fills them from one
  release. It needs that no release is tagged `latest` or `local`.
* `PullsWhole`: `PulledWhole`, for any set of entries that are left out.
  `LastMeets` says that of two commands in one directory one knows of the other, so that one that was alone there was the last
  to make it; `PlacedSoFar` that each file is still to come, half written, or
  there with its release, through the extraction (`Extracts`) and the copy, and
  that an entry which was skipped is no regular file (`SkipsEntryStep`).
* `CreatedServes`: `CreatedServesFiles` for any directory and any assignment of
  short hashes. The invariant relates what is left of each walk (`unread`) to the
  index and to the stored files: all that the walk has passed is in
  (`IndexFollowsWalk`, `BlobsFollowWalk`), and under a name there is only what
  the index has under it (`BlobNamed`). It needs that the index ends the command
  on two contents of one name.

**Guest** (`GuestProofs`, from `ExecAssumption`), all from `GuestInv`:
`GuestTypeCorrect`, `ReadyKnowsVersion`, `OutputStaysInOrder`,
`QuietExitLosesNothing`, `InputStaysInOrder`, for any number of calls, chunks and
callers. `Counted` says that a chunk which is sent was written; `InStep` relates the
stages of the host, the handler and the program of a call, and of one call to
the next; `Flow` that what is under way continues what the host has got, with
nothing left out before a chunk, and with all of it before the status of a quiet
program; `InputPlaced` that a copier, which may be left behind by its call, holds
a chunk newer than any sent to that call or to one before it.

**Relays** (`ProxyProofs`, from `ChunksAssumption`). `RelayTypes`,
`JoinLosesNothing`, `ForwardCompletesOneWay`, from `RelayInv`: `CopierCounts`
relates what a copier holds to what arrived, unless its way is cut; `CopyingOpen`
and `ReturnedStill` say when a way can be cut; `ReturnedComplete` keeps what held
at the return.

**Streams** (`StreamsProofs`, from the assumptions of the three modules and
`RadixAssumption`; a length is one that four bytes hold), all about the
specification of `Streams` and from `StreamsInv`, which has a part per stream. The
four bytes of a length, read again, are that length, whatever the number of values
of a byte (`LengthOfBytes`).

* `AdapterInv`, for `FramesGoAtOnce` (`LoneFrameNotHeld`). What was read and what
  is left in the buffer make up what was fetched (`ReadInv`). What was sent are
  the first frames, and the write buffer is what follows them; without a Write
  that brought two ends, it holds no whole frame (`WriteInv`).
* `LinkInv`, for `MessagesGoWhole` and `MessagesGoInOrder`. `OrderedInv` holds with
  any bytes lost, dropped or thrown back: what the page sent or holds is a part of
  the stream, in its order. `WholeInv` needs a stream with nothing lost: the
  messages sent are the first ones, and the buffer is the beginning of the next.
  By `KnowsItsEnd` the page then takes a message for whole exactly when it is one.
* `TerminalInv`, for `FindsPattern`: the goroutine has found the exit pattern
  exactly when the output it has read holds it. `KeptIsEnd` is the strengthening:
  `temp` is the end of what was read, and either all of it or at least one byte
  less than the pattern; so a pattern that ends in the next piece begins in what
  is kept (`WindowSuffices`). `OutputInPlace` says that the pipe holds what follows.
* `SessionInv` says of the terminal what the copier holds and what was typed.
* `StreamsTypeCorrect` follows from all four, and `StreamsImplementFifo`: the
  refinement, step by step, by the adapter and the terminal; the steps of serial
  port 1 leave `Fifo` alone. On each of the four ways what came out begins what
  went in (`OrderedDelivers`), and a step only prolongs either
  (`OrderedAdvances`, from one lemma per way, put together by `OneMoves`).

**Composed file systems and copies** (`FilesProofs`).

* `ServesNewest`: `ServedByNewest`. As long as the order holds, the code's mounts
  are the live ones (`OrderedAsLive`): a new mount goes in front of both, and what
  `remove` does to a mount that is last or last but one is to take it away
  (`RemovedNearEnd`). On a path of plain names a text prefix is a prefix of names
  (`TextPrefixOfPlain`), and what is cut off it is the mount point
  (`TrimOfPlain`). From `NamespaceAssumption`.
* `ListsWhole`: `DirectoryWhole`, for pages of any size but the excluded first
  ones. Its part about names needs no order, as by `Matched` the code's mounts are
  the live ones but for their order and for which of several on one path are
  left. How often a name is listed is claimed, and proved, while the order holds
  and the code's mounts are the live ones (`OrderedAsLive`). From the same
  assumption, which says that a directory has finitely many entries.
* `CopiesFaithfully` and `CopiesOrSaysWhy`: `CopyFaithful` and `CopyFailsForCause`,
  from `CopyInv` and `TarAssumption`. `FrameShape` says that the directories being
  copied lie in one another, and `CopiedSoFar` that what is in a directory that
  was entered is copied or still listed in its frame. At the end no frame is
  left, so nothing in an entered directory is missing; that every directory of a
  well-formed archive was entered is a descent: of the entries that were not
  copied, one with the shortest path would lie in a directory that was
  (`AllTaken`).
* `FilesTypeCorrect`: `TypeOK` of the composition. `FilesInv` has the invariants of
  all four parts, kept by every step of `Files`.

The theorems about pull, create, mounts and copies are about the specification of
that part. `FilesImplementParts` says that `Files`, which the run checks,
implements each of them, and `FilesSafe` that it therefore keeps them all.

`DataFacts` holds what these need to know of numbers and sequences, and a small
theory of `FlattenSeq` (how much of a row of messages a number of bytes is). The
library's induction theorems take an operator, which the provers cannot
instantiate, so both kinds of induction used here are about sets and proved from
the well-foundedness of the numbers: a set of numbers that is not empty has a
least one (`LeastNatural`), and one with 0 and every successor has all
(`AllNaturals`). No module declares a RECURSIVE operator.

Only model-checked: liveness, as fairness and ENABLED are outside what TLAPS
proves, that is `StartReturns`, `ConsoleGoneEndsWait`, `ExitEndsWait`,
`LoadedHandlerReturns`, `ParkedWakes`, `RunReturns`, `JoinEnds`, `ForwardEnds` and
`PatternExits`. The findings are TLC's counterexamples.

## What is not modelled

* The emulator, the RPC and websocket libraries, the window toolkit, the virtual
  network, Docker and the operating system's file calls are external; their use
  in the code is modelled where it matters.
* `Pause`, `Unpause`, `Restore`, `MacAddress`, `ResetNetwork` and the console API
  are single remote calls without state of their own on the host.
* `serve`, `network` and `assets` wire a server or a bundler together and keep no
  state. Flags, paths and the text of messages are left out everywhere.
* Code that nothing reaches: `removeAll` and `rmRecurse` of `namespacefs`;
  `handleTar` of `create`, which refuses a tarball before; the parts of
  `tarfs` for seeking and paging, which nothing here uses.
* `create` from Docker, whose steps before the index are external commands in a
  fresh directory; the metadata and the nesting of index entries; devices and
  pipes in the directory, which may block a read for ever.
* Modes of files other than the right to write in a directory; symbolic links to
  directories on disk; a release whose asset is uploaded again.
* Read errors of the relays, and what the network still loses of data that was
  written when a connection is reset.
* What happens to a page whose server has lost a part of a state, and the end of
  a program's stdin: see the notes in `PROJECT.json`.

Data races on single words are taken as interleavings of reads and writes of
whole values.
