# A verification project for Lufia 2 SNES Recomp

The program runs a statically recompiled (and partly decompiled) SNES game
inside a host of its own: a widescreen renderer, a PPU that draws off the guest
thread, a native sound driver, MSU-1 music, saved states and a rewind history.
The game is right or wrong on its own account; what can go wrong *here* is the
host around it. Most of it keeps a cached, deferred or derived picture of guest
state and has to notice when the guest moves on: between two frames, between
two scan lines, inside a map load, across a saved state. The rest is the bridge
on which the guest itself runs: the game's routines as C functions that call
each other over the guest's stack, with an interpreter that takes over wherever
a function cannot go on.

The modules in this directory are TLA+ models of those parts, translated from
the source; TLC checks them on small instances and TLAPS proves some of the
results for every value of the constants.

## 1. The system

### 1.1 Parts, their state, and how they meet

| Part | State it keeps | Operations | Talks to |
|---|---|---|---|
| Deferred sprite rows (`lufia2_ppu_obj_defer.c`) | sliver pool, line records, published/closing words, the helper's own row | Start, BeginLine, Sliver, LineFits, Publish, Stop, Worker | PPU line loop (spliced in by `runtime_ppu_offload.py`), frame recording, helper core |
| Deferred frame (`lufia2_ppu_offload.c`) | recorded rows, palettes, battle epoch, menu base, presenter's frame | Begin, RecordLine, BeforeMemoryWrite, EndCapture, Freeze, PrepareFrozen, Submit, Fallback | timeline, raster logs, menu renderer, presenter |
| Raster timeline (`lufia2_ppu_timeline.c`) | line, policy epoch | the line loop: snapshot, line, HDMA, IRQ | guest interrupts, deferred frame |
| Save-state browser (`lufia2_savestate_menu.c`) | bound game file, slot cache, files on disk | Install, on_slot_transfer, Open, Close, submit | game-file events, file system, rewind |
| Main loop and pads (`main.c`) | release mask, previous inputs, layouts | loop, menus' loops, hot keys | everything |
| Native sound driver (`lufia2_spc_native.c`) | queue of delayed accesses, deferred run, who owns the APU | Run, Cycle, Idle, Active, TakeOver, SaveState, LoadState | APU core, decompiled driver |
| Map readiness (`lufia2_map_load.c`, `host_events.c`) | load in progress, committed map, pending selection, generation | Begin, Commit, Frame, StateChanged | guest loader (native or interpreted), widescreen renderer |
| MSU-1 driver (`lufia2_msu_driver.c`) | selected song, rewound, playing, last volume | SongLoad, Frame, SaveState, ApplyLoadedState | SPC RAM, MSU-1 chip |
| Video handoff (`lufia2_video_handoff.c`) | the last plain wide picture, hold, effect budget | Observe, ObserveRaster, Apply, Reset | main loop's layouts, PPU raster history |
| Runtime adapter (`lufia2_runtime.c`) | frame boundary, execution extension of a state | run to boundary, NMI, draw, save/load | interpreter, PPU, APU |
| Host events (`decomp_bridge/host_events.c`) | handler slots, subscriber lists | set/dispatch | decompiled routines, all watchers |
| Map widescreen (`lufia2_map_widescreen.c`) | shadow tilemap, settled scroll, tile classification | Prepare, Finalize | map readiness, PPU |
| Pixel caches (`lufia2_ppu_row_cache.h`, `_background_cache.h`, `_layer_cache.h`) | drawn rows with a certificate of what they were drawn from, a copy of VRAM, the counter of its writes | Begin, BindPolicy, Read, Store; the same inside the core | menu, highlight, battle HUD and scene, the core's line loop |
| Menus and battle (`lufia2_menu_ui.c`, `lufia2_battle_effects.c`) | row caches, the highlight's copy of VRAM, the policy a scene was drawn for | prepare, draw a pass, bind the pixel policy | row caches, deferred frame |
| Decompiled routines' bridge (`decomp_bridge/actor_bridge.c`) | copies of the registers, levels of an unwinding; the guest's own return frames | entry guards, six ways to call a child, two ways to return, boundaries, checkpoints | decompiled routines, interpreter and its dispatcher, host events |
| Intro, overlay, splash | tree history | compose | PPU |
| Assets, resources, game fixes, patches, Vita port, diagnostics | tables, counters | – | – |

`PROJECT.json` lists all of them with their status, and the hazards of the code
line by line.

### 1.2 What is hard

* **Concurrency.** One helper core shares the sprite-row queue with the guest
  thread: volatile words, one barrier, `wfe`/`sev`. Everything else runs on one
  thread, but in a fixed interleaving (lines, HDMA, interrupts, frames, host
  loop) in which the guest may act between any two steps.
* **Deferral.** A frame, a sprite row and a hardware access are made later than
  the guest asked for them, and must not show that.
* **Giving up half way.** A deferred frame can be refused at a dozen points;
  each must leave the frame that serial drawing would have given.
* **Saved states and rewind.** They replace the guest under statics that
  describe it; some statics are saved, some are reset, some are forgotten.
* **Two stacks.** A call in the game is a frame on the guest's stack and an
  activation on the host's. The game drops frames, changes return addresses and
  jumps between routines; the host has to end exactly the activations whose
  frames are gone, from wherever it is.
* **Certificates.** A row of pixels is kept with a description of everything it
  was drawn from, and served without drawing while that compares equal. What
  the description leaves out, no comparison will find.
* **Clocks and budgets.** A 32-bit APU clock that wraps, budgets of frames for a
  selected map and for a standing effect.
* **Files.** The process may be killed between any two files of a saved state
  or of the one-time clean-up; a remove may fail.

### 1.3 What makes each part correct

* Sprite rows: the captured rows, and the row handed back, are those of serial
  evaluation; the two threads never touch one record; Stop returns.
* Deferred frame: what is shown is what the serial renderer would have shown;
  the menu's base and the presenter's frame are always given back.
* Browser: a state is filed under the game being played; nothing bound is lost,
  nothing unbound lingers; what is offered is what is on disk.
* Pads: what was pressed for a menu never reaches the game.
* Sound: each access takes effect in the cycle in which the original makes it,
  reads see the driver's own writes, a run asked for is made.
* Map readiness: bank $7F is never believed while it is being rewritten, and
  what was derived from it is dropped when it changes.
* Music: the right track, from its start, at the SPC's fade, one music at a time.
* Bridge: a result names the activation the guest continues in, a body goes on
  only where its call returned to, and the newest registers are where the
  program that runs looks for them.
* Caches: a row that is served is the row a draw would give now.
* Handoff: a bridge follows one scene out and only gets darker; the saved
  picture lies where the map is; an effect is given back within its budget.

## 2. The modules

Each definition that stands for code names it in a comment, and
`PROJECT.json` "map" names the lines. Operators under a comment `Mistake:` are
plausible wrong versions of the definition after them; they are not part of any
specification, and serve to show that the property they break can be broken.

### 2.1 SpriteData, SpriteRows, ObjDefer, MCObjDefer, ObjDeferProofs

`SpriteData` has the data both evaluators share: what a sliver paints
(`Rasterize`), what is kept of a row (`Record`). A column is one pixel, a tile
one word, and some tiles lie past the end of VRAM, whose words the code resolves
at selection. `SpriteRows` is the abstract specification: rows evaluated one by
one, at once. `ObjDefer` is the code: `SelectSliver`, `BeginLine`, `PublishRow`
and `Stop` (`gpc` walks through `Stop`'s stores one at a time) for the guest
thread, `PollPublished` … `Pause` for the helper, which reads `s_published`,
`s_closing` and `s_published` again in three separate steps.

*Atomicity.* A record is private until `s_published` moves past it, so its
fields are written in one step with the publication. Two things are not atomic:
the helper's reads, and `Stop`'s last publication, which has no barrier in front.
Until `Stop`'s `Signal` (`late`) the helper may read the row so published as it
was at any earlier time: `RasterizeEarly` leaves any pixels in it, and the
history goes on from that row. `SpriteRows` says the same of the one row that is
`handed` over: it arrives or gets lost, and no other row does. `event` is the core's event latch: `sev` sets it, `wfe` eats it.

*Fairness* (`FairSpec`): weak fairness of the helper's step and of the guest
thread's steps inside `Stop`: a core runs, and a thread in a spin loop is not
suspended for ever. The guest thread need not start or end a frame.

*Bounds.* Three lines, a pool of two slivers and one sliver a line: the pool
overflows in mid-frame, a row waits behind another, and a third is open. One
column inside the wide span and outside the narrow one is enough to see the
margin of an older row. `View` leaves out static storage that will be written
before it is read again. The liveness run has no view, two rows and no data.

### 2.2 PpuOffload, MCPpuOffload, PpuOffloadProofs

A row's picture is the four things it depends on: registers, raster memory,
palette, battle policy, each a version that a write advances. `WriteRegister`,
`WriteMemory` and `WritePolicy` (HDMA and interrupts) may come between any two
lines; `Admit`, `RecordLine`, `EndCapture`, `Freeze`, `PrepareFrozen` and
`SubmitPresenter` can each refuse, and `Fallback` redraws what was recorded.
Registers, palettes and rows are logged with three different bases (`Line` has
one value more than `Row`). `wants` is the picture each line would have drawn.
Two rows are enough for one row before a write and one after; versions 0 and 1
with `Old` for anything left of an earlier frame. `EpochSpan = 3` makes the
policy epoch wrap. The menu's base and the presenter's frame are flags and rows;
the consumer that calls these functions is outside the repository and follows
the contract of the header.

### 2.3 SavestateMenu, MenuProofs

A state file is known by the game it holds, its sidecars by whether they
describe it or the state it replaced. The guest's transfers (`LoadGame`,
`SaveGame`, `FileSelect`, `GameList`) call `OnTransfer`, with the one thing the
code looks at, the return address of a preview. `Install` and `ClearOne` are one
step a file, `SaveState` and `SaveSidecars` are two, and `Kill` may come between
any of them. A remove, the marker and a sidecar may fail. `Rewind` brings back
an earlier game without a transfer, and so does a state from before the binding
that could not be removed: it may hold any game (`GamesOf`). Two history
variables say when the properties can no longer be asked for: `strayed`, while a
game is played that came back in such a way and is not the one the menu is bound
to (a state saved then says so), and `failed`, once a remove or the marker has
failed.

*Bounds.* Two game files of two slots, all of them legacy names. At most
`MaxStates = 2` slots are filled at a time, which is enough for a state in the
wrong place and one that it replaced; the rewind history remembers any one of
the earlier moments, since a rewind goes to one.

### 2.4 MenuInput, MenuProofs

The player presses and releases buttons between any two reads of the pad. The
reads are the code's: `CheckRewind`, `CheckGesture`, `PollNav`, `LeaveMenu`,
`GuestFrame`. Two buttons of the gesture and one other stand for all.

### 2.5 SpcTimeline, SpcNative, MCSpcNative, SpcNativeProofs

`SpcTimeline` is the promise, without a clock: a pending access waits so many
cycles, and a full queue gives up its oldest. `SpcNative` is the code, with a
clock modulo `Modulus` and due times compared as a signed difference. The
decompiled driver is external: in a run it delays, writes, reads, ends, in any
order (`Delay`, `Write`, `ReadDsp`, `End`); where the original's busy time ends
is whatever the last delay said. The core asks `Active` before each use of the
program and calls `Loaded` before a state's chunk is read; `Settle` is what
happens then. A state may be loaded with the chunk (`LoadState`) or without it
(`LoadOlder`). `OnTime` is the refinement: the pending accesses, as distances
from now, follow `SpcTimeline`.

The save loop of a paused game runs without the core, so `SaveState` is possible
before `Settle`, when the registers are those of the older state and the queue
is still the one it replaced. Loading such a state plays its queue over another
game. The history variable `strayed` says that this is what is being played;
`ReadsOwnWrites` and `OnTime` are stated for all other states, and
`SpcTimeline` says what is promised of a strayed one: its registers may become
anything (`Astray`), everything else is as before, and any other state ends it.
`DeferredHasWaker` holds in a strayed state too.

`ReadsOwnWrites` is about the driver's reads of registers whose writes are
still in the queue. That a deferred run is made is stated without fairness: `DeferredHasWaker`, a
run asked for always has someone who will start it, either the queue's last
access or the run in progress.

*Bounds.* A queue of two and runs of three accesses, so that it overflows; a
modulus of 6, more than twice the longest delay
that can be pending, with the clock just before the wrap at the start and in a
loaded state (`StateClock`; the proofs take any); one DSP register with two
values. `View` (`MCSpcNative`) leaves out what nothing looks at: the SPC's place
while the driver has the APU, and its clock while nothing is queued.

### 2.6 MapLoad, MapLoadProofs

The guest selects a map, enters its loader (natively or interpreted), loads it
over several frames, and leaves it by a return, a skip, an unwinding or by being
abandoned. `Begin`, `Commit`, `InterpreterCommitted` and `Entered` are the
events, `MapLoadFrame` and `InProgress` the readiness code, `Frame` the
renderer's use of it. A state is saved after any frame (the rewind does), inside
a load too. `Lufia2MapLoadStateChanged` forgets the load, and nothing tells the
observer that the restored guest is in another: the history variable `missed`
names that load, until it or another one begins anew, and is what `LoadCovered`
and `CacheCurrent` excuse. What the renderer derives from the half-written bank
meanwhile may outlive the load, which ends without an event. *Fairness:* `WF(Frame)`, frames go
on being prepared. Three maps are needed to tell a field, a pending and a
resident map apart; `MaxPending = 1` is one frame within the budget.

### 2.7 MsuDriver, MsuDriverProofs

The fade has two levels; the chip is the selected track, whether it plays,
whether it is at its start, and its volume. SPC RAM is part of a saved state,
the chip is not. A `Restart` begins a new session, which may find another pack,
the chip switched off or another hush setting, and the state saved before it can
be restored there. The history `foreign` says that the song which a restored
state has loaded was loaded in a session that saw to it otherwise (`Alike`): with
a track where this one has none, hushed where this one does not hush, or the
other way. The code cannot tell; `OneMusic` is not claimed of such a song, and is
claimed again from the next song load on. The other properties are claimed of
every state. `OlderState` is the state of the driver before this one, taken
inside its guest call. Two songs and the packs with one and with both of them
cover a missing track.

### 2.8 VideoHandoff, PictureProofs

A frame is `PrepareFrame` (scene, brightness, mosaic, scroll, with the battle's
reset first), `DrawFrame` (the line history, or none) and `ComposeFrame`
(`Apply`); the menus present the composed picture again and do not compose.
`ToggleWidescreen` and `RestoreState` come between frames. Pixels are left out:
the saved picture is known by the scroll its rows were drawn with (`savedDrawn`),
one scroll standing for both directions. Two rows, for a split scroll; two
scrolls; four levels of brightness, for a fade that stops, rises and goes on;
and a budget of three frames.

### 2.9 BridgeRoutines, DecompBridge, DecompBridgeProofs

`BridgeRoutines` is the table of the routines of `actor_bridge.c` as their entry
points admit them: how a routine calls what it calls, whether it returns with
RTS, with RTL or never, the register widths it was written for and the stack
pointers it accepts. A definition of it stands for a stretch of the file, and
routines that enter alike are one element. `DecompBridge` takes from it which
protocols are met with and without a return frame of the routine's own
(`Natives`); no property turns on the widths or on where S is, as a refusal is
possible at every entry. `DecompBridge` is what all of them
do. The guest has a stack of return frames (`stack`, each with the activation
whose landing it holds, or 0 for plain guest code); the host has a stack of
activations (`host`), the owning interpreter at the bottom. `Enter` is an entry
point, which may refuse; `ActorBridgePushedChild` and `ActorBridgeMissingChild`
are the calls, by the six protocols of the file; `ActorBridgeReturn`,
`ActorBridgeReturnPastFrame`, `Boundary` and `ActorBridgeExecutionCheckpoint`
are what a body can do besides; `Unwound`, `Resume` and `ChangedReturn` are the
three things a call site does when its child has ended. `levels` is the result
that travels through the host, `regs` says who has the newest registers.

*External* are the interpreter and its dispatcher (`InterpretedCall`,
`InterpretedReturn`, `TimeUp`, `Unwind`), which the bridge uses through the
recompiler's header, and the guest's code, which may push, pop and change return
frames (`GuestRewrites`). The guest's code is not in the
repository, so any call site's child may come back somewhere else, and any
interpreted child may outlast its time. What the code makes of it differs by
site. `Told` are the sites that let the dispatcher say where the child came back
(all but the slots' own, whose call has no such result), `Checked` those that
look. After a changed return the engine's and the scene's sites add the level
that the hand-over takes away; the pushed calls' does not (`actor_bridge.c:1278`),
nor do those that share its way: the activation that goes on there `owes` a
level, and what it returns is short of it. The slots', pushed and music calls
wait for an interpreter even if its time runs out (`Waiting`). Two history
variables keep account: `missing`, the levels that the result underway lacks,
and `misled`, which becomes true when somebody goes on or is passed over on the
word of a short result, or when a waited-for child gives up, and false again
when everything has unwound to the owner. `LevelsExact` says that a result, with
what is known to be missing from it, is exact as long as nobody underway has
been misled; `ResumedWhereReturned` is excused by `misled` too;
`RegistersCurrent` needs no excuse. *Left out:* the routines' own
effects, the conditions of an entry other than width and stack (a refusal is
always possible instead) and the cycles of the timed thunks.

*Bounds.* `MaxHost = 5` activations and `MaxFrames = 3` return frames: a result
that passes over two activations to a third needs four, a short one that is
still above 0 needs five, and a frame dropped below one's own needs two more
than the caller's; jumps need no frame. The proofs need neither.

### 2.10 PpuPixels, RowCache, BackgroundCache, PixelCaches, PictureProofs

`PpuPixels` says what a row of pixels depends on; `RowCache` and
`BackgroundCache` are the three caches as operators on a record for one row,
each function of the headers an operator; `PixelCaches` has their users, one per
behaviour (`user`): the menu's passes, the highlight with its cleaned copy of
VRAM, the battle's HUD and its scene, live or for a prepared job (`Bind`,
`Unbind`), and the core's own background and layer caches. Inputs change between
any two looks (`Raster`, `VramWritten`, `HostChanges`), a frame begins (`Frame`),
another row of the same cache is looked up first (`OtherRow`). What a draw gives
is the record of everything it reads (`Drawn`), so two rows are equal only if
they were drawn from equal inputs. The counter of VRAM writes is kept as the
answer to the question asked of it. A prepared frame that is given up binds the
pixel policy without the row policy (`Bind`, `Recovering`); the history `recovered`
says that a kept row was drawn so with an effect on, and only the effect of such
a row may be old (`OldEffect`).

*External:* the core that draws; what it reads is taken from the caches'
description, field by field, and each field left out of a certificate had to be
justified by the draw that does not read it. *Left out:* palettes' arithmetic,
the modes and widths in which a cache does not apply at all, the switches that
turn one off, the art's loading.

*Bounds.* One row, since the rows of a cache share only the copy of VRAM and the
policy, for which `OtherRow` stands. Two pages of VRAM, two palette blocks, two
passes and two values of everything else. In one behaviour at most `Varied = 2`
inputs change, any two of the user's (each page of VRAM is one): a certificate
that fails does so because one input is missed, possibly while another makes it
look again.

## 3. The runs

| Run | What it asks | Result |
|---|---|---|
| `obj_defer` | every interleaving of the two threads over frames of three lines: separate rows, exact captures and live row, stable sources, refinement of serial evaluation; of a row that Stop hands over and the helper reads too early, that it spoils no other | holds |
| `obj_defer_live` | no wake-up is lost: Stop returns, published rows are drawn, Stop's last row read too early or not | holds |
| `ppu_offload` | frames given up at every point: the picture, the menu's base, the presenter, the policy's certificate | holds |
| `savestate_menu` | every order of transfers, saves, loads, rewinds, failures and kills | holds |
| `savestate_rewind` | a rewind past a load, then a saved state | **violated** |
| `menu_input` | what was pressed for a menu stays there; a hold toggles once; no button stays masked | holds |
| `spc_native` | accesses on time across the wrap and when the queue is full, own writes read back, deferred runs not forgotten, states with and without the chunk, saved at any time | holds |
| `map_load` | loads of all kinds, abandoned or not, with frames and saved states between | holds |
| `pixel_caches` | each user's row looked up, drawn and kept while any two of its inputs change: what is served is what a draw would give, but for the effect of a recovered row | holds |
| `msu_driver` | song loads, fades, states, restarts that find the same pack, another or none | holds |
| `video_handoff` | fades, blanks, effects, battles, switches; rows taken from the saved picture lie where the map is | holds |
| `decomp_bridge` | calls, jumps, returns past frames, refusals, boundaries and unwindings over one guest stack: results name the right activation, bodies resume where they were left, registers are never an older copy; a result lacks no more than the levels its hand-overs are known to leave out | holds |

Deadlock is checked in every run. The larger runs take two to three minutes on
two workers.

### 3.1 Where the code and its texts disagree

* `savestate_rewind`: a rewind past a load leaves the browser bound to the file
  loaded last, so a state is filed among another file's.

The others can be seen with configurations that are kept here outside the list
of runs; each ends with a counterexample to the property it names:

* `MapLoadRestore.cfg` (with `MapLoad`, `EveryLoadCovered`): a restored state may
  lie inside a load that the observer has just been told to forget
  (`lufia2_map_load.c:108`, `host_events.c:135`).
* `SpcUnsettled.cfg` (with `SpcNative`, `AlwaysReadsOwnWrites`): a state without
  the driver's chunk is loaded and another saved before the core asks `Active`
  (both in the save loop, `main.c:2842`); it has the queue of the game before
  beside the registers of the one just loaded (`lufia2_spc_native.c:357`).
* `MsuPackGone.cfg` (with `MsuDriver`): the SPC volume that hushes a song is
  restored with the state and not written again until the next song is loaded
  (not at all with the chip off), so a session that has no track for the song is
  silent. The run `msu_driver` restores such states too, and shows what holds of
  them.
* `BridgeChangedReturn.cfg` (with `DecompBridge`, `NoneMissing`): when an
  interpreted child comes back elsewhere, `ActorBridgePushedChild` hands over
  without the level that the engine's and the scene's sites add
  (`actor_bridge.c:1271` has it, `1279` has not). A caller one further up is
  then resumed too early. Whether any child behind such a site strays is a
  question about the game.
* `BridgeGivenUp.cfg` (with `DecompBridge`, `LevelsAlwaysExact`): a child that a
  slot's, a pushed or a music call waits for runs out of time and one level is
  taken for its return; `actor_bridge.c:1261` says so of the reload's children
  and hands those over instead.
* `PixelRecovered.cfg` (with `PixelCaches`, `RowsAlwaysExact`): when a prepared battle
  frame is given up, `Lufia2PpuOffloadFallback` binds the pixel policy of the
  frame and not its row policy, so rows drawn with an effect on stay valid; a
  live row with the effect off is served them (`lufia2_ppu_offload.c:575`). The
  comment at `lufia2_battle_effects.c:838` guards the other direction. The run
  `pixel_caches` recovers frames too, and shows that nothing but the effect of
  such a row is ever old.
* `ObjDeferLate.cfg` (with `MCObjDefer`, `EveryRowExact`): `Lufia2PpuObjDeferStop`
  publishes the open row without the barrier `Publish` uses. Where stores may be
  reordered (compiler or ARM), the helper may read that row before it is whole,
  and the row handed back has other pixels. The run `obj_defer` has the same
  steps, and shows what holds all the same.
* `HandoffBridge.cfg` (with `VideoHandoff`): a wide scene that fades in with a
  mosaic or a split scroll arms the bridge without saving a picture, so the one
  from before the black frame is bridged.
* `HandoffCentre.cfg`: a comment in `Apply` says that the centre is never
  presented stale; in an effect it is.

And two follow from the guards of properties that hold: in `SavestateMenu`, a
`remove` that fails is passed over for good, and a marker that cannot be written
makes the next start remove states that were bound; so `NoUnboundLeft` and
`BoundKept` are stated for histories without such a failure.

Read in the code, not modelled: `Lufia2InterpForget` (`main.c:1498`) keeps
`s_interp_last_valid`, so the repetition that a half-rate layer has to show
(`main.c:1547`) may be completed by a step of an earlier scene.

Two documents are behind the code without a property to show it: `ISSUES.md`
still says that save states are disabled, and `ENHANCEMENTS.md` lists the
browser as planned.

## 4. The proofs

All of them hold for every value of the constants that the named assumptions
allow (any frame height, line size, pool, columns and words).

* **`ObjDeferProofs`**, in three parts.
  *Ownership*: `Queue ==
  TypeOK /\ Control /\ HelperOwned /\ PoolOrder` is inductive. `Control` ties
  the two threads' positions together (which `published`, `closing`, `late` and
  `done` go with which `gpc` and `wpc`), `PoolOrder` says that the records
  partition the used slots in line order. From it: `TypeCorrect`,
  `HelperOwnership`, `RowsSeparate`. `NoSharedRow` alone is not inductive: that
  the helper stays off the open record needs the counts' order.
  *Rows*: `Exact == Queue /\ Chain /\ Recorded /\
  LiveRowExact`. Each published row continues from the margins the one before
  left, so the helper's row, the rows still waiting and the serial row form one
  chain; joining the helper closes it. A row read too early is the last of its
  chain, and one that no capture is waiting for (`EarlyRow`). From it:
  `LiveRowIsSerial` and `CaptureIsSerial`.
  *Refinement*: with the live row read off the chain, every step of `ObjDefer`
  is a step or a stutter of `SpriteRows` (`DeferralIsSerial`); the early row is
  the one `SpriteRows` lets get lost. `SourcesStable`: no write changes what a
  published row still reads.
* **`PpuOffloadProofs`** (for any number of rows and any wrap of the policy epoch
  of at least three). `FrameExact` is a claim about the end of a frame, so its
  invariant follows the frame: what a recording depends on and does not log is
  as it was when it was admitted (`Admitted`), so the rows recorded so far
  replay as their lines would have drawn them (`Recorded`), or, once it has been
  given up, have been drawn so (`DrawnSerially`), and the frame that is captured,
  frozen and shown is that one (`Carried`). `Ownership` says who has the menu's
  base, the clear and the prepared frame at each point, `Counted` which lines
  have run, `Certified` which epochs are in force. From it: `FramesAreSerial`,
  `LoansAreReturned`, `FramesSettle`, `CertificateIsCurrent`.
* **`MenuProofs`**, of `SavestateMenu` (for any number of files and slots). `Inductive` adds
  to the properties what holds at each place of the program (`Places`: an open
  menu is bound, and shows what it has scanned) and how far the clearing has come
  (`Cleared`: a marker only once the unbound states are gone, a bound state only
  once the marker is there). `Binding`, `FiledUnderBound` and `BrowserFresh` need
  each other: a state is filed under the game played because the menu is bound
  to it, a loaded state leaves the menu bound because it was filed so, and what
  is loaded is what the browser showed. From it: `BindingHolds`,
  `StatesFiledUnderBound`, `BrowserIsFresh`, `UnboundAreGone`, and `BoundAreKept`
  as a property of steps.
  And of `MenuInput`: `PadInductive` says, for each place of the loop, which
  held buttons are masked, what the last read saw and how often this hold of the
  gesture has toggled; `NoLeak`, `GestureOnce` and `MaskExpires` follow.
* **`SpcNativeProofs`** (for any registers and values, any longest run, any even
  clock more than twice as wide, and any queue). `Inductive` has four parts
  besides the types. `Ordered`: while the driver owns the APU, what is queued is
  in the order of its times, none is past, none is further off than the longest
  run, and during a run none is later than the run has got to. `Modes`: which of
  the flags go together, and that a run at delay 0 has found the queue empty.
  `Pending`: the queue played over the hardware gives what was written last.
  `SavedOK`: the same of a saved state, relative to its clock. Order and values
  are claimed of states that have not strayed; of the others the types and the
  modes remain, which is what `DeferredRunWakes` needs. `ReadsOwnWrites`
  is not inductive by itself, as it says nothing of the writes under the last one
  or of a queue that is about to lose its head: `Pending` does, for all
  registers at once. It rests on what the fold `Apply` computes (`FoldLasts`,
  `ApplyLasts`): each register keeps its last write; from that it follows that a
  queue can be played in two parts (`ApplySplit`), appended to (`ApplyAppend`)
  and redated (`DuesChanged`) without changing the outcome. The clock is settled
  by four lemmas on modular distances (`Away`, `WaitNew`, `WaitPassed`,
  `ReachedExactly`): as long as nothing waits for half a turn of the clock, the
  signed difference is `Reached` exactly when the wait is over. From it:
  `DriverReadsBack`, `DeferredRunWakes`, and, action by action, the refinement
  `DriverKeepsTime`. A cycle of the code maps to one `Pass`, in which exactly the
  accesses whose wait is over take effect (`CycleEffect`); a write to a full
  queue maps to the early effect of the oldest access and nothing else
  (`WaitingAppend`); a loaded state gives back every wait it was saved with
  (`SaveMaps`, `LoadMaps`); in a strayed state every step of the driver is an
  `Astray` (`StrayedMaps`).

* **`MsuDriverProofs`** (for any songs and packs, and any sessions sharing a
  saved state). `Inductive` says what the driver knows of the chip (`ChipKnown`),
  which song it has selected (`SongKnown`), when the SPC is hushed (`HushKnown`)
  and what a frame brings in step (`FrameKnown`), and the same of the saved state
  (`SavedKnown`) of the session that saved it, since a restored state must satisfy
  all of it at once; what a session that sees to its song otherwise cannot keep
  of it, the hush and the guest call, is claimed of songs that are not `foreign`.
  A state
  of the older driver lies inside a guest call, where the selected song is not
  yet the SPC's: `SongKnown` says so, and that nothing plays meanwhile. From it:
  `TrackIsRight`, `MusicIsOne`, `MusicFollowsSpc`, and `TracksFromTheStart` as a
  property of steps. `SongIsRight` adds `CallsOnlyWithPack` (only a session with
  the chip armed calls the older driver): the SPC is uploaded the song the game
  asked for, whatever call a state was saved in, unless it is `foreign`.
* **`MapLoadProofs`**: `CommitIsExact`, `LoadIsCovered`, `CacheIsCurrent` and
  `FreshIsReported`, with states saved and restored anywhere. The invariant says
  what the observer knows of the guest's place in a load, and that what the
  renderer keeps is the resident map unless a missed load has left it.
* **`DecompBridgeProofs`** (for stacks of any depth). `Sound` is the shape of the
  state with `RegistersCurrent`, which is inductive with it and so holds for any
  game (`RegistersAreCurrent`). `Guarded` ties the two stacks together: a frame's
  owner called the activation entered over it (`Framed`), upper frames belong to
  younger owners (`Rising`), a body has nothing of its own on the stack but the
  call it waits for, no activation leaves out of a result more than its site is
  known to (`Balanced`, `Level`), and who is returned to has no frame left above
  (`Landed`). With `Levelled`, the levels with the missing ones added, this is
  kept by every step after which nobody underway has been misled, and an
  unwinding brings it back from nothing but `Sound`: `Trusted`, which is both, is
  inductive and gives `ResultsNameTheReceiver` and `BodiesResumeAtLanding`, for
  any game.
* **`PictureProofs`**, of `VideoHandoff`. `HandoffInductive` adds to the types and `HeldInside` the
  count behind `EffectEnds` (`Counted`): the frames filled in succession never
  exceed the budget spent, unless a reset has dropped the saved picture, without
  which none is filled. From it: `HoldStaysInside`, `EffectGivenBack`,
  `BridgeFadesOut`. `PictureStaysAligned` (for any rows and any scroll period)
  adds `Aligned`: a line history that the handoff has is the one the picture was
  drawn with, the saved one's as well as the current one's (`RowsKnown`), and the
  edges were placed by it (`Placed`); `ShiftLeads` is the arithmetic: the signed
  shift leads from the saved scroll to the current one on a scroll that wraps.
  And of `PixelCaches` (for any values of the inputs, any pages, blocks and
  passes, and any number of inputs that change). `RowsExact` says only of a row
  that is looked up in this state what it is; what it rests on is what a kept
  row's certificates say of its pixels. `RowsInductive` states it for every row
  and pass that is valid: its pixels can be put together again from its
  certificates (`PixelsKept`), the certificates cover the pages and blocks that
  the draw reads (`Covered`), what has been compared in this frame or job still
  stands (`FrameOK`, `PolicyOK`), the highlight's copy is VRAM cleaned
  (`LentOK`), and the bound policy is the one the rows are drawn for (`SeenOK`).
  Each operator of `RowCache` keeps it (`SamePass`, `Keeps`), and a pass that is
  served has the certificates of the present inputs (`Fresh`). From it:
  `ServedRowsAreExact`, whether frames are replayed for a job or recovered row by
  row. A row is told by how it was drawn (`Told`): for no policy, for a job's, or
  for the pixels' alone with an effect on (`recovered`), and under a known policy
  with an effect only rows of the last two kinds are left (`EffectOK`).
  `PlanesInductive` is the same of the core's own caches, with the three keys
  over the two kinds of colours, and gives `CorePlanesAreExact` without an
  assumption.

Only model-checked: all liveness (`StopReturns`, `RowsDrawn`, `BudgetSpent`),
which is beyond the prover. Every safety property of the passing runs, of states
and of steps, is stated by a theorem, and none of them assumes more of the
constants than the named `ASSUME`s. Where a property is excused in some states
(`strayed`, `missed`, `misled`, `foreign`, `recovered`, and `failed` of a remove
or a marker the disk refused), the excuse is a history of what the code did and
the run goes through such states; for all but the last, a configuration of 3.1
shows what happens there.

## 5. What is not modelled

* The interpreter, the SNES core, the rewind library and the presenter: other
  repositories. They appear as external actions.
* The decompiled game: absent from the repository. `actor_bridge.c` has its
  entry points, which `BridgeRoutines` and `DecompBridge` model; the clocks of
  the timed thunks and the bodies that are written out there are not modelled.
* Pixels: blits, palettes, scaling, HUD layout, the intro's trees. Of the caches
  only what decides whether a row is served.
* The high-rate presentation: interpolated scroll between two guest frames, and
  the substeps of Mode 7. Estimates for the eye, with no claim of being exact.
* Parsers and decompressors: sequential, run once over immutable data.
* Small fixes of the game (play time, eggs, stairs, prices, names): each a few
  bytes behind one event.
* The 3DS consumer of the deferred frame and the Vita port.

## 6. Plan

Modules, most important first:

1. `ObjDefer` and its proofs, `PpuOffload`, `SavestateMenu`, `MenuInput`,
   `SpcNative`, `MapLoad`, `MsuDriver`, `VideoHandoff`: done.
2. `DecompBridge` with its proofs, and the pixel caches: done.
3. `HostEvents`: the subscriber lists (a capacity of eight, a snapshot before
   dispatch, subscribing and leaving inside a handler).
4. `Runtime`: a frame to its boundary, NMI, the order in which a state's parts
   are restored and in which the watchers are told.
5. `MapWidescreen`: the shadow and the settled scroll, composed with `MapLoad`
   and `VideoHandoff`; `Interpolation` with its forgetting.
6. `MenuRepeat` (the cursor's timer over a wrapping clock) and the intro trees'
   column history.
7. `PartyLimits` and `CaveEggs`, with the game's rules around them.

Abstract specifications: `SpriteRows` and `SpcTimeline` exist; planned are one
for the deferred frame (a frame drawn row by row) and one for the bridge (one
stack of calls, without a host's).

Theorems: with the properties of all runs proved, next is that `DecompBridge`
implements the one stack and `PpuOffload` the frame drawn row by row, once those
two are written; then the properties of the modules above as they come.
