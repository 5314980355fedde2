# A verification project for hwn10pro-eink

`libhweink` draws on the electrophoretic panel of an Android reader from native
code: it opens `/dev/ebc`, maps the driver's buffer, writes pixels through a
90-degree rotation, and asks the driver with an ioctl to repaint a window. It
also reads the pen from evdev. `hweink-note` is a note-taking program on top of
it, `hweink-demo` a set of experiments.

This directory models that code in TLA+, model-checks the models with TLC on
small instances, and proves the properties that matter most with TLAPS for every
value of the constants. File and line numbers below are relative to `src/`.

## 1. Inventory

| Component | State it keeps | Operations | Modelled in |
|---|---|---|---|
| Geometry (`libhweink/src/geom.rs`, `Rect` in `ioctl.rs`) | none | rotation both ways, clip, normalise, union, `to_buf` | `Geom` |
| Draw scopes (`draw.rs`) | per `Draw`: `dirty`, `mode`, `cancelled`, `flushed` | `put_pixel`, `put_pixels`, `fill_rect`, `blit`, `raw_shadow_mut`, `dirty_union`, `set_mode`, `flush`, `cancel`, drop | `Draw` |
| Surface (`path.rs`) | `shadow` (the canvas), the mapped buffer, its path | `draw`, `draw_with`, `put_pixel`, `fill_rect`, `clear`, `refresh`, `refresh_full` | `Draw` |
| Handles and render paths (`ebc.rs`, `path.rs`) | descriptor, mapping; in the driver one switch per path | `Ebc::open_path`, `open_info_path`, drop; `Surface::new`, drop | `Device` |
| Pen reader (`pen.rs`) | nine fields folded from events, `O_NONBLOCK` | `read`, `poll_once`, `PenIter::next`, `set_nonblocking`, `apply`, `snapshot` | `Pen` |
| Note program (`hweink-note/src/main.rs`) | `EXIT`, stroke state (`cur_tool`, `drawing`, `last`, smoother), keys | start, loop, keys, `am`, end; signals; `stroke_segment`, `stamp_disk`, `PressureSmoother` | `Note`, `Strokes`, `Ink` |
| ioctl layer (`ioctl.rs`) | none | issuing a call | failures in `Draw` and `Device` |
| Waveforms, tuning, system properties (`mode.rs`, `refresh.rs`, `sysprop.rs`) | none | tables and one-shot calls | not modelled |
| Demo and probes (`hweink-demo`) | none of their own | straight-line use of the library | not modelled |

How they interact. A `Surface` borrows an `Ebc` and owns the canvas; a `Draw`
borrows a `Surface`. `draw()` takes `&self`, so several scopes can be open on
one surface and write to one canvas. `draw_with` is `draw`, the closure's calls,
`flush` and the drop. A drop of a `Draw` flushes, a drop of a `Surface` switches
its path off, a drop of an `Ebc` unmaps and closes. The driver's switches of the
two paths are shared by every process on the device. The note program owns one
handle, one surface and one pen, and opens one scope per stroke step.

What is hard:

- the half-open rectangle against the rotation: `ScreenRect::to_buf`;
- a scope's end: `flush`, `cancel`, a failed ioctl, a panic and the drop, in any
  order, on overlapping scopes over one canvas;
- evdev frames cut by chunks and timeouts; queues that overflow; two polls and a
  blocking `read(2)` in one call;
- a switch without a count that several surfaces and processes turn on and off,
  and programs that die without running their destructors;
- opening in several system calls, each of which can fail;
- a signal during the start of the program, during its poll, or while it drains
  its keys.

`PROJECT.json` lists each of these as a hazard, at its line, with the properties
that cover it or the reason why none does.

## 2. The modules

```
Geom ─┬─ Draw ── MCDraw         Device ─┬─ Note ── MCNote
      │    └ implements Canvas          ├─ MCDevice
      ├─ Pen ── MCPen           Strokes ┘
      └─ Ink ── MCInk           (Ink implements Strokes)
GeomProofs ─┬─ DrawProofs ── CanvasProofs     DeviceProofs ── NoteProofs
            └─ InkProofs                      LeastProofs ─┬─ PenProofs
                                                           └─ InkProofs
```

`Canvas` and `Strokes` are abstract specifications: `Draw` implements the first
(`ImplementsCanvas`), `Ink` the second (`ImplementsStrokes`), each by `INSTANCE
... WITH` and a property that is the whole abstract `Spec`. `Note` runs
`Strokes` inside the program's loop, so that what `Ink` refines is what the
program does.

### Geom

The rotation, and rectangles as records of four corners in any order, anywhere.
`Pixels(r)` is the set a half-open rectangle stands for; `Clip`, `Normalize`,
`Hull` and `Window` are the code's `.max().min()` chains, the corner swap of
`fill_rect`, `dirty_union_rect` and the rectangle `Surface::refresh` puts in the
ioctl.

### Draw

| Variable | Code |
|---|---|
| `shadow` | `Surface::shadow`, portrait |
| `native` | the mapped buffer, landscape |
| `panel` | what the glass shows (external: the driver) |
| `epd` | waveform of the last accepted SEND |
| `live`, `scope` | the `Draw` values alive, and their fields |
| `stray` | history: pixels the API itself lets drift between canvas and buffer, until a scope marks them |

Each public method of `Draw` and `Surface` is one action: a `Surface` is not
`Sync`, so calls never overlap. An action is a whole call, with the copy to the
buffer and the SEND that `flush` and the drop make; the SEND can fail. Unsigned
subtraction in `blit` wraps at `USIZE`, as it does in a release build, and a
slice out of bounds is `blit_panic`: the rows before it are in the canvas, and
unwinding drops the scope, which flushes what it knew. `dirty_union` clips its
rectangle and does not put its corners in order. A pixel that a pending scope
marks, by a write or by `dirty_union`, leaves `stray` at once: from then on the
scope owes it, so that the documented way to write raw (draw.rs:150-153) is held
to `InSync` like every other. The mapped buffer has the size of the panel, so
that the guards of `blit_dirty_to_ebc` against a shorter one never skip a pixel
and are left out. Two scopes alive at once
each hold a `&mut` to the canvas; the comments of draw.rs:286-291 and
path.rs:131-132 say there is only one, the types let there be more. They are
modelled as writes to one canvas, which is what the build does.

### Canvas

What a user of surfaces and scopes is promised (draw.rs:1-28, path.rs:85-87),
without rotation, rectangles, flags or ioctls: a canvas that writers draw on, a
frame for the driver, and the glass. A writer's pixels are a transaction. They
reach the frame all at once, when it commits, or never; a writer commits at most
once; other writers' pixels do not move with it; the glass takes only what the
frame holds. `Draw` maps its canvas to the first layer, the mapped buffer seen
through the rotation to the second, the panel to the third, a scope's flags to
`StatusOf`, and the region it would flush to what it has pending (`Owed`). What
the API lets a user do beside the transactions has actions of its own: raw
writes and writes of spent scopes (`Scribble`), and drawing past the canvas
(`Direct`). `Exposed` leaves open how much of a commit the glass shows at once,
since a flush really misses a column (below, `draw_column`).

### Pen

| Variable | Code |
|---|---|
| `pen` | the fields of `Pen` |
| `pc`, `call`, `buf` | where the call in progress is, which it is, and the rest of its local array |
| `ret`, `nonblock` | what it returned; `O_NONBLOCK` |
| `failed` | history: a system call of the last call failed or found the end of the file |
| `queue`, `hw`, `fill` | external: the kernel's queue, the digitizer, its frame in progress |
| `waits` | history: the polls of the `read` in progress, each of which is given the whole timeout |
| `due`, `missed` | history: frames still to be returned; what kept events from the fields: a late opening, an overflow, the reader itself |

A call is split at its system calls, where the digitizer gets in between. The
kernel's queue is bounded; when it overflows it is left with `SYN_DROPPED` and
the new event. A reader may see any prefix of a frame. The Linux evdev client
hands out whole packets, so this is more than the kernel does, and exactly what
the comments of `pen.rs` (165-166, 188, 227-229) are written for. A tool leaves
before another comes near, and the kernel filters values that have not changed.
The pen may be opened at any moment: `Init` takes any state the digitizer can be
in (`Found`), of which the kernel repeats nothing. `PenIter::next` is the call
`next`: a `read` without a timeout whose errors become a `None` (`Told`). The end
of the file (`read_eof`), which the code takes for a timeout, ends a call too.
There is no clock: `poll(2)` is the only place where `read` waits, so its time is
counted in polls. `WAIT_CAP`, one beyond the bound that is stated, keeps that
count finite, which under overflows it need not be.

### Device

Handles step through their system calls (`at`: `info`, `map`, `probe`, `open`,
`probed`), each of which can fail. `fds` counts what the kernel has open, per
process; `on` is the driver's switch per path. `crash` ends a process without
destructors: the kernel closes its descriptors, the switches stay. `lost` and
`stuck` are history: descriptors a failed `open_info_path` left behind (it
returns at ebc.rs:61 without closing), and paths left on by a dead process or by
an ioctl that failed in a drop.

### Note

Extends `Device`: the program's handle and surface move by `Device`'s own
actions, conjoined with the program's. Every step of the program is therefore a
step of `Device` by construction, and `Device`'s invariants carry over to it
(the lemma `DeviceSteps`). Beside it, other
processes do whatever `Device` allows. `pc` is where `main` is; the loop is
split at `check_exit`, each key of `drain_keys`, the wait for the `am` command
that F8 starts, and `Pen::read`. Each `expect()` that fails unwinds through
`finish`.

### Strokes

The match arm of the loop that turns frames into strokes (main.rs:163-209). A
`PenEvent` keeps what it looks at: tool, touch, on or off the screen. Two
variables say what the code's state should mean: `smoother` is "fresh" when the
smoothed pressure has seen samples of this stroke only, and `unbroken` when
neither a lift nor another tool came since the last point.

### Ink

The same strokes with positions, radii and pixels.

| Variable | Code |
|---|---|
| `cur_tool`, `drawing`, `last` | the locals of `main` |
| `smoothed` | `PressureSmoother::val`, kept to the width class it is rounded to |
| `paper` | ink on the canvas of the program's surface |
| `trail`, `felt`, `drew` | history: pixels and pressures of this stroke, and what the last frame drew |

`Positions` are what `Pen::snapshot` makes of every axis value, the maxima
included, which lie one column left of the screen and one row below it.
`stroke_segment` is the set of pixel sets a segment can write: `i as f32 / steps
as f32` is inexact, so where a coordinate is exactly half way between two pixels
it may be rounded either way. Elsewhere `f32` is taken to round as the exact
quotient does; on a screen of 2480 pixels the two differ by less than 0.0005.
The smoothed class after a sample can be any between the last one and the
sample's, since 0.7 of one and 0.3 of the other lies between them. A frame is one
step: its scope is opened, written and dropped before the loop goes on.

## 3. The runs

| Run | Instance | States | Shows |
|---|---|---|---|
| `draw_one` | 2x2 screen, 1 scope, OSD, every call | 374,530 | canvas and buffer agree but where accounted for; one repaint per scope; what a flush shows; scopes are the transactions of `Canvas` |
| `draw_two` | 3x1 screen, 2 scopes, Main | 260,840 | the same with overlapping scopes |
| `draw_column` | 2x2 | violation | a flush misses the first column of its region |
| `draw_again` | 2x2 | violation | a second flush leaves writes unflushed |
| `draw_union` | 2x2 | violation | a reversed rectangle given to `dirty_union` marks nothing |
| `draw_blit` | 2x2, an image left of the screen | violation | blit writes where the image is not |
| `pen_read` | 2 tools, both axes, frames of 2, queue 3 | 1,864,606 | frames come out whole, in order and once; `read` enters `read(2)` only with something to read, polls `FRAME` + 1 times at most, and returns; a nonblocking `poll_once` returns; without a failed system call no call comes back empty-handed with a frame due, and the iterator does not end |
| `pen_skips` | queue and chunks of 4 | violation | a chunk with two frames loses the second |
| `device_sibling` | 2 processes, 3 handles, 3 surfaces, 3 descriptors | violation | one surface's drop switches the path off under another |
| `note` | the program, and a process with 2 handles and a surface | 239,872 | descriptors accounted for; unused paths are off; whole strokes, clean ends, exit |
| `note_start` | the program alone | violation | Ctrl-C before the handlers leaves the overlay on |
| `stroke` | 2x5 screen, pen radius 1 or 2, eraser 2 | 59,392 | strokes have no gaps, keep to their path and their pressure; they are the strokes of `Strokes` |

Why the bounds are enough. Draw compares pixels and rectangles only through the
rotation, clipping and equality of ink: 2x2 is the smallest screen with a
corner, an edge and a second column and row on each side; 3x1 has a column
strictly between two scopes' regions and a rotation that is not square. Two
grays tell old ink from new. The arguments include a rectangle with its corners
in order and the same one reversed, rectangles and points beyond an edge, a batch with an item off the screen, an image clipped
on two edges and one that wraps. `USIZE` (65536) is larger than any sum over
these screens, so that it only matters where a difference is negative. In Pen, a
queue of 3 holds a frame and the beginning of the next, or the end of one and a
whole one, and can overflow in the middle of a frame; chunks of 2 and 3 split
frames at different places, and the larger one holds two `SYN_REPORT`s. Two tools
make a swap. A frame of two events that comes in three chunks takes the
`FRAME` + 1 polls at which the bound is met. In Note, the
other process has two handles and one surface; with `NFILE` 2 its probes leak
until `open` fails, and its surface meets the program's on a path. Two surfaces
of one process meet in `device_sibling`; `DeviceProofs` has no bound on either. A
waiting key can be there or not. Ink's screen is long enough for a segment with
stamps whose disks do not reach its ends, and for ties; the pen's radius must be
at least 1, as a stroke that runs just below the screen would leave single
pixels of a disk of radius 0. Two width classes tell a stroke's pressure from
another's.
`Modes` is empty in the passing runs: the waveform a caller asks for is stored
and passed on, and no property there depends on it.

### Properties

Draw: `InSync` is the invariant the design is about (path.rs:85-87): canvas and
buffer agree in every pixel, except what an open scope still owes or the API lets
drift (`stray`: raw writes nobody has marked, writes past the canvas, ink of
cancelled or spent scopes). `AtMostOneSend` and `SpentIsSilent` say what the flags `flushed` and
`cancelled` are for. `CommitsOnlyOwedInk`: a call on a scope changes the buffer
only in pixels that the very scope it sends for still owes, and brings the
canvas's ink there, so neither a neighbour's region nor cancelled ink goes with
it. `FlushShowsRest` is the exact statement that
remains of "blitted and refreshed in one call" (draw.rs:19-20) given the window
the code computes.

`ImplementsCanvas` is the promise as a whole, for every order of calls: writing,
flushing, failing, cancelling, unwinding and dropping are transactions on three
layers.

Pen: `ProximityHasTool` holds even after overflows and after opening with a tool
in range. `NothingLost` relates three parties: fields, rest of the chunk and
queue, folded one event after the other (`Folded`), are the digitizer's state.
`FramesInOrder` compares every returned frame with the oldest due one.
`ReadNeverBlocks`: `read` and `next` enter `read(2)` only with something to read,
so they wait in `poll(2)` only. `ReadReturns`: such a `read` with a timeout comes
back; `PollOnceReturns`: a nonblocking `poll_once` does not spin. `EmptyHanded`:
unless a system call failed under it, no call comes back without a frame that is
due, and the iterator does not end. `ReadWaitBounded` is what remains of "Blocks
up to `timeout_ms`" (pen.rs:139): each chunk without a `SYN_REPORT` costs a
timeout more, so a call waits for as many as a frame has events, and one. It holds
wherever in a frame the last call gave up, until the kernel's queue overflows,
which can cut frames off without end.

Device: `FdsAccounted`, `OffWhenUnused`. Note: `FreshPressure`,
`SegmentsUnbroken`, `TouchMarks`, `LeavesNothing`, `ExitEnds`.

Ink: `NoGaps`, the claim of main.rs:95-96 made exact: the pixels of a stroke hang
together and hold its ink, however far apart the samples are, over the edges and
across clears. `AlongStroke`: a frame marks the point the pen is at and nothing
away from its path, so no streak from an earlier stroke. `WidthOfStroke`: the
width stays within the pressures of this stroke. `ImplementsStrokes`: with the
geometry in place, what counts as a stroke is unchanged.

### Fairness

`Pen!Spec` has `WF_vars(Reader)`: a thread inside a call keeps running, its poll
comes back when there is something or the timeout passes. Signals, errors, the
digitizer and the caller are free. `ReadReturns` assumes that overflows stop: a
queue that overflows for ever between two reads can keep a `SYN_REPORT` from
ever being read. `NoteSpec` has `WF_all(Main)`: the program's only thread runs;
`Pen::read(20)` returns by `ReadReturns`. The return of the `am` command
(`am_returns`) is outside that fairness. `ExitEnds` assumes finitely many key
presses, since `drain_keys` (main.rs:241) goes on while keys come and looks at
no `EXIT`, and that `am` always comes back, since the loop waits for it. Nothing is assumed of other processes. The note runs turn off
deadlock checking: the program ends.

## 4. Findings

- **draw_column** (geom.rs:65). `to_buf` rotates the exclusive corner as if it
  were a pixel; the window of the ioctl is one column off. `WindowExact` proves
  what is shown, for every rectangle on every screen.
- **draw_union** (draw.rs:163). `dirty_union` does not normalize: a rectangle with
  reversed corners is dropped, where the doc says "normalized + clipped
  internally" (161-162), and what was written raw under it is never flushed.
- **draw_again** (draw.rs:177). Nothing resets `flushed`; the doc and the comment
  say a second `flush` shows later writes.
- **draw_blit** (draw.rs:137). For an image wholly left of or above the screen,
  `width - sx0` wraps (or panics in a debug build).
- **pen_skips** (pen.rs:185). Events after the first `SYN_REPORT` of a chunk are
  lost with the local array; the doc says one `PenEvent` per `SYN_REPORT`.
- **device_sibling** (path.rs:212). A drop switches the path off for everyone;
  the doc of `Surface` says it holds the path enabled.
- **note_start** (main.rs:123). The signal handlers come after the overlay and a
  sleep of 900 ms.

Four more places where `pen.rs` does not do what its docs say can be read off
`Pen`'s actions; no run is spent on them:

- pen.rs:386: any error of `read(-1)`, a signal's too, ends the iterator with a
  quiet `None` (`Told`); the doc of `events` says it only ends by a panic
  (294-296), the comment in `next` says what the code does (382-383).
- pen.rs:194: every chunk without a `SYN_REPORT` starts the timeout again, so one
  timeout does not bound the call (139); `ReadWaitBounded` says what does.
- pen.rs:195: `r2 <= 0` takes a failed second poll for a timeout (`poll_signal`);
  the doc says `Err` on error (140).
- pen.rs:247: `poll_once` reads again without polling, so on a blocking descriptor
  it can wait longer than `timeout_ms` (224).

The last three need a partial frame from `read(2)`: the comments at the very lines
provide for it, but an evdev device hands out whole packets.

## 5. Proofs

| Module | Proved |
|---|---|
| `GeomProofs` | `RoundTrip`, `RoundTripBack`: the rotation is a bijection; `WindowExact`: the screen pixels an ioctl window covers |
| `DrawProofs` | `TypeCorrect`, `CanvasInSync`, `OneRepaintPerScope`, `SpentStaySilent`, `OnlyOwedInkIsCommitted`, `FlushShowsTheRest` |
| `PenProofs` | `TypeCorrect`, `ReadOnlyWhenReadable`, `ProximityNamesTool`, `NoEventIsLost`, `FramesComeInOrder`, `NobodyLeavesEmptyHanded`, `DrainedPenIsCurrentUnlessMissed`, `ReaderRunsOutOfWork`, `ReadWaitIsBounded` |
| `CanvasProofs` | `DrawImplementsCanvas`: the refinement of `Canvas` by `Draw` |
| `DeviceProofs` | `TypeCorrect`, `EveryDescriptorAccounted`, `UnusedPathIsOff` |
| `NoteProofs` | `NothingLeftBehind`, `StrokesAreWhole`, `TouchesMark`, `PressureIsFresh`, `NoteTypeCorrect` |
| `InkProofs` | `InkTypeCorrect`, `WidthIsOfTheStroke`, `InkImplementsStrokes`, `StrokesHaveNoGaps`, `MarksLieAlongTheStroke`, `StampsAreNear` |
| `LeastProofs` | the three lemmas about sets of numbers that the arguments by induction rest on |

They hold for every screen size, number of scopes, grays and arguments
(`GeomAssumption`, `DrawAssumption`), every queue and chunk length
(`PenAssumption`), finitely many handles of any processes (`DeviceAssumption`),
and a program with one handle of its own (`NoteAssumption`). TLC evaluates the
assumptions on every run.

The arguments:

- *Draw.* `TypeOK` is inductive by itself once clipping is known to give
  rectangles on the screen, or none (`ClipOnScreen`, `WidenedType`). `InSync` is
  inductive under `TypeOK`; the two facts it rests on are that a widened region
  contains the old one and the new write (`WidenedCovers`), and that the copy
  changes exactly the region's pixels (`Blitted`, from `Injective`).
  `AtMostOneSend` is not inductive: a scope that has sent must also be spent or
  closed. `SentOnce` says so, and is.
- *Pen.* `TypeOK` needs to know that something is left of a chunk while it is
  applied; `Inv` adds this, `ReadNeverBlocks` and `ProximityHasTool`.
  `NothingLost` says nothing of the frames after the first nor of the events
  between frames, so it is not inductive. `LostInv` is: while nothing was missed
  there is a run of the fields over chunk and queue (`Run`) that ends in what the
  digitizer has reported (`Agrees`) and passes, at the SYN_REPORTs in order
  (`Marks`), through every frame due; once something was missed no frame is due.
  Five lemmas carry it: an event joins at the end (`ShownReport`), a frame ends
  (`ShownEnd`), an event is folded in (`ShownApply`), a SYN_REPORT ends the call
  (`ShownDeliver`), a chunk is cut off (`ChunkWhole`). The fold itself is met
  once, in `FoldedIs`: it goes through the states of a run.
  `FramesComeInOrder`, `NobodyLeavesEmptyHanded` and
  `DrainedPenIsCurrentUnlessMissed` follow from the same invariant, the last of
  them being what `pen_skips` leaves of `DrainedPenIsCurrent`.
  `EmptyHanded` rests on one fact: a call that gives up without a failed system
  call has an empty chunk and an empty queue, so by `LostInv` no frame is due.
  `ReaderRunsOutOfWork` is the part of `ReadReturns` and `PollOnceReturns` that
  is safety: a number that every step of the reader lowers and only new events
  raise.
  The bound on the polls of a `read` comes from the place of the next event in
  its frame. `Seats` gives every event still to be applied its place; `WaitInv`
  says that a `read` has polled at most as often as the place of the next event
  to apply. A chunk that ends without a `SYN_REPORT` has moved the call one place
  on, which allows for the next poll (`WaitApply`); the kernel gives a new event
  the next place (`WaitEvent`, `SeatsAppend`); an overflow would break the count,
  and is excepted.
- *Device.* The lower bound of `fds` in `TypeOK` needs `FdsAccounted`: `close`
  subtracts one, and only the count of handles says there is one. `Inv` is both.
  `OffWhenUnused` is inductive under `TypeOK`.
- *Note.* `DeviceSteps` goes by cases over the program's actions; `Device`'s
  theorems are then instantiated for the program (`DeviceInvariance`).
  `LeavesNothing` needs `Tied`, which ties `pc` to the stage of the program's
  handle and surface. `StrokeInv` (while drawing there is a last point, and the
  smoother is fresh unless erasing) carries the three stroke properties.
  `NoteTypeCorrect` needs `Tied` for the same reason.
- *Canvas.* `DrawImplementsCanvas` goes by cases over `Draw`'s actions, each
  matched with one abstract action or a stutter. It needs `TypeOK` only (a
  region inside the screen) and that the rotation is a bijection, to turn what
  the copy does to the buffer into what it does to the picture.
- *Ink.* `InkTypeCorrect` is inductive because a stroke in progress has a last
  point on or beyond the right and lower edges, never off the other two.
  `WidthInv` adds that both bounds are felt pressures. The refinement needs both:
  the abstract `smoother` is defined by them. `StampsAreNear` is arithmetic: a
  rounded quotient is within half of the exact one (`RoundedNear`), so a step of
  less than one moves it by at most one, and a step of exactly one starts at an
  integer (`RoundedExact`). `NoGaps` is not inductive: the next segment joins on
  only because the stroke's last point, moved onto the screen (`Foot`), is in its
  ink, or nothing of it is left after a clear. `GapInv` adds this. A disk is one
  piece because from each of its pixels a step towards its foot stays in it
  (`PieceByDescent`, `StampPiece`); a segment is, because neighbouring disks
  share or touch (`StampsAreNear`, `SegmentPiece`); a stroke, because a segment
  starts where the last one ended (`PiecesJoin`). `AlongStroke` needs only that
  a stamp's centre lies between the ends of its segment (`CentreBox`).
- *Least.* The provers cannot use an induction theorem that takes an operator.
  What they can use is that a set of numbers has a least element, so the
  arguments that are inductions over data go by the first place where something
  fails: `LeastElement` (descent in a disk), `StepByStep` (a fold and its run)
  and `Crossing` (a set that splits a segment splits it between two stamps).

`InkAssumption` asks for radii of at least 1 and tools among which are the pen
and the eraser.

With these, every safety invariant and every action property of a passing run
is a theorem. Only model-checked: `ReadReturns`, `PollOnceReturns` and
`ExitEnds`. They are liveness under fairness: what is missing between
`ReaderRunsOutOfWork` and the first two is that a fair reader moves, a fact about
`ENABLED`, which the prover does not reason about.

## 6. Not modelled

- The driver's pool of display buffers, its offsets, and the wait inside `mmap`
  while the system compositor holds the buffers (ebc.rs:130-155): the driver is
  not in the repository, and the code's comments leave open when it takes a
  buffer back, who writes where `main_offset` 0 points, and what ends the wait.
  A model of it would check our guesses. For the same reason `Device` is listed
  as partly modelled. A reader should know that `open_path` acquires a display
  buffer for every handle while a program that only draws on the OSD, as
  `hweink-note`, never sends on the main path, which is how the comments say it
  is released (ebc.rs:89-90, 126).
- Byte layout of the ioctls: the compiler's size assertion checks it.
- `mode.rs`, `refresh.rs`, `sysprop.rs`: tables and calls without state.
- The demo and the probes: straight-line users of calls that are all modelled.
- What the glass shows of a stroke: `Ink` ends at the canvas, from where
  `Canvas` and `draw_column` tell the rest.
- Drawing through a handle of `open_info`, whose mapping is null: undefined
  behaviour that no caller in the repository reaches.

## 7. Plan

Order of the work: geometry and draw scopes first (every pixel goes through
them), then the pen, the device and the program that composes it, the abstract
canvas and its refinement, and the ink of strokes. Those are done. Next:

1. Composition of `Strokes` with the frames `Pen` really returns, the lost ones
   included: which lifts the program cannot see.
2. The waveform that reaches the driver against the modes asked for
   (path.rs:15-16).
3. Proofs: that `stray` only shrinks for users who neither write raw, nor past
   the canvas, nor through a spent scope, nor cancel; that between two key
   presses the note program runs out of work like the reader.
4. The driver's buffers in `Device`, once its source is at hand.
