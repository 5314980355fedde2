-------------------------------- MODULE Draw --------------------------------
(***************************************************************************)
(* A Surface and the Draw scopes opened on it (libhweink/src/draw.rs,      *)
(* path.rs).  A scope writes ink into the surface's shadow, a canvas in    *)
(* screen coordinates, and keeps one rectangle around everything it wrote. *)
(* Once in its life, when it is flushed or dropped, the rectangle is       *)
(* copied, rotated, into the buffer shared with the driver, and one SEND   *)
(* ioctl asks the driver to repaint a window of the panel.                 *)
(*                                                                         *)
(* Surface is neither Send-able while borrowed nor Sync, so calls do not   *)
(* overlap and each is one action.  draw() takes &self: several scopes of  *)
(* one surface can be open at once, and all write to the same shadow.      *)
(***************************************************************************)
EXTENDS Geom

CONSTANTS
  PATH,       \* the render path the surface was opened on, "Osd" or "Main"
  Guards,     \* the Draw values that can be alive together
  Gray,       \* gray levels
  WHITE,      \* the level a fresh shadow is filled with (0xFF)
  Modes,      \* refresh waveforms a caller asks for
  None,       \* Rust's Option::None
  USIZE,      \* 2^64 on the device: where unsigned subtraction wraps
  Points,     \* coordinates given to put_pixel and raw writes
  Rects,      \* rectangles given to fill_rect, dirty_union and refresh
  Batches,    \* batches given to put_pixels: functions from points to grays
  Images      \* arguments given to blit: [img, width, height, x, y]

Waveforms == Modes \union {"Overlay", "FullGc16"}

ASSUME DrawAssumption ==
  /\ PATH \in {"Osd", "Main"}
  /\ WHITE \in Gray
  /\ None \notin Waveforms /\ None \notin ScreenRects
  /\ Points \subseteq Int \X Int
  /\ Rects \subseteq AnyRect
  /\ \A b \in Batches : DOMAIN b \subseteq Int \X Int /\ \A p \in DOMAIN b : b[p] \in Gray
  /\ \A i \in Images : /\ i.width \in Nat /\ i.height \in Nat
                       /\ i.x \in Int /\ i.y \in Int
                       /\ i.len \in Nat /\ i.img \in [0 .. i.len - 1 -> Gray]
  /\ USIZE \in Nat \ {0}

VARIABLES
  shadow,     \* the canvas, in screen coordinates
  native,     \* the buffer shared with the driver, in native coordinates
  panel,      \* what the glass shows, in native coordinates (the driver's)
  epd,        \* waveform of the last SEND the driver accepted
  live,       \* the scopes that are open
  scope,      \* their fields
  stray       \* history: pixels the API lets drift from the native buffer

vars == <<shadow, native, panel, epd, live, scope, stray>>

\* "sent" counts the SENDs of the scope, and is kept when it closes; "ret" is
\* what the last call on the scope returned: None before the first, "()" for
\* all but flush().  The other fields are the struct's.
NewScope == [dirty |-> None, mode |-> None, cancelled |-> FALSE,
             flushed |-> FALSE, sent |-> 0, ret |-> None]

Closed(n) == [NewScope EXCEPT !.sent = n]

Scope == [dirty : ScreenRects \union {None}, mode : Modes \union {None},
          cancelled : BOOLEAN, flushed : BOOLEAN, sent : Nat,
          ret : {None, "()", "ok", "err"}]

TypeOK == /\ shadow \in [Screen -> Gray]
          /\ native \in [Native -> Gray]
          /\ panel \in [Native -> Gray]
          /\ epd \in Waveforms \union {None}
          /\ live \subseteq Guards
          /\ scope \in [Guards -> Scope]
          /\ stray \subseteq Screen

-----------------------------------------------------------------------------
default_mode == IF PATH = "Osd" THEN "Overlay" ELSE "FullGc16"

\* Mutant of Spent: the flag that flush sets is not looked at.
SpentIfCancelled(g) == scope[g].cancelled

\* A scope that has ended cannot repaint again.
Spent(g) == scope[g].cancelled \/ scope[g].flushed

\* What the scope still has to bring to the panel.
Owed(g) == IF g \in live /\ ~Spent(g) /\ scope[g].dirty # None
             THEN Pixels(scope[g].dirty) ELSE {}

\* Mutants of Widened: no clipping; the last rectangle instead of the union.
WidenedUnclipped(d, r) == IF d = None THEN r ELSE Hull(d, r)
WidenedLast(d, r) == IF Empty(Clip(r)) THEN d ELSE Clip(r)

\* dirty_union_rect: clip, then widen.
Widened(d, r) == LET c == Clip(r)
                 IN  IF Empty(c) THEN d ELSE IF d = None THEN c ELSE Hull(d, c)

\* Mutant of Touch: a write arms a flushed scope again.
TouchRearms(g, r, ink) ==
  /\ scope' = [scope EXCEPT ![g].dirty = Widened(@, r), ![g].flushed = FALSE]
  /\ UNCHANGED stray

\* A write to the scope's dirty rectangle.  What a pending scope marks it owes
\* from now on; ink put down by a spent scope is never brought to the buffer.
Touch(g, r, ink) ==
  /\ scope' = [scope EXCEPT ![g].dirty = Widened(@, r), ![g].ret = "()"]
  /\ stray' = IF Spent(g) THEN stray \union ink ELSE stray \ Pixels(Clip(r))

\* SEND_OSD_BUFFER or SEND_BUFFER: the driver copies the window to the glass,
\* or the ioctl fails and nothing is shown.
Send(r, m, ok) ==
  /\ panel' = IF ok THEN [b \in Native |-> IF b \in Pixels(Window(r))
                                              THEN native'[b] ELSE panel[b]]
                    ELSE panel
  /\ epd' = IF ok THEN (IF m = None THEN default_mode ELSE m) ELSE epd

\* Mutants of blit_dirty_to_ebc: the whole canvas is copied; the regions of
\* all pending scopes are, as if the surface kept one for them together.
blit_whole_shadow(r) ==
  native' = [b \in Native |-> shadow'[buf_to_screen(b[1], b[2])]]

blit_all_owed(r) ==
  native' = [b \in Native |->
               LET p == buf_to_screen(b[1], b[2])
               IN  IF \E g \in Guards : p \in Owed(g) THEN shadow'[p] ELSE native[b]]

\* blit_dirty_to_ebc: every pixel of the region goes to its rotated place.  The
\* mapping is the driver's BUF_W x BUF_H buffer, so the code's guards against
\* an empty or a shorter one do not skip anything here.
blit_dirty_to_ebc(r) ==
  native' = [b \in Native |->
               LET src == {p \in Pixels(r) : screen_to_buf(p[1], p[2]) = b}
               IN  IF src = {} THEN native[b] ELSE shadow'[CHOOSE p \in src : TRUE]]

\* The body of flush past its early returns.
Commit(g, ok) == /\ blit_dirty_to_ebc(scope[g].dirty)
                 /\ Send(scope[g].dirty, scope[g].mode, ok)

\* Mutant of DropScope: a cancelled scope is flushed all the same.
DropCancelledToo(g, ok) ==
  /\ live' = live \ {g}
  /\ scope' = [scope EXCEPT ![g] = Closed(@.sent)]
  /\ IF scope[g].dirty = None THEN UNCHANGED <<native, panel, epd>> ELSE Commit(g, ok)

\* Leaving a scope by the drop of its value: flush if that was never done.
DropScope(g, ok) ==
  /\ live' = live \ {g}
  /\ IF Spent(g) \/ scope[g].dirty = None
       THEN /\ scope' = [scope EXCEPT ![g] = Closed(@.sent)]
            /\ UNCHANGED <<native, panel, epd>>
       ELSE /\ scope' = [scope EXCEPT ![g] = Closed(@.sent + 1)]
            /\ Commit(g, ok)

-----------------------------------------------------------------------------
Init == /\ shadow = [p \in Screen |-> WHITE]
        /\ \E g \in Gray : native = [b \in Native |-> g]
        /\ panel = native
        /\ epd = None
        /\ live = {}
        /\ scope = [g \in Guards |-> NewScope]
        /\ stray = Screen

\* Mutant of draw: every scope starts on a fresh canvas.
draw_fresh(g) == /\ g \notin live
                 /\ live' = live \union {g}
                 /\ scope' = [scope EXCEPT ![g] = NewScope]
                 /\ shadow' = [p \in Screen |-> WHITE]
                 /\ UNCHANGED <<native, panel, epd, stray>>

\* Surface::draw
draw(g) == /\ g \notin live
           /\ live' = live \union {g}
           /\ scope' = [scope EXCEPT ![g] = NewScope]
           /\ UNCHANGED <<shadow, native, panel, epd, stray>>

\* Draw::put_pixel; off the screen it returns at once.
put_pixel(g, p, c) ==
  /\ g \in live /\ p \in Screen
  /\ shadow' = [shadow EXCEPT ![p] = c]
  /\ Touch(g, Rect(p[1], p[2], p[1] + 1, p[2] + 1), {p})
  /\ UNCHANGED <<native, panel, epd, live>>

\* Draw::fill_rect
fill_rect(g, r, c) ==
  LET n == Clip(Normalize(r))
  IN  /\ g \in live /\ ~Empty(n)
      /\ shadow' = [p \in Screen |-> IF p \in Pixels(n) THEN c ELSE shadow[p]]
      /\ Touch(g, n, Pixels(n))
      /\ UNCHANGED <<native, panel, epd, live>>

\* Draw::put_pixels: items off the screen are skipped, and the region grows by
\* the least rectangle around the others.
put_pixels(g, b) ==
  LET in == DOMAIN b \intersect Screen
  IN  /\ g \in live /\ in # {}
      /\ shadow' = [p \in Screen |-> IF p \in in THEN b[p] ELSE shadow[p]]
      /\ \E r \in ScreenRects :
           /\ in \subseteq Pixels(r)
           /\ \E p \in in : p[1] = r.x1
           /\ \E p \in in : p[2] = r.y1
           /\ \E p \in in : p[1] + 1 = r.x2
           /\ \E p \in in : p[2] + 1 = r.y2
           /\ Touch(g, r, in)
      /\ UNCHANGED <<native, panel, epd, live>>

-----------------------------------------------------------------------------
\* Draw::blit computes how much of the image to copy from where the image
\* starts; the unsigned subtraction wraps in a release build.
sx0(i)  == max(-i.x, 0)
sy0(i)  == max(-i.y, 0)
cols(i) == min((i.width - sx0(i)) % USIZE, max(SCREEN_W - max(i.x, 0), 0))
rows(i) == min((i.height - sy0(i)) % USIZE, max(SCREEN_H - max(i.y, 0), 0))

BlitRect(i) == Rect(max(i.x, 0), max(i.y, 0),
                    max(i.x, 0) + cols(i), max(i.y, 0) + rows(i))

\* Where the image has the pixel that row r and column c of the copy reads.
Src(i, r, c) == (sy0(i) + r) * i.width + sx0(i) + c

\* Rows whose source slice lies inside the image; the first other one panics.
Copied(i) == {p \in Pixels(BlitRect(i)) :
                Src(i, p[2] - max(i.y, 0), 0) + cols(i) <= i.len}

BlitArgsOk(i) == /\ i.width # 0 /\ i.height # 0 /\ i.len >= i.width * i.height
                 /\ cols(i) # 0 /\ rows(i) # 0

BlitInk(i) == [p \in Screen |->
                 IF p \in Copied(i)
                   THEN i.img[Src(i, p[2] - max(i.y, 0), p[1] - max(i.x, 0))]
                   ELSE shadow[p]]

blit(g, i) == /\ g \in live /\ BlitArgsOk(i)
              /\ Copied(i) = Pixels(BlitRect(i))
              /\ shadow' = BlitInk(i)
              /\ Touch(g, BlitRect(i), Pixels(BlitRect(i)))
              /\ UNCHANGED <<native, panel, epd, live>>

\* The slice panic inside blit: the rows before it are already in the shadow,
\* the dirty rectangle does not know them, and unwinding drops the scope.
blit_panic(g, i, ok) ==
  /\ g \in live /\ BlitArgsOk(i)
  /\ Copied(i) # Pixels(BlitRect(i))
  /\ shadow' = BlitInk(i)
  /\ DropScope(g, ok)
  /\ stray' = (stray \union Copied(i)) \ Owed(g)

-----------------------------------------------------------------------------
\* A write through raw_shadow_mut, which nothing records.
raw_shadow_mut(g, p, c) ==
  /\ g \in live /\ p \in Screen
  /\ shadow' = [shadow EXCEPT ![p] = c]
  /\ stray' = stray \union {p}
  /\ scope' = [scope EXCEPT ![g].ret = "()"]
  /\ UNCHANGED <<native, panel, epd, live>>

\* Mutant of dirty_union: the region is not recorded.
dirty_union_unmarked(g, r) ==
  /\ g \in live
  /\ scope' = [scope EXCEPT ![g].ret = "()"]
  /\ stray' = IF Spent(g) THEN stray ELSE stray \ Pixels(Clip(r))
  /\ UNCHANGED <<shadow, native, panel, epd, live>>

\* Draw::dirty_union: clipped, but reversed corners are not put in order.
dirty_union(g, r) ==
  /\ g \in live
  /\ Touch(g, r, {})
  /\ UNCHANGED <<shadow, native, panel, epd, live>>

set_mode(g, m) ==
  /\ g \in live
  /\ scope' = [scope EXCEPT ![g].mode = m, ![g].ret = "()"]
  /\ UNCHANGED <<shadow, native, panel, epd, live, stray>>

\* Draw::flush on a spent scope, or with nothing dirty.
flush_skip(g) ==
  /\ g \in live
  /\ Spent(g) \/ scope[g].dirty = None
  /\ scope' = [scope EXCEPT ![g].flushed = @ \/ ~Spent(g), ![g].ret = "ok"]
  /\ UNCHANGED <<shadow, native, panel, epd, live, stray>>

\* Mutant of flush: the scope is not marked as flushed.
flush_unmarked(g, ok) ==
  /\ g \in live /\ ~Spent(g) /\ scope[g].dirty # None
  /\ UNCHANGED shadow
  /\ Commit(g, ok)
  /\ scope' = [scope EXCEPT ![g].dirty = None, ![g].sent = @ + 1]
  /\ stray' = stray \ Owed(g)
  /\ UNCHANGED live

\* Draw::flush with a dirty region.  The region is forgotten and the scope
\* spent whether or not the ioctl succeeded.
flush(g, ok) ==
  /\ g \in live /\ ~Spent(g) /\ scope[g].dirty # None
  /\ UNCHANGED shadow
  /\ Commit(g, ok)
  /\ scope' = [scope EXCEPT ![g].flushed = TRUE, ![g].dirty = None,
                            ![g].sent = @ + 1,
                            ![g].ret = IF ok THEN "ok" ELSE "err"]
  /\ stray' = stray \ Owed(g)
  /\ UNCHANGED live

\* Draw::cancel: the ink stays in the shadow.
cancel(g) ==
  /\ g \in live
  /\ scope' = [scope EXCEPT ![g].cancelled = TRUE, ![g].ret = "()"]
  /\ stray' = stray \union Owed(g)
  /\ UNCHANGED <<shadow, native, panel, epd, live>>

\* The drop of a Draw; draw_with is draw, the closure's calls, flush and this.
drop(g, ok) ==
  /\ g \in live
  /\ UNCHANGED shadow
  /\ DropScope(g, ok)
  /\ stray' = stray \ Owed(g)

-----------------------------------------------------------------------------
\* Surface::fill_rect, and with one-pixel rectangles Surface::put_pixel: past
\* the shadow, straight into the native buffer.  clear() fills the screen.
surface_fill_rect(r, c) ==
  LET in == Pixels(Normalize(r)) \intersect Screen
  IN  /\ in # {}
      /\ native' = [b \in Native |-> IF buf_to_screen(b[1], b[2]) \in in
                                       THEN c ELSE native[b]]
      /\ stray' = stray \union in
      /\ UNCHANGED <<shadow, panel, epd, live, scope>>

\* Surface::refresh, and refresh_full with the full screen.
refresh(r, m, ok) ==
  /\ UNCHANGED native
  /\ Send(r, m, ok)
  /\ UNCHANGED <<shadow, live, scope, stray>>

Writing(g) ==
  \/ \E r \in Rects : dirty_union(g, r)
  \/ \E p \in Points, c \in Gray : put_pixel(g, p, c) \/ raw_shadow_mut(g, p, c)
  \/ \E r \in Rects, c \in Gray : fill_rect(g, r, c)
  \/ \E b \in Batches : put_pixels(g, b)
  \/ \E i \in Images : blit(g, i)
  \/ \E i \in Images, ok \in BOOLEAN : blit_panic(g, i, ok)

Ending(g) ==
  \/ \E m \in Modes \union {None} : set_mode(g, m)
  \/ flush_skip(g)
  \/ \E ok \in BOOLEAN : flush(g, ok) \/ drop(g, ok)
  \/ cancel(g)

Next == \/ \E g \in Guards : draw(g) \/ Writing(g) \/ Ending(g)
        \/ \E r \in Rects, c \in Gray : surface_fill_rect(r, c)
        \/ \E r \in Rects \union {FullScreen}, m \in Modes \union {None}, ok \in BOOLEAN :
             refresh(r, m, ok)

Spec == Init /\ [][Next]_vars

-----------------------------------------------------------------------------
(* What a surface and its scopes promise. *)

\* The native buffer holds the canvas, except where an open scope still owes
\* its ink or the API lets the two drift: raw writes nobody has marked, writes
\* past the shadow, cancelled and spent scopes.  "Stays in sync with the last flushed frame"
\* (path.rs:85-87), whatever scopes overlap, fail or unwind.
InSync == \A p \in Screen :
            \/ shadow[p] = native[screen_to_buf(p[1], p[2])]
            \/ p \in stray
            \/ \E g \in Guards : p \in Owed(g)

\* However flush, cancel, failed ioctls, unwinding and drop follow each other,
\* a scope costs the panel at most one repaint (draw.rs:9-10, 43-45).
AtMostOneSend == \A g \in Guards : scope[g].sent <= 1

\* A flushed or cancelled scope never repaints and never becomes pending again,
\* whatever is still written through it (Draw::flush, Draw::drop).
SilentStep == \A g \in live :
                Spent(g) => /\ scope'[g].sent = scope[g].sent
                            /\ g \in live' => Spent(g)'
SpentIsSilent == [][SilentStep]_vars

\* A call on a scope changes the shared buffer only where the very scope that
\* it sends for has pending ink, and puts there what the canvas holds: neither
\* the ink of a cancelled scope nor a neighbour's region slips through, though
\* all of them are in the one canvas that is copied from (draw.rs:224-257).
OwedInkStep ==
  scope' # scope =>
    \A p \in Screen :
      LET b == screen_to_buf(p[1], p[2])
      IN  native'[b] # native[b] =>
            /\ native'[b] = shadow'[p]
            /\ \E g \in Guards : /\ scope'[g].sent > scope[g].sent
                                /\ p \in Owed(g)
CommitsOnlyOwedInk == [][OwedInkStep]_vars

\* A SEND that a scope's flush() got through to the driver.
FlushSent(g) == /\ g \in live \intersect live'
                /\ scope'[g].sent > scope[g].sent
                /\ scope'[g].ret = "ok"

\* A flush that returns Ok has brought its whole region to the glass but for
\* the region's first column, and has repainted nothing outside the region but
\* the column after its last (Surface::refresh through ScreenRect::to_buf).
ShownStep ==
  \A g \in Guards : FlushSent(g) =>
    LET d == scope[g].dirty
    IN  \A p \in Screen :
          LET b == screen_to_buf(p[1], p[2])
          IN  /\ p \in Pixels(d) /\ p[1] # d.x1 => panel'[b] = shadow[p]
              /\ panel'[b] # panel[b] =>
                   /\ d.x1 <= p[1] /\ p[1] <= d.x2
                   /\ d.y1 <= p[2] /\ p[2] < d.y2
FlushShowsRest == [][ShownStep]_vars

\* The dirty region is blitted and refreshed in one call (draw.rs:19-20).
FlushShowsDirty ==
  [][\A g \in Guards : FlushSent(g) =>
       \A p \in Owed(g) : panel'[screen_to_buf(p[1], p[2])] = shadow[p]]_vars

\* When flush() is called again on a scope it has sent for, and returns Ok, no
\* later write is left unflushed (draw.rs:173-175, 190).
FlushAgain == \A g \in live :
                /\ scope[g].ret = "ok"
                /\ scope[g].sent > 0
                /\ ~scope[g].cancelled
                => scope[g].dirty = None

\* Marking a rectangle puts its corners in order and clips it (draw.rs:161-162).
UnionNormalizes ==
  [][\A g \in Guards, r \in Rects :
       dirty_union(g, r) /\ ~Spent(g) =>
         Pixels(Clip(Normalize(r))) \subseteq Owed(g)']_vars

\* A blit changes the canvas only where the image lies on the screen.
BlitClips == [][\A g \in Guards, i \in Images : blit(g, i) =>
                  \A p \in Screen : shadow'[p] # shadow[p] =>
                    /\ i.x <= p[1] /\ p[1] < i.x + i.width
                    /\ i.y <= p[2] /\ p[2] < i.y + i.height]_vars

-----------------------------------------------------------------------------
(* A surface and its scopes implement the layers of Canvas. *)

\* A buffer in native coordinates, as the user sees it.
OnScreen(buf) == [p \in Screen |-> buf[screen_to_buf(p[1], p[2])]]

StatusOf(g) == IF g \notin live THEN "closed" ELSE IF Spent(g) THEN "spent" ELSE "open"

Promise == INSTANCE Canvas WITH
             Pixel   <- Screen,
             Level   <- Gray,
             Blank   <- WHITE,
             Writers <- Guards,
             canvas  <- shadow,
             frame   <- OnScreen(native),
             glass   <- OnScreen(panel),
             status  <- [g \in Guards |-> StatusOf(g)],
             pending <- [g \in Guards |-> Owed(g)]

\* Rotation, dirty rectangles, flags and failing ioctls notwithstanding, every
\* call is one step of the transactions a user is promised, or none: what a
\* scope has pending reaches the frame as a whole and once, or never, and the
\* glass shows only what the frame holds.
ImplementsCanvas == Promise!Spec
=============================================================================
