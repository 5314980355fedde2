---------------------------- MODULE CanvasProofs ----------------------------
(***************************************************************************)
(* Draw implements Canvas, for every screen size, every set of scopes and  *)
(* every argument the calls can be given.                                  *)
(***************************************************************************)
EXTENDS DrawProofs

Status  == [g \in Guards |-> StatusOf(g)]
Pending == [g \in Guards |-> Owed(g)]

\* A call on a scope is seen by Canvas at that writer alone.
OnlyWriter(g) == /\ Status' = [Status EXCEPT ![g] = StatusOf(g)']
                 /\ Pending' = [Pending EXCEPT ![g] = Owed(g)']

LEMMA CallOfOneWriter ==
  ASSUME TypeOK, NEW g \in Guards, draw(g) \/ Writing(g) \/ Ending(g)
  PROVE  OnlyWriter(g)
<1>1. \A h \in Guards \ {g} : StatusOf(h)' = StatusOf(h) /\ Owed(h)' = Owed(h)
  BY OwnScopeOnly DEF StatusOf, Owed, Spent
<1>2. Status' = [h \in Guards |-> StatusOf(h)'] /\ Pending' = [h \in Guards |-> Owed(h)']
  BY DEF Status, Pending
<1> QED BY <1>1, <1>2 DEF OnlyWriter, Status, Pending

\* A SEND moves pixels from the frame to the glass and does nothing else to it.
LEMMA SendExposes ==
  ASSUME TypeOK, NEW r, NEW m, NEW ok \in BOOLEAN, Send(r, m, ok)
  PROVE  \A p \in Screen : \/ OnScreen(panel)'[p] = OnScreen(panel)[p]
                           \/ OnScreen(panel)'[p] = OnScreen(native)'[p]
<1> TAKE p \in Screen
<1> DEFINE b == screen_to_buf(p[1], p[2])
<1>1. b \in Native
  BY RoundTrip
<1>2. panel'[b] = panel[b] \/ panel'[b] = native'[b]
  BY <1>1 DEF Send
<1>3. /\ OnScreen(panel)'[p] = panel'[b] /\ OnScreen(panel)[p] = panel[b]
      /\ OnScreen(native)'[p] = native'[b]
  BY DEF OnScreen
<1> QED BY <1>2, <1>3

-----------------------------------------------------------------------------
(* Which step of Canvas a call is. *)

LEMMA IsWrite ==
  ASSUME TypeOK, TypeOK', NEW g \in live, OnlyWriter(g), ~Spent(g), ~Spent(g)', g \in live',
         Owed(g) \subseteq Owed(g)', native' = native, panel' = panel,
         \A p \in Screen \ Owed(g)' : shadow'[p] = shadow[p]
  PROVE  Promise!Write(g)
<1>1. g \in Guards /\ Owed(g)' \subseteq Screen
  <2>1. g \in Guards /\ g \in Guards'
    BY DEF TypeOK
  <2>2. Owed(g)' \subseteq Pixels(scope'[g].dirty) \/ Owed(g)' = {}
    BY DEF Owed
  <2>3. scope'[g].dirty \in ScreenRects \/ scope'[g].dirty = None
    BY <2>1 DEF TypeOK, Scope
  <2>4. CASE scope'[g].dirty = None
    BY <2>1, <2>4 DEF Owed
  <2>5. CASE scope'[g].dirty \in ScreenRects
    BY <2>1, <2>2, <2>5, ScreenRectPixels
  <2> QED BY <2>1, <2>3, <2>4, <2>5
<1>2. Status[g] = "open" /\ Status' = Status
  BY <1>1 DEF OnlyWriter, Status, StatusOf
<1>3. /\ Pending[g] = Owed(g) /\ Pending'[g] = Owed(g)'
      /\ Pending' = [Pending EXCEPT ![g] = Pending'[g]]
  BY <1>1 DEF OnlyWriter, Pending
<1>4. OnScreen(native)' = OnScreen(native) /\ OnScreen(panel)' = OnScreen(panel)
  BY DEF OnScreen
<1> QED BY <1>1, <1>2, <1>3, <1>4 DEF Promise!Write, Status, Pending

LEMMA IsScribble ==
  ASSUME TypeOK, NEW g \in live, OnlyWriter(g), g \in live', Spent(g)' = Spent(g),
         Owed(g)' = Owed(g), native' = native, panel' = panel
  PROVE  Promise!Scribble(g)
<1>1. g \in Guards
  BY DEF TypeOK
<1>2. Status[g] # "closed" /\ StatusOf(g)' = StatusOf(g)
  BY <1>1 DEF Status, StatusOf
<1>3. Status' = Status /\ Pending' = Pending
  BY <1>1, <1>2 DEF OnlyWriter, Status, Pending
<1>4. OnScreen(native)' = OnScreen(native) /\ OnScreen(panel)' = OnScreen(panel)
  BY DEF OnScreen
<1> QED BY <1>1, <1>2, <1>3, <1>4 DEF Promise!Scribble, Status, Pending

\* What the frame holds after the end of a scope that had not had its turn.
LEMMA FrameAfter ==
  ASSUME TypeOK, NEW g \in live, shadow' \in [Screen -> Gray],
         \/ Owed(g) = {} /\ native' = native
         \/ Owed(g) = Pixels(scope[g].dirty) /\ scope[g].dirty # None
              /\ blit_dirty_to_ebc(scope[g].dirty)
  PROVE  OnScreen(native)' =
           [p \in Screen |-> IF p \in Owed(g) THEN shadow'[p] ELSE OnScreen(native)[p]]
<1>1. OnScreen(native)' = [p \in Screen |-> native'[screen_to_buf(p[1], p[2])]]
  BY DEF OnScreen
<1>2. \A p \in Screen : OnScreen(native)[p] = native[screen_to_buf(p[1], p[2])]
  BY DEF OnScreen
<1> QED BY <1>1, <1>2, CommitInSync

LEMMA IsCommit ==
  ASSUME TypeOK, NEW g \in live, OnlyWriter(g), ~Spent(g), Owed(g)' = {},
         OnScreen(native)' =
           [p \in Screen |-> IF p \in Owed(g) THEN shadow'[p] ELSE OnScreen(native)[p]],
         \A p \in Screen : \/ OnScreen(panel)'[p] = OnScreen(panel)[p]
                           \/ OnScreen(panel)'[p] = OnScreen(native)'[p],
         \/ g \in live' /\ Spent(g)' /\ shadow' = shadow
         \/ g \notin live'
  PROVE  Promise!Commit(g)
<1>1. g \in Guards
  BY DEF TypeOK
<1>2. Status[g] = "open" /\ Pending[g] = Owed(g)
  BY <1>1 DEF Status, StatusOf, Pending
<1>3. Pending' = [Pending EXCEPT ![g] = {}]
  BY DEF OnlyWriter
<1>4. \/ Status' = [Status EXCEPT ![g] = "spent"] /\ shadow' = shadow
      \/ Status' = [Status EXCEPT ![g] = "closed"]
  BY DEF OnlyWriter, StatusOf
<1>5. OnScreen(native)' = [p \in Screen |-> IF p \in Pending[g] THEN shadow'[p]
                                                          ELSE OnScreen(native)[p]]
  BY <1>2
<1> QED BY <1>2, <1>3, <1>4, <1>5 DEF Promise!Commit, Promise!Exposed, Status, Pending

LEMMA IsAbandon ==
  ASSUME TypeOK, NEW g \in live, OnlyWriter(g), Owed(g)' = {}, native' = native, panel' = panel,
         \/ ~Spent(g) /\ g \in live' /\ Spent(g)' /\ shadow' = shadow
         \/ Spent(g) /\ g \notin live'
  PROVE  Promise!Abandon(g)
<1>1. g \in Guards
  BY DEF TypeOK
<1>2. Pending' = [Pending EXCEPT ![g] = {}]
  BY DEF OnlyWriter
<1>3. \/ /\ Status[g] = "open" /\ Status' = [Status EXCEPT ![g] = "spent"]
         /\ shadow' = shadow
      \/ Status[g] = "spent" /\ Status' = [Status EXCEPT ![g] = "closed"]
  BY <1>1 DEF OnlyWriter, Status, StatusOf
<1>4. OnScreen(native)' = OnScreen(native) /\ OnScreen(panel)' = OnScreen(panel)
  BY DEF OnScreen
<1> QED BY <1>2, <1>3, <1>4 DEF Promise!Abandon, Status, Pending

-----------------------------------------------------------------------------
(* Every call is one of them, or nothing at all. *)

Quiet == UNCHANGED <<shadow, OnScreen(native), OnScreen(panel), Status, Pending>>

LEMMA IsQuiet ==
  ASSUME TypeOK, NEW g \in live, OnlyWriter(g), g \in live', Spent(g)' = Spent(g),
         Owed(g)' = Owed(g), UNCHANGED <<shadow, native, panel>>
  PROVE  Quiet
<1>1. g \in Guards /\ StatusOf(g)' = StatusOf(g)
  BY DEF TypeOK, StatusOf
<1> QED BY <1>1 DEF Quiet, OnlyWriter, Status, Pending, OnScreen

\* A write that records its ink: by a scope that is still pending it is a
\* Write, by a spent one a Scribble.
LEMMA TouchImplements ==
  ASSUME TypeOK, TypeOK', NEW g \in live, OnlyWriter(g), NEW r \in AnyRect, NEW ink,
         ink \subseteq Pixels(Clip(r)), Touch(g, r, ink), UNCHANGED <<native, panel, live>>,
         \A p \in Screen \ ink : shadow'[p] = shadow[p]
  PROVE  Promise!Write(g) \/ Promise!Scribble(g)
<1>0. g \in Guards /\ scope \in [Guards -> Scope] /\ scope[g].dirty \in ScreenRects \union {None}
  BY DEF TypeOK, Scope
<1>1. Spent(g)' = Spent(g) /\ g \in live' /\ scope'[g].dirty = Widened(scope[g].dirty, r)
  BY <1>0 DEF Touch, Spent, Scope
<1>2. CASE Spent(g)
  BY <1>0, <1>1, <1>2, IsScribble DEF Owed
<1>3. CASE ~Spent(g)
  <2>1. Owed(g) \subseteq Owed(g)'
    BY <1>0, <1>1, <1>3, WidenedCovers DEF Owed
  <2>2. ink \subseteq Owed(g)'
    <3>1. ASSUME NEW p \in ink
          PROVE  p \in Owed(g)'
      <4>1. scope'[g].dirty # None /\ p \in Pixels(scope'[g].dirty)
        BY <1>0, <1>1, <3>1, WidenedCovers
      <4> QED BY <1>0, <1>1, <1>3, <4>1 DEF Owed
    <3> QED BY <3>1
  <2> QED BY <1>1, <1>3, <2>1, <2>2, IsWrite
<1> QED BY <1>2, <1>3

\* The drop of a scope: its Commit if it had not had its turn.
LEMMA DropImplements ==
  ASSUME TypeOK, NEW g \in live, OnlyWriter(g), shadow' \in [Screen -> Gray],
         NEW ok \in BOOLEAN, DropScope(g, ok)
  PROVE  \/ ~Spent(g) /\ Promise!Commit(g)
         \/ Spent(g) /\ Promise!Abandon(g)
<1>1. g \notin live' /\ Owed(g)' = {}
  BY DEF DropScope, Owed
<1>2. CASE Spent(g)
  <2>1. UNCHANGED <<native, panel>>
    BY <1>2 DEF DropScope
  <2> QED BY <1>1, <1>2, <2>1, IsAbandon
<1>3. CASE ~Spent(g)
  <2>1. \A p \in Screen : \/ OnScreen(panel)'[p] = OnScreen(panel)[p]
                          \/ OnScreen(panel)'[p] = OnScreen(native)'[p]
    <3>1. CASE scope[g].dirty = None
      BY <3>1 DEF DropScope, OnScreen
    <3>2. CASE scope[g].dirty # None
      BY <1>3, <3>2, SendExposes DEF DropScope, Commit
    <3> QED BY <3>1, <3>2
  <2>2. OnScreen(native)' =
          [p \in Screen |-> IF p \in Owed(g) THEN shadow'[p] ELSE OnScreen(native)[p]]
    BY DropScopeCommits, FrameAfter
  <2> QED BY <1>1, <1>3, <2>1, <2>2, IsCommit
<1> QED BY <1>2, <1>3

LEMMA WritingImplements ==
  ASSUME TypeOK, TypeOK', NEW g \in Guards, Writing(g)
  PROVE  Promise!Write(g) \/ Promise!Scribble(g) \/ Promise!Commit(g) \/ Promise!Abandon(g)
<1>0. OnlyWriter(g)
  BY CallOfOneWriter
<1>1. ASSUME NEW r \in AnyRect, NEW ink, ink \subseteq Pixels(Clip(r)), g \in live,
             Touch(g, r, ink), UNCHANGED <<native, panel, live>>,
             \A p \in Screen \ ink : shadow'[p] = shadow[p]
      PROVE  Promise!Write(g) \/ Promise!Scribble(g)
  BY <1>0, <1>1, TouchImplements
<1>2. ASSUME NEW p \in Points, NEW c \in Gray, put_pixel(g, p, c)
      PROVE  Promise!Write(g) \/ Promise!Scribble(g)
  <2> DEFINE r == Rect(p[1], p[2], p[1] + 1, p[2] + 1)
  <2>1. /\ g \in live /\ p \in Screen /\ Touch(g, r, {p}) /\ UNCHANGED <<native, panel, live>>
        /\ \A q \in Screen \ {p} : shadow'[q] = shadow[q]
    BY <1>2 DEF put_pixel, TypeOK
  <2>2. r \in AnyRect /\ {p} \subseteq Pixels(Clip(r))
    BY <2>1, PixelRect
  <2> HIDE DEF r
  <2> QED BY <2>1, <2>2, <1>1
<1>3. ASSUME NEW p \in Points, NEW c \in Gray, raw_shadow_mut(g, p, c)
      PROVE  Promise!Scribble(g)
  <2>1. /\ g \in live /\ g \in live' /\ UNCHANGED <<native, panel>>
        /\ Spent(g)' = Spent(g) /\ Owed(g)' = Owed(g)
    BY <1>3 DEF raw_shadow_mut, Owed, Spent, TypeOK, Scope
  <2> QED BY <2>1, <1>0, IsScribble
<1>4. ASSUME NEW r \in Rects, NEW c \in Gray, fill_rect(g, r, c)
      PROVE  Promise!Write(g) \/ Promise!Scribble(g)
  <2> DEFINE n == Normalize(r)
             ink == Pixels(Clip(n))
  <2>1. n \in AnyRect /\ Clip(n) \in AnyRect
    BY RectsTyped
  <2>2. Pixels(Clip(Clip(n))) = ink
    BY <2>1, ClipPixels, ClipOnScreen
  <2>3. /\ g \in live /\ Touch(g, Clip(n), ink) /\ UNCHANGED <<native, panel, live>>
        /\ \A q \in Screen \ ink : shadow'[q] = shadow[q]
    BY <1>4 DEF fill_rect
  <2> HIDE DEF n, ink
  <2> QED BY <2>1, <2>2, <2>3, <1>1
<1>5. ASSUME NEW b \in Batches, put_pixels(g, b)
      PROVE  Promise!Write(g) \/ Promise!Scribble(g)
  <2> DEFINE in == DOMAIN b \intersect Screen
  <2>1. PICK r \in ScreenRects : in \subseteq Pixels(r) /\ Touch(g, r, in)
    BY <1>5 DEF put_pixels
  <2>2. r \in AnyRect /\ in \subseteq Pixels(Clip(r))
    BY <2>1, ScreenRectCorners, ClipPixels
  <2>3. /\ g \in live /\ UNCHANGED <<native, panel, live>>
        /\ \A q \in Screen \ in : shadow'[q] = shadow[q]
    BY <1>5 DEF put_pixels
  <2> HIDE DEF in
  <2> QED BY <2>1, <2>2, <2>3, <1>1
<1>6. ASSUME NEW i \in Images, blit(g, i)
      PROVE  Promise!Write(g) \/ Promise!Scribble(g)
  <2> DEFINE ink == Pixels(BlitRect(i))
  <2>1. BlitRect(i) \in AnyRect /\ ink \subseteq Pixels(Clip(BlitRect(i)))
    BY BlitType, ClipPixels
  <2>2. /\ g \in live /\ Touch(g, BlitRect(i), ink) /\ UNCHANGED <<native, panel, live>>
        /\ \A q \in Screen \ ink : shadow'[q] = shadow[q]
    BY <1>6 DEF blit, BlitInk
  <2> HIDE DEF ink
  <2> QED BY <2>1, <2>2, <1>1
<1>7. ASSUME NEW i \in Images, NEW ok \in BOOLEAN, blit_panic(g, i, ok)
      PROVE  Promise!Commit(g) \/ Promise!Abandon(g)
  <2>1. g \in live /\ DropScope(g, ok) /\ shadow' \in [Screen -> Gray]
    BY <1>7, BlitInkType DEF blit_panic
  <2> QED BY <2>1, <1>0, DropImplements
<1>8. ASSUME NEW r \in Rects, dirty_union(g, r)
      PROVE  Promise!Write(g) \/ Promise!Scribble(g)
  <2>1. g \in live /\ Touch(g, r, {}) /\ UNCHANGED <<shadow, native, panel, live>>
    BY <1>8 DEF dirty_union
  <2> QED BY <2>1, RectsTyped, <1>1
<1> QED BY <1>2, <1>3, <1>4, <1>5, <1>6, <1>7, <1>8 DEF Writing

LEMMA EndingImplements ==
  ASSUME TypeOK, NEW g \in Guards, Ending(g)
  PROVE  Promise!Commit(g) \/ Promise!Abandon(g) \/ Quiet
<1>0. OnlyWriter(g)
  BY CallOfOneWriter
<1>1. ASSUME NEW m \in Modes \union {None}, set_mode(g, m)
      PROVE  Quiet
  <2>1. /\ g \in live /\ g \in live' /\ UNCHANGED <<shadow, native, panel>>
        /\ Spent(g)' = Spent(g) /\ Owed(g)' = Owed(g)
    BY <1>1 DEF set_mode, Owed, Spent, TypeOK, Scope
  <2> QED BY <2>1, <1>0, IsQuiet
<1>2. ASSUME flush_skip(g)
      PROVE  Promise!Commit(g) \/ Quiet
  <2> DEFINE f == scope[g].flushed \/ ~Spent(g)
  <2>1. scope' = [scope EXCEPT ![g] = [scope[g] EXCEPT !.flushed = f, !.ret = "ok"]]
    BY <1>2 DEF flush_skip, TypeOK
  <2>2. scope'[g].flushed = f /\ scope'[g].cancelled = scope[g].cancelled
    <3> HIDE DEF f
    <3> QED BY <2>1 DEF TypeOK, Scope
  <2>3. /\ Spent(g)' /\ Owed(g)' = {} /\ Owed(g) = {} /\ g \in live /\ g \in live'
        /\ UNCHANGED <<shadow, native, panel>>
    BY <1>2, <2>2 DEF flush_skip, Owed, Spent
  <2>4. CASE Spent(g)
    BY <1>0, <2>3, <2>4, IsQuiet
  <2>5. CASE ~Spent(g)
    <3>1. OnScreen(native)' =
            [p \in Screen |-> IF p \in Owed(g) THEN shadow'[p] ELSE OnScreen(native)[p]]
      BY <2>3, FrameAfter DEF TypeOK
    <3>2. OnScreen(panel)' = OnScreen(panel)
      BY <2>3 DEF OnScreen
    <3> QED BY <1>0, <2>3, <2>5, <3>1, <3>2, IsCommit
  <2> QED BY <2>4, <2>5
<1>3. ASSUME NEW ok \in BOOLEAN, flush(g, ok)
      PROVE  Promise!Commit(g)
  <2>1. /\ g \in live /\ g \in live' /\ ~Spent(g) /\ shadow' = shadow
        /\ shadow' \in [Screen -> Gray]
        /\ Owed(g) = Pixels(scope[g].dirty) /\ scope[g].dirty # None
        /\ blit_dirty_to_ebc(scope[g].dirty) /\ Send(scope[g].dirty, scope[g].mode, ok)
    BY <1>3 DEF flush, Commit, Owed, TypeOK
  <2>2. Spent(g)' /\ Owed(g)' = {}
    BY <1>3 DEF flush, Spent, Owed, TypeOK, Scope
  <2>3. OnScreen(native)' =
          [p \in Screen |-> IF p \in Owed(g) THEN shadow'[p] ELSE OnScreen(native)[p]]
    BY <2>1, FrameAfter
  <2> QED BY <1>0, <2>1, <2>2, <2>3, SendExposes, IsCommit
<1>4. ASSUME NEW ok \in BOOLEAN, drop(g, ok)
      PROVE  Promise!Commit(g) \/ Promise!Abandon(g)
  <2>1. g \in live /\ DropScope(g, ok) /\ shadow' \in [Screen -> Gray]
    BY <1>4 DEF drop, TypeOK
  <2> QED BY <2>1, <1>0, DropImplements
<1>5. ASSUME cancel(g)
      PROVE  Promise!Abandon(g) \/ Quiet
  <2>1. /\ g \in live /\ g \in live' /\ Spent(g)' /\ Owed(g)' = {}
        /\ UNCHANGED <<shadow, native, panel>>
    BY <1>5 DEF cancel, Owed, Spent, TypeOK, Scope
  <2>2. CASE Spent(g)
    BY <1>0, <2>1, <2>2, IsQuiet DEF Owed
  <2>3. CASE ~Spent(g)
    BY <1>0, <2>1, <2>3, IsAbandon
  <2> QED BY <2>2, <2>3
<1> QED BY <1>1, <1>2, <1>3, <1>4, <1>5 DEF Ending

LEMMA InitImplements == Init => Promise!Init
<1> SUFFICES ASSUME Init
             PROVE  Promise!Init
  OBVIOUS
<1>1. TypeOK
  BY InitType
<1>2. OnScreen(native) \in [Screen -> Gray] /\ OnScreen(panel) = OnScreen(native)
  BY <1>1, RoundTrip DEF Init, OnScreen, TypeOK
<1>3. /\ Status = [g \in Guards |-> "closed"]
      /\ Pending = [g \in Guards |-> {}]
  BY DEF Init, Status, StatusOf, Pending, Owed
<1> QED BY <1>2, <1>3 DEF Init, Promise!Init, Status, Pending

LEMMA NextImplements ==
  TypeOK /\ TypeOK' /\ [Next]_vars => [Promise!Next]_Promise!vars
<1> SUFFICES ASSUME TypeOK, TypeOK', [Next]_vars
             PROVE  Promise!Next \/ Quiet
  BY DEF Quiet, Promise!vars, Status, Pending
<1>1. ASSUME NEW g \in Guards, draw(g)
      PROVE  Promise!Open(g)
  <2>1. /\ StatusOf(g) = "closed" /\ StatusOf(g)' = "open" /\ Owed(g)' = Owed(g)
        /\ UNCHANGED <<shadow, native, panel>>
    BY <1>1 DEF draw, StatusOf, Owed, Spent, NewScope, TypeOK
  <2>2. Status[g] = "closed" /\ Status' = [Status EXCEPT ![g] = "open"] /\ Pending' = Pending
    BY <1>1, <2>1, CallOfOneWriter DEF OnlyWriter, Status, Pending
  <2>3. OnScreen(native)' = OnScreen(native) /\ OnScreen(panel)' = OnScreen(panel)
    BY <2>1 DEF OnScreen
  <2> QED BY <2>1, <2>2, <2>3 DEF Promise!Open, Status, Pending
<1>2. ASSUME UNCHANGED <<live, scope>>
      PROVE  Status' = Status /\ Pending' = Pending
  BY <1>2 DEF Status, StatusOf, Pending, Owed, Spent
<1>3. ASSUME NEW r \in Rects, NEW c \in Gray, surface_fill_rect(r, c)
      PROVE  Promise!Direct
  BY <1>2, <1>3 DEF surface_fill_rect, Promise!Direct, Status, Pending, OnScreen
<1>4. ASSUME NEW r, NEW m \in Modes \union {None}, NEW ok \in BOOLEAN, refresh(r, m, ok)
      PROVE  Promise!Refresh
  <2>1. OnScreen(native)' = OnScreen(native) /\ shadow' = shadow
    BY <1>4 DEF refresh, OnScreen
  <2> QED BY <1>2, <1>4, <2>1, SendExposes
          DEF refresh, Promise!Refresh, Promise!Exposed, Status, Pending
<1>5. CASE UNCHANGED vars
  BY <1>2, <1>5 DEF vars, Quiet, OnScreen
<1>6. ASSUME NEW g \in Guards, Writing(g) \/ Ending(g)
      PROVE  Promise!Next \/ Quiet
  BY <1>6, WritingImplements, EndingImplements DEF Promise!Next
<1> QED BY <1>1, <1>3, <1>4, <1>5, <1>6 DEF Next, Promise!Next

\* Draw implements the transactions of Canvas: on every screen, with every set
\* of scopes open together and whatever the calls are given, each call is one
\* step of the abstract layers or changes nothing that a user can see.
THEOREM DrawImplementsCanvas == Spec => ImplementsCanvas
<1>1. TypeOK /\ TypeOK' /\ [Next]_vars => [Promise!Next]_Promise!vars
  BY NextImplements
<1> QED BY <1>1, InitImplements, TypeCorrect, PTL DEF Spec, ImplementsCanvas, Promise!Spec
=============================================================================
