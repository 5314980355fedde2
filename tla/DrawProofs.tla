----------------------------- MODULE DrawProofs -----------------------------
(***************************************************************************)
(* Theorems about Draw, for every screen size, every set of scopes and     *)
(* every argument the calls can be given.                                  *)
(***************************************************************************)
EXTENDS Draw, GeomProofs

-----------------------------------------------------------------------------
(* The dirty rectangle. *)

LEMMA WidenedType ==
  ASSUME NEW d \in ScreenRects \union {None}, NEW r \in AnyRect
  PROVE  Widened(d, r) \in ScreenRects \union {None}
BY ClipType, HullType DEF Widened

\* Widening loses nothing and takes in the on-screen part of what it is given.
LEMMA WidenedCovers ==
  ASSUME NEW d \in ScreenRects \union {None}, NEW r \in AnyRect
  PROVE  /\ d # None => /\ Widened(d, r) # None
                        /\ Pixels(d) \subseteq Pixels(Widened(d, r))
         /\ Pixels(Clip(r)) # {} => Widened(d, r) # None
         /\ Pixels(Clip(r)) \subseteq Pixels(Widened(d, r))
<1> DEFINE c == Clip(r)
<1>1. CASE Empty(c)
  <2>1. Widened(d, r) = d
    BY <1>1 DEF Widened
  <2>2. c \in AnyRect
    BY ClipType
  <2>3. Pixels(c) = {}
    BY <1>1, <2>2 DEF Empty, Pixels, AnyRect
  <2> QED BY <2>1, <2>3
<1>2. CASE ~Empty(c)
  <2>1. c \in ScreenRects /\ c # None
    BY <1>2, ClipType, DrawAssumption
  <2>2. CASE d = None
    BY <1>2, <2>1, <2>2 DEF Widened
  <2>3. CASE d # None
    <3>1. Widened(d, r) = Hull(d, c) /\ d \in ScreenRects
      BY <1>2, <2>3 DEF Widened
    <3>2. Hull(d, c) # None
      BY <3>1, <2>1, HullType, DrawAssumption
    <3> QED BY <3>1, <3>2, <2>1, HullType
  <2> QED BY <2>2, <2>3
<1> QED BY <1>1, <1>2

LEMMA OwedOnScreen ==
  ASSUME TypeOK, NEW g \in Guards
  PROVE  Owed(g) \subseteq Screen
BY ScreenRectPixels DEF Owed, TypeOK, Scope

\* A pixel call's rectangle covers the pixel.
LEMMA PixelRect ==
  ASSUME NEW p \in Screen
  PROVE  LET r == Rect(p[1], p[2], p[1] + 1, p[2] + 1)
         IN  r \in AnyRect /\ {p} \subseteq Pixels(Clip(r))
<1> DEFINE r == Rect(p[1], p[2], p[1] + 1, p[2] + 1)
<1>1. r \in AnyRect
  BY Dimensions DEF Screen, Rect, AnyRect
<1>2. p \in Pixels(r)
  BY Dimensions DEF Screen, Rect, Pixels
<1> QED BY <1>1, <1>2, ClipPixels

-----------------------------------------------------------------------------
(* blit. *)

LEMMA BlitType ==
  ASSUME NEW i \in Images
  PROVE  /\ cols(i) \in Nat /\ rows(i) \in Nat
         /\ sx0(i) \in Nat /\ sy0(i) \in Nat
         /\ BlitRect(i) \in AnyRect
         /\ Pixels(BlitRect(i)) \subseteq Screen
<1>1. i.width \in Nat /\ i.height \in Nat /\ i.x \in Int /\ i.y \in Int /\ USIZE \in Nat \ {0}
  BY DrawAssumption
<1>2. sx0(i) \in Nat /\ sy0(i) \in Nat
  BY <1>1 DEF sx0, sy0, max
<1>3. (i.width - sx0(i)) % USIZE \in Nat /\ (i.height - sy0(i)) % USIZE \in Nat
  BY <1>1, <1>2
<1>4. /\ cols(i) \in Nat /\ cols(i) <= max(SCREEN_W - max(i.x, 0), 0)
      /\ rows(i) \in Nat /\ rows(i) <= max(SCREEN_H - max(i.y, 0), 0)
  BY <1>1, <1>3, Dimensions DEF cols, rows, min, max
<1>5. BlitRect(i) \in AnyRect
  BY <1>1, <1>4 DEF BlitRect, Rect, AnyRect, max
<1>6. Pixels(BlitRect(i)) \subseteq Screen
  BY <1>1, <1>4, Dimensions DEF BlitRect, Rect, Pixels, max, Screen
<1> QED BY <1>2, <1>4, <1>5, <1>6

\* Every read of the image is inside it: what the slice check leaves through.
LEMMA BlitInBounds ==
  ASSUME NEW i \in Images, NEW p \in Copied(i)
  PROVE  Src(i, p[2] - max(i.y, 0), p[1] - max(i.x, 0)) \in 0 .. i.len - 1
<1> DEFINE r == p[2] - max(i.y, 0)
           c == p[1] - max(i.x, 0)
<1>1. /\ i.width \in Nat /\ i.x \in Int /\ i.y \in Int /\ i.len \in Nat
      /\ cols(i) \in Nat /\ rows(i) \in Nat /\ sx0(i) \in Nat /\ sy0(i) \in Nat
  BY BlitType, DrawAssumption
<1>2. r \in Nat /\ c \in Nat /\ c < cols(i)
  BY <1>1 DEF Copied, Pixels, BlitRect, Rect, max
<1>3. Src(i, r, 0) + cols(i) <= i.len
  BY DEF Copied
<1>4. (sy0(i) + r) * i.width \in Nat
  BY <1>1, <1>2
<1>5. Src(i, r, c) = Src(i, r, 0) + c /\ Src(i, r, 0) \in Nat
  <2> HIDE DEF r, c
  <2> DEFINE k == (sy0(i) + r) * i.width
  <2>1. k \in Nat
    BY <1>4
  <2>2. Src(i, r, c) = k + sx0(i) + c /\ Src(i, r, 0) = k + sx0(i) + 0
    BY DEF Src
  <2> HIDE DEF k
  <2> QED BY <2>1, <2>2, <1>1, <1>2
<1>6. Src(i, r, c) \in 0 .. i.len - 1
  <2> HIDE DEF r, c
  <2> QED BY <1>1, <1>2, <1>3, <1>5
<1> QED BY <1>6

LEMMA BlitInkType ==
  ASSUME TypeOK, NEW i \in Images
  PROVE  BlitInk(i) \in [Screen -> Gray]
<1>1. ASSUME NEW p \in Screen, p \in Copied(i)
      PROVE  i.img[Src(i, p[2] - max(i.y, 0), p[1] - max(i.x, 0))] \in Gray
  BY <1>1, BlitInBounds, DrawAssumption
<1> QED BY <1>1 DEF BlitInk, TypeOK

-----------------------------------------------------------------------------
(* The copy to the native buffer. *)

\* The pixels of the region arrive at their places, and nothing else moves.
LEMMA Blitted ==
  ASSUME TypeOK, NEW d \in ScreenRects, blit_dirty_to_ebc(d),
         shadow' \in [Screen -> Gray]
  PROVE  /\ native' \in [Native -> Gray]
         /\ \A p \in Pixels(d) : native'[screen_to_buf(p[1], p[2])] = shadow'[p]
         /\ \A p \in Screen \ Pixels(d) :
              native'[screen_to_buf(p[1], p[2])] = native[screen_to_buf(p[1], p[2])]
<1> DEFINE src(b) == {p \in Pixels(d) : screen_to_buf(p[1], p[2]) = b}
<1>0. Pixels(d) \subseteq Screen
  BY ScreenRectPixels
<1>1. native' = [b \in Native |-> IF src(b) = {} THEN native[b]
                                  ELSE shadow'[CHOOSE p \in src(b) : TRUE]]
  BY DEF blit_dirty_to_ebc
<1>2. ASSUME NEW b \in Native
      PROVE  (IF src(b) = {} THEN native[b]
              ELSE shadow'[CHOOSE p \in src(b) : TRUE]) \in Gray
  <2>1. CASE src(b) = {}
    BY <2>1 DEF TypeOK
  <2>2. CASE src(b) # {}
    <3>1. (CHOOSE p \in src(b) : TRUE) \in src(b)
      BY <2>2
    <3> QED BY <3>1, <2>2, <1>0
  <2> QED BY <2>1, <2>2
<1>3. ASSUME NEW p \in Pixels(d)
      PROVE  native'[screen_to_buf(p[1], p[2])] = shadow'[p]
  <2> DEFINE b == screen_to_buf(p[1], p[2])
  <2>1. b \in Native
    BY <1>0, RoundTrip
  <2>2. p \in src(b)
    OBVIOUS
  <2>3. \A q \in src(b) : q = p
    BY <1>0, Injective
  <2>4. (CHOOSE q \in src(b) : TRUE) = p
    BY <2>2, <2>3
  <2> QED BY <1>1, <2>1, <2>2, <2>4
<1>4. ASSUME NEW p \in Screen \ Pixels(d)
      PROVE  native'[screen_to_buf(p[1], p[2])] = native[screen_to_buf(p[1], p[2])]
  <2> DEFINE b == screen_to_buf(p[1], p[2])
  <2>1. b \in Native
    BY RoundTrip
  <2>2. src(b) = {}
    BY <1>0, Injective
  <2> QED BY <1>1, <2>1, <2>2
<1>5. native' \in [Native -> Gray]
  BY <1>1, <1>2
<1> QED BY <1>3, <1>4, <1>5

LEMMA SendType ==
  ASSUME TypeOK, native' \in [Native -> Gray],
         NEW r, NEW m \in Modes \union {None}, NEW ok \in BOOLEAN, Send(r, m, ok)
  PROVE  panel' \in [Native -> Gray] /\ epd' \in Waveforms \union {None}
<1>1. default_mode \in Waveforms
  BY DEF default_mode, Waveforms
<1> QED BY <1>1 DEF Send, TypeOK, Waveforms

LEMMA CommitType ==
  ASSUME TypeOK, shadow' \in [Screen -> Gray],
         NEW g \in Guards, scope[g].dirty # None, NEW ok \in BOOLEAN, Commit(g, ok)
  PROVE  /\ native' \in [Native -> Gray]
         /\ panel' \in [Native -> Gray]
         /\ epd' \in Waveforms \union {None}
<1>1. scope[g].dirty \in ScreenRects /\ scope[g].mode \in Modes \union {None}
  BY DEF TypeOK, Scope
<1>2. native' \in [Native -> Gray]
  BY <1>1, Blitted DEF Commit
<1> QED BY <1>1, <1>2, SendType DEF Commit

LEMMA NewScopeType == NewScope \in Scope /\ \A n \in Nat : Closed(n) \in Scope
BY DEF NewScope, Closed, Scope

LEMMA TouchType ==
  ASSUME TypeOK, NEW g \in Guards, NEW r \in AnyRect, NEW ink,
         ink \subseteq Screen, Touch(g, r, ink)
  PROVE  scope' \in [Guards -> Scope] /\ stray' \subseteq Screen
<1>1. Widened(scope[g].dirty, r) \in ScreenRects \union {None}
  BY WidenedType DEF TypeOK, Scope
<1>2. [scope[g] EXCEPT !.dirty = Widened(scope[g].dirty, r), !.ret = "()"] \in Scope
  BY <1>1 DEF TypeOK, Scope
<1>3. scope' = [scope EXCEPT ![g] =
                  [scope[g] EXCEPT !.dirty = Widened(scope[g].dirty, r), !.ret = "()"]]
  BY DEF Touch, TypeOK
<1> QED BY <1>2, <1>3 DEF Touch, TypeOK

LEMMA DropType ==
  ASSUME TypeOK, shadow' \in [Screen -> Gray],
         NEW g \in Guards, NEW ok \in BOOLEAN, DropScope(g, ok)
  PROVE  /\ native' \in [Native -> Gray]
         /\ panel' \in [Native -> Gray]
         /\ epd' \in Waveforms \union {None}
         /\ live' \subseteq Guards
         /\ scope' \in [Guards -> Scope]
<1>1. scope[g].sent \in Nat
  BY DEF TypeOK, Scope
<1>2. scope' \in [Guards -> Scope]
  BY <1>1, NewScopeType DEF DropScope, TypeOK
<1>3. CASE Spent(g) \/ scope[g].dirty = None
  BY <1>2, <1>3 DEF DropScope, TypeOK
<1>4. CASE ~(Spent(g) \/ scope[g].dirty = None)
  BY <1>2, <1>4, CommitType DEF DropScope, TypeOK
<1> QED BY <1>3, <1>4

-----------------------------------------------------------------------------
(* Type correctness. *)

LEMMA InitType == Init => TypeOK
BY NewScopeType, DrawAssumption DEF Init, TypeOK

LEMMA RectsTyped == ASSUME NEW r \in Rects
                    PROVE  r \in AnyRect /\ Normalize(r) \in AnyRect
                           /\ Clip(Normalize(r)) \in AnyRect
BY DrawAssumption, NormalizeType, ClipType

LEMMA ClipOnScreen == ASSUME NEW r \in AnyRect
                      PROVE  Pixels(Clip(r)) \subseteq Screen
BY ClipPixels

LEMMA WritingType ==
  ASSUME TypeOK, NEW g \in Guards, Writing(g)
  PROVE  TypeOK'
<1>1. ASSUME NEW p \in Points, NEW c \in Gray, put_pixel(g, p, c)
      PROVE  TypeOK'
  <2>1. p \in Screen /\ Touch(g, Rect(p[1], p[2], p[1] + 1, p[2] + 1), {p})
    BY <1>1 DEF put_pixel
  <2>2. scope' \in [Guards -> Scope] /\ stray' \subseteq Screen
    BY <2>1, PixelRect, TouchType
  <2> QED BY <1>1, <2>2 DEF put_pixel, TypeOK
<1>2. ASSUME NEW p \in Points, NEW c \in Gray, raw_shadow_mut(g, p, c)
      PROVE  TypeOK'
  BY <1>2 DEF raw_shadow_mut, TypeOK, Scope
<1>3. ASSUME NEW r \in Rects, NEW c \in Gray, fill_rect(g, r, c)
      PROVE  TypeOK'
  <2> DEFINE n == Clip(Normalize(r))
  <2>1. n \in AnyRect /\ Pixels(n) \subseteq Screen
    BY RectsTyped, ClipOnScreen
  <2>2. Touch(g, n, Pixels(n))
    BY <1>3 DEF fill_rect
  <2>3. scope' \in [Guards -> Scope] /\ stray' \subseteq Screen
    BY <2>1, <2>2, TouchType
  <2> QED BY <1>3, <2>3 DEF fill_rect, TypeOK
<1>4. ASSUME NEW b \in Batches, put_pixels(g, b)
      PROVE  TypeOK'
  <2> DEFINE in == DOMAIN b \intersect Screen
  <2>1. PICK r \in ScreenRects : Touch(g, r, in)
    BY <1>4 DEF put_pixels
  <2>2. scope' \in [Guards -> Scope] /\ stray' \subseteq Screen
    BY <2>1, ScreenRectCorners, TouchType
  <2>3. \A p \in in : b[p] \in Gray
    BY DrawAssumption
  <2>4. shadow' \in [Screen -> Gray]
    BY <1>4, <2>3 DEF put_pixels, TypeOK
  <2> QED BY <1>4, <2>2, <2>4 DEF put_pixels, TypeOK
<1>5. ASSUME NEW i \in Images, blit(g, i)
      PROVE  TypeOK'
  <2>1. Touch(g, BlitRect(i), Pixels(BlitRect(i))) /\ shadow' = BlitInk(i)
    BY <1>5 DEF blit
  <2>2. scope' \in [Guards -> Scope] /\ stray' \subseteq Screen
    BY <2>1, BlitType, TouchType
  <2> QED BY <1>5, <2>1, <2>2, BlitInkType DEF blit, TypeOK
<1>6. ASSUME NEW i \in Images, NEW ok \in BOOLEAN, blit_panic(g, i, ok)
      PROVE  TypeOK'
  <2>1. shadow' \in [Screen -> Gray] /\ DropScope(g, ok)
    BY <1>6, BlitInkType DEF blit_panic
  <2>2. stray' \subseteq Screen
    BY <1>6, BlitType DEF blit_panic, TypeOK, Copied
  <2> QED BY <2>1, <2>2, DropType DEF TypeOK
<1>7. ASSUME NEW r \in Rects, dirty_union(g, r)
      PROVE  TypeOK'
  <2>1. Touch(g, r, {})
    BY <1>7 DEF dirty_union
  <2>2. scope' \in [Guards -> Scope] /\ stray' \subseteq Screen
    BY <2>1, RectsTyped, TouchType
  <2> QED BY <1>7, <2>2 DEF dirty_union, TypeOK
<1> QED BY <1>1, <1>2, <1>3, <1>4, <1>5, <1>6, <1>7 DEF Writing

LEMMA EndingType ==
  ASSUME TypeOK, NEW g \in Guards, Ending(g)
  PROVE  TypeOK'
<1>1. ASSUME NEW m \in Modes \union {None}, set_mode(g, m)
      PROVE  TypeOK'
  <2>1. [scope[g] EXCEPT !.mode = m, !.ret = "()"] \in Scope
    BY DEF TypeOK, Scope
  <2> QED BY <1>1, <2>1 DEF set_mode, TypeOK
<1>2. ASSUME flush_skip(g)
      PROVE  TypeOK'
  <2> DEFINE f == scope[g].flushed \/ ~Spent(g)
  <2>1. f \in BOOLEAN
    OBVIOUS
  <2>2. scope' = [scope EXCEPT ![g] = [scope[g] EXCEPT !.flushed = f, !.ret = "ok"]]
    BY <1>2 DEF flush_skip, TypeOK
  <2> HIDE DEF f
  <2>3. [scope[g] EXCEPT !.flushed = f, !.ret = "ok"] \in Scope
    BY <2>1 DEF TypeOK, Scope
  <2> QED BY <1>2, <2>2, <2>3 DEF flush_skip, TypeOK
<1>3. ASSUME NEW ok \in BOOLEAN, flush(g, ok)
      PROVE  TypeOK'
  <2>1. shadow' \in [Screen -> Gray] /\ Commit(g, ok) /\ scope[g].dirty # None
    BY <1>3 DEF flush, TypeOK
  <2>2. scope' \in [Guards -> Scope]
    BY <1>3 DEF flush, TypeOK, Scope
  <2> QED BY <1>3, <2>1, <2>2, CommitType DEF flush, TypeOK
<1>4. ASSUME NEW ok \in BOOLEAN, drop(g, ok)
      PROVE  TypeOK'
  <2>1. shadow' \in [Screen -> Gray] /\ DropScope(g, ok) /\ stray' \subseteq Screen
    BY <1>4 DEF drop, TypeOK
  <2> QED BY <2>1, DropType DEF TypeOK
<1>5. ASSUME cancel(g)
      PROVE  TypeOK'
  <2>1. [scope[g] EXCEPT !.cancelled = TRUE, !.ret = "()"] \in Scope
    BY DEF TypeOK, Scope
  <2>2. scope' \in [Guards -> Scope]
    BY <1>5, <2>1 DEF cancel, TypeOK
  <2> QED BY <1>5, <2>2, OwedOnScreen DEF cancel, TypeOK
<1> QED BY <1>1, <1>2, <1>3, <1>4, <1>5 DEF Ending

LEMMA NextType == TypeOK /\ [Next]_vars => TypeOK'
<1> SUFFICES ASSUME TypeOK, [Next]_vars
             PROVE  TypeOK'
  OBVIOUS
<1>1. ASSUME NEW g \in Guards, draw(g)
      PROVE  TypeOK'
  BY <1>1, NewScopeType DEF draw, TypeOK
<1>2. ASSUME NEW g \in Guards, Writing(g)
      PROVE  TypeOK'
  BY <1>2, WritingType
<1>3. ASSUME NEW g \in Guards, Ending(g)
      PROVE  TypeOK'
  BY <1>3, EndingType
<1>4. ASSUME NEW r \in Rects, NEW c \in Gray, surface_fill_rect(r, c)
      PROVE  TypeOK'
  BY <1>4 DEF surface_fill_rect, TypeOK
<1>5. ASSUME NEW r, NEW m \in Modes \union {None}, NEW ok \in BOOLEAN, refresh(r, m, ok)
      PROVE  TypeOK'
  <2>1. native' \in [Native -> Gray] /\ Send(r, m, ok)
    BY <1>5 DEF refresh, TypeOK
  <2> QED BY <1>5, <2>1, SendType DEF refresh, TypeOK
<1>6. CASE UNCHANGED vars
  BY <1>6 DEF vars, TypeOK
<1> QED BY <1>1, <1>2, <1>3, <1>4, <1>5, <1>6 DEF Next

\* The state of a surface and its scopes stays well formed: in particular a
\* dirty region is never empty, reversed or off the screen, and every index
\* into the shadow, the image and the native buffer is in bounds.
THEOREM TypeCorrect == Spec => []TypeOK
BY InitType, NextType, PTL DEF Spec

-----------------------------------------------------------------------------
(* The canvas and the native buffer. *)

\* A write through a scope that records its ink, pending or not, leaves every
\* divergence accounted for.
LEMMA TouchInSync ==
  ASSUME TypeOK, InSync, NEW g \in live, NEW r \in AnyRect, NEW ink,
         ink \subseteq Pixels(Clip(r)), Touch(g, r, ink),
         UNCHANGED <<native, live>>,
         \A p \in Screen \ ink : shadow'[p] = shadow[p]
  PROVE  InSync'
<1>0. g \in Guards /\ scope \in [Guards -> Scope]
  BY DEF TypeOK
<1>1. \A h \in Guards : Spent(h)' <=> Spent(h)
  BY <1>0 DEF Touch, Spent
<1>2. scope'[g].dirty = Widened(scope[g].dirty, r)
  BY <1>0 DEF Touch
<1>3. \A h \in Guards \ {g} : scope'[h] = scope[h]
  BY <1>0 DEF Touch
<1>4. scope[g].dirty \in ScreenRects \union {None}
  BY <1>0 DEF Scope
<1>5. ASSUME NEW h \in Guards
      PROVE  Owed(h) \subseteq Owed(h)'
  <2>1. CASE h = g
    BY <2>1, <1>0, <1>1, <1>2, <1>4, WidenedCovers DEF Owed
  <2>2. CASE h # g
    BY <2>2, <1>1, <1>3 DEF Owed
  <2> QED BY <2>1, <2>2
<1>6. ASSUME ~Spent(g)
      PROVE  Pixels(Clip(r)) \subseteq Owed(g)'
  <2>1. ASSUME NEW p \in Pixels(Clip(r))
        PROVE  p \in Owed(g)'
    <3>1. Pixels(Clip(r)) # {}
      BY <2>1
    <3>2. scope'[g].dirty # None /\ p \in Pixels(scope'[g].dirty)
      BY <2>1, <3>1, <1>2, <1>4, WidenedCovers
    <3> QED BY <3>2, <1>0, <1>1, <1>6 DEF Owed
  <2> QED BY <2>1
<1>7. ASSUME NEW p \in Screen
      PROVE  \/ shadow'[p] = native'[screen_to_buf(p[1], p[2])]
             \/ p \in stray'
             \/ \E h \in Guards : p \in Owed(h)'
  <2>1. CASE ~Spent(g) /\ p \in Pixels(Clip(r))
    BY <2>1, <1>0, <1>6
  <2>2. CASE Spent(g) /\ p \in ink
    BY <2>2 DEF Touch
  <2>3. CASE p \notin ink /\ (Spent(g) \/ p \notin Pixels(Clip(r)))
    <3>1. p \in stray => p \in stray'
      BY <2>3 DEF Touch
    <3> QED BY <2>3, <3>1, <1>5 DEF InSync
  <2> QED BY <2>1, <2>2, <2>3
<1> QED BY <1>7 DEF InSync

\* The end of a scope brings what it owes to the buffer; other scopes owe what
\* they owed.
LEMMA CommitInSync ==
  ASSUME TypeOK, NEW g \in live, shadow' \in [Screen -> Gray],
         \/ Owed(g) = {} /\ native' = native
         \/ Owed(g) = Pixels(scope[g].dirty) /\ scope[g].dirty # None
              /\ blit_dirty_to_ebc(scope[g].dirty)
  PROVE  /\ \A p \in Owed(g) : native'[screen_to_buf(p[1], p[2])] = shadow'[p]
         /\ \A p \in Screen \ Owed(g) :
              native'[screen_to_buf(p[1], p[2])] = native[screen_to_buf(p[1], p[2])]
<1>1. g \in Guards /\ scope[g].dirty \in ScreenRects \union {None}
  BY DEF TypeOK, Scope
<1>2. CASE Owed(g) = {} /\ native' = native
  BY <1>2
<1>3. CASE Owed(g) = Pixels(scope[g].dirty) /\ scope[g].dirty # None
             /\ blit_dirty_to_ebc(scope[g].dirty)
  BY <1>1, <1>3, Blitted
<1> QED BY <1>2, <1>3

\* The same for a step that ends or spends g, in the form the actions have it.
LEMMA EndInSync ==
  ASSUME TypeOK, InSync, NEW g \in live, NEW ink,
         \A p \in Owed(g) : native'[screen_to_buf(p[1], p[2])] = shadow'[p],
         \A p \in Screen \ Owed(g) :
           native'[screen_to_buf(p[1], p[2])] = native[screen_to_buf(p[1], p[2])],
         \A p \in Screen \ ink : shadow'[p] = shadow[p],
         stray' = (stray \union ink) \ Owed(g),
         \A h \in Guards \ {g} : Owed(h)' = Owed(h)
  PROVE  InSync'
<1>1. ASSUME NEW p \in Screen
      PROVE  \/ shadow'[p] = native'[screen_to_buf(p[1], p[2])]
             \/ p \in stray'
             \/ \E h \in Guards : p \in Owed(h)'
  <2>1. CASE p \in Owed(g)
    BY <2>1
  <2>2. CASE p \notin Owed(g) /\ p \in ink
    BY <2>2
  <2>3. CASE p \notin Owed(g) /\ p \notin ink
    BY <2>3 DEF InSync
  <2> QED BY <2>1, <2>2, <2>3
<1> QED BY <1>1 DEF InSync

LEMMA DropScopeCommits ==
  ASSUME TypeOK, NEW g \in live, NEW ok, DropScope(g, ok)
  PROVE  /\ \/ Owed(g) = {} /\ native' = native
            \/ Owed(g) = Pixels(scope[g].dirty) /\ scope[g].dirty # None
                 /\ blit_dirty_to_ebc(scope[g].dirty)
         /\ \A h \in Guards \ {g} : Owed(h)' = Owed(h)
<1>1. CASE Spent(g) \/ scope[g].dirty = None
  BY <1>1 DEF DropScope, Owed, Spent, TypeOK
<1>2. CASE ~(Spent(g) \/ scope[g].dirty = None)
  BY <1>2 DEF DropScope, Owed, Spent, TypeOK, Commit
<1> QED BY <1>1, <1>2

LEMMA WritingInSync ==
  ASSUME TypeOK, InSync, NEW g \in Guards, Writing(g)
  PROVE  InSync'
<1>1. ASSUME NEW p \in Points, NEW c \in Gray, put_pixel(g, p, c)
      PROVE  InSync'
  <2> DEFINE r == Rect(p[1], p[2], p[1] + 1, p[2] + 1)
  <2>1. g \in live /\ p \in Screen /\ Touch(g, r, {p}) /\ UNCHANGED <<native, live>>
    BY <1>1 DEF put_pixel
  <2>2. \A q \in Screen \ {p} : shadow'[q] = shadow[q]
    BY <1>1 DEF put_pixel, TypeOK
  <2>3. r \in AnyRect /\ {p} \subseteq Pixels(Clip(r))
    BY <2>1, PixelRect
  <2> HIDE DEF r
  <2> QED BY <2>1, <2>2, <2>3, TouchInSync
<1>2. ASSUME NEW p \in Points, NEW c \in Gray, raw_shadow_mut(g, p, c)
      PROVE  InSync'
  <2>1. \A h \in Guards : Owed(h)' = Owed(h)
    BY <1>2 DEF raw_shadow_mut, Owed, Spent, TypeOK
  <2>2. /\ stray' = stray \union {p} /\ native' = native
        /\ \A q \in Screen \ {p} : shadow'[q] = shadow[q]
    BY <1>2 DEF raw_shadow_mut, TypeOK
  <2> QED BY <2>1, <2>2 DEF InSync
<1>3. ASSUME NEW r \in Rects, NEW c \in Gray, fill_rect(g, r, c)
      PROVE  InSync'
  <2> DEFINE n == Normalize(r)
             ink == Pixels(Clip(n))
  <2>1. n \in AnyRect /\ Clip(n) \in AnyRect
    BY RectsTyped
  <2>2. Pixels(Clip(Clip(n))) = ink
    BY <2>1, ClipPixels, ClipOnScreen
  <2>3. /\ g \in live /\ Touch(g, Clip(n), ink) /\ UNCHANGED <<native, live>>
        /\ \A q \in Screen \ ink : shadow'[q] = shadow[q]
    BY <1>3 DEF fill_rect
  <2> HIDE DEF n, ink
  <2> QED BY <2>1, <2>2, <2>3, TouchInSync
<1>4. ASSUME NEW b \in Batches, put_pixels(g, b)
      PROVE  InSync'
  <2> DEFINE in == DOMAIN b \intersect Screen
  <2>1. PICK r \in ScreenRects : in \subseteq Pixels(r) /\ Touch(g, r, in)
    BY <1>4 DEF put_pixels
  <2>2. r \in AnyRect /\ in \subseteq Pixels(Clip(r))
    BY <2>1, ScreenRectCorners, ClipPixels
  <2>3. /\ g \in live /\ UNCHANGED <<native, live>>
        /\ \A q \in Screen \ in : shadow'[q] = shadow[q]
    BY <1>4 DEF put_pixels
  <2> HIDE DEF in
  <2> QED BY <2>1, <2>2, <2>3, TouchInSync
<1>5. ASSUME NEW i \in Images, blit(g, i)
      PROVE  InSync'
  <2> DEFINE ink == Pixels(BlitRect(i))
  <2>1. BlitRect(i) \in AnyRect /\ ink \subseteq Pixels(Clip(BlitRect(i)))
    BY BlitType, ClipPixels
  <2>2. /\ g \in live /\ Touch(g, BlitRect(i), ink) /\ UNCHANGED <<native, live>>
        /\ \A q \in Screen \ ink : shadow'[q] = shadow[q]
    BY <1>5 DEF blit, BlitInk
  <2> HIDE DEF ink
  <2> QED BY <2>1, <2>2, TouchInSync
<1>6. ASSUME NEW i \in Images, NEW ok \in BOOLEAN, blit_panic(g, i, ok)
      PROVE  InSync'
  <2> DEFINE ink == Copied(i)
  <2>1. /\ g \in live /\ DropScope(g, ok) /\ shadow' \in [Screen -> Gray]
        /\ stray' = (stray \union ink) \ Owed(g)
        /\ \A q \in Screen \ ink : shadow'[q] = shadow[q]
    BY <1>6, BlitInkType DEF blit_panic, BlitInk
  <2> HIDE DEF ink
  <2> QED BY <2>1, DropScopeCommits, CommitInSync, EndInSync
<1>7. ASSUME NEW r \in Rects, dirty_union(g, r)
      PROVE  InSync'
  <2>1. g \in live /\ Touch(g, r, {}) /\ UNCHANGED <<shadow, native, live>>
    BY <1>7 DEF dirty_union
  <2> QED BY <2>1, RectsTyped, TouchInSync
<1> QED BY <1>1, <1>2, <1>3, <1>4, <1>5, <1>6, <1>7 DEF Writing

LEMMA EndingInSync ==
  ASSUME TypeOK, InSync, NEW g \in Guards, Ending(g)
  PROVE  InSync'
<1>1. ASSUME NEW m \in Modes \union {None}, set_mode(g, m)
      PROVE  InSync'
  <2>1. \A h \in Guards : Owed(h)' = Owed(h)
    BY <1>1 DEF set_mode, Owed, Spent, TypeOK
  <2> QED BY <1>1, <2>1 DEF set_mode, InSync
<1>2. ASSUME flush_skip(g)
      PROVE  InSync'
  <2>1. \A h \in Guards \ {g} : Owed(h)' = Owed(h)
    BY <1>2 DEF flush_skip, Owed, Spent, TypeOK
  <2> DEFINE f == scope[g].flushed \/ ~Spent(g)
  <2>2. scope' = [scope EXCEPT ![g] = [scope[g] EXCEPT !.flushed = f, !.ret = "ok"]]
    BY <1>2 DEF flush_skip, TypeOK
  <2>3. scope'[g].flushed = f /\ scope'[g].cancelled = scope[g].cancelled
    <3> HIDE DEF f
    <3> QED BY <2>2 DEF TypeOK, Scope
  <2>4. Spent(g)'
    BY <2>3 DEF Spent
  <2>5. Owed(g)' = {} /\ Owed(g) = {}
    BY <1>2, <2>4 DEF flush_skip, Owed
  <2> QED BY <1>2, <2>1, <2>5 DEF flush_skip, InSync
<1>3. ASSUME NEW ok \in BOOLEAN, flush(g, ok)
      PROVE  InSync'
  <2>1. /\ g \in live /\ shadow' = shadow /\ shadow' \in [Screen -> Gray]
        /\ Owed(g) = Pixels(scope[g].dirty) /\ scope[g].dirty # None
        /\ blit_dirty_to_ebc(scope[g].dirty)
        /\ stray' = (stray \union {}) \ Owed(g)
    BY <1>3 DEF flush, Commit, Owed, TypeOK
  <2>2. \A h \in Guards \ {g} : Owed(h)' = Owed(h)
    BY <1>3 DEF flush, Owed, Spent, TypeOK
  <2> QED BY <2>1, <2>2, CommitInSync, EndInSync
<1>4. ASSUME NEW ok \in BOOLEAN, drop(g, ok)
      PROVE  InSync'
  <2>1. /\ g \in live /\ shadow' = shadow /\ shadow' \in [Screen -> Gray]
        /\ DropScope(g, ok) /\ stray' = (stray \union {}) \ Owed(g)
    BY <1>4 DEF drop, TypeOK
  <2> QED BY <2>1, DropScopeCommits, CommitInSync, EndInSync
<1>5. ASSUME cancel(g)
      PROVE  InSync'
  <2>1. \A h \in Guards \ {g} : Owed(h)' = Owed(h)
    BY <1>5 DEF cancel, Owed, Spent, TypeOK
  <2> QED BY <1>5, <2>1 DEF cancel, InSync
<1> QED BY <1>1, <1>2, <1>3, <1>4, <1>5 DEF Ending

LEMMA NextInSync == TypeOK /\ InSync /\ [Next]_vars => InSync'
<1> SUFFICES ASSUME TypeOK, InSync, [Next]_vars
             PROVE  InSync'
  OBVIOUS
<1>1. ASSUME NEW g \in Guards, draw(g)
      PROVE  InSync'
  <2>1. \A h \in Guards : Owed(h) \subseteq Owed(h)'
    BY <1>1 DEF draw, Owed, Spent, TypeOK
  <2> QED BY <1>1, <2>1 DEF draw, InSync
<1>2. ASSUME NEW g \in Guards, Writing(g)
      PROVE  InSync'
  BY <1>2, WritingInSync
<1>3. ASSUME NEW g \in Guards, Ending(g)
      PROVE  InSync'
  BY <1>3, EndingInSync
<1>4. ASSUME NEW r \in Rects, NEW c \in Gray, surface_fill_rect(r, c)
      PROVE  InSync'
  <2> DEFINE in == Pixels(Normalize(r)) \intersect Screen
  <2>1. \A h \in Guards : Owed(h)' = Owed(h)
    BY <1>4 DEF surface_fill_rect, Owed, Spent
  <2>2. ASSUME NEW p \in Screen \ in
        PROVE  native'[screen_to_buf(p[1], p[2])] = native[screen_to_buf(p[1], p[2])]
    BY <1>4, RoundTrip DEF surface_fill_rect
  <2>3. shadow' = shadow /\ stray' = stray \union in
    BY <1>4 DEF surface_fill_rect
  <2> QED BY <2>1, <2>2, <2>3 DEF InSync
<1>5. ASSUME NEW r, NEW m \in Modes \union {None}, NEW ok \in BOOLEAN, refresh(r, m, ok)
      PROVE  InSync'
  BY <1>5 DEF refresh, InSync, Owed, Spent
<1>6. CASE UNCHANGED vars
  BY <1>6 DEF vars, InSync, Owed, Spent
<1> QED BY <1>1, <1>2, <1>3, <1>4, <1>5, <1>6 DEF Next

LEMMA InitInSync == Init => InSync
BY DEF Init, InSync

\* Whatever order scopes are opened, written, flushed, cancelled, dropped or
\* unwound in, however many are open together and whichever SEND fails, the
\* native buffer holds the canvas but for the pixels an open scope still owes
\* and those the API is documented to let drift.
THEOREM CanvasInSync == Spec => []InSync
<1>1. Init => TypeOK /\ InSync
  BY InitType, InitInSync
<1>2. TypeOK /\ InSync /\ [Next]_vars => (TypeOK /\ InSync)'
  BY NextType, NextInSync
<1> QED BY <1>1, <1>2, PTL DEF Spec

-----------------------------------------------------------------------------
(* What a scope may send. *)

\* AtMostOneSend is not inductive alone: what keeps an open scope from sending
\* again is that its one SEND has left it flushed.
SentOnce == \A g \in Guards : /\ scope[g].sent <= 1
                              /\ g \in live /\ scope[g].sent # 0 => scope[g].flushed

LEMMA InitSentOnce == Init => SentOnce
BY DEF Init, SentOnce, NewScope

LEMMA WritingSentOnce ==
  ASSUME TypeOK, SentOnce, NEW g \in Guards, Writing(g)
  PROVE  SentOnce'
<1>1. CASE \E r \in AnyRect, ink \in SUBSET Screen : Touch(g, r, ink) /\ live' = live
  BY <1>1 DEF Touch, TypeOK, Scope, SentOnce
<1>2. CASE \E p \in Points, c \in Gray : raw_shadow_mut(g, p, c)
  BY <1>2 DEF raw_shadow_mut, TypeOK, Scope, SentOnce
<1>3. CASE \E i \in Images, ok \in BOOLEAN : blit_panic(g, i, ok)
  <2>1. PICK i \in Images, ok \in BOOLEAN : DropScope(g, ok) /\ g \in live
    BY <1>3 DEF blit_panic
  <2>2. CASE Spent(g) \/ scope[g].dirty = None
    BY <2>1, <2>2 DEF DropScope, Closed, NewScope, TypeOK, Scope, SentOnce
  <2>3. CASE ~(Spent(g) \/ scope[g].dirty = None)
    BY <2>1, <2>3 DEF DropScope, Closed, NewScope, TypeOK, Scope, SentOnce, Spent
  <2> QED BY <2>2, <2>3
<1>4. \/ \E r \in AnyRect, ink \in SUBSET Screen : Touch(g, r, ink) /\ live' = live
      \/ \E p \in Points, c \in Gray : raw_shadow_mut(g, p, c)
      \/ \E i \in Images, ok \in BOOLEAN : blit_panic(g, i, ok)
  <2>1. ASSUME NEW p \in Points, NEW c \in Gray, put_pixel(g, p, c)
        PROVE  \E r \in AnyRect, ink \in SUBSET Screen : Touch(g, r, ink) /\ live' = live
    BY <2>1, PixelRect DEF put_pixel
  <2>2. ASSUME NEW r \in Rects, NEW c \in Gray, fill_rect(g, r, c)
        PROVE  \E s \in AnyRect, ink \in SUBSET Screen : Touch(g, s, ink) /\ live' = live
    BY <2>2, RectsTyped, ClipOnScreen DEF fill_rect
  <2>3. ASSUME NEW b \in Batches, put_pixels(g, b)
        PROVE  \E r \in AnyRect, ink \in SUBSET Screen : Touch(g, r, ink) /\ live' = live
    BY <2>3, ScreenRectCorners DEF put_pixels
  <2>4. ASSUME NEW i \in Images, blit(g, i)
        PROVE  \E r \in AnyRect, ink \in SUBSET Screen : Touch(g, r, ink) /\ live' = live
    BY <2>4, BlitType DEF blit
  <2>5. ASSUME NEW r \in Rects, dirty_union(g, r)
        PROVE  \E s \in AnyRect, ink \in SUBSET Screen : Touch(g, s, ink) /\ live' = live
    BY <2>5, RectsTyped DEF dirty_union
  <2> QED BY <2>1, <2>2, <2>3, <2>4, <2>5 DEF Writing
<1> QED BY <1>1, <1>2, <1>3, <1>4

LEMMA EndingSentOnce ==
  ASSUME TypeOK, SentOnce, NEW g \in Guards, Ending(g)
  PROVE  SentOnce'
<1>1. ASSUME NEW m \in Modes \union {None}, set_mode(g, m)
      PROVE  SentOnce'
  BY <1>1 DEF set_mode, TypeOK, Scope, SentOnce
<1>2. ASSUME flush_skip(g)
      PROVE  SentOnce'
  <2> DEFINE f == scope[g].flushed \/ ~Spent(g)
  <2>1. scope' = [scope EXCEPT ![g] = [scope[g] EXCEPT !.flushed = f, !.ret = "ok"]]
    BY <1>2 DEF flush_skip, TypeOK
  <2>2. scope[g].flushed => f
    OBVIOUS
  <2> HIDE DEF f
  <2> QED BY <1>2, <2>1, <2>2 DEF flush_skip, TypeOK, Scope, SentOnce
<1>3. ASSUME NEW ok \in BOOLEAN, flush(g, ok)
      PROVE  SentOnce'
  BY <1>3 DEF flush, TypeOK, Scope, SentOnce, Spent
<1>4. ASSUME NEW ok \in BOOLEAN, drop(g, ok)
      PROVE  SentOnce'
  <2>1. DropScope(g, ok) /\ g \in live
    BY <1>4 DEF drop
  <2>2. CASE Spent(g) \/ scope[g].dirty = None
    BY <2>1, <2>2 DEF DropScope, Closed, NewScope, TypeOK, Scope, SentOnce
  <2>3. CASE ~(Spent(g) \/ scope[g].dirty = None)
    BY <2>1, <2>3 DEF DropScope, Closed, NewScope, TypeOK, Scope, SentOnce, Spent
  <2> QED BY <2>2, <2>3
<1>5. ASSUME cancel(g)
      PROVE  SentOnce'
  BY <1>5 DEF cancel, TypeOK, Scope, SentOnce
<1> QED BY <1>1, <1>2, <1>3, <1>4, <1>5 DEF Ending

LEMMA NextSentOnce == TypeOK /\ SentOnce /\ [Next]_vars => SentOnce'
<1> SUFFICES ASSUME TypeOK, SentOnce, [Next]_vars
             PROVE  SentOnce'
  OBVIOUS
<1>1. ASSUME NEW g \in Guards, draw(g)
      PROVE  SentOnce'
  BY <1>1 DEF draw, NewScope, TypeOK, Scope, SentOnce
<1>2. ASSUME NEW g \in Guards, Writing(g) \/ Ending(g)
      PROVE  SentOnce'
  BY <1>2, WritingSentOnce, EndingSentOnce
<1>3. CASE UNCHANGED <<live, scope>>
  BY <1>3 DEF SentOnce
<1>4. \/ \E g \in Guards : draw(g) \/ Writing(g) \/ Ending(g)
      \/ UNCHANGED <<live, scope>>
  BY DEF Next, vars, surface_fill_rect, refresh
<1> QED BY <1>1, <1>2, <1>3, <1>4

\* A scope costs the panel at most one repaint, whatever is called on it and
\* in whatever order: the batching that the module exists for.
THEOREM OneRepaintPerScope == Spec => []AtMostOneSend
<1>1. Init => TypeOK /\ SentOnce
  BY InitType, InitSentOnce
<1>2. TypeOK /\ SentOnce /\ [Next]_vars => (TypeOK /\ SentOnce)'
  BY NextType, NextSentOnce
<1>3. SentOnce => AtMostOneSend
  BY DEF SentOnce, AtMostOneSend
<1> QED BY <1>1, <1>2, <1>3, PTL DEF Spec

-----------------------------------------------------------------------------
(* What a step may do. *)

\* A call changes the fields of its own scope only.
LEMMA OwnScopeOnly ==
  ASSUME TypeOK, NEW g \in Guards, draw(g) \/ Writing(g) \/ Ending(g)
  PROVE  \A h \in Guards \ {g} : scope'[h] = scope[h] /\ (h \in live' <=> h \in live)
<1>1. CASE draw(g)
  BY <1>1 DEF draw, TypeOK
<1>2. CASE Writing(g)
  <2>1. ASSUME NEW r, NEW ink, Touch(g, r, ink), live' = live
        PROVE  \A h \in Guards \ {g} : scope'[h] = scope[h] /\ (h \in live' <=> h \in live)
    BY <2>1 DEF Touch, TypeOK
  <2>2. ASSUME NEW i \in Images, NEW ok \in BOOLEAN, blit_panic(g, i, ok)
        PROVE  \A h \in Guards \ {g} : scope'[h] = scope[h] /\ (h \in live' <=> h \in live)
    BY <2>2 DEF blit_panic, DropScope, TypeOK
  <2>3. ASSUME NEW p \in Points, NEW c \in Gray, raw_shadow_mut(g, p, c)
        PROVE  \A h \in Guards \ {g} : scope'[h] = scope[h] /\ (h \in live' <=> h \in live)
    BY <2>3 DEF raw_shadow_mut, TypeOK
  <2> QED
    BY <1>2, <2>1, <2>2, <2>3
    DEF Writing, put_pixel, fill_rect, put_pixels, blit, dirty_union
<1>3. CASE Ending(g)
  <2>1. CASE \E m \in Modes \union {None} : set_mode(g, m)
    BY <2>1 DEF set_mode, TypeOK
  <2>2. CASE flush_skip(g)
    BY <2>2 DEF flush_skip, TypeOK
  <2>3. CASE \E ok \in BOOLEAN : flush(g, ok)
    BY <2>3 DEF flush, TypeOK
  <2>4. CASE \E ok \in BOOLEAN : drop(g, ok)
    BY <2>4 DEF drop, DropScope, TypeOK
  <2>5. CASE cancel(g)
    BY <2>5 DEF cancel, TypeOK
  <2> QED BY <1>3, <2>1, <2>2, <2>3, <2>4, <2>5 DEF Ending
<1> QED BY <1>1, <1>2, <1>3

\* The only calls that send, or that end a spent scope, are these.
LEMMA StepOfScope ==
  ASSUME TypeOK, [Next]_vars, NEW g \in live
  PROVE  \/ scope'[g].sent = scope[g].sent /\ g \in live' /\ (Spent(g) => Spent(g)')
         \/ \E ok \in BOOLEAN : flush(g, ok)
         \/ \E ok \in BOOLEAN : DropScope(g, ok)
<1>0. g \in Guards /\ scope \in [Guards -> Scope]
  BY DEF TypeOK
<1>1. CASE UNCHANGED <<live, scope>>
  BY <1>1 DEF Spent
<1>2. ASSUME NEW h \in Guards, h # g, draw(h) \/ Writing(h) \/ Ending(h)
      PROVE  scope'[g] = scope[g] /\ g \in live'
  BY <1>0, <1>2, OwnScopeOnly
<1>3. ASSUME NEW r, NEW ink, Touch(g, r, ink), live' = live
      PROVE  scope'[g].sent = scope[g].sent /\ g \in live' /\ (Spent(g) => Spent(g)')
  BY <1>0, <1>3 DEF Touch, Spent, Scope
<1>4. CASE Writing(g)
  <2>1. ASSUME NEW p \in Points, NEW c \in Gray, raw_shadow_mut(g, p, c)
        PROVE  scope'[g].sent = scope[g].sent /\ g \in live' /\ (Spent(g) => Spent(g)')
    BY <1>0, <2>1 DEF raw_shadow_mut, Spent, Scope
  <2> QED
    BY <1>3, <1>4, <2>1
    DEF Writing, put_pixel, fill_rect, put_pixels, blit, dirty_union, blit_panic
<1>5. CASE Ending(g)
  <2>1. ASSUME NEW m \in Modes \union {None}, set_mode(g, m)
        PROVE  scope'[g].sent = scope[g].sent /\ g \in live' /\ (Spent(g) => Spent(g)')
    BY <1>0, <2>1 DEF set_mode, Spent, Scope
  <2>2. ASSUME flush_skip(g)
        PROVE  scope'[g].sent = scope[g].sent /\ g \in live' /\ (Spent(g) => Spent(g)')
    <3> DEFINE f == scope[g].flushed \/ ~Spent(g)
    <3>1. scope' = [scope EXCEPT ![g] = [scope[g] EXCEPT !.flushed = f, !.ret = "ok"]]
      BY <1>0, <2>2 DEF flush_skip
    <3>2. scope[g].flushed => f
      OBVIOUS
    <3> HIDE DEF f
    <3> QED BY <1>0, <2>2, <3>1, <3>2 DEF flush_skip, Spent, Scope
  <2>3. ASSUME cancel(g)
        PROVE  scope'[g].sent = scope[g].sent /\ g \in live' /\ (Spent(g) => Spent(g)')
    BY <1>0, <2>3 DEF cancel, Spent, Scope
  <2> QED BY <1>5, <2>1, <2>2, <2>3 DEF Ending, drop
<1>6. ~draw(g)
  BY DEF draw
<1>7. \/ UNCHANGED <<live, scope>>
      \/ \E h \in Guards : draw(h) \/ Writing(h) \/ Ending(h)
  BY DEF Next, vars, surface_fill_rect, refresh
<1>8. CASE \E h \in Guards \ {g} : draw(h) \/ Writing(h) \/ Ending(h)
  BY <1>8, <1>2 DEF Spent
<1> QED BY <1>1, <1>4, <1>5, <1>6, <1>7, <1>8

\* A flushed or cancelled scope stays silent for the rest of its life.
THEOREM SpentStaySilent == Spec => SpentIsSilent
<1>1. TypeOK /\ [Next]_vars => [SilentStep]_vars
  <2> SUFFICES ASSUME TypeOK, [Next]_vars, NEW g \in live, Spent(g)
               PROVE  scope'[g].sent = scope[g].sent /\ (g \in live' => Spent(g)')
    BY DEF SilentStep
  <2>1. ASSUME NEW ok \in BOOLEAN, DropScope(g, ok)
        PROVE  scope'[g].sent = scope[g].sent /\ g \notin live'
    BY <2>1 DEF DropScope, Closed, NewScope, TypeOK, Scope
  <2>2. \A ok \in BOOLEAN : ~flush(g, ok)
    BY DEF flush
  <2> QED BY <2>1, <2>2, StepOfScope
<1> QED BY <1>1, TypeCorrect, PTL DEF Spec, SpentIsSilent

\* What one flush shows, for every region on every screen size: all of it but
\* the first column, and nothing else but one column after the last.
THEOREM FlushShowsTheRest == Spec => FlushShowsRest
<1>1. TypeOK /\ [Next]_vars => [ShownStep]_vars
  <2> SUFFICES ASSUME TypeOK, [Next]_vars, NEW g \in Guards, FlushSent(g), NEW p \in Screen
               PROVE  LET d == scope[g].dirty
                          b == screen_to_buf(p[1], p[2])
                      IN  /\ p \in Pixels(d) /\ p[1] # d.x1 => panel'[b] = shadow[p]
                          /\ panel'[b] # panel[b] =>
                               /\ d.x1 <= p[1] /\ p[1] <= d.x2
                               /\ d.y1 <= p[2] /\ p[2] < d.y2
    BY DEF ShownStep
  <2> DEFINE d == scope[g].dirty
             b == screen_to_buf(p[1], p[2])
  <2>1. PICK ok \in BOOLEAN : flush(g, ok)
    <3>1. scope'[g].sent # scope[g].sent /\ g \in live /\ g \in live'
      BY DEF FlushSent, TypeOK, Scope
    <3>2. \A ok \in BOOLEAN : ~DropScope(g, ok)
      BY <3>1 DEF DropScope
    <3> QED BY <3>1, <3>2, StepOfScope
  <2>2. ok
    BY <2>1 DEF flush, FlushSent, TypeOK, Scope
  <2>3. d \in ScreenRects /\ blit_dirty_to_ebc(d) /\ Send(d, scope[g].mode, ok) /\ shadow' = shadow
    BY <2>1 DEF flush, Commit, TypeOK, Scope
  <2>4. b \in Native
    BY RoundTrip
  <2>5. panel'[b] = IF b \in Pixels(Window(d)) THEN native'[b] ELSE panel[b]
    BY <2>2, <2>3, <2>4 DEF Send
  <2>6. b \in Pixels(Window(d)) <=> /\ d.x1 < p[1] /\ p[1] <= d.x2
                                    /\ d.y1 <= p[2] /\ p[2] < d.y2
    BY <2>3, WindowExact DEF WindowOnScreen
  <2>7. ASSUME p \in Pixels(d), p[1] # d.x1
        PROVE  panel'[b] = shadow[p]
    <3>1. native'[b] = shadow[p]
      BY <2>3, <2>7, Blitted DEF TypeOK
    <3>2. b \in Pixels(Window(d))
      BY <2>3, <2>6, <2>7, ScreenRectCorners DEF Pixels, AnyRect
    <3> QED BY <3>1, <3>2, <2>5
  <2>8. panel'[b] # panel[b] => /\ d.x1 <= p[1] /\ p[1] <= d.x2
                                /\ d.y1 <= p[2] /\ p[2] < d.y2
    BY <2>3, <2>4, <2>5, <2>6, ScreenRectCorners DEF AnyRect, Screen
  <2> QED BY <2>7, <2>8
<1> QED BY <1>1, TypeCorrect, PTL DEF Spec, FlushShowsRest

\* Ink reaches the shared buffer only from the region of the scope that sends:
\* never the ink of a cancelled one, never a neighbour's, never a pixel that
\* nobody marked.
THEOREM OnlyOwedInkIsCommitted == Spec => CommitsOnlyOwedInk
<1>1. TypeOK /\ [Next]_vars => [OwedInkStep]_vars
  <2> SUFFICES ASSUME TypeOK, [Next]_vars, scope' # scope, NEW p \in Screen,
                      native'[screen_to_buf(p[1], p[2])] # native[screen_to_buf(p[1], p[2])]
               PROVE  /\ native'[screen_to_buf(p[1], p[2])] = shadow'[p]
                      /\ \E g \in Guards : scope'[g].sent > scope[g].sent /\ p \in Owed(g)
    BY DEF OwedInkStep
  <2>1. ASSUME NEW g \in live, shadow' \in [Screen -> Gray],
               \/ Owed(g) = {} /\ native' = native
               \/ Owed(g) = Pixels(scope[g].dirty) /\ scope[g].dirty # None
                    /\ blit_dirty_to_ebc(scope[g].dirty)
        PROVE  p \in Owed(g) /\ native'[screen_to_buf(p[1], p[2])] = shadow'[p]
    BY <2>1, CommitInSync
  <2>2. ASSUME NEW g \in Guards, NEW ok \in BOOLEAN, flush(g, ok)
        PROVE  /\ g \in live /\ shadow' \in [Screen -> Gray]
               /\ Owed(g) = Pixels(scope[g].dirty) /\ scope[g].dirty # None
               /\ blit_dirty_to_ebc(scope[g].dirty)
               /\ scope'[g].sent > scope[g].sent
    BY <2>2 DEF flush, Commit, Owed, TypeOK, Scope
  <2>3. ASSUME NEW g \in Guards, NEW ok \in BOOLEAN, g \in live,
               shadow' \in [Screen -> Gray], DropScope(g, ok)
        PROVE  /\ p \in Owed(g) /\ native'[screen_to_buf(p[1], p[2])] = shadow'[p]
               /\ scope'[g].sent > scope[g].sent
    <3>1. p \in Owed(g) /\ native'[screen_to_buf(p[1], p[2])] = shadow'[p]
      BY <2>1, <2>3, DropScopeCommits
    <3>2. scope' = [scope EXCEPT ![g] = Closed(scope[g].sent + 1)]
      BY <2>3, <3>1 DEF DropScope, Owed, TypeOK
    <3> QED BY <3>1, <3>2 DEF Closed, NewScope, TypeOK, Scope
  <2>4. ASSUME NEW g \in Guards, NEW ok \in BOOLEAN, drop(g, ok)
        PROVE  g \in live /\ shadow' \in [Screen -> Gray] /\ DropScope(g, ok)
    BY <2>4 DEF drop, TypeOK
  <2>5. ASSUME NEW g \in Guards, NEW i \in Images, NEW ok \in BOOLEAN, blit_panic(g, i, ok)
        PROVE  g \in live /\ shadow' \in [Screen -> Gray] /\ DropScope(g, ok)
    BY <2>5, BlitInkType DEF blit_panic
  <2>6. \/ \E g \in Guards, ok \in BOOLEAN : flush(g, ok) \/ drop(g, ok)
        \/ \E g \in Guards, i \in Images, ok \in BOOLEAN : blit_panic(g, i, ok)
    BY DEF Next, vars, Writing, Ending, draw, put_pixel, raw_shadow_mut, fill_rect,
           put_pixels, blit, dirty_union, set_mode, flush_skip, cancel,
           surface_fill_rect, refresh
  <2> QED BY <2>1, <2>2, <2>3, <2>4, <2>5, <2>6
<1> QED BY <1>1, TypeCorrect, PTL DEF Spec, CommitsOnlyOwedInk
=============================================================================
