----------------------------- MODULE PenProofs -----------------------------
(***************************************************************************)
(* Theorems about Pen, for every queue and chunk length and every set of   *)
(* event codes.                                                            *)
(***************************************************************************)
EXTENDS Pen, LeastProofs, SequenceTheorems, FiniteSetTheorems, TLAPS

\* What keeps the two safety invariants: a chunk in hand is never empty, and
\* the calls that poll reach read(2) only from a poll that found something.
Inv == /\ TypeOK
       /\ pc = "apply" => buf # <<>>
       /\ ReadNeverBlocks
       /\ ProximityHasTool

\* The digitizer reports well-formed events and stays well formed.
LEMMA ReportType ==
  ASSUME TypeOK, NEW c \in Codes, NEW v, Change(c, v)
  PROVE  [code |-> c, value |-> v] \in Event /\ After(c, v) \in HwState
<1>0. /\ c \in ToolCodes \union AbsCodes \union Buttons \union {"BTN_TOUCH"}
      /\ hw \in HwState
  BY PenAssumption DEF TypeOK
<1>1. CASE c \in AbsCodes
  <2>1. v \in Abs
    BY <1>1 DEF Change, AbsCodes, ToolCodes, Buttons
  <2>2. After(c, v) \in HwState
    BY <1>0, <1>1, <2>1 DEF After, AbsCodes, ToolCodes, Buttons, HwState
  <2> QED BY <1>1, <2>1, <2>2 DEF Event
<1>2. CASE c \in ToolCodes
  <2>1. v \in {0, 1} /\ c \notin AbsCodes
    BY <1>2 DEF Change, AbsCodes, ToolCodes, Buttons
  <2>2. ToolOf[c] \in Tools
    BY <1>2 DEF ToolCodes, ToolOf, Tools
  <2>3. After(c, v) \in HwState
    BY <1>0, <1>2, <2>1, <2>2 DEF After, AbsCodes, ToolCodes, Buttons, HwState, Tools
  <2> QED BY <2>1, <2>3 DEF Event
<1>3. CASE c \in Buttons \union {"BTN_TOUCH"}
  <2>1. v \in {0, 1} /\ c \notin AbsCodes
    BY <1>3 DEF Change, AbsCodes, ToolCodes, Buttons
  <2>2. After(c, v) \in HwState
    BY <1>0, <1>3, <2>1 DEF After, AbsCodes, ToolCodes, Buttons, HwState
  <2> QED BY <2>1, <2>2 DEF Event
<1> QED BY <1>0, <1>1, <1>2, <1>3

\* Folding an event keeps the fields well formed, and keeps the tool named
\* while one is in proximity.
LEMMA ApplyType ==
  ASSUME NEW st \in PenState, NEW ev \in Event
  PROVE  /\ apply(st, ev) \in PenState
         /\ (st.in_proximity => st.tool # "None") =>
              (apply(st, ev).in_proximity => apply(st, ev).tool # "None")
<1>1. ev.code \in AbsCodes => ev.value \in Abs
  BY DEF Event, Syn, Dropped, AbsCodes
<1>2. ev.code \in ToolCodes => ToolOf[ev.code] \in Tools \ {"None"}
  BY DEF ToolCodes, ToolOf, Tools
<1>3. st.tool \in Tools /\ st.in_proximity \in BOOLEAN
  BY DEF PenState
<1> DEFINE down == ev.value # 0
           bx == IF ev.code = "ABS_X" THEN ev.value ELSE st.last_bx
           by == IF ev.code = "ABS_Y" THEN ev.value ELSE st.last_by
           seen == st.have_xy \/ ev.code \in {"ABS_X", "ABS_Y"}
           pressure == IF ev.code = "ABS_PRESSURE" THEN ev.value ELSE st.last_pressure
           near == IF ev.code \in ToolCodes THEN down ELSE st.in_proximity
           tool == IF ev.code \in ToolCodes
                     THEN IF down THEN ToolOf[ev.code]
                          ELSE IF st.tool = ToolOf[ev.code] THEN "None" ELSE st.tool
                     ELSE st.tool
           touch == IF ev.code = "BTN_TOUCH" THEN down ELSE st.touch
           keys == [b \in Buttons |-> IF ev.code = b THEN down ELSE st.s[b]]
<1>4. apply(st, ev) =
        [st EXCEPT !.last_bx = bx, !.last_by = by, !.have_xy = seen,
                   !.last_pressure = pressure, !.in_proximity = near,
                   !.tool = tool, !.touch = touch, !.s = keys]
  BY DEF apply
<1>5. /\ bx \in Abs \union {-1} /\ by \in Abs \union {-1}
      /\ pressure \in Abs
  BY <1>1 DEF PenState, AbsCodes
<1>6. tool \in Tools
  BY <1>2, <1>3 DEF Tools
<1>7. seen \in BOOLEAN /\ near \in BOOLEAN /\ touch \in BOOLEAN
  BY DEF PenState
<1>8. keys \in [Buttons -> BOOLEAN]
  <2>1. st.s \in [Buttons -> BOOLEAN]
    BY DEF PenState
  <2> QED BY <2>1
<1>9. (st.in_proximity => st.tool # "None") => (near => tool # "None")
  BY <1>2
<1> HIDE DEF bx, by, seen, pressure, near, tool, touch, keys
<1>10. /\ apply(st, ev) \in PenState
       /\ apply(st, ev).in_proximity = near
       /\ apply(st, ev).tool = tool
  BY <1>4, <1>5, <1>6, <1>7, <1>8 DEF PenState
<1> QED BY <1>9, <1>10

\* An event put in the queue leaves one there, and never too many.
LEMMA EnqueueType ==
  ASSUME TypeOK, NEW ev \in Event, Enqueue(ev)
  PROVE  /\ queue' \in Seq(Event) /\ Len(queue') <= QLEN
         /\ queue' # <<>>
         /\ missed' \in {"nobody", "open", "kernel", "reader"}
<1>1. CASE Len(queue) < QLEN
  BY <1>1, AppendProperties, EmptySeq, PenAssumption DEF TypeOK, Enqueue
<1>2. CASE ~(Len(queue) < QLEN)
  <2>1. Dropped \in Event
    BY DEF Event
  <2>2. queue' = <<Dropped, ev>> /\ missed' = "kernel"
    BY <1>2 DEF Enqueue
  <2>3. <<Dropped, ev>> \in Seq(Event) /\ Len(<<Dropped, ev>>) = 2
    BY <2>1
  <2>4. queue' # <<>>
    BY <2>2, <2>3
  <2> QED BY <2>2, <2>3, <2>4, PenAssumption
<1> QED BY <1>1, <1>2

\* read(2) splits the queue in two, and takes something.
LEMMA ChunkType ==
  ASSUME TypeOK, read_chunk
  PROVE  /\ buf' \in Seq(Event) /\ buf' # <<>>
         /\ queue' \in Seq(Event) /\ Len(queue') <= QLEN
<1> DEFINE n == min(Chunk, Len(queue))
<1>1. queue \in Seq(Event) /\ queue # <<>> /\ Len(queue) <= QLEN
  BY DEF TypeOK, read_chunk
<1>2. Len(queue) \in Nat \ {0} /\ \A i \in 1 .. Len(queue) : queue[i] \in Event
  BY <1>1, EmptySeq
<1>3. n \in 1 .. Len(queue)
  BY <1>2, PenAssumption DEF min, Chunk
<1>4. buf' = SubSeq(queue, 1, n) /\ queue' = SubSeq(queue, n + 1, Len(queue))
  BY DEF read_chunk
<1> HIDE DEF n
<1>5. buf' \in Seq(Event) /\ Len(buf') = n
  BY <1>2, <1>3, <1>4, SubSeqProperties
<1>6. /\ queue' \in Seq(Event)
      /\ Len(queue') = IF n + 1 <= Len(queue) THEN Len(queue) - n ELSE 0
  BY <1>2, <1>3, <1>4, SubSeqProperties
<1> QED BY <1>1, <1>2, <1>3, <1>5, <1>6, PenAssumption

\* The counter of polls starts in its range and stays there.
LEMMA Polls ==
  /\ 0 \in 0 .. WAIT_CAP /\ 1 \in 0 .. WAIT_CAP
  /\ \A k \in 0 .. WAIT_CAP : min(k + 1, WAIT_CAP) \in 0 .. WAIT_CAP
BY PenAssumption DEF WAIT_CAP, min

LEMMA InitInv == Init => Inv
<1> SUFFICES ASSUME Init PROVE Inv
  OBVIOUS
<1>1. pen \in PenState
  BY PenAssumption DEF Init, PenState, Tools
<1>2. hw \in HwState /\ missed \in {"nobody", "open", "kernel", "reader"}
  BY DEF Init, Found
<1>3. /\ queue \in Seq(Event) /\ Len(queue) <= QLEN
      /\ buf \in Seq(Event)
  BY EmptySeq, PenAssumption DEF Init
<1>4. pc = "idle" /\ call = "none" /\ nonblock = FALSE /\ ret = "none" /\ failed = FALSE
      /\ waits = 0 /\ fill = 0
  BY DEF Init
<1>5. TypeOK
  <2>1. fill \in 0 .. FRAME
    BY <1>4, PenAssumption
  <2> QED BY <1>1, <1>2, <1>3, <1>4, <2>1, Polls DEF TypeOK
<1>6. pen.in_proximity = FALSE
  BY DEF Init
<1> QED BY <1>4, <1>5, <1>6 DEF Inv, ReadNeverBlocks, ProximityHasTool

\* Every step keeps the invariant.
LEMMA StepInv == Inv /\ [Next]_vars => Inv'
<1> SUFFICES ASSUME Inv, [Next]_vars PROVE Inv'
  OBVIOUS
<1>0. TypeOK
  BY DEF Inv
<1>1. ASSUME NEW c \in Codes, NEW v \in Abs \union {0, 1}, Report(c, v) PROVE Inv'
  <2>1. [code |-> c, value |-> v] \in Event /\ hw' \in HwState
    BY <1>0, <1>1, ReportType DEF Report
  <2>2. /\ queue' \in Seq(Event) /\ Len(queue') <= QLEN
        /\ queue' # <<>>
        /\ missed' \in {"nobody", "open", "kernel", "reader"}
    BY <1>0, <1>1, <2>1, EnqueueType DEF Report
  <2>3. fill' \in 0 .. FRAME
    BY <1>0, <1>1, PenAssumption DEF Report, TypeOK
  <2> QED BY <1>1, <2>1, <2>2, <2>3
          DEF Report, Inv, TypeOK, ReadNeverBlocks, ProximityHasTool, reader
<1>2. CASE EndFrame
  <2>1. Syn \in Event
    BY DEF Event
  <2>2. /\ queue' \in Seq(Event) /\ Len(queue') <= QLEN
        /\ queue' # <<>>
        /\ missed' \in {"nobody", "open", "kernel", "reader"}
    BY <1>0, <1>2, <2>1, EnqueueType DEF EndFrame
  <2>3. fill' \in 0 .. FRAME
    BY <1>2, PenAssumption DEF EndFrame
  <2> QED BY <1>2, <2>2, <2>3
          DEF EndFrame, Inv, TypeOK, ReadNeverBlocks, ProximityHasTool, reader
<1>3. ASSUME NEW n \in BOOLEAN, set_nonblocking(n) PROVE Inv'
  BY <1>3 DEF set_nonblocking, Inv, TypeOK, ReadNeverBlocks, ProximityHasTool, kernel
<1>4. ASSUME NEW c \in {"read", "next", "poll_once"}, Start(c) PROVE Inv'
  BY <1>4, Polls DEF Start, Inv, TypeOK, ReadNeverBlocks, ProximityHasTool, kernel
<1>5. CASE poll_signal
  BY <1>5, Polls DEF poll_signal, Fail, Told, Leave, Inv, TypeOK, ReadNeverBlocks, ProximityHasTool, kernel
<1>6. CASE read_error
  BY <1>6, Polls DEF read_error, Fail, Told, Leave, Inv, TypeOK, ReadNeverBlocks, ProximityHasTool, kernel
<1>7. CASE poll_ready
  BY <1>7 DEF poll_ready, Inv, TypeOK, ReadNeverBlocks, ProximityHasTool, kernel
<1>8. CASE poll_timeout
  BY <1>8, Polls DEF poll_timeout, Return, Leave, Inv, TypeOK, ReadNeverBlocks, ProximityHasTool, kernel
<1>9. CASE read_chunk
  BY <1>0, <1>9, ChunkType
  DEF read_chunk, Inv, TypeOK, ReadNeverBlocks, ProximityHasTool
<1>10. CASE read_again
  BY <1>10, Polls DEF read_again, Return, Leave, Inv, TypeOK, ReadNeverBlocks, ProximityHasTool, kernel
<1>11. CASE apply_event
  <2>1. Head(buf) \in Event /\ Tail(buf) \in Seq(Event)
    BY <1>11, HeadTailProperties DEF Inv, TypeOK, apply_event
  <2>2. pen' \in PenState /\ ProximityHasTool'
    BY <1>11, <2>1, ApplyType DEF Inv, TypeOK, apply_event, ProximityHasTool
  <2>3. pc' \in {"apply", "read", "repoll"} /\ (pc' = "apply" => buf' # <<>>)
    BY <1>11 DEF apply_event
  <2>4. ReadNeverBlocks'
    BY <1>11 DEF apply_event, ReadNeverBlocks
  <2>5. waits' \in 0 .. WAIT_CAP
    BY <1>11, Polls DEF apply_event, Inv, TypeOK
  <2> QED BY <1>11, <2>1, <2>2, <2>3, <2>4, <2>5 DEF apply_event, Inv, TypeOK, kernel
<1>12. CASE deliver
  <2>1. buf' \in Seq(Event)
    BY <1>12, EmptySeq DEF deliver
  <2> QED BY <1>12, <2>1, Polls
          DEF deliver, Return, Leave, Inv, TypeOK, ReadNeverBlocks, ProximityHasTool, kernel
<1>13. CASE UNCHANGED vars
  BY <1>13 DEF vars, Inv, TypeOK, ReadNeverBlocks, ProximityHasTool
<1>14. CASE read_eof
  BY <1>14, Polls DEF read_eof, Fail, Leave, Inv, TypeOK, ReadNeverBlocks, ProximityHasTool, kernel
<1> QED BY <1>1, <1>2, <1>3, <1>4, <1>5, <1>6, <1>7, <1>8, <1>9, <1>10, <1>11,
           <1>12, <1>13, <1>14 DEF Next, Reader

LEMMA Invariance == Spec => []Inv
BY InitInv, StepInv, PTL DEF Spec

\* The fields, the buffer and the kernel's queue keep their shape, and the
\* queue its bound.
THEOREM TypeCorrect == Spec => []TypeOK
<1>1. Inv => TypeOK
  BY DEF Inv
<1> QED BY <1>1, Invariance, PTL

\* read() and the iterator enter the blocking read(2) only with something to
\* read, whatever chunks a frame is split into (Pen::read).
THEOREM ReadOnlyWhenReadable == Spec => []ReadNeverBlocks
<1>1. Inv => ReadNeverBlocks
  BY DEF Inv
<1> QED BY <1>1, Invariance, PTL

\* A pen in proximity has a tool, whatever tools come and go and whatever
\* events are missed (Pen::apply).
THEOREM ProximityNamesTool == Spec => []ProximityHasTool
<1>1. Inv => ProximityHasTool
  BY DEF Inv
<1> QED BY <1>1, Invariance, PTL

-----------------------------------------------------------------------------
(* Nothing is lost: what the fields, the chunk and the queue hold together. *)

\* The fields, one event after the other.
Run(w, st) == /\ st \in [0 .. Len(w) -> PenState]
              /\ \A i \in 1 .. Len(w) : st[i] = apply(st[i - 1], w[i])

\* The places of the m SYN_REPORTs of w, in order.
Marks(w, at, m) == /\ at \in [1 .. m -> 1 .. Len(w)]
                   /\ \A j, k \in 1 .. m : j < k => at[j] < at[k]
                   /\ \A i \in 1 .. Len(w) : w[i] = Syn <=> \E k \in 1 .. m : at[k] = i

\* Fields that say what the digitizer has reported.
Agrees(st, h) == /\ st.last_bx = h.bx /\ st.last_by = h.by
                 /\ st.last_pressure = h.pressure /\ st.tool = h.tool
                 /\ st.in_proximity = (h.tool # "None")
                 /\ st.touch = h.touch /\ st.s = h.s
                 /\ h.bx >= 0 \/ h.by >= 0 => st.have_xy = TRUE

\* From fields p the events of w lead through the frames d to what h says.
Leads(w, p, d, h, st, at) ==
  /\ Run(w, st) /\ st[0] = p /\ Agrees(st[Len(w)], h)
  /\ Marks(w, at, Len(d)) /\ \A k \in 1 .. Len(d) : d[k] = snapshot(st[at[k]])

Shown(w, p, d, h) == \E st, at : Leads(w, p, d, h, st, at)

Frames == {snapshot(st) : st \in PenState}

\* What TLC checks of the calls' results is not inductive: it says nothing of
\* the frames after the first, nor of events between frames.
LostInv == /\ due \in Seq(Frames)
           /\ missed # "nobody" => due = <<>>
           /\ pc # "apply" => buf = <<>>
           /\ missed = "nobody" => Shown(buf \o queue, pen, due, hw)

\* Folding is well defined: it goes through the states of a run.
LEMMA FoldedIs ==
  ASSUME NEW w \in Seq(Event), NEW st, Run(w, st)
  PROVE  Folded(st[0], w) = st[Len(w)]
<1> DEFINE D == 0 .. Len(w)
           Rec(f) == f = [n \in D |-> IF n = 0 THEN st[0] ELSE apply(f[n - 1], w[n])]
           g == CHOOSE f : Rec(f)
<1>1. Folded(st[0], w) = g[Len(w)]
  BY Zenon DEF Folded
<1>2. Rec(st)
  <2>1. ASSUME NEW n \in D PROVE st[n] = IF n = 0 THEN st[0] ELSE apply(st[n - 1], w[n])
    BY DEF Run
  <2>2. st = [n \in D |-> st[n]]
    BY DEF Run
  <2> QED BY <2>1, <2>2
<1>3. Rec(g)
  BY <1>2, Zenon
<1> HIDE DEF g
<1>4. g[0] = st[0] /\ \A n \in 1 .. Len(w) : g[n] = apply(g[n - 1], w[n])
  <2>1. Len(w) \in Nat
    OBVIOUS
  <2>2. 0 \in D /\ \A n \in 1 .. Len(w) : n \in D /\ n # 0
    BY <2>1
  <2>3. \A n \in D : g[n] = IF n = 0 THEN st[0] ELSE apply(g[n - 1], w[n])
    BY <1>3, Zenon
  <2> QED BY <2>2, <2>3
<1> DEFINE I == {n \in D : g[n] = st[n]}
<1>5. 0 \in I /\ \A n \in 0 .. Len(w) - 1 : n \in I => n + 1 \in I
  <2>1. Len(w) \in Nat
    OBVIOUS
  <2>2. ASSUME NEW n \in 0 .. Len(w) - 1, g[n] = st[n]
        PROVE  g[n + 1] = st[n + 1]
    <3>1. n + 1 \in 1 .. Len(w) /\ (n + 1) - 1 = n
      BY <2>1
    <3> QED BY <1>4, <2>2, <3>1 DEF Run
  <2> QED BY <1>4, <2>1, <2>2
<1>6. D \subseteq I
  <2> HIDE DEF I
  <2> QED BY <1>5, StepByStep
<1>7. Len(w) \in D
  OBVIOUS
<1> QED BY <1>1, <1>6, <1>7

\* A run over one more event.
LEMMA RunAppend ==
  ASSUME NEW w \in Seq(Event), NEW ev \in Event, NEW st, Run(w, st)
  PROVE  LET n == Len(w)
             nx == [i \in 0 .. n + 1 |-> IF i <= n THEN st[i] ELSE apply(st[n], ev)]
         IN  Run(Append(w, ev), nx) /\ \A i \in 0 .. n : nx[i] = st[i]
<1> DEFINE n == Len(w)
           v == Append(w, ev)
           nx == [i \in 0 .. n + 1 |-> IF i <= n THEN st[i] ELSE apply(st[n], ev)]
<1>1. /\ n \in Nat /\ Len(v) = n + 1
      /\ v[n + 1] = ev /\ \A i \in 1 .. n : v[i] = w[i]
  BY AppendProperties
<1>2. st \in [0 .. n -> PenState] /\ \A i \in 1 .. n : st[i] = apply(st[i - 1], w[i])
  BY DEF Run
<1> HIDE DEF n, v
<1>3. apply(st[n], ev) \in PenState
  BY <1>1, <1>2, ApplyType
<1>4. nx \in [0 .. n + 1 -> PenState]
  BY <1>1, <1>2, <1>3
<1>5. ASSUME NEW i \in 1 .. n + 1
      PROVE  nx[i] = apply(nx[i - 1], v[i])
  <2>1. i - 1 \in 0 .. n /\ i \in 0 .. n + 1 /\ nx[i - 1] = st[i - 1]
    BY <1>1
  <2>2. CASE i <= n
    BY <1>1, <1>2, <2>1, <2>2
  <2>3. CASE i = n + 1
    BY <1>1, <2>1, <2>3
  <2> QED BY <1>1, <2>2, <2>3
<1>6. \A i \in 0 .. n : nx[i] = st[i]
  BY <1>1
<1> HIDE DEF nx
<1>7. Run(v, nx)
  BY <1>1, <1>4, <1>5 DEF Run
<1> QED BY <1>6, <1>7 DEF n, v, nx

\* A run without its first event.
LEMMA RunTail ==
  ASSUME NEW w \in Seq(Event), w # <<>>, NEW st, Run(w, st)
  PROVE  LET nx == [i \in 0 .. Len(w) - 1 |-> st[i + 1]]
         IN  Run(Tail(w), nx)
<1> DEFINE n == Len(w)
           v == Tail(w)
           nx == [i \in 0 .. n - 1 |-> st[i + 1]]
<1>1. /\ n \in Nat \ {0} /\ Len(v) = n - 1
      /\ \A i \in 1 .. n - 1 : v[i] = w[i + 1]
  BY HeadTailProperties, EmptySeq
<1>2. st \in [0 .. n -> PenState] /\ \A i \in 1 .. n : st[i] = apply(st[i - 1], w[i])
  BY DEF Run
<1> HIDE DEF n, v
<1>3. nx \in [0 .. n - 1 -> PenState]
  BY <1>1, <1>2
<1>4. ASSUME NEW i \in 1 .. n - 1
      PROVE  nx[i] = apply(nx[i - 1], v[i])
  <2>1. nx[i] = st[i + 1] /\ nx[i - 1] = st[(i - 1) + 1] /\ (i - 1) + 1 = i
    BY <1>1
  <2>2. i + 1 \in 1 .. n /\ (i + 1) - 1 = i
    BY <1>1
  <2>3. st[i + 1] = apply(st[i], w[i + 1])
    BY <1>2, <2>2
  <2> QED BY <1>1, <2>1, <2>3
<1> HIDE DEF nx
<1>5. Run(v, nx)
  BY <1>1, <1>3, <1>4 DEF Run
<1> QED BY <1>5 DEF n, v, nx

\* A SYN_REPORT changes no field.
LEMMA ApplySyn ==
  ASSUME NEW st \in PenState
  PROVE  apply(st, Syn) = st
<1>1. [b \in Buttons |-> IF "SYN_REPORT" = b THEN 0 # 0 ELSE st.s[b]] = st.s
  <2>1. st.s \in [Buttons -> BOOLEAN] /\ \A b \in Buttons : "SYN_REPORT" # b
    BY DEF PenState, Buttons
  <2> QED BY <2>1
<1>2. apply(st, Syn) =
        [st EXCEPT !.last_bx = st.last_bx, !.last_by = st.last_by, !.have_xy = st.have_xy,
                   !.last_pressure = st.last_pressure, !.in_proximity = st.in_proximity,
                   !.tool = st.tool, !.touch = st.touch, !.s = st.s]
  <2>1. st.have_xy \/ FALSE <=> st.have_xy
    OBVIOUS
  <2> QED BY <1>1, <2>1 DEF apply, Syn, ToolCodes, PenState
<1> QED BY <1>2 DEF PenState

\* An event keeps the fields in step with the digitizer that reported it.
LEMMA ApplyAgrees ==
  ASSUME TypeOK, NEW c \in Codes, NEW v, Change(c, v),
         NEW st \in PenState, Agrees(st, hw)
  PROVE  Agrees(apply(st, [code |-> c, value |-> v]), After(c, v))
<1> DEFINE ev == [code |-> c, value |-> v]
<1>1. ev \in Event /\ After(c, v) \in HwState /\ apply(st, ev) \in PenState /\ hw \in HwState
  BY ReportType, ApplyType DEF TypeOK
<1>2. ev.code = c /\ ev.value = v
  OBVIOUS
<1> HIDE DEF ev
<1>3. ASSUME c \in AbsCodes PROVE Agrees(apply(st, ev), After(c, v))
  <2>1. v \in Abs /\ v >= 0
    <3>1. c \notin ToolCodes /\ c # "BTN_TOUCH" /\ c \notin Buttons
      BY <1>3 DEF AbsCodes, ToolCodes, Buttons
    <3>2. v \in Abs
      BY <3>1, Zenon DEF Change
    <3> QED BY <3>2, PenAssumption
  <2>2. /\ After(c, v).tool = hw.tool /\ After(c, v).touch = hw.touch
        /\ After(c, v).s = hw.s
        /\ After(c, v).bx = IF c = "ABS_X" THEN v ELSE hw.bx
        /\ After(c, v).by = IF c = "ABS_Y" THEN v ELSE hw.by
        /\ After(c, v).pressure = IF c = "ABS_PRESSURE" THEN v ELSE hw.pressure
    <3>1. [b \in Buttons |-> IF c = b THEN v = 1 ELSE hw.s[b]] = hw.s
      BY <1>1, <1>3 DEF HwState, AbsCodes, Buttons
    <3> QED BY <1>1, <1>3, <3>1 DEF After, HwState, AbsCodes, ToolCodes
  <2>3. /\ apply(st, ev).tool = st.tool /\ apply(st, ev).touch = st.touch
        /\ apply(st, ev).in_proximity = st.in_proximity
        /\ apply(st, ev).s = st.s
        /\ apply(st, ev).last_bx = IF c = "ABS_X" THEN v ELSE st.last_bx
        /\ apply(st, ev).last_by = IF c = "ABS_Y" THEN v ELSE st.last_by
        /\ apply(st, ev).last_pressure = IF c = "ABS_PRESSURE" THEN v ELSE st.last_pressure
        /\ apply(st, ev).have_xy = (st.have_xy \/ c \in {"ABS_X", "ABS_Y"})
    <3>1. [b \in Buttons |-> IF c = b THEN v # 0 ELSE st.s[b]] = st.s
      BY <1>3 DEF PenState, AbsCodes, Buttons
    <3> QED BY <1>2, <1>3, <3>1 DEF apply, PenState, AbsCodes, ToolCodes
  <2>4. /\ c \in {"ABS_X", "ABS_Y"} => apply(st, ev).have_xy = TRUE
        /\ st.have_xy = TRUE => apply(st, ev).have_xy = TRUE
    BY <2>3
  <2>5. After(c, v).bx >= 0 \/ After(c, v).by >= 0 => apply(st, ev).have_xy = TRUE
    <3>1. CASE c \in {"ABS_X", "ABS_Y"}
      BY <2>4, <3>1
    <3>2. CASE c \notin {"ABS_X", "ABS_Y"}
      BY <2>2, <2>4, <3>2 DEF Agrees
    <3> QED BY <3>1, <3>2
  <2>6. /\ apply(st, ev).last_bx = After(c, v).bx /\ apply(st, ev).last_by = After(c, v).by
        /\ apply(st, ev).last_pressure = After(c, v).pressure
    BY <2>2, <2>3 DEF Agrees
  <2>7. /\ apply(st, ev).tool = After(c, v).tool
        /\ apply(st, ev).in_proximity = (After(c, v).tool # "None")
        /\ apply(st, ev).touch = After(c, v).touch /\ apply(st, ev).s = After(c, v).s
    BY <2>2, <2>3 DEF Agrees
  <2> QED BY <2>5, <2>6, <2>7 DEF Agrees
<1>4. ASSUME c \notin AbsCodes PROVE Agrees(apply(st, ev), After(c, v))
  <2>1. v \in {0, 1} /\ c \in ToolCodes \union Buttons \union {"BTN_TOUCH"}
    BY <1>4, PenAssumption DEF Change, AbsCodes, ToolCodes, Buttons
  <2>2. /\ After(c, v).bx = hw.bx /\ After(c, v).by = hw.by
        /\ After(c, v).pressure = hw.pressure
        /\ After(c, v).tool = IF c \in ToolCodes THEN IF v = 1 THEN ToolOf[c] ELSE "None"
                              ELSE hw.tool
        /\ After(c, v).touch = IF c = "BTN_TOUCH" THEN v = 1 ELSE hw.touch
        /\ After(c, v).s = [b \in Buttons |-> IF c = b THEN v = 1 ELSE hw.s[b]]
    BY <1>1, <1>4 DEF After, HwState, AbsCodes
  <2>3. /\ apply(st, ev).last_bx = st.last_bx /\ apply(st, ev).last_by = st.last_by
        /\ apply(st, ev).last_pressure = st.last_pressure
        /\ apply(st, ev).have_xy = (st.have_xy \/ FALSE)
        /\ apply(st, ev).in_proximity = IF c \in ToolCodes THEN v # 0 ELSE st.in_proximity
        /\ apply(st, ev).tool = IF c \in ToolCodes
                                  THEN IF v # 0 THEN ToolOf[c]
                                       ELSE IF st.tool = ToolOf[c] THEN "None" ELSE st.tool
                                  ELSE st.tool
        /\ apply(st, ev).touch = IF c = "BTN_TOUCH" THEN v # 0 ELSE st.touch
        /\ apply(st, ev).s = [b \in Buttons |-> IF c = b THEN v # 0 ELSE st.s[b]]
    BY <1>2, <1>4 DEF apply, PenState, AbsCodes
  <2>4. (v # 0) = (v = 1)
    BY <2>1
  <2>5. c \in ToolCodes => /\ ToolOf[c] # "None"
                           /\ v = 0 => hw.tool = ToolOf[c]
    BY <2>1 DEF Change, AbsCodes, ToolCodes, ToolOf, Buttons
  <2>6. apply(st, ev).s = After(c, v).s
    BY <2>2, <2>3, <2>4 DEF Agrees
  <2>7. apply(st, ev).tool = After(c, v).tool
    BY <2>1, <2>2, <2>3, <2>5 DEF Agrees
  <2>8. apply(st, ev).in_proximity = (After(c, v).tool # "None")
    BY <2>1, <2>2, <2>3, <2>5 DEF Agrees
  <2>9. apply(st, ev).touch = After(c, v).touch
    BY <2>1, <2>2, <2>3 DEF Agrees
  <2>10. st.have_xy = TRUE => apply(st, ev).have_xy = TRUE
    BY <2>3
  <2>11. After(c, v).bx >= 0 \/ After(c, v).by >= 0 => apply(st, ev).have_xy = TRUE
    BY <2>2, <2>10 DEF Agrees
  <2>12. /\ apply(st, ev).last_bx = After(c, v).bx /\ apply(st, ev).last_by = After(c, v).by
         /\ apply(st, ev).last_pressure = After(c, v).pressure
    BY <2>2, <2>3 DEF Agrees
  <2> QED BY <2>6, <2>7, <2>8, <2>9, <2>11, <2>12 DEF Agrees
<1> QED BY <1>3, <1>4 DEF ev

\* Fields that agree with the digitizer make the PenEvent they should.
LEMMA AgreesShows ==
  ASSUME NEW st \in PenState, hw \in HwState, Agrees(st, hw)
  PROVE  snapshot(st) = Reported
<1>1. hw.bx >= 0 /\ hw.by >= 0 => st.have_xy
  BY PenAssumption DEF Agrees, HwState
<1>2. Position(st.last_bx, st.last_by, st.have_xy) = Position(hw.bx, hw.by, TRUE)
  BY <1>1 DEF Position, Agrees
<1> QED BY <1>2 DEF snapshot, Reported, Agrees

\* The marks when an event, or a SYN_REPORT, joins the queue.
LEMMA MarksAppend ==
  ASSUME NEW w \in Seq(Event), NEW ev \in Event, NEW m \in Nat, NEW at, Marks(w, at, m)
  PROVE  LET nx == [k \in 1 .. m + 1 |-> IF k <= m THEN at[k] ELSE Len(w) + 1]
         IN  /\ ev # Syn => Marks(Append(w, ev), at, m)
             /\ ev = Syn => Marks(Append(w, ev), nx, m + 1)
<1> DEFINE n == Len(w)
           v == Append(w, ev)
           nx == [k \in 1 .. m + 1 |-> IF k <= m THEN at[k] ELSE n + 1]
<1>1. /\ n \in Nat /\ Len(v) = n + 1
      /\ v[n + 1] = ev /\ \A i \in 1 .. n : v[i] = w[i]
  BY AppendProperties
<1>2. /\ at \in [1 .. m -> 1 .. n]
      /\ \A j, k \in 1 .. m : j < k => at[j] < at[k]
      /\ \A i \in 1 .. n : w[i] = Syn <=> \E k \in 1 .. m : at[k] = i
  BY DEF Marks
<1> HIDE DEF n, v
<1>3. ASSUME ev # Syn
      PROVE  Marks(v, at, m)
  <2>1. at \in [1 .. m -> 1 .. n + 1]
    BY <1>1, <1>2
  <2>2. ASSUME NEW i \in 1 .. n + 1
        PROVE  v[i] = Syn <=> \E k \in 1 .. m : at[k] = i
    <3>1. CASE i \in 1 .. n
      BY <1>1, <1>2, <3>1
    <3>2. CASE i = n + 1
      BY <1>1, <1>2, <1>3, <3>2
    <3> QED BY <1>1, <3>1, <3>2
  <2> QED BY <1>1, <1>2, <2>1, <2>2 DEF Marks
<1>4. ASSUME ev = Syn
      PROVE  Marks(v, nx, m + 1)
  <2>1. nx \in [1 .. m + 1 -> 1 .. n + 1]
    BY <1>1, <1>2
  <2>2. /\ \A k \in 1 .. m : nx[k] = at[k] /\ at[k] \in 1 .. n
        /\ nx[m + 1] = n + 1
    BY <1>2
  <2> HIDE DEF nx
  <2>3. ASSUME NEW j \in 1 .. m + 1, NEW k \in 1 .. m + 1, j < k
        PROVE  nx[j] < nx[k]
    <3>1. j \in 1 .. m
      BY <2>3
    <3>2. CASE k \in 1 .. m
      BY <1>2, <2>2, <2>3, <3>1, <3>2
    <3>3. CASE k = m + 1
      BY <1>1, <2>2, <3>1, <3>3
    <3> QED BY <3>2, <3>3
  <2>4. ASSUME NEW i \in 1 .. n + 1
        PROVE  v[i] = Syn <=> \E k \in 1 .. m + 1 : nx[k] = i
    <3>1. CASE i \in 1 .. n
      <4>1. v[i] = Syn <=> \E k \in 1 .. m : at[k] = i
        BY <1>1, <1>2, <3>1
      <4>2. \A k \in 1 .. m + 1 : k \in 1 .. m \/ nx[k] # i
        BY <1>1, <2>2, <3>1
      <4>3. \A k \in 1 .. m : k \in 1 .. m + 1
        OBVIOUS
      <4> QED BY <2>2, <4>1, <4>2, <4>3
    <3>2. CASE i = n + 1
      BY <1>1, <1>4, <2>2, <3>2
    <3> QED BY <1>1, <3>1, <3>2
  <2> QED BY <1>1, <2>1, <2>3, <2>4 DEF Marks
<1> QED BY <1>3, <1>4 DEF n, v

\* The marks when the first event, or the first SYN_REPORT, has been taken.
LEMMA MarksTail ==
  ASSUME NEW w \in Seq(Event), w # <<>>, NEW m \in Nat, NEW at, Marks(w, at, m)
  PROVE  /\ w[1] # Syn => Marks(Tail(w), [k \in 1 .. m |-> at[k] - 1], m)
         /\ w[1] = Syn => /\ m > 0 /\ at[1] = 1
                          /\ Marks(Tail(w), [k \in 1 .. m - 1 |-> at[k + 1] - 1], m - 1)
<1> DEFINE n == Len(w)
           v == Tail(w)
<1>1. /\ n \in Nat \ {0} /\ Len(v) = n - 1
      /\ \A i \in 1 .. n - 1 : v[i] = w[i + 1]
  BY HeadTailProperties, EmptySeq
<1>2. /\ at \in [1 .. m -> 1 .. n]
      /\ \A j, k \in 1 .. m : j < k => at[j] < at[k]
      /\ \A i \in 1 .. n : w[i] = Syn <=> \E k \in 1 .. m : at[k] = i
  BY DEF Marks
<1> HIDE DEF n, v
<1>3. ASSUME w[1] # Syn
      PROVE  Marks(v, [k \in 1 .. m |-> at[k] - 1], m)
  <2> DEFINE nx == [k \in 1 .. m |-> at[k] - 1]
  <2>1. \A k \in 1 .. m : at[k] \in 2 .. n
    BY <1>1, <1>2, <1>3
  <2>2. nx \in [1 .. m -> 1 .. n - 1] /\ \A k \in 1 .. m : nx[k] = at[k] - 1
    BY <1>1, <2>1
  <2> HIDE DEF nx
  <2>3. \A j, k \in 1 .. m : j < k => nx[j] < nx[k]
    BY <1>2, <2>1, <2>2
  <2>4. ASSUME NEW i \in 1 .. n - 1
        PROVE  v[i] = Syn <=> \E k \in 1 .. m : nx[k] = i
    <3>1. v[i] = Syn <=> \E k \in 1 .. m : at[k] = i + 1
      <4>1. i + 1 \in 1 .. n /\ v[i] = w[i + 1]
        BY <1>1
      <4>2. w[i + 1] = Syn <=> \E k \in 1 .. m : at[k] = i + 1
        BY <1>2, <4>1
      <4> QED BY <4>1, <4>2
    <3>2. \A k \in 1 .. m : nx[k] = i <=> at[k] = i + 1
      BY <2>1, <2>2
    <3> QED BY <3>1, <3>2
  <2> QED BY <1>1, <2>2, <2>3, <2>4 DEF Marks, nx
<1>4. ASSUME w[1] = Syn
      PROVE  /\ m > 0 /\ at[1] = 1
             /\ Marks(v, [k \in 1 .. m - 1 |-> at[k + 1] - 1], m - 1)
  <2> DEFINE nx == [k \in 1 .. m - 1 |-> at[k + 1] - 1]
  <2>1. PICK z \in 1 .. m : at[z] = 1
    BY <1>1, <1>2, <1>4
  <2>2. m > 0 /\ at[1] = 1
    <3>1. z > 1 => at[1] < at[z] /\ at[1] \in 1 .. n
      BY <1>2
    <3> QED BY <2>1, <3>1
  <2>3. \A k \in 1 .. m - 1 : k + 1 \in 1 .. m /\ at[k + 1] \in 2 .. n
    BY <1>1, <1>2, <2>2
  <2>4. nx \in [1 .. m - 1 -> 1 .. n - 1] /\ \A k \in 1 .. m - 1 : nx[k] = at[k + 1] - 1
    BY <1>1, <2>3
  <2> HIDE DEF nx
  <2>5. ASSUME NEW j \in 1 .. m - 1, NEW k \in 1 .. m - 1, j < k
        PROVE  nx[j] < nx[k]
    <3>1. at[j + 1] < at[k + 1]
      BY <1>2, <2>3, <2>5
    <3> QED BY <2>3, <2>4, <3>1
  <2>6. ASSUME NEW i \in 1 .. n - 1
        PROVE  v[i] = Syn <=> \E k \in 1 .. m - 1 : nx[k] = i
    <3>1. v[i] = Syn <=> \E k \in 1 .. m : at[k] = i + 1
      <4>1. i + 1 \in 1 .. n /\ v[i] = w[i + 1]
        BY <1>1
      <4>2. w[i + 1] = Syn <=> \E k \in 1 .. m : at[k] = i + 1
        BY <1>2, <4>1
      <4> QED BY <4>1, <4>2
    <3>2. ASSUME NEW k \in 1 .. m, at[k] = i + 1
          PROVE  k - 1 \in 1 .. m - 1 /\ nx[k - 1] = i
      <4>1. k # 1
        BY <2>2, <3>2
      <4>2. k - 1 \in 1 .. m - 1 /\ (k - 1) + 1 = k
        BY <4>1
      <4> QED BY <2>4, <3>2, <4>2
    <3>3. ASSUME NEW k \in 1 .. m - 1, nx[k] = i
          PROVE  k + 1 \in 1 .. m /\ at[k + 1] = i + 1
      BY <2>3, <2>4, <3>3
    <3> QED BY <3>1, <3>2, <3>3
  <2>7. Marks(v, nx, m - 1)
    BY <1>1, <2>4, <2>5, <2>6 DEF Marks
  <2> QED BY <2>2, <2>7 DEF nx
<1> QED BY <1>3, <1>4 DEF v

\* The digitizer reports an event.
LEMMA ShownReport ==
  ASSUME NEW w \in Seq(Event), NEW ev \in Event, ev # Syn, NEW p, NEW d \in Seq(Frames),
         NEW h, NEW h2, Shown(w, p, d, h),
         \A st \in PenState : Agrees(st, h) => Agrees(apply(st, ev), h2)
  PROVE  Shown(Append(w, ev), p, d, h2)
<1>1. PICK st, at : Leads(w, p, d, h, st, at)
  BY DEF Shown
<1> DEFINE n == Len(w)
           v == Append(w, ev)
           nx == [i \in 0 .. n + 1 |-> IF i <= n THEN st[i] ELSE apply(st[n], ev)]
<1>2. n \in Nat /\ Len(v) = n + 1 /\ Len(d) \in Nat
  BY AppendProperties
<1>3. /\ Run(w, st) /\ st[0] = p /\ Agrees(st[n], h)
      /\ Marks(w, at, Len(d)) /\ \A k \in 1 .. Len(d) : d[k] = snapshot(st[at[k]])
  BY <1>1 DEF Leads
<1>4. Run(v, nx) /\ (\A i \in 0 .. n : nx[i] = st[i]) /\ nx[n + 1] = apply(st[n], ev)
  BY <1>2, <1>3, RunAppend
<1>5. Marks(v, at, Len(d))
  BY <1>2, <1>3, MarksAppend
<1> HIDE DEF nx
<1>6. nx[0] = p /\ Agrees(nx[n + 1], h2)
  BY <1>2, <1>3, <1>4 DEF Run
<1>7. \A k \in 1 .. Len(d) : d[k] = snapshot(nx[at[k]])
  <2>1. \A k \in 1 .. Len(d) : at[k] \in 0 .. n
    BY <1>2, <1>3 DEF Marks
  <2> QED BY <1>3, <1>4, <2>1
<1> HIDE DEF n, v
<1>8. Leads(v, p, d, h2, nx, at)
  BY <1>2, <1>4, <1>5, <1>6, <1>7 DEF Leads
<1> QED BY <1>8 DEF Shown, v

\* The digitizer ends a frame.
LEMMA ShownEnd ==
  ASSUME NEW w \in Seq(Event), NEW p, NEW d \in Seq(Frames), NEW h, NEW f,
         Shown(w, p, d, h), \A st \in PenState : Agrees(st, h) => snapshot(st) = f
  PROVE  f \in Frames /\ Shown(Append(w, Syn), p, Append(d, f), h)
<1>1. PICK st, at : Leads(w, p, d, h, st, at)
  BY DEF Shown
<1> DEFINE n == Len(w)
           m == Len(d)
           v == Append(w, Syn)
           e == Append(d, f)
           nx == [i \in 0 .. n + 1 |-> IF i <= n THEN st[i] ELSE apply(st[n], Syn)]
           ns == [k \in 1 .. m + 1 |-> IF k <= m THEN at[k] ELSE n + 1]
<1>2. /\ Run(w, st) /\ st[0] = p /\ Agrees(st[n], h)
      /\ Marks(w, at, m) /\ \A k \in 1 .. m : d[k] = snapshot(st[at[k]])
  BY <1>1 DEF Leads
<1>3. Syn \in Event
  BY DEF Event
<1>4. n \in Nat /\ Len(v) = n + 1 /\ m \in Nat
  BY <1>3, AppendProperties
<1>5. st[n] \in PenState /\ snapshot(st[n]) = f
  BY <1>2, <1>4 DEF Run
<1>6. f \in Frames
  BY <1>5 DEF Frames
<1>7. Len(e) = m + 1 /\ e[m + 1] = f /\ \A k \in 1 .. m : e[k] = d[k]
  BY <1>6, AppendProperties
<1>8. Run(v, nx) /\ (\A i \in 0 .. n : nx[i] = st[i]) /\ nx[n + 1] = st[n]
  BY <1>2, <1>3, <1>4, <1>5, RunAppend, ApplySyn
<1>9. Marks(v, ns, m + 1) /\ ns[m + 1] = n + 1 /\ \A k \in 1 .. m : ns[k] = at[k]
  <2>1. Marks(v, ns, m + 1)
    BY <1>2, <1>3, <1>4, MarksAppend
  <2>2. ns[m + 1] = n + 1 /\ \A k \in 1 .. m : ns[k] = at[k]
    BY <1>4
  <2> QED BY <2>1, <2>2
<1> HIDE DEF nx, ns
<1>10. nx[0] = p /\ Agrees(nx[n + 1], h)
  BY <1>2, <1>4, <1>8
<1>11. ASSUME NEW k \in 1 .. m + 1
       PROVE  e[k] = snapshot(nx[ns[k]])
  <2>1. CASE k \in 1 .. m
    <3>1. at[k] \in 0 .. n
      BY <1>2, <1>4, <2>1 DEF Marks
    <3> QED BY <1>2, <1>7, <1>8, <1>9, <2>1, <3>1
  <2>2. CASE k = m + 1
    BY <1>5, <1>7, <1>8, <1>9, <2>2
  <2> QED BY <1>4, <2>1, <2>2
<1> HIDE DEF n, m, v, e
<1>12. Leads(v, p, e, h, nx, ns)
  BY <1>4, <1>7, <1>8, <1>9, <1>10, <1>11 DEF Leads
<1> QED BY <1>6, <1>12 DEF Shown, v, e

\* The reader folds an event into the fields.
LEMMA ShownApply ==
  ASSUME NEW w \in Seq(Event), w # <<>>, w[1] # Syn, NEW p, NEW d \in Seq(Frames), NEW h,
         Shown(w, p, d, h)
  PROVE  Shown(Tail(w), apply(p, w[1]), d, h)
<1>1. PICK st, at : Leads(w, p, d, h, st, at)
  BY DEF Shown
<1> DEFINE n == Len(w)
           m == Len(d)
           v == Tail(w)
           nx == [i \in 0 .. n - 1 |-> st[i + 1]]
           ns == [k \in 1 .. m |-> at[k] - 1]
<1>2. /\ Run(w, st) /\ st[0] = p /\ Agrees(st[n], h)
      /\ Marks(w, at, m) /\ \A k \in 1 .. m : d[k] = snapshot(st[at[k]])
  BY <1>1 DEF Leads
<1>3. n \in Nat \ {0} /\ Len(v) = n - 1 /\ m \in Nat
  BY HeadTailProperties, EmptySeq
<1>4. Run(v, nx) /\ \A i \in 0 .. n - 1 : nx[i] = st[i + 1]
  BY <1>2, RunTail
<1>5. Marks(v, ns, m) /\ \A k \in 1 .. m : ns[k] = at[k] - 1
  BY <1>2, <1>3, MarksTail
<1> HIDE DEF nx, ns
<1>6. nx[0] = apply(p, w[1])
  <2>1. st[0 + 1] = apply(st[1 - 1], w[1])
    BY <1>2, <1>3 DEF Run
  <2> QED BY <1>2, <1>3, <1>4, <2>1
<1>7. Agrees(nx[n - 1], h)
  <2>1. (n - 1) + 1 = n /\ n - 1 \in 0 .. n - 1
    BY <1>3
  <2> QED BY <1>2, <1>4, <2>1
<1>8. ASSUME NEW k \in 1 .. m
      PROVE  d[k] = snapshot(nx[ns[k]])
  <2>1. ns[k] \in 1 .. n - 1 /\ ns[k] + 1 = at[k]
    BY <1>2, <1>3, <1>5 DEF Marks
  <2>2. nx[ns[k]] = st[ns[k] + 1]
    <3>1. ns[k] \in 0 .. n - 1
      BY <1>3, <2>1
    <3> QED BY <1>4, <3>1, Zenon
  <2> QED BY <1>2, <2>1, <2>2
<1> HIDE DEF n, m, v
<1>9. Leads(v, apply(p, w[1]), d, h, nx, ns)
  BY <1>3, <1>4, <1>5, <1>6, <1>7, <1>8 DEF Leads, m
<1> QED BY <1>9 DEF Shown, v

\* The reader comes to the end of a frame.
LEMMA ShownDeliver ==
  ASSUME NEW w \in Seq(Event), w # <<>>, w[1] = Syn, NEW p \in PenState,
         NEW d \in Seq(Frames), NEW h, Shown(w, p, d, h)
  PROVE  /\ d # <<>> /\ Head(d) = snapshot(p)
         /\ Shown(Tail(w), p, Tail(d), h)
<1>1. PICK st, at : Leads(w, p, d, h, st, at)
  BY DEF Shown
<1> DEFINE n == Len(w)
           m == Len(d)
           v == Tail(w)
           e == Tail(d)
           nx == [i \in 0 .. n - 1 |-> st[i + 1]]
           ns == [k \in 1 .. m - 1 |-> at[k + 1] - 1]
<1>2. /\ Run(w, st) /\ st[0] = p /\ Agrees(st[n], h)
      /\ Marks(w, at, m) /\ \A k \in 1 .. m : d[k] = snapshot(st[at[k]])
  BY <1>1 DEF Leads
<1>3. n \in Nat \ {0} /\ Len(v) = n - 1 /\ m \in Nat
  BY HeadTailProperties, EmptySeq
<1>4. Run(v, nx) /\ \A i \in 0 .. n - 1 : nx[i] = st[i + 1]
  BY <1>2, RunTail
<1>5. /\ m > 0 /\ at[1] = 1
      /\ Marks(v, ns, m - 1) /\ \A k \in 1 .. m - 1 : ns[k] = at[k + 1] - 1
  BY <1>2, <1>3, MarksTail
<1> HIDE DEF nx, ns
<1>6. st[1] = p
  <2>1. st[1] = apply(st[1 - 1], w[1])
    BY <1>2, <1>3 DEF Run
  <2> QED BY <1>2, <2>1, ApplySyn
<1>7. nx[0] = p
  BY <1>3, <1>4, <1>6
<1>8. /\ d # <<>> /\ Head(d) = d[1] /\ d[1] = snapshot(p)
      /\ Len(e) = m - 1 /\ \A k \in 1 .. m - 1 : e[k] = d[k + 1]
  <2>1. d # <<>>
    BY <1>5, EmptySeq
  <2>2. d[1] = snapshot(p)
    BY <1>2, <1>3, <1>5, <1>6
  <2>3. Head(d) = d[1]
    OBVIOUS
  <2> QED BY <2>1, <2>2, <2>3, HeadTailProperties
<1>9. Agrees(nx[n - 1], h)
  <2>1. (n - 1) + 1 = n /\ n - 1 \in 0 .. n - 1
    BY <1>3
  <2> QED BY <1>2, <1>4, <2>1
<1>10. ASSUME NEW k \in 1 .. m - 1
       PROVE  e[k] = snapshot(nx[ns[k]])
  <2>1. /\ k + 1 \in 1 .. m /\ ns[k] \in 1 .. n - 1
        /\ ns[k] + 1 = at[k + 1]
    <3>1. at \in [1 .. m -> 1 .. n] /\ ns \in [1 .. m - 1 -> 1 .. n - 1]
      BY <1>2, <1>3, <1>5 DEF Marks
    <3>2. k + 1 \in 1 .. m /\ k \in 1 .. m - 1
      BY <1>3
    <3> HIDE DEF n, m
    <3> QED BY <1>3, <1>5, <3>1, <3>2
  <2>2. nx[ns[k]] = st[ns[k] + 1]
    <3>1. ns[k] \in 0 .. n - 1
      BY <1>3, <2>1
    <3> QED BY <1>4, <3>1, Zenon
  <2> QED BY <1>2, <1>8, <2>1, <2>2
<1> HIDE DEF n, m, v, e
<1>11. Leads(v, p, e, h, nx, ns)
  BY <1>3, <1>4, <1>5, <1>7, <1>8, <1>9, <1>10 DEF Leads
<1> QED BY <1>8, <1>11 DEF Shown, v, e

LEMMA ConcatAppend ==
  ASSUME NEW s \in Seq(Event), NEW t \in Seq(Event), NEW ev \in Event
  PROVE  s \o Append(t, ev) = Append(s \o t, ev)
<1>1. <<ev>> \in Seq(Event) /\ s \o t \in Seq(Event)
  BY ConcatProperties
<1>2. s \o (t \o <<ev>>) = (s \o t) \o <<ev>>
  BY <1>1, ConcatAssociative
<1> QED BY <1>1, <1>2, AppendIsConcat

LEMMA ConcatTail ==
  ASSUME NEW s \in Seq(Event), s # <<>>, NEW t \in Seq(Event)
  PROVE  /\ s \o t \in Seq(Event) /\ s \o t # <<>>
         /\ (s \o t)[1] = Head(s)
         /\ Tail(s \o t) = Tail(s) \o t
<1> DEFINE w == s \o t
           u == Tail(s)
           n == Len(s)
           m == Len(t)
<1>1. /\ n \in Nat \ {0} /\ m \in Nat /\ u \in Seq(Event) /\ Len(u) = n - 1
      /\ \A i \in 1 .. n - 1 : u[i] = s[i + 1]
  BY EmptySeq, HeadTailProperties
<1>2. /\ w \in Seq(Event) /\ Len(w) = n + m
      /\ \A i \in 1 .. n + m : w[i] = IF i <= n THEN s[i] ELSE t[i - n]
  BY ConcatProperties
<1>3. w # <<>>
  BY <1>1, <1>2, EmptySeq
<1>4. w[1] = s[1] /\ s[1] = Head(s)
  BY <1>1, <1>2
<1>5. /\ Tail(w) \in Seq(Event) /\ Len(Tail(w)) = n + m - 1
      /\ \A i \in 1 .. n + m - 1 : Tail(w)[i] = w[i + 1]
  BY <1>1, <1>2, <1>3, HeadTailProperties
<1>6. /\ u \o t \in Seq(Event) /\ Len(u \o t) = (n - 1) + m
      /\ \A i \in 1 .. (n - 1) + m : (u \o t)[i] = IF i <= n - 1 THEN u[i] ELSE t[i - (n - 1)]
  <2> HIDE DEF u
  <2> QED BY <1>1, ConcatProperties
<1>7. ASSUME NEW i \in 1 .. n + m - 1
      PROVE  Tail(w)[i] = (u \o t)[i]
  <2>1. i \in 1 .. (n - 1) + m /\ i + 1 \in 1 .. n + m
    BY <1>1
  <2>2. CASE i <= n - 1
    <3>1. i \in 1 .. n - 1 /\ i + 1 <= n
      BY <1>1, <2>2
    <3> HIDE DEF u, w
    <3>2. Tail(w)[i] = s[i + 1]
      BY <1>2, <1>5, <2>1, <3>1
    <3>3. (u \o t)[i] = u[i]
      BY <1>6, <2>1, <2>2
    <3>4. u[i] = s[i + 1]
      BY <1>1, <3>1
    <3> QED BY <3>2, <3>3, <3>4
  <2>3. CASE ~(i <= n - 1)
    <3>1. ~(i + 1 <= n) /\ (i + 1) - n = i - (n - 1)
      BY <1>1, <2>3
    <3> HIDE DEF u, w
    <3>2. Tail(w)[i] = t[(i + 1) - n]
      BY <1>2, <1>5, <2>1, <3>1
    <3> QED BY <1>6, <2>1, <2>3, <3>1, <3>2
  <2> QED BY <2>2, <2>3
<1> HIDE DEF u, w
<1>8. Tail(w) = u \o t
  <2>1. Len(Tail(w)) = Len(u \o t)
    BY <1>1, <1>5, <1>6
  <2> QED BY <1>5, <1>6, <1>7, <2>1, SeqEqual
<1> QED BY <1>2, <1>3, <1>4, <1>8 DEF u, w

\* Cutting a chunk off the queue loses nothing.
LEMMA ChunkWhole ==
  ASSUME TypeOK, read_chunk
  PROVE  buf' \o queue' = queue
<1> DEFINE n == min(Chunk, Len(queue))
<1>1. queue \in Seq(Event) /\ queue # <<>> /\ Len(queue) \in Nat \ {0}
  BY EmptySeq DEF TypeOK, read_chunk
<1>2. n \in 1 .. Len(queue)
  BY <1>1, PenAssumption DEF min, Chunk
<1>3. buf' = SubSeq(queue, 1, n) /\ queue' = SubSeq(queue, n + 1, Len(queue))
  BY DEF read_chunk
<1> HIDE DEF n
<1>4. 1 \in 1 .. Len(queue) + 1 /\ n \in 1 - 1 .. Len(queue) /\ Len(queue) \in n .. Len(queue)
  BY <1>1, <1>2
<1>5. SubSeq(queue, 1, n) \o SubSeq(queue, n + 1, Len(queue)) = SubSeq(queue, 1, Len(queue))
  BY <1>1, <1>4, ConcatAdjacentSubSeq
<1> QED BY <1>1, <1>3, <1>5, SubSeqFull

\* As the pen is opened there is nothing to show, and nothing has been missed
\* unless the digitizer had already been used.
LEMMA InitLost == Init => LostInv
<1> SUFFICES ASSUME Init PROVE LostInv
  OBVIOUS
<1>1. due = <<>> /\ buf = <<>> /\ queue = <<>> /\ pc = "idle"
  BY DEF Init
<1>2. due \in Seq(Frames)
  BY <1>1, EmptySeq
<1>3. ASSUME missed = "nobody"
      PROVE  Shown(buf \o queue, pen, due, hw)
  <2> DEFINE st == [i \in 0 .. 0 |-> pen]
             at == [k \in 1 .. 0 |-> 0]
  <2>1. pen \in PenState
    BY InitInv DEF Inv, TypeOK
  <2>2. /\ hw.bx = -1 /\ hw.by = -1 /\ hw.pressure = 0 /\ hw.tool = "None"
        /\ hw.touch = FALSE /\ hw.s = [b \in Buttons |-> FALSE]
    <3>1. hw = Untouched
      BY <1>3 DEF Init
    <3> QED BY <3>1 DEF Untouched
  <2>3. Agrees(pen, hw)
    <3>1. /\ pen.last_bx = -1 /\ pen.last_by = -1 /\ pen.last_pressure = 0
          /\ pen.tool = "None" /\ pen.in_proximity = FALSE /\ pen.touch = FALSE
          /\ pen.s = [b \in Buttons |-> FALSE]
      BY DEF Init
    <3>2. ~(hw.bx >= 0 \/ hw.by >= 0)
      BY <2>2
    <3>3. pen.in_proximity = (hw.tool # "None")
      BY <2>2, <3>1
    <3> QED BY <2>2, <3>1, <3>2, <3>3 DEF Agrees
  <2>4. <<>> \o <<>> = <<>> /\ Len(<<>>) = 0
    OBVIOUS
  <2>5. st \in [0 .. 0 -> PenState] /\ st[0] = pen
    BY <2>1
  <2>6. Run(<<>>, st)
    BY <2>4, <2>5 DEF Run
  <2>7. Marks(<<>>, at, 0)
    BY <2>4 DEF Marks
  <2> HIDE DEF st, at
  <2>8. Leads(<<>>, pen, <<>>, hw, st, at)
    BY <2>3, <2>4, <2>5, <2>6, <2>7 DEF Leads
  <2> QED BY <1>1, <2>4, <2>8 DEF Shown
<1> QED BY <1>1, <1>2, <1>3 DEF LostInv

\* A report reaches the queue behind all the reader still has to take, or the
\* kernel is known to have dropped events.
LEMMA LostReport ==
  ASSUME Inv, LostInv, NEW c \in Codes, NEW v \in Abs \union {0, 1}, Report(c, v)
  PROVE  LostInv'
<1> DEFINE ev == [code |-> c, value |-> v]
<1>1. /\ TypeOK /\ buf \in Seq(Event) /\ queue \in Seq(Event) /\ due \in Seq(Frames)
      /\ Change(c, v) /\ hw' = After(c, v) /\ Enqueue(ev)
      /\ due' = IF missed' # "nobody" THEN <<>> ELSE due
      /\ pen' = pen /\ buf' = buf /\ pc' = pc
  BY DEF Inv, TypeOK, LostInv, Report, reader
<1>2. ev \in Event /\ ev # Syn
  BY <1>1, ReportType, PenAssumption DEF Syn, ToolCodes, AbsCodes, Buttons
<1> HIDE DEF ev
<1>3. due' \in Seq(Frames) /\ (missed' # "nobody" => due' = <<>>)
  BY <1>1, EmptySeq
<1>4. ASSUME missed' = "nobody"
      PROVE  Shown(buf' \o queue', pen', due', hw')
  <2>1. queue' = Append(queue, ev) /\ missed = "nobody" /\ due' = due
    BY <1>1, <1>4 DEF Enqueue
  <2>2. buf \o queue \in Seq(Event) /\ Shown(buf \o queue, pen, due, hw)
    BY <1>1, <2>1, ConcatProperties DEF LostInv
  <2>3. \A st \in PenState : Agrees(st, hw) => Agrees(apply(st, ev), hw')
    BY <1>1, ApplyAgrees DEF ev
  <2>4. Shown(Append(buf \o queue, ev), pen, due, hw')
    BY <1>1, <1>2, <2>2, <2>3, ShownReport
  <2> QED BY <1>1, <1>2, <2>1, <2>4, ConcatAppend
<1> QED BY <1>1, <1>3, <1>4 DEF LostInv

\* So does the end of a frame, and that frame is then due.
LEMMA LostEnd ==
  ASSUME Inv, LostInv, EndFrame
  PROVE  LostInv'
<1>1. /\ TypeOK /\ buf \in Seq(Event) /\ queue \in Seq(Event) /\ due \in Seq(Frames)
      /\ hw \in HwState /\ hw' = hw /\ Enqueue(Syn)
      /\ due' = IF missed' # "nobody" THEN <<>> ELSE Append(due, Reported)
      /\ pen' = pen /\ buf' = buf /\ pc' = pc
  BY DEF Inv, TypeOK, LostInv, EndFrame, reader
<1>2. Syn \in Event
  BY DEF Event
<1>3. ASSUME missed' = "nobody"
      PROVE  due' \in Seq(Frames) /\ Shown(buf' \o queue', pen', due', hw')
  <2>1. queue' = Append(queue, Syn) /\ missed = "nobody" /\ due' = Append(due, Reported)
    BY <1>1, <1>3 DEF Enqueue
  <2>2. buf \o queue \in Seq(Event) /\ Shown(buf \o queue, pen, due, hw)
    BY <1>1, <2>1, ConcatProperties DEF LostInv
  <2>3. \A st \in PenState : Agrees(st, hw) => snapshot(st) = Reported
    BY <1>1, AgreesShows
  <2>4. Reported \in Frames /\ Shown(Append(buf \o queue, Syn), pen, due', hw)
    BY <1>1, <2>1, <2>2, <2>3, ShownEnd
  <2>5. due' \in Seq(Frames)
    BY <1>1, <2>1, <2>4, AppendProperties
  <2> QED BY <1>1, <1>2, <2>1, <2>4, <2>5, ConcatAppend
<1>4. missed' # "nobody" => due' = <<>>
  BY <1>1
<1>5. due' \in Seq(Frames)
  BY <1>3, <1>4, EmptySeq
<1> QED BY <1>1, <1>3, <1>4, <1>5 DEF LostInv

\* An event folded into the fields leaves the chunk, and the fields take its
\* place.
LEMMA LostApply ==
  ASSUME Inv, LostInv, apply_event
  PROVE  LostInv'
<1>1. /\ buf \in Seq(Event) /\ queue \in Seq(Event) /\ due \in Seq(Frames)
      /\ buf # <<>> /\ Head(buf) # Syn
      /\ pen' = apply(pen, Head(buf)) /\ buf' = Tail(buf)
      /\ queue' = queue /\ due' = due /\ hw' = hw /\ missed' = missed
  BY DEF Inv, TypeOK, LostInv, apply_event, kernel
<1>2. pc' # "apply" => buf' = <<>>
  BY DEF apply_event
<1>3. ASSUME missed = "nobody"
      PROVE  Shown(Tail(buf) \o queue, apply(pen, Head(buf)), due, hw)
  <2> DEFINE w == buf \o queue
  <2>1. w \in Seq(Event) /\ w # <<>> /\ w[1] = Head(buf) /\ Tail(w) = Tail(buf) \o queue
    BY <1>1, ConcatTail
  <2>2. Shown(w, pen, due, hw)
    BY <1>3 DEF LostInv
  <2> HIDE DEF w
  <2> QED BY <1>1, <2>1, <2>2, ShownApply
<1> QED BY <1>1, <1>2, <1>3 DEF LostInv

\* A SYN_REPORT that ends a call, with nothing of the chunk behind it, is that
\* of the first frame due.
LEMMA DeliverShows ==
  ASSUME Inv, LostInv, deliver, missed = "nobody"
  PROVE  /\ due # <<>> /\ Head(due) = snapshot(pen)
         /\ Shown(Tail(buf) \o queue, pen, Tail(due), hw)
<1>1. /\ buf \in Seq(Event) /\ queue \in Seq(Event) /\ due \in Seq(Frames)
      /\ pen \in PenState /\ buf # <<>> /\ Head(buf) = Syn
      /\ Shown(buf \o queue, pen, due, hw)
  BY DEF Inv, TypeOK, LostInv, deliver
<1> DEFINE w == buf \o queue
<1>2. w \in Seq(Event) /\ w # <<>> /\ w[1] = Head(buf) /\ Tail(w) = Tail(buf) \o queue
  BY <1>1, ConcatTail
<1> HIDE DEF w
<1>3. Shown(w, pen, due, hw)
  BY <1>1 DEF w
<1> QED BY <1>1, <1>2, <1>3, ShownDeliver

\* If events of the chunk are left when a call ends they are missed; if not,
\* the frame returned is no longer due.
LEMMA LostDeliver ==
  ASSUME Inv, LostInv, deliver
  PROVE  LostInv'
<1>1. /\ buf' = <<>> /\ pen' = pen /\ queue' = queue /\ hw' = hw
      /\ missed' = IF missed = "nobody" /\ Tail(buf) # <<>> THEN "reader" ELSE missed
      /\ due' = IF missed' # "nobody" THEN <<>> ELSE Tail(due)
      /\ due \in Seq(Frames)
  BY DEF LostInv, deliver, kernel
<1>2. missed' # "nobody" => due' = <<>>
  BY <1>1
<1>3. ASSUME missed' = "nobody"
      PROVE  due' \in Seq(Frames) /\ Shown(buf' \o queue', pen', due', hw')
  <2>1. missed = "nobody" /\ Tail(buf) = <<>> /\ due' = Tail(due)
    BY <1>1, <1>3
  <2>2. due # <<>> /\ Shown(Tail(buf) \o queue, pen, Tail(due), hw)
    BY <2>1, DeliverShows
  <2>3. Tail(due) \in Seq(Frames)
    BY <1>1, <2>2, HeadTailProperties
  <2> QED BY <1>1, <2>1, <2>2, <2>3
<1>4. due' \in Seq(Frames)
  BY <1>2, <1>3, EmptySeq
<1> QED BY <1>1, <1>2, <1>3, <1>4 DEF LostInv

\* read(2) moves events from the queue to the empty chunk.
LEMMA LostChunk ==
  ASSUME Inv, LostInv, read_chunk
  PROVE  LostInv'
<1>1. /\ pc = "read" /\ pc' = "apply" /\ pen' = pen /\ hw' = hw
      /\ due' = due /\ missed' = missed /\ buf = <<>> /\ queue \in Seq(Event)
  BY DEF Inv, TypeOK, LostInv, read_chunk
<1>2. buf' \o queue' = queue
  BY ChunkWhole DEF Inv
<1>3. <<>> \o queue = queue
  BY <1>1, ConcatEmptySeq
<1> QED BY <1>1, <1>2, <1>3 DEF LostInv

\* Every step keeps it.
LEMMA LostStep == Inv /\ LostInv /\ [Next]_vars => LostInv'
<1> SUFFICES ASSUME Inv, LostInv, [Next]_vars PROVE LostInv'
  OBVIOUS
<1>1. ASSUME NEW c \in Codes, NEW v \in Abs \union {0, 1}, Report(c, v) PROVE LostInv'
  BY <1>1, LostReport
<1>2. CASE EndFrame
  BY <1>2, LostEnd
<1>3. CASE apply_event
  BY <1>3, LostApply
<1>4. CASE deliver
  BY <1>4, LostDeliver
<1>5. CASE read_chunk
  BY <1>5, LostChunk
<1>6. ASSUME UNCHANGED <<pen, buf, kernel, due, missed>>, pc = "apply" => pc' = "apply"
      PROVE  LostInv'
  <2>1. /\ pen' = pen /\ buf' = buf /\ queue' = queue /\ hw' = hw
        /\ due' = due /\ missed' = missed
    BY <1>6 DEF kernel
  <2> QED BY <1>6, <2>1 DEF LostInv
<1>7. ASSUME NEW n \in BOOLEAN, set_nonblocking(n) PROVE LostInv'
  BY <1>6, <1>7 DEF set_nonblocking
<1>8. ASSUME NEW c \in {"read", "next", "poll_once"}, Start(c) PROVE LostInv'
  BY <1>6, <1>8 DEF Start
<1>9. CASE poll_signal
  BY <1>6, <1>9 DEF poll_signal, Fail, Leave
<1>10. CASE read_error
  BY <1>6, <1>10 DEF read_error, Fail, Leave
<1>11. CASE poll_ready
  BY <1>6, <1>11 DEF poll_ready
<1>12. CASE poll_timeout
  BY <1>6, <1>12 DEF poll_timeout, Return, Leave
<1>13. CASE read_again
  BY <1>6, <1>13 DEF read_again, Return, Leave
<1>14. CASE UNCHANGED vars
  BY <1>6, <1>14 DEF vars, kernel
<1>15. CASE read_eof
  BY <1>6, <1>15 DEF read_eof, Fail, Leave
<1> QED BY <1>1, <1>2, <1>3, <1>4, <1>5, <1>7, <1>8, <1>9, <1>10, <1>11, <1>12, <1>13,
           <1>14, <1>15 DEF Next, Reader

LEMMA LostInvariance == Spec => [](Inv /\ LostInv)
<1>1. Init => LostInv
  BY InitLost
<1>2. Inv /\ Inv' /\ LostInv /\ [Next]_vars => LostInv'
  BY LostStep
<1> QED BY <1>1, <1>2, Invariance, PTL DEF Spec

\* The marks number the SYN_REPORTs.
LEMMA MarksCount ==
  ASSUME NEW w \in Seq(Event), NEW m \in Nat, NEW at, Marks(w, at, m)
  PROVE  Cardinality({i \in 1 .. Len(w) : w[i] = Syn}) = m
<1> DEFINE S == {i \in 1 .. Len(w) : w[i] = Syn}
<1>1. at \in [1 .. m -> 1 .. Len(w)] /\ Len(w) \in Nat
  BY DEF Marks
<1>2. at \in [1 .. m -> S]
  <2>1. ASSUME NEW k \in 1 .. m PROVE at[k] \in S
    BY <1>1 DEF Marks
  <2> QED BY <1>1, <2>1
<1>3. \A j, k \in 1 .. m : at[j] = at[k] => j = k
  <2>1. \A k \in 1 .. m : at[k] \in Nat
    BY <1>1
  <2> QED BY <2>1 DEF Marks
<1>4. \A i \in S : \E k \in 1 .. m : at[k] = i
  BY DEF Marks
<1> HIDE DEF S
<1>5. at \in Bijection(1 .. m, S)
  BY <1>2, <1>3, <1>4 DEF Bijection, Injection, Surjection, IsInjective
<1>6. ExistsBijection(1 .. m, S)
  BY <1>5 DEF ExistsBijection
<1> QED BY <1>6, FS_CountingElements DEF S

\* As long as no event was missed, the fields, the chunk and the queue together
\* hold what the digitizer has reported, and a SYN_REPORT for every frame due
\* (Pen::read, Pen::apply).
THEOREM NoEventIsLost == Spec => []NothingLost
<1>1. ASSUME Inv, LostInv, missed = "nobody"
      PROVE  LET w == buf \o queue
             IN  /\ snapshot(Folded(pen, w)) = Reported
                 /\ Len(due) = Cardinality({i \in 1 .. Len(w) : w[i] = Syn})
  <2> DEFINE w == buf \o queue
  <2>1. w \in Seq(Event) /\ hw \in HwState /\ Len(due) \in Nat
    BY <1>1, ConcatProperties DEF Inv, TypeOK, LostInv
  <2>2. Shown(w, pen, due, hw)
    BY <1>1 DEF LostInv
  <2> HIDE DEF w
  <2>3. PICK st, at : Leads(w, pen, due, hw, st, at)
    BY <2>2 DEF Shown
  <2>4. Run(w, st) /\ st[0] = pen /\ Agrees(st[Len(w)], hw) /\ Marks(w, at, Len(due))
    BY <2>3 DEF Leads
  <2>5. st[Len(w)] \in PenState
    BY <2>1, <2>4 DEF Run
  <2>6. Folded(pen, w) = st[Len(w)]
    BY <2>1, <2>4, FoldedIs
  <2>7. snapshot(Folded(pen, w)) = Reported
    BY <2>1, <2>4, <2>5, <2>6, AgreesShows
  <2>8. Cardinality({i \in 1 .. Len(w) : w[i] = Syn}) = Len(due)
    BY <2>1, <2>4, MarksCount
  <2> QED BY <2>7, <2>8 DEF w
<1>2. Inv /\ LostInv => NothingLost
  BY <1>1 DEF NothingLost
<1> QED BY <1>2, LostInvariance, PTL

\* What remains of DrainedPenIsCurrent: as long as no event was missed, a reader
\* that has drained the queue holds what the digitizer has reported, between
\* calls and inside them, even in the middle of a frame.
THEOREM DrainedPenIsCurrentUnlessMissed ==
  Spec => [](missed = "nobody" /\ pc # "apply" /\ queue = <<>> => snapshot(pen) = Reported)
<1>1. ASSUME Inv, LostInv, missed = "nobody", pc # "apply", queue = <<>>
      PROVE  snapshot(pen) = Reported
  <2>1. <<>> \o <<>> = <<>> /\ Len(<<>>) = 0
    OBVIOUS
  <2>2. Shown(<<>>, pen, due, hw)
    BY <1>1, <2>1 DEF LostInv
  <2>3. PICK st, at : Leads(<<>>, pen, due, hw, st, at)
    BY <2>2 DEF Shown
  <2>4. Agrees(pen, hw)
    BY <2>1, <2>3 DEF Leads
  <2> QED BY <1>1, <2>4, AgreesShows DEF Inv, TypeOK
<1>2. Inv /\ LostInv =>
        (missed = "nobody" /\ pc # "apply" /\ queue = <<>> => snapshot(pen) = Reported)
  BY <1>1
<1> QED BY <1>2, LostInvariance, PTL

\* What a call returns is the state at the end of the oldest frame not yet
\* returned, as long as no event was missed (Pen::read, Pen::poll_once).
THEOREM FramesComeInOrder == Spec => FramesInOrder
<1>1. ASSUME Inv, LostInv, [Next]_vars PROVE DeliverStep
  <2> SUFFICES ASSUME missed = "nobody", pc = "apply", pc' = "idle", ret' = "some"
               PROVE  due # <<>> /\ snapshot(pen') = Head(due)
    BY DEF DeliverStep
  <2>1. deliver
    BY <1>1 DEF Next, Reader, Report, EndFrame, set_nonblocking, Start, poll_signal,
             read_error, read_eof, poll_ready, poll_timeout, read_chunk, read_again,
             apply_event, reader, vars
  <2>2. pen' = pen
    BY <2>1 DEF deliver
  <2> QED BY <1>1, <2>1, <2>2, DeliverShows
<1>2. Inv /\ LostInv /\ [Next]_vars => [DeliverStep]_vars
  BY <1>1
<1> QED BY <1>2, LostInvariance, PTL DEF Spec, FramesInOrder

\* With nothing in the chunk and nothing in the queue, no frame is due.
LEMMA EmptyMeansNoneDue ==
  ASSUME Inv, LostInv, buf = <<>>, queue = <<>>
  PROVE  due = <<>>
<1>1. ASSUME missed = "nobody" PROVE due = <<>>
  <2>1. <<>> \o <<>> = <<>> /\ Len(<<>>) = 0
    OBVIOUS
  <2>2. Shown(<<>>, pen, due, hw) /\ due \in Seq(Frames)
    BY <1>1, <2>1 DEF LostInv
  <2>3. PICK st, at : Marks(<<>>, at, Len(due))
    BY <2>2 DEF Shown, Leads
  <2>4. at \in [1 .. Len(due) -> 1 .. 0] /\ Len(due) \in Nat
    BY <2>1, <2>2, <2>3 DEF Marks
  <2>5. Len(due) = 0
    <3>1. Len(due) > 0 => at[1] \in 1 .. 0
      BY <2>4
    <3> QED BY <2>4, <3>1
  <2> QED BY <2>2, <2>5, EmptySeq
<1> QED BY <1>1 DEF LostInv

\* A call under which no system call failed comes back with nothing only when
\* no frame is due, and is not the iterator's (Pen::read, Pen::poll_once,
\* PenIter::next).
THEOREM NobodyLeavesEmptyHanded == Spec => EmptyHanded
<1>1. ASSUME Inv, LostInv, [Next]_vars PROVE EmptyStep
  <2> SUFFICES ASSUME pc # "idle", pc' = "idle", ret' = "none", ~failed',
                      call = "next" \/ due # <<>>
               PROVE  FALSE
    BY <1>1 DEF EmptyStep, Inv, TypeOK
  <2>1. poll_timeout \/ read_again
    <3>1. ~poll_signal /\ ~read_error /\ ~read_eof
      BY DEF poll_signal, read_error, read_eof, Fail
    <3>2. ~deliver
      BY DEF deliver, Return, Leave
    <3> QED BY <1>1, <3>1, <3>2
            DEF Next, Reader, Report, EndFrame, set_nonblocking, Start, poll_ready,
             read_chunk, apply_event, reader, vars
  <2>2. queue = <<>> /\ buf = <<>> /\ pc \in {"poll", "repoll", "read"}
    BY <1>1, <2>1 DEF poll_timeout, read_again, LostInv
  <2>3. due = <<>>
    BY <1>1, <2>2, EmptyMeansNoneDue
  <2>4. call # "next"
    BY <1>1, <2>1 DEF poll_timeout, read_again, Inv, ReadNeverBlocks
  <2> QED BY <2>3, <2>4
<1>2. Inv /\ LostInv /\ [Next]_vars => [EmptyStep]_vars
  BY <1>1
<1> QED BY <1>2, LostInvariance, PTL DEF Spec, EmptyHanded

-----------------------------------------------------------------------------
(* How long a call can go on: the part of its termination that is safety. *)

\* The work a call has before it, each event counted as often as it can make
\* the call poll, read and apply.
Work == 4 * (Len(buf) + Len(queue))
          + (IF pc \in {"poll", "repoll"} THEN 3
             ELSE IF pc = "read" THEN 2 ELSE IF pc = "apply" THEN 1 ELSE 0)

\* Every step of the reader takes work away, whatever chunks it reads in and
\* however often it polls: only new events keep a call going, and between two
\* of them it takes a bounded number of steps (Pen::read, Pen::poll_once).
THEOREM ReaderRunsOutOfWork == Spec => [][Reader => Work \in Nat /\ Work' \in 0 .. Work - 1]_vars
<1>1. ASSUME Inv, LostInv, [Next]_vars, Reader
      PROVE  Work \in Nat /\ Work' \in 0 .. Work - 1
  <2>1. /\ buf \in Seq(Event) /\ queue \in Seq(Event)
        /\ Len(buf) \in Nat /\ Len(queue) \in Nat
        /\ pc # "apply" => buf = <<>>
        /\ pc = "apply" => buf # <<>>
    BY <1>1 DEF Inv, TypeOK, LostInv
  <2>2. Work \in Nat
    BY <2>1 DEF Work
  <2>3. CASE poll_ready \/ poll_timeout \/ read_again
    BY <2>1, <2>3 DEF poll_ready, poll_timeout, read_again, Return, Leave, kernel, Work
  <2>4. CASE read_chunk
    <3>1. buf' \o queue' = queue /\ buf' \in Seq(Event) /\ queue' \in Seq(Event)
      BY <1>1, <2>4, ChunkWhole, ChunkType DEF Inv
    <3>2. Len(buf') + Len(queue') = Len(queue) /\ Len(buf') + Len(queue') \in Nat
      BY <3>1, ConcatProperties
    <3>3. Len(buf) = 0 /\ pc = "read" /\ pc' = "apply"
      BY <2>1, <2>4 DEF read_chunk
    <3> QED BY <2>1, <3>2, <3>3 DEF Work
  <2>5. CASE apply_event
    <3>1. Len(buf) > 0 /\ Len(buf') = Len(buf) - 1 /\ queue' = queue
      BY <2>1, <2>5, HeadTailProperties, EmptySeq DEF apply_event, kernel
    <3>2. pc = "apply" /\ pc' \in {"apply", "read", "repoll"}
      BY <2>5 DEF apply_event
    <3> QED BY <2>1, <3>1, <3>2 DEF Work
  <2>6. CASE deliver
    <3>1. Len(buf) > 0 /\ Len(buf') = 0 /\ queue' = queue
      BY <2>1, <2>6, EmptySeq DEF deliver, kernel
    <3>2. pc = "apply" /\ pc' = "idle"
      BY <2>6 DEF deliver, Return, Leave
    <3> QED BY <2>1, <3>1, <3>2 DEF Work
  <2> QED BY <1>1, <2>2, <2>3, <2>4, <2>5, <2>6 DEF Reader
<1>2. Inv /\ LostInv /\ [Next]_vars =>
        [Reader => Work \in Nat /\ Work' \in 0 .. Work - 1]_vars
  BY <1>1
<1> QED BY <1>2, LostInvariance, PTL DEF Spec

-----------------------------------------------------------------------------
(* How often a call waits. *)

\* The place of every event in its frame, and that of the next one to come,
\* when f events of the last frame are there.
Seats(w, at, f) ==
  /\ at \in [1 .. Len(w) + 1 -> 1 .. FRAME + 1]
  /\ at[Len(w) + 1] = f + 1
  /\ \A i \in 1 .. Len(w) : at[i + 1] = IF w[i] = Syn THEN 1 ELSE at[i] + 1

\* A read() has polled once, and at most once more for every event of the frame
\* that is behind it.
WaitInv == missed # "kernel" => \E at : /\ Seats(buf \o queue, at, fill)
                                        /\ call = "read" => waits <= at[1]

\* A new event takes the next place.
LEMMA SeatsAppend ==
  ASSUME NEW w \in Seq(Event), NEW ev \in Event, NEW at, NEW f,
         NEW g \in 0 .. FRAME, g = IF ev = Syn THEN 0 ELSE f + 1, f \in Nat,
         Seats(w, at, f)
  PROVE  \E nx : Seats(Append(w, ev), nx, g) /\ nx[1] = at[1]
<1> DEFINE n == Len(w)
           v == Append(w, ev)
           nx == [i \in 1 .. n + 2 |-> IF i = n + 2 THEN g + 1 ELSE at[i]]
<1>1. /\ n \in Nat /\ v \in Seq(Event) /\ Len(v) = n + 1
      /\ \A i \in 1 .. n : v[i] = w[i]
      /\ v[n + 1] = ev
  BY AppendProperties
<1>2. /\ at \in [1 .. n + 1 -> 1 .. FRAME + 1] /\ at[n + 1] = f + 1
      /\ \A i \in 1 .. n : at[i + 1] = IF w[i] = Syn THEN 1 ELSE at[i] + 1
  BY DEF Seats
<1> HIDE DEF n, v
<1>3. nx \in [1 .. n + 2 -> 1 .. FRAME + 1]
  BY <1>1, <1>2, PenAssumption
<1>4. nx[n + 2] = g + 1 /\ \A i \in 1 .. n + 1 : nx[i] = at[i]
  BY <1>1
<1> HIDE DEF nx
<1>5. ASSUME NEW i \in 1 .. n + 1
      PROVE  nx[i + 1] = IF v[i] = Syn THEN 1 ELSE nx[i] + 1
  <2>1. CASE i = n + 1
    BY <1>1, <1>2, <1>4, <2>1
  <2>2. CASE i # n + 1
    <3>1. i \in 1 .. n /\ i + 1 \in 1 .. n + 1
      BY <1>1, <2>2
    <3> QED BY <1>1, <1>2, <1>4, <3>1
  <2> QED BY <2>1, <2>2
<1>6. Len(v) + 1 = n + 2
  BY <1>1
<1>7. Seats(v, nx, g)
  BY <1>1, <1>3, <1>4, <1>5, <1>6 DEF Seats
<1> QED BY <1>1, <1>4, <1>7 DEF v

\* The events behind a chunk keep their places.
LEMMA SeatsRest ==
  ASSUME NEW s \in Seq(Event), NEW t \in Seq(Event), NEW at, NEW f, Seats(s \o t, at, f)
  PROVE  \E nx : Seats(t, nx, f) /\ nx[1] = at[Len(s) + 1]
<1> DEFINE n == Len(s)
           m == Len(t)
           w == s \o t
           nx == [i \in 1 .. m + 1 |-> at[n + i]]
<1>1. /\ n \in Nat /\ m \in Nat /\ w \in Seq(Event) /\ Len(w) = n + m
      /\ \A i \in 1 .. n + m : w[i] = IF i <= n THEN s[i] ELSE t[i - n]
  BY ConcatProperties
<1>2. /\ at \in [1 .. (n + m) + 1 -> 1 .. FRAME + 1] /\ at[(n + m) + 1] = f + 1
      /\ \A i \in 1 .. n + m : at[i + 1] = IF w[i] = Syn THEN 1 ELSE at[i] + 1
  BY <1>1 DEF Seats
<1> HIDE DEF n, m, w
<1>3. nx \in [1 .. m + 1 -> 1 .. FRAME + 1]
  BY <1>1, <1>2
<1>4. \A i \in 1 .. m + 1 : nx[i] = at[n + i]
  OBVIOUS
<1> HIDE DEF nx
<1>5. ASSUME NEW i \in 1 .. m
      PROVE  nx[i + 1] = IF t[i] = Syn THEN 1 ELSE nx[i] + 1
  <2>1. n + i \in 1 .. n + m /\ ~(n + i <= n) /\ (n + i) - n = i
    BY <1>1
  <2>2. w[n + i] = t[i]
    BY <1>1, <2>1
  <2>3. at[(n + i) + 1] = IF t[i] = Syn THEN 1 ELSE at[n + i] + 1
    BY <1>2, <2>1, <2>2
  <2>4. (n + i) + 1 = n + (i + 1) /\ i + 1 \in 1 .. m + 1 /\ i \in 1 .. m + 1
    BY <1>1
  <2> QED BY <1>4, <2>3, <2>4
<1>6. nx[m + 1] = f + 1
  BY <1>1, <1>2, <1>4
<1>7. nx[1] = at[n + 1]
  BY <1>1, <1>4
<1>8. Seats(t, nx, f)
  BY <1>3, <1>5, <1>6 DEF Seats, m
<1> QED BY <1>7, <1>8 DEF n

\* The event behind one that does not end its frame is a place further.
LEMMA SeatsTail ==
  ASSUME NEW s \in Seq(Event), s # <<>>, Head(s) # Syn, NEW t \in Seq(Event),
         NEW at, NEW f, Seats(s \o t, at, f)
  PROVE  \E nx : Seats(Tail(s) \o t, nx, f) /\ nx[1] = at[1] + 1
<1> DEFINE w == s \o t
           h == <<Head(s)>>
<1>1. w \in Seq(Event) /\ w # <<>> /\ Head(w) = Head(s) /\ Tail(w) = Tail(s) \o t
  BY ConcatTail
<1>2. Len(w) \in Nat /\ Len(w) >= 1
  BY <1>1, EmptySeq
<1>3. w[1] # Syn
  BY <1>1, <1>2
<1>4. at[1 + 1] = at[1] + 1
  <2>1. 1 \in 1 .. Len(w)
    BY <1>2
  <2> HIDE DEF w
  <2>2. Seats(w, at, f)
    BY DEF w
  <2> QED BY <1>3, <2>1, <2>2 DEF Seats
<1>5. h \in Seq(Event) /\ Len(h) = 1 /\ Tail(w) \in Seq(Event) /\ h \o Tail(w) = w
  <2>1. Head(s) \in Event /\ Head(w) \in Event
    BY <1>1, <1>2
  <2> HIDE DEF w
  <2>2. <<Head(w)>> \o Tail(w) = w
    BY <1>1, <1>2, HeadTailProperties
  <2>3. Tail(w) \in Seq(Event)
    BY <1>1, HeadTailProperties
  <2>4. h \in Seq(Event) /\ Len(h) = 1
    BY <2>1
  <2>5. h \o Tail(w) = w
    BY <1>1, <2>2
  <2> QED BY <2>3, <2>4, <2>5
<1> HIDE DEF w, h
<1>6. Seats(h \o Tail(w), at, f)
  BY <1>5 DEF w
<1>7. PICK nx : Seats(Tail(w), nx, f) /\ nx[1] = at[Len(h) + 1]
  BY <1>5, <1>6, SeatsRest
<1> QED BY <1>1, <1>4, <1>5, <1>7

\* The next event to come, or to apply, is somewhere in a frame.
LEMMA FirstSeat ==
  ASSUME NEW w \in Seq(Event), NEW at, NEW f, Seats(w, at, f)
  PROVE  at[1] \in 1 .. FRAME + 1
<1>1. Len(w) \in Nat
  OBVIOUS
<1> QED BY <1>1 DEF Seats

\* A step that moves no event and enters no poll keeps the invariant.
LEMMA WaitSame ==
  ASSUME WaitInv, missed' = missed, fill' = fill, buf' \o queue' = buf \o queue,
         (call' = call /\ waits' = waits) \/ call' # "read"
  PROVE  WaitInv'
BY DEF WaitInv

\* A new call has polled once, which any place allows.
LEMMA WaitStart ==
  ASSUME Inv, WaitInv, NEW c \in {"read", "next", "poll_once"}, Start(c)
  PROVE  WaitInv'
<1>1. /\ buf' = buf /\ queue' = queue /\ fill' = fill /\ missed' = missed
      /\ call' = c /\ waits' = IF c = "read" THEN 1 ELSE 0
  BY DEF Start, kernel
<1>2. ASSUME missed # "kernel"
      PROVE  \E at : /\ Seats(buf' \o queue', at, fill')
                     /\ call' = "read" => waits' <= at[1]
  <2>1. PICK at : Seats(buf \o queue, at, fill)
    BY <1>2 DEF WaitInv
  <2>2. buf \o queue \in Seq(Event)
    BY ConcatProperties DEF Inv, TypeOK
  <2>3. at[1] \in 1 .. FRAME + 1
    BY <2>1, <2>2, FirstSeat
  <2>4. 1 <= at[1]
    BY <2>3, PenAssumption
  <2> QED BY <1>1, <2>1, <2>4
<1> QED BY <1>1, <1>2 DEF WaitInv

\* An event that the kernel queues takes the next place.
LEMMA WaitEvent ==
  ASSUME Inv, Inv', WaitInv, NEW ev \in Event, Enqueue(ev), UNCHANGED reader,
         fill' = IF ev = Syn THEN 0 ELSE fill + 1
  PROVE  WaitInv'
<1>1. buf' = buf /\ call' = call /\ waits' = waits
  BY DEF reader
<1>2. ASSUME missed' # "kernel"
      PROVE  \E at : /\ Seats(buf' \o queue', at, fill')
                     /\ call' = "read" => waits' <= at[1]
  <2>1. queue' = Append(queue, ev) /\ missed # "kernel"
    BY <1>2 DEF Enqueue
  <2>2. /\ buf \in Seq(Event) /\ queue \in Seq(Event)
        /\ fill \in Nat /\ fill' \in 0 .. FRAME
    BY DEF Inv, TypeOK
  <2> DEFINE w == buf \o queue
             g == fill'
  <2>3. w \in Seq(Event) /\ buf' \o queue' = Append(w, ev)
    BY <1>1, <2>1, <2>2, ConcatAppend, ConcatProperties
  <2>4. PICK at : Seats(w, at, fill) /\ (call = "read" => waits <= at[1])
    BY <2>1 DEF WaitInv
  <2>5. fill \in Nat /\ g \in 0 .. FRAME /\ g = IF ev = Syn THEN 0 ELSE fill + 1
    BY <2>2
  <2> HIDE DEF w, g
  <2>6. PICK nx : Seats(Append(w, ev), nx, g) /\ nx[1] = at[1]
    BY <2>3, <2>4, <2>5, SeatsAppend
  <2> USE DEF g
  <2> QED BY <1>1, <2>3, <2>4, <2>6
<1> QED BY <1>2 DEF WaitInv

\* An event that is applied moves the call one place on, and that allows the
\* poll that may follow.
LEMMA WaitApply ==
  ASSUME Inv, WaitInv, apply_event
  PROVE  WaitInv'
<1>1. /\ buf \in Seq(Event) /\ buf # <<>> /\ Head(buf) # Syn /\ buf' = Tail(buf)
      /\ queue \in Seq(Event) /\ queue' = queue /\ fill' = fill
      /\ call' = call /\ missed' = missed /\ waits \in 0 .. WAIT_CAP
      /\ waits' \in {waits, min(waits + 1, WAIT_CAP)}
  BY DEF Inv, TypeOK, apply_event, kernel
<1>2. waits \in Nat /\ waits' <= waits + 1
  BY <1>1, PenAssumption DEF WAIT_CAP, min
<1>3. ASSUME missed # "kernel"
      PROVE  \E at : /\ Seats(buf' \o queue', at, fill')
                     /\ call' = "read" => waits' <= at[1]
  <2>1. PICK at : Seats(buf \o queue, at, fill) /\ (call = "read" => waits <= at[1])
    BY <1>3 DEF WaitInv
  <2>2. PICK nx : Seats(Tail(buf) \o queue, nx, fill) /\ nx[1] = at[1] + 1
    BY <1>1, <2>1, SeatsTail
  <2>3. at[1] \in 1 .. FRAME + 1
    <3>1. buf \o queue \in Seq(Event)
      BY <1>1, ConcatProperties
    <3> QED BY <2>1, <3>1, FirstSeat
  <2>4. ASSUME call = "read"
        PROVE  waits' <= nx[1]
    <3>1. at[1] \in Nat /\ waits <= at[1]
      BY <2>1, <2>3, <2>4, PenAssumption
    <3>2. waits' \in Nat
      BY <1>1, <1>2, PenAssumption DEF WAIT_CAP, min
    <3> QED BY <1>2, <2>2, <3>1, <3>2
  <2> QED BY <1>1, <2>2, <2>4
<1> QED BY <1>1, <1>3 DEF WaitInv

\* Before the first call nothing is behind the reader.
LEMMA InitWait == Init => WaitInv
<1> SUFFICES ASSUME Init
             PROVE  WaitInv
  OBVIOUS
<1> DEFINE at == [i \in 1 .. 1 |-> 1]
<1>1. buf = <<>> /\ queue = <<>> /\ fill = 0 /\ call = "none"
  BY DEF Init
<1>2. buf \o queue = <<>> /\ Len(<<>>) = 0
  BY <1>1
<1>3. Seats(buf \o queue, at, fill)
  <2>1. at \in [1 .. 0 + 1 -> 1 .. FRAME + 1] /\ at[0 + 1] = 0 + 1
    BY PenAssumption
  <2> HIDE DEF at
  <2> QED BY <1>1, <1>2, <2>1 DEF Seats
<1> HIDE DEF at
<1> QED BY <1>1, <1>3 DEF WaitInv

\* Every step of the reader and of the digitizer keeps to it.
LEMMA StepWait ==
  Inv /\ Inv' /\ LostInv /\ WaitInv /\ [Next]_vars => WaitInv'
<1> SUFFICES ASSUME Inv, Inv', LostInv, WaitInv, [Next]_vars
             PROVE  WaitInv'
  OBVIOUS
<1>1. buf \in Seq(Event) /\ queue \in Seq(Event) /\ fill \in 0 .. FRAME
  BY DEF Inv, TypeOK
<1>2. CASE UNCHANGED vars
  BY <1>2, WaitSame DEF vars
<1>3. ASSUME NEW c \in Codes, NEW v, Report(c, v)
      PROVE  WaitInv'
  <2> DEFINE ev == [code |-> c, value |-> v]
  <2>1. ev \in Event /\ ev # Syn
    <3>1. ev \in Event
      BY <1>3, ReportType DEF Report, Inv
    <3>2. c # "SYN_REPORT"
      BY PenAssumption DEF ToolCodes, AbsCodes, Buttons
    <3> QED BY <3>1, <3>2 DEF Syn
  <2>2. Enqueue(ev) /\ fill' = fill + 1 /\ UNCHANGED reader
    BY <1>3 DEF Report
  <2> HIDE DEF ev
  <2> QED BY <2>1, <2>2, WaitEvent
<1>4. CASE EndFrame
  <2>1. Enqueue(Syn) /\ fill' = 0 /\ UNCHANGED reader /\ Syn \in Event
    BY <1>4 DEF EndFrame, Event
  <2> QED BY <2>1, WaitEvent
<1>5. ASSUME NEW n, set_nonblocking(n)
      PROVE  WaitInv'
  BY <1>5, WaitSame DEF set_nonblocking, kernel
<1>6. CASE poll_timeout \/ poll_signal \/ read_again \/ read_error \/ read_eof
  BY <1>6, WaitSame DEF poll_timeout, poll_signal, read_again, read_error, read_eof,
                        Return, Fail, Leave, kernel
<1>7. ASSUME NEW c \in {"read", "next", "poll_once"}, Start(c)
      PROVE  WaitInv'
  BY <1>7, WaitStart
<1>8. CASE poll_ready
  BY <1>8, WaitSame DEF poll_ready, kernel
<1>9. CASE read_chunk
  <2>1. buf' \o queue' = buf \o queue
    <3>1. buf = <<>>
      BY <1>9 DEF read_chunk, LostInv
    <3>2. buf' \o queue' = queue
      BY <1>9, ChunkWhole DEF Inv
    <3> QED BY <1>1, <3>1, <3>2
  <2> QED BY <1>9, <2>1, WaitSame DEF read_chunk
<1>10. CASE apply_event
  BY <1>10, WaitApply
<1>11. CASE deliver
  <2>1. /\ buf' = <<>> /\ queue' = queue /\ fill' = fill /\ call' = "none"
        /\ missed # "kernel" \/ missed' = "kernel"
    BY <1>11 DEF deliver, Return, Leave, kernel
  <2>2. ASSUME missed # "kernel"
        PROVE  \E nx : Seats(buf' \o queue', nx, fill')
    <3>1. PICK at : Seats(buf \o queue, at, fill)
      BY <2>2 DEF WaitInv
    <3>2. PICK nx : Seats(queue, nx, fill)
      BY <1>1, <3>1, SeatsRest
    <3>3. buf' \o queue' = queue
      BY <1>1, <2>1
    <3> QED BY <2>1, <3>2, <3>3
  <2> QED BY <2>1, <2>2 DEF WaitInv
<1> QED BY <1>2, <1>3, <1>4, <1>5, <1>6, <1>7, <1>8, <1>9, <1>10, <1>11
        DEF Next, Reader

\* Whatever chunks the events come in, a read(timeout) polls FRAME + 1 times at
\* most, each time with the whole timeout, as long as the kernel's queue has not
\* overflowed since the pen was opened (Pen::read, pen.rs:139-199).
THEOREM ReadWaitIsBounded == Spec => []ReadWaitBounded
<1>1. Inv /\ WaitInv => ReadWaitBounded
  <2> SUFFICES ASSUME Inv, WaitInv, call = "read", missed # "kernel"
               PROVE  waits <= FRAME + 1
    BY DEF ReadWaitBounded
  <2>1. PICK at : Seats(buf \o queue, at, fill) /\ waits <= at[1]
    BY DEF WaitInv
  <2>2. buf \o queue \in Seq(Event)
    BY ConcatProperties DEF Inv, TypeOK
  <2>3. at[1] \in 1 .. FRAME + 1 /\ waits \in 0 .. WAIT_CAP
    BY <2>1, <2>2, FirstSeat DEF Inv, TypeOK
  <2> QED BY <2>1, <2>3, PenAssumption DEF WAIT_CAP
<1>2. Init => Inv /\ LostInv /\ WaitInv
  BY InitInv, InitLost, InitWait
<1>3. Inv /\ LostInv /\ WaitInv /\ [Next]_vars => (Inv /\ LostInv /\ WaitInv)'
  BY StepInv, LostStep, StepWait
<1> QED BY <1>1, <1>2, <1>3, PTL DEF Spec
=============================================================================
