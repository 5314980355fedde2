-------------------------------- MODULE Pen --------------------------------
(***************************************************************************)
(* The pen reader (libhweink/src/pen.rs): evdev events are read from the   *)
(* kernel in chunks, folded one by one into the Pen's fields, and a        *)
(* PenEvent is returned at a SYN_REPORT.                                   *)
(*                                                                         *)
(* The digitizer and the kernel's queue are external.  The kernel is       *)
(* assumed to show the reader any prefix of a frame, as the code's own     *)
(* comments do (pen.rs:165-166, 188, 227-229), and to replace what it held *)
(* by SYN_DROPPED when its queue overflows.                                *)
(***************************************************************************)
EXTENDS Geom, Sequences, FiniteSets

CONSTANTS
  Abs,          \* values the axes report: 0 .. BUF_W on ABS_X, 0 .. BUF_H on ABS_Y
  Codes,        \* the event codes the digitizer reports
  QLEN,         \* kernel queue length
  FRAME,        \* most events the digitizer puts in a frame
  CHUNK_READ,   \* events per read(2) in Pen::read      (32)
  CHUNK_POLL    \* events per read(2) in Pen::poll_once (64)

ToolOf == [BTN_TOOL_PEN |-> "Pen", BTN_TOOL_RUBBER |-> "Eraser",
           BTN_TOOL_FINGER |-> "Finger"]
Tools == {"None", "Pen", "Eraser", "Finger"}
ToolCodes == {"BTN_TOOL_PEN", "BTN_TOOL_RUBBER", "BTN_TOOL_FINGER"}
AbsCodes == {"ABS_X", "ABS_Y", "ABS_PRESSURE"}
Buttons == {"BTN_STYLUS", "BTN_STYLUS2", "BTN_STYLUS3"}

ASSUME PenAssumption ==
  /\ Abs \subseteq Nat /\ 0 \in Abs
  /\ Codes \subseteq ToolCodes \union AbsCodes \union Buttons \union {"BTN_TOUCH"}
  /\ QLEN \in Nat /\ QLEN >= 2
  /\ FRAME \in Nat \ {0}
  /\ CHUNK_READ \in Nat \ {0} /\ CHUNK_POLL \in Nat \ {0}

Syn     == [code |-> "SYN_REPORT", value |-> 0]
Dropped == [code |-> "SYN_DROPPED", value |-> 0]
Event == [code : Codes \intersect AbsCodes, value : Abs]
           \union [code : Codes \ AbsCodes, value : {0, 1}]
           \union {Syn, Dropped}

VARIABLES
  pen,        \* the fields of the Pen
  pc,         \* where the call in progress is; "idle" between calls
  call,       \* the call in progress: "read", "next" (read without a timeout),
              \* "poll_once" or "none"
  nonblock,   \* O_NONBLOCK on the fd
  buf,        \* events of the chunk read and not yet applied
  ret,        \* what the last call returned: "some", "none" or "err"; "none"
              \* until it does
  failed,     \* history: a system call of the last call failed, or found the
              \* end of the file
  waits,      \* history: polls of the read() in progress, each with the whole
              \* timeout
  queue,      \* the kernel's queue
  hw,         \* what the digitizer has reported
  fill,       \* events of the frame being reported
  due,        \* history: frames complete in the kernel and not yet returned
  missed      \* history: what kept events from the fields, if anything did

reader == <<pen, pc, call, nonblock, buf, ret, failed, waits>>
kernel == <<queue, hw, fill>>
vars == <<pen, pc, call, nonblock, buf, ret, failed, waits, queue, hw, fill, due, missed>>

\* Under an overflow of the kernel's queue a read() can go on polling.
WAIT_CAP == FRAME + 2

PenState == [last_bx : Abs \union {-1}, last_by : Abs \union {-1},
             last_pressure : Abs, tool : Tools, in_proximity : BOOLEAN,
             touch : BOOLEAN, s : [Buttons -> BOOLEAN], have_xy : BOOLEAN]

HwState == [bx : Abs \union {-1}, by : Abs \union {-1}, pressure : Abs,
            tool : Tools, touch : BOOLEAN, s : [Buttons -> BOOLEAN]]

TypeOK == /\ pen \in PenState
          /\ pc \in {"idle", "poll", "read", "apply", "repoll"}
          /\ call \in {"none", "read", "next", "poll_once"}
          /\ nonblock \in BOOLEAN
          /\ buf \in Seq(Event)
          /\ ret \in {"some", "none", "err"}
          /\ failed \in BOOLEAN
          /\ waits \in 0 .. WAIT_CAP
          /\ queue \in Seq(Event) /\ Len(queue) <= QLEN
          /\ hw \in HwState
          /\ fill \in 0 .. FRAME
          /\ missed \in {"nobody", "open", "kernel", "reader"}

-----------------------------------------------------------------------------
(* Folding an event into the fields, and the PenEvent they make. *)

\* Mutants of apply: an axis is mirrored when it is stored, not when it is
\* returned; a tool that leaves stays in proximity.
apply_mirrored(st, ev) ==
  IF ev.code = "ABS_X" THEN [st EXCEPT !.last_bx = BUF_W - 1 - ev.value] ELSE st
apply_tool_only(st, ev) ==
  IF ev.code \in ToolCodes
    THEN [st EXCEPT !.in_proximity = @ \/ ev.value # 0,
                    !.tool = IF ev.value # 0 THEN ToolOf[ev.code] ELSE "None"]
    ELSE st

\* Pen::apply, field by field.  SYN_DROPPED is ignored like any code it does
\* not know.
apply(st, ev) ==
  LET down == ev.value # 0
  IN  [st EXCEPT
         !.last_bx = IF ev.code = "ABS_X" THEN ev.value ELSE @,
         !.last_by = IF ev.code = "ABS_Y" THEN ev.value ELSE @,
         !.have_xy = @ \/ ev.code \in {"ABS_X", "ABS_Y"},
         !.last_pressure = IF ev.code = "ABS_PRESSURE" THEN ev.value ELSE @,
         !.in_proximity = IF ev.code \in ToolCodes THEN down ELSE @,
         !.tool = IF ev.code \in ToolCodes
                    THEN IF down THEN ToolOf[ev.code]
                         ELSE IF @ = ToolOf[ev.code] THEN "None" ELSE @
                    ELSE @,
         !.touch = IF ev.code = "BTN_TOUCH" THEN down ELSE @,
         !.s = [b \in Buttons |-> IF ev.code = b THEN down ELSE st.s[b]]]

\* Pen::snapshot: (-1, -1) until both axes have been reported.
Position(bx, by, seen) ==
  IF seen /\ bx >= 0 /\ by >= 0 THEN buf_to_screen(bx, by) ELSE <<-1, -1>>

snapshot(st) == [at |-> Position(st.last_bx, st.last_by, st.have_xy),
                 pressure |-> st.last_pressure, tool |-> st.tool,
                 in_proximity |-> st.in_proximity, touch |-> st.touch, s |-> st.s]

\* The same of the digitizer: what a PenEvent for its state should say.
Reported == [at |-> Position(hw.bx, hw.by, TRUE), pressure |-> hw.pressure,
             tool |-> hw.tool, in_proximity |-> hw.tool # "None",
             touch |-> hw.touch, s |-> hw.s]

-----------------------------------------------------------------------------
(* The digitizer and the kernel. *)

\* An event reaches the queue; a full queue is emptied and left with
\* SYN_DROPPED and the new event.
Enqueue(ev) ==
  IF Len(queue) < QLEN
    THEN queue' = Append(queue, ev) /\ UNCHANGED missed
    ELSE queue' = <<Dropped, ev>> /\ missed' = "kernel"

\* Values the digitizer can report next on a code: the kernel filters what has
\* not changed, and a tool leaves before another comes near.
Change(c, v) ==
  \/ c = "ABS_X" /\ v \in Abs \ {hw.bx}
  \/ c = "ABS_Y" /\ v \in Abs \ {hw.by}
  \/ c = "ABS_PRESSURE" /\ v \in Abs \ {hw.pressure}
  \/ c \in ToolCodes /\ v = 1 /\ hw.tool = "None"
  \/ c \in ToolCodes /\ v = 0 /\ hw.tool = ToolOf[c]
  \/ c = "BTN_TOUCH" /\ v \in {0, 1} /\ hw.touch # (v = 1)
  \/ c \in Buttons /\ v \in {0, 1} /\ hw.s[c] # (v = 1)

After(c, v) ==
  [hw EXCEPT
     !.bx = IF c = "ABS_X" THEN v ELSE @,
     !.by = IF c = "ABS_Y" THEN v ELSE @,
     !.pressure = IF c = "ABS_PRESSURE" THEN v ELSE @,
     !.tool = IF c \in ToolCodes THEN IF v = 1 THEN ToolOf[c] ELSE "None" ELSE @,
     !.touch = IF c = "BTN_TOUCH" THEN v = 1 ELSE @,
     !.s = [b \in Buttons |-> IF c = b THEN v = 1 ELSE hw.s[b]]]

Report(c, v) == /\ fill < FRAME /\ Change(c, v)
                /\ hw' = After(c, v)
                /\ fill' = fill + 1
                /\ Enqueue([code |-> c, value |-> v])
                /\ due' = IF missed' # "nobody" THEN <<>> ELSE due
                /\ UNCHANGED reader

EndFrame == /\ fill > 0
            /\ fill' = 0
            /\ Enqueue(Syn)
            /\ due' = IF missed' # "nobody" THEN <<>> ELSE Append(due, Reported)
            /\ UNCHANGED <<reader, hw>>

-----------------------------------------------------------------------------
(* The reader. *)

Leave(r) == pc' = "idle" /\ call' = "none" /\ waits' = 0 /\ ret' = r

Return(r) == Leave(r) /\ UNCHANGED failed
Fail(r)   == Leave(r) /\ failed' = TRUE

\* What the caller sees of an error: the iterator makes it a None.
Told == IF call = "next" THEN "none" ELSE "err"

\* The digitizer before anything happened to it, and as a pen can find it.
Untouched == [bx |-> -1, by |-> -1, pressure |-> 0, tool |-> "None",
              touch |-> FALSE, s |-> [b \in Buttons |-> FALSE]]
Found == {h \in HwState :
            /\ h.bx # -1 => "ABS_X" \in Codes
            /\ h.by # -1 => "ABS_Y" \in Codes
            /\ h.pressure # 0 => "ABS_PRESSURE" \in Codes
            /\ h.tool # "None" => \E c \in Codes \intersect ToolCodes : ToolOf[c] = h.tool
            /\ h.touch => "BTN_TOUCH" \in Codes
            /\ \A b \in Buttons : h.s[b] => b \in Codes}

\* Pen::open_path: all fields reset, whatever the digitizer is doing.  What it
\* reported before that, the kernel does not repeat.
Init == /\ pen = [last_bx |-> -1, last_by |-> -1, last_pressure |-> 0,
                  tool |-> "None", in_proximity |-> FALSE, touch |-> FALSE,
                  s |-> [b \in Buttons |-> FALSE], have_xy |-> FALSE]
        /\ pc = "idle" /\ call = "none" /\ nonblock = FALSE
        /\ buf = <<>> /\ ret = "none" /\ failed = FALSE /\ waits = 0
        /\ queue = <<>>
        /\ hw \in Found
        /\ missed = IF hw = Untouched THEN "nobody" ELSE "open"
        /\ fill = 0 /\ due = <<>>

set_nonblocking(n) == /\ pc = "idle"
                      /\ nonblock' = n
                      /\ UNCHANGED <<pen, pc, call, buf, ret, failed, waits, kernel, due, missed>>

\* Entry of read(timeout), of PenIter::next and of poll_once.
Start(c) == /\ pc = "idle"
            /\ pc' = "poll" /\ call' = c /\ ret' = "none" /\ failed' = FALSE
            /\ waits' = IF c = "read" THEN 1 ELSE 0
            /\ UNCHANGED <<pen, nonblock, buf, kernel, due, missed>>

\* poll(2): readable, timed out, or interrupted by a signal.
poll_ready == /\ pc \in {"poll", "repoll"} /\ queue # <<>>
              /\ pc' = "read"
              /\ UNCHANGED <<pen, call, nonblock, buf, ret, failed, waits, kernel, due, missed>>

\* Mutants of poll_timeout: the inner poll waits without a timeout; the time
\* is up although there is something to read.
poll_timeout_outer == /\ pc = "poll" /\ queue = <<>> /\ call # "next"
                      /\ Return("none")
                      /\ UNCHANGED <<pen, nonblock, buf, kernel, due, missed>>
poll_timeout_blind == /\ pc \in {"poll", "repoll"} /\ call # "next"
                      /\ Return("none")
                      /\ UNCHANGED <<pen, nonblock, buf, kernel, due, missed>>

poll_timeout == /\ pc \in {"poll", "repoll"} /\ queue = <<>> /\ call # "next"
                /\ Return("none")
                /\ UNCHANGED <<pen, nonblock, buf, kernel, due, missed>>

\* A failed poll, above all one that a signal interrupts.  The first poll makes
\* it an error; the second does not tell it from a timeout.
poll_signal == /\ pc \in {"poll", "repoll"}
               /\ Fail(IF pc = "poll" THEN Told ELSE "none")
               /\ UNCHANGED <<pen, nonblock, buf, kernel, due, missed>>

Chunk == IF call = "poll_once" THEN CHUNK_POLL ELSE CHUNK_READ

\* Mutant of read_chunk: one event too few is taken from the buffer.
read_chunk_short ==
  /\ pc = "read" /\ queue # <<>>
  /\ LET n == min(Chunk, Len(queue))
     IN  /\ buf' = SubSeq(queue, 1, max(n - 1, 1))
         /\ queue' = SubSeq(queue, n + 1, Len(queue))
  /\ pc' = "apply"
  /\ UNCHANGED <<pen, call, nonblock, ret, failed, waits, hw, fill, due, missed>>

\* read(2) takes what there is, up to the size of the buffer.
read_chunk == /\ pc = "read" /\ queue # <<>>
              /\ LET n == min(Chunk, Len(queue))
                 IN  /\ buf' = SubSeq(queue, 1, n)
                     /\ queue' = SubSeq(queue, n + 1, Len(queue))
              /\ pc' = "apply"
              /\ UNCHANGED <<pen, call, nonblock, ret, failed, waits, hw, fill, due, missed>>

\* Mutant of read_again: EAGAIN is tried again, like EINTR.
read_again_spins == /\ pc = "read" /\ queue = <<>> /\ nonblock
                    /\ UNCHANGED vars

\* EAGAIN on a nonblocking fd; on a blocking one read(2) would not return.
read_again == /\ pc = "read" /\ queue = <<>> /\ nonblock
              /\ Return("none")
              /\ UNCHANGED <<pen, nonblock, buf, kernel, due, missed>>

\* Any other error of read(2): the digitizer is gone.
read_error == /\ pc = "read"
              /\ Fail(Told)
              /\ UNCHANGED <<pen, nonblock, buf, kernel, due, missed>>

\* read(2) finds the end of the file, which the code takes for a timeout.  An
\* evdev device has none; another path given to open_path can.
read_eof == /\ pc = "read"
            /\ Fail("none")
            /\ UNCHANGED <<pen, nonblock, buf, kernel, due, missed>>

\* Mutants of apply_event: no second poll before the next read; a frame is
\* returned at the end of a chunk without its SYN_REPORT; a SYN_REPORT that ends
\* a chunk is passed over.
apply_event_no_repoll ==
  /\ pc = "apply" /\ Head(buf) # Syn
  /\ pen' = apply(pen, Head(buf))
  /\ buf' = Tail(buf)
  /\ pc' = IF Tail(buf) # <<>> THEN "apply" ELSE "read"
  /\ UNCHANGED <<call, nonblock, ret, failed, waits, kernel, due, missed>>
apply_event_eager ==
  /\ pc = "apply" /\ Head(buf) # Syn
  /\ pen' = apply(pen, Head(buf))
  /\ buf' = Tail(buf)
  /\ IF Tail(buf) # <<>> THEN UNCHANGED <<pc, call, ret, failed, waits>> ELSE Return("some")
  /\ UNCHANGED <<nonblock, kernel, due, missed>>

apply_event_past_last ==
  /\ pc = "apply" /\ (Head(buf) # Syn \/ Len(buf) = 1)
  /\ pen' = apply(pen, Head(buf))
  /\ buf' = Tail(buf)
  /\ pc' = IF Tail(buf) # <<>> THEN "apply"
           ELSE IF call = "poll_once" THEN "read" ELSE "repoll"
  /\ waits' = IF pc' = "repoll" /\ call = "read" THEN min(waits + 1, WAIT_CAP) ELSE waits
  /\ UNCHANGED <<call, nonblock, ret, failed, kernel, due, missed>>

\* One turn of the loop over the chunk, short of a SYN_REPORT.  After the last
\* event read() polls again and poll_once reads again.
apply_event ==
  /\ pc = "apply" /\ Head(buf) # Syn
  /\ pen' = apply(pen, Head(buf))
  /\ buf' = Tail(buf)
  /\ pc' = IF Tail(buf) # <<>> THEN "apply"
           ELSE IF call = "poll_once" THEN "read" ELSE "repoll"
  /\ waits' = IF pc' = "repoll" /\ call = "read" THEN min(waits + 1, WAIT_CAP) ELSE waits
  /\ UNCHANGED <<call, nonblock, ret, failed, kernel, due, missed>>

\* The first SYN_REPORT of the chunk ends the call; the rest of the chunk was
\* a local array and is gone.
deliver == /\ pc = "apply" /\ Head(buf) = Syn
           /\ Return("some")
           /\ buf' = <<>>
           /\ missed' = IF missed = "nobody" /\ Tail(buf) # <<>> THEN "reader" ELSE missed
           /\ due' = IF missed' # "nobody" THEN <<>> ELSE Tail(due)
           /\ UNCHANGED <<pen, nonblock, kernel>>

Reader == \/ poll_ready \/ poll_timeout
          \/ read_chunk \/ read_again
          \/ apply_event \/ deliver

Next == \/ \E c \in Codes, v \in Abs \union {0, 1} : Report(c, v)
        \/ EndFrame
        \/ \E n \in BOOLEAN : set_nonblocking(n)
        \/ \E c \in {"read", "next", "poll_once"} : Start(c)
        \/ poll_signal \/ read_error \/ read_eof
        \/ Reader

\* The thread of a call in progress keeps running; the digitizer, signals and
\* new calls come when they come.
Spec == Init /\ [][Next]_vars /\ WF_vars(Reader)

-----------------------------------------------------------------------------
(* What the reader promises. *)

\* A PenEvent in proximity names the tool, in whatever order tools come and go
\* and whatever events are missed (Pen::apply).
ProximityHasTool == pen.in_proximity => pen.tool # "None"

\* Inside read() and next() read(2) is only entered with something to read, so
\* on a blocking fd too the only place they wait is poll(2), which has a timeout
\* (pen.rs:147, 188-194).  How long they wait there is ReadWaitBounded's.
ReadNeverBlocks == pc = "read" /\ call # "poll_once" => queue # <<>>

\* The fields once the events of w have been folded into them, one by one.
Folded(st, w) ==
  LET f[n \in 0 .. Len(w)] == IF n = 0 THEN st ELSE apply(f[n - 1], w[n])
  IN  f[Len(w)]

\* As long as no event was missed, the fields, the rest of the chunk and the
\* kernel's queue together hold what the digitizer has reported, and one
\* SYN_REPORT for every frame still to be returned (Pen::read, apply).
NothingLost ==
  missed = "nobody" =>
    LET w == buf \o queue
    IN  /\ snapshot(Folded(pen, w)) = Reported
        /\ Len(due) = Cardinality({i \in 1 .. Len(w) : w[i] = Syn})

\* As long as no event was missed, what a call returns is the digitizer's
\* state at the end of the oldest frame not yet returned: frames come out
\* whole, in order and once, however they are split over chunks and calls.
DeliverStep == missed = "nobody" /\ pc = "apply" /\ pc' = "idle" /\ ret' = "some" =>
                 due # <<>> /\ snapshot(pen') = Head(due)
FramesInOrder == [][DeliverStep]_vars

\* A read() with a timeout returns, unless the kernel's queue overflows for
\* ever under it: no stream of partial frames keeps it (pen.rs:139-140).
Overflow == queue' # <<>> /\ queue'[1] = Dropped /\ queue # queue'
ReadReturns == <>[][~Overflow]_vars =>
                 (pc # "idle" /\ call = "read" ~> pc = "idle")

\* A nonblocking poll_once() returns too, whatever pieces of frames it finds: it
\* cannot spin on an empty queue (pen.rs:246-278).
PollOnceReturns == <>[][~Overflow]_vars =>
                     (pc # "idle" /\ call = "poll_once" /\ nonblock ~> pc = "idle")

\* "Blocks up to timeout_ms" (pen.rs:139) is not so: every chunk without a
\* SYN_REPORT starts the timeout again (pen.rs:188-194).  What read() keeps to:
\* it waits for one timeout more at most than a frame has events, wherever in a
\* frame the last call gave up, until the kernel's queue overflows.
ReadWaitBounded == call = "read" /\ missed # "kernel" => waits <= FRAME + 1

\* Unless a system call failed under it, no call comes back with nothing while a
\* frame is due, and the iterator does not end: a timeout or an EAGAIN cannot
\* overtake a frame, nor a chunk that ends inside one (pen.rs:147-197).  When one
\* failed, the iterator ends like that too: the "panics" of pen.rs:294-296 is not
\* so, every error becomes a None (384-387).
EmptyStep == /\ pc # "idle" /\ pc' = "idle" /\ ret' = "none"
             /\ call = "next" \/ due # <<>>
             => failed'
EmptyHanded == [][EmptyStep]_vars

\* One PenEvent per SYN_REPORT (pen.rs:46): between frames, with the queue
\* drained, the fields say what the digitizer reported, unless the kernel
\* itself dropped events, or had them before the pen was opened.
DrainedPenIsCurrent ==
  pc = "idle" /\ queue = <<>> /\ fill = 0 /\ missed \notin {"open", "kernel"} =>
    snapshot(pen) = Reported
=============================================================================
