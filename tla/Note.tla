-------------------------------- MODULE Note --------------------------------
(***************************************************************************)
(* The note-taking program (hweink-note/src/main.rs): its start, its event *)
(* loop and its end, as one process among others on the device.  Its       *)
(* handle and its surface move by the actions of Device; the handles and   *)
(* surfaces of other processes move by themselves.                         *)
(*                                                                         *)
(* A PenEvent is kept to what the loop looks at: the tool, the touch flag  *)
(* and whether the position is on the screen.  Each stroke or clear is one *)
(* Draw scope, opened and dropped in one step.                             *)
(***************************************************************************)
EXTENDS Device, Strokes

CONSTANTS
  me,         \* the program's process
  ebc,        \* its handle
  mine,       \* its surface
  KEYS        \* most key events waiting

ASSUME NoteAssumption == /\ me \in Procs /\ ebc \in Ebcs /\ mine \in Surfaces
                         /\ \A e \in Ebcs : owner[e] = me <=> e = ebc
                         /\ KEYS \in Nat

VARIABLES
  pc,         \* where main() is
  fate,       \* how it ended
  EXIT,       \* set by the signal handler
  handlers,   \* the handlers are installed
  keys        \* key events waiting

device == <<fds, at, surf, on, lost, stuck>>
process == <<pc, fate, EXIT, handlers, keys>>
all == <<device, stroke, process>>

Start == {"open", "opening", "surface", "white", "pen", "handlers"}
Loop == {"loop", "keys", "am", "read"}

NoteTypeOK == /\ TypeOK /\ StrokeTypeOK
              /\ pc \in Start \union Loop \union {"drop", "ended"}
              /\ fate \in {"running", "returned", "panicked", "interrupted", "killed"}
              /\ EXIT \in BOOLEAN /\ handlers \in BOOLEAN
              /\ keys \in 0 .. KEYS

NoteInit == /\ Init /\ StrokeInit
            /\ pc = "open" /\ fate = "running"
            /\ EXIT = FALSE /\ handlers = FALSE /\ keys = 0

-----------------------------------------------------------------------------
(* The start.  Every expect() unwinds, which drops what is alive. *)

Goto(from, to) == pc = from /\ pc' = to /\ UNCHANGED <<fate, EXIT, handlers, keys, stroke>>

Panic(from) == /\ pc = from /\ pc' = "drop"
               /\ fate' = "panicked"
               /\ UNCHANGED <<EXIT, handlers, keys, stroke>>

open_ebc == \/ open(ebc, "info") /\ Goto("open", "opening")
            \/ UNCHANGED device /\ Panic("open")

opening == \/ get_buffer_info(ebc, TRUE) /\ Goto("opening", "opening")
           \/ mmap(ebc, TRUE) /\ Goto("opening", "surface")
           \/ (get_buffer_info(ebc, FALSE) \/ mmap(ebc, FALSE)) /\ Panic("opening")

enable_overlay == \/ new(mine, ebc, "Osd") /\ Goto("surface", "white")
                  \/ UNCHANGED device /\ Panic("surface")

\* One scope clears the screen; then the program sleeps.
clear_white == UNCHANGED device /\ Goto("white", "pen")

open_pen == UNCHANGED device /\ (Goto("pen", "handlers") \/ Panic("pen"))

install_signal_handlers == /\ pc = "handlers" /\ pc' = "loop"
                           /\ handlers' = TRUE
                           /\ UNCHANGED <<device, fate, EXIT, keys, stroke>>

-----------------------------------------------------------------------------
(* The loop. *)

\* Mutant of check_exit: nothing looks at EXIT.
check_exit_never == UNCHANGED device /\ Goto("loop", "keys")

check_exit == /\ UNCHANGED device
              /\ Goto("loop", IF EXIT THEN "drop" ELSE "keys")

\* Mutant of drain_key: one more event is taken than was read.
drain_key_blind == /\ pc = "keys"
                   /\ keys' = keys - 1
                   /\ UNCHANGED <<device, pc, fate, EXIT, handlers, stroke>>

\* drain_keys: it reads until nothing is left, and acts on each press.  F24
\* clears the screen in a scope of its own; F8 runs the am command.
drain_key == /\ pc = "keys" /\ keys > 0
             /\ keys' = keys - 1
             /\ pc' \in {"keys", "am"}
             /\ UNCHANGED <<device, fate, EXIT, handlers, stroke>>

drain_done == keys = 0 /\ UNCHANGED device /\ Goto("keys", "read")

\* Pen::read returned a frame.
frame(ev) ==
  /\ pc = "read" /\ pc' = "loop"
  /\ Stroke(ev)
  /\ UNCHANGED <<device, fate, EXIT, handlers, keys>>

no_frame == UNCHANGED device /\ Goto("read", "loop")

\* An error of the pen, or a signal during its poll(2): the loop breaks.
read_error == UNCHANGED device /\ Goto("read", "drop")

-----------------------------------------------------------------------------
(* The end. *)

\* Mutant of finish: the process exits past the destructors.
finish_without_drop == /\ pc = "drop" /\ pc' = "ended"
                       /\ fate' = IF fate = "running" THEN "returned" ELSE fate
                       /\ fds' = [fds EXCEPT ![me] = 0]
                       /\ at' = [at EXCEPT ![ebc] = "none"]
                       /\ surf' = [surf EXCEPT ![mine] = None]
                       /\ UNCHANGED <<on, lost, stuck, EXIT, handlers, keys, stroke>>

\* The surface goes first, then the handle, whether main() returns or unwinds.
finish == /\ pc = "drop"
          /\ \/ /\ \E ok \in BOOLEAN : drop(mine, ok)
                /\ UNCHANGED <<pc, fate>>
             \/ /\ IF at[ebc] = "none" THEN UNCHANGED device ELSE drop_ebc(ebc)
                /\ pc' = "ended"
                /\ fate' = IF fate = "running" THEN "returned" ELSE fate
          /\ UNCHANGED <<EXIT, handlers, keys, stroke>>

Die(how) == /\ IF fds[me] > 0 THEN crash(me) ELSE UNCHANGED device
            /\ pc' = "ended" /\ fate' = how
            /\ UNCHANGED <<EXIT, handlers, keys, stroke>>

\* SIGINT or SIGTERM; without the handler it kills.
interrupt == /\ pc # "ended"
             /\ IF handlers
                  THEN EXIT' = TRUE /\ UNCHANGED <<device, pc, fate, handlers, keys, stroke>>
                  ELSE Die("interrupted")

kill == pc # "ended" /\ Die("killed")

\* force_full_refresh waits for the command inside drain_keys; when it comes
\* back is not up to the program.
am_returns == UNCHANGED device /\ Goto("am", "keys")

press == /\ pc # "ended" /\ keys < KEYS
         /\ keys' = keys + 1
         /\ UNCHANGED <<device, pc, fate, EXIT, handlers, stroke>>

\* The handles, surfaces and processes that are not the program's.
Others ==
  /\ \/ \E e \in Ebcs \ {ebc} : Handle(e)
     \/ \E s \in Surfaces \ {mine}, e \in Ebcs \ {ebc}, P \in Paths : new(s, e, P)
     \/ \E s \in Surfaces \ {mine}, ok \in BOOLEAN : drop(s, ok)
     \/ \E p \in Procs \ {me} : crash(p)
  /\ UNCHANGED <<process, stroke>>

Main == \/ open_ebc \/ opening \/ enable_overlay \/ clear_white \/ open_pen
        \/ install_signal_handlers
        \/ check_exit \/ drain_key \/ drain_done
        \/ \E ev \in Events : frame(ev)
        \/ no_frame \/ read_error
        \/ finish

NoteNext == Main \/ am_returns \/ interrupt \/ kill \/ press \/ Others

\* The program's one thread keeps running: Pen::read(20) returns (ReadReturns
\* of Pen) and its other calls do not wait for anyone, but for am.
NoteSpec == NoteInit /\ [][NoteNext]_all /\ WF_all(Main)

-----------------------------------------------------------------------------
(* What the program promises. *)

\* The pen never touches the screen without leaving a mark: the loop's stroke
\* state cannot reach "drawing" without a last point (main.rs:187-196).
TouchMarks == [][\A ev \in Events : frame(ev) /\ Touching(ev) => drew' # "nothing"]_all

\* A program that returns or panics has given back its surface and its handle,
\* and the overlay is off unless another surface holds it on, or something
\* left it on that was not this program's doing or was a failed ioctl.
LeavesNothing ==
  pc = "ended" /\ fate \in {"returned", "panicked"} =>
    /\ fds[me] = 0 /\ ~Alive(mine)
    /\ on["Osd"] => \/ \E s \in Surfaces \ {mine} : Alive(s) /\ surf[s].path = "Osd"
                    \/ "Osd" \in stuck

\* Once the handlers are in place, a SIGINT or SIGTERM ends the program, if the
\* keys are not pressed for ever and no am command hangs: the loop waits for it
\* with the pen and EXIT unread (main.rs:36-39, 135-138, 258).
ExitEnds == /\ <>[][~press]_all
            /\ pc = "am" ~> pc # "am"
            => (EXIT ~> pc = "ended")

\* Ctrl-C quits (main.rs:14) without "leaving the OSD overlay enabled"
\* (main.rs:36-39).
CtrlCTurnsOff == fate = "interrupted" => ~on["Osd"]
=============================================================================
