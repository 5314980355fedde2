----------------------------- MODULE NoteProofs -----------------------------
(***************************************************************************)
(* Theorems about Note: it is a user of Device, it leaves nothing behind,  *)
(* and its strokes are whole, for any other users of the device and any    *)
(* pen.                                                                    *)
(***************************************************************************)
EXTENDS Note, DeviceProofs

\* The stroke state: a stroke in progress has a last point, the pen has been
\* on it since, and its smoother was reset at its start.
StrokeInv == /\ cur_tool \in Tools /\ drawing \in BOOLEAN /\ last \in BOOLEAN
             /\ drew \in {"nothing", "dot", "segment"} /\ unbroken \in BOOLEAN
             /\ smoother \in {"fresh", "stale"}
             /\ drawing => last /\ unbroken
             /\ FreshPressure

LEMMA StrokeStep == StrokeInv /\ [NoteNext]_all => StrokeInv'
<1> SUFFICES ASSUME StrokeInv, [NoteNext]_all PROVE StrokeInv'
  OBVIOUS
<1>1. ASSUME NEW ev \in Events, frame(ev) PROVE StrokeInv'
  <2>1. ev.tool \in Tools /\ ev.touch \in BOOLEAN /\ ev.on \in BOOLEAN
    BY DEF Events
  <2>2. cur_tool' \in Tools /\ drawing' \in BOOLEAN /\ last' \in BOOLEAN
    BY <1>1, <2>1 DEF frame, Stroke, LastAfter, Touching, During, From, Swapped, StrokeInv
  <2>3. drew' \in {"nothing", "dot", "segment"} /\ unbroken' \in BOOLEAN
    BY <1>1, <2>1 DEF frame, Stroke, Mark, StrokeInv
  <2>4. drawing' => last'
    BY <1>1, <2>1 DEF frame, Stroke, LastAfter, Touching, During, From, Swapped, StrokeInv
  <2>5. drawing' => unbroken'
    BY <1>1, <2>1 DEF frame, Stroke, Mark, Touching, During, From, Swapped, StrokeInv
  <2>6. smoother' \in {"fresh", "stale"} /\ FreshPressure'
    BY <1>1, <2>1 DEF frame, Stroke, SmootherAfter, Touching, During, Swapped, StrokeInv,
                      FreshPressure
  <2> QED BY <2>2, <2>3, <2>4, <2>5, <2>6 DEF StrokeInv
<1>2. CASE UNCHANGED stroke
  BY <1>2 DEF stroke, StrokeInv, FreshPressure
<1>3. (\A ev \in Events : ~frame(ev)) => UNCHANGED stroke
  BY DEF NoteNext, Main, all, Goto, Panic, open_ebc, opening, enable_overlay,
         clear_white, open_pen, install_signal_handlers, check_exit, drain_key,
         drain_done, no_frame, read_error, finish, am_returns, interrupt, kill, press,
         Others, Die
<1> QED BY <1>1, <1>2, <1>3

LEMMA StrokeInvariance == NoteSpec => []StrokeInv
<1>1. NoteInit => StrokeInv
  BY StrokesAssumption DEF NoteInit, StrokeInit, StrokeInv, FreshPressure
<1> QED BY <1>1, StrokeStep, PTL DEF NoteSpec

\* A pen stroke's width never mixes in the pressure of another stroke.
THEOREM PressureIsFresh == NoteSpec => []FreshPressure
<1>1. StrokeInv => FreshPressure
  BY DEF StrokeInv
<1> QED BY <1>1, StrokeInvariance, PTL

\* Segments never bridge a lift or a change of tool.
THEOREM StrokesAreWhole == NoteSpec => SegmentsUnbroken
<1>1. StrokeInv /\ [NoteNext]_all => [SegmentStep]_stroke
  <2> SUFFICES ASSUME StrokeInv, NoteNext, drew' = "segment", stroke' # stroke
               PROVE  unbroken /\ cur_tool' = cur_tool
    BY DEF SegmentStep, all
  <2>1. ASSUME NEW ev \in Events, frame(ev) PROVE unbroken /\ cur_tool' = cur_tool
    BY <2>1 DEF frame, Stroke, Mark, During, From, Swapped, StrokeInv
  <2>2. (\A ev \in Events : ~frame(ev)) => UNCHANGED stroke
    BY DEF NoteNext, Main, Goto, Panic, open_ebc, opening, enable_overlay,
           clear_white, open_pen, install_signal_handlers, check_exit, drain_key,
           drain_done, no_frame, read_error, finish, am_returns, interrupt, kill, press,
         Others, Die
  <2> QED BY <2>1, <2>2
<1> QED BY <1>1, StrokeInvariance, PTL DEF NoteSpec, SegmentsUnbroken

\* A touch on the screen is never swallowed by the stroke state.
THEOREM TouchesMark == NoteSpec => TouchMarks
<1> DEFINE Marks == \A ev \in Events : frame(ev) /\ Touching(ev) => drew' # "nothing"
<1>1. StrokeInv => [Marks]_all
  BY DEF frame, Stroke, Mark, During, From, Swapped, StrokeInv
<1> QED BY <1>1, StrokeInvariance, PTL DEF TouchMarks

-----------------------------------------------------------------------------
\* The program's steps on the device are steps of Device, whose invariants carry
\* over.
LEMMA DeviceSteps == NoteSpec => Spec
<1>1. NoteInit => Init
  BY DEF NoteInit
<1>2. [NoteNext]_all => [Next]_vars
  <2> SUFFICES ASSUME NoteNext PROVE Next \/ UNCHANGED vars
    BY DEF all, device, vars
  <2> USE NoteAssumption
  <2>1. CASE open_ebc
    BY <2>1 DEF open_ebc, Next, Handle, device, vars
  <2>2. CASE opening
    BY <2>2 DEF opening, Next, Handle
  <2>3. CASE enable_overlay
    BY <2>3 DEF enable_overlay, Next, Paths, device, vars
  <2>4. CASE clear_white \/ open_pen \/ install_signal_handlers \/ check_exit
             \/ drain_key \/ drain_done \/ no_frame \/ read_error \/ am_returns \/ press
    BY <2>4 DEF clear_white, open_pen, install_signal_handlers, check_exit, drain_key,
                drain_done, no_frame, read_error, am_returns, press, device, vars
  <2>5. ASSUME NEW ev \in Events, frame(ev) PROVE UNCHANGED vars
    BY <2>5 DEF frame, device, vars
  <2>6. CASE finish
    BY <2>6 DEF finish, Next, Handle, device, vars
  <2>7. CASE interrupt \/ kill
    BY <2>7 DEF interrupt, kill, Die, Next, device, vars
  <2>8. CASE Others
    BY <2>8 DEF Others, Next
  <2> QED BY <2>1, <2>2, <2>3, <2>4, <2>5, <2>6, <2>7, <2>8 DEF NoteNext, Main
<1> QED BY <1>1, <1>2, PTL DEF NoteSpec, Spec

-----------------------------------------------------------------------------
\* How main() and the device hang together: which calls have been made when,
\* and nobody else's surface is on the program's handle.
Tied == /\ pc \in Start \union Loop \union {"drop", "ended"}
        /\ \A s \in Surfaces \ {mine} : Alive(s) => surf[s].ebc # ebc
        /\ Alive(mine) => surf[mine].ebc = ebc /\ at[ebc] = "open"
        /\ lost[me] = 0
        /\ pc \in {"open", "opening", "surface", "ended"} => ~Alive(mine)
        /\ pc \in {"open", "ended"} => at[ebc] = "none"
        /\ pc = "opening" => at[ebc] \in {"info", "map"}
        /\ pc = "drop" => at[ebc] \in {"none", "open"}
        /\ pc \notin {"open", "opening", "drop", "ended"} => at[ebc] = "open"

LEMMA DeviceInvariance == NoteSpec => [](Inv /\ OffWhenUnused)
BY DeviceSteps, Invariance, UnusedPathIsOff, PTL

LEMMA OwnEmpty ==
  ASSUME Inv, lost[me] = 0
  PROVE  fds[me] = 0 <=> at[ebc] = "none"
<1>1. Owned(me) = IF at[ebc] = "none" THEN {} ELSE {ebc}
  BY NoteAssumption DEF Owned
<1>2. fds[me] = Cardinality(Owned(me))
  BY NoteAssumption, OwnedFinite DEF Inv, FdsAccounted
<1>3. Cardinality({}) = 0 /\ Cardinality({ebc}) = 1
  BY FS_EmptySet, FS_Singleton
<1> QED BY <1>1, <1>2, <1>3

LEMMA TiedStep == Tied /\ Inv /\ [NoteNext]_all => Tied'
<1> SUFFICES ASSUME Tied, Inv, [NoteNext]_all PROVE Tied'
  OBVIOUS
<1> USE NoteAssumption
<1>0. /\ at \in [Ebcs -> States]
      /\ surf \in [Surfaces -> Held \union {None}]
      /\ lost \in [Procs -> 0 .. NFILE]
  BY DEF Inv, TypeOK, States
<1>1. CASE UNCHANGED device /\ UNCHANGED pc
  BY <1>1 DEF Tied, device, Alive
<1>2. CASE open_ebc
  <2>1. CASE open(ebc, "info") /\ Goto("open", "opening")
    <3>1. at'[ebc] = "info" /\ UNCHANGED <<surf, lost>> /\ pc = "open" /\ pc' = "opening"
      BY <1>0, <2>1 DEF open, Goto
    <3> QED BY <3>1 DEF Tied, Alive, Start
  <2>2. CASE UNCHANGED device /\ Panic("open")
    BY <2>2 DEF Tied, Panic, device, Alive
  <2> QED BY <1>2, <2>1, <2>2 DEF open_ebc
<1>3. CASE opening
  <2>1. UNCHANGED <<surf, lost>> /\ pc = "opening"
    BY <1>3 DEF opening, get_buffer_info, mmap, Advance, Close, Goto, Panic
  <2>2. \/ pc' = "opening" /\ at'[ebc] = "map"
        \/ pc' = "surface" /\ at'[ebc] = "open"
        \/ pc' = "drop" /\ at'[ebc] = "none"
    BY <1>0, <1>3 DEF opening, get_buffer_info, mmap, Advance, Close, Goto, Panic
  <2> QED BY <2>1, <2>2 DEF Tied, Alive, Start
<1>4. CASE enable_overlay
  <2>1. CASE new(mine, ebc, "Osd") /\ Goto("surface", "white")
    <3>1. surf'[mine] = [ebc |-> ebc, path |-> "Osd"]
      BY <1>0, <2>1 DEF new
    <3>2. \A s \in Surfaces \ {mine} : surf'[s] = surf[s]
      BY <1>0, <2>1 DEF new
    <3>3. /\ pc' = "white" /\ at[ebc] = "open"
          /\ UNCHANGED <<at, lost>>
      BY <2>1 DEF new, Goto, Tied
    <3> QED BY <3>1, <3>2, <3>3 DEF Tied, Alive, Start
  <2>2. CASE UNCHANGED device /\ Panic("surface")
    BY <2>2 DEF Tied, Panic, device, Alive
  <2> QED BY <1>4, <2>1, <2>2 DEF enable_overlay
<1>5. CASE \/ clear_white \/ open_pen \/ check_exit \/ drain_done \/ no_frame
           \/ read_error \/ am_returns
  BY <1>5 DEF clear_white, open_pen, check_exit, drain_done, no_frame, read_error,
              am_returns, Goto, Panic, Tied, device, Alive, Start, Loop
<1>6. CASE install_signal_handlers
  BY <1>6 DEF install_signal_handlers, Tied, device, Alive, Start, Loop
<1>7. ASSUME NEW ev \in Events, frame(ev) PROVE Tied'
  BY <1>7 DEF frame, Tied, device, Alive, Loop
<1>8. CASE drain_key \/ press
  BY <1>8 DEF drain_key, press, Tied, device, Alive, Loop
<1>9. CASE finish
  <2>1. ASSUME NEW ok \in BOOLEAN, drop(mine, ok), UNCHANGED pc PROVE Tied'
    <3>1. surf'[mine] = None /\ \A s \in Surfaces \ {mine} : surf'[s] = surf[s]
      BY <1>0, <2>1 DEF drop
    <3> QED BY <2>1, <3>1 DEF drop, Tied, Alive
  <2>2. CASE pc' = "ended" /\ IF at[ebc] = "none" THEN UNCHANGED device ELSE drop_ebc(ebc)
    <3>1. ~Alive(mine)
      BY <2>2 DEF drop_ebc, Borrowed, Tied
    <3>2. at'[ebc] = "none" /\ UNCHANGED <<surf, lost>>
      BY <1>0, <2>2 DEF drop_ebc, Close, device
    <3> QED BY <2>2, <3>1, <3>2 DEF Tied, Alive
  <2> QED BY <1>9, <2>1, <2>2 DEF finish
<1>10. CASE interrupt \/ kill
  <2>1. CASE UNCHANGED device /\ UNCHANGED pc
    BY <1>1, <2>1
  <2>2. CASE fds[me] > 0 /\ crash(me) /\ pc' = "ended"
    <3>1. ~Alive(mine)'
      BY <1>0, <2>2 DEF crash, Alive, Tied
    <3>2. \A s \in Surfaces : surf'[s] = surf[s] \/ surf'[s] = None
      BY <1>0, <2>2 DEF crash
    <3>3. at'[ebc] = "none" /\ lost'[me] = 0
      BY <1>0, <2>2 DEF crash
    <3> QED BY <2>2, <3>1, <3>2, <3>3 DEF Tied, Alive
  <2>3. CASE ~(fds[me] > 0) /\ UNCHANGED device /\ pc' = "ended"
    <3>1. fds[me] = 0
      BY <2>3 DEF Inv, TypeOK
    <3>2. at[ebc] = "none"
      BY <3>1, OwnEmpty DEF Tied
    <3> QED BY <2>3, <3>2 DEF Tied, device, Alive
  <2> QED BY <1>10, <2>1, <2>2, <2>3 DEF interrupt, kill, Die
<1>11. CASE Others
  <2>0. UNCHANGED pc
    BY <1>11 DEF Others, process
  <2>1. ASSUME NEW e \in Ebcs \ {ebc}, Handle(e) PROVE Tied'
    <3>1. at'[ebc] = at[ebc] /\ UNCHANGED surf
      BY <1>0, <2>1 DEF Handle, open, get_buffer_info, mmap, probe_buffer_info, drop_ebc,
                        Close, Advance
    <3>2. owner[e] # me
      OBVIOUS
    <3>3. lost'[me] = lost[me]
      BY <1>0, <2>1, <3>2 DEF Handle, open, get_buffer_info, mmap, probe_buffer_info,
                              drop_ebc, Close, Advance
    <3> QED BY <2>0, <3>1, <3>3 DEF Tied, Alive
  <2>2. ASSUME NEW s \in Surfaces \ {mine}, NEW e \in Ebcs \ {ebc}, NEW P \in Paths,
               new(s, e, P)
        PROVE  Tied'
    <3>1. surf'[s] = [ebc |-> e, path |-> P]
          /\ \A t \in Surfaces \ {s} : surf'[t] = surf[t]
      BY <1>0, <2>2 DEF new
    <3> QED BY <2>0, <2>2, <3>1 DEF new, Tied, Alive
  <2>3. ASSUME NEW s \in Surfaces \ {mine}, NEW ok \in BOOLEAN, drop(s, ok) PROVE Tied'
    <3>1. surf'[s] = None /\ \A t \in Surfaces \ {s} : surf'[t] = surf[t]
      BY <1>0, <2>3 DEF drop
    <3> QED BY <2>0, <2>3, <3>1 DEF drop, Tied, Alive
  <2>4. ASSUME NEW p \in Procs \ {me}, crash(p) PROVE Tied'
    <3>1. at'[ebc] = at[ebc] /\ lost'[me] = lost[me]
      BY <1>0, <2>4 DEF crash
    <3>2. Alive(mine) => surf'[mine] = surf[mine]
      BY <1>0, <2>4 DEF crash, Tied, Alive
    <3>3. \A s \in Surfaces : surf'[s] = surf[s] \/ surf'[s] = None
      BY <1>0, <2>4 DEF crash
    <3> QED BY <2>0, <3>1, <3>2, <3>3 DEF Tied, Alive
  <2> QED BY <1>11, <2>1, <2>2, <2>3, <2>4 DEF Others
<1>12. CASE UNCHANGED all
  BY <1>1, <1>12 DEF all, process
<1> QED BY <1>2, <1>3, <1>4, <1>5, <1>6, <1>7, <1>8, <1>9, <1>10, <1>11, <1>12
        DEF NoteNext, Main

\* A program that returns or panics leaves no handle, no surface, and no
\* overlay of its own.
THEOREM NothingLeftBehind == NoteSpec => []LeavesNothing
<1>1. NoteInit => Tied
  BY NoteAssumption DEF NoteInit, Init, Tied, Alive, Start
<1>2. Tied /\ Inv /\ OffWhenUnused => LeavesNothing
  <2> SUFFICES ASSUME Tied, Inv, OffWhenUnused, pc = "ended"
               PROVE  /\ fds[me] = 0 /\ ~Alive(mine)
                      /\ on["Osd"] =>
                           \/ \E s \in Surfaces \ {mine} : Alive(s) /\ surf[s].path = "Osd"
                           \/ "Osd" \in stuck
    BY DEF LeavesNothing
  <2>1. fds[me] = 0 /\ ~Alive(mine)
    BY OwnEmpty DEF Tied
  <2> QED BY <2>1 DEF OffWhenUnused, Paths
<1> QED BY <1>1, <1>2, TiedStep, DeviceInvariance, PTL DEF NoteSpec

-----------------------------------------------------------------------------
\* The parts of NoteTypeOK that the other invariants do not say.
ProcessTyped == /\ fate \in {"running", "returned", "panicked", "interrupted", "killed"}
                /\ EXIT \in BOOLEAN /\ handlers \in BOOLEAN
                /\ keys \in 0 .. KEYS

LEMMA ProcessTypedStep == ProcessTyped /\ [NoteNext]_all => ProcessTyped'
<1> SUFFICES ASSUME ProcessTyped, [NoteNext]_all PROVE ProcessTyped'
  OBVIOUS
<1> USE NoteAssumption
<1>1. CASE UNCHANGED <<fate, EXIT, handlers, keys>>
  BY <1>1 DEF ProcessTyped
<1>2. CASE UNCHANGED <<EXIT, handlers, keys>> /\ fate' \in {"panicked", "returned", "killed",
                                                            "interrupted", fate}
  BY <1>2 DEF ProcessTyped
<1>3. CASE install_signal_handlers \/ interrupt
  BY <1>3 DEF install_signal_handlers, interrupt, Die, ProcessTyped
<1>4. CASE drain_key \/ press
  BY <1>4 DEF drain_key, press, ProcessTyped
<1>5. ASSUME NEW ev \in Events, frame(ev) PROVE ProcessTyped'
  BY <1>1, <1>5 DEF frame
<1>6. CASE open_ebc \/ opening \/ enable_overlay \/ clear_white \/ open_pen
  BY <1>1, <1>2, <1>6 DEF open_ebc, opening, enable_overlay, clear_white, open_pen, Goto, Panic
<1>7. CASE check_exit \/ drain_done \/ no_frame \/ read_error \/ am_returns
  BY <1>1, <1>7 DEF check_exit, drain_done, no_frame, read_error, am_returns, Goto
<1>8. CASE finish \/ kill \/ Others
  BY <1>1, <1>2, <1>8 DEF finish, kill, Die, Others, process
<1>9. CASE UNCHANGED all
  BY <1>1, <1>9 DEF all, process
<1> QED BY <1>3, <1>4, <1>5, <1>6, <1>7, <1>8, <1>9 DEF NoteNext, Main

\* The program's state stays well formed: in particular the keys taken never
\* outnumber those pressed, and main() is always at a place the code has.
THEOREM NoteTypeCorrect == NoteSpec => []NoteTypeOK
<1>0. NoteInit => Tied
  BY NoteAssumption DEF NoteInit, Init, Tied, Alive, Start
<1>1. NoteInit => ProcessTyped
  <2>1. 0 \in 0 .. KEYS
    BY NoteAssumption
  <2> QED BY <2>1 DEF NoteInit, ProcessTyped
<1>2. Tied /\ ProcessTyped /\ StrokeInv /\ Inv => NoteTypeOK
  BY DEF Tied, ProcessTyped, StrokeInv, StrokeTypeOK, Inv, NoteTypeOK
<1> QED BY <1>0, <1>1, <1>2, TiedStep, ProcessTypedStep, StrokeInvariance, DeviceInvariance, PTL
        DEF NoteSpec
=============================================================================
