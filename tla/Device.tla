------------------------------- MODULE Device -------------------------------
(***************************************************************************)
(* Handles on /dev/ebc and the surfaces opened on them (libhweink/src/     *)
(* ebc.rs, path.rs), in several processes.  Each handle owns a file        *)
(* descriptor of its process.  Each surface turns its render path on when  *)
(* it is made and off when it is dropped; the switch is one flag per path  *)
(* in the driver, shared by all surfaces of all processes, and the driver  *)
(* keeps it when a process dies.                                           *)
(*                                                                         *)
(* Opening is several system calls, and any of them can fail.  The queries *)
(* of the format and of the buffer offsets ignore their failures and keep  *)
(* nothing the properties tell apart; they are left out.                   *)
(***************************************************************************)
EXTENDS Integers, FiniteSets

CONSTANTS
  Procs,      \* processes
  Ebcs,       \* handles
  owner,      \* the process a handle is opened in
  Surfaces,   \* surfaces
  None,       \* no surface
  NFILE       \* descriptors a process may have

Paths == {"Osd", "Main"}
Held == [ebc : Ebcs, path : Paths]

ASSUME DeviceAssumption == /\ IsFiniteSet(Ebcs)
                           /\ owner \in [Ebcs -> Procs]
                           /\ None \notin Held
                           /\ NFILE \in Nat \ {0}

VARIABLES
  fds,        \* descriptors on /dev/ebc the kernel has open for each process
  at,         \* how far the handle is: "none"; "info" and "map" inside open_path,
              \* "probe" inside open_info_path; "open"; "probed" (no mapping)
  surf,       \* the surfaces alive: the handle they borrow and their path
  on,         \* the driver's switch of each path: overlay enabled, HWC blanked
  lost,       \* history: descriptors left behind by failed probes
  stuck       \* history: paths left on by a dead process or a failed ioctl

vars == <<fds, at, surf, on, lost, stuck>>

TypeOK == /\ fds \in [Procs -> 0 .. NFILE]
          /\ at \in [Ebcs -> {"none", "info", "map", "probe", "open", "probed"}]
          /\ surf \in [Surfaces -> Held \union {None}]
          /\ on \in [Paths -> BOOLEAN]
          /\ lost \in [Procs -> 0 .. NFILE]
          /\ stuck \subseteq Paths

\* The descriptors a process can still reach through its handles.
Owned(p) == {e \in Ebcs : owner[e] = p /\ at[e] # "none"}

Alive(s) == surf[s] # None
Borrowed(e) == \E s \in Surfaces : Alive(s) /\ surf[s].ebc = e

Init == /\ fds = [p \in Procs |-> 0]
        /\ at = [e \in Ebcs |-> "none"]
        /\ surf = [s \in Surfaces |-> None]
        /\ on = [P \in Paths |-> FALSE]
        /\ lost = [p \in Procs |-> 0]
        /\ stuck = {}

-----------------------------------------------------------------------------
(* Ebc::open_path and Ebc::open_info_path, a system call at a time. *)

\* open(2): fails, changing nothing, when the process has no descriptor left.
open(e, how) == /\ at[e] = "none"
                /\ fds[owner[e]] < NFILE
                /\ fds' = [fds EXCEPT ![owner[e]] = @ + 1]
                /\ at' = [at EXCEPT ![e] = how]
                /\ UNCHANGED <<surf, on, lost, stuck>>

\* close(2) of the handle's descriptor.
Close(e) == /\ fds' = [fds EXCEPT ![owner[e]] = @ - 1]
            /\ at' = [at EXCEPT ![e] = "none"]
            /\ UNCHANGED <<surf, on, lost, stuck>>

Advance(e, next) == /\ at' = [at EXCEPT ![e] = next]
                    /\ UNCHANGED <<fds, surf, on, lost, stuck>>

\* Mutant of get_buffer_info: the descriptor is not closed.
get_buffer_info_unclosed(e, ok) ==
  /\ at[e] = "info"
  /\ Advance(e, IF ok THEN "map" ELSE "none")

get_buffer_info(e, ok) == /\ at[e] = "info"
                          /\ IF ok THEN Advance(e, "map") ELSE Close(e)

mmap(e, ok) == /\ at[e] = "map"
               /\ IF ok THEN Advance(e, "open") ELSE Close(e)

\* open_info_path leaves on a failed query without closing.
probe_buffer_info(e, ok) ==
  /\ at[e] = "probe"
  /\ at' = [at EXCEPT ![e] = IF ok THEN "probed" ELSE "none"]
  /\ lost' = IF ok THEN lost ELSE [lost EXCEPT ![owner[e]] = @ + 1]
  /\ UNCHANGED <<fds, surf, on, stuck>>

\* Drop of an Ebc; the borrow checker keeps it from under a surface.
drop_ebc(e) == /\ at[e] \in {"open", "probed"}
               /\ ~Borrowed(e)
               /\ Close(e)

-----------------------------------------------------------------------------
(* Surfaces. *)

\* Surface::new, on any handle; a failed ioctl makes no surface.
new(s, e, P) == /\ at[e] \in {"open", "probed"}
                /\ ~Alive(s)
                /\ on' = [on EXCEPT ![P] = TRUE]
                /\ surf' = [surf EXCEPT ![s] = [ebc |-> e, path |-> P]]
                /\ UNCHANGED <<fds, at, lost, stuck>>

\* Mutant of drop: the switch of the other path is turned off.
drop_other(s, ok) ==
  /\ Alive(s)
  /\ surf' = [surf EXCEPT ![s] = None]
  /\ on' = IF ok THEN [P \in Paths |-> P = surf[s].path /\ on[P]] ELSE on
  /\ stuck' = IF ok THEN stuck \ {surf[s].path} ELSE stuck \union {surf[s].path}
  /\ UNCHANGED <<fds, at, lost>>

\* Drop of a Surface turns its path off for everyone, and ignores failure.
drop(s, ok) ==
  LET P == surf[s].path
  IN  /\ Alive(s)
      /\ surf' = [surf EXCEPT ![s] = None]
      /\ on' = IF ok THEN [on EXCEPT ![P] = FALSE] ELSE on
      /\ stuck' = IF ok THEN stuck \ {P} ELSE stuck \union {P}
      /\ UNCHANGED <<fds, at, lost>>

\* A process is killed: the kernel closes its descriptors, nothing is dropped.
crash(p) ==
  LET dying == {s \in Surfaces : Alive(s) /\ owner[surf[s].ebc] = p}
  IN  /\ fds[p] > 0
      /\ fds' = [fds EXCEPT ![p] = 0]
      /\ at' = [e \in Ebcs |-> IF owner[e] = p THEN "none" ELSE at[e]]
      /\ surf' = [s \in Surfaces |-> IF s \in dying THEN None ELSE surf[s]]
      /\ stuck' = stuck \union {surf[s].path : s \in dying}
      /\ lost' = [lost EXCEPT ![p] = 0]
      /\ UNCHANGED on

Handle(e) == \/ \E how \in {"info", "probe"} : open(e, how)
             \/ \E ok \in BOOLEAN : \/ get_buffer_info(e, ok)
                                    \/ mmap(e, ok)
                                    \/ probe_buffer_info(e, ok)
             \/ drop_ebc(e)

Next == \/ \E e \in Ebcs : Handle(e)
        \/ \E s \in Surfaces, e \in Ebcs, P \in Paths : new(s, e, P)
        \/ \E s \in Surfaces, ok \in BOOLEAN : drop(s, ok)
        \/ \E p \in Procs : crash(p)

Spec == Init /\ [][Next]_vars

-----------------------------------------------------------------------------
(* What handles and surfaces promise. *)

\* However handles are opened, fail half way, are dropped or die, the kernel
\* has open for a process one descriptor for every handle it still holds and
\* one for every probe that failed: no path closes too little or too much.
FdsAccounted == \A p \in Procs : fds[p] = Cardinality(Owned(p)) + lost[p]

\* A path is on only while a surface on it is alive, unless a process died
\* with one or the ioctl that turns it off failed: no order of making and
\* dropping surfaces leaves an overlay over every app (Drop for Surface).
OffWhenUnused ==
  \A P \in Paths : on[P] => \/ \E s \in Surfaces : Alive(s) /\ surf[s].path = P
                            \/ P \in stuck

\* "Holds the EBC handle open and the path enabled" (path.rs:76).
PathHeld == \A s \in Surfaces : Alive(s) => on[surf[s].path]
=============================================================================
