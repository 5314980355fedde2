---------------------------- MODULE DeviceProofs ----------------------------
(***************************************************************************)
(* Theorems about Device, for every set of processes, handles and          *)
(* surfaces.                                                               *)
(***************************************************************************)
EXTENDS Device, FiniteSetTheorems, TLAPS

States == {"none", "info", "map", "probe", "open", "probed"}

\* Type correctness needs the accounting: it is what keeps the counts of
\* descriptors between zero and the limit.
Inv == TypeOK /\ FdsAccounted

LEMMA OwnedFinite ==
  ASSUME NEW p
  PROVE  IsFiniteSet(Owned(p)) /\ Cardinality(Owned(p)) \in Nat
BY FS_Subset, FS_CardinalityType, DeviceAssumption DEF Owned

\* A handle that opens adds itself to its process's handles.
LEMMA OwnedGrows ==
  ASSUME at \in [Ebcs -> States], NEW e \in Ebcs, NEW x \in States \ {"none"},
         at[e] = "none", at' = [at EXCEPT ![e] = x], NEW p \in Procs
  PROVE  Cardinality(Owned(p)') =
           IF owner[e] = p THEN Cardinality(Owned(p)) + 1 ELSE Cardinality(Owned(p))
<1>1. CASE owner[e] = p
  <2>1. Owned(p)' = Owned(p) \union {e} /\ e \notin Owned(p)
    BY <1>1 DEF Owned
  <2> QED BY <1>1, <2>1, OwnedFinite, FS_AddElement
<1>2. CASE owner[e] # p
  <2>1. Owned(p)' = Owned(p)
    BY <1>2 DEF Owned
  <2> QED BY <1>2, <2>1
<1> QED BY <1>1, <1>2

\* A handle that closes leaves them.
LEMMA OwnedShrinks ==
  ASSUME at \in [Ebcs -> States], NEW e \in Ebcs,
         at[e] # "none", at' = [at EXCEPT ![e] = "none"], NEW p \in Procs
  PROVE  IF owner[e] = p
           THEN /\ Cardinality(Owned(p)) > 0
                /\ Cardinality(Owned(p)') = Cardinality(Owned(p)) - 1
           ELSE Cardinality(Owned(p)') = Cardinality(Owned(p))
<1>1. CASE owner[e] = p
  <2>1. Owned(p)' = Owned(p) \ {e} /\ e \in Owned(p)
    BY <1>1 DEF Owned
  <2>2. Cardinality(Owned(p)) # 0
    BY <2>1, OwnedFinite, FS_EmptySet
  <2>3. Cardinality(Owned(p) \ {e}) = Cardinality(Owned(p)) - 1
    BY <2>1, OwnedFinite, FS_RemoveElement
  <2>4. Cardinality(Owned(p)) > 0
    BY <2>2, OwnedFinite
  <2> QED BY <1>1, <2>1, <2>3, <2>4
<1>2. CASE owner[e] # p
  <2>1. Owned(p)' = Owned(p)
    BY <1>2 DEF Owned
  <2> QED BY <1>2, <2>1
<1> QED BY <1>1, <1>2

\* A handle that moves on stays one of them.
LEMMA OwnedStays ==
  ASSUME at \in [Ebcs -> States], NEW e \in Ebcs, NEW x \in States \ {"none"},
         at[e] # "none", at' = [at EXCEPT ![e] = x], NEW p \in Procs
  PROVE  Owned(p)' = Owned(p)
BY DEF Owned

-----------------------------------------------------------------------------
LEMMA InitInv == Init => Inv
<1> SUFFICES ASSUME Init PROVE Inv
  OBVIOUS
<1>1. TypeOK
  BY DeviceAssumption DEF Init, TypeOK
<1>2. ASSUME NEW p \in Procs PROVE fds[p] = Cardinality(Owned(p)) + lost[p]
  <2>1. Owned(p) = {}
    BY DEF Owned, Init
  <2> QED BY <2>1, FS_EmptySet DEF Init
<1> QED BY <1>1, <1>2 DEF Inv, FdsAccounted

\* Closing a handle, whatever led to it.
LEMMA CloseInv ==
  ASSUME Inv, NEW e \in Ebcs, at[e] # "none", Close(e)
  PROVE  Inv'
<1>1. /\ fds \in [Procs -> 0 .. NFILE] /\ lost \in [Procs -> 0 .. NFILE]
      /\ at \in [Ebcs -> States]
      /\ owner[e] \in Procs
  BY DeviceAssumption DEF Inv, TypeOK, States
<1>2. ASSUME NEW p \in Procs
      PROVE  fds'[p] \in 0 .. NFILE /\ fds'[p] = Cardinality(Owned(p)') + lost'[p]
  <2>1. fds[p] = Cardinality(Owned(p)) + lost[p] /\ Cardinality(Owned(p)) \in Nat
    BY OwnedFinite DEF Inv, FdsAccounted
  <2>2. IF owner[e] = p
           THEN /\ Cardinality(Owned(p)) > 0
                /\ Cardinality(Owned(p)') = Cardinality(Owned(p)) - 1
           ELSE Cardinality(Owned(p)') = Cardinality(Owned(p))
    BY <1>1, OwnedShrinks DEF Close
  <2>3. fds'[p] = IF owner[e] = p THEN fds[p] - 1 ELSE fds[p]
    BY <1>1 DEF Close
  <2> QED BY <1>1, <2>1, <2>2, <2>3, DeviceAssumption DEF Close
<1>3. fds' = [p \in Procs |-> fds'[p]]
  BY <1>1 DEF Close
<1>4. fds' \in [Procs -> 0 .. NFILE]
  BY <1>2, <1>3
<1>5. at' \in [Ebcs -> States]
  BY <1>1 DEF Close, States
<1> QED BY <1>2, <1>4, <1>5 DEF Inv, TypeOK, FdsAccounted, Close, States

\* Moving on to the next call.
LEMMA AdvanceInv ==
  ASSUME Inv, NEW e \in Ebcs, at[e] # "none", NEW x \in States \ {"none"}, Advance(e, x)
  PROVE  Inv'
<1>1. at \in [Ebcs -> States]
  BY DEF Inv, TypeOK, States
<1>2. \A p \in Procs : Owned(p)' = Owned(p)
  BY <1>1, OwnedStays DEF Advance
<1>3. at' \in [Ebcs -> States]
  BY <1>1 DEF Advance
<1> QED BY <1>2, <1>3 DEF Inv, TypeOK, FdsAccounted, Advance, States

LEMMA StepInv == Inv /\ [Next]_vars => Inv'
<1> SUFFICES ASSUME Inv, [Next]_vars PROVE Inv'
  OBVIOUS
<1>0. /\ fds \in [Procs -> 0 .. NFILE] /\ lost \in [Procs -> 0 .. NFILE]
      /\ at \in [Ebcs -> States]
      /\ \A e \in Ebcs : owner[e] \in Procs
      /\ \A p \in Procs : fds[p] = Cardinality(Owned(p)) + lost[p]
      /\ NFILE \in Nat
  BY DeviceAssumption DEF Inv, TypeOK, FdsAccounted, States
<1>1. ASSUME NEW e \in Ebcs, NEW how \in {"info", "probe"}, open(e, how) PROVE Inv'
  <2>1. ASSUME NEW p \in Procs
        PROVE  fds'[p] \in 0 .. NFILE /\ fds'[p] = Cardinality(Owned(p)') + lost'[p]
    <3>1. Cardinality(Owned(p)') =
            IF owner[e] = p THEN Cardinality(Owned(p)) + 1 ELSE Cardinality(Owned(p))
      BY <1>0, <1>1, OwnedGrows DEF open, States
    <3>2. fds'[p] = IF owner[e] = p THEN fds[p] + 1 ELSE fds[p]
      BY <1>0, <1>1 DEF open
    <3>3. owner[e] = p => fds[p] < NFILE
      BY <1>1 DEF open
    <3>4. Cardinality(Owned(p)) \in Nat
      BY OwnedFinite
    <3> QED BY <1>0, <1>1, <3>1, <3>2, <3>3, <3>4 DEF open
  <2>2. fds' \in [Procs -> 0 .. NFILE]
    <3>1. fds' = [p \in Procs |-> fds'[p]]
      BY <1>0, <1>1 DEF open
    <3> QED BY <2>1, <3>1
  <2>3. at' \in [Ebcs -> States]
    BY <1>0, <1>1 DEF open, States
  <2> QED BY <1>1, <2>1, <2>2, <2>3 DEF Inv, TypeOK, FdsAccounted, open, States
<1>2. ASSUME NEW e \in Ebcs, NEW ok \in BOOLEAN, get_buffer_info(e, ok) PROVE Inv'
  BY <1>2, CloseInv, AdvanceInv DEF get_buffer_info, States
<1>3. ASSUME NEW e \in Ebcs, NEW ok \in BOOLEAN, mmap(e, ok) PROVE Inv'
  BY <1>3, CloseInv, AdvanceInv DEF mmap, States
<1>4. ASSUME NEW e \in Ebcs, NEW ok \in BOOLEAN, probe_buffer_info(e, ok) PROVE Inv'
  <2>1. CASE ok
    <3>1. Advance(e, "probed") /\ at[e] # "none"
      BY <1>4, <2>1 DEF probe_buffer_info, Advance
    <3> QED BY <3>1, AdvanceInv DEF States
  <2>2. CASE ~ok
    <3>1. at' = [at EXCEPT ![e] = "none"] /\ at[e] # "none"
          /\ lost' = [lost EXCEPT ![owner[e]] = @ + 1]
          /\ UNCHANGED <<fds, surf, on, stuck>>
      BY <1>4, <2>2 DEF probe_buffer_info
    <3>2. ASSUME NEW p \in Procs
          PROVE  lost'[p] \in 0 .. NFILE /\ fds'[p] = Cardinality(Owned(p)') + lost'[p]
      <4>1. IF owner[e] = p
              THEN /\ Cardinality(Owned(p)) > 0
                   /\ Cardinality(Owned(p)') = Cardinality(Owned(p)) - 1
              ELSE Cardinality(Owned(p)') = Cardinality(Owned(p))
        BY <1>0, <3>1, OwnedShrinks
      <4>2. lost'[p] = IF owner[e] = p THEN lost[p] + 1 ELSE lost[p]
        BY <1>0, <3>1
      <4>3. Cardinality(Owned(p)) \in Nat /\ fds[p] \in 0 .. NFILE /\ lost[p] \in 0 .. NFILE
        BY <1>0, OwnedFinite
      <4> QED BY <1>0, <3>1, <4>1, <4>2, <4>3
    <3>3. lost' \in [Procs -> 0 .. NFILE]
      <4>1. lost' = [p \in Procs |-> lost'[p]]
        BY <1>0, <3>1
      <4> QED BY <3>2, <4>1
    <3>4. at' \in [Ebcs -> States]
      BY <1>0, <3>1 DEF States
    <3> QED BY <3>1, <3>2, <3>3, <3>4 DEF Inv, TypeOK, FdsAccounted, States
  <2> QED BY <2>1, <2>2
<1>5. ASSUME NEW e \in Ebcs, drop_ebc(e) PROVE Inv'
  BY <1>5, CloseInv DEF drop_ebc
<1>6. ASSUME NEW s \in Surfaces, NEW e \in Ebcs, NEW P \in Paths, new(s, e, P) PROVE Inv'
  <2>1. \A p \in Procs : Owned(p)' = Owned(p)
    BY <1>6 DEF new, Owned
  <2> QED BY <1>6, <2>1 DEF new, Inv, TypeOK, FdsAccounted, Held
<1>7. ASSUME NEW s \in Surfaces, NEW ok \in BOOLEAN, drop(s, ok) PROVE Inv'
  <2>1. \A p \in Procs : Owned(p)' = Owned(p)
    BY <1>7 DEF drop, Owned
  <2>2. surf[s].path \in Paths
    BY <1>7 DEF drop, Alive, Inv, TypeOK, Held
  <2> QED BY <1>7, <2>1, <2>2 DEF drop, Inv, TypeOK, FdsAccounted
<1>8. ASSUME NEW p \in Procs, crash(p) PROVE Inv'
  <2>1. ASSUME NEW q \in Procs
        PROVE  fds'[q] = Cardinality(Owned(q)') + lost'[q]
    <3>1. CASE q = p
      <4>1. Owned(p)' = {}
        BY <1>8 DEF crash, Owned
      <4> QED BY <1>0, <1>8, <3>1, <4>1, FS_EmptySet DEF crash
    <3>2. CASE q # p
      <4>1. Owned(q)' = Owned(q)
        BY <1>8, <3>2 DEF crash, Owned
      <4> QED BY <1>0, <1>8, <3>2, <4>1 DEF crash
    <3> QED BY <3>1, <3>2
  <2>2. surf' \in [Surfaces -> Held \union {None}] /\ stuck' \subseteq Paths
    BY <1>8 DEF crash, Alive, Inv, TypeOK, Held
  <2>3. at' \in [Ebcs -> States]
    BY <1>0, <1>8 DEF crash, States
  <2> QED BY <1>0, <1>8, <2>1, <2>2, <2>3 DEF crash, Inv, TypeOK, FdsAccounted, States
<1>9. CASE UNCHANGED vars
  <2>1. \A p \in Procs : Owned(p)' = Owned(p)
    BY <1>9 DEF vars, Owned
  <2> QED BY <1>9, <2>1 DEF vars, Inv, TypeOK, FdsAccounted
<1> QED BY <1>1, <1>2, <1>3, <1>4, <1>5, <1>6, <1>7, <1>8, <1>9 DEF Next, Handle

LEMMA Invariance == Spec => []Inv
BY InitInv, StepInv, PTL DEF Spec

\* Descriptor counts stay within the limit, and everything else well formed.
THEOREM TypeCorrect == Spec => []TypeOK
<1>1. Inv => TypeOK
  BY DEF Inv
<1> QED BY <1>1, Invariance, PTL

\* Whatever opens, fails, is dropped or dies, each descriptor the kernel has
\* belongs to a handle or to a failed probe (ebc.rs).
THEOREM EveryDescriptorAccounted == Spec => []FdsAccounted
<1>1. Inv => FdsAccounted
  BY DEF Inv
<1> QED BY <1>1, Invariance, PTL

\* No order of surfaces leaves a path on that none of them uses (Drop for
\* Surface).
THEOREM UnusedPathIsOff == Spec => []OffWhenUnused
<1>1. Init => OffWhenUnused
  BY DEF Init, OffWhenUnused
<1>2. OffWhenUnused /\ TypeOK /\ [Next]_vars => OffWhenUnused'
  <2> SUFFICES ASSUME OffWhenUnused, TypeOK, [Next]_vars,
                      NEW P \in Paths, on'[P]
               PROVE  \/ \E s \in Surfaces : Alive(s)' /\ surf'[s].path = P
                      \/ P \in stuck'
    BY DEF OffWhenUnused
  <2>0. surf \in [Surfaces -> Held \union {None}] /\ on \in [Paths -> BOOLEAN]
    BY DEF TypeOK
  <2>1. CASE UNCHANGED <<surf, on, stuck>>
    BY <2>1 DEF OffWhenUnused, Alive
  <2>2. ASSUME NEW s \in Surfaces, NEW e \in Ebcs, NEW Q \in Paths, new(s, e, Q)
        PROVE  \/ \E t \in Surfaces : Alive(t)' /\ surf'[t].path = P
               \/ P \in stuck'
    <3>1. CASE P = Q
      <4>1. surf'[s] = [ebc |-> e, path |-> Q]
        BY <2>0, <2>2 DEF new
      <4>2. [ebc |-> e, path |-> Q] \in Held
        BY DEF Held
      <4>3. surf'[s] # None
        BY <4>1, <4>2, DeviceAssumption
      <4> QED BY <3>1, <4>1, <4>3 DEF Alive
    <3>2. CASE P # Q
      <4>1. on[P] /\ stuck' = stuck
        BY <2>0, <2>2, <3>2 DEF new
      <4>2. \A t \in Surfaces : Alive(t) => surf'[t] = surf[t]
        BY <2>0, <2>2 DEF new, Alive
      <4> QED BY <4>1, <4>2 DEF OffWhenUnused, Alive
    <3> QED BY <3>1, <3>2
  <2>3. ASSUME NEW s \in Surfaces, NEW ok \in BOOLEAN, drop(s, ok)
        PROVE  \/ \E t \in Surfaces : Alive(t)' /\ surf'[t].path = P
               \/ P \in stuck'
    <3>1. on[P]
      BY <2>0, <2>3 DEF drop
    <3>2. CASE surf[s].path = P
      BY <2>0, <2>3, <3>2 DEF drop
    <3>3. CASE surf[s].path # P
      <4>1. P \in stuck => P \in stuck'
        BY <2>3, <3>3 DEF drop
      <4>2. \A t \in Surfaces : surf[t].path = P => surf'[t] = surf[t]
        BY <2>0, <2>3, <3>3 DEF drop
      <4> QED BY <3>1, <4>1, <4>2 DEF OffWhenUnused, Alive
    <3> QED BY <3>2, <3>3
  <2>4. ASSUME NEW p \in Procs, crash(p)
        PROVE  \/ \E t \in Surfaces : Alive(t)' /\ surf'[t].path = P
               \/ P \in stuck'
    <3>1. on[P] /\ stuck \subseteq stuck'
      BY <2>4 DEF crash
    <3>2. ASSUME NEW t \in Surfaces, Alive(t), surf[t].path = P
          PROVE  (Alive(t)' /\ surf'[t].path = P) \/ P \in stuck'
      <4>1. CASE owner[surf[t].ebc] = p
        BY <2>4, <3>2, <4>1 DEF crash
      <4>2. CASE owner[surf[t].ebc] # p
        <5>1. surf'[t] = surf[t]
          BY <2>4, <4>2 DEF crash
        <5> QED BY <3>2, <5>1 DEF Alive
      <4> QED BY <4>1, <4>2
    <3> QED BY <3>1, <3>2 DEF OffWhenUnused
  <2>5. ASSUME NEW e \in Ebcs, Handle(e)
        PROVE  UNCHANGED <<surf, on, stuck>>
    BY <2>5 DEF Handle, open, get_buffer_info, mmap, probe_buffer_info, drop_ebc,
                Close, Advance
  <2>6. CASE UNCHANGED vars
    BY <2>1, <2>6 DEF vars
  <2> QED BY <2>1, <2>2, <2>3, <2>4, <2>5, <2>6 DEF Next
<1> QED BY <1>1, <1>2, TypeCorrect, PTL DEF Spec
=============================================================================
