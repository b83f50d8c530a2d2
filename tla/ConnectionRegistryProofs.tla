---------------------- MODULE ConnectionRegistryProofs ----------------------
(***************************************************************************)
(* What ConnectionRegistry's map hands out has not been closed, for any    *)
(* number of calls, invalidations and slots.                               *)
(***************************************************************************)
EXTENDS ConnectionRegistry, FiniteSetTheorems, TLAPS

(* An empty registry.                                                      *)
LEMMA RegistryInitial == Init => RegistryInv
  BY ConnectionRegistryAssumption
  DEF ConnectionRegistryAssumption, Init, RegistryInv, SlotsTyped, RemovalInv, Slots, NoSlot,
      AtSlot, Removed, Marked, Actors, Removers

(* The accesses of withConnection() and acquire().                         *)
LEMMA CallerPreserves ==
  ASSUME RegistryInv, NEW c \in Callers, CallerStep(c)
  PROVE RegistryInv'
<1> USE ConnectionRegistryAssumption
    DEF ConnectionRegistryAssumption, RegistryInv, SlotsTyped, RemovalInv, Slots, NoSlot,
        AtSlot, Removed, Marked, Actors, Removers
<1>1. CASE Begin(c)
  BY <1>1 DEF Begin, GoTo, slotVars
<1>2. CASE Compute(c)
  BY <1>2 DEF Compute, NewSlot, GoTo
<1>3. CASE AwaitThrows(c)
  BY <1>3 DEF AwaitThrows, RemoveExactly, Proceed, GoTo, slotVars
<1>4. CASE Awaited(c)
  BY <1>4 DEF Awaited, GoTo, slotVars
<1>5. CASE Unslot(c)
  BY <1>5 DEF Unslot, RemoveExactly, GoTo, slotVars
<1>6. CASE Again(c)
  BY <1>6 DEF Again, Proceed, GoTo, slotVars
<1>7. CASE Lease(c)
  BY <1>7 DEF Lease, GoTo
<1>8. CASE Check(c)
  BY <1>8 DEF Check, GoTo
<1>9. CASE BlockEnds(c)
  BY <1>9 DEF BlockEnds, Proceed, GoTo
<1>10. CASE Released(c)
  BY <1>10 DEF Released, CloseIfSuperseded, CloseQuietly, Proceed, GoTo
<1>11. CASE Supersede(c)
  BY <1>11 DEF Supersede, GoTo
<1>12. CASE AskLeases(c)
  BY <1>12 DEF AskLeases, Proceed, GoTo, slotVars
<1>13. CASE CloseStale(c)
  BY <1>13 DEF CloseStale, CloseQuietly, GoTo
<1> QED
  BY <1>1, <1>2, <1>3, <1>4, <1>5, <1>6, <1>7, <1>8, <1>9, <1>10, <1>11, <1>12, <1>13
  DEF CallerStep

(* The accesses of invalidate() and closeAll().                            *)
LEMMA RemoverPreserves ==
  ASSUME RegistryInv, NEW r \in Removers, RemoverStep(r)
  PROVE RegistryInv'
<1> USE ConnectionRegistryAssumption
    DEF ConnectionRegistryAssumption, RegistryInv, SlotsTyped, RemovalInv, Slots, NoSlot,
        AtSlot, Removed, Marked, Actors, Removers
<1>1. CASE Bump(r)
  BY <1>1 DEF Bump, GoTo, slotVars
<1>2. CASE Remove(r)
  BY <1>2 DEF Remove, GoTo, slotVars
<1>3. CASE Supersede(r)
  BY <1>3 DEF Supersede, GoTo
<1>4. CASE AskLeases(r)
  BY <1>4 DEF AskLeases, Proceed, GoTo, slotVars
<1>5. CASE IsCompleted(r)
  BY <1>5 DEF IsCompleted, Proceed, GoTo, slotVars
<1>6. CASE CloseNow(r)
  BY <1>6 DEF CloseNow, CloseQuietly, Proceed, GoTo
<1>7. CASE Cancel(r)
  BY <1>7 DEF Cancel, Proceed, GoTo
<1> QED
  BY <1>1, <1>2, <1>3, <1>4, <1>5, <1>6, <1>7 DEF RemoverStep

(* The driver's own steps.                                                 *)
LEMMA DriverPreserves ==
  ASSUME RegistryInv, NEW s \in Slots, Opens(s) \/ Drop(s)
  PROVE RegistryInv'
<1> USE DEF RegistryInv, SlotsTyped, RemovalInv
<1>1. CASE Drop(s)
  BY <1>1 DEF Drop
<1>2. CASE OpenFails(s)
  BY <1>2 DEF OpenFails
<1>3. ASSUME NEW quality \in {"up", "broken"}, OpenSucceeds(s, quality)
      PROVE RegistryInv'
  BY <1>3 DEF OpenSucceeds
<1> QED
  BY <1>1, <1>2, <1>3 DEF Opens

(* Every step of a call, a removal or the driver.                          *)
LEMMA RegistryPreserved == RegistryInv /\ [Next]_vars => RegistryInv'
<1> SUFFICES ASSUME RegistryInv, [Next]_vars PROVE RegistryInv'
  OBVIOUS
<1>1. CASE UNCHANGED vars
  BY <1>1 DEF vars, slotVars, RegistryInv, SlotsTyped, RemovalInv
<1>2. CASE Done
  BY <1>1, <1>2 DEF Done
<1> QED
  BY <1>1, <1>2, CallerPreserves, RemoverPreserves, DriverPreserves DEF Next

(* The invariant holds of every run of the registry.                       *)
THEOREM RegistryInvCorrect == Spec => []RegistryInv
  BY RegistryInitial, RegistryPreserved, PTL DEF Spec

(* However calls, invalidations and disposals interleave, the connection   *)
(* in the map has not been closed by the registry.                         *)
THEOREM InstalledCorrect == Spec => []InstalledIsOpen
<1>1. RegistryInv => InstalledIsOpen
  BY ConnectionRegistryAssumption
  DEF ConnectionRegistryAssumption, RegistryInv, SlotsTyped, RemovalInv, InstalledIsOpen, Slots, NoSlot
<1> QED
  BY <1>1, RegistryInvCorrect, PTL
-----------------------------------------------------------------------------
(* A call leases only what it has awaited.                                 *)
LEMMA OpenCaller ==
  ASSUME RegistryInv, OpenInv, NEW c \in Callers, CallerStep(c)
  PROVE  OpenInv'
<1> USE ConnectionRegistryAssumption
    DEF ConnectionRegistryAssumption, RegistryInv, SlotsTyped, RemovalInv, Slots, NoSlot,
        AtSlot, Removed, Marked, Actors, Removers, OpenInv, Ready, Holding
<1>1. CASE Begin(c)
  BY <1>1 DEF Begin, GoTo, slotVars
<1>2. CASE Compute(c)
  <2>1. pc[c] = "compute" /\ pc' = [pc EXCEPT ![c] = "await"] /\ UNCHANGED <<conn, leased>>
    BY <1>2 DEF Compute, GoTo
  <2>2. CASE UNCHANGED <<created, deferred>> /\ my' = [my EXCEPT ![c] = current]
    BY <2>1, <2>2
  <2>3. CASE NewSlot(c, created + 1)
    <3> DEFINE n == created + 1
    <3>1. n \in Slots /\ deferred[n] = "unused" /\ conn[n] = "none"
      BY <2>3 DEF NewSlot
    <3>2. deferred' = [deferred EXCEPT ![n] = "opening"] /\ created' = n
          /\ my' = [my EXCEPT ![c] = n]
      BY <2>3 DEF NewSlot
    <3> HIDE DEF n
    <3>3. \A s \in Slots :
            /\ deferred'[s] = "ready" => conn'[s] # "none"
            /\ conn'[s] # "none" => deferred'[s] \in {"ready", "failed"}
      BY <2>1, <3>1, <3>2
    <3>4. \A s \in Slots : s > created' => deferred'[s] = "unused"
      BY <3>2 DEF n
    <3>5. \A s \in leased' : deferred'[s] = "ready"
      BY <2>1, <3>1, <3>2
    <3>6. \A d \in Callers : pc'[d] \in Ready => deferred'[my'[d]] = "ready"
      BY <2>1, <3>1, <3>2
    <3>7. deferred' \in [Slots -> {"unused", "opening", "cancelling", "ready", "failed"}]
      BY <3>2
    <3>8. leased' \subseteq Slots
      BY <2>1
    <3> QED BY <3>3, <3>4, <3>5, <3>6, <3>7, <3>8
  <2> QED BY <1>2, <2>2, <2>3 DEF Compute
<1>3. CASE AwaitThrows(c)
  BY <1>3 DEF AwaitThrows, RemoveExactly, Proceed, GoTo, slotVars
<1>4. CASE Awaited(c)
  BY <1>4 DEF Awaited, GoTo, slotVars
<1>5. CASE Unslot(c)
  BY <1>5 DEF Unslot, RemoveExactly, GoTo, slotVars
<1>6. CASE Again(c)
  BY <1>6 DEF Again, Proceed, GoTo, slotVars
<1>7. CASE Lease(c)
  <2>1. my[c] \in Slots /\ deferred[my[c]] = "ready"
    BY <1>7 DEF Lease
  <2>2. UNCHANGED <<deferred, conn, created, my>> /\ leased' = leased \cup {my[c]}
        /\ pc[c] = "lease" /\ pc' = [pc EXCEPT ![c] = "check"]
    BY <1>7 DEF Lease, GoTo
  <2> QED BY <2>1, <2>2
<1>8. CASE Check(c)
  BY <1>8 DEF Check, GoTo
<1>9. CASE BlockEnds(c)
  BY <1>9 DEF BlockEnds, Proceed, GoTo
<1>10. CASE Released(c)
  BY <1>10 DEF Released, CloseIfSuperseded, CloseQuietly, Proceed, GoTo
<1>11. CASE Supersede(c)
  BY <1>11 DEF Supersede, GoTo
<1>12. CASE AskLeases(c)
  BY <1>12 DEF AskLeases, Proceed, GoTo, slotVars
<1>13. CASE CloseStale(c)
  BY <1>13 DEF CloseStale, CloseQuietly, GoTo
<1> QED
  BY <1>1, <1>2, <1>3, <1>4, <1>5, <1>6, <1>7, <1>8, <1>9, <1>10, <1>11, <1>12, <1>13
  DEF CallerStep

(* A cancel() comes too late or stops an open that nobody leased.          *)
LEMMA OpenRemover ==
  ASSUME RegistryInv, OpenInv, NEW r \in Removers, RemoverStep(r)
  PROVE  OpenInv'
<1> USE ConnectionRegistryAssumption
    DEF ConnectionRegistryAssumption, RegistryInv, SlotsTyped, RemovalInv, Slots, NoSlot,
        AtSlot, Removed, Marked, Actors, Removers, OpenInv, Ready, Holding
<1>1. CASE Bump(r)
  BY <1>1 DEF Bump, GoTo, slotVars
<1>2. CASE Remove(r)
  BY <1>2 DEF Remove, GoTo, slotVars
<1>3. CASE Supersede(r)
  BY <1>3 DEF Supersede, GoTo
<1>4. CASE AskLeases(r)
  BY <1>4 DEF AskLeases, Proceed, GoTo, slotVars
<1>5. CASE IsCompleted(r)
  BY <1>5 DEF IsCompleted, Proceed, GoTo, slotVars
<1>6. CASE CloseNow(r)
  BY <1>6 DEF CloseNow, CloseQuietly, Proceed, GoTo
<1>7. CASE Cancel(r)
  BY <1>7 DEF Cancel, Proceed, GoTo
<1> QED
  BY <1>1, <1>2, <1>3, <1>4, <1>5, <1>6, <1>7
  DEF RemoverStep

(* An actor that takes no lease and gives none back.                       *)
LEMMA HoldersFrame ==
  ASSUME LeaseInv, NEW a \in Actors, pc[a] \notin Holding, pc'[a] \notin Holding, leases' = leases,
         \A b \in Actors \ {a} : pc'[b] = pc[b] /\ my'[b] = my[b]
  PROVE  LeaseInv'
<1>1. ASSUME NEW s \in Slots PROVE Holders(s)' = Holders(s)
  BY <1>1 DEF Holders, Actors
<1> QED BY <1>1 DEF LeaseInv

(* A call that takes a lease, and one that gives it back.                  *)
LEMMA HolderAdded ==
  ASSUME LeaseInv, NEW c \in Callers, my[c] \in Slots, my' = my,
         pc[c] \notin Holding, pc'[c] \in Holding, \A b \in Actors \ {c} : pc'[b] = pc[b],
         leases' = [leases EXCEPT ![my[c]] = @ + 1]
  PROVE  LeaseInv'
<1>1. Holders(my[c])' = Holders(my[c]) \cup {c} /\ c \notin Holders(my[c])
  BY DEF Holders, Actors
<1>2. IsFiniteSet(Holders(my[c])) /\ leases[my[c]] = Cardinality(Holders(my[c]))
  BY DEF LeaseInv
<1>3. IsFiniteSet(Holders(my[c]) \cup {c})
      /\ Cardinality(Holders(my[c]) \cup {c}) = Cardinality(Holders(my[c])) + 1
  BY <1>1, <1>2, FS_AddElement
<1>4. ASSUME NEW s \in Slots, s # my[c] PROVE Holders(s)' = Holders(s)
  BY <1>4 DEF Holders, Actors
<1>5. leases' \in [Slots -> Nat]
  BY DEF LeaseInv
<1>6. ASSUME NEW s \in Slots
      PROVE  IsFiniteSet(Holders(s)') /\ leases'[s] = Cardinality(Holders(s)')
  <2>1. CASE s = my[c]
    BY <1>1, <1>2, <1>3, <2>1 DEF LeaseInv
  <2>2. CASE s # my[c]
    BY <1>4, <2>2 DEF LeaseInv
  <2> QED BY <2>1, <2>2
<1> QED BY <1>5, <1>6 DEF LeaseInv

LEMMA HolderRemoved ==
  ASSUME LeaseInv, NEW c \in Callers, my[c] \in Slots,
         pc[c] \in Holding, pc'[c] \notin Holding,
         \A b \in Actors \ {c} : pc'[b] = pc[b] /\ my'[b] = my[b],
         leases' = [leases EXCEPT ![my[c]] = @ - 1]
  PROVE  /\ LeaseInv'
         /\ leases'[my[c]] # 0 => \E d \in Callers \ {c} : pc[d] \in Holding /\ my[d] = my[c]
<1> PICK m \in Slots : m = my[c]
  OBVIOUS
<1> DEFINE H == Holders(m)
<1>1. Holders(m)' = H \ {c} /\ c \in H
  BY DEF Holders, Actors
<1>2. IsFiniteSet(H) /\ leases[m] = Cardinality(H)
  BY DEF LeaseInv
<1>3. IsFiniteSet(H \ {c}) /\ Cardinality(H \ {c}) = Cardinality(H) - 1
  BY <1>1, <1>2, FS_RemoveElement
<1>4. ASSUME NEW s \in Slots, s # m PROVE Holders(s)' = Holders(s)
  BY <1>4 DEF Holders, Actors
<1>5. leases'[m] = Cardinality(H \ {c}) /\ Cardinality(H \ {c}) \in Nat
  BY <1>2, <1>3, FS_CardinalityType DEF LeaseInv
<1>6. leases' \in [Slots -> Nat]
  BY <1>5 DEF LeaseInv
<1>7. ASSUME NEW s \in Slots
      PROVE  IsFiniteSet(Holders(s)') /\ leases'[s] = Cardinality(Holders(s)')
  <2>1. CASE s = m
    BY <1>1, <1>3, <1>5, <2>1
  <2>2. CASE s # m
    BY <1>4, <2>2 DEF LeaseInv
  <2> QED BY <2>1, <2>2
<1>8. LeaseInv'
  BY <1>6, <1>7 DEF LeaseInv
<1>9. ASSUME leases'[m] # 0
      PROVE  \E d \in Callers \ {c} : pc[d] \in Holding /\ my[d] = m
  <2>1. H \ {c} # {}
    BY <1>5, <1>9, FS_EmptySet
  <2> QED BY <2>1 DEF Holders
<1> QED BY <1>8, <1>9

(* The lease count follows the calls.                                      *)
LEMMA LeaseCaller ==
  ASSUME RegistryInv, LeaseInv, NEW c \in Callers, CallerStep(c)
  PROVE  LeaseInv'
<1> USE ConnectionRegistryAssumption
    DEF ConnectionRegistryAssumption, RegistryInv, SlotsTyped, RemovalInv, Slots, NoSlot,
        AtSlot, Removed, Marked, Actors, Removers, Holding
<1>1. CASE Begin(c)
  <2>1. pc[c] \notin Holding /\ pc'[c] \notin Holding /\ leases' = leases
    BY <1>1 DEF Begin, GoTo, slotVars
  <2>2. \A b \in Actors \ {c} : pc'[b] = pc[b] /\ my'[b] = my[b]
    BY <1>1 DEF Begin, GoTo, slotVars
  <2> QED BY <2>1, <2>2, HoldersFrame
<1>2. CASE Compute(c)
  <2>1. pc[c] \notin Holding /\ pc'[c] \notin Holding /\ leases' = leases
    BY <1>2 DEF Compute, NewSlot, GoTo
  <2>2. \A b \in Actors \ {c} : pc'[b] = pc[b] /\ my'[b] = my[b]
    BY <1>2 DEF Compute, NewSlot, GoTo
  <2> QED BY <2>1, <2>2, HoldersFrame
<1>3. CASE AwaitThrows(c)
  <2>1. pc[c] \notin Holding /\ pc'[c] \notin Holding /\ leases' = leases
    BY <1>3 DEF AwaitThrows, RemoveExactly, Proceed, GoTo, slotVars
  <2>2. \A b \in Actors \ {c} : pc'[b] = pc[b] /\ my'[b] = my[b]
    BY <1>3 DEF AwaitThrows, RemoveExactly, Proceed, GoTo, slotVars
  <2> QED BY <2>1, <2>2, HoldersFrame
<1>4. CASE Awaited(c)
  <2>1. pc[c] \notin Holding /\ pc'[c] \notin Holding /\ leases' = leases
    BY <1>4 DEF Awaited, GoTo, slotVars
  <2>2. \A b \in Actors \ {c} : pc'[b] = pc[b] /\ my'[b] = my[b]
    BY <1>4 DEF Awaited, GoTo, slotVars
  <2> QED BY <2>1, <2>2, HoldersFrame
<1>5. CASE Unslot(c)
  <2>1. pc[c] \notin Holding /\ pc'[c] \notin Holding /\ leases' = leases
    BY <1>5 DEF Unslot, RemoveExactly, GoTo, slotVars
  <2>2. \A b \in Actors \ {c} : pc'[b] = pc[b] /\ my'[b] = my[b]
    BY <1>5 DEF Unslot, RemoveExactly, GoTo, slotVars
  <2> QED BY <2>1, <2>2, HoldersFrame
<1>6. CASE Again(c)
  <2>1. pc[c] \notin Holding /\ pc'[c] \notin Holding /\ leases' = leases
    BY <1>6 DEF Again, Proceed, GoTo, slotVars
  <2>2. \A b \in Actors \ {c} : pc'[b] = pc[b] /\ my'[b] = my[b]
    BY <1>6 DEF Again, Proceed, GoTo, slotVars
  <2> QED BY <2>1, <2>2, HoldersFrame
<1>7. CASE Lease(c)
  <2>1. my[c] \in Slots /\ pc[c] \notin Holding /\ pc'[c] \in Holding /\ my' = my
        /\ leases' = [leases EXCEPT ![my[c]] = @ + 1]
    BY <1>7 DEF Lease, GoTo
  <2>2. \A b \in Actors \ {c} : pc'[b] = pc[b]
    BY <1>7 DEF Lease, GoTo
  <2> QED BY <2>1, <2>2, HolderAdded
<1>8. CASE Check(c)
  <2>1. my[c] \in Slots /\ pc[c] = "check" /\ my' = my
    BY <1>8 DEF Check
  <2>2. CASE superseded[my[c]] /\ conn[my[c]] = "closed"
    <3>1. pc'[c] = "start" /\ leases' = [leases EXCEPT ![my[c]] = @ - 1]
      BY <1>8, <2>2 DEF Check, GoTo
    <3>2. \A b \in Actors \ {c} : pc'[b] = pc[b] /\ my'[b] = my[b]
      BY <1>8, <2>1 DEF Check, GoTo
    <3>3. pc[c] \in Holding /\ pc'[c] \notin Holding
      BY <2>1, <3>1
    <3> QED BY <2>1, <3>1, <3>2, <3>3, HolderRemoved
  <2>3. CASE ~(superseded[my[c]] /\ conn[my[c]] = "closed")
    <3>1. pc' = [pc EXCEPT ![c] = "using"] /\ leases' = [leases EXCEPT ![my[c]] = @]
      BY <1>8, <2>3 DEF Check, GoTo
    <3>2. leases' = leases
      BY <3>1 DEF LeaseInv
    <3>3. ASSUME NEW s \in Slots PROVE Holders(s)' = Holders(s)
      BY <2>1, <3>1 DEF Holders
    <3> QED BY <3>2, <3>3 DEF LeaseInv
  <2> QED BY <2>2, <2>3
<1>9. CASE BlockEnds(c)
  <2>1. my[c] \in Slots /\ pc[c] \in Holding /\ pc'[c] \notin Holding
        /\ leases' = [leases EXCEPT ![my[c]] = @ - 1]
    BY <1>9 DEF BlockEnds, Proceed, GoTo
  <2>2. \A b \in Actors \ {c} : pc'[b] = pc[b] /\ my'[b] = my[b]
    BY <1>9 DEF BlockEnds, Proceed, GoTo
  <2> QED BY <2>1, <2>2, HolderRemoved
<1>10. CASE Released(c)
  <2>1. pc[c] \notin Holding /\ pc'[c] \notin Holding /\ leases' = leases
    BY <1>10 DEF Released, Proceed, GoTo
  <2>2. \A b \in Actors \ {c} : pc'[b] = pc[b] /\ my'[b] = my[b]
    BY <1>10 DEF Released, Proceed, GoTo
  <2> QED BY <2>1, <2>2, HoldersFrame
<1>11. CASE Supersede(c)
  <2>1. pc[c] \notin Holding /\ pc'[c] \notin Holding /\ leases' = leases
    BY <1>11 DEF Supersede, GoTo
  <2>2. \A b \in Actors \ {c} : pc'[b] = pc[b] /\ my'[b] = my[b]
    BY <1>11 DEF Supersede, GoTo
  <2> QED BY <2>1, <2>2, HoldersFrame
<1>12. CASE AskLeases(c)
  <2>1. pc[c] \notin Holding /\ pc'[c] \notin Holding /\ leases' = leases
    BY <1>12 DEF AskLeases, Proceed, GoTo, slotVars
  <2>2. \A b \in Actors \ {c} : pc'[b] = pc[b] /\ my'[b] = my[b]
    BY <1>12 DEF AskLeases, Proceed, GoTo, slotVars
  <2> QED BY <2>1, <2>2, HoldersFrame
<1>13. CASE CloseStale(c)
  <2>1. pc[c] \notin Holding /\ pc'[c] \notin Holding /\ leases' = leases
    BY <1>13 DEF CloseStale, GoTo
  <2>2. \A b \in Actors \ {c} : pc'[b] = pc[b] /\ my'[b] = my[b]
    BY <1>13 DEF CloseStale, GoTo
  <2> QED BY <2>1, <2>2, HoldersFrame
<1> QED
  BY <1>1, <1>2, <1>3, <1>4, <1>5, <1>6, <1>7, <1>8, <1>9, <1>10, <1>11, <1>12, <1>13
  DEF CallerStep

(* invalidate() and closeAll() leave it alone.                             *)
LEMMA LeaseRemover ==
  ASSUME RegistryInv, LeaseInv, NEW r \in Removers, RemoverStep(r)
  PROVE  LeaseInv'
<1> USE ConnectionRegistryAssumption
    DEF ConnectionRegistryAssumption, RegistryInv, SlotsTyped, RemovalInv, Slots, NoSlot,
        AtSlot, Removed, Marked, Actors, Removers, Holding
<1>1. CASE Bump(r)
  <2>1. pc[r] \notin Holding /\ pc'[r] \notin Holding /\ leases' = leases
    BY <1>1 DEF Bump, GoTo, slotVars
  <2>2. \A b \in Actors \ {r} : pc'[b] = pc[b] /\ my'[b] = my[b]
    BY <1>1 DEF Bump, GoTo, slotVars
  <2> QED BY <2>1, <2>2, HoldersFrame
<1>2. CASE Remove(r)
  <2>1. pc[r] \notin Holding /\ pc'[r] \notin Holding /\ leases' = leases
    BY <1>2 DEF Remove, GoTo, slotVars
  <2>2. \A b \in Actors \ {r} : pc'[b] = pc[b] /\ my'[b] = my[b]
    BY <1>2 DEF Remove, GoTo, slotVars
  <2> QED BY <2>1, <2>2, HoldersFrame
<1>3. CASE Supersede(r)
  <2>1. pc[r] \notin Holding /\ pc'[r] \notin Holding /\ leases' = leases
    BY <1>3 DEF Supersede, GoTo
  <2>2. \A b \in Actors \ {r} : pc'[b] = pc[b] /\ my'[b] = my[b]
    BY <1>3 DEF Supersede, GoTo
  <2> QED BY <2>1, <2>2, HoldersFrame
<1>4. CASE AskLeases(r)
  <2>1. pc[r] \notin Holding /\ pc'[r] \notin Holding /\ leases' = leases
    BY <1>4 DEF AskLeases, Proceed, GoTo, slotVars
  <2>2. \A b \in Actors \ {r} : pc'[b] = pc[b] /\ my'[b] = my[b]
    BY <1>4 DEF AskLeases, Proceed, GoTo, slotVars
  <2> QED BY <2>1, <2>2, HoldersFrame
<1>5. CASE IsCompleted(r)
  <2>1. pc[r] \notin Holding /\ pc'[r] \notin Holding /\ leases' = leases
    BY <1>5 DEF IsCompleted, Proceed, GoTo, slotVars
  <2>2. \A b \in Actors \ {r} : pc'[b] = pc[b] /\ my'[b] = my[b]
    BY <1>5 DEF IsCompleted, Proceed, GoTo, slotVars
  <2> QED BY <2>1, <2>2, HoldersFrame
<1>6. CASE CloseNow(r)
  <2>1. pc[r] \notin Holding /\ pc'[r] \notin Holding /\ leases' = leases
    BY <1>6 DEF CloseNow, Proceed, GoTo
  <2>2. \A b \in Actors \ {r} : pc'[b] = pc[b] /\ my'[b] = my[b]
    BY <1>6 DEF CloseNow, Proceed, GoTo
  <2> QED BY <2>1, <2>2, HoldersFrame
<1>7. CASE Cancel(r)
  <2>1. pc[r] \notin Holding /\ pc'[r] \notin Holding /\ leases' = leases
    BY <1>7 DEF Cancel, Proceed, GoTo
  <2>2. \A b \in Actors \ {r} : pc'[b] = pc[b] /\ my'[b] = my[b]
    BY <1>7 DEF Cancel, Proceed, GoTo
  <2> QED BY <2>1, <2>2, HoldersFrame
<1> QED
  BY <1>1, <1>2, <1>3, <1>4, <1>5, <1>6, <1>7
  DEF RemoverStep

(* An actor that owes no close, or owes the same one after its step.       *)
LEMMA OwedFrame ==
  ASSUME OwedInv, NEW a \in Actors, UNCHANGED <<leased, superseded, conn>>,
         \A b \in Actors \ {a} : pc'[b] = pc[b] /\ my'[b] = my[b],
         \/ pc[a] \notin Owing
         \/ pc'[a] \in Owing /\ my'[a] = my[a]
  PROVE  OwedInv'
<1> SUFFICES ASSUME NEW s \in leased, superseded[s], conn[s] # "closed" PROVE Owed(s)'
  BY DEF OwedInv
<1>1. PICK b \in Actors : my[b] = s /\ pc[b] \in Owing
  BY DEF OwedInv, Owed
<1>2. my'[b] = s /\ pc'[b] \in Owing
  BY <1>1
<1> QED BY <1>2 DEF Owed

(* Who closes a slot owes nothing of it any more.                          *)
LEMMA OwedClosed ==
  ASSUME OwedInv, NEW a \in Actors, UNCHANGED <<leased, superseded>>,
         leased \subseteq Slots, conn \in [Slots -> {"none", "up", "down", "broken", "closed"}],
         \A b \in Actors \ {a} : pc'[b] = pc[b] /\ my'[b] = my[b],
         my[a] \in Slots, my[a] \in leased => conn[my[a]] # "none", CloseQuietly(my[a])
  PROVE  OwedInv'
<1> SUFFICES ASSUME NEW s \in leased, superseded[s], conn'[s] # "closed" PROVE Owed(s)'
  BY DEF OwedInv
<1>1. s # my[a] /\ conn[s] # "closed"
  BY DEF CloseQuietly
<1>2. PICK b \in Actors : my[b] = s /\ pc[b] \in Owing
  BY <1>1 DEF OwedInv, Owed
<1>3. my'[b] = s /\ pc'[b] \in Owing
  BY <1>1, <1>2
<1> QED BY <1>3 DEF Owed

(* Who marks a slot owes its close.                                        *)
LEMMA OwedMarked ==
  ASSUME RegistryInv, OwedInv, NEW a \in Actors, Supersede(a), leased \subseteq Slots
  PROVE  OwedInv'
<1>1. pc' = [pc EXCEPT ![a] = IF a \in Disposals THEN "closing" ELSE "leases"]
      /\ UNCHANGED <<leased, conn, my>> /\ superseded' = [superseded EXCEPT ![my[a]] = TRUE]
      /\ pc[a] = "supersede"
  BY DEF Supersede, GoTo
<1> SUFFICES ASSUME NEW s \in leased, superseded'[s], conn[s] # "closed" PROVE Owed(s)'
  BY <1>1 DEF OwedInv
<1>2. CASE s = my[a]
  <2>1. my'[a] = s /\ pc'[a] \in Owing
    BY <1>1, <1>2 DEF Owing, Holding, RegistryInv, SlotsTyped
  <2> QED BY <2>1 DEF Owed
<1>3. CASE s # my[a]
  <2>1. superseded[s]
    BY <1>1, <1>3 DEF RegistryInv, SlotsTyped
  <2>2. PICK b \in Actors : my[b] = s /\ pc[b] \in Owing
    BY <2>1 DEF OwedInv, Owed
  <2>3. my'[b] = s /\ pc'[b] \in Owing
    BY <1>1, <2>2 DEF RegistryInv, SlotsTyped, Owing, Holding
  <2> QED BY <2>3 DEF Owed
<1> QED BY <1>2, <1>3

(* A lease that is found leaves the close to its holder.                   *)
LEMMA OwedAsked ==
  ASSUME RegistryInv, LeaseInv, OwedInv, NEW a \in Actors, AskLeases(a)
  PROVE  OwedInv'
<1> USE DEF RegistryInv, SlotsTyped
<1>1. pc[a] = "leases" /\ UNCHANGED <<leased, superseded, conn>> /\ my[a] \in Slots
  BY ConnectionRegistryAssumption
  DEF AskLeases, slotVars, RemovalInv, AtSlot, Removed, Slots, NoSlot, ConnectionRegistryAssumption
<1>2. \A b \in Actors \ {a} : pc'[b] = pc[b] /\ my'[b] = my[b]
  BY DEF AskLeases, Proceed, GoTo
<1>3. CASE leases[my[a]] = 0
  <2>1. pc'[a] = "closing" /\ my'[a] = my[a]
    BY <1>3 DEF AskLeases, Proceed, GoTo
  <2> QED BY <1>1, <1>2, <2>1, OwedFrame DEF Owing
<1>4. CASE leases[my[a]] # 0
  <2>1. Holders(my[a]) # {}
    BY <1>1, <1>4, FS_EmptySet DEF LeaseInv
  <2>2. PICK d \in Callers : pc[d] \in Holding /\ my[d] = my[a]
    BY <2>1 DEF Holders
  <2>3. d \in Actors \ {a}
    BY <1>1, <2>2 DEF Actors, Holding
  <2>4. my'[d] = my[a] /\ pc'[d] \in Owing
    BY <1>2, <2>2, <2>3 DEF Owing
  <2> SUFFICES ASSUME NEW s \in leased, superseded[s], conn[s] # "closed" PROVE Owed(s)'
    BY <1>1 DEF OwedInv
  <2>5. CASE s = my[a]
    BY <2>3, <2>4, <2>5 DEF Owed
  <2>6. CASE s # my[a]
    <3>1. PICK b \in Actors : my[b] = s /\ pc[b] \in Owing
      BY DEF OwedInv, Owed
    <3>2. my'[b] = s /\ pc'[b] \in Owing
      BY <1>2, <2>6, <3>1
    <3> QED BY <3>2 DEF Owed
  <2> QED BY <2>5, <2>6
<1> QED BY <1>3, <1>4

(* A call's step leaves every close owed.                                  *)
LEMMA OwedCaller ==
  ASSUME RegistryInv, OpenInv, LeaseInv, OwedInv, NEW c \in Callers, CallerStep(c)
  PROVE  OwedInv'
<1> USE ConnectionRegistryAssumption
    DEF ConnectionRegistryAssumption, RegistryInv, SlotsTyped, RemovalInv, Slots, NoSlot,
        AtSlot, Removed, Marked, Actors, Removers, Holding, Owing
<1>1. CASE Begin(c)
  <2>1. UNCHANGED <<leased, superseded, conn>>
    BY <1>1 DEF Begin, GoTo, slotVars
  <2>2. \A b \in Actors \ {c} : pc'[b] = pc[b] /\ my'[b] = my[b]
    BY <1>1 DEF Begin, GoTo, slotVars
  <2>3. pc[c] \notin Owing \/ (pc'[c] \in Owing /\ my'[c] = my[c])
    BY <1>1 DEF Begin, GoTo, slotVars
  <2> QED BY <2>1, <2>2, <2>3, OwedFrame
<1>2. CASE Compute(c)
  <2>1. UNCHANGED <<leased, superseded, conn>>
    BY <1>2 DEF Compute, NewSlot, GoTo
  <2>2. \A b \in Actors \ {c} : pc'[b] = pc[b] /\ my'[b] = my[b]
    BY <1>2 DEF Compute, NewSlot, GoTo
  <2>3. pc[c] \notin Owing \/ (pc'[c] \in Owing /\ my'[c] = my[c])
    BY <1>2 DEF Compute, NewSlot, GoTo
  <2> QED BY <2>1, <2>2, <2>3, OwedFrame
<1>3. CASE AwaitThrows(c)
  <2>1. UNCHANGED <<leased, superseded, conn>>
    BY <1>3 DEF AwaitThrows, RemoveExactly, Proceed, GoTo, slotVars
  <2>2. \A b \in Actors \ {c} : pc'[b] = pc[b] /\ my'[b] = my[b]
    BY <1>3 DEF AwaitThrows, RemoveExactly, Proceed, GoTo, slotVars
  <2>3. pc[c] \notin Owing \/ (pc'[c] \in Owing /\ my'[c] = my[c])
    BY <1>3 DEF AwaitThrows, RemoveExactly, Proceed, GoTo, slotVars
  <2> QED BY <2>1, <2>2, <2>3, OwedFrame
<1>4. CASE Awaited(c)
  <2>1. UNCHANGED <<leased, superseded, conn>>
    BY <1>4 DEF Awaited, GoTo, slotVars
  <2>2. \A b \in Actors \ {c} : pc'[b] = pc[b] /\ my'[b] = my[b]
    BY <1>4 DEF Awaited, GoTo, slotVars
  <2>3. pc[c] \notin Owing \/ (pc'[c] \in Owing /\ my'[c] = my[c])
    BY <1>4 DEF Awaited, GoTo, slotVars
  <2> QED BY <2>1, <2>2, <2>3, OwedFrame
<1>5. CASE Unslot(c)
  <2>1. UNCHANGED <<leased, superseded, conn>>
    BY <1>5 DEF Unslot, RemoveExactly, GoTo, slotVars
  <2>2. \A b \in Actors \ {c} : pc'[b] = pc[b] /\ my'[b] = my[b]
    BY <1>5 DEF Unslot, RemoveExactly, GoTo, slotVars
  <2>3. pc[c] \notin Owing \/ (pc'[c] \in Owing /\ my'[c] = my[c])
    BY <1>5 DEF Unslot, RemoveExactly, GoTo, slotVars
  <2> QED BY <2>1, <2>2, <2>3, OwedFrame
<1>6. CASE Again(c)
  <2>1. UNCHANGED <<leased, superseded, conn>>
    BY <1>6 DEF Again, Proceed, GoTo, slotVars
  <2>2. \A b \in Actors \ {c} : pc'[b] = pc[b] /\ my'[b] = my[b]
    BY <1>6 DEF Again, Proceed, GoTo, slotVars
  <2>3. pc[c] \notin Owing \/ (pc'[c] \in Owing /\ my'[c] = my[c])
    BY <1>6 DEF Again, Proceed, GoTo, slotVars
  <2> QED BY <2>1, <2>2, <2>3, OwedFrame
<1>7. CASE Lease(c)
  <2>1. leased' = leased \cup {my[c]} /\ UNCHANGED <<superseded, conn, my>>
        /\ pc' = [pc EXCEPT ![c] = "check"] /\ pc[c] = "lease"
    BY <1>7 DEF Lease, GoTo
  <2> SUFFICES ASSUME NEW s \in leased', superseded[s], conn[s] # "closed" PROVE Owed(s)'
    BY <2>1 DEF OwedInv
  <2>2. CASE s = my[c]
    <3>1. my'[c] = s /\ pc'[c] \in Owing
      BY <2>1, <2>2
    <3> QED BY <3>1 DEF Owed
  <2>3. CASE s # my[c]
    <3>1. PICK b \in Actors : my[b] = s /\ pc[b] \in Owing
      BY <2>1, <2>3 DEF OwedInv, Owed
    <3>2. my'[b] = s /\ pc'[b] \in Owing
      BY <2>1, <2>3, <3>1
    <3> QED BY <3>2 DEF Owed
  <2> QED BY <2>2, <2>3
<1>8. CASE Check(c)
  <2>1. UNCHANGED <<leased, superseded, conn, my>>
        /\ \A b \in Actors \ {c} : pc'[b] = pc[b] /\ my'[b] = my[b]
    BY <1>8 DEF Check, GoTo
  <2>2. CASE superseded[my[c]] /\ conn[my[c]] = "closed"
    <3> SUFFICES ASSUME NEW s \in leased, superseded[s], conn[s] # "closed" PROVE Owed(s)'
      BY <2>1 DEF OwedInv
    <3>1. PICK b \in Actors : my[b] = s /\ pc[b] \in Owing
      BY DEF OwedInv, Owed
    <3>2. my'[b] = s /\ pc'[b] \in Owing
      BY <2>1, <2>2, <3>1
    <3> QED BY <3>2 DEF Owed
  <2>3. CASE ~(superseded[my[c]] /\ conn[my[c]] = "closed")
    <3>1. pc'[c] \in Owing
      BY <1>8, <2>3 DEF Check, GoTo
    <3> QED BY <2>1, <3>1, OwedFrame
  <2> QED BY <2>2, <2>3
<1>9. CASE BlockEnds(c)
  <2>1. UNCHANGED <<leased, superseded, conn>> /\ my[c] \in Slots
        /\ pc[c] = "using" /\ leases' = [leases EXCEPT ![my[c]] = @ - 1]
    BY <1>9 DEF BlockEnds
  <2>2. \A b \in Actors \ {c} : pc'[b] = pc[b] /\ my'[b] = my[b]
    BY <1>9 DEF BlockEnds, Proceed, GoTo
  <2>3. CASE leases'[my[c]] = 0
    <3>1. pc'[c] = "released" /\ my'[c] = my[c]
      BY <1>9, <2>3 DEF BlockEnds, Proceed, GoTo
    <3> QED BY <2>1, <2>2, <3>1, OwedFrame
  <2>4. CASE leases'[my[c]] # 0
    <3>1. pc'[c] \notin Holding
      BY <1>9, <2>4 DEF BlockEnds, Proceed, GoTo
    <3>2. PICK d \in Callers \ {c} : pc[d] \in Holding /\ my[d] = my[c]
      BY <2>1, <2>2, <2>4, <3>1, HolderRemoved
    <3>3. my'[d] = my[c] /\ pc'[d] \in Owing /\ d \in Actors
      BY <2>2, <3>2
    <3> SUFFICES ASSUME NEW s \in leased, superseded[s], conn[s] # "closed" PROVE Owed(s)'
      BY <2>1 DEF OwedInv
    <3>4. CASE s = my[c]
      BY <3>3, <3>4 DEF Owed
    <3>5. CASE s # my[c]
      <4>1. PICK b \in Actors : my[b] = s /\ pc[b] \in Owing
        BY DEF OwedInv, Owed
      <4>2. my'[b] = s /\ pc'[b] \in Owing
        BY <2>2, <3>5, <4>1
      <4> QED BY <4>2 DEF Owed
    <3> QED BY <3>4, <3>5
  <2> QED BY <2>3, <2>4
<1>10. CASE Released(c)
  <2>1. my[c] \in Slots /\ UNCHANGED <<leased, superseded>>
        /\ \A b \in Actors \ {c} : pc'[b] = pc[b] /\ my'[b] = my[b]
    BY <1>10 DEF Released, Proceed, GoTo
  <2>2. CASE superseded[my[c]]
    <3>1. CloseQuietly(my[c])
      BY <1>10, <2>2 DEF Released, CloseIfSuperseded
    <3>2. my[c] \in leased => conn[my[c]] # "none"
      BY <2>1 DEF OpenInv
    <3> QED BY <2>1, <3>1, <3>2, OwedClosed DEF OpenInv
  <2>3. CASE ~superseded[my[c]]
    <3>1. conn' = conn
      BY <1>10, <2>3 DEF Released, CloseIfSuperseded
    <3> SUFFICES ASSUME NEW s \in leased, superseded[s], conn[s] # "closed" PROVE Owed(s)'
      BY <2>1, <3>1 DEF OwedInv
    <3>2. PICK b \in Actors : my[b] = s /\ pc[b] \in Owing
      BY DEF OwedInv, Owed
    <3>3. my'[b] = s /\ pc'[b] \in Owing
      BY <2>1, <2>3, <3>2
    <3> QED BY <3>3 DEF Owed
  <2> QED BY <2>2, <2>3
<1>11. CASE Supersede(c)
  BY <1>11, OwedMarked DEF OpenInv
<1>12. CASE AskLeases(c)
  BY <1>12, OwedAsked
<1>13. CASE CloseStale(c)
  <2>1. my[c] \in Slots /\ CloseQuietly(my[c]) /\ UNCHANGED <<leased, superseded>>
    BY <1>13 DEF CloseStale, GoTo
  <2>2. \A b \in Actors \ {c} : pc'[b] = pc[b] /\ my'[b] = my[b]
    BY <1>13 DEF CloseStale, GoTo
  <2>3. my[c] \in leased => conn[my[c]] # "none"
    BY <2>1 DEF OpenInv
  <2> QED BY <2>1, <2>2, <2>3, OwedClosed DEF OpenInv
<1> QED
  BY <1>1, <1>2, <1>3, <1>4, <1>5, <1>6, <1>7, <1>8, <1>9, <1>10, <1>11, <1>12, <1>13
  DEF CallerStep

(* So does a step of invalidate() or closeAll().                           *)
LEMMA OwedRemover ==
  ASSUME RegistryInv, OpenInv, LeaseInv, OwedInv, NEW r \in Removers, RemoverStep(r)
  PROVE  OwedInv'
<1> USE ConnectionRegistryAssumption
    DEF ConnectionRegistryAssumption, RegistryInv, SlotsTyped, RemovalInv, Slots, NoSlot,
        AtSlot, Removed, Marked, Actors, Removers, Holding, Owing
<1>1. CASE Bump(r)
  <2>1. UNCHANGED <<leased, superseded, conn>>
    BY <1>1 DEF Bump, GoTo, slotVars
  <2>2. \A b \in Actors \ {r} : pc'[b] = pc[b] /\ my'[b] = my[b]
    BY <1>1 DEF Bump, GoTo, slotVars
  <2>3. pc[r] \notin Owing \/ (pc'[r] \in Owing /\ my'[r] = my[r])
    BY <1>1 DEF Bump, GoTo, slotVars
  <2> QED BY <2>1, <2>2, <2>3, OwedFrame
<1>2. CASE Remove(r)
  <2>1. UNCHANGED <<leased, superseded, conn>>
    BY <1>2 DEF Remove, GoTo, slotVars
  <2>2. \A b \in Actors \ {r} : pc'[b] = pc[b] /\ my'[b] = my[b]
    BY <1>2 DEF Remove, GoTo, slotVars
  <2>3. pc[r] \notin Owing \/ (pc'[r] \in Owing /\ my'[r] = my[r])
    BY <1>2 DEF Remove, GoTo, slotVars
  <2> QED BY <2>1, <2>2, <2>3, OwedFrame
<1>3. CASE Supersede(r)
  BY <1>3, OwedMarked DEF OpenInv
<1>4. CASE AskLeases(r)
  BY <1>4, OwedAsked
<1>5. CASE IsCompleted(r)
  <2>1. UNCHANGED <<leased, superseded, conn>> /\ pc[r] = "closing" /\ my[r] \in Slots
    BY <1>5 DEF IsCompleted, slotVars
  <2>2. \A b \in Actors \ {r} : pc'[b] = pc[b] /\ my'[b] = my[b]
    BY <1>5 DEF IsCompleted, Proceed, GoTo
  <2>3. CASE my[r] \in leased
    <3>1. deferred[my[r]] = "ready"
      BY <2>3 DEF OpenInv
    <3>2. pc'[r] = "close" /\ my'[r] = my[r]
      BY <1>5, <3>1 DEF IsCompleted, Proceed, GoTo
    <3> QED BY <2>1, <2>2, <3>2, OwedFrame
  <2>4. CASE my[r] \notin leased
    <3> SUFFICES ASSUME NEW s \in leased, superseded[s], conn[s] # "closed" PROVE Owed(s)'
      BY <2>1 DEF OwedInv
    <3>1. PICK b \in Actors : my[b] = s /\ pc[b] \in Owing
      BY DEF OwedInv, Owed
    <3>2. my'[b] = s /\ pc'[b] \in Owing
      BY <2>2, <2>4, <3>1
    <3> QED BY <3>2 DEF Owed
  <2> QED BY <2>3, <2>4
<1>6. CASE CloseNow(r)
  <2>1. my[r] \in Slots /\ CloseQuietly(my[r]) /\ UNCHANGED <<leased, superseded>>
    BY <1>6 DEF CloseNow, Proceed, GoTo
  <2>2. \A b \in Actors \ {r} : pc'[b] = pc[b] /\ my'[b] = my[b]
    BY <1>6 DEF CloseNow, Proceed, GoTo
  <2>3. my[r] \in leased => conn[my[r]] # "none"
    BY <2>1 DEF OpenInv
  <2> QED BY <2>1, <2>2, <2>3, OwedClosed DEF OpenInv
<1>7. CASE Cancel(r)
  <2>1. UNCHANGED <<leased, superseded, conn>>
    BY <1>7 DEF Cancel, Proceed, GoTo
  <2>2. \A b \in Actors \ {r} : pc'[b] = pc[b] /\ my'[b] = my[b]
    BY <1>7 DEF Cancel, Proceed, GoTo
  <2>3. pc[r] \notin Owing \/ (pc'[r] \in Owing /\ my'[r] = my[r])
    BY <1>7 DEF Cancel, Proceed, GoTo
  <2> QED BY <2>1, <2>2, <2>3, OwedFrame
<1> QED
  BY <1>1, <1>2, <1>3, <1>4, <1>5, <1>6, <1>7
  DEF RemoverStep

(* The driver's steps: an open that completes was leased by nobody.        *)
LEMMA DriverKeepsBooks ==
  ASSUME RegistryInv, LeaseBooks, NEW s \in Slots, Opens(s) \/ Drop(s)
  PROVE  LeaseBooks'
<1> USE DEF RegistryInv, SlotsTyped, LeaseBooks
<1>1. UNCHANGED <<pc, my, leases, leased, superseded, created>>
  BY DEF Opens, OpenSucceeds, OpenFails, Drop
<1>2. OpenInv'
  <2>1. ASSUME NEW quality \in {"up", "broken"}, OpenSucceeds(s, quality) PROVE OpenInv'
    BY <1>1, <2>1 DEF OpenSucceeds, OpenInv, RemovalInv
  <2>2. CASE OpenFails(s)
    BY <1>1, <2>2 DEF OpenFails, OpenInv
  <2>3. CASE Drop(s)
    BY <1>1, <2>3 DEF Drop, OpenInv
  <2> QED BY <2>1, <2>2, <2>3 DEF Opens
<1>3. LeaseInv'
  BY <1>1 DEF LeaseInv, Holders
<1>4. \A t \in Slots : t \in leased /\ conn'[t] # "closed" => conn[t] # "closed"
  BY DEF Opens, OpenSucceeds, OpenFails, Drop, OpenInv
<1>5. OwedInv'
  BY <1>1, <1>4 DEF OwedInv, Owed, OpenInv
<1> QED BY <1>2, <1>3, <1>5

(* Nothing is opened, leased or owed at first.                             *)
LEMMA BooksInitial == Init => LeaseBooks
<1> SUFFICES ASSUME Init PROVE LeaseBooks
  OBVIOUS
<1>1. OpenInv
  BY DEF Init, OpenInv, Ready, Holding, Actors, Removers
<1>2. LeaseInv
  <2>1. \A s \in Slots : Holders(s) = {}
    BY DEF Init, Holders, Holding, Actors, Removers
  <2> QED BY <2>1, FS_EmptySet DEF Init, LeaseInv
<1>3. OwedInv
  BY DEF Init, OwedInv
<1> QED BY <1>1, <1>2, <1>3 DEF LeaseBooks

(* The lease counts and the closes owed, along every behaviour.            *)
THEOREM BooksCorrect == Spec => []LeaseBooks
<1>1. RegistryInv /\ LeaseBooks /\ [Next]_vars => LeaseBooks'
  <2> SUFFICES ASSUME RegistryInv, LeaseBooks, [Next]_vars PROVE LeaseBooks'
    OBVIOUS
  <2>1. ASSUME NEW c \in Callers, CallerStep(c) PROVE LeaseBooks'
    BY <2>1, OpenCaller, LeaseCaller, OwedCaller DEF LeaseBooks
  <2>2. ASSUME NEW r \in Removers, RemoverStep(r) PROVE LeaseBooks'
    BY <2>2, OpenRemover, LeaseRemover, OwedRemover DEF LeaseBooks
  <2>3. ASSUME NEW s \in Slots, Opens(s) \/ Drop(s) PROVE LeaseBooks'
    BY <2>3, DriverKeepsBooks
  <2>4. CASE UNCHANGED vars
    <3>1. UNCHANGED <<leases, deferred, conn, superseded, created, pc, my, leased>>
      BY <2>4 DEF vars, slotVars
    <3>2. OpenInv'
      BY <3>1 DEF LeaseBooks, OpenInv
    <3>3. LeaseInv'
      BY <3>1 DEF LeaseBooks, LeaseInv, Holders
    <3>4. OwedInv'
      BY <3>1 DEF LeaseBooks, OwedInv, Owed
    <3> QED BY <3>2, <3>3, <3>4 DEF LeaseBooks
  <2> QED BY <2>1, <2>2, <2>3, <2>4 DEF Next, Done
<1> QED BY <1>1, BooksInitial, RegistryInvCorrect, PTL DEF Spec

(* When every call is done, a superseded connection that some call leased  *)
(* has been closed, for any number of calls, invalidations and slots       *)
(* (withConnection's finally block, invalidate).                           *)
THEOREM ClosedCorrect == Spec => []LeasedThenClosed
<1>1. LeaseBooks => LeasedThenClosed
  BY DEF LeaseBooks, OwedInv, Owed, Owing, Holding, LeasedThenClosed, Settled
<1> QED BY <1>1, BooksCorrect, PTL

=============================================================================
