------------------------- MODULE ConnectionRegistry -------------------------
(***************************************************************************)
(* ConnectionRegistry (packages/jetbrains .../db/ConnectionRegistry.kt):   *)
(* the one JDBC connection of a descriptor, shared by concurrent           *)
(* withConnection() calls and replaced by invalidate() and closeAll().     *)
(* Coroutines run on many threads: every access to the map, to a slot's    *)
(* lease count and flag, and to the connection is a step of its own,       *)
(* unless no other step could come between it and its neighbour unseen.    *)
(*                                                                         *)
(* One descriptor is modelled; ids share nothing.  The driver is external: *)
(* an open may fail, a blocking open is not interrupted by cancel(), and a *)
(* connection may drop at any time.                                        *)
(***************************************************************************)
EXTENDS Integers, FiniteSets

CONSTANTS
  Callers,        \* calls of withConnection
  Invalidations,  \* calls of invalidate
  Disposals,      \* calls of closeAll
  MAX_STALE_RETRIES,
  MaxSlots,       \* bound on slots ever created
  MaxDrops,       \* bound on connections that drop
  Cancellable     \* a caller may be cancelled while it awaits the open

Slots == 1 .. MaxSlots
NoSlot == 0
Removers == Invalidations \cup Disposals
Actors == Callers \cup Removers

ASSUME ConnectionRegistryAssumption ==
  /\ Callers \cap Removers = {} /\ Invalidations \cap Disposals = {}
  /\ MAX_STALE_RETRIES \in Nat \ {0}
  /\ MaxSlots \in Nat /\ MaxDrops \in Nat /\ Cancellable \in BOOLEAN

VARIABLES
  generation,  \* generations[id]
  current,     \* slots[id]
  slotGen, deferred, leases, superseded, conn,  \* the fields of each slot
  created,     \* slots created so far
  pc, my,      \* where an actor is, and its slot
  acq,         \* acquire()'s locals: generation, staleRetries and health()'s verdict
  leased,      \* the slots that were ever leased
  drops

slotVars == <<slotGen, deferred, leases, superseded, conn>>
vars == <<generation, current, slotVars, created, pc, my, acq, leased, drops>>

NoAcq == [gen |-> 0, stale |-> 0, health |-> "Ok"]

Init ==
  /\ generation = 0 /\ current = NoSlot /\ created = 0
  /\ slotGen = [s \in Slots |-> 0] /\ deferred = [s \in Slots |-> "unused"]
  /\ leases = [s \in Slots |-> 0] /\ superseded = [s \in Slots |-> FALSE]
  /\ conn = [s \in Slots |-> "none"]
  /\ pc = [a \in Actors |-> IF a \in Disposals THEN "remove" ELSE "start"]
  /\ my = [a \in Actors |-> NoSlot] /\ acq = [c \in Callers |-> NoAcq]
  /\ leased = {} /\ drops = 0

GoTo(a, place) == pc' = [pc EXCEPT ![a] = place]

(* The same from where the slot is at hand; it is not beyond the end.      *)
Proceed(a, place) ==
  /\ GoTo(a, place)
  /\ my' = [my EXCEPT ![a] = IF place = "done" THEN NoSlot ELSE @]

-----------------------------------------------------------------------------
(* acquire()                                                               *)

(* The generation is read once, before the loop.                           *)
Begin(c) ==
  /\ pc[c] = "start"
  /\ acq' = [acq EXCEPT ![c] = [NoAcq EXCEPT !.gen = generation]]
  /\ GoTo(c, "compute")
  /\ UNCHANGED <<generation, current, slotVars, created, my, leased, drops>>

NewSlot(c, s) ==
  /\ created < MaxSlots
  /\ created' = s /\ current' = s
  /\ slotGen' = [slotGen EXCEPT ![s] = acq[c].gen]
  /\ deferred' = [deferred EXCEPT ![s] = "opening"]
  /\ my' = [my EXCEPT ![c] = s]

(* slots.compute is atomic: racers of one generation share one open.  A    *)
(* slot of another generation is replaced, and nobody told.                *)
Compute(c) ==
  /\ pc[c] = "compute"
  /\ LET cached == current # NoSlot /\ slotGen[current] = acq[c].gen
     IN  \/ /\ cached
            /\ my' = [my EXCEPT ![c] = current]
            /\ UNCHANGED <<created, current, slotGen, deferred>>
         \/ ~cached /\ NewSlot(c, created + 1)
  /\ GoTo(c, "await")
  /\ UNCHANGED <<generation, leases, superseded, conn, acq, leased, drops>>

(* JdbcConnectionFactory.open returns.  After a cancel() its connection is *)
(* dropped on the floor.  A file may open and not be a database.           *)
OpenSucceeds(s, quality) ==
  /\ deferred[s] \in {"opening", "cancelling"}
  /\ deferred' = [deferred EXCEPT ![s] = IF @ = "opening" THEN "ready" ELSE "failed"]
  /\ conn' = [conn EXCEPT ![s] = quality]
  /\ UNCHANGED <<generation, current, slotGen, leases, superseded, created, pc, my, acq,
                 leased, drops>>

OpenFails(s) ==
  /\ deferred[s] \in {"opening", "cancelling"}
  /\ deferred' = [deferred EXCEPT ![s] = "failed"]
  /\ UNCHANGED <<generation, current, slotGen, leases, superseded, conn, created, pc, my,
                 acq, leased, drops>>

(* slots.remove(id, slot): this exact slot, and no replacement of it.      *)
RemoveExactly(s) == current' = IF current = s THEN NoSlot ELSE current

(* await() throws: the open failed, or the caller itself was cancelled.    *)
AwaitThrows(c) ==
  /\ pc[c] = "await"
  /\ deferred[my[c]] = "failed" \/ Cancellable
  /\ RemoveExactly(my[c])
  /\ acq' = [acq EXCEPT ![c] = NoAcq]
  /\ Proceed(c, "done")
  /\ UNCHANGED <<generation, slotVars, created, leased, drops>>

(* health(): isClosed and isValid, or a throw that no new open can cure.   *)
Health(s) ==
  CASE conn[s] = "up" -> "Ok"
    [] conn[s] = "broken" -> "Broken"
    [] OTHER -> "Stale"

(* await() returns and health() is asked; acquire() returns an Ok one.     *)
Awaited(c) ==
  /\ pc[c] = "await" /\ deferred[my[c]] = "ready"
  /\ LET verdict == Health(my[c])
     IN  \/ verdict = "Ok" /\ acq' = [acq EXCEPT ![c] = NoAcq] /\ GoTo(c, "lease")
         \/ /\ verdict # "Ok"
            /\ acq' = [acq EXCEPT ![c].health = verdict] /\ GoTo(c, "unslot")
  /\ UNCHANGED <<generation, current, slotVars, created, my, leased, drops>>

(* A connection that is not Ok leaves the map, if it is still the one in it. *)
Unslot(c) ==
  /\ pc[c] = "unslot"
  /\ RemoveExactly(my[c])
  /\ GoTo(c, IF current = my[c] THEN "supersede" ELSE "again")
  /\ UNCHANGED <<generation, slotVars, created, my, acq, leased, drops>>

(* A broken file and a second stale connection throw.                      *)
Again(c) ==
  /\ pc[c] = "again"
  /\ LET throws == acq[c].health = "Broken" \/ acq[c].stale + 1 >= MAX_STALE_RETRIES
     IN  \/ throws /\ acq' = [acq EXCEPT ![c] = NoAcq] /\ Proceed(c, "done")
         \/ ~throws /\ acq' = [acq EXCEPT ![c].stale = @ + 1] /\ Proceed(c, "compute")
  /\ UNCHANGED <<generation, current, slotVars, created, leased, drops>>

-----------------------------------------------------------------------------
(* withConnection() after acquire()                                        *)

Lease(c) ==
  /\ pc[c] = "lease"
  /\ leases' = [leases EXCEPT ![my[c]] = @ + 1] /\ leased' = leased \cup {my[c]}
  /\ GoTo(c, "check")
  /\ UNCHANGED <<generation, current, slotGen, deferred, superseded, conn, created, my, acq, drops>>

(* Closed between acquire() and the lease: start over.                     *)
Check(c) ==
  /\ pc[c] = "check"
  /\ LET closed == superseded[my[c]] /\ conn[my[c]] = "closed"
     IN  /\ GoTo(c, IF closed THEN "start" ELSE "using")
         /\ leases' = [leases EXCEPT ![my[c]] = IF closed THEN @ - 1 ELSE @]
  /\ UNCHANGED <<generation, current, slotGen, deferred, superseded, conn, created, my, acq,
                 leased, drops>>

(* The block returns or throws; leases.decrementAndGet().                  *)
BlockEnds(c) ==
  /\ pc[c] = "using"
  /\ leases' = [leases EXCEPT ![my[c]] = @ - 1]
  /\ Proceed(c, IF leases'[my[c]] = 0 THEN "released" ELSE "done")
  /\ UNCHANGED <<generation, current, slotGen, deferred, superseded, conn, created, acq,
                 leased, drops>>

CloseQuietly(s) ==
  conn' = [conn EXCEPT ![s] = IF @ = "none" THEN @ ELSE "closed"]

(* Mutants: the last lease closes what the registry still hands out; the   *)
(* last lease leaves a superseded connection open.                         *)
CloseAlways(c) == CloseQuietly(my[c])
CloseNever(c) == UNCHANGED conn

(* ... && slot.superseded, read after the count.                           *)
CloseIfSuperseded(c) == IF superseded[my[c]] THEN CloseQuietly(my[c]) ELSE UNCHANGED conn

Released(c) ==
  /\ pc[c] = "released"
  /\ CloseIfSuperseded(c)
  /\ Proceed(c, "done")
  /\ UNCHANGED <<generation, current, slotGen, deferred, leases, superseded, created, acq,
                 leased, drops>>

-----------------------------------------------------------------------------
(* invalidate(), closeAll() and the stale branch of acquire()              *)

Bump(r) ==
  /\ pc[r] = "start"
  /\ generation' = generation + 1
  /\ GoTo(r, "remove")
  /\ UNCHANGED <<current, slotVars, created, my, acq, leased, drops>>

Remove(r) ==
  /\ pc[r] = "remove"
  /\ my' = [my EXCEPT ![r] = current] /\ current' = NoSlot
  /\ GoTo(r, IF current = NoSlot THEN "done" ELSE "supersede")
  /\ UNCHANGED <<generation, slotVars, created, acq, leased, drops>>

(* slot.superseded = true; closeAll() does not ask for the leases.         *)
Supersede(a) ==
  /\ pc[a] = "supersede"
  /\ superseded' = [superseded EXCEPT ![my[a]] = TRUE]
  /\ GoTo(a, IF a \in Disposals THEN "closing" ELSE "leases")
  /\ UNCHANGED <<generation, current, slotGen, deferred, leases, conn, created, my, acq,
                 leased, drops>>

(* slot.leases.get() == 0, tested before the close and not with it.        *)
AskLeases(a) ==
  /\ pc[a] = "leases"
  /\ Proceed(a, CASE leases[my[a]] = 0 -> "closing"
               [] leases[my[a]] # 0 /\ a \in Callers -> "again"
               [] OTHER -> "done")
  /\ UNCHANGED <<generation, current, slotVars, created, acq, leased, drops>>

(* The stale branch holds the connection it closes.                        *)
CloseStale(c) ==
  /\ pc[c] = "closing"
  /\ CloseQuietly(my[c])
  /\ GoTo(c, "again")
  /\ UNCHANGED <<generation, current, slotGen, deferred, leases, superseded, created, my, acq,
                 leased, drops>>

(* closeNowOrCancel: close what is open, cancel what is not; an open may   *)
(* complete between the test and the cancel, which then does nothing.      *)
IsCompleted(r) ==
  /\ pc[r] = "closing"
  /\ Proceed(r, CASE deferred[my[r]] = "ready" -> "close"
               [] deferred[my[r]] = "failed" -> "done"
               [] OTHER -> "cancel")
  /\ UNCHANGED <<generation, current, slotVars, created, acq, leased, drops>>

CloseNow(r) ==
  /\ pc[r] = "close"
  /\ CloseQuietly(my[r])
  /\ Proceed(r, "done")
  /\ UNCHANGED <<generation, current, slotGen, deferred, leases, superseded, created, acq,
                 leased, drops>>

Cancel(r) ==
  /\ pc[r] = "cancel"
  /\ deferred' = [deferred EXCEPT ![my[r]] = IF @ = "opening" THEN "cancelling" ELSE @]
  /\ Proceed(r, "done")
  /\ UNCHANGED <<generation, current, slotGen, leases, superseded, conn, created, acq, leased,
                 drops>>

(* The server or the network drops a connection.                           *)
Drop(s) ==
  /\ conn[s] = "up" /\ drops < MaxDrops
  /\ conn' = [conn EXCEPT ![s] = "down"] /\ drops' = drops + 1
  /\ UNCHANGED <<generation, current, slotGen, deferred, leases, superseded, created, pc, my,
                 acq, leased>>

Settled == \A a \in Actors : pc[a] = "done"
Done == Settled /\ (\A s \in Slots : deferred[s] \notin {"opening", "cancelling"}) /\ UNCHANGED vars

CallerStep(c) ==
  \/ Begin(c) \/ Compute(c) \/ AwaitThrows(c) \/ Awaited(c) \/ Unslot(c) \/ Again(c)
  \/ Lease(c) \/ Check(c) \/ BlockEnds(c) \/ Released(c)
  \/ Supersede(c) \/ AskLeases(c) \/ CloseStale(c)

RemoverStep(r) ==
  \/ (r \in Invalidations /\ Bump(r)) \/ Remove(r) \/ Supersede(r)
  \/ (r \in Invalidations /\ AskLeases(r)) \/ IsCompleted(r) \/ CloseNow(r) \/ Cancel(r)

Opens(s) == (\E quality \in {"up", "broken"} : OpenSucceeds(s, quality)) \/ OpenFails(s)

Next ==
  \/ \E c \in Callers : CallerStep(c)
  \/ \E r \in Removers : RemoverStep(r)
  \/ \E s \in Slots : Opens(s) \/ Drop(s)
  \/ Done

Spec == Init /\ [][Next]_vars

-----------------------------------------------------------------------------
(* The registry's map and slots are well typed; a lease is held by a call. *)
TypeOK ==
  /\ generation \in 0 .. Cardinality(Invalidations)
  /\ current \in 0 .. created /\ created \in 0 .. MaxSlots /\ drops \in 0 .. MaxDrops
  /\ leases \in [Slots -> 0 .. Cardinality(Callers)] /\ superseded \in [Slots -> BOOLEAN]
  /\ deferred \in [Slots -> {"unused", "opening", "cancelling", "ready", "failed"}]
  /\ conn \in [Slots -> {"none", "up", "down", "broken", "closed"}]
  /\ slotGen \in [Slots -> 0 .. Cardinality(Invalidations)]
  /\ pc \in [Actors -> {"start", "compute", "await", "unslot", "again", "lease", "check", "using",
                        "released", "remove", "supersede", "leases", "closing", "close", "cancel",
                        "done"}]
  /\ my \in [Actors -> 0 .. created] /\ leased \subseteq Slots
  /\ acq \in [Callers -> [gen : 0 .. Cardinality(Invalidations),
                          stale : 0 .. MAX_STALE_RETRIES - 1,
                          health : {"Ok", "Stale", "Broken"}]]

(* A connection the registry still hands out has not been closed by it:    *)
(* every close comes after the removal from the map, whoever does either.  *)
InstalledIsOpen == current # NoSlot => conn[current] # "closed"

(* A superseded connection that some call leased does not stay open once   *)
(* everyone is done: the invalidate() that found a lease leaves the close  *)
(* to the lease's end, and a cancel() that came too late to a waiter's.    *)
LeasedThenClosed ==
  Settled => \A s \in leased : superseded[s] => conn[s] = "closed"

(* Every open is a call's first, or replaces a connection that was removed *)
(* by invalidate() or closeAll() or has dropped: withConnection() and      *)
(* acquire() never spin on a file that opens and does not validate.        *)
OpensBounded == created <= Cardinality(Actors) + drops

(* "[invalidate] never closes a connection an in-flight [withConnection]   *)
(* still uses: each [Slot] tracks a lease count and closes only once the   *)
(* last lease ends."                                                       *)
NeverClosedInUse ==
  \A c \in Callers : pc[c] = "using" /\ superseded[my[c]] => conn[my[c]] # "closed"

(* "One lazily-opened [Connection] per [ConnectionDescriptor.id]": once    *)
(* everyone is done, only the slot in the map has an open connection.      *)
OneConnection ==
  Settled => \A s \in Slots : conn[s] = "up" => s = current
-----------------------------------------------------------------------------
(* The strengthening the proof inducts on.                                 *)

SlotsTyped ==
  /\ created \in 0 .. MaxSlots /\ current \in 0 .. created
  /\ pc \in [Actors -> {"start", "compute", "await", "unslot", "again", "lease", "check", "using", "released", "remove", "supersede", "leases", "closing", "close", "cancel", "done"}] /\ my \in [Actors -> 0 .. created]
  /\ superseded \in [Slots -> BOOLEAN]
  /\ conn \in [Slots -> {"none", "up", "down", "broken", "closed"}]

Removed == {"supersede", "leases", "closing", "close", "cancel"}
Marked == {"leases", "closing", "close", "cancel"}
AtSlot == Removed \cup {"await", "unslot", "lease", "check", "using", "released"}

(* A slot leaves the map before it is marked, is marked before it is       *)
(* closed, and never comes back: the slots to come are unmarked.           *)
RemovalInv ==
  /\ \A s \in Slots :
       /\ conn[s] = "closed" => superseded[s]
       /\ superseded[s] => s # current /\ s <= created
  /\ \A a \in Actors :
       /\ pc[a] \in AtSlot => my[a] # NoSlot
       /\ pc[a] \in Removed => my[a] # current
       /\ pc[a] \in Marked => superseded[my[a]]

RegistryInv == SlotsTyped /\ RemovalInv

(* A connection exists once its open has completed, and no later cancel()  *)
(* undoes that; what a call leased was ready.                              *)
Holding == {"check", "using"}
Ready == Holding \cup {"lease", "released"}
OpenInv ==
  /\ deferred \in [Slots -> {"unused", "opening", "cancelling", "ready", "failed"}]
  /\ \A s \in Slots :
       /\ deferred[s] = "ready" => conn[s] # "none"
       /\ conn[s] # "none" => deferred[s] \in {"ready", "failed"}
       /\ s > created => deferred[s] = "unused"
  /\ leased \subseteq Slots /\ \A s \in leased : deferred[s] = "ready"
  /\ \A c \in Callers : pc[c] \in Ready => deferred[my[c]] = "ready"

(* The lease count is the number of calls between Lease and their end.     *)
Holders(s) == {c \in Callers : pc[c] \in Holding /\ my[c] = s}
LeaseInv ==
  /\ leases \in [Slots -> Nat]
  /\ \A s \in Slots : IsFiniteSet(Holders(s)) /\ leases[s] = Cardinality(Holders(s))

(* Some call holds it, or is about to test the flag; or whoever marked it  *)
(* is still to ask for the leases, or to close it.                         *)
Owing == Holding \cup {"released", "leases", "closing", "close"}
Owed(s) == \E a \in Actors : my[a] = s /\ pc[a] \in Owing

(* The close of a superseded connection that was leased is always owed by  *)
(* someone who is not done.                                                *)
OwedInv == \A s \in leased : superseded[s] /\ conn[s] # "closed" => Owed(s)

LeaseBooks == OpenInv /\ LeaseInv /\ OwedInv
=============================================================================
