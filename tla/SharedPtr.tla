------------------------------ MODULE SharedPtr ------------------------------
(***************************************************************************)
(* The reference-counted pointer SharedPtr (common/shared_ptr) in several  *)
(* threads.  One handle, Global, is shared and only copied from; every     *)
(* thread has a handle of its own, as `bar(globalPtr)' of the class's test *)
(* and the parsers that copy XercescFactory's instance do.                 *)
(*                                                                         *)
(* An id stands for a counter and, unless it belongs to a default-         *)
(* constructed pointer, for the object allocated with it: mPtr and         *)
(* mCounter always travel together.  Ids are not reused, so that a use     *)
(* after a delete shows.                                                   *)
(***************************************************************************)
EXTENDS Integers, FiniteSets

CONSTANTS Threads,
          Ids,
          Global,   (* the shared handle                                    *)
          NoId,     (* the handle does not exist                            *)
          SMP       (* several processors: LOCK_PREFIX is empty, so incl    *)
                    (* and decl are then a load and a store                 *)

ASSUME HandlesAssumption == Global \notin Threads
ASSUME NoIdAssumption == NoId \notin Ids
ASSUME SMPAssumption == SMP \in BOOLEAN
ASSUME IdsAssumption == IsFiniteSet(Ids)
ASSUME ThreadsAssumption == IsFiniteSet(Threads)

VARIABLES
  handle,   (* the id of every handle                                       *)
  count,    (* the counters                                                 *)
  counters, (* the counters that are allocated                              *)
  objects,  (* the objects that are allocated                               *)
  born,     (* the ids used so far                                          *)
  null,     (* those of default-constructed pointers: mPtr = 0              *)
  pc,       (* the step each thread is about to take                        *)
  reg       (* the counter value it has loaded                              *)

vars == <<handle, count, counters, objects, born, null, pc, reg>>

Handles == Threads \cup {Global}

Fresh == Ids \ born

(* Before the threads start, Global is default-constructed or has been     *)
(* given an object by Reset.                                               *)
Init ==
  \E i \in Ids, empty \in BOOLEAN :
    /\ handle = [h \in Handles |-> IF h = Global THEN i ELSE NoId]
    /\ count = [j \in Ids |-> IF j = i /\ ~empty THEN 1 ELSE 0]
    /\ counters = {i}
    /\ objects = IF empty THEN {} ELSE {i}
    /\ born = {i}
    /\ null = {i} \ objects
    /\ pc = [t \in Threads |-> "idle"]
    /\ reg = [t \in Threads |-> 0]

Goto(t, from, to) == pc[t] = from /\ pc' = [pc EXCEPT ![t] = to]

Point(t, i) == handle' = [handle EXCEPT ![t] = i]

Exists(t) == handle[t] # NoId

-----------------------------------------------------------------------------
(* Operations on a thread's handle, up to their first use of a counter.    *)

(* The constructor that takes a raw pointer.                               *)
New(t) ==
  \E i \in Fresh :
    /\ Goto(t, "idle", "idle")
    /\ ~Exists(t)
    /\ Point(t, i)
    /\ count' = [count EXCEPT ![i] = 1]
    /\ counters' = counters \cup {i}
    /\ objects' = objects \cup {i}
    /\ born' = born \cup {i}
    /\ UNCHANGED <<null, reg>>

(* The default constructor: the counter of an empty pointer starts at 0.   *)
NewEmpty(t) ==
  \E i \in Fresh :
    /\ Goto(t, "idle", "idle")
    /\ ~Exists(t)
    /\ Point(t, i)
    /\ count' = [count EXCEPT ![i] = 0]
    /\ counters' = counters \cup {i}
    /\ born' = born \cup {i}
    /\ null' = null \cup {i}
    /\ UNCHANGED <<objects, reg>>

(* Seeded fault: the copy constructor does not increment the counter.      *)
Copy_NoInc(t) ==
  /\ Goto(t, "idle", "idle")
  /\ ~Exists(t)
  /\ Point(t, handle[Global])
  /\ UNCHANGED <<count, counters, objects, born, null, reg>>

(* The copy constructor, from Global.                                      *)
Copy(t) ==
  /\ Goto(t, "idle", "inc")
  /\ ~Exists(t)
  /\ Point(t, handle[Global])
  /\ UNCHANGED <<count, counters, objects, born, null, reg>>

SamePtr(i, j) == i = j \/ {i, j} \subseteq null

(* Seeded fault: a pointer to the same object is re-attached like another. *)
Assign_NoCheck(t) ==
  /\ Exists(t)
  /\ Goto(t, "idle", "inc")
  /\ Point(t, handle[Global])
  /\ UNCHANGED <<count, counters, objects, born, null, reg>>

(* operator= from Global.  A handle that has the same mPtr keeps it and    *)
(* increments the counter once more.                                       *)
Assign(t) ==
  /\ Exists(t)
  /\ Goto(t, "idle", IF SamePtr(handle[t], handle[Global]) THEN "inc" ELSE "release")
  /\ UNCHANGED <<handle, count, counters, objects, born, null, reg>>

(* The destructor.                                                         *)
Destroy(t) ==
  /\ Exists(t)
  /\ Goto(t, "idle", "drop")
  /\ UNCHANGED <<handle, count, counters, objects, born, null, reg>>

(* Reset to a new object: the old object and its counter are deleted,      *)
(* whoever shares them.                                                    *)
Reset(t) ==
  \E i \in Fresh :
    /\ Exists(t)
    /\ Goto(t, "idle", "idle")
    /\ Point(t, i)
    /\ count' = [count EXCEPT ![i] = 1]
    /\ counters' = (counters \ {handle[t]}) \cup {i}
    /\ objects' = (objects \ {handle[t]}) \cup {i}
    /\ born' = born \cup {i}
    /\ UNCHANGED <<null, reg>>

-----------------------------------------------------------------------------
(* atomic_inc: one instruction, or a load and a store.                     *)
Inc(t) ==
  /\ ~SMP
  /\ Goto(t, "inc", "idle")
  /\ count' = [count EXCEPT ![handle[t]] = @ + 1]
  /\ UNCHANGED <<handle, counters, objects, born, null, reg>>

IncLoad(t) ==
  /\ SMP
  /\ Goto(t, "inc", "incStore")
  /\ reg' = [reg EXCEPT ![t] = count[handle[t]]]
  /\ UNCHANGED <<handle, count, counters, objects, born, null>>

IncStore(t) ==
  /\ Goto(t, "incStore", "idle")
  /\ count' = [count EXCEPT ![handle[t]] = reg[t] + 1]
  /\ UNCHANGED <<handle, counters, objects, born, null, reg>>

(* Where a thread goes on after DecAndTest: to the deletes if the counter  *)
(* has become zero.  operator= ("release") goes on to attach, the          *)
(* destructor ("drop") ends.                                               *)
After(op, zero) ==
  IF op = "release" THEN IF zero THEN "releaseLast" ELSE "attach"
                    ELSE IF zero THEN "dropLast" ELSE "gone"

(* atomic_dec_and_test on handle's counter.                                *)
Dec(t) ==
  \E op \in {"release", "drop"} :
    /\ ~SMP
    /\ Goto(t, op, After(op, count[handle[t]] = 1))
    /\ count' = [count EXCEPT ![handle[t]] = @ - 1]
    /\ UNCHANGED <<handle, counters, objects, born, null, reg>>

DecLoad(t) ==
  \E op \in {"release", "drop"} :
    /\ SMP
    /\ Goto(t, op, IF op = "release" THEN "releaseStore" ELSE "dropStore")
    /\ reg' = [reg EXCEPT ![t] = count[handle[t]]]
    /\ UNCHANGED <<handle, count, counters, objects, born, null>>

(* Seeded fault: the value before the decrement is tested for zero.        *)
DecStore_TestLoaded(t) ==
  \E op \in {"release", "drop"} :
    /\ Goto(t, IF op = "release" THEN "releaseStore" ELSE "dropStore", After(op, reg[t] = 0))
    /\ count' = [count EXCEPT ![handle[t]] = reg[t] - 1]
    /\ UNCHANGED <<handle, counters, objects, born, null, reg>>

DecStore(t) ==
  \E op \in {"release", "drop"} :
    /\ Goto(t, IF op = "release" THEN "releaseStore" ELSE "dropStore", After(op, reg[t] = 1))
    /\ count' = [count EXCEPT ![handle[t]] = reg[t] - 1]
    /\ UNCHANGED <<handle, counters, objects, born, null, reg>>

(* Seeded fault: the counter is deleted, the object is not.                *)
Delete_CounterOnly(t) ==
  \E op \in {"releaseLast", "dropLast"} :
    /\ Goto(t, op, IF op = "releaseLast" THEN "attach" ELSE "gone")
    /\ counters' = counters \ {handle[t]}
    /\ UNCHANGED <<handle, count, objects, born, null, reg>>

(* delete mPtr; delete mCounter.                                           *)
Delete(t) ==
  \E op \in {"releaseLast", "dropLast"} :
    /\ Goto(t, op, IF op = "releaseLast" THEN "attach" ELSE "gone")
    /\ objects' = objects \ {handle[t]}
    /\ counters' = counters \ {handle[t]}
    /\ UNCHANGED <<handle, count, born, null, reg>>

(* Seeded fault: operator= does not increment the counter it attaches to.  *)
Attach_NoInc(t) ==
  /\ Goto(t, "attach", "idle")
  /\ Point(t, handle[Global])
  /\ UNCHANGED <<count, counters, objects, born, null, reg>>

(* The second half of operator=.                                           *)
Attach(t) ==
  /\ Goto(t, "attach", "inc")
  /\ Point(t, handle[Global])
  /\ UNCHANGED <<count, counters, objects, born, null, reg>>

(* The destructor returns.                                                 *)
Gone(t) ==
  /\ Goto(t, "gone", "idle")
  /\ Point(t, NoId)
  /\ UNCHANGED <<count, counters, objects, born, null, reg>>

Run(t) ==
  Inc(t) \/ IncLoad(t) \/ IncStore(t) \/ Dec(t) \/ DecLoad(t) \/ DecStore(t)
         \/ Delete(t) \/ Attach(t) \/ Gone(t)

Use(t) == New(t) \/ NewEmpty(t) \/ Copy(t) \/ Assign(t) \/ Destroy(t) \/ Reset(t)

Spec == Init /\ [][\E t \in Threads : Use(t) \/ Run(t)]_vars

-----------------------------------------------------------------------------
(***************************************************************************)
(* The use that is safe: Global has an object, Reset is only called on a   *)
(* handle that shares its object with no other, operator= only between     *)
(* pointers to different objects.                                          *)
(***************************************************************************)
Alone(t) == handle[t] \in null \/ count[handle[t]] = 1

SafeUse(t) ==
  \/ New(t)
  \/ NewEmpty(t)
  \/ Copy(t)
  \/ Assign(t) /\ ~SamePtr(handle[t], handle[Global])
  \/ Destroy(t)
  \/ Reset(t) /\ Alone(t)

SafeNext == \E t \in Threads : SafeUse(t) \/ Run(t)

SafeInit == Init /\ null = {}

SafeSpec == SafeInit /\ [][SafeNext]_vars

Steps == {"idle", "inc", "incStore", "release", "releaseStore", "releaseLast",
          "drop", "dropStore", "dropLast", "attach", "gone"}

TypeOK ==
  /\ handle \in [Handles -> Ids \cup {NoId}]
  /\ handle[Global] \in Ids
  /\ count \in [Ids -> Int]
  /\ counters \subseteq born
  /\ objects \subseteq counters
  /\ born \subseteq Ids
  /\ null \subseteq born \ objects
  /\ pc \in [Threads -> Steps]
  /\ reg \in [Threads -> Int]
  /\ \A t \in Threads : pc[t] # "idle" => Exists(t)

(* The handles whose share of a counter is counted: not yet after the copy *)
(* of the pointer and before the increment, not any more after the         *)
(* decrement.                                                              *)
Counted(t) == pc[t] \in {"idle", "release", "releaseStore", "drop", "dropStore"}

Holders(i) == {h \in Handles : handle[h] = i /\ (h \in Threads => Counted(h))}

(***************************************************************************)
(* Nothing is used after it was deleted: the object and the counter of     *)
(* every handle are there, unless its own thread is about to forget them.  *)
(***************************************************************************)
NoUseAfterFree ==
  \A h \in Handles :
    Exists(h) /\ (h \in Threads => pc[h] \notin {"attach", "gone"})
      => /\ handle[h] \in counters
         /\ handle[h] \notin null => handle[h] \in objects

(* An object is deleted when its last handle goes: one that is still there *)
(* has a handle, or a thread is about to delete it.                        *)
FreedWithLastHandle ==
  \A i \in objects : \E h \in Handles : handle[h] = i /\ (h \in Threads => pc[h] \notin {"attach", "gone"})

(* The counter of an object is the number of handles that share it.        *)
CountExact == \A i \in objects : count[i] = Cardinality(Holders(i))
==============================================================================
