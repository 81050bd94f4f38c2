-------------------------- MODULE SharedPtr_proofs --------------------------
(***************************************************************************)
(* The safe use of SharedPtr on one processor: for every set of threads    *)
(* and of objects, the counter of an object is the number of its handles,  *)
(* nothing is used after it was deleted and nothing outlives its last      *)
(* handle.                                                                 *)
(***************************************************************************)
EXTENDS SharedPtr, FiniteSetTheorems, TLAPS

(* A handle that is about to be forgotten or pointed elsewhere.            *)
GivenUp(h) == h \in Threads /\ pc[h] \in {"attach", "gone"}

Last == {"releaseLast", "dropLast"}

(* Global never points to the counter of an empty pointer.                 *)
GlobalStands == handle[Global] \notin null

(* atomic_inc and atomic_dec_and_test are one instruction.                 *)
Atomic == \A t \in Threads : pc[t] \notin {"incStore", "releaseStore", "dropStore"}

(* A fresh id is nobody's.                                                 *)
BornFirst == \A h \in Handles : Exists(h) => handle[h] \in born

(* The only counter that is still to be incremented is Global's.           *)
IncOfGlobal == \A t \in Threads : pc[t] = "inc" => handle[t] = handle[Global]

(* A default-constructed pointer shares its counter with no other.         *)
EmptyAlone == \A g, h \in Handles : handle[g] \in null /\ handle[g] = handle[h] => g = h

(* The counter of an empty pointer is 0 until it is decremented.           *)
EmptyCount ==
  \A t \in Threads : handle[t] \in null /\ pc[t] \in {"idle", "release", "drop"}
                       => count[handle[t]] = 0

(* The thread that deletes an object is the last to look at it.            *)
LastAlone ==
  \A t \in Threads :
    pc[t] \in Last =>
      /\ handle[t] \notin null
      /\ \A h \in Handles \ {t} : handle[h] = handle[t] => GivenUp(h)

(* The inductive invariant.                                                *)
SafeInv ==
  /\ TypeOK
  /\ GlobalStands
  /\ Atomic
  /\ BornFirst
  /\ IncOfGlobal
  /\ EmptyAlone
  /\ EmptyCount
  /\ LastAlone
  /\ NoUseAfterFree
  /\ FreedWithLastHandle
  /\ CountExact

-----------------------------------------------------------------------------
(* Sets of handles are finite, so that their cardinality is a number.      *)
LEMMA HoldersFinite ==
  ASSUME NEW i
  PROVE  IsFiniteSet(Holders(i)) /\ Cardinality(Holders(i)) \in Nat
<1>1. IsFiniteSet(Handles)
  BY ThreadsAssumption, FS_AddElement DEF Handles
<1>2. Holders(i) \in SUBSET Handles
  BY DEF Holders
<1> QED
  BY <1>1, <1>2, FS_Subset, FS_CardinalityType

(* The initial states of the safe use satisfy the invariant.               *)
LEMMA InitSafe == SafeInit => SafeInv
<1> SUFFICES ASSUME SafeInit PROVE SafeInv
  OBVIOUS
<1> USE HandlesAssumption, NoIdAssumption
<1>1. PICK i \in Ids :
        /\ handle = [h \in Handles |-> IF h = Global THEN i ELSE NoId]
        /\ count[i] = 1 /\ count \in [Ids -> Int]
        /\ counters = {i} /\ objects = {i} /\ born = {i} /\ null = {}
        /\ pc = [t \in Threads |-> "idle"]
        /\ reg = [t \in Threads |-> 0]
  BY DEF SafeInit, Init
<1>2. TypeOK
  BY <1>1 DEF TypeOK, Handles, Steps, Exists
<1>3. Holders(i) = {Global}
  BY <1>1 DEF Holders, Handles, Counted
<1>4. CountExact
  BY <1>1, <1>3, FS_Singleton DEF CountExact
<1>5. GlobalStands /\ Atomic /\ BornFirst /\ IncOfGlobal
  BY <1>1 DEF GlobalStands, Atomic, BornFirst, IncOfGlobal, Handles, Exists
<1>6. EmptyAlone /\ EmptyCount /\ LastAlone
  BY <1>1 DEF EmptyAlone, EmptyCount, LastAlone, Last
<1>7. NoUseAfterFree /\ FreedWithLastHandle
  BY <1>1 DEF NoUseAfterFree, FreedWithLastHandle, Handles, Exists
<1> QED
  BY <1>2, <1>4, <1>5, <1>6, <1>7 DEF SafeInv

(* A copy is not counted before its increment. *)
LEMMA CopySafe ==
  ASSUME SafeInv, ~SMP, NEW t \in Threads, Copy(t)
  PROVE  SafeInv'
<1> USE HandlesAssumption, NoIdAssumption DEF Copy, Goto, Point, Exists
<1>1. TypeOK'
  BY DEF SafeInv, TypeOK, Handles, Steps
<1>2. GlobalStands' /\ Atomic' /\ BornFirst' /\ IncOfGlobal'
  BY DEF SafeInv, TypeOK, Handles, GlobalStands, Atomic, BornFirst, IncOfGlobal
<1>3. EmptyAlone' /\ EmptyCount'
  BY DEF SafeInv, TypeOK, Handles, GlobalStands, BornFirst, IncOfGlobal, EmptyAlone, EmptyCount
<1>4. LastAlone'
  BY DEF SafeInv, TypeOK, Handles, BornFirst, LastAlone, Last, GivenUp, GlobalStands
<1>5. NoUseAfterFree'
  BY DEF SafeInv, TypeOK, Handles, NoUseAfterFree, LastAlone, Last, GivenUp, EmptyAlone
<1>6. FreedWithLastHandle'
  BY DEF SafeInv, TypeOK, Handles, BornFirst, FreedWithLastHandle
<1>7. \A i \in Ids : Holders(i)' = Holders(i)
  BY DEF SafeInv, TypeOK, Handles, Holders, Counted
<1>8. CountExact'
  BY <1>7 DEF SafeInv, CountExact, TypeOK
<1> QED
  BY <1>1, <1>2, <1>3, <1>4, <1>5, <1>6, <1>8 DEF SafeInv

(* A destructor starts. *)
LEMMA DestroySafe ==
  ASSUME SafeInv, ~SMP, NEW t \in Threads, Destroy(t)
  PROVE  SafeInv'
<1> USE HandlesAssumption, NoIdAssumption DEF Destroy, Goto, Point, Exists
<1>1. TypeOK'
  BY DEF SafeInv, TypeOK, Handles, Steps
<1>2. GlobalStands' /\ Atomic' /\ BornFirst' /\ IncOfGlobal'
  BY DEF SafeInv, TypeOK, Handles, GlobalStands, Atomic, BornFirst, IncOfGlobal
<1>3. EmptyAlone' /\ EmptyCount'
  BY DEF SafeInv, TypeOK, Handles, GlobalStands, BornFirst, IncOfGlobal, EmptyAlone, EmptyCount
<1>4. LastAlone'
  BY DEF SafeInv, TypeOK, Handles, BornFirst, LastAlone, Last, GivenUp, GlobalStands
<1>5. NoUseAfterFree'
  BY DEF SafeInv, TypeOK, Handles, NoUseAfterFree, LastAlone, Last, GivenUp, EmptyAlone
<1>6. FreedWithLastHandle'
  BY DEF SafeInv, TypeOK, Handles, BornFirst, FreedWithLastHandle
<1>7. \A i \in Ids : Holders(i)' = Holders(i)
  BY DEF SafeInv, TypeOK, Handles, Holders, Counted
<1>8. CountExact'
  BY <1>7 DEF SafeInv, CountExact, TypeOK
<1> QED
  BY <1>1, <1>2, <1>3, <1>4, <1>5, <1>6, <1>8 DEF SafeInv

(* A pointer is re-attached after its release. *)
LEMMA AttachSafe ==
  ASSUME SafeInv, ~SMP, NEW t \in Threads, Attach(t)
  PROVE  SafeInv'
<1> USE HandlesAssumption, NoIdAssumption DEF Attach, Goto, Point, Exists
<1>1. TypeOK'
  BY DEF SafeInv, TypeOK, Handles, Steps
<1>2. GlobalStands' /\ Atomic' /\ BornFirst' /\ IncOfGlobal'
  BY DEF SafeInv, TypeOK, Handles, GlobalStands, Atomic, BornFirst, IncOfGlobal
<1>3. EmptyAlone' /\ EmptyCount'
  BY DEF SafeInv, TypeOK, Handles, GlobalStands, BornFirst, IncOfGlobal, EmptyAlone, EmptyCount
<1>4. LastAlone'
  BY DEF SafeInv, TypeOK, Handles, BornFirst, LastAlone, Last, GivenUp, GlobalStands
<1>5. NoUseAfterFree'
  BY DEF SafeInv, TypeOK, Handles, NoUseAfterFree, LastAlone, Last, GivenUp, EmptyAlone
<1>6. FreedWithLastHandle'
  BY DEF SafeInv, TypeOK, Handles, BornFirst, FreedWithLastHandle
<1>7. \A i \in Ids : Holders(i)' = Holders(i)
  BY DEF SafeInv, TypeOK, Handles, Holders, Counted
<1>8. CountExact'
  BY <1>7 DEF SafeInv, CountExact, TypeOK
<1> QED
  BY <1>1, <1>2, <1>3, <1>4, <1>5, <1>6, <1>8 DEF SafeInv

(* A handle is gone. *)
LEMMA GoneSafe ==
  ASSUME SafeInv, ~SMP, NEW t \in Threads, Gone(t)
  PROVE  SafeInv'
<1> USE HandlesAssumption, NoIdAssumption DEF Gone, Goto, Point, Exists
<1>1. TypeOK'
  BY DEF SafeInv, TypeOK, Handles, Steps
<1>2. GlobalStands' /\ Atomic' /\ BornFirst' /\ IncOfGlobal'
  BY DEF SafeInv, TypeOK, Handles, GlobalStands, Atomic, BornFirst, IncOfGlobal
<1>3. EmptyAlone' /\ EmptyCount'
  BY DEF SafeInv, TypeOK, Handles, GlobalStands, BornFirst, IncOfGlobal, EmptyAlone, EmptyCount
<1>4. LastAlone'
  BY DEF SafeInv, TypeOK, Handles, BornFirst, LastAlone, Last, GivenUp, GlobalStands
<1>5. NoUseAfterFree'
  BY DEF SafeInv, TypeOK, Handles, NoUseAfterFree, LastAlone, Last, GivenUp, EmptyAlone
<1>6. FreedWithLastHandle'
  BY DEF SafeInv, TypeOK, Handles, BornFirst, FreedWithLastHandle
<1>7. \A i \in Ids : Holders(i)' = Holders(i)
  BY DEF SafeInv, TypeOK, Handles, Holders, Counted
<1>8. CountExact'
  BY <1>7 DEF SafeInv, CountExact, TypeOK
<1> QED
  BY <1>1, <1>2, <1>3, <1>4, <1>5, <1>6, <1>8 DEF SafeInv

(* An object is deleted. *)
LEMMA DeleteSafe ==
  ASSUME SafeInv, ~SMP, NEW t \in Threads, Delete(t)
  PROVE  SafeInv'
<1> USE HandlesAssumption, NoIdAssumption DEF Delete, Goto, Point, Exists
<1>1. TypeOK'
  BY DEF SafeInv, TypeOK, Handles, Steps
<1>2. GlobalStands' /\ Atomic' /\ BornFirst' /\ IncOfGlobal'
  BY DEF SafeInv, TypeOK, Handles, GlobalStands, Atomic, BornFirst, IncOfGlobal
<1>3. EmptyAlone' /\ EmptyCount'
  BY DEF SafeInv, TypeOK, Handles, GlobalStands, BornFirst, IncOfGlobal, EmptyAlone, EmptyCount
<1>4. LastAlone'
  BY DEF SafeInv, TypeOK, Handles, BornFirst, LastAlone, Last, GivenUp, GlobalStands
<1>5. NoUseAfterFree'
  BY DEF SafeInv, TypeOK, Handles, NoUseAfterFree, LastAlone, Last, GivenUp, EmptyAlone
<1>6. FreedWithLastHandle'
  BY DEF SafeInv, TypeOK, Handles, BornFirst, FreedWithLastHandle
<1>7. \A i \in Ids : Holders(i)' = Holders(i)
  BY DEF SafeInv, TypeOK, Handles, Holders, Counted
<1>8. CountExact'
  BY <1>7 DEF SafeInv, CountExact, TypeOK
<1> QED
  BY <1>1, <1>2, <1>3, <1>4, <1>5, <1>6, <1>8 DEF SafeInv

(* An assignment starts with the release of the old object. *)
LEMMA AssignSafe ==
  ASSUME SafeInv, ~SMP, NEW t \in Threads, Assign(t), ~SamePtr(handle[t], handle[Global])
  PROVE  SafeInv'
<1> USE HandlesAssumption, NoIdAssumption DEF Assign, Goto, Exists, SamePtr
<1>1. TypeOK'
  BY DEF SafeInv, TypeOK, Handles, Steps, After
<1>2. GlobalStands' /\ Atomic' /\ BornFirst' /\ IncOfGlobal'
  BY DEF SafeInv, TypeOK, Handles, GlobalStands, Atomic, BornFirst, IncOfGlobal, After
<1>3. EmptyAlone' /\ EmptyCount'
  BY DEF SafeInv, TypeOK, Handles, GlobalStands, BornFirst, IncOfGlobal, EmptyAlone, EmptyCount, After
<1>4. LastAlone'
  BY DEF SafeInv, TypeOK, Handles, BornFirst, LastAlone, Last, GivenUp, GlobalStands
<1>5. NoUseAfterFree'
  BY DEF SafeInv, TypeOK, Handles, NoUseAfterFree, LastAlone, Last, GivenUp, EmptyAlone
<1>6. FreedWithLastHandle'
  BY DEF SafeInv, TypeOK, Handles, BornFirst, FreedWithLastHandle
<1>7. \A i \in Ids : Holders(i)' = Holders(i)
  BY DEF SafeInv, TypeOK, Handles, Holders, Counted, SamePtr
<1>8. CountExact'
  BY <1>7 DEF SafeInv, CountExact, TypeOK
<1> QED
  BY <1>1, <1>2, <1>3, <1>4, <1>5, <1>6, <1>8 DEF SafeInv

(* An increment. *)
LEMMA IncSafe ==
  ASSUME SafeInv, ~SMP, NEW t \in Threads, Inc(t)
  PROVE  SafeInv'
<1> USE HandlesAssumption, NoIdAssumption DEF Inc, Goto, Exists
<1>1. TypeOK'
  BY DEF SafeInv, TypeOK, Handles, Steps, After
<1>2. GlobalStands' /\ Atomic' /\ BornFirst' /\ IncOfGlobal'
  BY DEF SafeInv, TypeOK, Handles, GlobalStands, Atomic, BornFirst, IncOfGlobal, After
<1>3. EmptyAlone' /\ EmptyCount'
  BY DEF SafeInv, TypeOK, Handles, GlobalStands, BornFirst, IncOfGlobal, EmptyAlone, EmptyCount, After
<1>4. LastAlone'
  BY DEF SafeInv, TypeOK, Handles, BornFirst, LastAlone, Last, GivenUp, GlobalStands
<1>5. NoUseAfterFree'
  BY DEF SafeInv, TypeOK, Handles, NoUseAfterFree, LastAlone, Last, GivenUp, EmptyAlone
<1>6. FreedWithLastHandle'
  BY DEF SafeInv, TypeOK, Handles, BornFirst, FreedWithLastHandle
<1>7. PICK i \in Ids : i = handle[t]
  BY DEF SafeInv, TypeOK, Handles
<1>8. Holders(i)' = Holders(i) \cup {t} /\ t \notin Holders(i)
  BY <1>7 DEF SafeInv, TypeOK, Handles, Holders, Counted
<1>9. Cardinality(Holders(i)') = Cardinality(Holders(i)) + 1
  BY <1>8, HoldersFinite, FS_AddElement
<1>10. ASSUME NEW j \in Ids, j # i
       PROVE  Holders(j)' = Holders(j) /\ count'[j] = count[j]
  BY <1>7, <1>10 DEF SafeInv, TypeOK, Handles, Holders, Counted
<1>11. count'[i] = count[i] + 1
  BY <1>7 DEF SafeInv, TypeOK
<1>12. CountExact'
  BY <1>9, <1>10, <1>11 DEF SafeInv, CountExact, TypeOK
<1> QED
  BY <1>1, <1>2, <1>3, <1>4, <1>5, <1>6, <1>12 DEF SafeInv

(* A decrement: the thread that makes the counter zero is alone. *)
LEMMA DecSafe ==
  ASSUME SafeInv, ~SMP, NEW t \in Threads, Dec(t)
  PROVE  SafeInv'
<1> USE HandlesAssumption, NoIdAssumption DEF Dec, Goto, Exists
<1>1. PICK i \in Ids, op \in {"release", "drop"} :
        /\ i = handle[t]
        /\ pc[t] = op /\ pc' = [pc EXCEPT ![t] = After(op, count[i] = 1)]
        /\ count' = [count EXCEPT ![i] = @ - 1]
        /\ UNCHANGED <<handle, counters, objects, born, null, reg>>
  BY DEF SafeInv, TypeOK, Handles
<1>2. TypeOK'
  BY <1>1 DEF SafeInv, TypeOK, Handles, Steps, After
<1>3. Holders(i)' = Holders(i) \ {t} /\ t \in Holders(i)
  BY <1>1 DEF SafeInv, TypeOK, Handles, Holders, Counted, After
<1>4. Cardinality(Holders(i)') = Cardinality(Holders(i)) - 1
  BY <1>3, HoldersFinite, FS_RemoveElement
<1>5. ASSUME NEW j \in Ids, j # i
      PROVE  Holders(j)' = Holders(j) /\ count'[j] = count[j]
  BY <1>1, <1>5 DEF SafeInv, TypeOK, Handles, Holders, Counted
<1>6. count'[i] = count[i] - 1
  BY <1>1 DEF SafeInv, TypeOK
<1>7. CountExact'
  BY <1>1, <1>4, <1>5, <1>6 DEF SafeInv, CountExact, TypeOK
<1>8. i \notin null => i \in objects
  BY <1>1 DEF SafeInv, NoUseAfterFree, TypeOK, Handles
<1>9. i \in null => count[i] = 0
  BY <1>1 DEF SafeInv, EmptyCount
<1>10. ASSUME count[i] = 1
       PROVE  Holders(i) = {t}
  <2>1. Cardinality(Holders(i)) = 1
    BY <1>8, <1>9, <1>10 DEF SafeInv, CountExact
  <2> QED
    BY <2>1, <1>3, HoldersFinite, FS_Singleton
<1>11. ASSUME i \in objects, count[i] # 1
       PROVE  \E h \in Holders(i) : h # t
  <2>1. Cardinality(Holders(i)) # 1
    BY <1>11 DEF SafeInv, CountExact
  <2>2. Cardinality({t}) = 1
    BY FS_Singleton
  <2>3. Holders(i) # {t}
    BY <2>1, <2>2
  <2> QED
    BY <2>3, <1>3
<1>12. GlobalStands' /\ Atomic' /\ BornFirst' /\ IncOfGlobal'
  BY <1>1 DEF SafeInv, TypeOK, Handles, GlobalStands, Atomic, BornFirst, IncOfGlobal, After
<1>13. EmptyAlone' /\ EmptyCount'
  BY <1>1 DEF SafeInv, TypeOK, Handles, EmptyAlone, EmptyCount, After
<1>14. LastAlone'
  <2>1. ASSUME count[i] = 1, NEW h \in Handles, h # t, handle[h] = i
        PROVE  GivenUp(h)
    BY <1>10, <1>1, <1>3, <2>1, ThreadsAssumption
       DEF SafeInv, TypeOK, Handles, Holders, Counted, GivenUp, IncOfGlobal, Atomic,
           LastAlone, Last, Steps
  <2> QED
    BY <1>1, <1>9, <2>1 DEF SafeInv, TypeOK, Handles, LastAlone, Last, GivenUp, After
<1>15. NoUseAfterFree'
  BY <1>1 DEF SafeInv, TypeOK, Handles, NoUseAfterFree, After
<1>16. FreedWithLastHandle'
  <2>1. CASE count[i] = 1
    BY <2>1, <1>1 DEF SafeInv, TypeOK, Handles, FreedWithLastHandle, After
  <2>2. CASE count[i] # 1
    BY <2>2, <1>1, <1>11 DEF SafeInv, TypeOK, Handles, FreedWithLastHandle, After, Holders, Counted
  <2> QED
    BY <2>1, <2>2
<1> QED
  BY <1>2, <1>7, <1>12, <1>13, <1>14, <1>15, <1>16 DEF SafeInv

(* A new object has one handle. *)
LEMMA NewSafe ==
  ASSUME SafeInv, ~SMP, NEW t \in Threads, New(t)
  PROVE  SafeInv'
<1> USE HandlesAssumption, NoIdAssumption DEF Goto, Exists, Point
<1>1. PICK i \in Fresh :
        /\ pc[t] = "idle" /\ pc' = [pc EXCEPT ![t] = "idle"]
        /\ handle[t] = NoId /\ handle' = [handle EXCEPT ![t] = i]
        /\ count' = [count EXCEPT ![i] = 1]
        /\ counters' = counters \cup {i} /\ objects' = objects \cup {i}
        /\ born' = born \cup {i} /\ UNCHANGED <<null, reg>>
  BY DEF New
<1>2. TypeOK'
  BY <1>1 DEF SafeInv, TypeOK, Handles, Steps, Fresh
<1>3. GlobalStands' /\ Atomic' /\ BornFirst' /\ IncOfGlobal'
  BY <1>1 DEF SafeInv, TypeOK, Handles, GlobalStands, Atomic, BornFirst, IncOfGlobal, Fresh
<1>4. EmptyAlone' /\ EmptyCount'
  BY <1>1 DEF SafeInv, TypeOK, Handles, BornFirst, EmptyAlone, EmptyCount, Fresh
<1>5. LastAlone'
  BY <1>1 DEF SafeInv, TypeOK, Handles, BornFirst, LastAlone, Last, GivenUp, Fresh
<1>6. NoUseAfterFree' /\ FreedWithLastHandle'
  BY <1>1 DEF SafeInv, TypeOK, Handles, NoUseAfterFree, FreedWithLastHandle, Fresh
<1>7. Holders(i)' = {t} /\ \A j \in Ids \ {i} : Holders(j)' = Holders(j)
  BY <1>1 DEF SafeInv, TypeOK, Handles, Holders, Counted, BornFirst, Fresh
<1>8. Cardinality(Holders(i)') = 1
  BY <1>7, FS_Singleton
<1>9. count'[i] = 1 /\ \A j \in Ids \ {i} : count'[j] = count[j]
  BY <1>1 DEF SafeInv, TypeOK, Fresh
<1>10. CountExact'
  <2> SUFFICES ASSUME NEW j \in objects' PROVE count'[j] = Cardinality(Holders(j)')
    BY DEF CountExact
  <2>1. CASE j = i
    BY <2>1, <1>8, <1>9
  <2>2. CASE j # i
    <3>1. j \in objects /\ j \in Ids
      BY <2>2, <1>1 DEF SafeInv, TypeOK
    <3> QED
      BY <3>1, <2>2, <1>7, <1>9 DEF SafeInv, CountExact
  <2> QED
    BY <2>1, <2>2
<1> QED
  BY <1>2, <1>3, <1>4, <1>5, <1>6, <1>10 DEF SafeInv

(* An empty pointer has a counter of its own. *)
LEMMA NewEmptySafe ==
  ASSUME SafeInv, ~SMP, NEW t \in Threads, NewEmpty(t)
  PROVE  SafeInv'
<1> USE HandlesAssumption, NoIdAssumption DEF NewEmpty, Goto, Exists, Point
<1>1. TypeOK'
  BY DEF SafeInv, TypeOK, Handles, Steps, Fresh
<1>2. GlobalStands' /\ Atomic' /\ BornFirst' /\ IncOfGlobal'
  BY DEF SafeInv, TypeOK, Handles, GlobalStands, Atomic, BornFirst, IncOfGlobal, Fresh
<1>3. EmptyAlone' /\ EmptyCount'
  BY DEF SafeInv, TypeOK, Handles, BornFirst, EmptyAlone, EmptyCount, Fresh
<1>4. LastAlone'
  BY DEF SafeInv, TypeOK, Handles, BornFirst, LastAlone, Last, GivenUp, Fresh
<1>5. NoUseAfterFree' /\ FreedWithLastHandle'
  BY DEF SafeInv, TypeOK, Handles, NoUseAfterFree, FreedWithLastHandle, Fresh
<1>6. \A j \in objects : Holders(j)' = Holders(j)
  BY DEF SafeInv, TypeOK, Handles, Holders, Counted, Fresh
<1>7. \A j \in objects : count'[j] = count[j]
  BY DEF SafeInv, TypeOK, Fresh
<1>8. CountExact'
  BY <1>6, <1>7 DEF SafeInv, CountExact
<1> QED
  BY <1>1, <1>2, <1>3, <1>4, <1>5, <1>8 DEF SafeInv

(* A handle that is reset alone leaves nothing behind. *)
LEMMA ResetSafe ==
  ASSUME SafeInv, ~SMP, NEW t \in Threads, Reset(t), Alone(t)
  PROVE  SafeInv'
<1> USE HandlesAssumption, NoIdAssumption DEF Goto, Exists, Point
<1>1. PICK i \in Fresh :
        /\ pc[t] = "idle" /\ pc' = [pc EXCEPT ![t] = "idle"]
        /\ handle[t] # NoId /\ handle' = [handle EXCEPT ![t] = i]
        /\ count' = [count EXCEPT ![i] = 1]
        /\ counters' = (counters \ {handle[t]}) \cup {i}
        /\ objects' = (objects \ {handle[t]}) \cup {i}
        /\ born' = born \cup {i} /\ UNCHANGED <<null, reg>>
  BY DEF Reset
<1>2. PICK o \in Ids : o = handle[t]
  BY <1>1 DEF SafeInv, TypeOK, Handles
<1>3. ASSUME NEW h \in Handles, h # t, handle[h] = o
      PROVE  GivenUp(h)
  <2>1. CASE o \in null
    BY <2>1, <1>2, <1>3 DEF SafeInv, EmptyAlone, Handles
  <2>2. CASE o \notin null
    <3>1. o \in objects
      BY <2>2, <1>1, <1>2 DEF SafeInv, NoUseAfterFree, Handles
    <3>2. Cardinality(Holders(o)) = 1
      BY <2>2, <3>1, <1>2 DEF SafeInv, CountExact, Alone
    <3>3. t \in Holders(o)
      BY <1>1, <1>2 DEF Holders, Counted, Handles
    <3>4. Holders(o) = {t}
      BY <3>2, <3>3, HoldersFinite, FS_Singleton
    <3> QED
      BY <3>4, <1>1, <1>2, <1>3, ThreadsAssumption
         DEF SafeInv, TypeOK, Handles, Holders, Counted, GivenUp, IncOfGlobal, Atomic,
             LastAlone, Last, Steps
  <2> QED
    BY <2>1, <2>2
<1>4. TypeOK'
  BY <1>1 DEF SafeInv, TypeOK, Handles, Steps, Fresh
<1>5. GlobalStands' /\ Atomic' /\ BornFirst' /\ IncOfGlobal'
  BY <1>1 DEF SafeInv, TypeOK, Handles, GlobalStands, Atomic, BornFirst, IncOfGlobal, Fresh
<1>6. EmptyAlone' /\ EmptyCount'
  BY <1>1 DEF SafeInv, TypeOK, Handles, BornFirst, EmptyAlone, EmptyCount, Fresh
<1>7. LastAlone'
  BY <1>1 DEF SafeInv, TypeOK, Handles, BornFirst, LastAlone, Last, GivenUp, Fresh
<1>8. NoUseAfterFree' /\ FreedWithLastHandle'
  BY <1>1, <1>2, <1>3
     DEF SafeInv, TypeOK, Handles, NoUseAfterFree, FreedWithLastHandle, Fresh, GivenUp
<1>9. Holders(i)' = {t} /\ \A j \in Ids \ {i, o} : Holders(j)' = Holders(j)
  BY <1>1, <1>2 DEF SafeInv, TypeOK, Handles, Holders, Counted, BornFirst, Fresh
<1>10. Cardinality(Holders(i)') = 1
  BY <1>9, FS_Singleton
<1>11. count'[i] = 1 /\ \A j \in Ids \ {i} : count'[j] = count[j]
  BY <1>1 DEF SafeInv, TypeOK, Fresh
<1>12. CountExact'
  <2> SUFFICES ASSUME NEW j \in objects' PROVE count'[j] = Cardinality(Holders(j)')
    BY DEF CountExact
  <2>1. CASE j = i
    BY <2>1, <1>10, <1>11
  <2>2. CASE j # i
    <3>1. j \in objects /\ j \in Ids /\ j # o
      BY <2>2, <1>1, <1>2 DEF SafeInv, TypeOK
    <3> QED
      BY <3>1, <2>2, <1>9, <1>11 DEF SafeInv, CountExact
  <2> QED
    BY <2>1, <2>2
<1> QED
  BY <1>4, <1>5, <1>6, <1>7, <1>8, <1>12 DEF SafeInv

(* A step that changes nothing. *)
LEMMA StutterSafe ==
  ASSUME SafeInv, UNCHANGED vars
  PROVE  SafeInv'
BY DEF vars, SafeInv, TypeOK, GlobalStands, Atomic, BornFirst, IncOfGlobal, EmptyAlone,
       EmptyCount, LastAlone, NoUseAfterFree, FreedWithLastHandle, CountExact, GivenUp,
       Holders, Counted, Exists

-----------------------------------------------------------------------------
(* Every behaviour of the safe use on one processor keeps the invariant.   *)
THEOREM SafeInvariant ==
  ASSUME ~SMP
  PROVE  SafeSpec => []SafeInv
<1>1. SafeInv /\ [SafeNext]_vars => SafeInv'
  <2> SUFFICES ASSUME SafeInv, SafeNext PROVE SafeInv'
    BY StutterSafe
  <2>1. PICK t \in Threads : SafeUse(t) \/ Run(t)
    BY DEF SafeNext
  <2>2. CASE SafeUse(t)
    BY <2>2, NewSafe, NewEmptySafe, CopySafe, AssignSafe, DestroySafe, ResetSafe DEF SafeUse
  <2>3. CASE Run(t)
    <3>1. ~IncLoad(t) /\ ~DecLoad(t)
      BY DEF IncLoad, DecLoad
    <3>2. ~IncStore(t) /\ ~DecStore(t)
      BY DEF IncStore, DecStore, Goto, SafeInv, Atomic
    <3> QED
      BY <2>3, <3>1, <3>2, IncSafe, DecSafe, DeleteSafe, AttachSafe, GoneSafe DEF Run
  <2> QED
    BY <2>1, <2>2, <2>3
<1> QED
  BY InitSafe, <1>1, PTL DEF SafeSpec

(* TypeOK: objects are deleted with their counters, never before them.     *)
THEOREM TypeCorrect ==
  ASSUME ~SMP
  PROVE  SafeSpec => []TypeOK
<1>1. SafeInv => TypeOK
  BY DEF SafeInv
<1> QED
  BY SafeInvariant, <1>1, PTL

(* The counter of every object is the number of the handles that share it. *)
THEOREM CountIsExact ==
  ASSUME ~SMP
  PROVE  SafeSpec => []CountExact
<1>1. SafeInv => CountExact
  BY DEF SafeInv
<1> QED
  BY SafeInvariant, <1>1, PTL

(* No handle refers to a deleted object or counter.                        *)
THEOREM NothingUsedAfterFree ==
  ASSUME ~SMP
  PROVE  SafeSpec => []NoUseAfterFree
<1>1. SafeInv => NoUseAfterFree
  BY DEF SafeInv
<1> QED
  BY SafeInvariant, <1>1, PTL

(* No object outlives its last handle.                                     *)
THEOREM NothingLeaks ==
  ASSUME ~SMP
  PROVE  SafeSpec => []FreedWithLastHandle
<1>1. SafeInv => FreedWithLastHandle
  BY DEF SafeInv
<1> QED
  BY SafeInvariant, <1>1, PTL
==============================================================================
