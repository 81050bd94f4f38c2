---------------------------- MODULE OrderedStore ----------------------------
(***************************************************************************)
(* What the B+ tree promises its caller (class comment of BPlusTree and    *)
(* BPTreeInsertTest): a map from keys to values.  Insert of a key that is  *)
(* present replaces its value, and a call takes effect exactly once,       *)
(* between the moment it is made and the moment it returns.                *)
(***************************************************************************)
CONSTANTS Keys, Values

VARIABLES store,    (* the set of <<key, value>> pairs a dump would list    *)
          phase,    (* where the running call of Insert stands              *)
          arg       (* the pair it was called with                          *)

vars == <<store, phase, arg>>

Init == /\ store = {}
        /\ phase = "idle"
        /\ arg \in Keys \X Values

Call == /\ phase = "idle"
        /\ phase' = "called"
        /\ arg' \in Keys \X Values
        /\ UNCHANGED store

Overwrite(s, p) == {q \in s : q[1] # p[1]} \cup {p}

Apply == /\ phase = "called"
         /\ phase' = "applied"
         /\ store' = Overwrite(store, arg)
         /\ UNCHANGED arg

Return == /\ phase = "applied"
          /\ phase' = "idle"
          /\ UNCHANGED <<store, arg>>

Next == Call \/ Apply \/ Return

Spec == Init /\ [][Next]_vars

(* A call that was made is carried out and returns.                        *)
FairSpec == Spec /\ WF_vars(Apply) /\ WF_vars(Return)
==============================================================================
