----------------------------- MODULE DurableStore -----------------------------
(***************************************************************************)
(* What a B+ tree file promises (class BPlusTree, XiaoDB/BTree.h): Insert  *)
(* changes the open tree only, "Commit all changes" makes the file hold    *)
(* what the tree holds, a process that stops loses what it has not         *)
(* committed, and Open gives back what was committed last.  While a Commit *)
(* is under way the file is in pieces: a process that stops then leaves a  *)
(* file of which only this is promised, that it holds nothing that was     *)
(* never inserted.                                                         *)
(***************************************************************************)
CONSTANTS Keys, Values

VARIABLES contents,   (* the pairs of the open tree, or Closed             *)
          saved,      (* the pairs of the last completed Commit            *)
          whole,      (* the file holds exactly those                      *)
          known       (* every pair Insert was ever called with            *)

vars == <<contents, saved, whole, known>>

Closed == {<<>>}

Init == contents = Closed /\ saved = {} /\ whole = FALSE /\ known = {}

(* Open a new file, the last committed state, or a file in pieces.         *)
Open ==
  /\ contents = Closed
  /\ contents' \in IF whole THEN {saved} ELSE SUBSET known
  /\ UNCHANGED <<saved, whole, known>>

Call == \E p \in Keys \X Values :
  /\ contents # Closed
  /\ known' = known \cup {p}
  /\ UNCHANGED <<contents, saved, whole>>

Insert == \E p \in known :
  /\ contents # Closed
  /\ contents' = {q \in contents : q[1] # p[1]} \cup {p}
  /\ UNCHANGED <<saved, whole, known>>

CommitBegins ==
  /\ contents # Closed
  /\ whole' = FALSE
  /\ UNCHANGED <<contents, saved, known>>

CommitEnds ==
  /\ contents # Closed
  /\ saved' = contents
  /\ whole' = TRUE
  /\ UNCHANGED <<contents, known>>

Stop ==
  /\ contents' = Closed
  /\ UNCHANGED <<saved, whole, known>>

Next == Open \/ Call \/ Insert \/ CommitBegins \/ CommitEnds \/ Stop

Spec == Init /\ [][Next]_vars
==============================================================================
