----------------------------- MODULE MCBPlusTree -----------------------------
(***************************************************************************)
(* A bounded instance of BPlusTree for TLC.  A few keys are inserted in    *)
(* every order, with repetitions.  A third level, and inner nodes with a   *)
(* counter that is too low, need more keys than every order allows: other  *)
(* behaviours insert them nearly in order, upwards or downwards, with gaps *)
(* and repetitions, until the tree is full.  The value of the first call   *)
(* tells which of the three a behaviour is.                                *)
(***************************************************************************)
EXTENDS BPlusTreeDump

Up   == 100
Down == 101
Others == {102, 103}

MCKeys   == 1..12
MCValues == {Up, Down} \cup Others
MCSlots  == 1..24

(* The bounds of the behaviours that insert in every order.                *)
FewKeys  == 1..5
FewCalls == 6

(* The next keys of a behaviour with a direction, by the number of calls   *)
(* so far.                                                                 *)
Rank(k) == IF val = Up THEN k ELSE 13 - k
Window  == {k \in Keys : Rank(k) \in mKeyNum + 1 .. mKeyNum + 2}

InOrder == val \notin Others /\ (InsertFull \/ \E k \in Window : InsertCall(k, val))

AnyOrder == val \in Others /\ mKeyNum < FewCalls /\ \E k \in FewKeys, v \in Others : InsertCall(k, v)

(* The bound of AnyOrder is reached.                                       *)
Enough == val \in Others /\ mKeyNum = FewCalls /\ pc = "idle" /\ UNCHANGED vars

MCNext == InOrder \/ AnyOrder \/ Enough \/ Step

(* The arguments before the first call are read by nobody; one of Others  *)
(* stands for all of them.                                                 *)
MCInit == Init /\ key = 1 /\ val \in {Up, Down, Max(Others)}

MCSpec == MCInit /\ [][MCNext]_vars /\ WF_vars(Step)
==============================================================================
