------------------------------ MODULE PluginList ------------------------------
(***************************************************************************)
(* What the configuration menu promises (ConfManager.h, and section 2 of   *)
(* README.TXT): plugins are added to a list and removed from it, and what  *)
(* was made of the list takes effect with the next start.  Words that the  *)
(* reader of the list ignores do not come back.  A process that stops      *)
(* keeps what was kept before; while the list is being kept, nothing is.   *)
(***************************************************************************)
EXTENDS SequencesExt, Integers

CONSTANTS Words, Ignored

VARIABLES kept,      (* what the next start reads                          *)
          listed,    (* what the menu lists                                *)
          offered,   (* the plugins of the running program                 *)
          place      (* "off", "on", in the menu ("visit") or at its end,  *)
                     (* where the list is being kept ("keep")              *)

vars == <<kept, listed, offered, place>>

Readable(words) ==
  LET read[n \in 0 .. Len(words)] ==
        IF n = 0 THEN <<>>
        ELSE IF words[n] \in Ignored THEN read[n - 1] ELSE Append(read[n - 1], words[n])
  IN  read[Len(words)]

Init == /\ kept \in Seq(Words \ Ignored)
        /\ listed = <<>>
        /\ offered = {}
        /\ place = "off"

Start == /\ place = "off"
         /\ place' = "on"
         /\ listed' = kept
         /\ offered' = ToSet(kept)
         /\ UNCHANGED kept

Visit == /\ place = "on"
         /\ place' = "visit"
         /\ UNCHANGED <<kept, listed, offered>>

Enter == /\ place = "visit"
         /\ \E w \in Words \ ToSet(listed) : listed' = Append(listed, w)
         /\ UNCHANGED <<kept, offered, place>>

TakeOut == /\ place = "visit"
           /\ \E i \in DOMAIN listed : listed' = RemoveAt(listed, i)
           /\ UNCHANGED <<kept, offered, place>>

Empty == /\ place = "visit"
         /\ place' = "keep"
         /\ kept' = <<>>
         /\ UNCHANGED <<listed, offered>>

(* However the menu is left, the list is kept.                             *)
Return == /\ place \in {"visit", "keep"}
          /\ place' = "on"
          /\ kept' = Readable(listed)
          /\ UNCHANGED <<listed, offered>>

Stop == /\ place # "off"
        /\ place' = "off"
        /\ listed' = <<>>
        /\ offered' = {}
        /\ UNCHANGED kept

Next == Start \/ Visit \/ Enter \/ TakeOut \/ Empty \/ Return \/ Stop

Spec == Init /\ [][Next]_vars
===============================================================================
