--------------------------- MODULE SubscriptionBook ---------------------------
(***************************************************************************)
(* What the RSS reader promises about subscriptions (plugins/RSSReader/    *)
(* subscription_manager.h): they are read when the program starts, an      *)
(* import adds to them, and they are kept when the reader is quit.         *)
(***************************************************************************)
CONSTANTS Names, Urls

VARIABLES saved,    (* the subscriptions kept for the next start           *)
          subs,     (* those of the running program                        *)
          running

vars == <<saved, subs, running>>

None == [n \in {} |-> {}]

Init == /\ saved = None
        /\ subs = None
        /\ running = FALSE

Start == /\ ~running
         /\ running' = TRUE
         /\ subs' = saved
         /\ UNCHANGED saved

(* Nothing is lost and nothing replaced.                                   *)
Import == /\ running
          /\ \E S \in SUBSET Names : \E m \in [S -> Urls] :
               /\ DOMAIN subs \subseteq S
               /\ \A n \in DOMAIN subs : m[n] = subs[n]
               /\ subs' = m
          /\ UNCHANGED <<saved, running>>

Save == /\ running
        /\ saved' = subs
        /\ UNCHANGED <<subs, running>>

Stop == /\ running' = FALSE
        /\ subs' = None
        /\ UNCHANGED saved

Next == Start \/ Import \/ Save \/ Stop

Spec == Init /\ [][Next]_vars
===============================================================================
