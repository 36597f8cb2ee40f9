------------------------------ MODULE Alerting ------------------------------
(***************************************************************************)
(* What the alert pipeline promises to subscribers, without its sessions,  *)
(* loops, caches and commits: a board of subscriptions, announcements and  *)
(* who was told what.  AlertPipeline implements it.                        *)
(***************************************************************************)
CONSTANTS
  Subs, Events,
  Concerned      \* the pairs [sub, ev] where the event is at the sub's place

VARIABLES
  subscribed, announced,
  told,          \* pairs of which the subscriber was told
  lost           \* pairs whose telling has failed for good

board == <<subscribed, announced, told, lost>>

Init ==
  /\ subscribed \subseteq Subs /\ announced = {}
  /\ told = {} /\ lost = {}

Subscribe(s) ==
  /\ subscribed' = subscribed \cup {s}
  /\ UNCHANGED <<announced, told, lost>>

Announce(e) ==
  /\ announced' = announced \cup {e}
  /\ UNCHANGED <<subscribed, told, lost>>

OnBoard(p) == p.sub \in subscribed /\ p.ev \in announced

\* Several are told at once, of one event, or one subscriber of several.
Tell ==
  LET new == told' \ told
  IN  /\ told \subseteq told'
      /\ \A p \in new : OnBoard(p) /\ p \in Concerned
      /\ \/ \A p, q \in new : p.ev = q.ev
         \/ \A p, q \in new : p.sub = q.sub
      /\ UNCHANGED <<subscribed, announced, lost>>

\* A failure: only what is on the board can be lost.
Lose ==
  /\ lost \subseteq lost'
  /\ \A p \in lost' \ lost : OnBoard(p)
  /\ UNCHANGED <<subscribed, announced, told>>

\* Whoever asks again for a subscription has another chance.
AskAgain(s) ==
  /\ s \in subscribed
  /\ lost' = {p \in lost : p.sub # s}
  /\ UNCHANGED <<subscribed, announced, told>>

Next ==
  \/ \E s \in Subs : Subscribe(s) \/ AskAgain(s)
  \/ \E e \in Events : Announce(e)
  \/ Tell \/ Lose

Spec == Init /\ [][Next]_board
=============================================================================
