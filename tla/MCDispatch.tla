----------------------------- MODULE MCDispatch -----------------------------
(***************************************************************************)
(* Values for the constants of Dispatch: a user with one or two devices,   *)
(* one or two alerts, and one token more than there are devices.           *)
(***************************************************************************)
EXTENDS Dispatch

MCOwner == [n \in Alerts |-> CHOOSE u \in Users : TRUE]
MCUserOf == [b \in Devices |-> CHOOSE u \in Users : TRUE]
MCInitialTokens == [b \in Devices |-> b]
=============================================================================
