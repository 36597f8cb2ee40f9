--------------------------- MODULE MCRegistration ---------------------------
(***************************************************************************)
(* Values for the constants of Registration: two tabs of one browser, and  *)
(* one account, new to the service, whose token was another account's; one *)
(* tab registers the mother or the son, the other the mother or the        *)
(* father: the limit is below the number of labels.                        *)
(***************************************************************************)
EXTENDS Registration

Mother == [label |-> "mother", region |-> "city"]
Son == [label |-> "son", region |-> "city"]
Father == [label |-> "father", region |-> "city"]

MCBrowserOf == [t \in Tabs |-> CHOOSE b \in Browsers : TRUE]
MCMayLogin == [b \in Browsers |-> {"u1"}]
MCForms == [t \in Tabs |-> IF t = "t1" THEN {Mother, Son} ELSE {Mother, Father}]
MCFirstOwner == [b \in Browsers |-> "u2"]
=============================================================================
