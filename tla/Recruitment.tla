----------------------------- MODULE Recruitment -----------------------------
(***************************************************************************)
(* What the scheme promises about who is whose recruiter, whatever decides *)
(* it: a consumer joins under a distributor he is joined to by an edge,    *)
(* once, and for good.  Conversion.tla implements this specification.      *)
(***************************************************************************)
CONSTANTS Holder, None,
          Acquainted   (* pairs of holders that share an edge *)

VARIABLES role, recruitedBy

vars == <<role, recruitedBy>>

Init ==
    /\ role \in [Holder -> {"consumer", "distributor"}]
    /\ recruitedBy \in [Holder -> Holder \cup {None}]
    /\ \A h \in Holder : role[h] = "consumer" => recruitedBy[h] = None

Recruit(c, d) ==
    /\ role[c] = "consumer"
    /\ role[d] = "distributor"
    /\ {<<c, d>>, <<d, c>>} \cap Acquainted # {}
    /\ role' = [role EXCEPT ![c] = "distributor"]
    /\ recruitedBy' = [recruitedBy EXCEPT ![c] = d]

Next == \E c, d \in Holder : Recruit(c, d)

Spec == Init /\ [][Next]_vars
=============================================================================
