------------------------------- MODULE Verdict -------------------------------
(***************************************************************************)
(* What eth_rpc says of the verified proxy, and of how an answer was       *)
(* proved: rust-lib/src/verified.rs.  A verdict is a record of the fields  *)
(* a decision rests on; "absent" is a field that is missing or of another  *)
(* type.                                                                   *)
(***************************************************************************)
EXTENDS Naturals, Sequences

RawVerdicts == [state : {"healthy", "absent"}, blocking : {"true", "false", "absent"},
                mode : {"off", "required"}]

\* The probe failed, or its answer could not be read.
Unknown == [state |-> "unhealthy", blocking |-> "true", mode |-> "unknown"]

Readable(v) == v.state # "absent" /\ v.blocking # "absent"

Normalize(raw) == IF Readable(raw) THEN raw ELSE Unknown

\* Only an explicit `false` opens the gate.
IsBlocking(v) == v.blocking # "false"

-----------------------------------------------------------------------------

Routes == {"verified", "proxied", "direct", "none"}
UnknownRoute == "unknown"

\* verified.rs `rank`: unlabelled, and a label nobody knows, is below every route.
Rank(label) ==
    CASE label = "verified" -> 3 [] label = "proxied" -> 2 [] label = "direct" -> 1 [] OTHER -> 0

\* Mutant: a part without a label does not count.
WeakestKnown(labels) ==
    LET known == {i \in DOMAIN labels : Rank(labels[i]) > 0}
    IN  IF known = {} THEN UnknownRoute
        ELSE labels[CHOOSE i \in known : \A j \in known : Rank(labels[i]) <= Rank(labels[j])]

\* The weakest of the labels behind a reply; one that is no route makes it unknown.
WeakestRoute(labels) ==
    IF labels = <<>> \/ \E i \in DOMAIN labels : Rank(labels[i]) = 0 THEN UnknownRoute
    ELSE labels[CHOOSE i \in DOMAIN labels :
                    \A j \in DOMAIN labels : Rank(labels[i]) <= Rank(labels[j])]

\* One leg at a time: the first stands on its own.
FoldRoute(soFar, leg) ==
    IF soFar = <<>> THEN IF leg = "none" THEN UnknownRoute ELSE leg
    ELSE WeakestRoute(<<soFar[1], leg>>)
=============================================================================
