------------------------------- MODULE MCBoot -------------------------------
(* Boot on a small instance, for TLC.                                      *)
EXTENDS Boot

(* The MBR: primary partitions and at most one extended one.               *)
MBRs(n) == {t \in Tables : Cardinality({i \in Entries : t[i] = "ext"}) = n}

(* An EBR: at most one partition before or behind its link; the last has   *)
(* no link.                                                                *)
EBRs(n) ==
  {t \in MBRs(n) : /\ Cardinality({i \in Entries : t[i] = "part"}) <= 1
                   /\ \A i \in Entries : i > 2 => t[i] = "none"}

Chained(mbrs, n) ==
  {<<m>> \o c \o <<z>> : m \in mbrs, c \in [1 .. n - 1 -> EBRs(1)], z \in EBRs(0)}

Mbr(a, b) == [i \in Entries |-> IF i = 1 THEN a ELSE IF i = 2 THEN b ELSE "none"]

(* Every MBR, and behind some of them every chain of up to three EBRs.     *)
AllLayouts ==
  {<<m>> : m \in MBRs(0)} \cup Chained(MBRs(1), 1)
    \cup Chained({Mbr("part", "ext"), Mbr("ext", "part")}, 2)
    \cup Chained({Mbr("part", "ext")}, 3)

(* The second disk is simpler.                                             *)
FewLayouts ==
  {<<Mbr("part", "none")>>, <<Mbr("part", "ext"), Mbr("part", "none")>>}

MCLayouts == <<AllLayouts, FewLayouts>>
=============================================================================
