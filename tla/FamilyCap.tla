----------------------------- MODULE FamilyCap -----------------------------
(***************************************************************************)
(* validator/judge/panels.py: who may sit on a criterion's panel.  A panel *)
(* is a set of judges [family, pin, seat]; two snapshots of one family are *)
(* one family.                                                             *)
(***************************************************************************)
EXTENDS FixedPoint, FiniteSets

Families(panel) == {judge.family : judge \in panel}

Seats(panel, family) == {judge \in panel : judge.family = family}

AssertFamilyCap(panel, family_cap_ppm) ==
  /\ panel # {}
  /\ \A family \in Families(panel) :
       (Cardinality(Seats(panel, family)) * PPM) \div Cardinality(panel)
         <= family_cap_ppm

AssertValid(panel, minimum_families, family_cap_ppm) ==
  /\ Cardinality(Families(panel)) >= minimum_families
  /\ AssertFamilyCap(panel, family_cap_ppm)
=============================================================================
