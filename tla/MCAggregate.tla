---------------------------- MODULE MCAggregate ----------------------------
(***************************************************************************)
(* Small tables for TLC.  Offers are single notes, a zero among them, and  *)
(* a pile with a negative count, which a payment in JSON may have.         *)
(***************************************************************************)
EXTENDS AggregateProperties, TLC

CONSTANTS p1, p2, p3, p4, p5, goose, donkey

ThreePlayers == {p1, p2, p3}
FivePlayers  == {p1, p2, p3, p4, p5}

OneSpecies == {donkey}
TwoSpecies == {donkey, goose}

Zero   == Cash(1, 0, 0, 0, 0, 0)
Twenty == Cash(0, 2, 0, 0, 0, 0)
Fifty  == Cash(0, 0, 1, 0, 0, 0)
Forged == Cash(2, 2, -1, 0, 0, 0)

NoteOffers == {Zero, Twenty, Fifty, Forged}
ZeroOffers == {Zero}
TenBids == {10, 20}
NoBids == {}

AnyIdentity == Permutations(Identities)
=============================================================================
