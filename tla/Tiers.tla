------------------------------- MODULE Tiers -------------------------------
(***************************************************************************)
(* The tiers of the points calculator (internal/poller/points).  Amounts   *)
(* of money are whole cents and multipliers whole tenths.  A pointer is a  *)
(* set: empty for nil, else with the value it points to.                   *)
(***************************************************************************)
EXTENDS Integers, Sequences

MinTierCount == 2

Tier == [min : Int, max : SUBSET Int, multiplier : Int]

IsSorted(tiers) == \A i \in 1 .. Len(tiers) - 1 : tiers[i].min <= tiers[i + 1].min

\* Mutant: a tier may begin above the end of the one before it.
ValidateTiersGapMutant(tiers) ==
    /\ Len(tiers) >= MinTierCount
    /\ IsSorted(tiers)
    /\ \A i \in 1 .. Len(tiers) :
          /\ tiers[i].min >= 0 /\ tiers[i].multiplier >= 0
          /\ IF i = Len(tiers) THEN tiers[i].max = {}
             ELSE tiers[i].max # {} /\ \A max \in tiers[i].max : tiers[i].min < max

ValidateTiers(tiers) ==
    /\ Len(tiers) >= MinTierCount
    /\ IsSorted(tiers)
    /\ \A i \in 1 .. Len(tiers) :
          /\ tiers[i].min >= 0 /\ tiers[i].multiplier >= 0
          /\ IF i = Len(tiers) THEN tiers[i].max = {}
             ELSE /\ tiers[i].max # {}
                  /\ \A max \in tiers[i].max : tiers[i].min < max /\ tiers[i + 1].min = max

Matches(tier, cents) == tier.min <= cents /\ \A max \in tier.max : cents < max

\* The first tier that matches, or 0: the calculator then awards no points.
MatchTier(tiers, cents) ==
    IF \E i \in 1 .. Len(tiers) : Matches(tiers[i], cents)
    THEN CHOOSE i \in 1 .. Len(tiers) :
            /\ Matches(tiers[i], cents)
            /\ \A j \in 1 .. i - 1 : ~Matches(tiers[j], cents)
    ELSE 0

=============================================================================
