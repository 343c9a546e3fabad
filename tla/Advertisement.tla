---------------------------- MODULE Advertisement ----------------------------
(***************************************************************************)
(* What the advertiser and the discoverer share: the ids of advertisements *)
(* and what of a published copy is told apart, the units of time until it  *)
(* expires and whether its signature covers that expiry.                   *)
(***************************************************************************)
EXTENDS Naturals, FiniteSets

CONSTANTS
    Ads,     \* advertisement ids
    MaxLeft  \* the most units that an advertisement is valid for

ASSUME AdvertisementAssumption == MaxLeft \in Nat

Messages == [ad : Ads, left : 0 .. MaxLeft, authentic : BOOLEAN]

\* An advertisement that has expired is neither published nor taken in
\* (validateAdvertisement of the advertiser, isValidAdvertisement of the discoverer).
HasTimeLeft(units) == units > 0
=============================================================================
