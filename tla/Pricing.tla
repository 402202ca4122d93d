------------------------------- MODULE Pricing -------------------------------
(***************************************************************************)
(* What a policy costs and covers: the weekly engine of services/pricing.py *)
(* (behind routers/policies.py), the model-based one of                    *)
(* services/pricing_service.py (behind routers/policy.py) and the trust    *)
(* score that discounts it.  Money is in paise, a multiplier in hundredths *)
(* unless said otherwise, so that every rounding is an integer division.   *)
(***************************************************************************)
EXTENDS Integers

Plans == {"basic", "standard", "pro"}
Rank == [basic |-> 1, standard |-> 2, pro |-> 3]
CapMax == [basic |-> 50000, standard |-> 150000, pro |-> 300000]

Least(a, b) == IF a <= b THEN a ELSE b
Greatest(a, b) == IF a >= b THEN a ELSE b
Clamp(x, low, high) == Greatest(low, Least(x, high))

(* Decimal's ROUND_HALF_UP and Python's round, of a / b with 0 <= a. *)
HalfUp(a, b) == (2 * a + b) \div (2 * b)
HalfEven(a, b) ==
  LET q == a \div b
      r == a % b
  IN  IF 2 * r < b \/ (2 * r = b /\ q % 2 = 0) THEN q ELSE q + 1

-----------------------------------------------------------------------------
(* The weekly engine.  Location risk and disruption frequency are in       *)
(* tenths, hours in multiples of four, the exposure in 1/200.  The profile *)
(* table has no trust_adjustment: the multiplier is 1 for every worker.    *)

BaseRate == 49
Floor == 2900
Ceiling == 14900

RiskMultiplier(location, disruption) ==
  Clamp(80 + 12 * Clamp(location, 0, 10) + 5 * Clamp(disruption, 0, 10), 80, 250)

PlatformBonus == [swiggy |-> 70, zomato |-> 50, other |-> 30]

ExposureMultiplier(hours, platform) ==
  Clamp(180 + 55 * Clamp((Clamp(hours, 0, 16) - 4) \div 4, 0, 2) + PlatformBonus[platform],
        180, 360)

(* Without a risk profile the quote is an estimate from the base rate. *)
WeeklyPremium(w) ==
  IF w.profiled
  THEN Clamp(HalfUp(BaseRate * RiskMultiplier(w.location, w.disruption)
                             * ExposureMultiplier(w.hours, w.platform), 200),
             Floor, Ceiling)
  ELSE BaseRate * 100

PlanPremium(plan, premium) ==
  CASE plan = "basic" -> Clamp(HalfUp(premium * 85, 100), Floor, Ceiling)
    [] plan = "standard" -> premium
    [] plan = "pro" -> Clamp(HalfUp(premium * 115, 100), Floor, Ceiling)

PlanCover(plan, earnings) ==
  LET limit == Least(200000, 80 * earnings)
  IN  CASE plan = "basic" -> HalfUp(limit * 75, 100)
        [] plan = "standard" -> limit
        [] plan = "pro" -> HalfUp(limit * 125, 100)

WeeklyOffer(plan, w) ==
  [premium |-> PlanPremium(plan, WeeklyPremium(w)), cap |-> PlanCover(plan, w.earnings)]

-----------------------------------------------------------------------------
(* Trust.  The four components and the score before rounding are in        *)
(* hundredths of a point, the score itself in tenths; hours here are half  *)
(* hours.  claims says how many claims are resolved, clean and blocked.    *)

(* No hours count as the ideal eight and a half. *)
Activity(halves) ==
  IF halves = 0 THEN 2500
  ELSE HalfEven(2500 * Greatest(0, 9 - Greatest(halves - 17, 17 - halves)), 9)
Continuity(renewals) == HalfEven(2500 * Least(renewals, 40), 40)
LocationTrust(w) == IF w.profiled THEN 250 * (10 - w.location) ELSE 1250
ClaimBehaviour(claims) ==
  IF claims.resolved = 0 THEN 2500 ELSE HalfEven(2500 * claims.clean, claims.resolved)

TrustScore(w, renewals, claims) ==
  HalfEven(Clamp(Activity(2 * w.hours) + Continuity(renewals) + LocationTrust(w)
                   + ClaimBehaviour(claims) - 2000 * claims.flags, 0, 10000), 10)

TrustTier(score) == IF score <= 400 THEN "bronze" ELSE IF score <= 700 THEN "silver" ELSE "gold"

TrustMultiplier == [bronze |-> 100, silver |-> 95, gold |-> 88]

-----------------------------------------------------------------------------
(* The model-based engine.  Its regressor is external: it answers a        *)
(* standard premium between the floor and its own ceiling, w.standard.     *)

ModelCeiling == 29900
PremiumModifier == [basic |-> 75, standard |-> 100, pro |-> 120]
CoverModifier == [basic |-> 70, standard |-> 100, pro |-> 140]

ModelPremium(plan, tier, standard) ==
  Clamp(HalfEven(standard * PremiumModifier[plan] * TrustMultiplier[tier], 10000),
        Floor, 299 * PremiumModifier[plan])

ModelCover(plan, earnings) ==
  HalfEven(Clamp(160 * earnings, 200000, 2000000) * CoverModifier[plan], 100)

(* What renewal and upgrade store: the trust multiplier a second time. *)
Discounted(premium, tier) == HalfEven(premium * TrustMultiplier[tier], 100)
=============================================================================
