------------------------ MODULE SubscriptionRanking ------------------------
(***************************************************************************)
(* compareSubscriptions (utils/subscription-ranking.ts): which of two plans*)
(* is better.  Price first, then the three quotas in turn; a negative      *)
(* quota is unlimited.  PaymentService.applyGroupSubscription and          *)
(* GroupService.pickCurrentGroupSubscription choose the current tier of a  *)
(* group by folding it over the tiers, so it has to be an order.           *)
(***************************************************************************)
EXTENDS Integers

Rankable == [price : Nat, members : Int, langs : Int, runs : Int]

Unlimited(x) == x < 0

SameQuota(x, y) == x = y \/ (Unlimited(x) /\ Unlimited(y))

Exceeds(x, y) == ~Unlimited(y) /\ (Unlimited(x) \/ x > y)

Sign(above) == IF above THEN 1 ELSE -1

\* 1 when a is better than b, -1 when it is worse, 0 when they are equivalent.
Compare(a, b) ==
    IF a.price # b.price THEN Sign(a.price > b.price)
    ELSE IF ~SameQuota(a.members, b.members) THEN Sign(Exceeds(a.members, b.members))
    ELSE IF ~SameQuota(a.langs, b.langs) THEN Sign(Exceeds(a.langs, b.langs))
    ELSE IF ~SameQuota(a.runs, b.runs) THEN Sign(Exceeds(a.runs, b.runs))
    ELSE 0

\* The better plan wins; of two equivalent ones the tier that started last.
Beats(a, aStart, b, bStart) ==
    \/ Compare(a, b) > 0
    \/ Compare(a, b) = 0 /\ aStart > bStart
=============================================================================
