-------------------------- MODULE RiskEngine_proofs --------------------------
(***************************************************************************)
(* Facts about the decision functions that the proofs about their callers  *)
(* use: what an approval means, and what a size that comes with it risks.  *)
(***************************************************************************)
EXTENDS RiskEngine, TLAPS

(* What an approval says of the configuration and of the open positions.   *)
LEMMA Approval ==
  ASSUME NEW c, NEW s, NEW candidate, NEW market, NEW event,
         evaluate(c, s, candidate, market, event).decision = "APPROVED"
  PROVE  ~c.emergency /\ c.positions # None /\ ~(s.count >= c.positions)
  <1>1. Reason(c, s, candidate, market, event) = "ALL_CHECKS_PASSED"
    BY DEF evaluate, SignalDecision
  <1>2. ~c.emergency
    BY <1>1 DEF Reason
  <1>3. is_fully_configured(c)
    BY <1>1 DEF Reason
  <1>4. c.positions # None
    BY <1>3 DEF is_fully_configured
  <1>8. None # "ALL_CHECKS_PASSED" /\ None # "MAX_POSITIONS_REACHED"
    BY NoneAssumption DEF Reasons
  <1>9. MarketReason(c, market) # "ALL_CHECKS_PASSED"
    BY <1>8 DEF MarketReason
  <1>10. NewsReason(event) # "ALL_CHECKS_PASSED"
    BY <1>8 DEF NewsReason
  <1>11. LossReason(c, s) # "ALL_CHECKS_PASSED"
    BY <1>8 DEF LossReason
  <1>5. ExposureReason(c, s, AuthorizedLots(c, s.equity, candidate)) \in {None, "ALL_CHECKS_PASSED"}
    BY <1>1, <1>9, <1>10, <1>11 DEF Reason
  <1>6. ~(s.count >= c.positions)
    BY <1>5, <1>8 DEF ExposureReason
  <1>7. QED
    BY <1>2, <1>4, <1>6

(* Between an entry and its stop.                                          *)
Distance(entry, stop) == IF entry < stop THEN stop - entry ELSE entry - stop

(* Rounding down never gives more than the quotient.                       *)
LEMMA RoundedDown ==
  ASSUME NEW a \in Int, NEW d \in Nat \ {0}
  PROVE  a \div (100 * d) \in Int /\ 100 * (a \div (100 * d)) * d <= a
  <1> DEFINE q == a \div (100 * d)
  <1>1. 100 * d \in Nat /\ 100 * d > 0
    OBVIOUS
  <1>2. q \in Int /\ (100 * d) * q <= a
    BY <1>1
  <1>3. 100 * q * d = (100 * d) * q
    BY <1>2
  <1>4. QED
    BY <1>2, <1>3

(* PercentageEquity: a size it gives keeps to the percentage.              *)
LEMMA SizeWithin ==
  ASSUME NEW pct \in Nat, NEW money \in Int, NEW entry \in Int \cup {None}, NEW stop \in Int \cup {None},
         PercentageEquity(pct, money, entry, stop) # None
  PROVE  100 * PercentageEquity(pct, money, entry, stop) * Distance(entry, stop) <= pct * money
  <1> DEFINE d == Distance(entry, stop)
  <1>1. entry \in Int /\ stop \in Int
    BY DEF PercentageEquity
  <1>2. d \in Nat
    BY <1>1 DEF Distance
  <1>3. PercentageEquity(pct, money, entry, stop) = (money * pct) \div (100 * d) /\ d # 0
    BY <1>1, NoneAssumption DEF PercentageEquity, Distance
  <1>4. d \in Nat \ {0} /\ money * pct \in Int
    BY <1>2, <1>3
  <1> HIDE DEF d
  <1>5. 100 * ((money * pct) \div (100 * d)) * d <= money * pct
    BY <1>4, RoundedDown
  <1>6. money * pct = pct * money
    OBVIOUS
  <1>7. QED
    BY <1>3, <1>5, <1>6 DEF d

(* An approval needs a complete configuration.                             *)
LEMMA ApprovalConfigured ==
  ASSUME NEW c, NEW s, NEW candidate, NEW market, NEW event,
         evaluate(c, s, candidate, market, event).decision = "APPROVED"
  PROVE  /\ is_fully_configured(c)
         /\ evaluate(c, s, candidate, market, event).lots = AuthorizedLots(c, s.equity, candidate)
  <1>1. Reason(c, s, candidate, market, event) = "ALL_CHECKS_PASSED"
    BY DEF evaluate, SignalDecision
  <1>2. is_fully_configured(c)
    BY <1>1 DEF Reason
  <1>3. evaluate(c, s, candidate, market, event).lots = AuthorizedLots(c, s.equity, candidate)
    BY <1>1 DEF evaluate
  <1>4. QED
    BY <1>2, <1>3

(* A size is a number of steps.                                            *)
LEMMA SizeType ==
  ASSUME NEW c \in RiskConfigs, NEW money \in Int, NEW candidate, candidate.entry \in Int, candidate.stop \in Int
  PROVE  AuthorizedLots(c, money, candidate) \in Nat \cup {None}
  <1>1. c.fixed \in Nat \cup {None} /\ c.pct \in Nat \cup {None}
    BY DEF RiskConfigs
  <1>2. PICK q : q = PercentageEquity(c.pct, money, candidate.entry, candidate.stop)
    OBVIOUS
  <1>3. c.pct # None => q \in Nat \cup {None}
    <2>1. SUFFICES ASSUME c.pct # None PROVE q \in Nat \cup {None}
      OBVIOUS
    <2>2. PICK d : d = Distance(candidate.entry, candidate.stop)
      OBVIOUS
    <2>3. d \in Nat /\ money * c.pct \in Int
      BY <1>1, <2>1, <2>2 DEF Distance
    <2>4. candidate.entry # None /\ candidate.stop # None
      BY NoneAssumption
    <2>5. q = IF d = 0 \/ money <= 0 THEN None
              ELSE IF (money * c.pct) \div (100 * d) < 1 THEN None ELSE (money * c.pct) \div (100 * d)
      BY <1>2, <2>2, <2>4 DEF PercentageEquity, Distance
    <2>6. d # 0 => (money * c.pct) \div (100 * d) \in Int
      BY <2>3, RoundedDown
    <2>7. QED
      BY <2>5, <2>6
  <1>4. AuthorizedLots(c, money, candidate) \in {c.fixed, None} \/ (c.pct # None /\ AuthorizedLots(c, money, candidate) = q)
    BY <1>2 DEF AuthorizedLots, calculate_lot_size
  <1>5. QED
    BY <1>1, <1>3, <1>4
=============================================================================
