----------------------- MODULE FrameEquivalence_proofs -----------------------
(***************************************************************************)
(* Proofs about FrameEquivalence, for any loaded holdings, any number of   *)
(* orders, any quantities, prices and tax rate.                            *)
(*                                                                         *)
(* EstimateComesTrue follows from the loops alone: round by round, the     *)
(* loop of Trade-Order Frame 3 uses the shares that the loop of Trade-     *)
(* Result Frame 2 uses.  SameFrameOutput relates two databases: the one    *)
(* plpgsql leaves is the one the client leaves with the time stamps of the *)
(* new holdings rounded.  Rounding keeps the order of time stamps, so as   *)
(* long as no two are equal both frames read the same list of holdings.    *)
(***************************************************************************)
EXTENDS FrameEquivalence, SetTheorems

-----------------------------------------------------------------------------
(* The loops.                                                              *)

(* The loop of an implementation of Trade-Order Frame 3, by its condition. *)
EstimateStep(i, a, h, order) ==
    IF (IF i = "client" THEN a.needed # 0 ELSE a.needed > 0)
    THEN EstimateOne(a, h, order) ELSE a

EstimateOf(i, order, list) ==
    CASE i = "client"  -> ClientEstimate(order, list)
      [] i = "plpgsql" -> PlpgsqlEstimate(order, list)
      [] i = "c"       -> CEstimate(order, list)

LiquidateStart(p, tr) ==
    [needed |-> tr.qty, holding |-> p.holding, history |-> p.history, held |-> 0, traded |-> 0]

(* acc lists what the loop of Frame 2 has after each round, up to round k; *)
(* the same for the estimate.                                              *)
IsLoopTo(acc, p, tr, list, k) ==
    /\ acc[0] = LiquidateStart(p, tr)
    /\ \A r \in 1..k : acc[r] = LiquidateOne(acc[r - 1], list[r], tr)

IsEstimateTo(est, i, order, list, k) ==
    /\ est[0] = Start(order)
    /\ \A r \in 1..k : est[r] = EstimateStep(i, est[r - 1], list[r], order)

(* Both loops have a solution.                                             *)
LEMMA LoopsExist ==
    ASSUME NEW len \in Nat, NEW p, NEW tr, NEW i, NEW order, NEW list
    PROVE  \E acc, est : IsLoopTo(acc, p, tr, list, len) /\ IsEstimateTo(est, i, order, list, len)
<1> DEFINE Exists(k) == \E acc, est : IsLoopTo(acc, p, tr, list, k)
                                   /\ IsEstimateTo(est, i, order, list, k)
           Bad == {k \in Nat : ~Exists(k)}
<1>1. 0 \notin Bad
    <2>1. /\ IsLoopTo([r \in {0} |-> LiquidateStart(p, tr)], p, tr, list, 0)
          /\ IsEstimateTo([r \in {0} |-> Start(order)], i, order, list, 0)
        BY DEF IsLoopTo, IsEstimateTo
    <2> QED BY <2>1
<1>2. Bad = {}
    <2> SUFFICES ASSUME Bad # {} PROVE FALSE
        OBVIOUS
    <2>1. PICK k \in Bad : \A y \in Bad : k <= y
        BY MinOfNaturals
    <2>2. k \in Nat /\ k # 0
        BY <1>1, <2>1
    <2>3. k - 1 \in Nat /\ k - 1 \notin Bad
        <3> HIDE DEF Bad
        <3> QED BY <2>1, <2>2
    <2>4. PICK acc, est : IsLoopTo(acc, p, tr, list, k - 1)
                       /\ IsEstimateTo(est, i, order, list, k - 1)
        BY <2>3
    <2> DEFINE more == [r \in 0..k |-> IF r = k THEN LiquidateOne(acc[k - 1], list[k], tr)
                                                ELSE acc[r]]
               most == [r \in 0..k |-> IF r = k THEN EstimateStep(i, est[k - 1], list[k], order)
                                                ELSE est[r]]
    <2>5. more[0] = LiquidateStart(p, tr) /\ most[0] = Start(order)
        BY <2>2, <2>4 DEF IsLoopTo, IsEstimateTo
    <2>6. ASSUME NEW r \in 1..k
          PROVE  /\ more[r] = LiquidateOne(more[r - 1], list[r], tr)
                 /\ most[r] = EstimateStep(i, most[r - 1], list[r], order)
        <3>1. more[r - 1] = acc[r - 1] /\ most[r - 1] = est[r - 1]
            BY <2>2
        <3>2. CASE r = k
            BY <2>2, <3>1, <3>2
        <3>3. CASE r # k
            <4>1. r \in 1..(k - 1)
                BY <2>2, <3>3
            <4>2. more[r] = acc[r] /\ most[r] = est[r]
                BY <2>2, <3>3
            <4> QED BY <2>4, <3>1, <4>1, <4>2 DEF IsLoopTo, IsEstimateTo
        <3> QED BY <3>2, <3>3
    <2>7. IsLoopTo(more, p, tr, list, k) /\ IsEstimateTo(most, i, order, list, k)
        <3> HIDE DEF more, most
        <3> QED BY <2>5, <2>6, Zenon DEF IsLoopTo, IsEstimateTo
    <2> QED BY <2>1, <2>7
<1> QED BY <1>2

(* Liquidate is what the last round leaves, or the start if the loop is    *)
(* not entered.                                                            *)
LEMMA LiquidateIsLoop ==
    ASSUME NEW p, NEW tr, NEW list, Len(list) \in Nat, NEW hs_qty
    PROVE  \E acc : /\ IsLoopTo(acc, p, tr, list, Len(list))
                    /\ Liquidate(p, hs_qty, tr, list)
                           = acc[IF Sign(tr) * hs_qty > 0 THEN Len(list) ELSE 0]
<1> DEFINE It == CHOOSE acc : acc = [i \in 0..Len(list) |->
                     IF i = 0
                     THEN [needed |-> tr.qty, holding |-> p.holding,
                           history |-> p.history, held |-> 0, traded |-> 0]
                     ELSE LiquidateOne(acc[i - 1], list[i], tr)]
<1>1. PICK acc : IsLoopTo(acc, p, tr, list, Len(list))
    BY LoopsExist
<1> DEFINE table == [i \in 0..Len(list) |-> acc[i]]
<1>2. table = [i \in 0..Len(list) |->
                     IF i = 0
                     THEN [needed |-> tr.qty, holding |-> p.holding,
                           history |-> p.history, held |-> 0, traded |-> 0]
                     ELSE LiquidateOne(table[i - 1], list[i], tr)]
    <2>1. \A i \in 0..Len(list) : i # 0 => i \in 1..Len(list) /\ table[i - 1] = acc[i - 1]
        OBVIOUS
    <2>2. \A i \in 0..Len(list) : i # 0 => table[i] = LiquidateOne(table[i - 1], list[i], tr)
        BY <1>1, <2>1 DEF IsLoopTo
    <2>3. table[0] = [needed |-> tr.qty, holding |-> p.holding,
                      history |-> p.history, held |-> 0, traded |-> 0]
        BY <1>1 DEF IsLoopTo, LiquidateStart
    <2>4. table = [i \in 0..Len(list) |-> table[i]]
        OBVIOUS
    <2> HIDE DEF table
    <2> QED BY <2>2, <2>3, <2>4
<1>3. It = [i \in 0..Len(list) |->
                     IF i = 0
                     THEN [needed |-> tr.qty, holding |-> p.holding,
                           history |-> p.history, held |-> 0, traded |-> 0]
                     ELSE LiquidateOne(It[i - 1], list[i], tr)]
    BY <1>2, Zenon
<1>4. Liquidate(p, hs_qty, tr, list) = It[IF Sign(tr) * hs_qty > 0 THEN Len(list) ELSE 0]
    BY DEF Liquidate
<1> HIDE DEF It
<1>5. IsLoopTo(It, p, tr, list, Len(list))
    <2>1. It[0] = LiquidateStart(p, tr)
        BY <1>3 DEF LiquidateStart
    <2>2. ASSUME NEW i \in 1..Len(list) PROVE It[i] = LiquidateOne(It[i - 1], list[i], tr)
        <3>1. i \in 0..Len(list) /\ i # 0
            OBVIOUS
        <3> QED BY <1>3, <3>1
    <2> QED BY <2>1, <2>2, Zenon DEF IsLoopTo
<1> QED BY <1>4, <1>5

(* The estimate is what its last round leaves.                             *)
LEMMA EstimateIsLoop ==
    ASSUME NEW i \in {"client", "plpgsql", "c"}, NEW order, NEW list, Len(list) \in Nat
    PROVE  \E est : /\ IsEstimateTo(est, i, order, list, Len(list))
                    /\ EstimateOf(i, order, list) = est[Len(list)]
<1> DEFINE len == Len(list)
           Client == CHOOSE acc : acc = [r \in 0..Len(list) |->
               IF r = 0 THEN Start(order)
               ELSE IF acc[r - 1].needed # 0 THEN EstimateOne(acc[r - 1], list[r], order)
               ELSE acc[r - 1]]
           Stored == CHOOSE acc : acc = [r \in 0..Len(list) |->
               IF r = 0 THEN Start(order)
               ELSE IF acc[r - 1].needed > 0 THEN EstimateOne(acc[r - 1], list[r], order)
               ELSE acc[r - 1]]
<1>1. PICK est : IsEstimateTo(est, i, order, list, len)
    BY LoopsExist
<1> DEFINE table == [r \in 0..len |-> est[r]]
<1>2. /\ table[0] = Start(order)
      /\ \A r \in 0..len : r # 0 => table[r] = EstimateStep(i, table[r - 1], list[r], order)
      /\ table = [r \in 0..len |-> table[r]]
    <2>1. \A r \in 0..len : r # 0 => r \in 1..len /\ table[r - 1] = est[r - 1]
        OBVIOUS
    <2> QED BY <1>1, <2>1 DEF IsEstimateTo
<1> HIDE DEF table
<1>3. CASE i = "client"
    <2>1. table = [r \in 0..Len(list) |->
               IF r = 0 THEN Start(order)
               ELSE IF table[r - 1].needed # 0 THEN EstimateOne(table[r - 1], list[r], order)
               ELSE table[r - 1]]
        BY <1>2, <1>3 DEF EstimateStep
    <2>2. Client = [r \in 0..Len(list) |->
               IF r = 0 THEN Start(order)
               ELSE IF Client[r - 1].needed # 0 THEN EstimateOne(Client[r - 1], list[r], order)
               ELSE Client[r - 1]]
        BY <2>1, Zenon
    <2>3. EstimateOf(i, order, list) = Client[len]
        BY <1>3 DEF EstimateOf, ClientEstimate
    <2> HIDE DEF Client
    <2>4. Client[0] = Start(order)
        BY <2>2
    <2>5. ASSUME NEW r \in 1..len PROVE Client[r] = EstimateStep(i, Client[r - 1], list[r], order)
        <3>1. r \in 0..Len(list) /\ r # 0
            OBVIOUS
        <3> QED BY <1>3, <2>2, <3>1 DEF EstimateStep
    <2>6. IsEstimateTo(Client, i, order, list, len)
        BY <2>4, <2>5, Zenon DEF IsEstimateTo
    <2> QED BY <2>3, <2>6
<1>4. CASE i \in {"plpgsql", "c"}
    <2>1. table = [r \in 0..Len(list) |->
               IF r = 0 THEN Start(order)
               ELSE IF table[r - 1].needed > 0 THEN EstimateOne(table[r - 1], list[r], order)
               ELSE table[r - 1]]
        BY <1>2, <1>4 DEF EstimateStep
    <2>2. Stored = [r \in 0..Len(list) |->
               IF r = 0 THEN Start(order)
               ELSE IF Stored[r - 1].needed > 0 THEN EstimateOne(Stored[r - 1], list[r], order)
               ELSE Stored[r - 1]]
        BY <2>1, Zenon
    <2>3. EstimateOf(i, order, list) = Stored[len]
        BY <1>4 DEF EstimateOf, PlpgsqlEstimate, CEstimate
    <2> HIDE DEF Stored
    <2>4. Stored[0] = Start(order)
        BY <2>2
    <2>5. ASSUME NEW r \in 1..len PROVE Stored[r] = EstimateStep(i, Stored[r - 1], list[r], order)
        <3>1. r \in 0..Len(list) /\ r # 0
            OBVIOUS
        <3> QED BY <1>4, <2>2, <3>1 DEF EstimateStep
    <2>6. IsEstimateTo(Stored, i, order, list, len)
        BY <2>4, <2>5, Zenon DEF IsEstimateTo
    <2> QED BY <2>3, <2>6
<1> QED BY <1>3, <1>4

-----------------------------------------------------------------------------
(* The estimate and the frame, round by round.                             *)

(* What both loops have after the same number of rounds.                   *)
Agree(a, e) ==
    /\ a.needed \in Nat /\ a.held \in Int /\ a.traded \in Int
    /\ e.needed = a.needed /\ e.held = a.held /\ e.traded = a.traded
    /\ a.holding \subseteq Lots /\ IsFiniteSet(a.holding)

(* A round of each uses the same shares of the lot.                        *)
LEMMA RoundsAgree ==
    ASSUME NEW i, NEW order, NEW tr, tr.type_is_sell = order.type_is_sell,
           order.type_is_sell \in BOOLEAN,
           tr.price = RequestedPrice(order), tr.price \in Int,
           NEW h \in Lots, NEW a, NEW e, Agree(a, e)
    PROVE  Agree(LiquidateOne(a, h, tr), EstimateStep(i, e, h, order))
<1> DEFINE s == Sign(tr)
           have == s * h.qty
           some == have > a.needed
           used == IF some THEN a.needed ELSE have
           left == IF some THEN h.qty - s * a.needed ELSE 0
           b == LiquidateOne(a, h, tr)
           f == EstimateStep(i, e, h, order)
<1>1. s = Sign(order) /\ s \in {1, -1} /\ h.qty \in Int /\ h.price \in Int
    BY DEF Sign, Lots
<1>2. have \in Int /\ used \in Int /\ left \in Int /\ used <= a.needed
      /\ used * h.price \in Int /\ used * tr.price \in Int
    BY <1>1 DEF Agree
<1>3. CASE a.needed = 0
    BY <1>3 DEF Agree, EstimateStep, LiquidateOne
<1>4. CASE a.needed # 0
    <2>1. ~(a.needed <= 0) /\ e.needed # 0 /\ e.needed > 0
        BY <1>4 DEF Agree
    <2>2. b = [needed  |-> a.needed - used,
               holding |-> (a.holding \ {h}) \cup
                               (IF some THEN {[h EXCEPT !.qty = left]} ELSE {}),
               history |-> a.history \cup {HistoryRow(h.id, tr.id, h.qty, left)},
               held    |-> a.held + used * h.price,
               traded  |-> a.traded + used * tr.price]
        BY <2>1 DEF LiquidateOne
    <2>3. f = [needed |-> a.needed - used, held |-> a.held + used * h.price,
               traded |-> a.traded + used * tr.price]
        <3>1. f = EstimateOne(e, h, order)
            BY <2>1 DEF EstimateStep
        <3>2. Sign(order) * h.qty = have /\ e.needed = a.needed /\ e.held = a.held
              /\ e.traded = a.traded
            BY <1>1 DEF Agree
        <3> HIDE DEF have
        <3> QED BY <3>1, <3>2 DEF EstimateOne
    <2>4. [h EXCEPT !.qty = left] \in Lots
        BY <1>2 DEF Lots
    <2>5. b.holding \subseteq Lots /\ IsFiniteSet(b.holding)
        <3>1. IsFiniteSet(a.holding \ {h}) /\ a.holding \subseteq Lots
            BY FS_RemoveElement DEF Agree
        <3>2. IsFiniteSet((a.holding \ {h}) \cup {[h EXCEPT !.qty = left]})
            BY <3>1, FS_AddElement
        <3>3. CASE some
            BY <2>2, <2>4, <3>1, <3>2, <3>3
        <3>4. CASE ~some
            BY <2>2, <3>1, <3>4
        <3> QED BY <3>3, <3>4
    <2> HIDE DEF b, f, used, have, left
    <2>6. b.needed = a.needed - used /\ b.held = a.held + used * h.price
          /\ b.traded = a.traded + used * tr.price
        BY <2>2
    <2>7. f.needed = a.needed - used /\ f.held = a.held + used * h.price
          /\ f.traded = a.traded + used * tr.price
        BY <2>3
    <2>8. b.needed \in Nat /\ b.held \in Int /\ b.traded \in Int
        <3> DEFINE x == used * h.price
                   y == used * tr.price
        <3>1. x \in Int /\ y \in Int /\ a.held \in Int /\ a.traded \in Int /\ a.needed \in Nat
            BY <1>2 DEF Agree
        <3>2. b.held = a.held + x /\ b.traded = a.traded + y
            BY <2>6
        <3> HIDE DEF x, y
        <3> QED BY <1>2, <2>6, <3>1, <3>2
    <2>9. Agree(b, f)
        BY <2>5, <2>6, <2>7, <2>8 DEF Agree
    <2> QED BY <2>9 DEF b, f
<1> QED BY <1>3, <1>4

(* So do any number of rounds.                                             *)
LEMMA LoopsAgree ==
    ASSUME NEW i, NEW order, NEW tr, tr.type_is_sell = order.type_is_sell,
           order.type_is_sell \in BOOLEAN, order.qty \in Nat, tr.qty = order.qty,
           tr.price = RequestedPrice(order), tr.price \in Int,
           NEW p, p.holding \subseteq Lots, IsFiniteSet(p.holding),
           NEW list, NEW len \in Nat, \A r \in 1..len : list[r] \in Lots,
           NEW acc, IsLoopTo(acc, p, tr, list, len),
           NEW est, IsEstimateTo(est, i, order, list, len)
    PROVE  \A r \in 0..len : Agree(acc[r], est[r])
<1> DEFINE Bad == {r \in 0..len : ~Agree(acc[r], est[r])}
<1>1. 0 \notin Bad
    BY DEF IsLoopTo, IsEstimateTo, Agree, LiquidateStart, Start
<1>2. Bad = {}
    <2> SUFFICES ASSUME Bad # {} PROVE FALSE
        OBVIOUS
    <2> Bad \subseteq Nat
        OBVIOUS
    <2>1. PICK k \in Bad : \A y \in Bad : k <= y
        <3> HIDE DEF Bad
        <3> QED BY MinOfNaturals
    <2>2. k \in 1..len /\ k - 1 \in 0..len /\ k - 1 \notin Bad
        <3>1. k \in 0..len /\ k # 0
            BY <1>1, <2>1
        <3>2. ~(k <= k - 1)
            BY <3>1
        <3> HIDE DEF Bad
        <3> QED BY <2>1, <3>1, <3>2
    <2>3. Agree(acc[k - 1], est[k - 1]) /\ list[k] \in Lots
        BY <2>2
    <2>4. acc[k] = LiquidateOne(acc[k - 1], list[k], tr)
        BY <2>2 DEF IsLoopTo
    <2>5. est[k] = EstimateStep(i, est[k - 1], list[k], order)
        BY <2>2 DEF IsEstimateTo
    <2>6. Agree(acc[k], est[k])
        BY <2>3, <2>4, <2>5, RoundsAgree
    <2> QED BY <2>1, <2>6
<1> QED BY <1>2

(* A list that the frame may read has every lot once.                      *)
LEMMA ListOfLots ==
    ASSUME NEW p, IsFiniteSet(p.holding), NEW lifo, NEW list \in HoldLists(p, lifo)
    PROVE  /\ Len(list) \in Nat /\ DOMAIN list = 1..Len(list)
           /\ \A i \in 1..Len(list) : list[i] \in p.holding
           /\ \A i, j \in 1..Len(list) : i # j => list[i] # list[j]
           /\ \A h \in p.holding : \E i \in 1..Len(list) : h = list[i]
           /\ Len(list) = Cardinality(p.holding)
           /\ \A i, j \in 1..Len(list) : i < j =>
                  IF lifo THEN list[i].dts >= list[j].dts ELSE list[i].dts <= list[j].dts
<1> DEFINE len == Cardinality(p.holding)
<1>1. len \in Nat
    BY FS_CardinalityType
<1>2. list \in [1..len -> p.holding] /\ \A i, j \in 1..len : i # j => list[i] # list[j]
    BY DEF HoldLists, SetToSeqs
<1>3. Len(list) = len
    BY <1>1, <1>2
<1>4. \A h \in p.holding : \E i \in 1..len : h = list[i]
    <2>1. list \in Injection(1..len, p.holding)
        BY <1>2 DEF Injection, IsInjective
    <2>2. IsFiniteSet(1..len) /\ Cardinality(1..len) = len
        BY <1>1, FS_Interval
    <2>3. list \in Surjection(1..len, p.holding)
        BY <2>1, <2>2, FS_Injection
    <2> QED BY <2>3, <1>2 DEF Surjection
<1>5. \A i, j \in 1..len : i < j =>
          IF lifo THEN list[i].dts >= list[j].dts ELSE list[i].dts <= list[j].dts
    <2>1. DOMAIN list = 1..len
        BY <1>2
    <2> QED BY <2>1 DEF HoldLists
<1> QED BY <1>1, <1>2, <1>3, <1>4, <1>5

(* The time stamp of a new holding is an integer.                          *)
LEMMA StoredDtsIsTime ==
    ASSUME NEW i \in {"client", "plpgsql", "c"}, NEW now \in Int
    PROVE  StoredDts(i, now) \in Int
<1>1. (now + TicksPerSecond \div 2) \div TicksPerSecond \in Int
    BY TicksAssumption
<1>2. RoundToSecond(now) \in Int
    BY <1>1, TicksAssumption DEF RoundToSecond
<1> QED BY <1>2 DEF StoredDts, AncientOffset

(* An estimate that is what the frame reports, and the lots the frame      *)
(* leaves.                                                                 *)
Foretells(e, f) ==
    /\ e.buy_value = f.buy_value /\ e.sell_value = f.sell_value
    /\ f.buy_value \in Int /\ f.sell_value \in Int
    /\ f.position.holding \subseteq Lots /\ IsFiniteSet(f.position.holding)

(* An order, and a position.                                               *)
IsOrder(order) ==
    /\ order.type_is_sell \in BOOLEAN /\ order.qty \in Nat
    /\ RequestedPrice(order) \in Int

HasLots(p) == p.holding \subseteq Lots /\ IsFiniteSet(p.holding)

(* Every implementation's estimate is that of its order's trade.           *)
LEMMA EstimateIsFrame2 ==
    ASSUME NEW i \in Impls, NEW order, IsOrder(order), NEW id \in Int, NEW dts \in Int,
           NEW p, HasLots(p), NEW lifo, NEW list \in HoldLists(p, lifo)
    PROVE  Foretells(TOF3(i, p, order, list),
                     Frame2(p, Frame1HsQty(p), TradeOf(order, id), list, dts))
<1> DEFINE tr == TradeOf(order, id)
           hs == Frame1HsQty(p)
           len == Len(list)
           entered == Sign(tr) * hs > 0
           last == IF entered THEN len ELSE 0
           e == TOF3(i, p, order, list)
           f == Frame2(p, hs, tr, list, dts)
           a == Liquidate(p, hs, tr, list)
           est == IF entered THEN EstimateOf(i, order, list) ELSE Start(order)
           rest == -Sign(tr) * a.needed
           new == [id |-> tr.id, dts |-> dts, price |-> tr.price, qty |-> rest]
<1> USE DEF IsOrder, HasLots
<1>0. i \in {"client", "plpgsql", "c"}
    BY ImplsAssumption
<1>1. /\ tr.type_is_sell = order.type_is_sell /\ tr.qty = order.qty /\ tr.id = id
      /\ tr.price = RequestedPrice(order) /\ tr.price \in Int /\ Sign(tr) = Sign(order)
    BY DEF TradeOf, Sign
<1>2. len \in Nat /\ \A r \in 1..len : list[r] \in Lots
    BY ListOfLots
<1> HIDE DEF tr, hs
<1>3. PICK acc : IsLoopTo(acc, p, tr, list, len) /\ a = acc[last]
    BY <1>2, LiquidateIsLoop
<1>4. PICK steps : IsEstimateTo(steps, i, order, list, len) /\ EstimateOf(i, order, list) = steps[len]
    BY <1>0, <1>2, EstimateIsLoop
<1>5. \A r \in 0..len : Agree(acc[r], steps[r])
    BY <1>1, <1>2, <1>3, <1>4, LoopsAgree
<1>6. Agree(a, est)
    <2>1. len \in 0..len /\ 0 \in 0..len
        BY <1>2
    <2>2. steps[0] = Start(order)
        BY <1>4 DEF IsEstimateTo
    <2> QED BY <1>3, <1>4, <1>5, <2>1, <2>2
<1>7. e.buy_value = BuyValue(est, order) /\ e.sell_value = SellValue(est, order)
    <2>1. (p.hs # NoRow /\ Sign(order) * p.hs > 0) <=> entered
        <3>1. Sign(order) * 0 = 0
            BY DEF Sign
        <3> QED BY <1>1, <3>1 DEF hs, Frame1HsQty
    <2>2. CASE i = "client"
        BY <1>1, <2>2 DEF TOF3, ClientTOF3, EstimateOf, Output, hs
    <2>3. CASE i = "plpgsql"
        BY <2>1, <2>3 DEF TOF3, PlpgsqlTOF3, EstimateOf, Output
    <2>4. CASE i = "c"
        BY <1>1, <2>4 DEF TOF3, CTOF3, EstimateOf, Output, hs
    <2> QED BY <1>0, <2>2, <2>3, <2>4
<1>8. /\ f.buy_value = IF tr.type_is_sell THEN a.held ELSE a.traded
      /\ f.sell_value = IF tr.type_is_sell THEN a.traded ELSE a.held
      /\ f.position.holding = IF a.needed > 0 THEN a.holding \cup {new} ELSE a.holding
    BY DEF Frame2
<1> HIDE DEF est, a, e, f
<1>9. /\ e.buy_value = f.buy_value /\ e.sell_value = f.sell_value
      /\ f.buy_value \in Int /\ f.sell_value \in Int
    BY <1>1, <1>6, <1>7, <1>8 DEF BuyValue, SellValue, Agree
<1>10. f.position.holding \subseteq Lots /\ IsFiniteSet(f.position.holding)
    <2>1. a.needed \in Nat /\ a.holding \subseteq Lots /\ IsFiniteSet(a.holding)
        BY <1>6 DEF Agree
    <2>2. rest \in Int
        BY <2>1 DEF Sign
    <2>3. new \in Lots
        BY <1>1, <2>2 DEF Lots
    <2>4. IsFiniteSet(a.holding \cup {new})
        BY <2>1, FS_AddElement
    <2> QED BY <1>8, <2>1, <2>3, <2>4
<1> QED BY <1>9, <1>10 DEF Foretells, e, f, tr, hs

-----------------------------------------------------------------------------
(* EstimateComesTrue.                                                      *)

LotsInv ==
    /\ n \in Nat /\ clock \in Nat
    /\ \A i \in Impls : positions[i].holding \subseteq Lots /\ IsFiniteSet(positions[i].holding)
    /\ EstimateComesTrue

(* The order of a step of RunTrade.                                        *)
OrderOf(k, sell, lifo, qty, kind) ==
    [type_is_sell |-> sell, is_lifo |-> lifo, qty |-> qty,
     type_is_market |-> kind.type_is_market,
     type_is_margin |-> kind.type_is_margin,
     tax_status |-> kind.tax_status,
     market_price |-> IF kind.type_is_market THEN Price(k) ELSE BasePrice,
     requested_price |-> IF kind.type_is_market THEN 0 ELSE Price(k)]

(* RunTrade with one order and the lists the implementations read.         *)
RunOne(lifo, list, sell, qty, kind) ==
    LET order == OrderOf(n', sell, lifo, qty, kind)
        run == [i \in Impls |->
                   Frame2(positions[i], Frame1HsQty(positions[i]), TradeOf(order, n'), list[i],
                          StoredDts(i, clock'))]
    IN  /\ estimates' = [i \in Impls |-> TOF3(i, positions[i], order, list[i])]
        /\ positions' = [i \in Impls |-> run[i].position]
        /\ outs' = [i \in Impls |-> <<run[i].buy_value, run[i].sell_value>>]

(* A step is that of some order.                                           *)
LEMMA StepOfRunTrade ==
    ASSUME RunTrade
    PROVE  /\ n < MaxTrades /\ ~tied /\ n' = n + 1
           /\ clock' \in {clock + 1, clock + TicksPerSecond}
           /\ tied' = \E i \in Impls : Tied(positions'[i])
           /\ \E lifo, sell \in BOOLEAN, qty \in 1..MaxQty, kind \in OrderKinds : \E list :
                 /\ \A i \in Impls : list[i] \in HoldLists(positions[i], lifo)
                 /\ RunOne(lifo, list, sell, qty, kind)
<1>1. PICK lifo \in BOOLEAN :
          \E list \in ListsRead(lifo) :
          \E sell \in BOOLEAN, qty \in 1..MaxQty, kind \in OrderKinds :
              RunOne(lifo, list, sell, qty, kind)
    BY Zenon DEF RunTrade, RunOne, OrderOf
<1>2. PICK list \in ListsRead(lifo) :
          \E sell \in BOOLEAN, qty \in 1..MaxQty, kind \in OrderKinds :
              RunOne(lifo, list, sell, qty, kind)
    BY <1>1
<1>3. \A i \in Impls : list[i] \in HoldLists(positions[i], lifo)
    BY DEF ListsRead
<1>4. PICK sell \in BOOLEAN, qty \in 1..MaxQty, kind \in OrderKinds :
          RunOne(lifo, list, sell, qty, kind)
    BY <1>2
<1>5. /\ n < MaxTrades /\ ~tied /\ n' = n + 1
      /\ clock' \in {clock + 1, clock + TicksPerSecond}
      /\ tied' = \E i \in Impls : Tied(positions'[i])
    BY Zenon DEF RunTrade
<1> QED BY <1>3, <1>4, <1>5, Zenon

(* What is known of the order.                                             *)
LEMMA OrderIsTyped ==
    ASSUME NEW k \in Nat, NEW sell \in BOOLEAN, NEW lifo \in BOOLEAN,
           NEW qty \in 1..MaxQty, NEW kind \in OrderKinds
    PROVE  LET order == OrderOf(k, sell, lifo, qty, kind)
           IN  IsOrder(order)
BY BoundsAssumption, KindsAssumption DEF OrderOf, RequestedPrice, Price, IsOrder

(* A step leaves lots, and its estimate is its output.                     *)
LEMMA LotsStep ==
    ASSUME LotsInv, [Next]_vars
    PROVE  LotsInv'
<1>1. CASE UNCHANGED vars
    BY <1>1 DEF LotsInv, EstimateComesTrue, vars
<1>2. CASE RunTrade
    <2>0. PICK lifo, sell \in BOOLEAN, qty \in 1..MaxQty, kind \in OrderKinds : \E list :
              /\ \A i \in Impls : list[i] \in HoldLists(positions[i], lifo)
              /\ RunOne(lifo, list, sell, qty, kind)
        BY <1>2, StepOfRunTrade
    <2>1. PICK list : /\ \A i \in Impls : list[i] \in HoldLists(positions[i], lifo)
                      /\ RunOne(lifo, list, sell, qty, kind)
        BY <2>0
    <2> DEFINE order == OrderOf(n', sell, lifo, qty, kind)
               F(i) == Frame2(positions[i], Frame1HsQty(positions[i]), TradeOf(order, n'), list[i],
                              StoredDts(i, clock'))
               E(i) == TOF3(i, positions[i], order, list[i])
    <2>2. n' \in Nat /\ clock' \in Nat
        BY <1>2, StepOfRunTrade, TicksAssumption DEF LotsInv
    <2>3. IsOrder(order)
        BY <2>2, OrderIsTyped
    <2>4. \A i \in Impls : /\ estimates'[i] = E(i) /\ positions'[i] = F(i).position
                           /\ outs'[i] = <<F(i).buy_value, F(i).sell_value>>
        BY <2>1 DEF RunOne
    <2> HIDE DEF order
    <2>5. ASSUME NEW i \in Impls
          PROVE  /\ E(i).buy_value = F(i).buy_value /\ E(i).sell_value = F(i).sell_value
                 /\ F(i).position.holding \subseteq Lots /\ IsFiniteSet(F(i).position.holding)
        <3>1. i \in {"client", "plpgsql", "c"}
            BY ImplsAssumption
        <3>2. StoredDts(i, clock') \in Int
            BY <2>2, <3>1, StoredDtsIsTime
        <3>3. positions[i].holding \subseteq Lots /\ IsFiniteSet(positions[i].holding)
            BY DEF LotsInv
        <3>4. n' \in Int /\ list[i] \in HoldLists(positions[i], lifo)
            BY <2>1, <2>2
        <3> DEFINE p == positions[i]
                   l == list[i]
                   id == n'
                   dts == StoredDts(i, clock')
        <3> HIDE DEF p, l, id, dts
        <3>5. Foretells(TOF3(i, p, order, l),
                        Frame2(p, Frame1HsQty(p), TradeOf(order, id), l, dts))
            <4>1. HasLots(p) /\ l \in HoldLists(p, lifo) /\ id \in Int /\ dts \in Int
                BY <3>2, <3>3, <3>4 DEF HasLots, p, l, id, dts
            <4> QED BY <2>3, <4>1, EstimateIsFrame2
        <3> QED BY <3>5 DEF Foretells, p, l, id, dts
    <2> HIDE DEF E, F
    <2>6. EstimateComesTrue'
        BY <2>4, <2>5 DEF EstimateComesTrue
    <2> QED BY <2>2, <2>4, <2>5, <2>6 DEF LotsInv
<1> QED BY <1>1, <1>2 DEF Next

(* Trade-Order Frame 3 tells the customer what Trade-Result Frame 2 does   *)
(* when the trade is executed at once at that price, in the client, in     *)
(* plpgsql and in C, whatever the holdings, the order of the list where    *)
(* time stamps are equal included.                                         *)
THEOREM EstimatesComeTrue == Spec => []EstimateComesTrue
<1>1. Init => LotsInv
    BY ImplsAssumption, LoadedAssumption
       DEF Init, LotsInv, EstimateComesTrue, LoadedPosition, NoEstimate
<1>2. LotsInv /\ [Next]_vars => LotsInv'
    BY LotsStep
<1>3. LotsInv => EstimateComesTrue
    BY DEF LotsInv
<1> QED BY <1>1, <1>2, <1>3, PTL DEF Spec

-----------------------------------------------------------------------------
(* The client and plpgsql.                                                 *)

(* The lot of plpgsql's database that corresponds to one of the client's:  *)
(* the holding of a trade has its time stamp rounded.                      *)
Rounded(h) == IF h.id \in 1..MaxTrades THEN [h EXCEPT !.dts = RoundToSecond(@)] ELSE h

(* Lots of one trade have one time stamp.                                  *)
DtsById(S) == \A g, h \in S : g.id = h.id => g.dts = h.dts

(* The lots of the client's database after k trades: those loaded are      *)
(* older than those of trades.                                             *)
LotsAfter(S, k) ==
    /\ S \subseteq Lots /\ IsFiniteSet(S) /\ DtsById(S)
    /\ \A h \in S : IF h.id \in 1..MaxTrades THEN h.id <= k /\ h.dts >= 1 ELSE h.dts <= 0

(* T is S with the lots rounded.                                           *)
RoundedLots(T, S) == T = {Rounded(h) : h \in S}

(* The databases of the client and of plpgsql.                             *)
PairInv ==
    LET p == positions["client"]
        q == positions["plpgsql"]
    IN  /\ q.hs = p.hs
        /\ LotsAfter(p.holding, n)
        /\ RoundedLots(q.holding, p.holding)

SameInv ==
    /\ LotsInv
    /\ clock >= 1
    /\ ~tied => \A i \in Impls : ~Tied(positions[i])
    /\ {"client", "plpgsql"} \subseteq Impls => PairInv
    /\ SameFrameOutput

(* The integer quotient, by the multiples of the divisor around it.        *)
LEMMA DivBounds ==
    ASSUME NEW d \in Nat, d > 0, NEW x \in Int
    PROVE  x \div d \in Int /\ (x \div d) * d <= x /\ x < (x \div d) * d + d
OBVIOUS

(* Rounding to whole seconds keeps the order of times.                     *)
LEMMA RoundingIsMonotone ==
    ASSUME NEW x \in Int, NEW y \in Int, x <= y
    PROVE  /\ RoundToSecond(x) \in Int /\ RoundToSecond(y) \in Int
           /\ RoundToSecond(x) <= RoundToSecond(y)
           /\ x >= 0 => RoundToSecond(x) >= 0
<1> DEFINE d == TicksPerSecond
           c == d \div 2
           a == (x + c) \div d
           b == (y + c) \div d
<1>1. d \in Nat /\ d > 0
    BY TicksAssumption
<1>2. c \in Int /\ c >= 0
    BY <1>1
<1> HIDE DEF d, c
<1>3. a \in Int /\ a * d <= x + c /\ x + c < a * d + d
    BY <1>1, <1>2, DivBounds
<1>4. b \in Int /\ b * d <= y + c /\ y + c < b * d + d
    BY <1>1, <1>2, DivBounds
<1>5. RoundToSecond(x) = a * d /\ RoundToSecond(y) = b * d
    BY DEF RoundToSecond, d, c
<1> HIDE DEF a, b
<1>6. a * d \in Int /\ b * d \in Int
    BY <1>1, <1>3, <1>4
<1>7. a * d <= b * d
    <2>1. ASSUME a >= b + 1 PROVE FALSE
        <3>1. (b + 1) * d <= a * d
            BY <1>1, <1>3, <1>4, <2>1
        <3>2. (b + 1) * d = b * d + d
            BY <1>1, <1>4
        <3> HIDE DEF d
        <3> DEFINE u == a * d
                   v == b * d
        <3>3. u \in Int /\ v \in Int /\ v + d <= u /\ u <= x + c /\ y + c < v + d
            BY <1>3, <1>4, <1>6, <3>1, <3>2
        <3> HIDE DEF u, v
        <3> QED BY <1>1, <1>2, <3>3
    <2>2. a <= b
        BY <1>3, <1>4, <2>1
    <2> QED BY <1>1, <1>3, <1>4, <2>2
<1>8. ASSUME x >= 0 PROVE a * d >= 0
    <2>1. ASSUME a <= -1 PROVE FALSE
        <3>1. a * d <= (-1) * d
            BY <1>1, <1>3, <2>1
        <3>2. a * d + d <= 0
            BY <1>1, <1>6, <3>1
        <3> DEFINE u == a * d
        <3>3. u \in Int /\ u + d <= 0 /\ x + c < u + d
            BY <1>3, <1>6, <3>2
        <3> HIDE DEF u
        <3> QED BY <1>1, <1>2, <1>8, <3>3
    <2>2. a >= 0
        BY <1>3, <2>1
    <2> QED BY <1>1, <1>3, <2>2
<1> QED BY <1>5, <1>6, <1>7, <1>8

(* Rounding to a cent twice is rounding once.                              *)
LEMMA HalfUpTwice ==
    ASSUME NEW x \in Int
    PROVE  HalfUp(HalfUp(x)) = HalfUp(x)
BY DEF HalfUp

(* A rounded lot differs in its time stamp only.                           *)
LEMMA RoundedLot ==
    ASSUME NEW h \in Lots
    PROVE  /\ Rounded(h) \in Lots
           /\ Rounded(h).id = h.id /\ Rounded(h).qty = h.qty /\ Rounded(h).price = h.price
           /\ Rounded(h).dts = IF h.id \in 1..MaxTrades THEN RoundToSecond(h.dts) ELSE h.dts
           /\ \A left \in Int : /\ [h EXCEPT !.qty = left] \in Lots
                                /\ [h EXCEPT !.qty = left].id = h.id
                                /\ [h EXCEPT !.qty = left].dts = h.dts
                                /\ Rounded([h EXCEPT !.qty = left]) = [Rounded(h) EXCEPT !.qty = left]
<1>1. h = [id |-> h.id, dts |-> h.dts, price |-> h.price, qty |-> h.qty]
      /\ h.id \in Int /\ h.dts \in Int /\ h.price \in Int /\ h.qty \in Int
    BY DEF Lots
<1>2. RoundToSecond(h.dts) \in Int
    BY <1>1, RoundingIsMonotone
<1>3. Rounded(h) = [id |-> h.id, dts |-> IF h.id \in 1..MaxTrades THEN RoundToSecond(h.dts) ELSE h.dts,
                    price |-> h.price, qty |-> h.qty]
    BY <1>1 DEF Rounded
<1>4. ASSUME NEW left \in Int
      PROVE  /\ [h EXCEPT !.qty = left] = [id |-> h.id, dts |-> h.dts, price |-> h.price, qty |-> left]
             /\ Rounded([h EXCEPT !.qty = left]) = [Rounded(h) EXCEPT !.qty = left]
    <2>1. [h EXCEPT !.qty = left] = [id |-> h.id, dts |-> h.dts, price |-> h.price, qty |-> left]
        BY <1>1
    <2>2. Rounded([id |-> h.id, dts |-> h.dts, price |-> h.price, qty |-> left])
          = [id |-> h.id, dts |-> IF h.id \in 1..MaxTrades THEN RoundToSecond(h.dts) ELSE h.dts,
             price |-> h.price, qty |-> left]
        BY DEF Rounded
    <2> QED BY <1>3, <2>1, <2>2
<1>5. \A left \in Int : /\ [h EXCEPT !.qty = left] \in Lots
                        /\ [h EXCEPT !.qty = left].id = h.id
                        /\ [h EXCEPT !.qty = left].dts = h.dts
    BY <1>1, <1>4 DEF Lots
<1>6. Rounded(h) \in Lots
    BY <1>1, <1>2, <1>3 DEF Lots
<1>7. /\ Rounded(h).id = h.id /\ Rounded(h).qty = h.qty /\ Rounded(h).price = h.price
      /\ Rounded(h).dts = IF h.id \in 1..MaxTrades THEN RoundToSecond(h.dts) ELSE h.dts
    BY <1>3
<1>8. \A left \in Int : Rounded([h EXCEPT !.qty = left]) = [Rounded(h) EXCEPT !.qty = left]
    BY <1>4
<1> QED BY <1>5, <1>6, <1>7, <1>8, Zenon

(* Two lots that round to the same one, and have one time stamp if they    *)
(* have one trade, are the same.                                           *)
LEMMA RoundedApart ==
    ASSUME NEW g \in Lots, NEW h \in Lots, g.id = h.id => g.dts = h.dts, Rounded(g) = Rounded(h)
    PROVE  g = h
<1>1. g.id = h.id /\ g.qty = h.qty /\ g.price = h.price
    BY RoundedLot
<1>2. g.dts = h.dts
    BY <1>1
<1> QED BY <1>1, <1>2 DEF Lots

(* The order of two lots is that of their rounded ones.                    *)
LEMMA RoundedInOrder ==
    ASSUME NEW S, NEW k, LotsAfter(S, k), NEW g \in S, NEW h \in S, g.dts <= h.dts
    PROVE  Rounded(g).dts <= Rounded(h).dts /\ Rounded(g).dts \in Int /\ Rounded(h).dts \in Int
<1>1. g \in Lots /\ h \in Lots /\ g.dts \in Int /\ h.dts \in Int
    BY DEF LotsAfter, Lots
<1>2. /\ Rounded(g).dts = IF g.id \in 1..MaxTrades THEN RoundToSecond(g.dts) ELSE g.dts
      /\ Rounded(h).dts = IF h.id \in 1..MaxTrades THEN RoundToSecond(h.dts) ELSE h.dts
    BY <1>1, RoundedLot
<1>3. /\ RoundToSecond(g.dts) <= RoundToSecond(h.dts) /\ RoundToSecond(g.dts) \in Int
      /\ RoundToSecond(h.dts) \in Int
    BY <1>1, RoundingIsMonotone
<1>4. h.dts >= 0 => RoundToSecond(h.dts) >= 0
    BY <1>1, RoundingIsMonotone
<1>5. /\ g.id \in 1..MaxTrades => g.dts >= 1
      /\ g.id \notin 1..MaxTrades => g.dts <= 0
      /\ h.id \in 1..MaxTrades => h.dts >= 1
      /\ h.id \notin 1..MaxTrades => h.dts <= 0
    BY DEF LotsAfter
<1> QED BY <1>1, <1>2, <1>3, <1>4, <1>5

(* s lists S by time stamp.                                                *)
Lists(s, len, S, lifo) ==
    /\ \A i \in 1..len : s[i] \in S
    /\ \A i, j \in 1..len : i # j => s[i] # s[j]
    /\ \A h \in S : \E i \in 1..len : h = s[i]
    /\ \A i, j \in 1..len : i < j =>
           IF lifo THEN s[i].dts >= s[j].dts ELSE s[i].dts <= s[j].dts

(* Where no two time stamps are equal, ORDER BY leaves one list.           *)
LEMMA OneSortedList ==
    ASSUME NEW S, S \subseteq Lots, \A g, h \in S : g # h => g.dts # h.dts,
           NEW len \in Nat, NEW lifo \in BOOLEAN, NEW s, NEW t,
           Lists(s, len, S, lifo), Lists(t, len, S, lifo)
    PROVE  \A i \in 1..len : s[i] = t[i]
<1> USE DEF Lists
<1> DEFINE Bad == {i \in 1..len : s[i] # t[i]}
<1> SUFFICES ASSUME Bad # {} PROVE FALSE
    OBVIOUS
<1>1. PICK k \in Bad : \A y \in Bad : k <= y
    <2>1. Bad \subseteq Nat
        OBVIOUS
    <2> HIDE DEF Bad
    <2> QED BY <2>1, MinOfNaturals
<1>2. k \in 1..len /\ s[k] # t[k] /\ \A i \in 1..len : i < k => s[i] = t[i]
    <2>1. k \in 1..len /\ s[k] # t[k]
        OBVIOUS
    <2>2. ASSUME NEW i \in 1..len, i < k PROVE s[i] = t[i]
        <3>1. i \notin Bad
            <4> HIDE DEF Bad
            <4> QED BY <1>1, <2>1, <2>2
        <3> QED BY <3>1
    <2> QED BY <2>1, <2>2
<1> HIDE DEF Bad
<1>3. PICK j \in 1..len : s[k] = t[j]
    BY <1>2
<1>4. PICK m \in 1..len : t[k] = s[m]
    BY <1>2
<1>5. j > k
    <2>1. ASSUME j < k PROVE FALSE
        <3>1. s[j] = s[k] /\ j # k
            BY <1>2, <1>3, <2>1
        <3> QED BY <1>2, <3>1
    <2>2. j # k
        BY <1>2, <1>3
    <2> QED BY <1>2, <2>1, <2>2
<1>6. m > k
    <2>1. ASSUME m < k PROVE FALSE
        <3>1. t[m] = t[k] /\ m # k
            BY <1>2, <1>4, <2>1
        <3> QED BY <1>2, <3>1
    <2>2. m # k
        BY <1>2, <1>4
    <2> QED BY <1>2, <2>1, <2>2
<1>7. s[k] \in S /\ t[k] \in S /\ s[k].dts \in Int /\ t[k].dts \in Int
    BY <1>2 DEF Lots
<1>8. /\ IF lifo THEN s[k].dts >= t[k].dts ELSE s[k].dts <= t[k].dts
      /\ IF lifo THEN t[k].dts >= s[k].dts ELSE t[k].dts <= s[k].dts
    <2>1. IF lifo THEN s[k].dts >= s[m].dts ELSE s[k].dts <= s[m].dts
        BY <1>2, <1>6
    <2>2. IF lifo THEN t[k].dts >= t[j].dts ELSE t[k].dts <= t[j].dts
        BY <1>2, <1>5
    <2> QED BY <1>3, <1>4, <2>1, <2>2
<1>9. s[k].dts = t[k].dts
    BY <1>7, <1>8
<1> QED BY <1>2, <1>7, <1>9

(* Positions in which the lists of holdings correspond.                    *)
Ready(p, q, k) ==
    LotsAfter(p.holding, k) /\ RoundedLots(q.holding, p.holding) /\ ~Tied(p) /\ ~Tied(q)

(* So plpgsql reads the client's list, rounded.                            *)
LEMMA ListsCorrespond ==
    ASSUME NEW p, NEW q, NEW k, Ready(p, q, k),
           NEW lifo \in BOOLEAN, NEW s \in HoldLists(p, lifo), NEW t \in HoldLists(q, lifo)
    PROVE  Len(s) = Len(t) /\ \A i \in 1..Len(s) : t[i] = Rounded(s[i])
<1> DEFINE S == p.holding
           T == q.holding
           len == Len(s)
           r == [i \in 1..len |-> Rounded(s[i])]
<1>0. LotsAfter(S, k) /\ RoundedLots(T, S) /\ ~Tied(p) /\ ~Tied(q)
    BY DEF Ready
<1>1. S \subseteq Lots /\ IsFiniteSet(S) /\ DtsById(S)
    BY <1>0 DEF LotsAfter
<1>2. T \subseteq Lots
    BY <1>0, <1>1, RoundedLot DEF RoundedLots
<1>3. /\ len \in Nat
      /\ \A i \in 1..len : s[i] \in S
      /\ \A i, j \in 1..len : i # j => s[i] # s[j]
      /\ \A h \in S : \E i \in 1..len : h = s[i]
      /\ len = Cardinality(S)
      /\ \A i, j \in 1..len : i < j =>
             IF lifo THEN s[i].dts >= s[j].dts ELSE s[i].dts <= s[j].dts
    BY <1>1, ListOfLots
<1>4. /\ \A i \in 1..len : r[i] \in T
      /\ \A h \in T : \E i \in 1..len : h = r[i]
    BY <1>0, <1>3 DEF RoundedLots
<1>5. \A i, j \in 1..len : i # j => r[i] # r[j]
    <2> SUFFICES ASSUME NEW i \in 1..len, NEW j \in 1..len, i # j, r[i] = r[j] PROVE FALSE
        OBVIOUS
    <2>1. s[i] \in S /\ s[j] \in S /\ s[i] # s[j] /\ Rounded(s[i]) = Rounded(s[j])
        BY <1>3
    <2>2. s[i].id = s[j].id => s[i].dts = s[j].dts
        BY <1>1, <2>1 DEF DtsById
    <2>3. s[i] \in Lots /\ s[j] \in Lots
        BY <1>1, <2>1
    <2> QED BY <2>1, <2>2, <2>3, RoundedApart
<1>6. IsFiniteSet(T) /\ Cardinality(T) = Cardinality(S)
    <2>1. r \in Surjection(1..len, T) /\ r \in Injection(1..len, T)
        BY <1>4, <1>5 DEF Injection, Surjection, IsInjective
    <2>2. IsFiniteSet(1..len) /\ Cardinality(1..len) = len
        BY <1>3, FS_Interval
    <2>3. IsFiniteSet(T) /\ Cardinality(T) = len
        BY <2>1, <2>2, FS_Surjection
    <2> QED BY <1>3, <2>3
<1>7. /\ Len(t) \in Nat
      /\ \A i \in 1..Len(t) : t[i] \in T
      /\ \A i, j \in 1..Len(t) : i # j => t[i] # t[j]
      /\ \A h \in T : \E i \in 1..Len(t) : h = t[i]
      /\ Len(t) = Cardinality(T)
      /\ \A i, j \in 1..Len(t) : i < j =>
             IF lifo THEN t[i].dts >= t[j].dts ELSE t[i].dts <= t[j].dts
    BY <1>6, ListOfLots
<1>8. \A i, j \in 1..len : i < j =>
          IF lifo THEN r[i].dts >= r[j].dts ELSE r[i].dts <= r[j].dts
    <2> SUFFICES ASSUME NEW i \in 1..len, NEW j \in 1..len, i < j
                 PROVE  IF lifo THEN r[i].dts >= r[j].dts ELSE r[i].dts <= r[j].dts
        OBVIOUS
    <2>1. s[i] \in S /\ s[j] \in S /\ s[i].dts \in Int /\ s[j].dts \in Int
        BY <1>1, <1>3 DEF Lots
    <2>2. s[i].dts <= s[j].dts => Rounded(s[i]).dts <= Rounded(s[j]).dts
        BY <1>0, <2>1, RoundedInOrder
    <2>3. s[j].dts <= s[i].dts => /\ Rounded(s[j]).dts <= Rounded(s[i]).dts
                                  /\ Rounded(s[j]).dts \in Int /\ Rounded(s[i]).dts \in Int
        BY <1>0, <2>1, RoundedInOrder
    <2> QED BY <1>3, <2>1, <2>2, <2>3
<1>9. \A g, h \in T : g # h => g.dts # h.dts
    BY <1>0 DEF Tied
<1> HIDE DEF r
<1>10. \A i \in 1..len : r[i] = t[i]
    <2>1. Len(t) = len
        BY <1>3, <1>6, <1>7
    <2>2. Lists(t, len, T, lifo)
        BY <1>7, <2>1 DEF Lists
    <2>3. Lists(r, len, T, lifo)
        BY <1>4, <1>5, <1>8 DEF Lists
    <2> HIDE DEF T, len
    <2>4. len \in Nat
        BY <1>3
    <2> QED BY <1>2, <1>9, <2>2, <2>3, <2>4, OneSortedList
<1> QED BY <1>3, <1>6, <1>7, <1>10 DEF r

(* What the loops of Frame 2 have in both databases after the same number  *)
(* of rounds, begun with the client's lots S.                              *)
Paired(a, b, S) ==
    /\ a.needed \in Int /\ b.needed = a.needed /\ b.held = a.held /\ b.traded = a.traded
    /\ a.holding \subseteq Lots /\ RoundedLots(b.holding, a.holding)
    /\ \A g \in a.holding : \E o \in S : o.id = g.id /\ o.dts = g.dts

(* A round with corresponding lots leaves corresponding lots.              *)
LEMMA RoundsArePaired ==
    ASSUME NEW S, S \subseteq Lots, DtsById(S), NEW h \in S,
           NEW tr, tr.type_is_sell \in BOOLEAN, NEW a, NEW b, Paired(a, b, S)
    PROVE  Paired(LiquidateOne(a, h, tr), LiquidateOne(b, Rounded(h), tr), S)
<1> DEFINE have == Sign(tr) * h.qty
           some == have > a.needed
           used == IF some THEN a.needed ELSE have
           left == IF some THEN h.qty - Sign(tr) * a.needed ELSE 0
           A == LiquidateOne(a, h, tr)
           B == LiquidateOne(b, Rounded(h), tr)
           g1 == [h EXCEPT !.qty = left]
           g2 == [Rounded(h) EXCEPT !.qty = left]
<1>1. h \in Lots /\ h.qty \in Int /\ a.needed \in Int /\ Sign(tr) \in {1, -1}
    BY DEF Lots, Paired, Sign
<1>2. have \in Int /\ used \in Int /\ left \in Int
    BY <1>1
<1>3. /\ Rounded(h).qty = h.qty /\ Rounded(h).price = h.price /\ Rounded(h).id = h.id
      /\ g1 \in Lots /\ g1.id = h.id /\ g1.dts = h.dts /\ Rounded(g1) = g2
    BY <1>1, <1>2, RoundedLot
<1>4. CASE a.needed <= 0
    BY <1>4 DEF LiquidateOne, Paired
<1>5. CASE ~(a.needed <= 0)
    <2>1. A = [needed  |-> a.needed - used,
               holding |-> (a.holding \ {h}) \cup (IF some THEN {g1} ELSE {}),
               history |-> a.history \cup {HistoryRow(h.id, tr.id, h.qty, left)},
               held    |-> a.held + used * h.price,
               traded  |-> a.traded + used * tr.price]
        BY <1>5 DEF LiquidateOne
    <2>2. B = [needed  |-> a.needed - used,
               holding |-> (b.holding \ {Rounded(h)}) \cup (IF some THEN {g2} ELSE {}),
               history |-> b.history \cup {HistoryRow(h.id, tr.id, h.qty, left)},
               held    |-> a.held + used * h.price,
               traded  |-> a.traded + used * tr.price]
        BY <1>3, <1>5 DEF LiquidateOne, Paired
    <2> HIDE DEF A, B, g1, g2, left, used, some
    <2>3. /\ A.needed = a.needed - used /\ B.needed = A.needed
          /\ B.held = A.held /\ B.traded = A.traded
          /\ A.holding = (a.holding \ {h}) \cup (IF some THEN {g1} ELSE {})
          /\ B.holding = (b.holding \ {Rounded(h)}) \cup (IF some THEN {g2} ELSE {})
        BY <2>1, <2>2
    <2>4. A.needed \in Int /\ A.holding \subseteq Lots
        BY <1>1, <1>2, <1>3, <2>3 DEF Paired
    <2>5. \A g \in A.holding : \E o \in S : o.id = g.id /\ o.dts = g.dts
        BY <1>3, <2>3 DEF Paired
    <2>6. \A g \in a.holding : Rounded(g) = Rounded(h) => g = h
        <3> SUFFICES ASSUME NEW g \in a.holding, Rounded(g) = Rounded(h) PROVE g = h
            OBVIOUS
        <3>1. PICK o \in S : o.id = g.id /\ o.dts = g.dts
            BY DEF Paired
        <3>2. g.id = h.id => g.dts = h.dts
            BY <3>1 DEF DtsById
        <3>3. g \in Lots
            BY DEF Paired
        <3> QED BY <1>1, <3>2, <3>3, RoundedApart
    <2>7. b.holding \ {Rounded(h)} = {Rounded(g) : g \in a.holding \ {h}}
        <3>1. b.holding = {Rounded(g) : g \in a.holding}
            BY DEF Paired, RoundedLots
        <3> QED BY <2>6, <3>1
    <2>8. RoundedLots(B.holding, A.holding)
        <3>1. CASE some
            <4>1. A.holding = (a.holding \ {h}) \cup {g1}
                BY <2>3, <3>1
            <4>2. B.holding = {Rounded(g) : g \in a.holding \ {h}} \cup {Rounded(g1)}
                BY <1>3, <2>3, <2>7, <3>1
            <4> QED BY <4>1, <4>2 DEF RoundedLots
        <3>2. CASE ~some
            BY <2>3, <2>7, <3>2 DEF RoundedLots
        <3> QED BY <3>1, <3>2
    <2>9. Paired(A, B, S)
        BY <2>3, <2>4, <2>5, <2>8 DEF Paired
    <2> QED BY <2>9 DEF A, B
<1> QED BY <1>4, <1>5, <1>1

(* So do any number of rounds.                                             *)
LEMMA LoopsArePaired ==
    ASSUME NEW p, NEW q, p.holding \subseteq Lots, DtsById(p.holding),
           RoundedLots(q.holding, p.holding),
           NEW tr, tr.type_is_sell \in BOOLEAN, tr.qty \in Nat,
           NEW s, NEW t, NEW len \in Nat,
           \A r \in 1..len : s[r] \in p.holding /\ t[r] = Rounded(s[r]),
           NEW x, IsLoopTo(x, p, tr, s, len),
           NEW y, IsLoopTo(y, q, tr, t, len)
    PROVE  \A r \in 0..len : Paired(x[r], y[r], p.holding)
<1> DEFINE Bad == {r \in 0..len : ~Paired(x[r], y[r], p.holding)}
<1>1. 0 \notin Bad
    BY DEF IsLoopTo, Paired, LiquidateStart
<1>2. Bad = {}
    <2> SUFFICES ASSUME Bad # {} PROVE FALSE
        OBVIOUS
    <2> Bad \subseteq Nat
        OBVIOUS
    <2>1. PICK k \in Bad : \A i \in Bad : k <= i
        <3> HIDE DEF Bad
        <3> QED BY MinOfNaturals
    <2>2. k \in 1..len /\ k - 1 \in 0..len /\ k - 1 \notin Bad
        <3>1. k \in 0..len /\ k # 0
            BY <1>1, <2>1
        <3>2. ~(k <= k - 1)
            BY <3>1
        <3> HIDE DEF Bad
        <3> QED BY <2>1, <3>1, <3>2
    <2>3. Paired(x[k - 1], y[k - 1], p.holding) /\ s[k] \in p.holding /\ t[k] = Rounded(s[k])
        BY <2>2
    <2>4. x[k] = LiquidateOne(x[k - 1], s[k], tr) /\ y[k] = LiquidateOne(y[k - 1], Rounded(s[k]), tr)
        BY <2>2, <2>3 DEF IsLoopTo
    <2>5. Paired(x[k], y[k], p.holding)
        BY <2>3, <2>4, RoundsArePaired
    <2> QED BY <2>1, <2>5
<1> QED BY <1>2

(* Frame 2 in both databases.                                              *)
LEMMA FramesArePaired ==
    ASSUME NEW p, NEW q, q.hs = p.hs, NEW k \in Nat, k < MaxTrades, Ready(p, q, k),
           NEW lifo \in BOOLEAN, NEW s \in HoldLists(p, lifo), NEW t \in HoldLists(q, lifo),
           NEW tr, tr.type_is_sell \in BOOLEAN, tr.qty \in Nat, tr.price \in Int, tr.id = k + 1,
           NEW now \in Nat, now >= 1
    PROVE  LET P == Frame2(p, Frame1HsQty(p), tr, s, now)
               Q == Frame2(q, Frame1HsQty(q), tr, t, RoundToSecond(now))
           IN  /\ P.buy_value = Q.buy_value /\ P.sell_value = Q.sell_value
               /\ Q.position.hs = P.position.hs
               /\ RoundedLots(Q.position.holding, P.position.holding)
               /\ DtsById(P.position.holding)
               /\ \A h \in P.position.holding :
                      IF h.id \in 1..MaxTrades THEN h.id <= k + 1 /\ h.dts >= 1 ELSE h.dts <= 0
<1> DEFINE hs == Frame1HsQty(p)
           len == Len(s)
           last == IF Sign(tr) * hs > 0 THEN len ELSE 0
           a == Liquidate(p, hs, tr, s)
           b == Liquidate(q, hs, tr, t)
           rest == -Sign(tr) * a.needed
           new == [id |-> tr.id, dts |-> now, price |-> tr.price, qty |-> rest]
           new2 == [id |-> tr.id, dts |-> RoundToSecond(now), price |-> tr.price, qty |-> rest]
           P == Frame2(p, hs, tr, s, now)
           Q == Frame2(q, hs, tr, t, RoundToSecond(now))
<1>1. /\ p.holding \subseteq Lots /\ IsFiniteSet(p.holding) /\ DtsById(p.holding)
      /\ LotsAfter(p.holding, k) /\ RoundedLots(q.holding, p.holding)
    BY DEF LotsAfter, Ready
<1>2. Frame1HsQty(q) = hs
    BY DEF Frame1HsQty
<1>3. len \in Nat /\ \A r \in 1..len : s[r] \in p.holding
    BY <1>1, ListOfLots
<1>4. Len(t) = len /\ \A r \in 1..len : t[r] = Rounded(s[r])
    <2>1. Len(s) = Len(t) /\ \A i \in 1..Len(s) : t[i] = Rounded(s[i])
        BY ListsCorrespond
    <2> QED BY <2>1
<1>5. PICK x : IsLoopTo(x, p, tr, s, len) /\ a = x[last]
    BY <1>3, LiquidateIsLoop
<1>6. PICK y : IsLoopTo(y, q, tr, t, len) /\ b = y[last]
    BY <1>3, <1>4, LiquidateIsLoop
<1>7. Paired(a, b, p.holding)
    <2>1. \A r \in 0..len : Paired(x[r], y[r], p.holding)
        <3>1. \A r \in 1..len : s[r] \in p.holding /\ t[r] = Rounded(s[r])
            BY <1>3, <1>4
        <3> HIDE DEF len
        <3> QED BY <1>1, <1>3, <1>5, <1>6, <3>1, LoopsArePaired
    <2>2. last \in 0..len
        BY <1>3
    <2> QED BY <1>5, <1>6, <2>1, <2>2
<1>8. /\ P.position = IF a.needed > 0
                      THEN [hs |-> UpdateSummary(p.hs, hs, tr), holding |-> a.holding \cup {new},
                            history |-> a.history \cup {HistoryRow(tr.id, tr.id, 0, rest)}]
                      ELSE [hs |-> IF Sign(tr) * hs = tr.qty THEN NoRow
                                                            ELSE UpdateSummary(p.hs, hs, tr),
                            holding |-> a.holding, history |-> a.history]
      /\ P.buy_value = IF tr.type_is_sell THEN a.held ELSE a.traded
      /\ P.sell_value = IF tr.type_is_sell THEN a.traded ELSE a.held
    BY DEF Frame2
<1>9. /\ Q.position = IF b.needed > 0
                      THEN [hs |-> UpdateSummary(p.hs, hs, tr), holding |-> b.holding \cup {new2},
                            history |-> b.history \cup {HistoryRow(tr.id, tr.id, 0, rest)}]
                      ELSE [hs |-> IF Sign(tr) * hs = tr.qty THEN NoRow
                                                            ELSE UpdateSummary(p.hs, hs, tr),
                            holding |-> b.holding, history |-> b.history]
      /\ Q.buy_value = IF tr.type_is_sell THEN b.held ELSE b.traded
      /\ Q.sell_value = IF tr.type_is_sell THEN b.traded ELSE b.held
    <2>1. b.needed = a.needed
        BY <1>7 DEF Paired
    <2> HIDE DEF a, b
    <2> QED BY <2>1 DEF Frame2, a, b
<1> HIDE DEF a, b, P, Q, hs
<1>10. /\ P.buy_value = Q.buy_value /\ P.sell_value = Q.sell_value
       /\ Q.position.hs = P.position.hs
    BY <1>7, <1>8, <1>9 DEF Paired
<1>11. P.position.holding = IF a.needed > 0 THEN a.holding \cup {new} ELSE a.holding
    BY <1>8
<1>12. Q.position.holding = IF a.needed > 0 THEN b.holding \cup {new2} ELSE b.holding
    BY <1>7, <1>9 DEF Paired
<1>13. Rounded(new) = new2
    <2>1. tr.id \in 1..MaxTrades
        BY BoundsAssumption
    <2> QED BY <2>1 DEF Rounded
<1>14. RoundedLots(Q.position.holding, P.position.holding)
    <2>1. b.holding = {Rounded(g) : g \in a.holding}
        BY <1>7 DEF Paired, RoundedLots
    <2> HIDE DEF new, new2
    <2>2. CASE a.needed > 0
        <3>1. P.position.holding = a.holding \cup {new}
            BY <1>11, <2>2
        <3>2. Q.position.holding = {Rounded(g) : g \in a.holding} \cup {Rounded(new)}
            BY <1>12, <1>13, <2>1, <2>2
        <3> QED BY <3>1, <3>2 DEF RoundedLots
    <2>3. CASE ~(a.needed > 0)
        BY <1>11, <1>12, <2>1, <2>3 DEF RoundedLots
    <2> QED BY <2>2, <2>3
<1>15. \A g \in a.holding : \E o \in p.holding : o.id = g.id /\ o.dts = g.dts
    BY <1>7 DEF Paired
<1>16. \A g \in a.holding : /\ g.id # k + 1
                            /\ IF g.id \in 1..MaxTrades THEN g.id <= k /\ g.dts >= 1 ELSE g.dts <= 0
    <2> SUFFICES ASSUME NEW g \in a.holding
                 PROVE  /\ g.id # k + 1
                        /\ IF g.id \in 1..MaxTrades THEN g.id <= k /\ g.dts >= 1 ELSE g.dts <= 0
        OBVIOUS
    <2>1. PICK o \in p.holding : o.id = g.id /\ o.dts = g.dts
        BY <1>15
    <2>2. IF o.id \in 1..MaxTrades THEN o.id <= k /\ o.dts >= 1 ELSE o.dts <= 0
        BY <1>1 DEF LotsAfter
    <2>3. k + 1 \in 1..MaxTrades
        BY BoundsAssumption
    <2> QED BY <2>1, <2>2, <2>3
<1>17. DtsById(a.holding)
    BY <1>1, <1>15 DEF DtsById
<1>18. new.id = k + 1 /\ new.dts = now
    OBVIOUS
<1> HIDE DEF new
<1>19. DtsById(P.position.holding)
    BY <1>11, <1>16, <1>17, <1>18 DEF DtsById
<1>20. \A h \in P.position.holding :
           IF h.id \in 1..MaxTrades THEN h.id <= k + 1 /\ h.dts >= 1 ELSE h.dts <= 0
    <2> SUFFICES ASSUME NEW h \in P.position.holding
                 PROVE  IF h.id \in 1..MaxTrades THEN h.id <= k + 1 /\ h.dts >= 1 ELSE h.dts <= 0
        OBVIOUS
    <2>1. CASE h \in a.holding
        BY <1>16, <2>1, BoundsAssumption
    <2>2. CASE h = new
        BY <1>18, <2>2, BoundsAssumption
    <2> QED BY <1>11, <2>1, <2>2
<1> QED BY <1>2, <1>10, <1>14, <1>19, <1>20 DEF P, Q, hs

(* The estimates of the client and of plpgsql, where the values agree.     *)
LEMMA EstimatesAgree ==
    ASSUME NEW p, NEW q, q.hs = p.hs, NEW order, NEW s, NEW t,
           TOF3("client", p, order, s).buy_value = TOF3("plpgsql", q, order, t).buy_value,
           TOF3("client", p, order, s).sell_value = TOF3("plpgsql", q, order, t).sell_value,
           TOF3("client", p, order, s).buy_value \in Int,
           TOF3("client", p, order, s).sell_value \in Int
    PROVE  InCents(TOF3("client", p, order, s)) = InCents(TOF3("plpgsql", q, order, t))
<1> DEFINE c == TOF3("client", p, order, s)
           d == TOF3("plpgsql", q, order, t)
           buy == c.buy_value
           sell == c.sell_value
           tax == IF sell > buy /\ order.tax_status \in {1, 2} THEN (sell - buy) * TaxRate ELSE 0
           Estimate(x) == [buy_value |-> buy, sell_value |-> sell, tax_amount |-> x,
                           acct_assets |-> Assets(p, order),
                           requested_price |-> RequestedPrice(order),
                           status_id |-> StatusId(order)]
<1>1. PICK acc : c = Output(acc, Tax(acc, order), p, order)
    BY DEF TOF3, ClientTOF3
<1>2. PICK bcc : d = Output(bcc, HalfUp(Tax(bcc, order)), q, order)
    BY DEF TOF3, PlpgsqlTOF3
<1> HIDE DEF c, d
<1>3. buy = BuyValue(acc, order) /\ sell = SellValue(acc, order)
    BY <1>1 DEF Output
<1>4. d.buy_value = BuyValue(bcc, order) /\ d.sell_value = SellValue(bcc, order)
    BY <1>2 DEF Output
<1>5. buy = BuyValue(bcc, order) /\ sell = SellValue(bcc, order)
    BY <1>4 DEF c, d
<1>6. Tax(acc, order) = tax /\ Tax(bcc, order) = tax
    BY <1>3, <1>5 DEF Tax
<1>7. Assets(q, order) = Assets(p, order)
    BY DEF Assets
<1>8. c = Estimate(tax)
    BY <1>1, <1>3, <1>6 DEF Output
<1>9. d = Estimate(HalfUp(tax))
    BY <1>2, <1>5, <1>6, <1>7 DEF Output
<1>10. tax \in Int
    <2>1. buy \in Int /\ sell \in Int
        BY DEF c
    <2> HIDE DEF buy, sell
    <2>2. (sell - buy) * TaxRate \in Int
        BY <2>1, AmountsAssumption
    <2> QED BY <2>2
<1> HIDE DEF tax, buy, sell
<1>11. HalfUp(HalfUp(tax)) = HalfUp(tax)
    BY <1>10, HalfUpTwice
<1>12. InCents(Estimate(tax)) = Estimate(HalfUp(tax))
    BY DEF InCents
<1>13. InCents(Estimate(HalfUp(tax))) = Estimate(HalfUp(HalfUp(tax)))
    BY DEF InCents
<1> HIDE DEF Estimate
<1> QED BY <1>8, <1>9, <1>11, <1>12, <1>13 DEF c, d

(* A step keeps the two databases in correspondence, and its outputs are   *)
(* the same.                                                               *)
LEMMA PairStep ==
    ASSUME SameInv, RunTrade, {"client", "plpgsql"} \subseteq Impls
    PROVE  /\ PairInv'
           /\ outs'["client"] = outs'["plpgsql"]
           /\ InCents(estimates'["client"]) = InCents(estimates'["plpgsql"])
<1>1. PICK lifo, sell \in BOOLEAN, qty \in 1..MaxQty, kind \in OrderKinds : \E list :
          /\ \A i \in Impls : list[i] \in HoldLists(positions[i], lifo)
          /\ RunOne(lifo, list, sell, qty, kind)
    BY StepOfRunTrade
<1>2. PICK list : /\ \A i \in Impls : list[i] \in HoldLists(positions[i], lifo)
                  /\ RunOne(lifo, list, sell, qty, kind)
    BY <1>1
<1> DEFINE order == OrderOf(n', sell, lifo, qty, kind)
           tr == TradeOf(order, n')
           p == positions["client"]
           q == positions["plpgsql"]
           s == list["client"]
           t == list["plpgsql"]
           now == clock'
           id == n'
           P == Frame2(p, Frame1HsQty(p), tr, s, now)
           Q == Frame2(q, Frame1HsQty(q), tr, t, RoundToSecond(now))
           c == TOF3("client", p, order, s)
           d == TOF3("plpgsql", q, order, t)
<1>3. n < MaxTrades /\ ~tied /\ id = n + 1 /\ n \in Nat /\ id \in Nat
      /\ now \in Nat /\ now >= 1
    BY StepOfRunTrade, TicksAssumption DEF SameInv, LotsInv
<1>4. IsOrder(order)
    BY <1>3, OrderIsTyped
<1>5. /\ positions'["client"] = P.position /\ positions'["plpgsql"] = Q.position
      /\ outs'["client"] = <<P.buy_value, P.sell_value>>
      /\ outs'["plpgsql"] = <<Q.buy_value, Q.sell_value>>
      /\ estimates'["client"] = c /\ estimates'["plpgsql"] = d
    BY <1>2 DEF RunOne, StoredDts
<1>6. s \in HoldLists(p, lifo) /\ t \in HoldLists(q, lifo)
    BY <1>2
<1>7. q.hs = p.hs /\ Ready(p, q, n)
    BY <1>3 DEF SameInv, PairInv, Ready
<1>8. HasLots(p) /\ HasLots(q)
    BY DEF SameInv, LotsInv, HasLots
<1>9. /\ tr.type_is_sell \in BOOLEAN /\ tr.qty \in Nat /\ tr.price \in Int /\ tr.id = n + 1
    BY <1>3, <1>4 DEF TradeOf, IsOrder
<1> HIDE DEF order, p, q, s, t, now, id
<1>10. RoundToSecond(now) \in Int
    BY <1>3, RoundingIsMonotone
<1>11. /\ c.buy_value = P.buy_value /\ c.sell_value = P.sell_value
       /\ P.buy_value \in Int /\ P.sell_value \in Int
       /\ P.position.holding \subseteq Lots /\ IsFiniteSet(P.position.holding)
    <2>0. "client" \in Impls
        OBVIOUS
    <2>1. Foretells(c, Frame2(p, Frame1HsQty(p), TradeOf(order, id), s, now))
        BY <2>0, <1>3, <1>4, <1>6, <1>8, EstimateIsFrame2
    <2> QED BY <2>1 DEF Foretells, id
<1>12. d.buy_value = Q.buy_value /\ d.sell_value = Q.sell_value
    <2>0. "plpgsql" \in Impls
        OBVIOUS
    <2>1. Foretells(d, Frame2(q, Frame1HsQty(q), TradeOf(order, id), t, RoundToSecond(now)))
        BY <2>0, <1>3, <1>4, <1>6, <1>8, <1>10, EstimateIsFrame2
    <2> QED BY <2>1 DEF Foretells, id
<1> HIDE DEF tr
<1>13. /\ P.buy_value = Q.buy_value /\ P.sell_value = Q.sell_value
       /\ Q.position.hs = P.position.hs
       /\ RoundedLots(Q.position.holding, P.position.holding)
       /\ DtsById(P.position.holding)
       /\ \A h \in P.position.holding :
              IF h.id \in 1..MaxTrades THEN h.id <= n + 1 /\ h.dts >= 1 ELSE h.dts <= 0
    BY <1>3, <1>6, <1>7, <1>9, FramesArePaired
<1> HIDE DEF P, Q
<1>14. InCents(c) = InCents(d)
    BY <1>7, <1>11, <1>12, <1>13, EstimatesAgree
<1> HIDE DEF c, d
<1>15. PairInv'
    BY <1>3, <1>5, <1>11, <1>13 DEF PairInv, LotsAfter, id
<1> QED BY <1>5, <1>13, <1>14, <1>15

(* The invariant is kept.                                                  *)
LEMMA SameStep ==
    ASSUME Compared \subseteq {"client", "plpgsql"}, SameInv, [Next]_vars
    PROVE  SameInv'
<1>1. CASE UNCHANGED vars
    BY <1>1 DEF SameInv, LotsInv, PairInv, SameFrameOutput, EstimateComesTrue, vars
<1>2. CASE RunTrade
    <2>1. LotsInv'
        BY LotsStep DEF SameInv
    <2>2. clock' >= 1
        BY <1>2, StepOfRunTrade, TicksAssumption DEF SameInv, LotsInv
    <2>3. (~tied => \A i \in Impls : ~Tied(positions[i]))'
        BY <1>2, StepOfRunTrade
    <2>4. ({"client", "plpgsql"} \subseteq Impls => PairInv)'
        BY <1>2, PairStep
    <2>5. SameFrameOutput'
        <3> SUFFICES ASSUME NEW i \in Compared, NEW j \in Compared
                     PROVE  outs'[i] = outs'[j] /\ InCents(estimates'[i]) = InCents(estimates'[j])
            BY DEF SameFrameOutput
        <3>1. CASE i = j
            BY <3>1
        <3>2. CASE i # j
            <4>1. {"client", "plpgsql"} \subseteq Impls
                BY <3>2, ImplsAssumption
            <4>2. /\ outs'["client"] = outs'["plpgsql"]
                  /\ InCents(estimates'["client"]) = InCents(estimates'["plpgsql"])
                BY <1>2, <4>1, PairStep
            <4>3. i \in {"client", "plpgsql"} /\ j \in {"client", "plpgsql"}
                OBVIOUS
            <4> QED BY <3>2, <4>2, <4>3
        <3> QED BY <3>1, <3>2
    <2> QED BY <2>1, <2>2, <2>3, <2>4, <2>5 DEF SameInv
<1> QED BY <1>1, <1>2 DEF Next

(* It holds of the loaded database.                                        *)
LEMMA SameInit ==
    ASSUME Init
    PROVE  SameInv
<1>1. LotsInv
    BY ImplsAssumption, LoadedAssumption
       DEF Init, LotsInv, EstimateComesTrue, LoadedPosition, NoEstimate
<1>2. clock >= 1
    BY DEF Init
<1>3. ~tied => \A i \in Impls : ~Tied(positions[i])
    BY DEF Init
<1>4. SameFrameOutput
    BY ImplsAssumption DEF Init, SameFrameOutput
<1>5. ASSUME {"client", "plpgsql"} \subseteq Impls PROVE PairInv
    <2> DEFINE S == LoadedLots
    <2>1. /\ positions["client"] = LoadedPosition /\ positions["plpgsql"] = LoadedPosition
          /\ LoadedPosition.holding = S
        BY <1>5 DEF Init, LoadedPosition
    <2>2. \A h \in S : h.id \notin 1..MaxTrades /\ h.dts <= 0
        BY LoadedAssumption
    <2>3. LotsAfter(S, n)
        <3>1. DtsById(S)
            BY LoadedAssumption DEF DtsById
        <3> QED BY <2>2, <3>1, LoadedAssumption DEF LotsAfter
    <2>4. \A h \in S : Rounded(h) = h
        BY <2>2 DEF Rounded
    <2>5. RoundedLots(S, S)
        BY <2>4 DEF RoundedLots
    <2> QED BY <2>1, <2>3, <2>5 DEF PairInv
<1> QED BY <1>1, <1>2, <1>3, <1>4, <1>5 DEF SameInv

(* "The two must produce the same frame output": the client and plpgsql    *)
(* report the same estimates, to the cent, and the same buy_value and      *)
(* sell_value, trade after trade, as long as time stamps tell the holdings *)
(* apart.  With the C functions among the compared the run frame2_c shows  *)
(* that it is false.                                                       *)
THEOREM PlpgsqlIsClient ==
    ASSUME Compared \subseteq {"client", "plpgsql"}
    PROVE  Spec => []SameFrameOutput
<1>1. Init => SameInv
    BY SameInit
<1>2. SameInv /\ [Next]_vars => SameInv'
    BY SameStep
<1>3. SameInv => SameFrameOutput
    BY DEF SameInv
<1> QED BY <1>1, <1>2, <1>3, PTL DEF Spec

=============================================================================
