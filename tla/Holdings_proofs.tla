--------------------------- MODULE Holdings_proofs ---------------------------
(***************************************************************************)
(* Trade-Results on one position, for any number of trades, any quantities *)
(* and any number of retries: the summary row is the sum of the holdings,  *)
(* the position is long or short, the history is a ledger, and the values  *)
(* are those of the reference.                                             *)
(*                                                                         *)
(* Two arguments meet here.  Frame 2, run alone on a sound position, leaves*)
(* a sound position (Frame2IsSound, by an invariant of its loop); and the  *)
(* concurrent transactions commit as if they had run alone: what is about  *)
(* to be committed was computed from the position it replaces (FrameInv).  *)
(***************************************************************************)
EXTENDS Holdings, SetTheorems

(* A row of holding_history.                                               *)
Rows == [hh_h_t_id : Int, hh_t_id : Int, before : Int, after : Int]

Positions == [hs : Int \cup {NoRow}, holding : SUBSET Lots, history : SUBSET Rows]

(* The input of a Trade-Result.                                            *)
Inputs == [id : 0..MaxTrades, type_is_sell : BOOLEAN, is_lifo : BOOLEAN,
           qty : 0..MaxQty, price : Int]

(* The rows a trade wrote, and the rows about a holding.                   *)
RowsBy(history, t) == {r \in history : r.hh_t_id = t}

RowsAbout(history, id) == {r \in history : r.hh_h_t_id = id}

(* Holdings are told apart by their trades.                                *)
UniqueIds(holding) == \A h, k \in holding : h.id = k.id => h = k

(* A position that the completed trades of D have led to.                  *)
SoundPosition(p, D) ==
    /\ p \in Positions
    /\ IsFiniteSet(p.holding) /\ IsFiniteSet(p.history)
    /\ UniqueIds(p.holding)
    /\ (\A h \in p.holding : h.qty > 0) \/ (\A h \in p.holding : h.qty < 0)
    /\ Frame1HsQty(p) = SumQty(p.holding)
    /\ p.hs = NoRow <=> p.holding = {}
    /\ \A r \in p.history : r.hh_t_id \in D /\ (r.hh_h_t_id \in Trades => r.hh_h_t_id \in D)
    /\ \A h \in p.holding : h.id \in Trades =>
           h.id \in D /\ Changed(RowsAbout(p.history, h.id)) = h.qty

-----------------------------------------------------------------------------
(* The invariant.                                                          *)

Done == {t \in Trades : pc[t] = "done"}

ShapeInv ==
    /\ clock \in Nat
    /\ trade \in [Trades -> Inputs]
    /\ pc \in [Trades -> {"idle", "ready", "begun", "frame1", "frame2", "done", "failed"}]
    /\ nRetries \in [Trades -> 0..(iMaxRetries + 1)]
    /\ began \in [Trades -> Nat]
    /\ DOMAIN snapshot = Trades
    /\ DOMAIN result = Trades
    /\ \A t \in Trades :
        /\ began[t] <= clock
        /\ pc[t] # "idle" => trade[t].id = t /\ trade[t].qty > 0
        /\ pc[t] # "failed" => nRetries[t] <= iMaxRetries

(* A snapshot that is not stale shows the committed position.              *)
SnapshotInv ==
    \A t \in Trades : pc[t] \in {"frame1", "frame2"} =>
        /\ snapshot[t].version \in 0..version
        /\ snapshot[t].version = version => snapshot[t].position = position

(* At most one transaction has run Frame 2, and from the position that is  *)
(* still the committed one.                                                *)
FrameInv ==
    /\ \A t, u \in Trades : pc[t] = "frame2" /\ pc[u] = "frame2" => t = u
    /\ \A t \in Trades : pc[t] = "frame2" =>
        \E list \in HoldLists(position, trade[t].is_lifo) :
            result[t] = Frame2(position, Frame1HsQty(position), trade[t], list,
                               StoredDts(Impl, began[t]))

PositionInv ==
    /\ SoundPosition(position, Done)
    /\ version = Cardinality(Done)
    /\ \A t \in Done :
        Changed(RowsBy(position.history, t)) = -Sign(trade[t]) * trade[t].qty

HoldingsInv == ShapeInv /\ SnapshotInv /\ FrameInv /\ PositionInv

-----------------------------------------------------------------------------
(* Sums of shares and of changes.                                          *)

QtyOf == [h \in Lots |-> h.qty]

ChangeOf == [r \in Rows |-> r.after - r.before]

(* SumQty is the sum of the function QtyOf.                                *)
LEMMA SumQtyIsSum ==
    ASSUME NEW H \in SUBSET Lots, IsFiniteSet(H)
    PROVE  SumQty(H) = SumOver(QtyOf, H)
<1> DEFINE It == CHOOSE g : g = [s \in SUBSET H |-> IF s = {} THEN 0
                     ELSE (CHOOSE x \in s : TRUE).qty + g[s \ {CHOOSE x \in s : TRUE}]]
<1>1. SumQty(H) = It[H]
    BY DEF SumQty, MapThenSumSet, MapThenFoldSet
<1>2. \A x \in H : QtyOf[x] = x.qty /\ QtyOf[x] \in Int
    BY DEF QtyOf, Lots
<1>3. \A s \in SUBSET H : s # {} => (CHOOSE x \in s : TRUE) \in H
    BY Zenon
<1>4. ASSUME NEW g
      PROVE  Tabulates(g, QtyOf, H) <=>
             g = [s \in SUBSET H |-> IF s = {} THEN 0
                     ELSE (CHOOSE x \in s : TRUE).qty + g[s \ {CHOOSE x \in s : TRUE}]]
    <2>1. \A s \in SUBSET H : s # {} =>
              QtyOf[CHOOSE x \in s : TRUE] = (CHOOSE x \in s : TRUE).qty
        BY <1>2, <1>3
    <2> QED BY <2>1 DEF Tabulates, One
<1>5. PICK g : Tabulates(g, QtyOf, H) /\ SumOver(QtyOf, H) = g[H]
    BY <1>2, SumFromTable
<1>6. \E f : f = [s \in SUBSET H |-> IF s = {} THEN 0
                     ELSE (CHOOSE x \in s : TRUE).qty + f[s \ {CHOOSE x \in s : TRUE}]]
    <2>1. g = [s \in SUBSET H |-> IF s = {} THEN 0
                     ELSE (CHOOSE x \in s : TRUE).qty + g[s \ {CHOOSE x \in s : TRUE}]]
        BY <1>4, <1>5, Zenon
    <2> QED BY <2>1, Zenon
<1>7. It = [s \in SUBSET H |-> IF s = {} THEN 0
                     ELSE (CHOOSE x \in s : TRUE).qty + It[s \ {CHOOSE x \in s : TRUE}]]
    BY <1>6, Zenon
<1>8. Tabulates(It, QtyOf, H)
    BY <1>4, <1>7
<1> HIDE DEF It
<1>9. g[H] = It[H]
    BY <1>2, <1>5, <1>8, OneTable
<1> QED BY <1>1, <1>5, <1>9

(* Changed is the sum of the function ChangeOf.                            *)
LEMMA ChangedIsSum ==
    ASSUME NEW R \in SUBSET Rows, IsFiniteSet(R)
    PROVE  Changed(R) = SumOver(ChangeOf, R)
<1> DEFINE It == CHOOSE g : g = [s \in SUBSET R |-> IF s = {} THEN 0
                     ELSE ((CHOOSE x \in s : TRUE).after - (CHOOSE x \in s : TRUE).before)
                          + g[s \ {CHOOSE x \in s : TRUE}]]
<1>1. Changed(R) = It[R]
    BY DEF Changed, MapThenSumSet, MapThenFoldSet
<1>2. \A x \in R : ChangeOf[x] = x.after - x.before /\ ChangeOf[x] \in Int
    BY DEF ChangeOf, Rows
<1>3. \A s \in SUBSET R : s # {} => (CHOOSE x \in s : TRUE) \in R
    BY Zenon
<1>4. ASSUME NEW g
      PROVE  Tabulates(g, ChangeOf, R) <=>
             g = [s \in SUBSET R |-> IF s = {} THEN 0
                     ELSE ((CHOOSE x \in s : TRUE).after - (CHOOSE x \in s : TRUE).before)
                          + g[s \ {CHOOSE x \in s : TRUE}]]
    <2>1. \A s \in SUBSET R : s # {} =>
              ChangeOf[CHOOSE x \in s : TRUE]
                  = (CHOOSE x \in s : TRUE).after - (CHOOSE x \in s : TRUE).before
        BY <1>2, <1>3
    <2> QED BY <2>1 DEF Tabulates, One
<1>5. PICK g : Tabulates(g, ChangeOf, R) /\ SumOver(ChangeOf, R) = g[R]
    BY <1>2, SumFromTable
<1>6. \E f : f = [s \in SUBSET R |-> IF s = {} THEN 0
                     ELSE ((CHOOSE x \in s : TRUE).after - (CHOOSE x \in s : TRUE).before)
                          + f[s \ {CHOOSE x \in s : TRUE}]]
    <2>1. g = [s \in SUBSET R |-> IF s = {} THEN 0
                     ELSE ((CHOOSE x \in s : TRUE).after - (CHOOSE x \in s : TRUE).before)
                          + g[s \ {CHOOSE x \in s : TRUE}]]
        BY <1>4, <1>5, Zenon
    <2> QED BY <2>1, Zenon
<1>7. It = [s \in SUBSET R |-> IF s = {} THEN 0
                     ELSE ((CHOOSE x \in s : TRUE).after - (CHOOSE x \in s : TRUE).before)
                          + It[s \ {CHOOSE x \in s : TRUE}]]
    BY <1>6, Zenon
<1>8. Tabulates(It, ChangeOf, R)
    BY <1>4, <1>7
<1> HIDE DEF It
<1>9. g[R] = It[R]
    BY <1>2, <1>5, <1>8, OneTable
<1> QED BY <1>1, <1>5, <1>9

(* The shares of a set of lots: an integer, zero only for no lots when     *)
(* they are on one side.                                                   *)
LEMMA SharesOfLots ==
    ASSUME NEW H \in SUBSET Lots, IsFiniteSet(H)
    PROVE  /\ SumQty(H) \in Int
           /\ H = {} => SumQty(H) = 0
           /\ H # {} /\ (\A h \in H : h.qty > 0) => SumQty(H) > 0
           /\ H # {} /\ (\A h \in H : h.qty < 0) => SumQty(H) < 0
           /\ \A h \in H : SumQty(H) = h.qty + SumQty(H \ {h})
<1>1. \A x \in H : QtyOf[x] = x.qty /\ QtyOf[x] \in Int
    BY DEF QtyOf, Lots
<1>2. SumQty(H) = SumOver(QtyOf, H)
    BY SumQtyIsSum
<1>3. \A h \in H : SumQty(H \ {h}) = SumOver(QtyOf, H \ {h})
    BY SumQtyIsSum, FS_RemoveElement
<1>4. /\ SumOver(QtyOf, H) \in Int
      /\ H = {} => SumOver(QtyOf, H) = 0
      /\ \A x \in H : SumOver(QtyOf, H) = QtyOf[x] + SumOver(QtyOf, H \ {x})
    BY <1>1, SumOfSet
<1>5. H # {} => /\ (\A x \in H : QtyOf[x] > 0) => SumOver(QtyOf, H) > 0
                /\ (\A x \in H : QtyOf[x] < 0) => SumOver(QtyOf, H) < 0
    BY <1>1, SumSign
<1> QED BY <1>1, <1>2, <1>3, <1>4, <1>5

(* One more lot adds its shares.                                           *)
LEMMA SharesOfOneMore ==
    ASSUME NEW H \in SUBSET Lots, IsFiniteSet(H), NEW x \in Lots, x \notin H
    PROVE  SumQty(H \cup {x}) = SumQty(H) + x.qty
<1>1. \A y \in H \cup {x} : QtyOf[y] = y.qty /\ QtyOf[y] \in Int
    BY DEF QtyOf, Lots
<1>2. IsFiniteSet(H \cup {x}) /\ H \cup {x} \in SUBSET Lots
    BY FS_AddElement
<1>3. SumOver(QtyOf, H \cup {x}) = QtyOf[x] + SumOver(QtyOf, H)
    BY <1>1, SumAddElement
<1>4. SumQty(H) = SumOver(QtyOf, H) /\ SumQty(H \cup {x}) = SumOver(QtyOf, H \cup {x})
    BY <1>2, SumQtyIsSum
<1>5. SumQty(H) \in Int /\ x.qty \in Int
    BY SharesOfLots DEF Lots
<1> QED BY <1>1, <1>3, <1>4, <1>5

(* What a set of history rows adds up to, and one row more.                *)
LEMMA ChangesOfRows ==
    ASSUME NEW R \in SUBSET Rows, IsFiniteSet(R)
    PROVE  /\ Changed(R) \in Int
           /\ R = {} => Changed(R) = 0
           /\ \A x \in Rows \ R : Changed(R \cup {x}) = Changed(R) + (x.after - x.before)
<1>1. \A x \in Rows : ChangeOf[x] = x.after - x.before /\ ChangeOf[x] \in Int
    BY DEF ChangeOf, Rows
<1>2. Changed(R) = SumOver(ChangeOf, R)
    BY ChangedIsSum
<1>3. SumOver(ChangeOf, R) \in Int /\ (R = {} => SumOver(ChangeOf, R) = 0)
    BY <1>1, SumOfSet
<1>4. ASSUME NEW x \in Rows \ R
      PROVE  Changed(R \cup {x}) = Changed(R) + (x.after - x.before)
    <2>1. IsFiniteSet(R \cup {x}) /\ R \cup {x} \in SUBSET Rows
        BY FS_AddElement
    <2>2. SumOver(ChangeOf, R \cup {x}) = ChangeOf[x] + SumOver(ChangeOf, R)
        BY <1>1, SumAddElement
    <2>3. Changed(R \cup {x}) = SumOver(ChangeOf, R \cup {x})
        BY <2>1, ChangedIsSum
    <2> QED BY <1>1, <1>2, <1>3, <2>2, <2>3
<1> QED BY <1>2, <1>3, <1>4

-----------------------------------------------------------------------------
(* The loop of Frame 2.                                                    *)

Start(p, tr) ==
    [needed |-> tr.qty, holding |-> p.holding, history |-> p.history, held |-> 0, traded |-> 0]

(* acc lists what the loop has after each round, up to round n.            *)
IsLoopTo(acc, p, tr, list, n) ==
    /\ acc[0] = Start(p, tr)
    /\ \A i \in 1..n : acc[i] = LiquidateOne(acc[i - 1], list[i], tr)

(* The recursion of Liquidate has a solution, so that Liquidate is what    *)
(* the last round leaves, or the start if the loop is not entered.         *)
LEMMA LiquidateIsLoop ==
    ASSUME NEW p, NEW tr, NEW list, Len(list) \in Nat, NEW hs_qty
    PROVE  \E acc : /\ IsLoopTo(acc, p, tr, list, Len(list))
                    /\ Liquidate(p, hs_qty, tr, list)
                           = acc[IF Sign(tr) * hs_qty > 0 THEN Len(list) ELSE 0]
<1> DEFINE n == Len(list)
           It == CHOOSE acc : acc = [i \in 0..Len(list) |->
                     IF i = 0
                     THEN [needed |-> tr.qty, holding |-> p.holding,
                           history |-> p.history, held |-> 0, traded |-> 0]
                     ELSE LiquidateOne(acc[i - 1], list[i], tr)]
           Bad == {k \in Nat : k <= n /\ ~\E acc : IsLoopTo(acc, p, tr, list, k)}
<1>1. 0 \notin Bad
    <2>1. IsLoopTo([i \in {0} |-> Start(p, tr)], p, tr, list, 0)
        BY DEF IsLoopTo
    <2> QED BY <2>1
<1>2. Bad = {}
    <2> SUFFICES ASSUME Bad # {} PROVE FALSE
        OBVIOUS
    <2>1. PICK k \in Bad : \A y \in Bad : k <= y
        BY MinOfNaturals
    <2>2. k \in Nat /\ k # 0 /\ k <= n
        BY <1>1, <2>1
    <2>3. k - 1 \in Nat /\ k - 1 <= n /\ k - 1 \notin Bad
        <3> HIDE DEF Bad
        <3> QED BY <2>1, <2>2
    <2>4. PICK acc : IsLoopTo(acc, p, tr, list, k - 1)
        BY <2>3
    <2> DEFINE more == [i \in 0..k |-> IF i = k THEN LiquidateOne(acc[k - 1], list[k], tr)
                                                ELSE acc[i]]
    <2>5. more[0] = Start(p, tr)
        BY <2>2, <2>4 DEF IsLoopTo
    <2>6. ASSUME NEW i \in 1..k
          PROVE  more[i] = LiquidateOne(more[i - 1], list[i], tr)
        <3>1. more[i - 1] = acc[i - 1]
            BY <2>2
        <3>2. CASE i = k
            BY <2>2, <3>1, <3>2
        <3>3. CASE i # k
            <4>1. i \in 1..(k - 1)
                BY <2>2, <3>3
            <4>2. more[i] = acc[i]
                BY <2>2, <3>3
            <4> QED BY <2>4, <3>1, <4>1, <4>2 DEF IsLoopTo
        <3> QED BY <3>2, <3>3
    <2>7. IsLoopTo(more, p, tr, list, k)
        BY <2>5, <2>6, Zenon DEF IsLoopTo
    <2> QED BY <2>1, <2>7
<1>3. PICK acc : IsLoopTo(acc, p, tr, list, n)
    BY <1>2
<1> DEFINE table == [i \in 0..n |-> acc[i]]
<1>4. table = [i \in 0..Len(list) |->
                     IF i = 0
                     THEN [needed |-> tr.qty, holding |-> p.holding,
                           history |-> p.history, held |-> 0, traded |-> 0]
                     ELSE LiquidateOne(table[i - 1], list[i], tr)]
    <2>1. \A i \in 0..n : i # 0 => i \in 1..n /\ table[i - 1] = acc[i - 1]
        OBVIOUS
    <2>2. \A i \in 0..n : i # 0 => table[i] = LiquidateOne(table[i - 1], list[i], tr)
        BY <1>3, <2>1 DEF IsLoopTo
    <2>3. table[0] = [needed |-> tr.qty, holding |-> p.holding,
                      history |-> p.history, held |-> 0, traded |-> 0]
        BY <1>3 DEF IsLoopTo, Start
    <2>4. table = [i \in 0..n |-> table[i]]
        OBVIOUS
    <2> HIDE DEF table
    <2> QED BY <2>2, <2>3, <2>4
<1>5. It = [i \in 0..Len(list) |->
                     IF i = 0
                     THEN [needed |-> tr.qty, holding |-> p.holding,
                           history |-> p.history, held |-> 0, traded |-> 0]
                     ELSE LiquidateOne(It[i - 1], list[i], tr)]
    BY <1>4, Zenon
<1>6. Liquidate(p, hs_qty, tr, list) = It[IF Sign(tr) * hs_qty > 0 THEN Len(list) ELSE 0]
    BY DEF Liquidate
<1> HIDE DEF It
<1>7. IsLoopTo(It, p, tr, list, n)
    <2>1. It[0] = Start(p, tr)
        BY <1>5 DEF Start
    <2>2. \A i \in 1..n : It[i] = LiquidateOne(It[i - 1], list[i], tr)
        BY <1>5
    <2> QED BY <2>1, <2>2 DEF IsLoopTo
<1> QED BY <1>6, <1>7

(* One round, as arithmetic: some of the shares needed are used, and the   *)
(* lot goes away or keeps the rest, on the same side.                      *)
LEMMA OneRound ==
    ASSUME NEW a, a.needed \in Nat, a.needed > 0,
           NEW tr, tr.type_is_sell \in BOOLEAN,
           NEW h \in Lots, Sign(tr) * h.qty > 0
    PROVE  \E used, left \in Int :
               /\ used > 0 /\ used <= a.needed
               /\ left = h.qty - Sign(tr) * used
               /\ LiquidateOne(a, h, tr).needed = a.needed - used
               /\ LiquidateOne(a, h, tr).history =
                      a.history \cup {HistoryRow(h.id, tr.id, h.qty, left)}
               /\ \/ /\ left = 0
                     /\ LiquidateOne(a, h, tr).holding = a.holding \ {h}
                  \/ /\ Sign(tr) * left > 0 /\ used = a.needed
                     /\ LiquidateOne(a, h, tr).holding =
                            (a.holding \ {h}) \cup {[h EXCEPT !.qty = left]}
<1> DEFINE have == Sign(tr) * h.qty
           some == have > a.needed
           used == IF some THEN a.needed ELSE have
           left == IF some THEN h.qty - Sign(tr) * a.needed ELSE 0
<1>1. h.qty \in Int /\ (Sign(tr) = 1 \/ Sign(tr) = -1)
    BY DEF Lots, Sign
<1>2. /\ LiquidateOne(a, h, tr).needed = a.needed - used
      /\ LiquidateOne(a, h, tr).history =
             a.history \cup {HistoryRow(h.id, tr.id, h.qty, left)}
      /\ LiquidateOne(a, h, tr).holding =
             (a.holding \ {h}) \cup (IF some THEN {[h EXCEPT !.qty = left]} ELSE {})
    BY DEF LiquidateOne
<1>3. /\ used \in Int /\ left \in Int
      /\ used > 0 /\ used <= a.needed
      /\ left = h.qty - Sign(tr) * used
      /\ some => Sign(tr) * left > 0 /\ used = a.needed
      /\ ~some => left = 0
    <2>1. CASE Sign(tr) = 1
        BY <1>1, <2>1
    <2>2. CASE Sign(tr) = -1
        BY <1>1, <2>2
    <2> QED BY <1>1, <2>1, <2>2
<1>4. LiquidateOne(a, h, tr).holding =
          IF some THEN (a.holding \ {h}) \cup {[h EXCEPT !.qty = left]} ELSE a.holding \ {h}
    BY <1>2
<1> HIDE DEF used, left, some
<1> QED BY <1>2, <1>3, <1>4

-----------------------------------------------------------------------------
(* The invariant of the loop.                                              *)

(* The lots that the rounds after i will look at.                          *)
Rest(list, i) == {list[j] : j \in (i + 1)..Len(list)}

(* Trade tr, which is not among those of D, meets lots it can use, in the  *)
(* order of list.                                                          *)
Usable(p, D, tr, list) ==
    /\ SoundPosition(p, D)
    /\ tr.id \in Trades \ D /\ tr.type_is_sell \in BOOLEAN
    /\ tr.qty \in Nat /\ tr.price \in Int
    /\ \A h \in p.holding : Sign(tr) * h.qty > 0
    /\ Len(list) \in Nat
    /\ \A i \in 1..Len(list) : list[i] \in p.holding
    /\ \A i, j \in 1..Len(list) : i # j => list[i] # list[j]
    /\ \A h \in p.holding : \E i \in 1..Len(list) : h = list[i]

(* What is still needed is what the lots have not given; as long as        *)
(* something is, the lots seen are gone and the others are as they were.   *)
LotsInv(a, i, p, tr, list) ==
    /\ a.needed \in 0..tr.qty
    /\ a.holding \in SUBSET Lots /\ IsFiniteSet(a.holding) /\ UniqueIds(a.holding)
    /\ \A h \in a.holding : Sign(tr) * h.qty > 0
    /\ \A h \in a.holding : \E k \in p.holding : k.id = h.id
    /\ Rest(list, i) \subseteq a.holding
    /\ a.needed > 0 => a.holding = Rest(list, i)
    /\ SumQty(a.holding) = SumQty(p.holding) - Sign(tr) * (tr.qty - a.needed)

(* The rows written so far are of lots already seen.                       *)
RowsInv(a, i, p, tr, list) ==
    /\ a.history \in SUBSET Rows /\ IsFiniteSet(a.history)
    /\ p.history \subseteq a.history
    /\ \A r \in a.history \ p.history :
           r.hh_t_id = tr.id /\ \E j \in 1..i : r.hh_h_t_id = list[j].id
    /\ Changed(RowsBy(a.history, tr.id)) = -Sign(tr) * (tr.qty - a.needed)
    /\ \A h \in a.holding : h.id \in Trades =>
           Changed(RowsAbout(a.history, h.id)) = h.qty

(* The lots after one more round.                                          *)
LEMMA RoundKeepsLots ==
    ASSUME NEW p, NEW D, NEW tr, NEW list, Usable(p, D, tr, list),
           NEW i \in 1..Len(list), NEW a, LotsInv(a, i - 1, p, tr, list)
    PROVE  LotsInv(LiquidateOne(a, list[i], tr), i, p, tr, list)
<1> DEFINE h == list[i]
           b == LiquidateOne(a, h, tr)
<1>1. Len(list) \in Nat /\ tr.qty \in Nat /\ a.needed \in 0..tr.qty
      /\ (Sign(tr) = 1 \/ Sign(tr) = -1)
    BY DEF Usable, LotsInv, Sign
<1>2. Rest(list, i - 1) = Rest(list, i) \cup {h}
    BY <1>1 DEF Rest
<1>3. h \notin Rest(list, i)
    BY <1>1 DEF Rest, Usable
<1>4. h \in a.holding /\ h \in Lots /\ Sign(tr) * h.qty > 0
    BY <1>2 DEF LotsInv
<1>5. ASSUME a.needed <= 0
      PROVE  LotsInv(b, i, p, tr, list)
    <2>1. b = a
        BY <1>5 DEF LiquidateOne
    <2>2. a.needed = 0
        BY <1>1, <1>5
    <2> HIDE DEF b
    <2> QED BY <1>2, <2>1, <2>2 DEF LotsInv
<1>6. ASSUME a.needed > 0
      PROVE  LotsInv(b, i, p, tr, list)
    <2>1. PICK used, left \in Int :
               /\ used > 0 /\ used <= a.needed
               /\ left = h.qty - Sign(tr) * used
               /\ b.needed = a.needed - used
               /\ b.history = a.history \cup {HistoryRow(h.id, tr.id, h.qty, left)}
               /\ \/ left = 0 /\ b.holding = a.holding \ {h}
                  \/ /\ Sign(tr) * left > 0 /\ used = a.needed
                     /\ b.holding = (a.holding \ {h}) \cup {[h EXCEPT !.qty = left]}
        <3>1. a.needed \in Nat /\ tr.type_is_sell \in BOOLEAN
            BY <1>1 DEF Usable
        <3> HIDE DEF h
        <3> QED BY <1>4, <1>6, <3>1, OneRound
    <2> HIDE DEF h, b
    <2> DEFINE k == [h EXCEPT !.qty = left]
    <2>2. k \in Lots /\ k.id = h.id /\ k.qty = left
        BY <1>4 DEF Lots
    <2> HIDE DEF k
    <2>3. a.holding = Rest(list, i) \cup {h}
        BY <1>2, <1>6 DEF LotsInv
    <2>4. a.holding \ {h} = Rest(list, i)
        BY <1>3, <2>3
    <2>5. Rest(list, i) \in SUBSET Lots /\ IsFiniteSet(Rest(list, i))
          /\ UniqueIds(Rest(list, i))
        BY <2>3, <2>4, FS_RemoveElement DEF LotsInv, UniqueIds
    <2>6. \A x \in Rest(list, i) : x.id # h.id
        BY <1>3, <1>4, <2>3 DEF LotsInv, UniqueIds
    <2>7. SumQty(a.holding) = h.qty + SumQty(Rest(list, i)) /\ SumQty(Rest(list, i)) \in Int
          /\ h.qty \in Int
        <3>1. a.holding \in SUBSET Lots /\ IsFiniteSet(a.holding)
            BY DEF LotsInv
        <3>2. SumQty(a.holding) = h.qty + SumQty(a.holding \ {h})
            BY <1>4, <3>1, SharesOfLots
        <3>3. SumQty(Rest(list, i)) \in Int
            BY <2>5, SharesOfLots
        <3> QED BY <1>4, <2>4, <3>2, <3>3 DEF Lots
    <2>8. b.needed \in 0..tr.qty
        BY <1>1, <2>1
    <2>9. SumQty(p.holding) \in Int
          /\ SumQty(a.holding) = SumQty(p.holding) - Sign(tr) * (tr.qty - a.needed)
        BY SharesOfLots DEF Usable, SoundPosition, Positions, LotsInv
    <2>12. SumQty(Rest(list, i)) + left
               = SumQty(p.holding) - Sign(tr) * (tr.qty - (a.needed - used))
        <3>1. PICK others \in Int, total \in Int, qty \in Int, needed \in Int, lot \in Int :
                  /\ others = SumQty(Rest(list, i)) /\ total = SumQty(p.holding)
                  /\ qty = tr.qty /\ needed = a.needed /\ lot = h.qty
            BY <1>1, <2>7, <2>9
        <3>2. left = lot - Sign(tr) * used /\ lot + others = total - Sign(tr) * (qty - needed)
            BY <2>1, <2>7, <2>9, <3>1
        <3>3. others + left = total - Sign(tr) * (qty - (needed - used))
            <4>1. CASE Sign(tr) = 1
                BY <3>2, <4>1
            <4>2. CASE Sign(tr) = -1
                BY <3>2, <4>2
            <4> QED BY <1>1, <4>1, <4>2
        <3> QED BY <3>1, <3>3
    <2>10. CASE left = 0 /\ b.holding = a.holding \ {h}
        <3>1. b.holding = Rest(list, i)
            BY <2>4, <2>10
        <3>2. SumQty(b.holding) = SumQty(p.holding) - Sign(tr) * (tr.qty - b.needed)
            <4>1. SumQty(Rest(list, i)) + 0 = SumQty(Rest(list, i))
                BY <2>7
            <4> QED BY <2>1, <2>10, <2>12, <3>1, <4>1
        <3> QED BY <2>3, <2>5, <2>8, <3>1, <3>2 DEF LotsInv
    <2>11. CASE /\ Sign(tr) * left > 0 /\ used = a.needed
                /\ b.holding = (a.holding \ {h}) \cup {k}
        <3>1. b.holding = Rest(list, i) \cup {k} /\ k \notin Rest(list, i)
            BY <2>2, <2>4, <2>6, <2>11
        <3>2. SumQty(b.holding) = SumQty(Rest(list, i)) + left
            BY <2>2, <2>5, <3>1, SharesOfOneMore
        <3>3. SumQty(b.holding) = SumQty(p.holding) - Sign(tr) * (tr.qty - b.needed)
            BY <1>1, <2>1, <2>12, <3>2
        <3>4. b.holding \in SUBSET Lots /\ IsFiniteSet(b.holding)
            BY <2>2, <2>5, <3>1, FS_AddElement
        <3>5. UniqueIds(b.holding)
            BY <2>2, <2>5, <2>6, <3>1 DEF UniqueIds
        <3>6. \A x \in b.holding : Sign(tr) * x.qty > 0
            BY <2>2, <2>3, <2>11, <3>1 DEF LotsInv
        <3>7. \A x \in b.holding : \E y \in p.holding : y.id = x.id
            BY <1>4, <2>2, <2>3, <3>1 DEF LotsInv
        <3>8. b.needed = 0
            BY <1>1, <2>1, <2>11
        <3> QED BY <2>8, <3>1, <3>3, <3>4, <3>5, <3>6, <3>7, <3>8 DEF LotsInv
    <2> QED BY <2>1, <2>10, <2>11 DEF k, b, h
<1>7. LotsInv(b, i, p, tr, list)
    BY <1>1, <1>5, <1>6
<1> QED BY <1>7

(* The rows of one trade, or about one lot, when a row is added.           *)
LEMMA OneMoreRow ==
    ASSUME NEW R \in SUBSET Rows, IsFiniteSet(R), NEW x \in Rows, x \notin R, NEW t
    PROVE  /\ Changed(RowsBy(R, t)) \in Int
           /\ Changed(RowsAbout(R, t)) \in Int
           /\ x.hh_t_id # t => RowsBy(R \cup {x}, t) = RowsBy(R, t)
           /\ x.hh_t_id = t =>
                  Changed(RowsBy(R \cup {x}, t)) = Changed(RowsBy(R, t)) + (x.after - x.before)
           /\ x.hh_h_t_id # t => RowsAbout(R \cup {x}, t) = RowsAbout(R, t)
           /\ x.hh_h_t_id = t =>
                  Changed(RowsAbout(R \cup {x}, t))
                      = Changed(RowsAbout(R, t)) + (x.after - x.before)
<1>1. RowsBy(R, t) \in SUBSET R /\ RowsAbout(R, t) \in SUBSET R
    BY DEF RowsBy, RowsAbout
<1>2. IsFiniteSet(RowsBy(R, t)) /\ IsFiniteSet(RowsAbout(R, t))
    BY <1>1, FS_Subset
<1>3. Changed(RowsBy(R, t)) \in Int /\ Changed(RowsAbout(R, t)) \in Int
    BY <1>1, <1>2, ChangesOfRows
<1>4. /\ x.hh_t_id # t => RowsBy(R \cup {x}, t) = RowsBy(R, t)
      /\ x.hh_t_id = t => RowsBy(R \cup {x}, t) = RowsBy(R, t) \cup {x}
    BY DEF RowsBy
<1>5. /\ x.hh_h_t_id # t => RowsAbout(R \cup {x}, t) = RowsAbout(R, t)
      /\ x.hh_h_t_id = t => RowsAbout(R \cup {x}, t) = RowsAbout(R, t) \cup {x}
    BY DEF RowsAbout
<1>6. /\ Changed(RowsBy(R, t) \cup {x}) = Changed(RowsBy(R, t)) + (x.after - x.before)
      /\ Changed(RowsAbout(R, t) \cup {x}) = Changed(RowsAbout(R, t)) + (x.after - x.before)
    <2>1. x \in Rows \ RowsBy(R, t) /\ x \in Rows \ RowsAbout(R, t)
        BY <1>1
    <2>2. RowsBy(R, t) \in SUBSET Rows /\ RowsAbout(R, t) \in SUBSET Rows
        BY <1>1
    <2> QED BY <1>2, <2>1, <2>2, ChangesOfRows
<1> QED BY <1>3, <1>4, <1>5, <1>6, Zenon

(* The history after one more round.                                       *)
LEMMA RoundKeepsRows ==
    ASSUME NEW p, NEW D, NEW tr, NEW list, Usable(p, D, tr, list),
           NEW i \in 1..Len(list), NEW a, LotsInv(a, i - 1, p, tr, list),
           RowsInv(a, i - 1, p, tr, list)
    PROVE  RowsInv(LiquidateOne(a, list[i], tr), i, p, tr, list)
<1> DEFINE h == list[i]
           b == LiquidateOne(a, h, tr)
<1>1. Len(list) \in Nat /\ tr.qty \in Nat /\ a.needed \in 0..tr.qty /\ tr.id \in Int
      /\ (Sign(tr) = 1 \/ Sign(tr) = -1)
    BY DEF Usable, LotsInv, Sign, Trades
<1>2. h \in Rest(list, i - 1) /\ h \in p.holding
    BY <1>1 DEF Rest, Usable
<1>3. h \in a.holding /\ h \in Lots /\ Sign(tr) * h.qty > 0
    BY <1>2 DEF LotsInv
<1>4. ASSUME a.needed <= 0
      PROVE  RowsInv(b, i, p, tr, list)
    <2>1. b = a
        BY <1>4 DEF LiquidateOne
    <2>2. 1..(i - 1) \subseteq 1..i
        BY <1>1
    <2> HIDE DEF b
    <2> QED BY <2>1, <2>2 DEF RowsInv
<1>5. ASSUME a.needed > 0
      PROVE  RowsInv(b, i, p, tr, list)
    <2>1. PICK used, left \in Int :
               /\ used > 0 /\ used <= a.needed
               /\ left = h.qty - Sign(tr) * used
               /\ b.needed = a.needed - used
               /\ b.history = a.history \cup {HistoryRow(h.id, tr.id, h.qty, left)}
               /\ \/ left = 0 /\ b.holding = a.holding \ {h}
                  \/ /\ Sign(tr) * left > 0 /\ used = a.needed
                     /\ b.holding = (a.holding \ {h}) \cup {[h EXCEPT !.qty = left]}
        <3>1. a.needed \in Nat /\ tr.type_is_sell \in BOOLEAN
            BY <1>1 DEF Usable
        <3> HIDE DEF h
        <3> QED BY <1>3, <1>5, <3>1, OneRound
    <2> DEFINE row == HistoryRow(h.id, tr.id, h.qty, left)
               k == [h EXCEPT !.qty = left]
    <2>2. /\ row \in Rows
          /\ row.hh_h_t_id = h.id /\ row.hh_t_id = tr.id
          /\ row.before = h.qty /\ row.after = left
        BY <1>1, <1>3 DEF HistoryRow, Rows, Lots
    <2>3. k.id = h.id /\ k.qty = left
        BY <1>3 DEF Lots
    <2>4. b.history = a.history \cup {row}
        BY <2>1
    <2>5. b.holding \subseteq (a.holding \ {h}) \cup {k}
        BY <2>1
    <2>6. \A j \in 1..(i - 1) : list[j].id # h.id
        <3>1. \A j \in 1..(i - 1) : list[j] \in p.holding /\ list[j] # h
            BY <1>1 DEF Usable
        <3> HIDE DEF h
        <3> QED BY <1>2, <3>1 DEF Usable, SoundPosition, UniqueIds
    <2> HIDE DEF h, b, row, k
    <2>7. row \notin a.history
        <3>1. \A r \in p.history : r.hh_t_id # tr.id
            BY DEF Usable, SoundPosition
        <3>2. row \notin p.history
            BY <2>2, <3>1
        <3>3. \A r \in a.history \ p.history : r.hh_h_t_id # h.id
            BY <2>6 DEF RowsInv
        <3> QED BY <2>2, <3>2, <3>3
    <2>8. a.history \in SUBSET Rows /\ IsFiniteSet(a.history)
        BY DEF RowsInv
    <2>9. b.history \in SUBSET Rows /\ IsFiniteSet(b.history) /\ p.history \subseteq b.history
        BY <2>2, <2>4, <2>8, FS_AddElement DEF RowsInv
    <2>10. \A r \in b.history \ p.history :
               r.hh_t_id = tr.id /\ \E j \in 1..i : r.hh_h_t_id = list[j].id
        <3>1. 1..(i - 1) \subseteq 1..i /\ i \in 1..i
            BY <1>1
        <3>2. h = list[i]
            BY DEF h
        <3> QED BY <2>2, <2>4, <3>1, <3>2 DEF RowsInv
    <2>11. Changed(RowsBy(b.history, tr.id)) = -Sign(tr) * (tr.qty - b.needed)
        <3>1. PICK change \in Int, qty \in Int, needed \in Int, lot \in Int :
                  /\ change = Changed(RowsBy(a.history, tr.id))
                  /\ qty = tr.qty /\ needed = a.needed /\ lot = h.qty
            <4>1. Changed(RowsBy(a.history, tr.id)) \in Int
                BY <2>2, <2>7, <2>8, OneMoreRow
            <4>2. tr.qty \in Int /\ a.needed \in Int /\ h.qty \in Int
                BY <1>1, <1>3 DEF Lots
            <4> QED BY <4>1, <4>2
        <3>2. Changed(RowsBy(b.history, tr.id)) = change + (left - lot)
            BY <2>2, <2>4, <2>7, <2>8, <3>1, OneMoreRow
        <3>3. change = -Sign(tr) * (qty - needed) /\ left = lot - Sign(tr) * used
            BY <2>1, <3>1 DEF RowsInv
        <3>4. change + (left - lot) = -Sign(tr) * (qty - (needed - used))
            <4>1. CASE Sign(tr) = 1
                BY <3>3, <4>1
            <4>2. CASE Sign(tr) = -1
                BY <3>3, <4>2
            <4> QED BY <1>1, <4>1, <4>2
        <3> QED BY <2>1, <3>1, <3>2, <3>4
    <2>12. ASSUME NEW x \in b.holding, x.id \in Trades
           PROVE  Changed(RowsAbout(b.history, x.id)) = x.qty
        <3>1. CASE x \in a.holding \ {h}
            <4>1. x.id # h.id
                BY <1>3, <3>1 DEF LotsInv, UniqueIds
            <4>2. RowsAbout(b.history, x.id) = RowsAbout(a.history, x.id)
                BY <2>2, <2>4, <2>7, <2>8, <4>1, OneMoreRow
            <4> QED BY <2>12, <3>1, <4>2 DEF RowsInv
        <3>2. CASE x = k
            <4>1. Changed(RowsAbout(a.history, h.id)) = h.qty
                BY <1>3, <2>3, <2>12, <3>2 DEF RowsInv
            <4>2. Changed(RowsAbout(b.history, h.id)) = h.qty + (left - h.qty)
                <5>1. Changed(RowsAbout(a.history \cup {row}, h.id))
                          = Changed(RowsAbout(a.history, h.id)) + (row.after - row.before)
                    BY <2>2, <2>7, <2>8, OneMoreRow
                <5> QED BY <2>2, <2>4, <4>1, <5>1
            <4>3. h.qty \in Int
                BY <1>3 DEF Lots
            <4>4. h.qty + (left - h.qty) = left
                BY <4>3
            <4> QED BY <2>3, <3>2, <4>2, <4>4
        <3> QED BY <2>5, <3>1, <3>2
    <2> QED BY <2>9, <2>10, <2>11, <2>12 DEF RowsInv
<1>6. RowsInv(b, i, p, tr, list)
    BY <1>1, <1>4, <1>5
<1> QED BY <1>6

(* What the loop leaves.                                                   *)
LEMMA LoopResult ==
    ASSUME NEW p, NEW D, NEW tr, NEW list, Usable(p, D, tr, list),
           NEW acc, IsLoopTo(acc, p, tr, list, Len(list))
    PROVE  /\ LotsInv(acc[Len(list)], Len(list), p, tr, list)
           /\ RowsInv(acc[Len(list)], Len(list), p, tr, list)
<1> DEFINE n == Len(list)
           Good(i) == LotsInv(acc[i], i, p, tr, list) /\ RowsInv(acc[i], i, p, tr, list)
           Bad == {i \in 0..n : ~Good(i)}
<1>1. n \in Nat
    BY DEF Usable
<1>2. Good(0)
    <2>1. acc[0].needed = tr.qty /\ acc[0].holding = p.holding /\ acc[0].history = p.history
        BY DEF IsLoopTo, Start
    <2>2. Rest(list, 0) = p.holding
        BY DEF Rest, Usable
    <2>3. /\ p.holding \in SUBSET Lots /\ IsFiniteSet(p.holding) /\ SumQty(p.holding) \in Int
          /\ p.history \in SUBSET Rows /\ IsFiniteSet(p.history)
        BY SharesOfLots DEF Usable, SoundPosition, Positions
    <2>4. tr.qty \in Nat /\ (Sign(tr) = 1 \/ Sign(tr) = -1)
        BY DEF Usable, Sign
    <2>5. Sign(tr) * (tr.qty - tr.qty) = 0 /\ -Sign(tr) * (tr.qty - tr.qty) = 0
        BY <2>4
    <2>6. SumQty(p.holding) = SumQty(p.holding) - Sign(tr) * (tr.qty - tr.qty)
        BY <2>3, <2>5
    <2>7. LotsInv(acc[0], 0, p, tr, list)
        BY <2>1, <2>2, <2>3, <2>4, <2>6 DEF LotsInv, Usable, SoundPosition
    <2>8. RowsBy(p.history, tr.id) = {}
        BY DEF RowsBy, Usable, SoundPosition
    <2>9. Changed(RowsBy(p.history, tr.id)) = 0
        BY <2>8, FS_EmptySet, ChangesOfRows
    <2>10. RowsInv(acc[0], 0, p, tr, list)
        BY <2>1, <2>3, <2>5, <2>9 DEF RowsInv, Usable, SoundPosition
    <2> QED BY <2>7, <2>10
<1>3. ASSUME NEW i \in 1..n, Good(i - 1)
      PROVE  Good(i)
    <2>1. acc[i] = LiquidateOne(acc[i - 1], list[i], tr)
        BY DEF IsLoopTo
    <2> QED BY <1>3, <2>1, RoundKeepsLots, RoundKeepsRows
<1>4. Bad = {}
    <2> SUFFICES ASSUME Bad # {} PROVE FALSE
        OBVIOUS
    <2>1. PICK k \in Bad : \A y \in Bad : k <= y
        <3>1. Bad \subseteq Nat
            BY <1>1
        <3> HIDE DEF Bad
        <3> QED BY <3>1, MinOfNaturals
    <2>2. k \in 1..n /\ k - 1 \in 0..n
        BY <1>1, <1>2, <2>1
    <2>3. k - 1 \notin Bad
        <3> HIDE DEF Bad
        <3> QED BY <2>1, <2>2
    <2>4. Good(k - 1)
        BY <2>2, <2>3
    <2>5. Good(k)
        BY <1>3, <2>2, <2>4
    <2> QED BY <2>1, <2>5
<1> QED BY <1>1, <1>4

-----------------------------------------------------------------------------
(* Frame 2 as a whole.                                                     *)

(* What Liquidate leaves, whether or not the loop was entered.             *)
Leftover(a, p, tr) ==
    /\ a.needed \in 0..tr.qty
    /\ a.holding \in SUBSET Lots /\ IsFiniteSet(a.holding) /\ UniqueIds(a.holding)
    /\ \A h \in a.holding : \E k \in p.holding : k.id = h.id
    /\ a.needed > 0 => \A h \in a.holding : Sign(tr) * h.qty < 0
    /\ a.needed = 0 => \A h \in a.holding : Sign(tr) * h.qty > 0
    /\ SumQty(a.holding) = SumQty(p.holding) - Sign(tr) * (tr.qty - a.needed)
    /\ IF Sign(tr) * SumQty(p.holding) > 0 THEN a.needed > 0 => a.holding = {}
                                           ELSE a.needed = tr.qty
    /\ a.history \in SUBSET Rows /\ IsFiniteSet(a.history)
    /\ p.history \subseteq a.history
    /\ \A r \in a.history \ p.history :
           r.hh_t_id = tr.id /\ \E k \in p.holding : r.hh_h_t_id = k.id
    /\ Changed(RowsBy(a.history, tr.id)) = -Sign(tr) * (tr.qty - a.needed)
    /\ \A h \in a.holding : h.id \in Trades =>
           Changed(RowsAbout(a.history, h.id)) = h.qty

(* A list that the frame may read has every lot once.                      *)
LEMMA ListOfLots ==
    ASSUME NEW p, IsFiniteSet(p.holding), NEW lifo, NEW list \in HoldLists(p, lifo)
    PROVE  /\ Len(list) \in Nat /\ DOMAIN list = 1..Len(list)
           /\ \A i \in 1..Len(list) : list[i] \in p.holding
           /\ \A i, j \in 1..Len(list) : i # j => list[i] # list[j]
           /\ \A h \in p.holding : \E i \in 1..Len(list) : h = list[i]
<1> DEFINE n == Cardinality(p.holding)
<1>1. n \in Nat
    BY FS_CardinalityType
<1>2. list \in [1..n -> p.holding] /\ \A i, j \in 1..n : i # j => list[i] # list[j]
    BY DEF HoldLists, SetToSeqs
<1>3. Len(list) = n
    BY <1>1, <1>2
<1>4. \A h \in p.holding : \E i \in 1..n : h = list[i]
    <2>1. list \in Injection(1..n, p.holding)
        BY <1>2 DEF Injection, IsInjective
    <2>2. IsFiniteSet(1..n) /\ Cardinality(1..n) = n
        BY <1>1, FS_Interval
    <2>3. list \in Surjection(1..n, p.holding)
        BY <2>1, <2>2, FS_Injection
    <2> QED BY <2>3, <1>2 DEF Surjection
<1> QED BY <1>1, <1>2, <1>3, <1>4

(* The side of a sound position is that of its summary.                    *)
LEMMA SideOfPosition ==
    ASSUME NEW p, NEW D, SoundPosition(p, D)
    PROVE  /\ SumQty(p.holding) \in Int
           /\ SumQty(p.holding) > 0 => \A h \in p.holding : h.qty > 0
           /\ SumQty(p.holding) < 0 => \A h \in p.holding : h.qty < 0
           /\ SumQty(p.holding) = 0 => p.holding = {}
<1>1. p.holding \in SUBSET Lots /\ IsFiniteSet(p.holding)
    BY DEF SoundPosition, Positions
<1>2. /\ SumQty(p.holding) \in Int
      /\ p.holding = {} => SumQty(p.holding) = 0
      /\ p.holding # {} /\ (\A h \in p.holding : h.qty > 0) => SumQty(p.holding) > 0
      /\ p.holding # {} /\ (\A h \in p.holding : h.qty < 0) => SumQty(p.holding) < 0
    BY <1>1, SharesOfLots
<1>3. (\A h \in p.holding : h.qty > 0) \/ (\A h \in p.holding : h.qty < 0)
    BY DEF SoundPosition
<1>4. CASE p.holding = {}
    BY <1>2, <1>4
<1>5. CASE p.holding # {} /\ \A h \in p.holding : h.qty > 0
    BY <1>2, <1>5
<1>6. CASE p.holding # {} /\ \A h \in p.holding : h.qty < 0
    BY <1>2, <1>6
<1> QED BY <1>3, <1>4, <1>5, <1>6

(* Liquidate, on a sound position.                                         *)
LEMMA LiquidateLeaves ==
    ASSUME NEW p, NEW D, SoundPosition(p, D),
           NEW tr, tr.id \in Trades \ D, tr.type_is_sell \in BOOLEAN,
           tr.qty \in Nat, tr.qty > 0, tr.price \in Int,
           NEW lifo, NEW list \in HoldLists(p, lifo)
    PROVE  Leftover(Liquidate(p, Frame1HsQty(p), tr, list), p, tr)
<1> DEFINE a == Liquidate(p, Frame1HsQty(p), tr, list)
           n == Len(list)
<1>1. /\ n \in Nat
      /\ \A i \in 1..n : list[i] \in p.holding
      /\ \A i, j \in 1..n : i # j => list[i] # list[j]
      /\ \A h \in p.holding : \E i \in 1..n : h = list[i]
    <2>1. IsFiniteSet(p.holding)
        BY DEF SoundPosition
    <2> QED BY <2>1, ListOfLots
<1>2. Frame1HsQty(p) = SumQty(p.holding) /\ SumQty(p.holding) \in Int
      /\ (Sign(tr) = 1 \/ Sign(tr) = -1)
    BY SideOfPosition DEF SoundPosition, Sign
<1>3. PICK acc : /\ IsLoopTo(acc, p, tr, list, n)
                 /\ a = acc[IF Sign(tr) * Frame1HsQty(p) > 0 THEN n ELSE 0]
    BY <1>1, LiquidateIsLoop
<1> HIDE DEF a
<1>4. ASSUME Sign(tr) * SumQty(p.holding) > 0
      PROVE  Leftover(a, p, tr)
    <2>1. a = acc[n]
        BY <1>2, <1>3, <1>4
    <2>2. \A h \in p.holding : Sign(tr) * h.qty > 0
        <3>1. \A h \in p.holding : h.qty \in Int
            BY DEF SoundPosition, Positions, Lots
        <3>2. CASE Sign(tr) = 1
            <4>1. SumQty(p.holding) > 0
                BY <1>2, <1>4, <3>2
            <4> QED BY <3>1, <3>2, <4>1, SideOfPosition
        <3>3. CASE Sign(tr) = -1
            <4>1. SumQty(p.holding) < 0
                BY <1>2, <1>4, <3>3
            <4> QED BY <3>1, <3>3, <4>1, SideOfPosition
        <3> QED BY <1>2, <3>2, <3>3
    <2>3. Usable(p, D, tr, list)
        BY <1>1, <2>2 DEF Usable
    <2>4. LotsInv(a, n, p, tr, list) /\ RowsInv(a, n, p, tr, list)
        BY <1>3, <2>1, <2>3, LoopResult
    <2>5. Rest(list, n) = {}
        BY <1>1 DEF Rest
    <2>6. \A r \in a.history \ p.history : \E k \in p.holding : r.hh_h_t_id = k.id
        BY <1>1, <2>4 DEF RowsInv
    <2>7. a.needed > 0 => a.holding = {}
        BY <2>4, <2>5 DEF LotsInv
    <2> HIDE DEF n
    <2> QED BY <1>4, <2>4, <2>6, <2>7 DEF LotsInv, RowsInv, Leftover
<1>5. ASSUME ~(Sign(tr) * SumQty(p.holding) > 0)
      PROVE  Leftover(a, p, tr)
    <2>1. a.needed = tr.qty /\ a.holding = p.holding /\ a.history = p.history
        BY <1>2, <1>3, <1>5 DEF IsLoopTo, Start
    <2>2. \A h \in p.holding : Sign(tr) * h.qty < 0
        <3>1. \A h \in p.holding : h.qty \in Int
            BY DEF SoundPosition, Positions, Lots
        <3>2. CASE SumQty(p.holding) = 0
            BY <3>2, SideOfPosition
        <3>3. CASE Sign(tr) = 1 /\ SumQty(p.holding) # 0
            <4>1. SumQty(p.holding) < 0
                BY <1>2, <1>5, <3>3
            <4> QED BY <3>1, <3>3, <4>1, SideOfPosition
        <3>4. CASE Sign(tr) = -1 /\ SumQty(p.holding) # 0
            <4>1. SumQty(p.holding) > 0
                BY <1>2, <1>5, <3>4
            <4> QED BY <3>1, <3>4, <4>1, SideOfPosition
        <3> QED BY <1>2, <3>2, <3>3, <3>4
    <2>3. Sign(tr) * (tr.qty - tr.qty) = 0 /\ -Sign(tr) * (tr.qty - tr.qty) = 0
        BY <1>2
    <2>4. SumQty(p.holding) = SumQty(p.holding) - Sign(tr) * (tr.qty - tr.qty)
        BY <1>2, <2>3
    <2>5. RowsBy(p.history, tr.id) = {}
        BY DEF RowsBy, SoundPosition
    <2>6. Changed(RowsBy(p.history, tr.id)) = 0
        BY <2>5, FS_EmptySet, ChangesOfRows
    <2>7. p.holding \in SUBSET Lots /\ p.history \in SUBSET Rows
        BY DEF SoundPosition, Positions
    <2>8. tr.qty \in 0..tr.qty /\ tr.qty # 0
        OBVIOUS
    <2> QED BY <1>5, <2>1, <2>2, <2>3, <2>4, <2>6, <2>7, <2>8 DEF Leftover, SoundPosition
<1>6. Leftover(a, p, tr)
    BY <1>4, <1>5
<1> QED BY <1>6 DEF a

(* The summary of what is left and of the new lot is the summary before,   *)
(* less (or plus) the trade.                                               *)
LEMMA SummaryAfter ==
    ASSUME NEW p, NEW D, SoundPosition(p, D),
           NEW tr, tr.type_is_sell \in BOOLEAN, tr.qty \in Nat, tr.qty > 0,
           NEW a, Leftover(a, p, tr)
    PROVE  /\ a.needed \in Nat
           /\ SumQty(a.holding) \in Int
           /\ SumQty(a.holding) + (-Sign(tr) * a.needed)
                  = SumQty(p.holding) - Sign(tr) * tr.qty
           /\ a.needed > 0 =>
                  /\ Sign(tr) * SumQty(p.holding) # tr.qty
                  /\ UpdateSummary(p.hs, Frame1HsQty(p), tr)
                         = SumQty(p.holding) - Sign(tr) * tr.qty
           /\ a.needed = 0 =>
                  /\ Sign(tr) * SumQty(p.holding) = tr.qty <=> a.holding = {}
                  /\ Sign(tr) * SumQty(p.holding) # tr.qty =>
                         UpdateSummary(p.hs, Frame1HsQty(p), tr)
                             = SumQty(p.holding) - Sign(tr) * tr.qty
<1>1. /\ a.needed \in 0..tr.qty /\ a.holding \in SUBSET Lots /\ IsFiniteSet(a.holding)
      /\ SumQty(a.holding) = SumQty(p.holding) - Sign(tr) * (tr.qty - a.needed)
      /\ a.needed = 0 => \A h \in a.holding : Sign(tr) * h.qty > 0
      /\ IF Sign(tr) * SumQty(p.holding) > 0 THEN a.needed > 0 => a.holding = {}
                                             ELSE a.needed = tr.qty
    BY DEF Leftover
<1>2. /\ SumQty(a.holding) \in Int
      /\ a.holding = {} => SumQty(a.holding) = 0
      /\ a.holding # {} /\ (\A h \in a.holding : h.qty > 0) => SumQty(a.holding) > 0
      /\ a.holding # {} /\ (\A h \in a.holding : h.qty < 0) => SumQty(a.holding) < 0
    BY <1>1, SharesOfLots
<1>3. SumQty(p.holding) \in Int /\ (Sign(tr) = 1 \/ Sign(tr) = -1)
    BY SideOfPosition DEF Sign
<1>4. Frame1HsQty(p) = SumQty(p.holding)
    BY DEF SoundPosition
<1>5. PICK sum \in Int, rest \in Int, qty \in Nat, needed \in Nat, s \in {1, -1} :
          /\ sum = SumQty(p.holding) /\ rest = SumQty(a.holding)
          /\ qty = tr.qty /\ needed = a.needed /\ s = Sign(tr)
    BY <1>1, <1>2, <1>3
<1>6. rest = sum - s * (qty - needed) /\ needed <= qty /\ qty > 0
      /\ IF s * sum > 0 THEN needed > 0 => rest = 0 ELSE needed = qty
    BY <1>1, <1>2, <1>5
<1>7. rest + (-s * needed) = sum - s * qty
    <2>1. CASE s = 1
        BY <1>6, <2>1
    <2>2. CASE s = -1
        BY <1>6, <2>2
    <2> QED BY <2>1, <2>2
<1>8. needed > 0 => s * sum # qty
    <2>1. CASE s = 1
        BY <1>6, <2>1
    <2>2. CASE s = -1
        BY <1>6, <2>2
    <2> QED BY <2>1, <2>2
<1>9. s * sum # qty => UpdateSummary(p.hs, sum, tr) = sum - s * qty
    <2>1. CASE sum = 0
        <3>1. UpdateSummary(p.hs, sum, tr) = -s * qty
            BY <1>5, <2>1 DEF UpdateSummary
        <3>2. -s * qty = sum - s * qty
            <4>1. CASE s = 1
                BY <2>1, <4>1
            <4>2. CASE s = -1
                BY <2>1, <4>2
            <4> QED BY <4>1, <4>2
        <3> QED BY <3>1, <3>2
    <2>2. CASE sum # 0
        <3>1. p.hs # NoRow
            BY <1>4, <1>5, <2>2 DEF Frame1HsQty
        <3> QED BY <1>5, <2>2, <3>1 DEF UpdateSummary
    <2> QED BY <2>1, <2>2
<1>10. needed = 0 => (s * sum = qty <=> a.holding = {})
    <2> SUFFICES ASSUME needed = 0 PROVE s * sum = qty <=> a.holding = {}
        OBVIOUS
    <2>1. s * sum = qty <=> rest = 0
        <3>1. CASE s = 1
            BY <1>6, <3>1
        <3>2. CASE s = -1
            BY <1>6, <3>2
        <3> QED BY <3>1, <3>2
    <2>2. rest = 0 <=> a.holding = {}
        <3>1. \A h \in a.holding : h.qty \in Int /\ s * h.qty > 0
            BY <1>1, <1>5 DEF Lots
        <3>2. CASE s = 1
            <4>1. \A h \in a.holding : h.qty > 0
                BY <3>1, <3>2
            <4> QED BY <1>2, <1>5, <4>1
        <3>3. CASE s = -1
            <4>1. \A h \in a.holding : h.qty < 0
                BY <3>1, <3>3
            <4> QED BY <1>2, <1>5, <4>1
        <3> QED BY <3>2, <3>3
    <2> QED BY <2>1, <2>2
<1> QED BY <1>4, <1>5, <1>7, <1>8, <1>9, <1>10

(* Frame 2 meets a sound position and a trade that is not yet part of it.  *)
FrameInput(p, D, tr, list, dts) ==
    /\ SoundPosition(p, D)
    /\ tr.id \in Trades \ D /\ tr.type_is_sell \in BOOLEAN
    /\ tr.qty \in Nat /\ tr.qty > 0 /\ tr.price \in Int
    /\ \E lifo : list \in HoldLists(p, lifo)
    /\ dts \in Int

(* It leaves q: sound, with the ledger of the trade and that of the others.*)
FrameOutput(q, p, D, tr) ==
    /\ SoundPosition(q, D \cup {tr.id})
    /\ Changed(RowsBy(q.history, tr.id)) = -Sign(tr) * tr.qty
    /\ \A u \in D : RowsBy(q.history, u) = RowsBy(p.history, u)

(* Frame 2 keeps a position sound and writes the ledger of its trade.      *)
LEMMA Frame2IsSound ==
    ASSUME NEW p, NEW D, NEW tr, NEW list, NEW dts, FrameInput(p, D, tr, list, dts),
           NEW q, q = Frame2(p, Frame1HsQty(p), tr, list, dts).position
    PROVE  FrameOutput(q, p, D, tr)
<1>0. /\ SoundPosition(p, D)
      /\ tr.id \in Trades \ D /\ tr.type_is_sell \in BOOLEAN
      /\ tr.qty \in Nat /\ tr.qty > 0 /\ tr.price \in Int
      /\ dts \in Int
    BY DEF FrameInput
<1> USE <1>0
<1> DEFINE a == Liquidate(p, Frame1HsQty(p), tr, list)
           hs == UpdateSummary(p.hs, Frame1HsQty(p), tr)
           rest == -Sign(tr) * a.needed
           new == [id |-> tr.id, dts |-> dts, price |-> tr.price, qty |-> rest]
           row == HistoryRow(tr.id, tr.id, 0, rest)
<1>1. Leftover(a, p, tr)
    <2>1. PICK lifo : list \in HoldLists(p, lifo)
        BY DEF FrameInput
    <2> QED BY <2>1, LiquidateLeaves
<1>2. q = IF a.needed > 0
          THEN [hs |-> hs, holding |-> a.holding \cup {new}, history |-> a.history \cup {row}]
          ELSE [hs |-> IF Sign(tr) * Frame1HsQty(p) = tr.qty THEN NoRow ELSE hs,
                holding |-> a.holding, history |-> a.history]
    BY DEF Frame2
<1> HIDE DEF a, hs
<1>3. /\ a.needed \in Nat
      /\ SumQty(a.holding) \in Int
      /\ SumQty(a.holding) + rest = SumQty(p.holding) - Sign(tr) * tr.qty
      /\ a.needed > 0 => /\ Sign(tr) * SumQty(p.holding) # tr.qty
                         /\ hs = SumQty(p.holding) - Sign(tr) * tr.qty
      /\ a.needed = 0 => /\ Sign(tr) * SumQty(p.holding) = tr.qty <=> a.holding = {}
                         /\ Sign(tr) * SumQty(p.holding) # tr.qty =>
                                hs = SumQty(p.holding) - Sign(tr) * tr.qty
    BY <1>1, SummaryAfter DEF hs
<1>4. /\ Frame1HsQty(p) = SumQty(p.holding) /\ SumQty(p.holding) \in Int
      /\ (Sign(tr) = 1 \/ Sign(tr) = -1) /\ tr.id \in Int
    BY SideOfPosition DEF SoundPosition, Sign, Trades
<1>5. rest \in Int /\ SumQty(p.holding) - Sign(tr) * tr.qty \in Int
    BY <1>3, <1>4
<1>6. \A u \in D : u # tr.id
    OBVIOUS
<1>7. \A k \in p.holding : k.id \in Trades => k.id \in D
    BY DEF SoundPosition
<1>8. \A r \in p.history : r.hh_t_id \in D /\ (r.hh_h_t_id \in Trades => r.hh_h_t_id \in D)
    BY DEF SoundPosition
<1>9. \A r \in a.history : /\ r.hh_t_id \in D \cup {tr.id}
                           /\ r.hh_h_t_id \in Trades => r.hh_h_t_id \in D
                           /\ r \notin p.history => r.hh_t_id = tr.id
    BY <1>1, <1>7, <1>8 DEF Leftover
<1>10. \A u \in D : RowsBy(a.history, u) = RowsBy(p.history, u)
    BY <1>1, <1>6, <1>9 DEF RowsBy, Leftover
<1>11. /\ a.holding \in SUBSET Lots /\ IsFiniteSet(a.holding) /\ UniqueIds(a.holding)
       /\ a.history \in SUBSET Rows /\ IsFiniteSet(a.history)
       /\ \A h \in a.holding : h.id \in Trades =>
              h.id \in D /\ Changed(RowsAbout(a.history, h.id)) = h.qty
       /\ Changed(RowsBy(a.history, tr.id)) = -Sign(tr) * (tr.qty - a.needed)
    BY <1>1, <1>7 DEF Leftover
<1>12. CASE a.needed > 0
    <2> HIDE DEF rest
    <2>2. new \in Lots /\ new.id = tr.id /\ new.qty = rest
        BY <1>4, <1>5 DEF Lots
    <2>3. /\ row \in Rows /\ row.hh_h_t_id = tr.id /\ row.hh_t_id = tr.id
          /\ row.before = 0 /\ row.after = rest
        BY <1>4, <1>5 DEF Rows, HistoryRow
    <2> HIDE DEF new, row
    <2>1. /\ q.hs = hs /\ q.holding = a.holding \cup {new}
          /\ q.history = a.history \cup {row}
          /\ q = [hs |-> q.hs, holding |-> q.holding, history |-> q.history]
        <3>1. q = [hs |-> hs, holding |-> a.holding \cup {new}, history |-> a.history \cup {row}]
            BY <1>2, <1>12
        <3> QED BY <3>1
    <2>4. \A h \in a.holding : h.id # tr.id
        BY <1>11
    <2>5. row \notin a.history
        BY <1>9, <2>3
    <2>6. hs \in Int /\ hs # NoRow /\ hs = SumQty(a.holding) + rest
        BY <1>3, <1>5, <1>12, NoRowAssumption
    <2>7. q \in Positions
        BY <1>11, <2>1, <2>2, <2>3, <2>6 DEF Positions
    <2>8. IsFiniteSet(q.holding) /\ IsFiniteSet(q.history)
        <3>1. IsFiniteSet(a.holding \cup {new}) /\ IsFiniteSet(a.history \cup {row})
            BY <1>11, FS_AddElement, Zenon
        <3> QED BY <2>1, <3>1
    <2>9. UniqueIds(q.holding)
        BY <1>11, <2>1, <2>2, <2>4 DEF UniqueIds
    <2>10. (\A h \in q.holding : h.qty > 0) \/ (\A h \in q.holding : h.qty < 0)
        <3>1. \A h \in a.holding : h.qty \in Int /\ Sign(tr) * h.qty < 0
            BY <1>1, <1>11, <1>12 DEF Leftover, Lots
        <3>2. CASE Sign(tr) = 1
            <4>1. rest < 0
                BY <1>3, <1>12, <3>2 DEF rest
            <4>2. \A h \in a.holding : h.qty < 0
                BY <3>1, <3>2
            <4> QED BY <2>1, <2>2, <4>1, <4>2
        <3>3. CASE Sign(tr) = -1
            <4>1. rest > 0
                BY <1>3, <1>12, <3>3 DEF rest
            <4>2. \A h \in a.holding : h.qty > 0
                BY <3>1, <3>3
            <4> QED BY <2>1, <2>2, <4>1, <4>2
        <3> QED BY <1>4, <3>2, <3>3
    <2>11. Frame1HsQty(q) = SumQty(q.holding)
        <3>1. SumQty(q.holding) = SumQty(a.holding) + rest
            BY <1>11, <2>1, <2>2, <2>4, SharesOfOneMore
        <3> QED BY <2>1, <2>6, <3>1 DEF Frame1HsQty
    <2>12. q.hs # NoRow /\ q.holding # {}
        BY <2>1, <2>6
    <2>13. \A r \in q.history : /\ r.hh_t_id \in D \cup {tr.id}
                                /\ r.hh_h_t_id \in Trades => r.hh_h_t_id \in D \cup {tr.id}
        BY <1>9, <2>1, <2>3
    <2>14. ASSUME NEW h \in q.holding, h.id \in Trades
           PROVE  h.id \in D \cup {tr.id} /\ Changed(RowsAbout(q.history, h.id)) = h.qty
        <3>1. CASE h \in a.holding
            <4>1. RowsAbout(q.history, h.id) = RowsAbout(a.history, h.id)
                BY <2>1, <2>3, <2>4, <3>1 DEF RowsAbout
            <4> QED BY <1>11, <2>14, <3>1, <4>1
        <3>2. CASE h = new
            <4>1. RowsAbout(a.history, tr.id) = {}
                BY <1>9 DEF RowsAbout
            <4>2. Changed(RowsAbout(a.history, tr.id)) = 0
                BY <4>1, FS_EmptySet, ChangesOfRows
            <4>3. Changed(RowsAbout(q.history, tr.id)) = 0 + (rest - 0)
                <5>1. Changed(RowsAbout(a.history \cup {row}, tr.id))
                          = Changed(RowsAbout(a.history, tr.id)) + (row.after - row.before)
                    BY <1>11, <2>3, <2>5, OneMoreRow
                <5> QED BY <2>1, <2>3, <4>2, <5>1
            <4>4. 0 + (rest - 0) = rest
                BY <1>5
            <4> QED BY <2>2, <3>2, <4>3, <4>4
        <3> QED BY <2>1, <3>1, <3>2
    <2>15. Changed(RowsBy(q.history, tr.id)) = -Sign(tr) * tr.qty
        <3>1. Changed(RowsBy(q.history, tr.id))
                  = -Sign(tr) * (tr.qty - a.needed) + (rest - 0)
            <4>1. Changed(RowsBy(a.history \cup {row}, tr.id))
                      = Changed(RowsBy(a.history, tr.id)) + (row.after - row.before)
                BY <1>11, <2>3, <2>5, OneMoreRow
            <4> QED BY <1>11, <2>1, <2>3, <4>1
        <3>2. PICK qty \in Int, needed \in Int : qty = tr.qty /\ needed = a.needed
            BY <1>3
        <3>3. -Sign(tr) * (qty - needed) + (-Sign(tr) * needed - 0) = -Sign(tr) * qty
            <4>1. CASE Sign(tr) = 1
                BY <4>1
            <4>2. CASE Sign(tr) = -1
                BY <4>2
            <4> QED BY <1>4, <4>1, <4>2
        <3> QED BY <3>1, <3>2, <3>3 DEF rest
    <2>16. \A u \in D : RowsBy(q.history, u) = RowsBy(p.history, u)
        <3>1. \A u \in D : RowsBy(q.history, u) = RowsBy(a.history, u)
            BY <1>6, <2>1, <2>3 DEF RowsBy
        <3> QED BY <1>10, <3>1
    <2>17. SoundPosition(q, D \cup {tr.id})
        BY <2>7, <2>8, <2>9, <2>10, <2>11, <2>12, <2>13, <2>14 DEF SoundPosition
    <2> QED BY <2>15, <2>16, <2>17 DEF FrameOutput
<1>13. CASE ~(a.needed > 0)
    <2>1. a.needed = 0
        BY <1>3, <1>13
    <2>2. /\ q.hs = IF Sign(tr) * SumQty(p.holding) = tr.qty THEN NoRow ELSE hs
          /\ q.holding = a.holding /\ q.history = a.history
          /\ q = [hs |-> q.hs, holding |-> q.holding, history |-> q.history]
        BY <1>2, <1>4, <1>13
    <2>3. rest = 0
        BY <1>4, <2>1
    <2>4. SumQty(a.holding) = SumQty(p.holding) - Sign(tr) * tr.qty
        <3> HIDE DEF rest
        <3>1. SumQty(a.holding) + 0 = SumQty(a.holding)
            BY <1>3
        <3> QED BY <1>3, <2>3, <3>1
    <2>5. IF Sign(tr) * SumQty(p.holding) = tr.qty
          THEN q.hs = NoRow /\ a.holding = {}
          ELSE q.hs = SumQty(a.holding) /\ a.holding # {}
        BY <1>3, <2>1, <2>2, <2>4
    <2>6. (q.hs = NoRow <=> q.holding = {}) /\ q.hs \in Int \cup {NoRow}
        BY <1>3, <2>2, <2>5, NoRowAssumption
    <2>7. Frame1HsQty(q) = SumQty(q.holding)
        <3>1. a.holding = {} => SumQty(a.holding) = 0
            BY <1>11, SharesOfLots
        <3> QED BY <2>2, <2>5, <2>6, <3>1 DEF Frame1HsQty
    <2>8. q \in Positions
        BY <1>11, <2>2, <2>6 DEF Positions
    <2>9. (\A h \in q.holding : h.qty > 0) \/ (\A h \in q.holding : h.qty < 0)
        <3>1. \A h \in a.holding : h.qty \in Int /\ Sign(tr) * h.qty > 0
            BY <1>1, <1>11, <2>1 DEF Leftover, Lots
        <3>2. CASE Sign(tr) = 1
            BY <2>2, <3>1, <3>2
        <3>3. CASE Sign(tr) = -1
            BY <2>2, <3>1, <3>3
        <3> QED BY <1>4, <3>2, <3>3
    <2>10. Changed(RowsBy(q.history, tr.id)) = -Sign(tr) * tr.qty
        <3>1. tr.qty - a.needed = tr.qty
            BY <2>1
        <3> QED BY <1>11, <2>2, <3>1
    <2>11. SoundPosition(q, D \cup {tr.id})
        BY <1>9, <1>11, <2>2, <2>6, <2>7, <2>8, <2>9 DEF SoundPosition
    <2> QED BY <1>10, <2>2, <2>10, <2>11 DEF FrameOutput
<1> QED BY <1>12, <1>13

-----------------------------------------------------------------------------
(* The transactions.                                                       *)

(* Sums of nothing: the states the rows start from.                        *)
LEMMA LoadedIsSound ==
    ASSUME NEW H \in Loaded
    PROVE  SoundPosition(LoadedPosition(H), {})
<1>1. /\ IsFiniteSet(H) /\ H \in SUBSET Lots
      /\ \A h \in H : h.id \notin Trades
      /\ \A h, k \in H : h.id = k.id => h = k
      /\ (\A h \in H : h.qty > 0) \/ (\A h \in H : h.qty < 0)
    BY LoadedAssumption
<1>2. SumQty(H) \in Int /\ (H = {} => SumQty(H) = 0)
    BY <1>1, SharesOfLots
<1> DEFINE p == LoadedPosition(H)
<1>3. /\ p.hs = IF H = {} THEN NoRow ELSE SumQty(H)
      /\ p.holding = H /\ p.history = {}
      /\ p = [hs |-> p.hs, holding |-> p.holding, history |-> p.history]
    BY DEF LoadedPosition
<1> HIDE DEF p
<1>4. p \in Positions
    BY <1>1, <1>2, <1>3 DEF Positions
<1>5. Frame1HsQty(p) = SumQty(p.holding) /\ (p.hs = NoRow <=> p.holding = {})
    BY <1>2, <1>3, NoRowAssumption DEF Frame1HsQty
<1>6. IsFiniteSet(p.history)
    BY <1>3, FS_EmptySet
<1>7. SoundPosition(p, {})
    BY <1>1, <1>3, <1>4, <1>5, <1>6 DEF SoundPosition, UniqueIds
<1> QED BY <1>7 DEF p

(* The invariant holds at first.                                           *)
LEMMA HoldingsInit == Init => HoldingsInv
<1> SUFFICES ASSUME Init PROVE HoldingsInv
    OBVIOUS
<1> USE BoundsAssumption
<1>1. ShapeInv
    <2>1. NoTrade \in Inputs
        BY DEF NoTrade, Inputs
    <2> QED BY <2>1 DEF Init, ShapeInv
<1>2. SnapshotInv /\ FrameInv
    BY DEF Init, SnapshotInv, FrameInv
<1>3. Done = {}
    BY DEF Init, Done
<1>4. SoundPosition(position, Done)
    BY <1>3, LoadedIsSound DEF Init
<1>5. PositionInv
    BY <1>3, <1>4, FS_EmptySet DEF Init, PositionInv
<1> QED BY <1>1, <1>2, <1>5 DEF HoldingsInv

(* Shapes are kept, and the limit of retries.                              *)
LEMMA ShapeStep ==
    ASSUME HoldingsInv, [Next]_vars
    PROVE  ShapeInv'
<1> USE BoundsAssumption
<1>1. ShapeInv
    BY DEF HoldingsInv
<1>2. ASSUME NEW t \in Trades, Arrive(t) PROVE ShapeInv'
    <2>1. PICK sell \in BOOLEAN, lifo \in BOOLEAN, qty \in 1..MaxQty :
              trade' = [trade EXCEPT ![t] = [id |-> t, type_is_sell |-> sell, is_lifo |-> lifo,
                                             qty |-> qty, price |-> t]]
        BY <1>2 DEF Arrive
    <2> DEFINE new == [id |-> t, type_is_sell |-> sell, is_lifo |-> lifo,
                       qty |-> qty, price |-> t]
    <2>2. new \in Inputs /\ new.id = t /\ new.qty > 0
        BY DEF Inputs, Trades
    <2> HIDE DEF new
    <2>3. trade' \in [Trades -> Inputs] /\ trade' = [trade EXCEPT ![t] = new]
        BY <1>1, <2>1, <2>2 DEF ShapeInv, new
    <2> QED BY <1>1, <1>2, <2>2, <2>3 DEF ShapeInv, Arrive
<1>3. ASSUME NEW t \in Trades, Begin(t) PROVE ShapeInv'
    BY <1>1, <1>3 DEF ShapeInv, Begin
<1>4. ASSUME NEW t \in Trades, Frame1(t) PROVE ShapeInv'
    BY <1>1, <1>4 DEF ShapeInv, Frame1
<1>5. ASSUME NEW t \in Trades, RunFrame2(t) PROVE ShapeInv'
    <2>1. DOMAIN result' = DOMAIN result
        BY <1>5 DEF RunFrame2
    <2> QED BY <1>1, <1>5, <2>1 DEF ShapeInv, RunFrame2
<1>6. ASSUME NEW t \in Trades, pc[t] \in {"frame1", "frame2"}, Retry(t) PROVE ShapeInv'
    <2>1. nRetries[t] \in 0..iMaxRetries
        BY <1>1, <1>6 DEF ShapeInv
    <2>2. nRetries' \in [Trades -> 0..(iMaxRetries + 1)]
        BY <1>1, <1>6, <2>1 DEF ShapeInv, Retry
    <2> QED BY <1>1, <1>6, <2>1, <2>2 DEF ShapeInv, Retry, EndTransaction
<1>7. ASSUME NEW t \in Trades, DuplicateSummary(t) PROVE ShapeInv'
    BY <1>1, <1>7 DEF ShapeInv, DuplicateSummary, EndTransaction
<1>8. ASSUME NEW t \in Trades, Commit(t) PROVE ShapeInv'
    BY <1>1, <1>8 DEF ShapeInv, Commit, EndTransaction
<1>9. CASE UNCHANGED vars
    BY <1>1, <1>9 DEF ShapeInv, vars
<1> QED BY <1>2, <1>3, <1>4, <1>5, <1>6, <1>7, <1>8, <1>9
        DEF Next, Work, Conflict, LateConflict

(* The completed trades are finitely many.                                 *)
LEMMA DoneIsFinite == IsFiniteSet(Done) /\ Cardinality(Done) <= MaxTrades
<1>1. IsFiniteSet(Trades) /\ Cardinality(Trades) = MaxTrades
    BY FS_Interval, BoundsAssumption DEF Trades
<1>2. Done \in SUBSET Trades
    BY DEF Done
<1> QED BY <1>1, <1>2, FS_Subset

(* A commit makes every other snapshot stale.                              *)
LEMMA SnapshotStep ==
    ASSUME HoldingsInv, [Next]_vars
    PROVE  SnapshotInv'
<1>1. ShapeInv /\ SnapshotInv
    BY DEF HoldingsInv
<1>2. version \in Nat
    <2>1. IsFiniteSet(Done)
        BY DoneIsFinite
    <2> QED BY <2>1, FS_CardinalityType DEF HoldingsInv, PositionInv
<1>3. ASSUME NEW t \in Trades, Arrive(t) PROVE SnapshotInv'
    BY <1>1, <1>3 DEF ShapeInv, SnapshotInv, Arrive
<1>4. ASSUME NEW t \in Trades, Begin(t) PROVE SnapshotInv'
    BY <1>1, <1>4 DEF ShapeInv, SnapshotInv, Begin
<1>5. ASSUME NEW t \in Trades, Frame1(t) PROVE SnapshotInv'
    <2>1. \A u \in Trades : u # t => pc'[u] = pc[u] /\ snapshot'[u] = snapshot[u]
        BY <1>1, <1>5 DEF ShapeInv, Frame1
    <2>2. snapshot'[t].position = position /\ snapshot'[t].version = version
        BY <1>1, <1>5 DEF ShapeInv, Frame1
    <2>3. position' = position /\ version' = version
        BY <1>5 DEF Frame1
    <2> QED BY <1>1, <1>2, <2>1, <2>2, <2>3 DEF SnapshotInv
<1>6. ASSUME NEW t \in Trades, RunFrame2(t) PROVE SnapshotInv'
    BY <1>1, <1>6 DEF ShapeInv, SnapshotInv, RunFrame2
<1>7. ASSUME NEW t \in Trades, pc'[t] \in {"ready", "failed", "done"},
             \A u \in Trades : u # t => pc'[u] = pc[u],
             EndTransaction(t),
             \/ UNCHANGED <<position, version>>
             \/ version' = version + 1
      PROVE  SnapshotInv'
    <2>1. \A u \in Trades : u # t => snapshot'[u] = snapshot[u]
        BY <1>1, <1>7 DEF ShapeInv, EndTransaction
    <2>2. SUFFICES ASSUME NEW u \in Trades, pc'[u] \in {"frame1", "frame2"}
                   PROVE  /\ snapshot'[u].version \in 0..version'
                          /\ snapshot'[u].version = version' =>
                                 snapshot'[u].position = position'
        BY DEF SnapshotInv
    <2>3. u # t /\ snapshot'[u] = snapshot[u] /\ pc[u] \in {"frame1", "frame2"}
        BY <1>7, <2>1, <2>2
    <2>4. /\ snapshot[u].version \in 0..version
          /\ snapshot[u].version = version => snapshot[u].position = position
        BY <1>1, <2>3 DEF SnapshotInv
    <2>5. CASE UNCHANGED <<position, version>>
        BY <2>3, <2>4, <2>5
    <2>6. CASE version' = version + 1
        BY <1>2, <2>3, <2>4, <2>6
    <2> QED BY <1>7, <2>5, <2>6
<1>8. ASSUME NEW t \in Trades, Retry(t) PROVE SnapshotInv'
    <2>1. /\ pc'[t] \in {"ready", "failed"}
          /\ \A u \in Trades : u # t => pc'[u] = pc[u]
          /\ EndTransaction(t) /\ UNCHANGED <<position, version>>
        BY <1>1, <1>8 DEF ShapeInv, Retry
    <2> QED BY <1>7, <2>1
<1>9. ASSUME NEW t \in Trades, DuplicateSummary(t) PROVE SnapshotInv'
    <2>1. /\ pc'[t] = "failed"
          /\ \A u \in Trades : u # t => pc'[u] = pc[u]
          /\ EndTransaction(t) /\ UNCHANGED <<position, version>>
        BY <1>1, <1>9 DEF ShapeInv, DuplicateSummary
    <2> QED BY <1>7, <2>1
<1>10. ASSUME NEW t \in Trades, Commit(t) PROVE SnapshotInv'
    <2>1. /\ pc'[t] = "done"
          /\ \A u \in Trades : u # t => pc'[u] = pc[u]
          /\ EndTransaction(t) /\ version' = version + 1
        BY <1>1, <1>10 DEF ShapeInv, Commit
    <2> QED BY <1>7, <2>1
<1>11. CASE UNCHANGED vars
    BY <1>1, <1>11 DEF SnapshotInv, vars
<1> QED BY <1>3, <1>4, <1>5, <1>6, <1>8, <1>9, <1>10, <1>11
        DEF Next, Work, Conflict, LateConflict

(* What is about to be committed stays computed from the position it will  *)
(* replace: nobody else can commit in between.                             *)
LEMMA FrameStep ==
    ASSUME HoldingsInv, [Next]_vars
    PROVE  FrameInv'
<1>1. ShapeInv /\ SnapshotInv /\ FrameInv
    BY DEF HoldingsInv
<1> DEFINE Computed(t) ==
        \E list \in HoldLists(position, trade[t].is_lifo) :
            result[t] = Frame2(position, Frame1HsQty(position), trade[t], list,
                               StoredDts(Impl, began[t]))
<1>2. /\ \A t, u \in Trades : pc[t] = "frame2" /\ pc[u] = "frame2" => t = u
      /\ \A t \in Trades : pc[t] = "frame2" => Computed(t)
    BY <1>1 DEF FrameInv
(* A transaction that runs Frame 2 and is not touched keeps its result.    *)
<1>3. ASSUME NEW u \in Trades, Computed(u), trade'[u] = trade[u], result'[u] = result[u],
             began'[u] = began[u], position' = position
      PROVE  Computed(u)'
    BY <1>3
<1>4. ASSUME NEW t \in Trades, pc'[t] # "frame2", position' = position,
             \A u \in Trades : u # t => /\ pc'[u] = pc[u] /\ trade'[u] = trade[u]
                                        /\ result'[u] = result[u] /\ began'[u] = began[u]
      PROVE  FrameInv'
    <2>1. \A u \in Trades : pc'[u] = "frame2" => u # t /\ pc[u] = "frame2"
        BY <1>4
    <2>2. \A u \in Trades : pc'[u] = "frame2" => Computed(u)'
        <3> HIDE DEF Computed
        <3> QED BY <1>2, <1>3, <1>4, <2>1
    <2>3. \A r, u \in Trades : pc'[r] = "frame2" /\ pc'[u] = "frame2" => r = u
        BY <1>2, <2>1
    <2> QED BY <2>2, <2>3 DEF FrameInv
<1>5. ASSUME NEW t \in Trades, Arrive(t) PROVE FrameInv'
    <2>1. \A u \in Trades : u # t => trade'[u] = trade[u]
        BY <1>1, <1>5 DEF ShapeInv, Arrive
    <2>2. /\ pc'[t] # "frame2" /\ position' = position
          /\ \A u \in Trades : u # t => pc'[u] = pc[u]
          /\ result' = result /\ began' = began
        BY <1>1, <1>5 DEF ShapeInv, Arrive
    <2> QED BY <1>4, <2>1, <2>2
<1>6. ASSUME NEW t \in Trades, Begin(t) PROVE FrameInv'
    <2>1. /\ pc'[t] # "frame2" /\ position' = position
          /\ \A u \in Trades : u # t => pc'[u] = pc[u] /\ began'[u] = began[u]
          /\ result' = result /\ trade' = trade
        BY <1>1, <1>6 DEF ShapeInv, Begin
    <2> QED BY <1>4, <2>1
<1>7. ASSUME NEW t \in Trades, Frame1(t) PROVE FrameInv'
    <2>1. /\ pc'[t] # "frame2" /\ position' = position
          /\ \A u \in Trades : u # t => pc'[u] = pc[u]
          /\ result' = result /\ trade' = trade /\ began' = began
        BY <1>1, <1>7 DEF ShapeInv, Frame1
    <2> QED BY <1>4, <2>1
<1>8. ASSUME NEW t \in Trades, RunFrame2(t) PROVE FrameInv'
    <2>1. snapshot[t].position = position
        BY <1>1, <1>8 DEF RunFrame2, Stale, SnapshotInv
    <2>2. PICK list \in HoldLists(position, trade[t].is_lifo) :
              result' = [result EXCEPT ![t] =
                  Frame2(position, Frame1HsQty(snapshot[t].position), trade[t], list,
                         StoredDts(Impl, began[t]))]
        BY <1>8 DEF RunFrame2
    <2>3. result'[t] = Frame2(position, Frame1HsQty(position), trade[t], list,
                              StoredDts(Impl, began[t]))
        BY <1>1, <2>1, <2>2 DEF ShapeInv
    <2>4. /\ position' = position /\ trade' = trade /\ began' = began
          /\ pc' = [pc EXCEPT ![t] = "frame2"]
        BY <1>8 DEF RunFrame2
    <2>5. Computed(t)'
        BY <2>3, <2>4
    <2>6. \A u \in Trades : u # t => pc[u] # "frame2"
        BY <1>8 DEF RunFrame2, RowsLocked
    <2>7. \A u \in Trades : pc'[u] = "frame2" => u = t
        BY <1>1, <2>4, <2>6 DEF ShapeInv
    <2> HIDE DEF Computed
    <2>8. \A u \in Trades : pc'[u] = "frame2" => Computed(u)'
        BY <2>5, <2>7
    <2> QED BY <2>7, <2>8 DEF FrameInv, Computed
<1>9. ASSUME NEW t \in Trades, Retry(t) PROVE FrameInv'
    <2>1. /\ pc'[t] # "frame2" /\ position' = position /\ trade' = trade
          /\ \A u \in Trades : u # t => pc'[u] = pc[u] /\ result'[u] = result[u]
                                        /\ began'[u] = began[u]
        BY <1>1, <1>9 DEF ShapeInv, Retry, EndTransaction
    <2> QED BY <1>4, <2>1
<1>10. ASSUME NEW t \in Trades, DuplicateSummary(t) PROVE FrameInv'
    <2>1. /\ pc'[t] # "frame2" /\ position' = position /\ trade' = trade
          /\ \A u \in Trades : u # t => pc'[u] = pc[u] /\ result'[u] = result[u]
                                        /\ began'[u] = began[u]
        BY <1>1, <1>10 DEF ShapeInv, DuplicateSummary, EndTransaction
    <2> QED BY <1>4, <2>1
<1>11. ASSUME NEW t \in Trades, Commit(t) PROVE FrameInv'
    <2>1. pc[t] = "frame2" /\ pc' = [pc EXCEPT ![t] = "done"]
        BY <1>11 DEF Commit
    <2>2. \A u \in Trades : pc'[u] # "frame2"
        BY <1>1, <1>2, <2>1 DEF ShapeInv
    <2> QED BY <2>2 DEF FrameInv
<1>12. CASE UNCHANGED vars
    BY <1>1, <1>12 DEF FrameInv, vars
<1> HIDE DEF Computed
<1> QED BY <1>5, <1>6, <1>7, <1>8, <1>9, <1>10, <1>11, <1>12
        DEF Next, Work, Conflict, LateConflict

(* The time stamp of a new holding is a time.                              *)
LEMMA StoredDtsIsTime ==
    ASSUME NEW now \in Nat
    PROVE  StoredDts(Impl, now) \in Int
<1>1. RoundToSecond(now) \in Int
    <2>1. TicksPerSecond \in Nat /\ TicksPerSecond > 0
        BY TicksAssumption
    <2>2. TicksPerSecond \div 2 \in Int
        BY <2>1
    <2>3. (now + TicksPerSecond \div 2) \div TicksPerSecond \in Int
        BY <2>1, <2>2
    <2> QED BY <2>1, <2>3 DEF RoundToSecond
<1> QED BY <1>1, ImplAssumption DEF StoredDts, AncientOffset

(* A commit replaces a sound position by a sound one.                      *)
LEMMA PositionStep ==
    ASSUME HoldingsInv, [Next]_vars
    PROVE  PositionInv'
<1>1. ShapeInv /\ FrameInv /\ PositionInv
    BY DEF HoldingsInv
<1>2. ASSUME position' = position, version' = version, Done' = Done,
             \A t \in Done : trade'[t] = trade[t]
      PROVE  PositionInv'
    BY <1>1, <1>2 DEF PositionInv
<1>3. ASSUME NEW t \in Trades, Arrive(t) PROVE PositionInv'
    <2>1. \A u \in Trades : u # t => trade'[u] = trade[u]
        BY <1>1, <1>3 DEF ShapeInv, Arrive
    <2>2. t \notin Done /\ Done' = Done /\ position' = position /\ version' = version
        BY <1>1, <1>3 DEF ShapeInv, Arrive, Done
    <2>3. Done \subseteq Trades
        BY DEF Done
    <2> QED BY <1>2, <2>1, <2>2, <2>3
<1>4. ASSUME NEW t \in Trades, Begin(t) PROVE PositionInv'
    <2>1. Done' = Done /\ position' = position /\ version' = version /\ trade' = trade
        BY <1>1, <1>4 DEF ShapeInv, Begin, Done
    <2> QED BY <1>2, <2>1
<1>5. ASSUME NEW t \in Trades, Frame1(t) PROVE PositionInv'
    <2>1. Done' = Done /\ position' = position /\ version' = version /\ trade' = trade
        BY <1>1, <1>5 DEF ShapeInv, Frame1, Done
    <2> QED BY <1>2, <2>1
<1>6. ASSUME NEW t \in Trades, RunFrame2(t) PROVE PositionInv'
    <2>1. Done' = Done /\ position' = position /\ version' = version /\ trade' = trade
        BY <1>1, <1>6 DEF ShapeInv, RunFrame2, Done
    <2> QED BY <1>2, <2>1
<1>7. ASSUME NEW t \in Trades, pc[t] \in {"frame1", "frame2"}, Retry(t) PROVE PositionInv'
    <2>1. Done' = Done /\ position' = position /\ version' = version /\ trade' = trade
        BY <1>1, <1>7 DEF ShapeInv, Retry, Done
    <2> QED BY <1>2, <2>1
<1>8. ASSUME NEW t \in Trades, DuplicateSummary(t) PROVE PositionInv'
    <2>1. Done' = Done /\ position' = position /\ version' = version /\ trade' = trade
        BY <1>1, <1>8 DEF ShapeInv, DuplicateSummary, Done
    <2> QED BY <1>2, <2>1
<1>9. ASSUME NEW t \in Trades, Commit(t) PROVE PositionInv'
    <2>1. /\ pc[t] = "frame2" /\ position' = result[t].position
          /\ version' = version + 1 /\ trade' = trade
          /\ pc' = [pc EXCEPT ![t] = "done"]
        BY <1>9 DEF Commit
    <2>2. Done' = Done \cup {t} /\ t \notin Done
        BY <1>1, <2>1 DEF ShapeInv, Done
    <2>3. PICK list \in HoldLists(position, trade[t].is_lifo) :
              result[t] = Frame2(position, Frame1HsQty(position), trade[t], list,
                                 StoredDts(Impl, began[t]))
        BY <1>1, <2>1 DEF FrameInv
    <2>4. /\ trade[t].id = t /\ trade[t].type_is_sell \in BOOLEAN
          /\ trade[t].qty \in Nat /\ trade[t].qty > 0 /\ trade[t].price \in Int
        BY <1>1, <2>1, BoundsAssumption DEF ShapeInv, Inputs
    <2>5. StoredDts(Impl, began[t]) \in Int
        BY <1>1, StoredDtsIsTime DEF ShapeInv
    <2>6. SoundPosition(position, Done)
        BY <1>1 DEF PositionInv
    <2>7. position' = Frame2(position, Frame1HsQty(position), trade[t], list,
                             StoredDts(Impl, began[t])).position
        BY <2>1, <2>3
    <2>8. FrameOutput(position', position, Done, trade[t])
        <3>1. trade[t].id \in Trades \ Done
            BY <2>2, <2>4
        <3>2. FrameInput(position, Done, trade[t], list, StoredDts(Impl, began[t]))
            BY <2>3, <2>4, <2>5, <2>6, <3>1 DEF FrameInput
        <3> QED BY <2>7, <3>2, Frame2IsSound
    <2>9. version' = Cardinality(Done')
        <3>1. IsFiniteSet(Done)
            BY DoneIsFinite
        <3>2. Cardinality(Done \cup {t}) = Cardinality(Done) + 1
            BY <2>2, <3>1, FS_AddElement
        <3> QED BY <1>1, <2>1, <2>2, <3>2 DEF PositionInv
    <2>10. \A u \in Done' :
               Changed(RowsBy(position'.history, u)) = -Sign(trade'[u]) * trade'[u].qty
        BY <1>1, <2>1, <2>2, <2>4, <2>8 DEF PositionInv, FrameOutput
    <2>11. SoundPosition(position', Done')
        BY <2>2, <2>4, <2>8 DEF FrameOutput
    <2> QED BY <2>9, <2>10, <2>11 DEF PositionInv
<1>10. CASE UNCHANGED vars
    <2>1. Done' = Done /\ position' = position /\ version' = version /\ trade' = trade
        BY <1>10 DEF vars, Done
    <2> QED BY <1>2, <2>1
<1> QED BY <1>3, <1>4, <1>5, <1>6, <1>7, <1>8, <1>9, <1>10
        DEF Next, Work, Conflict, LateConflict

(* The invariant holds in every state.                                     *)
THEOREM HoldingsInvariant == Spec => []HoldingsInv
<1>1. HoldingsInv /\ [Next]_vars => HoldingsInv'
    BY ShapeStep, SnapshotStep, FrameStep, PositionStep DEF HoldingsInv
<1> QED BY <1>1, HoldingsInit, PTL DEF Spec

(* TypeOK: the variables keep their types; at most MaxTrades trades are    *)
(* committed and no transaction is attempted more than iMaxRetries + 1     *)
(* times, for any number of trades and retries.                            *)
THEOREM TypesAreKept == Spec => []TypeOK
<1>1. HoldingsInv => TypeOK
    <2> SUFFICES ASSUME HoldingsInv PROVE TypeOK
        OBVIOUS
    <2>1. ShapeInv /\ PositionInv
        BY DEF HoldingsInv
    <2>2. position.hs \in Int \cup {NoRow}
        BY <2>1 DEF PositionInv, SoundPosition, Positions
    <2>3. version \in 0..MaxTrades
        BY <2>1, DoneIsFinite, FS_CardinalityType, BoundsAssumption DEF PositionInv
    <2>4. \A t \in Trades : trade[t].id \in 0..MaxTrades /\ trade[t].qty \in 0..MaxQty
        BY <2>1 DEF ShapeInv, Inputs
    <2>5. \A t \in Trades : began[t] \in 0..clock
        BY <2>1 DEF ShapeInv
    <2> QED BY <2>1, <2>2, <2>3, <2>4, <2>5 DEF TypeOK, ShapeInv
<1> QED BY <1>1, HoldingsInvariant, PTL

(* SummaryIsSum: hs_qty, computed by each Trade-Result from what Frame 1   *)
(* read earlier, is the sum of the holdings, and there is a summary row    *)
(* exactly when there are holdings.                                        *)
THEOREM SummaryIsExact == Spec => []SummaryIsSum
<1>1. HoldingsInv => SummaryIsSum
    BY DEF HoldingsInv, PositionInv, SoundPosition, SummaryIsSum
<1> QED BY <1>1, HoldingsInvariant, PTL

(* OneSided: no sequence of sales and purchases leaves long and short lots *)
(* side by side, or an empty lot.                                          *)
THEOREM PositionHasOneSide == Spec => []OneSided
<1>1. HoldingsInv => OneSided
    BY DEF HoldingsInv, PositionInv, SoundPosition, OneSided
<1> QED BY <1>1, HoldingsInvariant, PTL

(* HistoryIsLedger: the rows of a completed trade add up to its quantity,  *)
(* those of an uncompleted one to nothing, and those about a holding made  *)
(* by a trade lead to what is there now.                                   *)
THEOREM LedgerIsExact == Spec => []HistoryIsLedger
<1>1. HoldingsInv => HistoryIsLedger
    <2> SUFFICES ASSUME HoldingsInv PROVE HistoryIsLedger
        OBVIOUS
    <2>1. PositionInv
        BY DEF HoldingsInv
    <2>2. ASSUME NEW t \in Trades
          PROVE  Changed({r \in position.history : r.hh_t_id = t}) =
                     IF pc[t] = "done" THEN -Sign(trade[t]) * trade[t].qty ELSE 0
        <3>1. {r \in position.history : r.hh_t_id = t} = RowsBy(position.history, t)
            BY DEF RowsBy
        <3>2. CASE pc[t] = "done"
            BY <2>1, <3>1, <3>2 DEF PositionInv, Done
        <3>3. CASE pc[t] # "done"
            <4>1. RowsBy(position.history, t) = {}
                BY <2>1, <3>3 DEF PositionInv, SoundPosition, RowsBy, Done
            <4>2. Changed({}) = 0
                BY FS_EmptySet, ChangesOfRows
            <4> QED BY <3>1, <3>3, <4>1, <4>2
        <3> QED BY <3>2, <3>3
    <2>3. \A h \in position.holding : h.id \in Trades =>
              Changed({r \in position.history : r.hh_h_t_id = h.id}) = h.qty
        BY <2>1 DEF PositionInv, SoundPosition, RowsAbout
    <2> QED BY <2>2, <2>3 DEF HistoryIsLedger
<1> QED BY <1>1, HoldingsInvariant, PTL

-----------------------------------------------------------------------------
(* The values of Frame 2.                                                  *)

AbsQty(list) == [j \in 1..Len(list) |-> Abs(list[j].qty)]

(* The shares of the lots before lot i.                                    *)
Before(list, i) == SumOver(AbsQty(list), 1..(i - 1))

(* The shares that a trade of n shares takes from lot i, and their value.  *)
Taken(list, n, i) ==
    IF Before(list, i) >= n THEN 0 ELSE MinOf(Abs(list[i].qty), n - Before(list, i))

LotValues(list, n) == [i \in 1..Len(list) |-> Taken(list, n, i) * list[i].price]

(* A list of lots, none of them empty.                                     *)
LotList(list) ==
    /\ Len(list) \in Nat
    /\ DOMAIN list = 1..Len(list)
    /\ \A i \in 1..Len(list) : list[i] \in Lots /\ list[i].qty # 0

(* Before counts up.                                                       *)
LEMMA BeforeNext ==
    ASSUME NEW list, LotList(list)
    PROVE  /\ Before(list, 1) = 0
           /\ \A i \in 1..(Len(list) + 1) : Before(list, i) \in Int
           /\ \A i \in 1..Len(list) : /\ Abs(list[i].qty) \in Int /\ Abs(list[i].qty) > 0
                                      /\ Before(list, i + 1) = Before(list, i) + Abs(list[i].qty)
<1>1. Len(list) \in Nat
    BY DEF LotList
<1>2. \A i \in 1..Len(list) : /\ Abs(list[i].qty) \in Int /\ Abs(list[i].qty) > 0
                              /\ AbsQty(list)[i] = Abs(list[i].qty)
    BY DEF LotList, Lots, AbsQty, Abs
<1>3. \A i \in 1..(Len(list) + 1) : Before(list, i) \in Int
    <2> SUFFICES ASSUME NEW i \in 1..(Len(list) + 1) PROVE Before(list, i) \in Int
        OBVIOUS
    <2>1. IsFiniteSet(1..(i - 1)) /\ \A x \in 1..(i - 1) : AbsQty(list)[x] \in Int
        <3>1. IsFiniteSet(1..(i - 1))
            BY <1>1, FS_Interval
        <3>2. 1..(i - 1) \subseteq 1..Len(list)
            BY <1>1
        <3> QED BY <1>2, <3>1, <3>2
    <2> QED BY <2>1, SumOfSet DEF Before
<1>4. Before(list, 1) = 0
    <2>1. 1..(1 - 1) = {}
        OBVIOUS
    <2> QED BY <2>1, SumOfSet, FS_EmptySet DEF Before
<1>5. ASSUME NEW i \in 1..Len(list)
      PROVE  Before(list, i + 1) = Before(list, i) + Abs(list[i].qty)
    <2>1. 1..((i + 1) - 1) = (1..(i - 1)) \cup {i} /\ i \notin 1..(i - 1)
        BY <1>1
    <2>2. IsFiniteSet(1..(i - 1))
        BY <1>1, FS_Interval
    <2>3. \A y \in (1..(i - 1)) \cup {i} : AbsQty(list)[y] \in Int
        BY <1>1, <1>2
    <2>4. SumOver(AbsQty(list), (1..(i - 1)) \cup {i})
              = AbsQty(list)[i] + SumOver(AbsQty(list), 1..(i - 1))
        BY <2>1, <2>2, <2>3, SumAddElement
    <2>5. Before(list, i + 1) = Abs(list[i].qty) + Before(list, i)
        BY <1>2, <2>1, <2>4 DEF Before
    <2>6. Before(list, i) \in Int /\ Abs(list[i].qty) \in Int
        BY <1>1, <1>2, <1>3
    <2> QED BY <2>5, <2>6
<1> QED BY <1>2, <1>3, <1>4, <1>5

(* A lot and the ones before it are no more than all.                      *)
LEMMA BeforeGrows ==
    ASSUME NEW list, LotList(list)
    PROVE  \A i \in 1..(Len(list) + 1) :
               0 <= Before(list, i) /\ Before(list, i) <= Before(list, Len(list) + 1)
<1> DEFINE n == Len(list) + 1
           Up == {i \in 1..n : ~(0 <= Before(list, i))}
           Down == {k \in 0..(n - 1) : ~(Before(list, n - k) <= Before(list, n))}
<1>1. Len(list) \in Nat /\ n \in Nat /\ n > 0
    BY DEF LotList
<1>2. /\ Before(list, 1) = 0
      /\ \A i \in 1..n : Before(list, i) \in Int
      /\ \A i \in 1..(n - 1) : /\ Abs(list[i].qty) \in Int /\ Abs(list[i].qty) > 0
                               /\ Before(list, i + 1) = Before(list, i) + Abs(list[i].qty)
    BY <1>1, BeforeNext
<1> HIDE DEF n
<1>3. Up = {}
    <2> SUFFICES ASSUME Up # {} PROVE FALSE
        OBVIOUS
    <2>1. PICK i \in Up : \A y \in Up : i <= y
        <3>1. Up \subseteq Nat
            BY <1>1
        <3> HIDE DEF Up
        <3> QED BY <3>1, MinOfNaturals
    <2>2. i \in 1..n /\ i # 1 /\ ~(0 <= Before(list, i))
        BY <1>2, <2>1
    <2>3. i - 1 \in 1..(n - 1) /\ i - 1 \in 1..n /\ (i - 1) + 1 = i
        BY <1>1, <2>2
    <2>4. i - 1 \notin Up
        <3> HIDE DEF Up
        <3> QED BY <2>1, <2>2
    <2>5. 0 <= Before(list, i - 1)
        BY <2>3, <2>4
    <2>6. Before(list, i) = Before(list, i - 1) + Abs(list[i - 1].qty)
          /\ Abs(list[i - 1].qty) \in Int /\ Abs(list[i - 1].qty) > 0
        BY <1>2, <2>3
    <2> QED BY <1>2, <2>2, <2>3, <2>5, <2>6
<1>4. Down = {}
    <2> SUFFICES ASSUME Down # {} PROVE FALSE
        OBVIOUS
    <2>1. PICK k \in Down : \A y \in Down : k <= y
        <3>1. Down \subseteq Nat
            BY <1>1
        <3> HIDE DEF Down
        <3> QED BY <3>1, MinOfNaturals
    <2>2. n - 0 = n /\ n \in 1..n
        BY <1>1
    <2>3. k \in 0..(n - 1) /\ k # 0 /\ ~(Before(list, n - k) <= Before(list, n))
        BY <1>2, <2>1, <2>2
    <2>4. k - 1 \in 0..(n - 1) /\ n - k \in 1..(n - 1) /\ n - (k - 1) = (n - k) + 1
          /\ n - (k - 1) \in 1..n
        BY <1>1, <2>3
    <2>5. k - 1 \notin Down
        <3> HIDE DEF Down
        <3> QED BY <2>1, <2>3
    <2>6. Before(list, n - (k - 1)) <= Before(list, n)
        BY <2>4, <2>5
    <2>7. Before(list, (n - k) + 1) = Before(list, n - k) + Abs(list[n - k].qty)
          /\ Abs(list[n - k].qty) \in Int /\ Abs(list[n - k].qty) > 0
        BY <1>2, <2>4
    <2>8. /\ Before(list, n - k) \in Int /\ Before(list, n) \in Int
          /\ Before(list, (n - k) + 1) <= Before(list, n)
        BY <1>1, <1>2, <2>2, <2>4, <2>6
    <2> QED BY <2>3, <2>7, <2>8
<1>5. ASSUME NEW i \in 1..n
      PROVE  0 <= Before(list, i) /\ Before(list, i) <= Before(list, n)
    <2>1. n - i \in 0..(n - 1) /\ n - (n - i) = i
        BY <1>1
    <2>2. Before(list, n - (n - i)) <= Before(list, n)
        BY <1>4, <2>1
    <2> QED BY <1>3, <2>1, <2>2
<1> QED BY <1>5 DEF n

(* The reference's sum of the lots before lot i.                           *)
LEMMA ReferenceBefore ==
    ASSUME NEW list, LotList(list), NEW S \in SUBSET (1..Len(list))
    PROVE  MapThenSumSet(LAMBDA j : Abs(list[j].qty), S) = SumOver(AbsQty(list), S)
<1> DEFINE It == CHOOSE g : g = [s \in SUBSET S |-> IF s = {} THEN 0
                     ELSE Abs(list[CHOOSE x \in s : TRUE].qty) + g[s \ {CHOOSE x \in s : TRUE}]]
<1>1. MapThenSumSet(LAMBDA j : Abs(list[j].qty), S) = It[S]
    BY DEF MapThenSumSet, MapThenFoldSet
<1>2. \A x \in S : AbsQty(list)[x] = Abs(list[x].qty) /\ AbsQty(list)[x] \in Int
    BY DEF LotList, Lots, AbsQty, Abs
<1>3. \A s \in SUBSET S : s # {} => (CHOOSE x \in s : TRUE) \in S
    BY Zenon
<1>4. IsFiniteSet(S)
    <2>1. IsFiniteSet(1..Len(list))
        BY FS_Interval DEF LotList
    <2> QED BY <2>1, FS_Subset
<1>5. ASSUME NEW g
      PROVE  Tabulates(g, AbsQty(list), S) <=>
             g = [s \in SUBSET S |-> IF s = {} THEN 0
                     ELSE Abs(list[CHOOSE x \in s : TRUE].qty) + g[s \ {CHOOSE x \in s : TRUE}]]
    <2>1. \A s \in SUBSET S : s # {} =>
              AbsQty(list)[CHOOSE x \in s : TRUE] = Abs(list[CHOOSE x \in s : TRUE].qty)
        BY <1>2, <1>3
    <2> QED BY <2>1 DEF Tabulates, One
<1>6. PICK g : Tabulates(g, AbsQty(list), S) /\ SumOver(AbsQty(list), S) = g[S]
    BY <1>2, <1>4, SumFromTable
<1>7. \E f : f = [s \in SUBSET S |-> IF s = {} THEN 0
                     ELSE Abs(list[CHOOSE x \in s : TRUE].qty) + f[s \ {CHOOSE x \in s : TRUE}]]
    <2>1. g = [s \in SUBSET S |-> IF s = {} THEN 0
                     ELSE Abs(list[CHOOSE x \in s : TRUE].qty) + g[s \ {CHOOSE x \in s : TRUE}]]
        BY <1>5, <1>6, Zenon
    <2> QED BY <2>1, Zenon
<1>8. It = [s \in SUBSET S |-> IF s = {} THEN 0
                     ELSE Abs(list[CHOOSE x \in s : TRUE].qty) + It[s \ {CHOOSE x \in s : TRUE}]]
    BY <1>7, Zenon
<1>9. Tabulates(It, AbsQty(list), S)
    BY <1>5, <1>8
<1> HIDE DEF It
<1>10. g[S] = It[S]
    <2>1. \A x \in S : AbsQty(list)[x] \in Int
        BY <1>2
    <2>2. PICK f : f = AbsQty(list)
        OBVIOUS
    <2>3. Tabulates(g, f, S) /\ Tabulates(It, f, S) /\ \A x \in S : f[x] \in Int
        BY <1>6, <1>9, <2>1, <2>2
    <2> QED BY <1>4, <2>3, OneTable
<1> QED BY <1>1, <1>6, <1>10

(* The reference's value of n shares is the sum of what each lot gives.    *)
LEMMA ReferenceValue ==
    ASSUME NEW list, LotList(list), NEW n \in Int
    PROVE  /\ ShareValue(list, n) = SumOver(LotValues(list, n), 1..Len(list))
           /\ \A i \in 1..Len(list) : LotValues(list, n)[i] \in Int
<1> DEFINE S == 1..Len(list)
           before(i) == MapThenSumSet(LAMBDA j : Abs(list[j].qty), 1..(i - 1))
           taken(i) == IF before(i) >= n THEN 0 ELSE MinOf(Abs(list[i].qty), n - before(i))
           It == CHOOSE g : g = [s \in SUBSET S |-> IF s = {} THEN 0
                     ELSE taken(CHOOSE x \in s : TRUE) * list[CHOOSE x \in s : TRUE].price
                          + g[s \ {CHOOSE x \in s : TRUE}]]
<1>1. Len(list) \in Nat /\ DOMAIN list = S /\ IsFiniteSet(S)
    BY FS_Interval DEF LotList
<1>2. \A i \in S : before(i) = Before(list, i)
    <2> SUFFICES ASSUME NEW i \in S PROVE before(i) = Before(list, i)
        OBVIOUS
    <2>1. 1..(i - 1) \in SUBSET (1..Len(list))
        BY <1>1
    <2> QED BY <2>1, ReferenceBefore DEF Before
<1>3. ShareValue(list, n) = MapThenSumSet(LAMBDA i : taken(i) * list[i].price, S)
    BY <1>1 DEF ShareValue
<1> HIDE DEF before
<1>4. \A i \in S : taken(i) = Taken(list, n, i)
    BY <1>2 DEF Taken
<1> HIDE DEF taken
<1>5. MapThenSumSet(LAMBDA i : taken(i) * list[i].price, S) = It[S]
    BY DEF MapThenSumSet, MapThenFoldSet
<1>6. \A i \in S : /\ LotValues(list, n)[i] = taken(i) * list[i].price
                   /\ LotValues(list, n)[i] \in Int
    <2> SUFFICES ASSUME NEW i \in S
                 PROVE  /\ LotValues(list, n)[i] = taken(i) * list[i].price
                        /\ LotValues(list, n)[i] \in Int
        OBVIOUS
    <2>1. Before(list, i) \in Int /\ Abs(list[i].qty) \in Int
        BY <1>1, BeforeNext
    <2>2. Taken(list, n, i) \in Int
        BY <2>1 DEF Taken, MinOf
    <2>3. list[i].price \in Int
        BY DEF LotList, Lots
    <2>4. LotValues(list, n)[i] = Taken(list, n, i) * list[i].price
        BY DEF LotValues
    <2> QED BY <1>4, <2>2, <2>3, <2>4
<1>7. \A s \in SUBSET S : s # {} => (CHOOSE x \in s : TRUE) \in S
    BY Zenon
<1>8. ASSUME NEW g
      PROVE  Tabulates(g, LotValues(list, n), S) <=>
             g = [s \in SUBSET S |-> IF s = {} THEN 0
                     ELSE taken(CHOOSE x \in s : TRUE) * list[CHOOSE x \in s : TRUE].price
                          + g[s \ {CHOOSE x \in s : TRUE}]]
    <2>1. \A s \in SUBSET S : s # {} =>
              LotValues(list, n)[CHOOSE x \in s : TRUE]
                  = taken(CHOOSE x \in s : TRUE) * list[CHOOSE x \in s : TRUE].price
        BY <1>6, <1>7
    <2> HIDE DEF S
    <2> QED BY <2>1 DEF Tabulates, One
<1>9. PICK g : Tabulates(g, LotValues(list, n), S) /\ SumOver(LotValues(list, n), S) = g[S]
    <2> HIDE DEF S
    <2> QED BY <1>1, <1>6, SumFromTable
<1>10. \E f : f = [s \in SUBSET S |-> IF s = {} THEN 0
                     ELSE taken(CHOOSE x \in s : TRUE) * list[CHOOSE x \in s : TRUE].price
                          + f[s \ {CHOOSE x \in s : TRUE}]]
    <2>1. g = [s \in SUBSET S |-> IF s = {} THEN 0
                     ELSE taken(CHOOSE x \in s : TRUE) * list[CHOOSE x \in s : TRUE].price
                          + g[s \ {CHOOSE x \in s : TRUE}]]
        BY <1>8, <1>9, Zenon
    <2> QED BY <2>1, Zenon
<1>11. It = [s \in SUBSET S |-> IF s = {} THEN 0
                     ELSE taken(CHOOSE x \in s : TRUE) * list[CHOOSE x \in s : TRUE].price
                          + It[s \ {CHOOSE x \in s : TRUE}]]
    BY <1>10, Zenon
<1>12. Tabulates(It, LotValues(list, n), S)
    BY <1>8, <1>11
<1> HIDE DEF It, S
<1>13. It[S] = g[S]
    BY <1>1, <1>6, <1>9, <1>12, OneTable
<1> QED BY <1>3, <1>5, <1>6, <1>9, <1>13 DEF S

(* What the first i lots gave: shares, and their value at the price of the *)
(* trade and at their own prices.                                          *)
ValueInv(a, i, tr, list) ==
    /\ a.needed = IF Before(list, i + 1) >= tr.qty THEN 0 ELSE tr.qty - Before(list, i + 1)
    /\ a.traded = (tr.qty - a.needed) * tr.price
    /\ a.held = SumOver(LotValues(list, tr.qty), 1..i)

(* The values after one more round.                                        *)
LEMMA RoundKeepsValues ==
    ASSUME NEW tr, tr.qty \in Nat, tr.price \in Int, tr.type_is_sell \in BOOLEAN,
           NEW list, LotList(list), \A j \in 1..Len(list) : Sign(tr) * list[j].qty > 0,
           NEW i \in 1..Len(list), NEW a, ValueInv(a, i - 1, tr, list)
    PROVE  ValueInv(LiquidateOne(a, list[i], tr), i, tr, list)
<1> DEFINE h == list[i]
           b == LiquidateOne(a, h, tr)
           u == Taken(list, tr.qty, i)
<1>1. Len(list) \in Nat /\ i \in Nat /\ (i - 1) + 1 = i
    BY DEF LotList
<1>2. /\ Before(list, i) \in Int /\ Before(list, i + 1) = Before(list, i) + Abs(h.qty)
      /\ Abs(h.qty) \in Int /\ Abs(h.qty) > 0
    BY <1>1, BeforeNext
<1>3. h.qty \in Int /\ h.price \in Int /\ Sign(tr) * h.qty > 0
    BY DEF LotList, Lots
<1>4. Abs(h.qty) = Sign(tr) * h.qty
    <2>1. CASE Sign(tr) = 1
        BY <1>3, <2>1 DEF Abs
    <2>2. CASE Sign(tr) = -1
        BY <1>3, <2>2 DEF Abs
    <2> QED BY <2>1, <2>2 DEF Sign
<1>5. a.needed = IF Before(list, i) >= tr.qty THEN 0 ELSE tr.qty - Before(list, i)
    BY <1>1 DEF ValueInv
<1>6. a.needed \in Int
    BY <1>2, <1>5
<1>7. /\ u \in Int
      /\ a.needed <= 0 => u = 0
      /\ a.needed > 0 => u = IF Abs(h.qty) > a.needed THEN a.needed ELSE Abs(h.qty)
    BY <1>2, <1>5 DEF Taken, MinOf
<1>8. b.needed = IF Before(list, i + 1) >= tr.qty THEN 0 ELSE tr.qty - Before(list, i + 1)
    <2>1. b.needed = a.needed - u
        BY <1>4, <1>6, <1>7 DEF LiquidateOne
    <2> HIDE DEF b, u, h
    <2> QED BY <1>2, <1>5, <1>6, <1>7, <2>1
<1>9. /\ b.needed = a.needed - u
      /\ b.traded = a.traded + u * tr.price
      /\ b.held = a.held + u * h.price
    <2>1. CASE a.needed > 0
        BY <1>4, <1>6, <1>7, <2>1 DEF LiquidateOne
    <2>2. CASE a.needed <= 0
        <3>1. b = a /\ u = 0
            BY <1>7, <2>2 DEF LiquidateOne
        <3>2. a.traded \in Int /\ a.held \in Int
            <4>1. a.traded \in Int
                BY <1>6 DEF ValueInv
            <4>2. \A j \in 1..Len(list) : LotValues(list, tr.qty)[j] \in Int
                BY ReferenceValue
            <4>3. IsFiniteSet(1..(i - 1)) /\ 1..(i - 1) \subseteq 1..Len(list)
                <5>1. IsFiniteSet(1..(i - 1))
                    BY <1>1, FS_Interval
                <5>2. 1..(i - 1) \subseteq 1..Len(list)
                    BY <1>1
                <5> QED BY <5>1, <5>2
            <4>4. SumOver(LotValues(list, tr.qty), 1..(i - 1)) \in Int
                BY <4>2, <4>3, SumOfSet
            <4> QED BY <4>1, <4>4 DEF ValueInv
        <3> HIDE DEF b, u, h
        <3> QED BY <1>3, <1>6, <3>1, <3>2
    <2> QED BY <1>6, <2>1, <2>2
<1> HIDE DEF b
<1>10. b.traded = (tr.qty - b.needed) * tr.price
    <2>1. PICK qty \in Int, needed \in Int, price \in Int, used \in Int :
              qty = tr.qty /\ needed = a.needed /\ price = tr.price /\ used = u
        BY <1>6, <1>7
    <2>2. (qty - needed) * price + used * price = (qty - (needed - used)) * price
        OBVIOUS
    <2>3. a.traded = (qty - needed) * price
        BY <2>1 DEF ValueInv
    <2> HIDE DEF u
    <2> QED BY <1>9, <2>1, <2>2, <2>3
<1>11. b.held = SumOver(LotValues(list, tr.qty), 1..i)
    <2>1. \A j \in 1..Len(list) : LotValues(list, tr.qty)[j] \in Int
        BY ReferenceValue
    <2>2. 1..i = (1..(i - 1)) \cup {i} /\ i \notin 1..(i - 1) /\ 1..i \subseteq 1..Len(list)
        BY <1>1
    <2>3. IsFiniteSet(1..(i - 1))
        BY <1>1, FS_Interval
    <2>4. SumOver(LotValues(list, tr.qty), (1..(i - 1)) \cup {i})
              = LotValues(list, tr.qty)[i] + SumOver(LotValues(list, tr.qty), 1..(i - 1))
        BY <2>1, <2>2, <2>3, SumAddElement
    <2>5. LotValues(list, tr.qty)[i] = u * h.price
        BY DEF LotValues
    <2>6. SumOver(LotValues(list, tr.qty), 1..(i - 1)) \in Int
          /\ LotValues(list, tr.qty)[i] \in Int
        BY <2>1, <2>2, <2>3, SumOfSet
    <2>7. a.held = SumOver(LotValues(list, tr.qty), 1..(i - 1))
        BY DEF ValueInv
    <2> HIDE DEF u, h
    <2>8. PICK sum \in Int, value \in Int :
              /\ sum = SumOver(LotValues(list, tr.qty), 1..(i - 1))
              /\ value = LotValues(list, tr.qty)[i]
        BY <2>6
    <2>9. b.held = sum + value
        BY <1>9, <2>5, <2>7, <2>8
    <2>10. SumOver(LotValues(list, tr.qty), 1..i) = value + sum
        BY <2>2, <2>4, <2>8
    <2> QED BY <2>9, <2>10
<1>12. ValueInv(b, i, tr, list)
    BY <1>8, <1>10, <1>11 DEF ValueInv
<1> QED BY <1>12 DEF b

(* The values that the loop leaves.                                        *)
LEMMA LoopValues ==
    ASSUME NEW tr, tr.qty \in Nat, tr.price \in Int, tr.type_is_sell \in BOOLEAN,
           NEW list, LotList(list), \A j \in 1..Len(list) : Sign(tr) * list[j].qty > 0,
           NEW p, NEW acc, IsLoopTo(acc, p, tr, list, Len(list))
    PROVE  ValueInv(acc[Len(list)], Len(list), tr, list)
<1> DEFINE n == Len(list)
           Good(i) == ValueInv(acc[i], i, tr, list)
           Bad == {i \in 0..n : ~Good(i)}
<1>1. n \in Nat
    BY DEF LotList
<1>2. Good(0)
    <2>1. acc[0].needed = tr.qty /\ acc[0].held = 0 /\ acc[0].traded = 0
        BY DEF IsLoopTo, Start
    <2>2. Before(list, 0 + 1) = 0
        BY BeforeNext
    <2>3. SumOver(LotValues(list, tr.qty), 1..0) = 0
        <3>1. 1..0 = {}
            OBVIOUS
        <3> QED BY <3>1, FS_EmptySet, SumOfSet
    <2>4. (tr.qty - tr.qty) * tr.price = 0
        <3>1. tr.qty - tr.qty = 0 /\ 0 * tr.price = 0
            OBVIOUS
        <3> QED BY <3>1
    <2> QED BY <2>1, <2>2, <2>3, <2>4 DEF ValueInv
<1>3. ASSUME NEW i \in 1..n, Good(i - 1)
      PROVE  Good(i)
    <2>1. acc[i] = LiquidateOne(acc[i - 1], list[i], tr)
        BY DEF IsLoopTo
    <2> QED BY <1>3, <2>1, RoundKeepsValues
<1>4. Bad = {}
    <2> SUFFICES ASSUME Bad # {} PROVE FALSE
        OBVIOUS
    <2>1. PICK k \in Bad : \A y \in Bad : k <= y
        <3>1. Bad \subseteq Nat
            BY <1>1
        <3> HIDE DEF Bad
        <3> QED BY <3>1, MinOfNaturals
    <2>2. k \in 1..n /\ k - 1 \in 0..n
        BY <1>1, <1>2, <2>1
    <2>3. k - 1 \notin Bad
        <3> HIDE DEF Bad
        <3> QED BY <2>1, <2>2
    <2>4. Good(k - 1)
        BY <2>2, <2>3
    <2>5. Good(k)
        BY <1>3, <2>2, <2>4
    <2> QED BY <2>1, <2>5
<1> QED BY <1>1, <1>4

(* A trade that asks for more shares than there are takes all of them.     *)
LEMMA TakenIsBounded ==
    ASSUME NEW list, LotList(list), NEW qty \in Nat,
           NEW n, n = IF Before(list, Len(list) + 1) >= qty THEN qty
                      ELSE Before(list, Len(list) + 1)
    PROVE  SumOver(LotValues(list, qty), 1..Len(list)) = ShareValue(list, n)
<1> DEFINE all == Before(list, Len(list) + 1)
<1>1. Len(list) \in Nat /\ Len(list) + 1 \in 1..(Len(list) + 1)
    BY DEF LotList
<1>2. all \in Int /\ n \in Int
    BY <1>1, BeforeNext
<1>3. ASSUME NEW i \in 1..Len(list)
      PROVE  Taken(list, n, i) = Taken(list, qty, i)
    <2>1. /\ Before(list, i) \in Int /\ Abs(list[i].qty) \in Int /\ Abs(list[i].qty) > 0
          /\ Before(list, i + 1) = Before(list, i) + Abs(list[i].qty)
        BY <1>1, BeforeNext
    <2>2. Before(list, i + 1) <= all
        BY <1>1, BeforeGrows
    <2> HIDE DEF all
    <2>3. n = IF all >= qty THEN qty ELSE all
        BY DEF all
    <2> QED BY <1>2, <2>1, <2>2, <2>3 DEF Taken, MinOf
<1>4. /\ ShareValue(list, n) = SumOver(LotValues(list, n), 1..Len(list))
      /\ \A i \in 1..Len(list) : LotValues(list, n)[i] \in Int
    BY <1>2, ReferenceValue
<1>5. \A i \in 1..Len(list) : LotValues(list, qty)[i] = LotValues(list, n)[i]
    BY <1>3 DEF LotValues
<1>6. IsFiniteSet(1..Len(list))
    BY <1>1, FS_Interval
<1>7. SumOver(LotValues(list, qty), 1..Len(list)) = SumOver(LotValues(list, n), 1..Len(list))
    <2>1. PICK e, f : e = LotValues(list, qty) /\ f = LotValues(list, n)
        OBVIOUS
    <2>2. \A i \in 1..Len(list) : f[i] \in Int /\ e[i] = f[i]
        BY <1>4, <1>5, <2>1
    <2>3. SumOver(e, 1..Len(list)) = SumOver(f, 1..Len(list))
        BY <1>6, <2>2, SumsAgree
    <2> QED BY <2>1, <2>3
<1> QED BY <1>4, <1>7

(* Frame 2 computes the values of the reference.                           *)
LEMMA Frame2Values ==
    ASSUME NEW p, NEW D, NEW tr, NEW list, NEW dts, FrameInput(p, D, tr, list, dts)
    PROVE  LET a == Liquidate(p, Frame1HsQty(p), tr, list)
           IN  /\ a.traded = UsedShares(p, tr) * tr.price
               /\ a.held = ShareValue(list, UsedShares(p, tr))
<1> DEFINE a == Liquidate(p, Frame1HsQty(p), tr, list)
           n == UsedShares(p, tr)
           sum == SumQty(p.holding)
<1>1. PICK lifo : list \in HoldLists(p, lifo)
    BY DEF FrameInput
<1>2. /\ SoundPosition(p, D) /\ tr.id \in Trades \ D /\ tr.type_is_sell \in BOOLEAN
      /\ tr.qty \in Nat /\ tr.qty > 0 /\ tr.price \in Int
    BY DEF FrameInput
<1>3. /\ Len(list) \in Nat /\ DOMAIN list = 1..Len(list)
      /\ \A i \in 1..Len(list) : list[i] \in p.holding
    <2>1. IsFiniteSet(p.holding)
        BY <1>2 DEF SoundPosition
    <2> QED BY <1>1, <2>1, ListOfLots
<1>4. LotList(list)
    <2>1. \A h \in p.holding : h \in Lots /\ h.qty # 0
        BY <1>2 DEF SoundPosition, Positions, Lots
    <2> QED BY <1>3, <2>1 DEF LotList
<1>5. sum \in Int /\ Frame1HsQty(p) = sum /\ (Sign(tr) = 1 \/ Sign(tr) = -1)
    BY <1>2, SideOfPosition DEF SoundPosition, Sign
<1>6. Leftover(a, p, tr)
    BY <1>1, <1>2, LiquidateLeaves
<1>7. PICK acc : /\ IsLoopTo(acc, p, tr, list, Len(list))
                 /\ a = acc[IF Sign(tr) * Frame1HsQty(p) > 0 THEN Len(list) ELSE 0]
    BY <1>3, LiquidateIsLoop
<1> HIDE DEF a
<1>8. ASSUME Sign(tr) * sum > 0
      PROVE  a.traded = n * tr.price /\ a.held = ShareValue(list, n)
    <2>1. a = acc[Len(list)]
        BY <1>5, <1>7, <1>8
    <2>2. \A h \in p.holding : Sign(tr) * h.qty > 0
        <3>1. \A h \in p.holding : h.qty \in Int
            BY <1>2 DEF SoundPosition, Positions, Lots
        <3>2. CASE Sign(tr) = 1
            <4>1. SumQty(p.holding) > 0
                BY <1>5, <1>8, <3>2
            <4> QED BY <1>2, <3>1, <3>2, <4>1, SideOfPosition
        <3>3. CASE Sign(tr) = -1
            <4>1. SumQty(p.holding) < 0
                BY <1>5, <1>8, <3>3
            <4> QED BY <1>2, <3>1, <3>3, <4>1, SideOfPosition
        <3> QED BY <1>5, <3>2, <3>3
    <2>3. ValueInv(a, Len(list), tr, list)
        BY <1>2, <1>3, <1>4, <1>7, <2>1, <2>2, LoopValues
    <2>4. /\ a.needed \in 0..tr.qty
          /\ SumQty(a.holding) = sum - Sign(tr) * (tr.qty - a.needed)
          /\ a.holding \in SUBSET Lots /\ IsFiniteSet(a.holding)
          /\ a.needed > 0 => a.holding = {}
          /\ a.needed = 0 => \A h \in a.holding : Sign(tr) * h.qty > 0
        BY <1>6, <1>8 DEF Leftover
    <2>5. /\ SumQty(a.holding) \in Int
          /\ a.needed > 0 => SumQty(a.holding) = 0
          /\ a.needed = 0 => Sign(tr) * SumQty(a.holding) >= 0
        <3>1. /\ SumQty(a.holding) \in Int
              /\ a.holding = {} => SumQty(a.holding) = 0
              /\ a.holding # {} /\ (\A h \in a.holding : h.qty > 0) => SumQty(a.holding) > 0
              /\ a.holding # {} /\ (\A h \in a.holding : h.qty < 0) => SumQty(a.holding) < 0
            BY <2>4, SharesOfLots
        <3>2. \A h \in a.holding : h.qty \in Int
            BY <2>4 DEF Lots
        <3>3. ASSUME a.needed = 0 PROVE Sign(tr) * SumQty(a.holding) >= 0
            <4>1. CASE Sign(tr) = 1
                <5>1. \A h \in a.holding : h.qty > 0
                    BY <2>4, <3>2, <3>3, <4>1
                <5>2. SumQty(a.holding) >= 0
                    BY <3>1, <5>1
                <5> QED BY <3>1, <4>1, <5>2
            <4>2. CASE Sign(tr) = -1
                <5>1. \A h \in a.holding : h.qty < 0
                    BY <2>4, <3>2, <3>3, <4>2
                <5>2. SumQty(a.holding) <= 0
                    BY <3>1, <5>1
                <5> QED BY <3>1, <4>2, <5>2
            <4> QED BY <1>5, <4>1, <4>2
        <3> QED BY <2>4, <3>1, <3>3
    <2>6. n = tr.qty - a.needed
        <3>1. n = MinOf(tr.qty, Abs(sum))
            BY <1>8 DEF UsedShares
        <3>2. PICK qty \in Nat, needed \in Nat, left \in Int, all \in Int :
                  qty = tr.qty /\ needed = a.needed /\ left = SumQty(a.holding) /\ all = sum
            BY <1>2, <1>5, <2>4, <2>5
        <3>3. /\ needed <= qty /\ left = all - Sign(tr) * (qty - needed)
              /\ needed > 0 => left = 0
              /\ needed = 0 => Sign(tr) * left >= 0
              /\ Sign(tr) * all > 0
            BY <1>8, <2>4, <2>5, <3>2
        <3>4. MinOf(qty, Abs(all)) = qty - needed
            <4>1. CASE Sign(tr) = 1
                BY <3>3, <4>1 DEF MinOf, Abs
            <4>2. CASE Sign(tr) = -1
                BY <3>3, <4>2 DEF MinOf, Abs
            <4> QED BY <1>5, <4>1, <4>2
        <3> QED BY <3>1, <3>2, <3>4
    <2>7. n = IF Before(list, Len(list) + 1) >= tr.qty THEN tr.qty
              ELSE Before(list, Len(list) + 1)
        <3>1. Before(list, Len(list) + 1) \in Int
            BY <1>3, <1>4, BeforeNext
        <3>2. a.needed = IF Before(list, Len(list) + 1) >= tr.qty THEN 0
                         ELSE tr.qty - Before(list, Len(list) + 1)
            BY <2>3 DEF ValueInv
        <3> HIDE DEF n
        <3> QED BY <1>2, <2>6, <3>1, <3>2
    <2> HIDE DEF n
    <2>8. a.held = ShareValue(list, n)
        BY <1>2, <1>4, <2>3, <2>7, TakenIsBounded DEF ValueInv
    <2>9. a.traded = n * tr.price
        BY <2>3, <2>6 DEF ValueInv
    <2> QED BY <2>8, <2>9
<1>9. ASSUME ~(Sign(tr) * sum > 0)
      PROVE  a.traded = n * tr.price /\ a.held = ShareValue(list, n)
    <2>1. a.held = 0 /\ a.traded = 0
        BY <1>5, <1>7, <1>9 DEF IsLoopTo, Start
    <2>2. n = 0
        BY <1>9 DEF UsedShares
    <2>3. n * tr.price = 0
        BY <1>2, <2>2
    <2>4. ShareValue(list, 0) = SumOver(LotValues(list, 0), 1..Len(list))
        BY <1>4, ReferenceValue
    <2>5. ASSUME NEW i \in 1..Len(list) PROVE LotValues(list, 0)[i] = 0
        <3>1. Before(list, i) >= 0
            <4>1. i \in 1..(Len(list) + 1)
                BY <1>3
            <4>2. Before(list, i) \in Int /\ 0 <= Before(list, i)
                BY <1>4, <4>1, BeforeNext, BeforeGrows
            <4> QED BY <4>2
        <3>2. Taken(list, 0, i) = 0
            BY <3>1 DEF Taken
        <3>3. list[i].price \in Int
            BY <1>4 DEF LotList, Lots
        <3>4. LotValues(list, 0)[i] = 0 * list[i].price
            BY <3>2 DEF LotValues
        <3> QED BY <3>3, <3>4
    <2>6. IsFiniteSet(1..Len(list))
        BY <1>3, FS_Interval
    <2>7. SumOver(LotValues(list, 0), 1..Len(list)) = 0
        BY <2>5, <2>6, SumOfZeros
    <2> QED BY <2>1, <2>2, <2>3, <2>4, <2>7
<1>10. a.traded = n * tr.price /\ a.held = ShareValue(list, n)
    BY <1>8, <1>9
<1> QED BY <1>10 DEF a

(* ValuesAreSerial: buy_value and sell_value of a trade that commits are   *)
(* those of the reference, computed from the position that the commit      *)
(* replaces, whatever the other transactions did since Frame 1 read it.    *)
THEOREM ValuesAreThoseOfReference == Spec => ValuesAreSerial
<1> DEFINE Values(t) ==
        LET n == UsedShares(position, trade[t])
            held == IF trade[t].type_is_sell THEN result[t].buy_value
                                             ELSE result[t].sell_value
            traded == IF trade[t].type_is_sell THEN result[t].sell_value
                                               ELSE result[t].buy_value
        IN  /\ traded = n * trade[t].price
            /\ \E list \in HoldLists(position, trade[t].is_lifo) :
                   held = ShareValue(list, n)
<1>1. ASSUME HoldingsInv, NEW t \in Trades, pc[t] = "frame2"
      PROVE  Values(t)
    <2>1. ShapeInv /\ FrameInv /\ PositionInv
        BY <1>1 DEF HoldingsInv
    <2>2. PICK list \in HoldLists(position, trade[t].is_lifo) :
              result[t] = Frame2(position, Frame1HsQty(position), trade[t], list,
                                 StoredDts(Impl, began[t]))
        BY <1>1, <2>1 DEF FrameInv
    <2>3. FrameInput(position, Done, trade[t], list, StoredDts(Impl, began[t]))
        <3>1. /\ trade[t].id = t /\ trade[t].type_is_sell \in BOOLEAN
              /\ trade[t].qty \in Nat /\ trade[t].qty > 0 /\ trade[t].price \in Int
            BY <1>1, <2>1, BoundsAssumption DEF ShapeInv, Inputs
        <3>2. StoredDts(Impl, began[t]) \in Int
            BY <2>1, StoredDtsIsTime DEF ShapeInv
        <3>3. t \in Trades \ Done
            BY <1>1 DEF Done
        <3> QED BY <2>1, <3>1, <3>2, <3>3 DEF FrameInput, PositionInv
    <2> DEFINE a == Liquidate(position, Frame1HsQty(position), trade[t], list)
    <2>4. /\ a.traded = UsedShares(position, trade[t]) * trade[t].price
          /\ a.held = ShareValue(list, UsedShares(position, trade[t]))
        BY <2>3, Frame2Values
    <2>5. /\ result[t].buy_value = IF trade[t].type_is_sell THEN a.held ELSE a.traded
          /\ result[t].sell_value = IF trade[t].type_is_sell THEN a.traded ELSE a.held
        BY <2>2 DEF Frame2
    <2> HIDE DEF a
    <2> QED BY <2>4, <2>5
<1>2. HoldingsInv /\ [Next]_vars =>
          [\A t \in Trades : pc[t] = "frame2" /\ pc'[t] = "done" => Values(t)]_vars
    <2> HIDE DEF Values
    <2> QED BY <1>1
<1> QED BY <1>2, HoldingsInvariant, PTL DEF Spec, ValuesAreSerial
=============================================================================
