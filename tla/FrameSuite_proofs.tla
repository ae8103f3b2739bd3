-------------------------- MODULE FrameSuite_proofs --------------------------
(***************************************************************************)
(* Proofs about FrameSuite, for any trades, accounts, lists of ids,        *)
(* limits, rates and loaded tables.                                        *)
(*                                                                         *)
(* Every frame of Trade-Update and Trade-Lookup is a loop over its trades. *)
(* The loops are first put into one form, a run of Body; an invariant of a *)
(* run is then shown round by round, for the least round that would break  *)
(* it.  Four things are shown so: what a round does to tables and counters *)
(* (Effect, RunInv, up to MoneyIsExact), which cells of the arrays it      *)
(* fills and with what (Filled and Added, up to Work), that the rows of an *)
(* answer are those of its trades, and that two implementations run        *)
(* abreast (RunsAbreast), from which their agreement follows.              *)
(***************************************************************************)
EXTENDS FrameSuite, SetTheorems

-----------------------------------------------------------------------------
(* The loops as runs.                                                      *)

ByIds == {"TUF1", "TLF1"}
ByAccount == {"TUF2", "TLF2"}
BySymbol == {"TUF3", "TLF3"}

(* The body of the loop of a frame in an implementation.                   *)
Body(i, frame, acc, t, k, in) ==
    CASE i = "client" /\ frame = "TUF1" ->
             ClientTUF1ReadMore(ClientTUF1Read(ClientTUF1Toggle(acc, t, in), t, k), t, k)
      [] i = "client" /\ frame = "TUF2" ->
             ClientTUF2Read(ClientTUF2Toggle(acc, t, k, in), t, k)
      [] i = "client" /\ frame = "TUF3" ->
             ClientTUF3ReadMore(ClientTUF3Toggle(ClientTUF3Read(acc, t, k), t, in), t, k)
      [] i = "plpgsql" /\ frame = "TUF1" ->
             PlpgsqlTUF1Read(PlpgsqlTUF1Toggle(acc, t, in), t, k)
      [] i = "plpgsql" /\ frame = "TUF2" ->
             PlpgsqlTUF2Read(PlpgsqlTUF2Toggle(acc, t, k, in), t, k)
      [] i = "plpgsql" /\ frame = "TUF3" ->
             PlpgsqlTUF3Read(PlpgsqlTUF3Toggle(acc, t, k, in), t, k)
      [] i = "c" /\ frame = "TUF1" ->
             CTUF1History(CTUF1Cash(CTUF1Settlement(CTUF1Trade(CTUF1Toggle(acc, t, in), t), t), t), t)
      [] i = "c" /\ frame = "TUF2" ->
             CTUF2History(CTUF2Cash(CTUF2Settlement(CTUF2Toggle(CTUF2Trade(acc, t), t, in), t), t), t)
      [] i = "c" /\ frame = "TUF3" ->
             CTUF3History(CTUF3Cash(CTUF3Toggle(CTUF3Settlement(CTUF3Trade(acc, t), t), t, in), t), t)
      [] i = "client" /\ frame = "TLF1" ->
             ClientTLF1More(ClientTLF1Trade(acc, t, k), t, k)
      [] i = "client" /\ frame = "TLF2" ->
             ClientTLF2Row(acc, t, k)
      [] i = "client" /\ frame = "TLF3" ->
             ClientTLF3Row(acc, t, k)
      [] i = "plpgsql" /\ frame = "TLF1" ->
             PlpgsqlTLF1More(PlpgsqlTLF1Trade(acc, t, k), t, k)
      [] i = "plpgsql" /\ frame = "TLF2" ->
             PlpgsqlTLF2Row(acc, t, k)
      [] i = "plpgsql" /\ frame = "TLF3" ->
             PlpgsqlTLF3Row(acc, t, k)
      [] i = "c" /\ frame = "TLF1" ->
             CTLF1History(CTLF1Cash(CTLF1Settlement(CTLF1Trade(acc, t), t), t), t)
      [] i = "c" /\ frame = "TLF2" ->
             CTLF2History(CTLF2Cash(CTLF2Settlement(CTLF2Trade(acc, t), t), t), t)
      [] i = "c" /\ frame = "TLF3" ->
             CTLF3History(CTLF3Cash(CTLF3Settlement(CTLF3Trade(acc, t), t), t), t)

(* The trades of the loop, and the number of its rounds.                   *)
TradesOf(frame, d, in) ==
    CASE frame \in ByIds -> in.trade_id
      [] frame \in ByAccount -> OfAccount(d, in)
      [] frame \in BySymbol -> OfSymbol(d, in)

Rounds(i, frame, d, in) ==
    LET len == Len(TradesOf(frame, d, in))
    IN  CASE i = "client" /\ frame \in ByIds -> Min({in.max_trades, MaxRows})
          [] i = "client" /\ frame \notin ByIds -> Min({len, MaxRows})
          [] i = "plpgsql" /\ frame \in ByIds -> in.max_trades
          [] i = "plpgsql" /\ frame \notin ByIds -> len
          [] i = "c" /\ frame \in ByIds -> Min({in.max_trades, len})
          [] i = "c" /\ frame \notin ByIds -> len

First(i, d) == Start(d, IF i = "c" THEN <<>> ELSE EmptyArray)

(* acc lists what the frame has after each round.                          *)
IsRun(acc, i, frame, d, in, n) ==
    /\ acc[0] = First(i, d)
    /\ \A k \in 1..n :
           acc[k] = Body(i, frame, Anew(acc[k - 1]), TradesOf(frame, d, in)[k], k, in)

(* The frame, and the answer to what its last round leaves.                *)
FrameOf(i, frame, d, in) ==
    CASE i = "client" /\ frame = "TUF1" -> ClientTUF1(d, in)
      [] i = "client" /\ frame = "TUF2" -> ClientTUF2(d, in)
      [] i = "client" /\ frame = "TUF3" -> ClientTUF3(d, in)
      [] i = "plpgsql" /\ frame = "TUF1" -> PlpgsqlTUF1(d, in)
      [] i = "plpgsql" /\ frame = "TUF2" -> PlpgsqlTUF2(d, in)
      [] i = "plpgsql" /\ frame = "TUF3" -> PlpgsqlTUF3(d, in)
      [] i = "c" /\ frame = "TUF1" -> CTUF1(d, in)
      [] i = "c" /\ frame = "TUF2" -> CTUF2(d, in)
      [] i = "c" /\ frame = "TUF3" -> CTUF3(d, in)
      [] i = "client" /\ frame = "TLF1" -> ClientTLF1(d, in)
      [] i = "client" /\ frame = "TLF2" -> ClientTLF2(d, in)
      [] i = "client" /\ frame = "TLF3" -> ClientTLF3(d, in)
      [] i = "plpgsql" /\ frame = "TLF1" -> PlpgsqlTLF1(d, in)
      [] i = "plpgsql" /\ frame = "TLF2" -> PlpgsqlTLF2(d, in)
      [] i = "plpgsql" /\ frame = "TLF3" -> PlpgsqlTLF3(d, in)
      [] i = "c" /\ frame = "TLF1" -> CTLF1(d, in)
      [] i = "c" /\ frame = "TLF2" -> CTLF2(d, in)
      [] i = "c" /\ frame = "TLF3" -> CTLF3(d, in)

Ended(frame, acc, n) == IF frame \in ByIds THEN acc ELSE [acc EXCEPT !.nf = n]

AnswerOf(i, d, acc) ==
    CASE i = "client"  -> ClientAnswer(acc)
      [] i = "plpgsql" -> PlpgsqlRow(acc)
      [] i = "c"       -> CRow(d, acc)

(* The frame is a run.                                                     *)
FrameRuns(i, frame, d, in) ==
    LET n == Rounds(i, frame, d, in)
    IN  \E acc : /\ IsRun(acc, i, frame, d, in, n)
                 /\ FrameOf(i, frame, d, in) = AnswerOf(i, d, Ended(frame, acc[n], n))

(* A run of every length exists.                                           *)
LEMMA RunsExist ==
    ASSUME NEW i, NEW frame, NEW d, NEW in, NEW len \in Nat
    PROVE  \E acc : IsRun(acc, i, frame, d, in, len)
<1> DEFINE Reached(k) == \E acc : IsRun(acc, i, frame, d, in, k)
           Next1(acc, k) ==
               Body(i, frame, Anew(acc[k - 1]), TradesOf(frame, d, in)[k], k, in)
           Bad == {k \in Nat : ~Reached(k)}
<1>1. 0 \notin Bad
    <2>1. IsRun([r \in {0} |-> First(i, d)], i, frame, d, in, 0)
        BY DEF IsRun
    <2> QED BY <2>1
<1>2. Bad = {}
    <2> SUFFICES ASSUME Bad # {} PROVE FALSE
        OBVIOUS
    <2>1. PICK k \in Bad : \A y \in Bad : k <= y
        BY MinOfNaturals
    <2>2. k \in Nat /\ k # 0
        BY <1>1, <2>1
    <2>3. k - 1 \in Nat /\ k - 1 \notin Bad
        <3> HIDE DEF Bad
        <3> QED BY <2>1, <2>2
    <2>4. PICK acc : IsRun(acc, i, frame, d, in, k - 1)
        BY <2>3
    <2> DEFINE more == [r \in 0..k |-> IF r = k THEN Next1(acc, k) ELSE acc[r]]
    <2>5. more[0] = First(i, d)
        BY <2>2, <2>4 DEF IsRun
    <2>6. ASSUME NEW r \in 1..k PROVE more[r] = Next1(more, r)
        <3>1. more[r - 1] = acc[r - 1]
            BY <2>2
        <3>2. CASE r = k
            BY <2>2, <3>1, <3>2
        <3>3. CASE r # k
            <4>1. r \in 1..(k - 1)
                BY <2>2, <3>3
            <4>2. more[r] = acc[r]
                BY <2>2, <3>3
            <4>3. acc[r] = Next1(acc, r)
                BY <2>4, <4>1 DEF IsRun
            <4> QED BY <3>1, <4>2, <4>3
        <3> QED BY <3>2, <3>3
    <2>7. IsRun(more, i, frame, d, in, k)
        <3> HIDE DEF more
        <3> QED BY <2>5, <2>6, Zenon DEF IsRun
    <2> QED BY <2>1, <2>7
<1> QED BY <1>2

(* The run as a recursive function.                                        *)
IsTable(acc, i, frame, d, in, n) ==
    acc = [k \in 0..n |->
               IF k = 0 THEN First(i, d)
               ELSE Body(i, frame, Anew(acc[k - 1]), TradesOf(frame, d, in)[k], k, in)]

(* The run of a loop over a list, as the function of rounds that it is.    *)
LEMMA RunIsFunction ==
    ASSUME NEW i, NEW frame, NEW d, NEW in, NEW len \in Nat
    PROVE  \E acc : IsTable(acc, i, frame, d, in, len)
<1>1. PICK acc : IsRun(acc, i, frame, d, in, len)
    BY RunsExist
<1> DEFINE table == [k \in 0..len |-> acc[k]]
<1>2. table[0] = First(i, d)
    BY <1>1 DEF IsRun
<1>3. \A k \in 0..len : k # 0 =>
          table[k] = Body(i, frame, Anew(table[k - 1]),
                          TradesOf(frame, d, in)[k], k, in)
    <2>1. \A k \in 0..len : k # 0 => k \in 1..len /\ table[k - 1] = acc[k - 1]
        OBVIOUS
    <2> QED BY <1>1, <2>1 DEF IsRun
<1>4. table = [k \in 0..len |-> table[k]]
    OBVIOUS
<1> HIDE DEF table
<1>5. IsTable(table, i, frame, d, in, len)
    BY <1>2, <1>3, <1>4 DEF IsTable
<1> QED BY <1>5

(* The loop of Trade-Update 1 is a run: client.                            *)
LEMMA ClientTUF1IsRun ==
    ASSUME NEW d, NEW in, Rounds("client", "TUF1", d, in) \in Nat
    PROVE  FrameRuns("client", "TUF1", d, in)
<1> DEFINE ts == in.trade_id
           n == Min({in.max_trades, MaxRows})
           Round(acc, k) ==
               IF k = 0 THEN Start(d, EmptyArray)
               ELSE ClientTUF1ReadMore(ClientTUF1Read(ClientTUF1Toggle(
                      Anew(acc[k - 1]), ts[k], in), ts[k], k), ts[k], k)
           It == CHOOSE acc : acc = [k \in 0..n |-> Round(acc, k)]
<1>1. /\ TradesOf("TUF1", d, in) = ts /\ Rounds("client", "TUF1", d, in) = n
      /\ First("client", d) = Start(d, EmptyArray)
      /\ \A acc, t, k : Body("client", "TUF1", acc, t, k, in)
             = ClientTUF1ReadMore(ClientTUF1Read(ClientTUF1Toggle(acc, t, in), t, k), t, k)
    BY DEF TradesOf, Rounds, First, Body, ByIds, ByAccount, BySymbol
<1>2. FrameOf("client", "TUF1", d, in) = AnswerOf("client", d, Ended("TUF1", It[n], n))
    <2>1. ClientTUF1(d, in) = ClientAnswer(It[n])
        BY Zenon DEF ClientTUF1, ForEach
    <2> HIDE DEF It, n
    <2> QED BY <2>1 DEF FrameOf, AnswerOf, Ended, ByIds
<1> HIDE DEF ts, n
<1>3. n \in Nat
    BY <1>1
<1>4. PICK table : IsTable(table, "client", "TUF1", d, in, n)
    BY <1>3, RunIsFunction
<1>5. table = [k \in 0..n |-> Round(table, k)]
    BY <1>1, <1>4 DEF IsTable
<1>6. It = [k \in 0..n |-> Round(It, k)]
    BY <1>5, Zenon
<1> HIDE DEF It
<1>7. It[0] = First("client", d)
    BY <1>1, <1>3, <1>6
<1>8. ASSUME NEW k \in 1..n
      PROVE  It[k] = Body("client", "TUF1", Anew(It[k - 1]),
                          TradesOf("TUF1", d, in)[k], k, in)
    <2>1. k \in 0..n /\ k # 0
        BY <1>3
    <2> QED BY <1>1, <1>6, <2>1
<1>9. IsRun(It, "client", "TUF1", d, in, n)
    BY <1>7, <1>8, Zenon DEF IsRun
<1> QED BY <1>1, <1>2, <1>9, Zenon DEF FrameRuns

(* The loop of Trade-Update 2 is a run: client.                            *)
LEMMA ClientTUF2IsRun ==
    ASSUME NEW d, NEW in, Rounds("client", "TUF2", d, in) \in Nat
    PROVE  FrameRuns("client", "TUF2", d, in)
<1> DEFINE ts == OfAccount(d, in)
           n == Min({Len(ts), MaxRows})
           Round(acc, k) ==
               IF k = 0 THEN Start(d, EmptyArray)
               ELSE ClientTUF2Read(ClientTUF2Toggle(Anew(acc[k - 1]), ts[k], k, in), ts[k], k)
           It == CHOOSE acc : acc = [k \in 0..n |-> Round(acc, k)]
<1>1. /\ TradesOf("TUF2", d, in) = ts /\ Rounds("client", "TUF2", d, in) = n
      /\ First("client", d) = Start(d, EmptyArray)
      /\ \A acc, t, k : Body("client", "TUF2", acc, t, k, in)
             = ClientTUF2Read(ClientTUF2Toggle(acc, t, k, in), t, k)
    BY DEF TradesOf, Rounds, First, Body, ByIds, ByAccount, BySymbol
<1>2. FrameOf("client", "TUF2", d, in) = AnswerOf("client", d, Ended("TUF2", It[n], n))
    <2>1. ClientTUF2(d, in) = ClientAnswer([It[n] EXCEPT !.nf = n])
        BY Zenon DEF ClientTUF2, ForEach
    <2> HIDE DEF It, n
    <2> QED BY <2>1 DEF FrameOf, AnswerOf, Ended, ByIds
<1> HIDE DEF ts, n
<1>3. n \in Nat
    BY <1>1
<1>4. PICK table : IsTable(table, "client", "TUF2", d, in, n)
    BY <1>3, RunIsFunction
<1>5. table = [k \in 0..n |-> Round(table, k)]
    BY <1>1, <1>4 DEF IsTable
<1>6. It = [k \in 0..n |-> Round(It, k)]
    BY <1>5, Zenon
<1> HIDE DEF It
<1>7. It[0] = First("client", d)
    BY <1>1, <1>3, <1>6
<1>8. ASSUME NEW k \in 1..n
      PROVE  It[k] = Body("client", "TUF2", Anew(It[k - 1]),
                          TradesOf("TUF2", d, in)[k], k, in)
    <2>1. k \in 0..n /\ k # 0
        BY <1>3
    <2> QED BY <1>1, <1>6, <2>1
<1>9. IsRun(It, "client", "TUF2", d, in, n)
    BY <1>7, <1>8, Zenon DEF IsRun
<1> QED BY <1>1, <1>2, <1>9, Zenon DEF FrameRuns

(* The loop of Trade-Update 3 is a run: client.                            *)
LEMMA ClientTUF3IsRun ==
    ASSUME NEW d, NEW in, Rounds("client", "TUF3", d, in) \in Nat
    PROVE  FrameRuns("client", "TUF3", d, in)
<1> DEFINE ts == OfSymbol(d, in)
           n == Min({Len(ts), MaxRows})
           Round(acc, k) ==
               IF k = 0 THEN Start(d, EmptyArray)
               ELSE ClientTUF3ReadMore(ClientTUF3Toggle(ClientTUF3Read(
                      Anew(acc[k - 1]), ts[k], k), ts[k], in), ts[k], k)
           It == CHOOSE acc : acc = [k \in 0..n |-> Round(acc, k)]
<1>1. /\ TradesOf("TUF3", d, in) = ts /\ Rounds("client", "TUF3", d, in) = n
      /\ First("client", d) = Start(d, EmptyArray)
      /\ \A acc, t, k : Body("client", "TUF3", acc, t, k, in)
             = ClientTUF3ReadMore(ClientTUF3Toggle(ClientTUF3Read(acc, t, k), t, in), t, k)
    BY DEF TradesOf, Rounds, First, Body, ByIds, ByAccount, BySymbol
<1>2. FrameOf("client", "TUF3", d, in) = AnswerOf("client", d, Ended("TUF3", It[n], n))
    <2>1. ClientTUF3(d, in) = ClientAnswer([It[n] EXCEPT !.nf = n])
        BY Zenon DEF ClientTUF3, ForEach
    <2> HIDE DEF It, n
    <2> QED BY <2>1 DEF FrameOf, AnswerOf, Ended, ByIds
<1> HIDE DEF ts, n
<1>3. n \in Nat
    BY <1>1
<1>4. PICK table : IsTable(table, "client", "TUF3", d, in, n)
    BY <1>3, RunIsFunction
<1>5. table = [k \in 0..n |-> Round(table, k)]
    BY <1>1, <1>4 DEF IsTable
<1>6. It = [k \in 0..n |-> Round(It, k)]
    BY <1>5, Zenon
<1> HIDE DEF It
<1>7. It[0] = First("client", d)
    BY <1>1, <1>3, <1>6
<1>8. ASSUME NEW k \in 1..n
      PROVE  It[k] = Body("client", "TUF3", Anew(It[k - 1]),
                          TradesOf("TUF3", d, in)[k], k, in)
    <2>1. k \in 0..n /\ k # 0
        BY <1>3
    <2> QED BY <1>1, <1>6, <2>1
<1>9. IsRun(It, "client", "TUF3", d, in, n)
    BY <1>7, <1>8, Zenon DEF IsRun
<1> QED BY <1>1, <1>2, <1>9, Zenon DEF FrameRuns

(* The loop of Trade-Update 1 is a run: plpgsql.                           *)
LEMMA PlpgsqlTUF1IsRun ==
    ASSUME NEW d, NEW in, Rounds("plpgsql", "TUF1", d, in) \in Nat
    PROVE  FrameRuns("plpgsql", "TUF1", d, in)
<1> DEFINE ts == in.trade_id
           n == in.max_trades
           Round(acc, k) ==
               IF k = 0 THEN Start(d, EmptyArray)
               ELSE PlpgsqlTUF1Read(PlpgsqlTUF1Toggle(Anew(acc[k - 1]), ts[k], in), ts[k], k)
           It == CHOOSE acc : acc = [k \in 0..n |-> Round(acc, k)]
<1>1. /\ TradesOf("TUF1", d, in) = ts /\ Rounds("plpgsql", "TUF1", d, in) = n
      /\ First("plpgsql", d) = Start(d, EmptyArray)
      /\ \A acc, t, k : Body("plpgsql", "TUF1", acc, t, k, in)
             = PlpgsqlTUF1Read(PlpgsqlTUF1Toggle(acc, t, in), t, k)
    BY DEF TradesOf, Rounds, First, Body, ByIds, ByAccount, BySymbol
<1>2. FrameOf("plpgsql", "TUF1", d, in) = AnswerOf("plpgsql", d, Ended("TUF1", It[n], n))
    <2>1. PlpgsqlTUF1(d, in) = PlpgsqlRow(It[n])
        BY Zenon DEF PlpgsqlTUF1, ForEach
    <2> HIDE DEF It, n
    <2> QED BY <2>1 DEF FrameOf, AnswerOf, Ended, ByIds
<1> HIDE DEF ts, n
<1>3. n \in Nat
    BY <1>1
<1>4. PICK table : IsTable(table, "plpgsql", "TUF1", d, in, n)
    BY <1>3, RunIsFunction
<1>5. table = [k \in 0..n |-> Round(table, k)]
    BY <1>1, <1>4 DEF IsTable
<1>6. It = [k \in 0..n |-> Round(It, k)]
    BY <1>5, Zenon
<1> HIDE DEF It
<1>7. It[0] = First("plpgsql", d)
    BY <1>1, <1>3, <1>6
<1>8. ASSUME NEW k \in 1..n
      PROVE  It[k] = Body("plpgsql", "TUF1", Anew(It[k - 1]),
                          TradesOf("TUF1", d, in)[k], k, in)
    <2>1. k \in 0..n /\ k # 0
        BY <1>3
    <2> QED BY <1>1, <1>6, <2>1
<1>9. IsRun(It, "plpgsql", "TUF1", d, in, n)
    BY <1>7, <1>8, Zenon DEF IsRun
<1> QED BY <1>1, <1>2, <1>9, Zenon DEF FrameRuns

(* The loop of Trade-Update 2 is a run: plpgsql.                           *)
LEMMA PlpgsqlTUF2IsRun ==
    ASSUME NEW d, NEW in, Rounds("plpgsql", "TUF2", d, in) \in Nat
    PROVE  FrameRuns("plpgsql", "TUF2", d, in)
<1> DEFINE ts == OfAccount(d, in)
           n == Len(ts)
           Round(acc, k) ==
               IF k = 0 THEN Start(d, EmptyArray)
               ELSE PlpgsqlTUF2Read(PlpgsqlTUF2Toggle(Anew(acc[k - 1]), ts[k], k, in), ts[k], k)
           It == CHOOSE acc : acc = [k \in 0..n |-> Round(acc, k)]
<1>1. /\ TradesOf("TUF2", d, in) = ts /\ Rounds("plpgsql", "TUF2", d, in) = n
      /\ First("plpgsql", d) = Start(d, EmptyArray)
      /\ \A acc, t, k : Body("plpgsql", "TUF2", acc, t, k, in)
             = PlpgsqlTUF2Read(PlpgsqlTUF2Toggle(acc, t, k, in), t, k)
    BY DEF TradesOf, Rounds, First, Body, ByIds, ByAccount, BySymbol
<1>2. FrameOf("plpgsql", "TUF2", d, in) = AnswerOf("plpgsql", d, Ended("TUF2", It[n], n))
    <2>1. PlpgsqlTUF2(d, in) = PlpgsqlRow([It[n] EXCEPT !.nf = n])
        BY Zenon DEF PlpgsqlTUF2, ForEach
    <2> HIDE DEF It, n
    <2> QED BY <2>1 DEF FrameOf, AnswerOf, Ended, ByIds
<1> HIDE DEF ts, n
<1>3. n \in Nat
    BY <1>1
<1>4. PICK table : IsTable(table, "plpgsql", "TUF2", d, in, n)
    BY <1>3, RunIsFunction
<1>5. table = [k \in 0..n |-> Round(table, k)]
    BY <1>1, <1>4 DEF IsTable
<1>6. It = [k \in 0..n |-> Round(It, k)]
    BY <1>5, Zenon
<1> HIDE DEF It
<1>7. It[0] = First("plpgsql", d)
    BY <1>1, <1>3, <1>6
<1>8. ASSUME NEW k \in 1..n
      PROVE  It[k] = Body("plpgsql", "TUF2", Anew(It[k - 1]),
                          TradesOf("TUF2", d, in)[k], k, in)
    <2>1. k \in 0..n /\ k # 0
        BY <1>3
    <2> QED BY <1>1, <1>6, <2>1
<1>9. IsRun(It, "plpgsql", "TUF2", d, in, n)
    BY <1>7, <1>8, Zenon DEF IsRun
<1> QED BY <1>1, <1>2, <1>9, Zenon DEF FrameRuns

(* The loop of Trade-Update 3 is a run: plpgsql.                           *)
LEMMA PlpgsqlTUF3IsRun ==
    ASSUME NEW d, NEW in, Rounds("plpgsql", "TUF3", d, in) \in Nat
    PROVE  FrameRuns("plpgsql", "TUF3", d, in)
<1> DEFINE ts == OfSymbol(d, in)
           n == Len(ts)
           Round(acc, k) ==
               IF k = 0 THEN Start(d, EmptyArray)
               ELSE PlpgsqlTUF3Read(PlpgsqlTUF3Toggle(Anew(acc[k - 1]), ts[k], k, in), ts[k], k)
           It == CHOOSE acc : acc = [k \in 0..n |-> Round(acc, k)]
<1>1. /\ TradesOf("TUF3", d, in) = ts /\ Rounds("plpgsql", "TUF3", d, in) = n
      /\ First("plpgsql", d) = Start(d, EmptyArray)
      /\ \A acc, t, k : Body("plpgsql", "TUF3", acc, t, k, in)
             = PlpgsqlTUF3Read(PlpgsqlTUF3Toggle(acc, t, k, in), t, k)
    BY DEF TradesOf, Rounds, First, Body, ByIds, ByAccount, BySymbol
<1>2. FrameOf("plpgsql", "TUF3", d, in) = AnswerOf("plpgsql", d, Ended("TUF3", It[n], n))
    <2>1. PlpgsqlTUF3(d, in) = PlpgsqlRow([It[n] EXCEPT !.nf = n])
        BY Zenon DEF PlpgsqlTUF3, ForEach
    <2> HIDE DEF It, n
    <2> QED BY <2>1 DEF FrameOf, AnswerOf, Ended, ByIds
<1> HIDE DEF ts, n
<1>3. n \in Nat
    BY <1>1
<1>4. PICK table : IsTable(table, "plpgsql", "TUF3", d, in, n)
    BY <1>3, RunIsFunction
<1>5. table = [k \in 0..n |-> Round(table, k)]
    BY <1>1, <1>4 DEF IsTable
<1>6. It = [k \in 0..n |-> Round(It, k)]
    BY <1>5, Zenon
<1> HIDE DEF It
<1>7. It[0] = First("plpgsql", d)
    BY <1>1, <1>3, <1>6
<1>8. ASSUME NEW k \in 1..n
      PROVE  It[k] = Body("plpgsql", "TUF3", Anew(It[k - 1]),
                          TradesOf("TUF3", d, in)[k], k, in)
    <2>1. k \in 0..n /\ k # 0
        BY <1>3
    <2> QED BY <1>1, <1>6, <2>1
<1>9. IsRun(It, "plpgsql", "TUF3", d, in, n)
    BY <1>7, <1>8, Zenon DEF IsRun
<1> QED BY <1>1, <1>2, <1>9, Zenon DEF FrameRuns

(* The loop of Trade-Update 1 is a run: C.                                 *)
LEMMA CTUF1IsRun ==
    ASSUME NEW d, NEW in, Rounds("c", "TUF1", d, in) \in Nat
    PROVE  FrameRuns("c", "TUF1", d, in)
<1> DEFINE ts == in.trade_id
           n == Min({in.max_trades, Len(ts)})
           Round(acc, k) ==
               IF k = 0 THEN Start(d, <<>>)
               ELSE CTUF1History(CTUF1Cash(CTUF1Settlement(CTUF1Trade(CTUF1Toggle(
                      Anew(acc[k - 1]), ts[k], in), ts[k]), ts[k]), ts[k]), ts[k])
           It == CHOOSE acc : acc = [k \in 0..n |-> Round(acc, k)]
<1>1. /\ TradesOf("TUF1", d, in) = ts /\ Rounds("c", "TUF1", d, in) = n
      /\ First("c", d) = Start(d, <<>>)
      /\ \A acc, t, k : Body("c", "TUF1", acc, t, k, in)
             = CTUF1History(CTUF1Cash(CTUF1Settlement(CTUF1Trade(CTUF1Toggle(acc, t, in), t), t), t), t)
    BY DEF TradesOf, Rounds, First, Body, ByIds, ByAccount, BySymbol
<1>2. FrameOf("c", "TUF1", d, in) = AnswerOf("c", d, Ended("TUF1", It[n], n))
    <2>1. CTUF1(d, in) = CRow(d, It[n])
        BY Zenon DEF CTUF1, ForEach, CTUF1Trades
    <2> HIDE DEF It, n
    <2> QED BY <2>1 DEF FrameOf, AnswerOf, Ended, ByIds
<1> HIDE DEF ts, n
<1>3. n \in Nat
    BY <1>1
<1>4. PICK table : IsTable(table, "c", "TUF1", d, in, n)
    BY <1>3, RunIsFunction
<1>5. table = [k \in 0..n |-> Round(table, k)]
    BY <1>1, <1>4 DEF IsTable
<1>6. It = [k \in 0..n |-> Round(It, k)]
    BY <1>5, Zenon
<1> HIDE DEF It
<1>7. It[0] = First("c", d)
    BY <1>1, <1>3, <1>6
<1>8. ASSUME NEW k \in 1..n
      PROVE  It[k] = Body("c", "TUF1", Anew(It[k - 1]),
                          TradesOf("TUF1", d, in)[k], k, in)
    <2>1. k \in 0..n /\ k # 0
        BY <1>3
    <2> QED BY <1>1, <1>6, <2>1
<1>9. IsRun(It, "c", "TUF1", d, in, n)
    BY <1>7, <1>8, Zenon DEF IsRun
<1> QED BY <1>1, <1>2, <1>9, Zenon DEF FrameRuns

(* The loop of Trade-Update 2 is a run: C.                                 *)
LEMMA CTUF2IsRun ==
    ASSUME NEW d, NEW in, Rounds("c", "TUF2", d, in) \in Nat
    PROVE  FrameRuns("c", "TUF2", d, in)
<1> DEFINE ts == OfAccount(d, in)
           n == Len(ts)
           Round(acc, k) ==
               IF k = 0 THEN Start(d, <<>>)
               ELSE CTUF2History(CTUF2Cash(CTUF2Settlement(CTUF2Toggle(CTUF2Trade(
                      Anew(acc[k - 1]), ts[k]), ts[k], in), ts[k]), ts[k]), ts[k])
           It == CHOOSE acc : acc = [k \in 0..n |-> Round(acc, k)]
<1>1. /\ TradesOf("TUF2", d, in) = ts /\ Rounds("c", "TUF2", d, in) = n
      /\ First("c", d) = Start(d, <<>>)
      /\ \A acc, t, k : Body("c", "TUF2", acc, t, k, in)
             = CTUF2History(CTUF2Cash(CTUF2Settlement(CTUF2Toggle(CTUF2Trade(acc, t), t, in), t), t), t)
    BY DEF TradesOf, Rounds, First, Body, ByIds, ByAccount, BySymbol
<1>2. FrameOf("c", "TUF2", d, in) = AnswerOf("c", d, Ended("TUF2", It[n], n))
    <2>1. CTUF2(d, in) = CRow(d, [It[n] EXCEPT !.nf = n])
        BY Zenon DEF CTUF2, ForEach
    <2> HIDE DEF It, n
    <2> QED BY <2>1 DEF FrameOf, AnswerOf, Ended, ByIds
<1> HIDE DEF ts, n
<1>3. n \in Nat
    BY <1>1
<1>4. PICK table : IsTable(table, "c", "TUF2", d, in, n)
    BY <1>3, RunIsFunction
<1>5. table = [k \in 0..n |-> Round(table, k)]
    BY <1>1, <1>4 DEF IsTable
<1>6. It = [k \in 0..n |-> Round(It, k)]
    BY <1>5, Zenon
<1> HIDE DEF It
<1>7. It[0] = First("c", d)
    BY <1>1, <1>3, <1>6
<1>8. ASSUME NEW k \in 1..n
      PROVE  It[k] = Body("c", "TUF2", Anew(It[k - 1]),
                          TradesOf("TUF2", d, in)[k], k, in)
    <2>1. k \in 0..n /\ k # 0
        BY <1>3
    <2> QED BY <1>1, <1>6, <2>1
<1>9. IsRun(It, "c", "TUF2", d, in, n)
    BY <1>7, <1>8, Zenon DEF IsRun
<1> QED BY <1>1, <1>2, <1>9, Zenon DEF FrameRuns

(* The loop of Trade-Update 3 is a run: C.                                 *)
LEMMA CTUF3IsRun ==
    ASSUME NEW d, NEW in, Rounds("c", "TUF3", d, in) \in Nat
    PROVE  FrameRuns("c", "TUF3", d, in)
<1> DEFINE ts == OfSymbol(d, in)
           n == Len(ts)
           Round(acc, k) ==
               IF k = 0 THEN Start(d, <<>>)
               ELSE CTUF3History(CTUF3Cash(CTUF3Toggle(CTUF3Settlement(CTUF3Trade(
                      Anew(acc[k - 1]), ts[k]), ts[k]), ts[k], in), ts[k]), ts[k])
           It == CHOOSE acc : acc = [k \in 0..n |-> Round(acc, k)]
<1>1. /\ TradesOf("TUF3", d, in) = ts /\ Rounds("c", "TUF3", d, in) = n
      /\ First("c", d) = Start(d, <<>>)
      /\ \A acc, t, k : Body("c", "TUF3", acc, t, k, in)
             = CTUF3History(CTUF3Cash(CTUF3Toggle(CTUF3Settlement(CTUF3Trade(acc, t), t), t, in), t), t)
    BY DEF TradesOf, Rounds, First, Body, ByIds, ByAccount, BySymbol
<1>2. FrameOf("c", "TUF3", d, in) = AnswerOf("c", d, Ended("TUF3", It[n], n))
    <2>1. CTUF3(d, in) = CRow(d, [It[n] EXCEPT !.nf = n])
        BY Zenon DEF CTUF3, ForEach
    <2> HIDE DEF It, n
    <2> QED BY <2>1 DEF FrameOf, AnswerOf, Ended, ByIds
<1> HIDE DEF ts, n
<1>3. n \in Nat
    BY <1>1
<1>4. PICK table : IsTable(table, "c", "TUF3", d, in, n)
    BY <1>3, RunIsFunction
<1>5. table = [k \in 0..n |-> Round(table, k)]
    BY <1>1, <1>4 DEF IsTable
<1>6. It = [k \in 0..n |-> Round(It, k)]
    BY <1>5, Zenon
<1> HIDE DEF It
<1>7. It[0] = First("c", d)
    BY <1>1, <1>3, <1>6
<1>8. ASSUME NEW k \in 1..n
      PROVE  It[k] = Body("c", "TUF3", Anew(It[k - 1]),
                          TradesOf("TUF3", d, in)[k], k, in)
    <2>1. k \in 0..n /\ k # 0
        BY <1>3
    <2> QED BY <1>1, <1>6, <2>1
<1>9. IsRun(It, "c", "TUF3", d, in, n)
    BY <1>7, <1>8, Zenon DEF IsRun
<1> QED BY <1>1, <1>2, <1>9, Zenon DEF FrameRuns

(* The loop of Trade-Lookup 1 is a run: client.                            *)
LEMMA ClientTLF1IsRun ==
    ASSUME NEW d, NEW in, Rounds("client", "TLF1", d, in) \in Nat
    PROVE  FrameRuns("client", "TLF1", d, in)
<1> DEFINE ts == in.trade_id
           n == Min({in.max_trades, MaxRows})
           Round(acc, k) ==
               IF k = 0 THEN Start(d, EmptyArray)
               ELSE ClientTLF1More(ClientTLF1Trade(Anew(acc[k - 1]), ts[k], k), ts[k], k)
           It == CHOOSE acc : acc = [k \in 0..n |-> Round(acc, k)]
<1>1. /\ TradesOf("TLF1", d, in) = ts /\ Rounds("client", "TLF1", d, in) = n
      /\ First("client", d) = Start(d, EmptyArray)
      /\ \A acc, t, k : Body("client", "TLF1", acc, t, k, in)
             = ClientTLF1More(ClientTLF1Trade(acc, t, k), t, k)
    BY DEF TradesOf, Rounds, First, Body, ByIds, ByAccount, BySymbol
<1>2. FrameOf("client", "TLF1", d, in) = AnswerOf("client", d, Ended("TLF1", It[n], n))
    <2>1. ClientTLF1(d, in) = ClientAnswer(It[n])
        BY Zenon DEF ClientTLF1, ForEach
    <2> HIDE DEF It, n
    <2> QED BY <2>1 DEF FrameOf, AnswerOf, Ended, ByIds
<1> HIDE DEF ts, n
<1>3. n \in Nat
    BY <1>1
<1>4. PICK table : IsTable(table, "client", "TLF1", d, in, n)
    BY <1>3, RunIsFunction
<1>5. table = [k \in 0..n |-> Round(table, k)]
    BY <1>1, <1>4 DEF IsTable
<1>6. It = [k \in 0..n |-> Round(It, k)]
    BY <1>5, Zenon
<1> HIDE DEF It
<1>7. It[0] = First("client", d)
    BY <1>1, <1>3, <1>6
<1>8. ASSUME NEW k \in 1..n
      PROVE  It[k] = Body("client", "TLF1", Anew(It[k - 1]),
                          TradesOf("TLF1", d, in)[k], k, in)
    <2>1. k \in 0..n /\ k # 0
        BY <1>3
    <2> QED BY <1>1, <1>6, <2>1
<1>9. IsRun(It, "client", "TLF1", d, in, n)
    BY <1>7, <1>8, Zenon DEF IsRun
<1> QED BY <1>1, <1>2, <1>9, Zenon DEF FrameRuns

(* The loop of Trade-Lookup 2 is a run: client.                            *)
LEMMA ClientTLF2IsRun ==
    ASSUME NEW d, NEW in, Rounds("client", "TLF2", d, in) \in Nat
    PROVE  FrameRuns("client", "TLF2", d, in)
<1> DEFINE ts == OfAccount(d, in)
           n == Min({Len(ts), MaxRows})
           Round(acc, k) ==
               IF k = 0 THEN Start(d, EmptyArray)
               ELSE ClientTLF2Row(Anew(acc[k - 1]), ts[k], k)
           It == CHOOSE acc : acc = [k \in 0..n |-> Round(acc, k)]
<1>1. /\ TradesOf("TLF2", d, in) = ts /\ Rounds("client", "TLF2", d, in) = n
      /\ First("client", d) = Start(d, EmptyArray)
      /\ \A acc, t, k : Body("client", "TLF2", acc, t, k, in)
             = ClientTLF2Row(acc, t, k)
    BY DEF TradesOf, Rounds, First, Body, ByIds, ByAccount, BySymbol
<1>2. FrameOf("client", "TLF2", d, in) = AnswerOf("client", d, Ended("TLF2", It[n], n))
    <2>1. ClientTLF2(d, in) = ClientAnswer([It[n] EXCEPT !.nf = n])
        BY Zenon DEF ClientTLF2, ForEach
    <2> HIDE DEF It, n
    <2> QED BY <2>1 DEF FrameOf, AnswerOf, Ended, ByIds
<1> HIDE DEF ts, n
<1>3. n \in Nat
    BY <1>1
<1>4. PICK table : IsTable(table, "client", "TLF2", d, in, n)
    BY <1>3, RunIsFunction
<1>5. table = [k \in 0..n |-> Round(table, k)]
    BY <1>1, <1>4 DEF IsTable
<1>6. It = [k \in 0..n |-> Round(It, k)]
    BY <1>5, Zenon
<1> HIDE DEF It
<1>7. It[0] = First("client", d)
    BY <1>1, <1>3, <1>6
<1>8. ASSUME NEW k \in 1..n
      PROVE  It[k] = Body("client", "TLF2", Anew(It[k - 1]),
                          TradesOf("TLF2", d, in)[k], k, in)
    <2>1. k \in 0..n /\ k # 0
        BY <1>3
    <2> QED BY <1>1, <1>6, <2>1
<1>9. IsRun(It, "client", "TLF2", d, in, n)
    BY <1>7, <1>8, Zenon DEF IsRun
<1> QED BY <1>1, <1>2, <1>9, Zenon DEF FrameRuns

(* The loop of Trade-Lookup 3 is a run: client.                            *)
LEMMA ClientTLF3IsRun ==
    ASSUME NEW d, NEW in, Rounds("client", "TLF3", d, in) \in Nat
    PROVE  FrameRuns("client", "TLF3", d, in)
<1> DEFINE ts == OfSymbol(d, in)
           n == Min({Len(ts), MaxRows})
           Round(acc, k) ==
               IF k = 0 THEN Start(d, EmptyArray)
               ELSE ClientTLF3Row(Anew(acc[k - 1]), ts[k], k)
           It == CHOOSE acc : acc = [k \in 0..n |-> Round(acc, k)]
<1>1. /\ TradesOf("TLF3", d, in) = ts /\ Rounds("client", "TLF3", d, in) = n
      /\ First("client", d) = Start(d, EmptyArray)
      /\ \A acc, t, k : Body("client", "TLF3", acc, t, k, in)
             = ClientTLF3Row(acc, t, k)
    BY DEF TradesOf, Rounds, First, Body, ByIds, ByAccount, BySymbol
<1>2. FrameOf("client", "TLF3", d, in) = AnswerOf("client", d, Ended("TLF3", It[n], n))
    <2>1. ClientTLF3(d, in) = ClientAnswer([It[n] EXCEPT !.nf = n])
        BY Zenon DEF ClientTLF3, ForEach
    <2> HIDE DEF It, n
    <2> QED BY <2>1 DEF FrameOf, AnswerOf, Ended, ByIds
<1> HIDE DEF ts, n
<1>3. n \in Nat
    BY <1>1
<1>4. PICK table : IsTable(table, "client", "TLF3", d, in, n)
    BY <1>3, RunIsFunction
<1>5. table = [k \in 0..n |-> Round(table, k)]
    BY <1>1, <1>4 DEF IsTable
<1>6. It = [k \in 0..n |-> Round(It, k)]
    BY <1>5, Zenon
<1> HIDE DEF It
<1>7. It[0] = First("client", d)
    BY <1>1, <1>3, <1>6
<1>8. ASSUME NEW k \in 1..n
      PROVE  It[k] = Body("client", "TLF3", Anew(It[k - 1]),
                          TradesOf("TLF3", d, in)[k], k, in)
    <2>1. k \in 0..n /\ k # 0
        BY <1>3
    <2> QED BY <1>1, <1>6, <2>1
<1>9. IsRun(It, "client", "TLF3", d, in, n)
    BY <1>7, <1>8, Zenon DEF IsRun
<1> QED BY <1>1, <1>2, <1>9, Zenon DEF FrameRuns

(* The loop of Trade-Lookup 1 is a run: plpgsql.                           *)
LEMMA PlpgsqlTLF1IsRun ==
    ASSUME NEW d, NEW in, Rounds("plpgsql", "TLF1", d, in) \in Nat
    PROVE  FrameRuns("plpgsql", "TLF1", d, in)
<1> DEFINE ts == in.trade_id
           n == in.max_trades
           Round(acc, k) ==
               IF k = 0 THEN Start(d, EmptyArray)
               ELSE PlpgsqlTLF1More(PlpgsqlTLF1Trade(Anew(acc[k - 1]), ts[k], k), ts[k], k)
           It == CHOOSE acc : acc = [k \in 0..n |-> Round(acc, k)]
<1>1. /\ TradesOf("TLF1", d, in) = ts /\ Rounds("plpgsql", "TLF1", d, in) = n
      /\ First("plpgsql", d) = Start(d, EmptyArray)
      /\ \A acc, t, k : Body("plpgsql", "TLF1", acc, t, k, in)
             = PlpgsqlTLF1More(PlpgsqlTLF1Trade(acc, t, k), t, k)
    BY DEF TradesOf, Rounds, First, Body, ByIds, ByAccount, BySymbol
<1>2. FrameOf("plpgsql", "TLF1", d, in) = AnswerOf("plpgsql", d, Ended("TLF1", It[n], n))
    <2>1. PlpgsqlTLF1(d, in) = PlpgsqlRow(It[n])
        BY Zenon DEF PlpgsqlTLF1, ForEach
    <2> HIDE DEF It, n
    <2> QED BY <2>1 DEF FrameOf, AnswerOf, Ended, ByIds
<1> HIDE DEF ts, n
<1>3. n \in Nat
    BY <1>1
<1>4. PICK table : IsTable(table, "plpgsql", "TLF1", d, in, n)
    BY <1>3, RunIsFunction
<1>5. table = [k \in 0..n |-> Round(table, k)]
    BY <1>1, <1>4 DEF IsTable
<1>6. It = [k \in 0..n |-> Round(It, k)]
    BY <1>5, Zenon
<1> HIDE DEF It
<1>7. It[0] = First("plpgsql", d)
    BY <1>1, <1>3, <1>6
<1>8. ASSUME NEW k \in 1..n
      PROVE  It[k] = Body("plpgsql", "TLF1", Anew(It[k - 1]),
                          TradesOf("TLF1", d, in)[k], k, in)
    <2>1. k \in 0..n /\ k # 0
        BY <1>3
    <2> QED BY <1>1, <1>6, <2>1
<1>9. IsRun(It, "plpgsql", "TLF1", d, in, n)
    BY <1>7, <1>8, Zenon DEF IsRun
<1> QED BY <1>1, <1>2, <1>9, Zenon DEF FrameRuns

(* The loop of Trade-Lookup 2 is a run: plpgsql.                           *)
LEMMA PlpgsqlTLF2IsRun ==
    ASSUME NEW d, NEW in, Rounds("plpgsql", "TLF2", d, in) \in Nat
    PROVE  FrameRuns("plpgsql", "TLF2", d, in)
<1> DEFINE ts == OfAccount(d, in)
           n == Len(ts)
           Round(acc, k) ==
               IF k = 0 THEN Start(d, EmptyArray)
               ELSE PlpgsqlTLF2Row(Anew(acc[k - 1]), ts[k], k)
           It == CHOOSE acc : acc = [k \in 0..n |-> Round(acc, k)]
<1>1. /\ TradesOf("TLF2", d, in) = ts /\ Rounds("plpgsql", "TLF2", d, in) = n
      /\ First("plpgsql", d) = Start(d, EmptyArray)
      /\ \A acc, t, k : Body("plpgsql", "TLF2", acc, t, k, in)
             = PlpgsqlTLF2Row(acc, t, k)
    BY DEF TradesOf, Rounds, First, Body, ByIds, ByAccount, BySymbol
<1>2. FrameOf("plpgsql", "TLF2", d, in) = AnswerOf("plpgsql", d, Ended("TLF2", It[n], n))
    <2>1. PlpgsqlTLF2(d, in) = PlpgsqlRow([It[n] EXCEPT !.nf = n])
        BY Zenon DEF PlpgsqlTLF2, ForEach
    <2> HIDE DEF It, n
    <2> QED BY <2>1 DEF FrameOf, AnswerOf, Ended, ByIds
<1> HIDE DEF ts, n
<1>3. n \in Nat
    BY <1>1
<1>4. PICK table : IsTable(table, "plpgsql", "TLF2", d, in, n)
    BY <1>3, RunIsFunction
<1>5. table = [k \in 0..n |-> Round(table, k)]
    BY <1>1, <1>4 DEF IsTable
<1>6. It = [k \in 0..n |-> Round(It, k)]
    BY <1>5, Zenon
<1> HIDE DEF It
<1>7. It[0] = First("plpgsql", d)
    BY <1>1, <1>3, <1>6
<1>8. ASSUME NEW k \in 1..n
      PROVE  It[k] = Body("plpgsql", "TLF2", Anew(It[k - 1]),
                          TradesOf("TLF2", d, in)[k], k, in)
    <2>1. k \in 0..n /\ k # 0
        BY <1>3
    <2> QED BY <1>1, <1>6, <2>1
<1>9. IsRun(It, "plpgsql", "TLF2", d, in, n)
    BY <1>7, <1>8, Zenon DEF IsRun
<1> QED BY <1>1, <1>2, <1>9, Zenon DEF FrameRuns

(* The loop of Trade-Lookup 3 is a run: plpgsql.                           *)
LEMMA PlpgsqlTLF3IsRun ==
    ASSUME NEW d, NEW in, Rounds("plpgsql", "TLF3", d, in) \in Nat
    PROVE  FrameRuns("plpgsql", "TLF3", d, in)
<1> DEFINE ts == OfSymbol(d, in)
           n == Len(ts)
           Round(acc, k) ==
               IF k = 0 THEN Start(d, EmptyArray)
               ELSE PlpgsqlTLF3Row(Anew(acc[k - 1]), ts[k], k)
           It == CHOOSE acc : acc = [k \in 0..n |-> Round(acc, k)]
<1>1. /\ TradesOf("TLF3", d, in) = ts /\ Rounds("plpgsql", "TLF3", d, in) = n
      /\ First("plpgsql", d) = Start(d, EmptyArray)
      /\ \A acc, t, k : Body("plpgsql", "TLF3", acc, t, k, in)
             = PlpgsqlTLF3Row(acc, t, k)
    BY DEF TradesOf, Rounds, First, Body, ByIds, ByAccount, BySymbol
<1>2. FrameOf("plpgsql", "TLF3", d, in) = AnswerOf("plpgsql", d, Ended("TLF3", It[n], n))
    <2>1. PlpgsqlTLF3(d, in) = PlpgsqlRow([It[n] EXCEPT !.nf = n])
        BY Zenon DEF PlpgsqlTLF3, ForEach
    <2> HIDE DEF It, n
    <2> QED BY <2>1 DEF FrameOf, AnswerOf, Ended, ByIds
<1> HIDE DEF ts, n
<1>3. n \in Nat
    BY <1>1
<1>4. PICK table : IsTable(table, "plpgsql", "TLF3", d, in, n)
    BY <1>3, RunIsFunction
<1>5. table = [k \in 0..n |-> Round(table, k)]
    BY <1>1, <1>4 DEF IsTable
<1>6. It = [k \in 0..n |-> Round(It, k)]
    BY <1>5, Zenon
<1> HIDE DEF It
<1>7. It[0] = First("plpgsql", d)
    BY <1>1, <1>3, <1>6
<1>8. ASSUME NEW k \in 1..n
      PROVE  It[k] = Body("plpgsql", "TLF3", Anew(It[k - 1]),
                          TradesOf("TLF3", d, in)[k], k, in)
    <2>1. k \in 0..n /\ k # 0
        BY <1>3
    <2> QED BY <1>1, <1>6, <2>1
<1>9. IsRun(It, "plpgsql", "TLF3", d, in, n)
    BY <1>7, <1>8, Zenon DEF IsRun
<1> QED BY <1>1, <1>2, <1>9, Zenon DEF FrameRuns

(* The loop of Trade-Lookup 1 is a run: C.                                 *)
LEMMA CTLF1IsRun ==
    ASSUME NEW d, NEW in, Rounds("c", "TLF1", d, in) \in Nat
    PROVE  FrameRuns("c", "TLF1", d, in)
<1> DEFINE ts == in.trade_id
           n == Min({in.max_trades, Len(ts)})
           Round(acc, k) ==
               IF k = 0 THEN Start(d, <<>>)
               ELSE CTLF1History(CTLF1Cash(CTLF1Settlement(CTLF1Trade(
                      Anew(acc[k - 1]), ts[k]), ts[k]), ts[k]), ts[k])
           It == CHOOSE acc : acc = [k \in 0..n |-> Round(acc, k)]
<1>1. /\ TradesOf("TLF1", d, in) = ts /\ Rounds("c", "TLF1", d, in) = n
      /\ First("c", d) = Start(d, <<>>)
      /\ \A acc, t, k : Body("c", "TLF1", acc, t, k, in)
             = CTLF1History(CTLF1Cash(CTLF1Settlement(CTLF1Trade(acc, t), t), t), t)
    BY DEF TradesOf, Rounds, First, Body, ByIds, ByAccount, BySymbol
<1>2. FrameOf("c", "TLF1", d, in) = AnswerOf("c", d, Ended("TLF1", It[n], n))
    <2>1. CTLF1(d, in) = CRow(d, It[n])
        BY Zenon DEF CTLF1, ForEach, CTLF1Trades
    <2> HIDE DEF It, n
    <2> QED BY <2>1 DEF FrameOf, AnswerOf, Ended, ByIds
<1> HIDE DEF ts, n
<1>3. n \in Nat
    BY <1>1
<1>4. PICK table : IsTable(table, "c", "TLF1", d, in, n)
    BY <1>3, RunIsFunction
<1>5. table = [k \in 0..n |-> Round(table, k)]
    BY <1>1, <1>4 DEF IsTable
<1>6. It = [k \in 0..n |-> Round(It, k)]
    BY <1>5, Zenon
<1> HIDE DEF It
<1>7. It[0] = First("c", d)
    BY <1>1, <1>3, <1>6
<1>8. ASSUME NEW k \in 1..n
      PROVE  It[k] = Body("c", "TLF1", Anew(It[k - 1]),
                          TradesOf("TLF1", d, in)[k], k, in)
    <2>1. k \in 0..n /\ k # 0
        BY <1>3
    <2> QED BY <1>1, <1>6, <2>1
<1>9. IsRun(It, "c", "TLF1", d, in, n)
    BY <1>7, <1>8, Zenon DEF IsRun
<1> QED BY <1>1, <1>2, <1>9, Zenon DEF FrameRuns

(* The loop of Trade-Lookup 2 is a run: C.                                 *)
LEMMA CTLF2IsRun ==
    ASSUME NEW d, NEW in, Rounds("c", "TLF2", d, in) \in Nat
    PROVE  FrameRuns("c", "TLF2", d, in)
<1> DEFINE ts == OfAccount(d, in)
           n == Len(ts)
           Round(acc, k) ==
               IF k = 0 THEN Start(d, <<>>)
               ELSE CTLF2History(CTLF2Cash(CTLF2Settlement(CTLF2Trade(
                      Anew(acc[k - 1]), ts[k]), ts[k]), ts[k]), ts[k])
           It == CHOOSE acc : acc = [k \in 0..n |-> Round(acc, k)]
<1>1. /\ TradesOf("TLF2", d, in) = ts /\ Rounds("c", "TLF2", d, in) = n
      /\ First("c", d) = Start(d, <<>>)
      /\ \A acc, t, k : Body("c", "TLF2", acc, t, k, in)
             = CTLF2History(CTLF2Cash(CTLF2Settlement(CTLF2Trade(acc, t), t), t), t)
    BY DEF TradesOf, Rounds, First, Body, ByIds, ByAccount, BySymbol
<1>2. FrameOf("c", "TLF2", d, in) = AnswerOf("c", d, Ended("TLF2", It[n], n))
    <2>1. CTLF2(d, in) = CRow(d, [It[n] EXCEPT !.nf = n])
        BY Zenon DEF CTLF2, ForEach
    <2> HIDE DEF It, n
    <2> QED BY <2>1 DEF FrameOf, AnswerOf, Ended, ByIds
<1> HIDE DEF ts, n
<1>3. n \in Nat
    BY <1>1
<1>4. PICK table : IsTable(table, "c", "TLF2", d, in, n)
    BY <1>3, RunIsFunction
<1>5. table = [k \in 0..n |-> Round(table, k)]
    BY <1>1, <1>4 DEF IsTable
<1>6. It = [k \in 0..n |-> Round(It, k)]
    BY <1>5, Zenon
<1> HIDE DEF It
<1>7. It[0] = First("c", d)
    BY <1>1, <1>3, <1>6
<1>8. ASSUME NEW k \in 1..n
      PROVE  It[k] = Body("c", "TLF2", Anew(It[k - 1]),
                          TradesOf("TLF2", d, in)[k], k, in)
    <2>1. k \in 0..n /\ k # 0
        BY <1>3
    <2> QED BY <1>1, <1>6, <2>1
<1>9. IsRun(It, "c", "TLF2", d, in, n)
    BY <1>7, <1>8, Zenon DEF IsRun
<1> QED BY <1>1, <1>2, <1>9, Zenon DEF FrameRuns

(* The loop of Trade-Lookup 3 is a run: C.                                 *)
LEMMA CTLF3IsRun ==
    ASSUME NEW d, NEW in, Rounds("c", "TLF3", d, in) \in Nat
    PROVE  FrameRuns("c", "TLF3", d, in)
<1> DEFINE ts == OfSymbol(d, in)
           n == Len(ts)
           Round(acc, k) ==
               IF k = 0 THEN Start(d, <<>>)
               ELSE CTLF3History(CTLF3Cash(CTLF3Settlement(CTLF3Trade(
                      Anew(acc[k - 1]), ts[k]), ts[k]), ts[k]), ts[k])
           It == CHOOSE acc : acc = [k \in 0..n |-> Round(acc, k)]
<1>1. /\ TradesOf("TLF3", d, in) = ts /\ Rounds("c", "TLF3", d, in) = n
      /\ First("c", d) = Start(d, <<>>)
      /\ \A acc, t, k : Body("c", "TLF3", acc, t, k, in)
             = CTLF3History(CTLF3Cash(CTLF3Settlement(CTLF3Trade(acc, t), t), t), t)
    BY DEF TradesOf, Rounds, First, Body, ByIds, ByAccount, BySymbol
<1>2. FrameOf("c", "TLF3", d, in) = AnswerOf("c", d, Ended("TLF3", It[n], n))
    <2>1. CTLF3(d, in) = CRow(d, [It[n] EXCEPT !.nf = n])
        BY Zenon DEF CTLF3, ForEach
    <2> HIDE DEF It, n
    <2> QED BY <2>1 DEF FrameOf, AnswerOf, Ended, ByIds
<1> HIDE DEF ts, n
<1>3. n \in Nat
    BY <1>1
<1>4. PICK table : IsTable(table, "c", "TLF3", d, in, n)
    BY <1>3, RunIsFunction
<1>5. table = [k \in 0..n |-> Round(table, k)]
    BY <1>1, <1>4 DEF IsTable
<1>6. It = [k \in 0..n |-> Round(It, k)]
    BY <1>5, Zenon
<1> HIDE DEF It
<1>7. It[0] = First("c", d)
    BY <1>1, <1>3, <1>6
<1>8. ASSUME NEW k \in 1..n
      PROVE  It[k] = Body("c", "TLF3", Anew(It[k - 1]),
                          TradesOf("TLF3", d, in)[k], k, in)
    <2>1. k \in 0..n /\ k # 0
        BY <1>3
    <2> QED BY <1>1, <1>6, <2>1
<1>9. IsRun(It, "c", "TLF3", d, in, n)
    BY <1>7, <1>8, Zenon DEF IsRun
<1> QED BY <1>1, <1>2, <1>9, Zenon DEF FrameRuns

(* Every frame is a run.                                                   *)
LEMMA FramesRun ==
    ASSUME NEW i \in Impls, NEW frame \in ListFrames, NEW d, NEW in,
           Rounds(i, frame, d, in) \in Nat
    PROVE  FrameRuns(i, frame, d, in)
<1>1. CASE frame = "TUF1"
    BY <1>1, ClientTUF1IsRun, PlpgsqlTUF1IsRun, CTUF1IsRun DEF Impls
<1>2. CASE frame = "TUF2"
    BY <1>2, ClientTUF2IsRun, PlpgsqlTUF2IsRun, CTUF2IsRun DEF Impls
<1>3. CASE frame = "TUF3"
    BY <1>3, ClientTUF3IsRun, PlpgsqlTUF3IsRun, CTUF3IsRun DEF Impls
<1>4. CASE frame = "TLF1"
    BY <1>4, ClientTLF1IsRun, PlpgsqlTLF1IsRun, CTLF1IsRun DEF Impls
<1>5. CASE frame = "TLF2"
    BY <1>5, ClientTLF2IsRun, PlpgsqlTLF2IsRun, CTLF2IsRun DEF Impls
<1>6. CASE frame = "TLF3"
    BY <1>6, ClientTLF3IsRun, PlpgsqlTLF3IsRun, CTLF3IsRun DEF Impls
<1> QED BY <1>1, <1>2, <1>3, <1>4, <1>5, <1>6 DEF ListFrames, UpdateFrames

-----------------------------------------------------------------------------
(* What a round does to the tables and to the counters.                    *)

IsAcc(acc) ==
    acc = [db |-> acc.db, snap |-> acc.snap, arr |-> acc.arr, nf |-> acc.nf, nu |-> acc.nu,
           at |-> acc.at, max_calls |-> acc.max_calls]

(* From a to b the frame only read.                                        *)
Quiet(a, b) ==
    IsAcc(b) /\ b.db = a.db /\ b.snap = a.snap /\ b.nu = a.nu /\ b.nf = a.nf

(* The tables that the implementation reads for the new value of a row.    *)
Source(i, acc) == IF i = "c" THEN acc.snap ELSE acc.db

(* The round changes a row: there is one, and max_updates is not reached.  *)
Toggles(i, frame, acc, t, in) ==
    /\ frame \in UpdateFrames /\ acc.nu < in.max_updates
    /\ frame = "TUF1" => Exists(t)
    /\ frame = "TUF2" => Settled(Source(i, acc), t)
    /\ frame = "TUF3" => /\ Trade[t].is_cash /\ Paid(Source(i, acc), t)
                         /\ i = "client" => Settled(acc.db, t)

Toggled(frame, d, src, t) ==
    CASE frame = "TUF1" -> [d EXCEPT !.exec[t] = ToggleExecName(src.exec[t])]
      [] frame = "TUF2" ->
            [d EXCEPT !.settlement[t] = ToggleCashType(Trade[t].is_cash, src.settlement[t])]
      [] frame = "TUF3" -> [d EXCEPT !.cash[t] = ToggleCtName(src.cash[t])]

Effect(i, frame, a, b, t, in) ==
    LET toggles == Toggles(i, frame, a, t, in)
    IN  /\ IsAcc(b) /\ b.snap = a.snap
        /\ b.db = IF toggles THEN Toggled(frame, a.db, Source(i, a), t) ELSE a.db
        /\ b.nu = IF toggles THEN a.nu + 1 ELSE a.nu
        /\ b.nf = IF (frame = "TUF1" /\ toggles) \/ (frame = "TLF1" /\ Exists(t))
                  THEN a.nf + 1 ELSE a.nf

(* What a round of Trade-Update 1 does to tables and counters: client.     *)
LEMMA ClientTUF1Effect ==
    ASSUME NEW acc, IsAcc(acc), acc.at = "body", NEW t, NEW k, NEW in,
           acc.nu \in Nat, in.max_updates \in Nat
    PROVE  Effect("client", "TUF1", acc, Body("client", "TUF1", acc, t, k, in), t, in)
<1>0. IsAcc(acc)
    OBVIOUS
<1> DEFINE b1 == ClientTUF1Toggle(acc, t, in)
<1> DEFINE c1 == ContinueUnless(acc.nu >= in.max_updates \/ Exists(t), acc)
<1>1. Quiet(acc, c1) /\ (c1.at = "body" <=> acc.nu >= in.max_updates \/ Exists(t))
    BY <1>0 DEF Quiet, IsAcc, PutIf, AddIf, ContinueUnless, FailUnless, Going
<1> HIDE DEF c1
<1>2. b1 = IF Going(c1) /\ c1.nu < in.max_updates THEN SetExec(c1, t) ELSE c1
    BY DEF ClientTUF1Toggle, c1
<1> HIDE DEF b1
<1>3. Effect("client", "TUF1", acc, b1, t, in)
    <2>1. IsAcc(c1) /\ c1.db = acc.db /\ c1.snap = acc.snap /\ c1.nu = acc.nu /\ c1.nf = acc.nf
        BY <1>1 DEF Quiet
    <2>2. CASE acc.nu < in.max_updates /\ Exists(t)
        <3>1. b1 = SetExec(c1, t)
            BY <1>1, <1>2, <2>1, <2>2 DEF Going, Quiet
        <3>2. Toggles("client", "TUF1", acc, t, in)
            BY <2>2 DEF Toggles, UpdateFrames, Source
        <3> QED BY <2>1, <3>1, <3>2 DEF Effect, IsAcc, Toggled, Source, SetExec
    <2>3. CASE ~(acc.nu < in.max_updates /\ Exists(t))
        <3>1. b1 = c1
            BY <1>1, <1>2, <2>1, <2>3 DEF Going, Quiet
        <3>2. ~Toggles("client", "TUF1", acc, t, in)
            BY <2>3 DEF Toggles, UpdateFrames, Source
        <3> QED BY <2>1, <3>1, <3>2 DEF Effect
    <2> QED BY <2>2, <2>3
<1>4. IsAcc(b1)
    BY <1>3 DEF Effect
<1> DEFINE b2 == ClientTUF1Read(b1, t, k)
<1>5. Quiet(b1, b2)
    BY <1>4 DEF ClientTUF1Read, Quiet, IsAcc, PutIf, AddIf, ContinueUnless, FailUnless, Going
<1> HIDE DEF b2
<1>6. IsAcc(b2)
    BY <1>5 DEF Quiet
<1> DEFINE b3 == ClientTUF1ReadMore(b2, t, k)
<1>7. Quiet(b2, b3)
    BY <1>6 DEF ClientTUF1ReadMore, Quiet, IsAcc, PutIf, AddIf, ContinueUnless, FailUnless, Going
<1> HIDE DEF b3
<1>8. IsAcc(b3)
    BY <1>7 DEF Quiet
<1>30. Effect("client", "TUF1", acc, b3, t, in)
    BY <1>3, <1>5, <1>7 DEF Quiet, Effect
<1>31. Body("client", "TUF1", acc, t, k, in) = b3
    BY DEF Body, b1, b2, b3
<1> QED BY <1>30, <1>31

(* What a round of Trade-Update 2 does to tables and counters: client.     *)
LEMMA ClientTUF2Effect ==
    ASSUME NEW acc, IsAcc(acc), acc.at = "body", NEW t, NEW k, NEW in,
           acc.nu \in Nat, in.max_updates \in Nat
    PROVE  Effect("client", "TUF2", acc, Body("client", "TUF2", acc, t, k, in), t, in)
<1>0. IsAcc(acc)
    OBVIOUS
<1> DEFINE b1 == ClientTUF2Toggle(acc, t, k, in)
<1> DEFINE c1 == PutIf(TRUE, acc, "trade", k, TradeRow(acc.db, t))
<1>1. Quiet(acc, c1) /\ c1.at = "body"
    BY <1>0 DEF Quiet, IsAcc, PutIf, AddIf, ContinueUnless, FailUnless, Going
<1> HIDE DEF c1
<1> DEFINE c2 == ContinueUnless(c1.nu >= in.max_updates \/ Settled(c1.db, t), c1)
<1>2. Quiet(c1, c2) /\ (c2.at = "body" <=> c1.nu >= in.max_updates \/ Settled(c1.db, t))
    BY <1>0, <1>1 DEF Quiet, IsAcc, PutIf, AddIf, ContinueUnless, FailUnless, Going
<1> HIDE DEF c2
<1>3. b1 = IF Going(c2) /\ c2.nu < in.max_updates THEN SetCashType(c2, t) ELSE c2
    BY DEF ClientTUF2Toggle, c1, c2
<1> HIDE DEF b1
<1>4. Effect("client", "TUF2", acc, b1, t, in)
    <2>1. IsAcc(c2) /\ c2.db = acc.db /\ c2.snap = acc.snap /\ c2.nu = acc.nu /\ c2.nf = acc.nf
        BY <1>1, <1>2 DEF Quiet
    <2>2. CASE acc.nu < in.max_updates /\ Settled(acc.db, t)
        <3>1. b1 = SetCashType(c2, t)
            BY <1>1, <1>2, <1>3, <2>1, <2>2 DEF Going, Quiet
        <3>2. Toggles("client", "TUF2", acc, t, in)
            BY <2>2 DEF Toggles, UpdateFrames, Source
        <3> QED BY <2>1, <3>1, <3>2 DEF Effect, IsAcc, Toggled, Source, SetCashType
    <2>3. CASE ~(acc.nu < in.max_updates /\ Settled(acc.db, t))
        <3>1. b1 = c2
            BY <1>1, <1>2, <1>3, <2>1, <2>3 DEF Going, Quiet
        <3>2. ~Toggles("client", "TUF2", acc, t, in)
            BY <2>3 DEF Toggles, UpdateFrames, Source
        <3> QED BY <2>1, <3>1, <3>2 DEF Effect
    <2> QED BY <2>2, <2>3
<1>5. IsAcc(b1)
    BY <1>4 DEF Effect
<1> DEFINE b2 == ClientTUF2Read(b1, t, k)
<1>6. Quiet(b1, b2)
    BY <1>5 DEF ClientTUF2Read, Quiet, IsAcc, PutIf, AddIf, ContinueUnless, FailUnless, Going
<1> HIDE DEF b2
<1>7. IsAcc(b2)
    BY <1>6 DEF Quiet
<1>30. Effect("client", "TUF2", acc, b2, t, in)
    BY <1>4, <1>6 DEF Quiet, Effect
<1>31. Body("client", "TUF2", acc, t, k, in) = b2
    BY DEF Body, b1, b2
<1> QED BY <1>30, <1>31

(* What a round of Trade-Update 3 does to tables and counters: client.     *)
LEMMA ClientTUF3Effect ==
    ASSUME NEW acc, IsAcc(acc), acc.at = "body", NEW t, NEW k, NEW in,
           acc.nu \in Nat, in.max_updates \in Nat
    PROVE  Effect("client", "TUF3", acc, Body("client", "TUF3", acc, t, k, in), t, in)
<1>0. IsAcc(acc)
    OBVIOUS
<1> DEFINE b1 == ClientTUF3Read(acc, t, k)
<1>1. Quiet(acc, b1) /\ (b1.at = "body" <=> Settled(acc.db, t))
    BY <1>0 DEF ClientTUF3Read, Quiet, IsAcc, PutIf, AddIf, ContinueUnless, FailUnless, Going
<1> HIDE DEF b1
<1>2. IsAcc(b1)
    BY <1>1 DEF Quiet
<1> DEFINE b2 == ClientTUF3Toggle(b1, t, in)
<1>3. Effect("client", "TUF3", acc, b2, t, in)
    BY <1>2, <1>1 DEF ClientTUF3Toggle, Quiet, IsAcc, PutIf, AddIf, ContinueUnless, FailUnless, Going,
       Effect, Toggles, Toggled, Source, UpdateFrames, SetCtName
<1> HIDE DEF b2
<1>4. IsAcc(b2)
    BY <1>3 DEF Effect
<1> DEFINE b3 == ClientTUF3ReadMore(b2, t, k)
<1>5. Quiet(b2, b3)
    BY <1>4 DEF ClientTUF3ReadMore, Quiet, IsAcc, PutIf, AddIf, ContinueUnless, FailUnless, Going
<1> HIDE DEF b3
<1>6. IsAcc(b3)
    BY <1>5 DEF Quiet
<1>30. Effect("client", "TUF3", acc, b3, t, in)
    BY <1>1, <1>3, <1>5 DEF Quiet, Effect
<1>31. Body("client", "TUF3", acc, t, k, in) = b3
    BY DEF Body, b1, b2, b3
<1> QED BY <1>30, <1>31

(* What a round of Trade-Update 1 does to tables and counters: plpgsql.    *)
LEMMA PlpgsqlTUF1Effect ==
    ASSUME NEW acc, IsAcc(acc), acc.at = "body", NEW t, NEW k, NEW in,
           acc.nu \in Nat, in.max_updates \in Nat
    PROVE  Effect("plpgsql", "TUF1", acc, Body("plpgsql", "TUF1", acc, t, k, in), t, in)
<1>0. IsAcc(acc)
    OBVIOUS
<1> DEFINE b1 == PlpgsqlTUF1Toggle(acc, t, in)
<1>1. Effect("plpgsql", "TUF1", acc, b1, t, in)
    BY <1>0 DEF PlpgsqlTUF1Toggle, Quiet, IsAcc, PutIf, AddIf, ContinueUnless, FailUnless, Going,
       Effect, Toggles, Toggled, Source, UpdateFrames, SetExec
<1> HIDE DEF b1
<1>2. IsAcc(b1)
    BY <1>1 DEF Effect
<1> DEFINE b2 == PlpgsqlTUF1Read(b1, t, k)
<1>3. Quiet(b1, b2)
    BY <1>2 DEF PlpgsqlTUF1Read, Quiet, IsAcc, PutIf, AddIf, ContinueUnless, FailUnless, Going
<1> HIDE DEF b2
<1>4. IsAcc(b2)
    BY <1>3 DEF Quiet
<1>30. Effect("plpgsql", "TUF1", acc, b2, t, in)
    BY <1>1, <1>3 DEF Quiet, Effect
<1>31. Body("plpgsql", "TUF1", acc, t, k, in) = b2
    BY DEF Body, b1, b2
<1> QED BY <1>30, <1>31

(* What a round of Trade-Update 2 does to tables and counters: plpgsql.    *)
LEMMA PlpgsqlTUF2Effect ==
    ASSUME NEW acc, IsAcc(acc), acc.at = "body", NEW t, NEW k, NEW in,
           acc.nu \in Nat, in.max_updates \in Nat
    PROVE  Effect("plpgsql", "TUF2", acc, Body("plpgsql", "TUF2", acc, t, k, in), t, in)
<1>0. IsAcc(acc)
    OBVIOUS
<1> DEFINE b1 == PlpgsqlTUF2Toggle(acc, t, k, in)
<1>1. Effect("plpgsql", "TUF2", acc, b1, t, in)
    BY <1>0 DEF PlpgsqlTUF2Toggle, Quiet, IsAcc, PutIf, AddIf, ContinueUnless, FailUnless, Going,
       Effect, Toggles, Toggled, Source, UpdateFrames, SetCashType
<1> HIDE DEF b1
<1>2. IsAcc(b1)
    BY <1>1 DEF Effect
<1> DEFINE b2 == PlpgsqlTUF2Read(b1, t, k)
<1>3. Quiet(b1, b2)
    BY <1>2 DEF PlpgsqlTUF2Read, Quiet, IsAcc, PutIf, AddIf, ContinueUnless, FailUnless, Going
<1> HIDE DEF b2
<1>4. IsAcc(b2)
    BY <1>3 DEF Quiet
<1>30. Effect("plpgsql", "TUF2", acc, b2, t, in)
    BY <1>1, <1>3 DEF Quiet, Effect
<1>31. Body("plpgsql", "TUF2", acc, t, k, in) = b2
    BY DEF Body, b1, b2
<1> QED BY <1>30, <1>31

(* What a round of Trade-Update 3 does to tables and counters: plpgsql.    *)
LEMMA PlpgsqlTUF3Effect ==
    ASSUME NEW acc, IsAcc(acc), acc.at = "body", NEW t, NEW k, NEW in,
           acc.nu \in Nat, in.max_updates \in Nat
    PROVE  Effect("plpgsql", "TUF3", acc, Body("plpgsql", "TUF3", acc, t, k, in), t, in)
<1>0. IsAcc(acc)
    OBVIOUS
<1> DEFINE b1 == PlpgsqlTUF3Toggle(acc, t, k, in)
<1>1. Effect("plpgsql", "TUF3", acc, b1, t, in)
    BY <1>0 DEF PlpgsqlTUF3Toggle, Quiet, IsAcc, PutIf, AddIf, ContinueUnless, FailUnless, Going,
       Effect, Toggles, Toggled, Source, UpdateFrames, SetCtName
<1> HIDE DEF b1
<1>2. IsAcc(b1)
    BY <1>1 DEF Effect
<1> DEFINE b2 == PlpgsqlTUF3Read(b1, t, k)
<1>3. Quiet(b1, b2)
    BY <1>2 DEF PlpgsqlTUF3Read, Quiet, IsAcc, PutIf, AddIf, ContinueUnless, FailUnless, Going
<1> HIDE DEF b2
<1>4. IsAcc(b2)
    BY <1>3 DEF Quiet
<1>30. Effect("plpgsql", "TUF3", acc, b2, t, in)
    BY <1>1, <1>3 DEF Quiet, Effect
<1>31. Body("plpgsql", "TUF3", acc, t, k, in) = b2
    BY DEF Body, b1, b2
<1> QED BY <1>30, <1>31

(* What a round of Trade-Update 1 does to tables and counters: C.          *)
LEMMA CTUF1Effect ==
    ASSUME NEW acc, IsAcc(acc), acc.at = "body", NEW t, NEW k, NEW in,
           acc.nu \in Nat, in.max_updates \in Nat
    PROVE  Effect("c", "TUF1", acc, Body("c", "TUF1", acc, t, k, in), t, in)
<1>0. IsAcc(acc)
    OBVIOUS
<1> DEFINE b1 == CTUF1Toggle(acc, t, in)
<1> DEFINE c1 == ContinueUnless(acc.nu >= in.max_updates \/ Exists(t), acc)
<1>1. Quiet(acc, c1) /\ (c1.at = "body" <=> acc.nu >= in.max_updates \/ Exists(t))
    BY <1>0 DEF Quiet, IsAcc, PutIf, AddIf, ContinueUnless, FailUnless, Going
<1> HIDE DEF c1
<1>2. b1 = IF Going(c1) /\ c1.nu < in.max_updates
             THEN [c1 EXCEPT !.db.exec[t] = ToggleExecName(c1.snap.exec[t]),
                             !.nf = @ + 1, !.nu = @ + 1]
             ELSE c1
    BY DEF CTUF1Toggle, c1
<1> HIDE DEF b1
<1>3. Effect("c", "TUF1", acc, b1, t, in)
    <2>1. IsAcc(c1) /\ c1.db = acc.db /\ c1.snap = acc.snap /\ c1.nu = acc.nu /\ c1.nf = acc.nf
        BY <1>1 DEF Quiet
    <2>2. CASE acc.nu < in.max_updates /\ Exists(t)
        <3>1. b1 = [c1 EXCEPT !.db.exec[t] = ToggleExecName(c1.snap.exec[t]),
                             !.nf = @ + 1, !.nu = @ + 1]
            BY <1>1, <1>2, <2>1, <2>2 DEF Going, Quiet
        <3>2. Toggles("c", "TUF1", acc, t, in)
            BY <2>2 DEF Toggles, UpdateFrames, Source
        <3> QED BY <2>1, <3>1, <3>2 DEF Effect, IsAcc, Toggled, Source
    <2>3. CASE ~(acc.nu < in.max_updates /\ Exists(t))
        <3>1. b1 = c1
            BY <1>1, <1>2, <2>1, <2>3 DEF Going, Quiet
        <3>2. ~Toggles("c", "TUF1", acc, t, in)
            BY <2>3 DEF Toggles, UpdateFrames, Source
        <3> QED BY <2>1, <3>1, <3>2 DEF Effect
    <2> QED BY <2>2, <2>3
<1>4. IsAcc(b1)
    BY <1>3 DEF Effect
<1> DEFINE b2 == CTUF1Trade(b1, t)
<1>5. Quiet(b1, b2)
    BY <1>4 DEF CTUF1Trade, Quiet, IsAcc, PutIf, AddIf, ContinueUnless, FailUnless, Going
<1> HIDE DEF b2
<1>6. IsAcc(b2)
    BY <1>5 DEF Quiet
<1> DEFINE b3 == CTUF1Settlement(b2, t)
<1>7. Quiet(b2, b3)
    BY <1>6 DEF CTUF1Settlement, Quiet, IsAcc, PutIf, AddIf, ContinueUnless, FailUnless, Going
<1> HIDE DEF b3
<1>8. IsAcc(b3)
    BY <1>7 DEF Quiet
<1> DEFINE b4 == CTUF1Cash(b3, t)
<1>9. Quiet(b3, b4)
    BY <1>8 DEF CTUF1Cash, Quiet, IsAcc, PutIf, AddIf, ContinueUnless, FailUnless, Going
<1> HIDE DEF b4
<1>10. IsAcc(b4)
    BY <1>9 DEF Quiet
<1> DEFINE b5 == CTUF1History(b4, t)
<1>11. Quiet(b4, b5)
    BY <1>10 DEF CTUF1History, Quiet, IsAcc, PutIf, AddIf, ContinueUnless, FailUnless, Going
<1> HIDE DEF b5
<1>12. IsAcc(b5)
    BY <1>11 DEF Quiet
<1>30. Effect("c", "TUF1", acc, b5, t, in)
    BY <1>3, <1>5, <1>7, <1>9, <1>11 DEF Quiet, Effect
<1>31. Body("c", "TUF1", acc, t, k, in) = b5
    BY DEF Body, b1, b2, b3, b4, b5
<1> QED BY <1>30, <1>31

(* What a round of Trade-Update 2 does to tables and counters: C.          *)
LEMMA CTUF2Effect ==
    ASSUME NEW acc, IsAcc(acc), acc.at = "body", NEW t, NEW k, NEW in,
           acc.nu \in Nat, in.max_updates \in Nat
    PROVE  Effect("c", "TUF2", acc, Body("c", "TUF2", acc, t, k, in), t, in)
<1>0. IsAcc(acc)
    OBVIOUS
<1> DEFINE b1 == CTUF2Trade(acc, t)
<1>1. Quiet(acc, b1) /\ b1.at = "body"
    BY <1>0 DEF CTUF2Trade, Quiet, IsAcc, PutIf, AddIf, ContinueUnless, FailUnless, Going
<1> HIDE DEF b1
<1>2. IsAcc(b1)
    BY <1>1 DEF Quiet
<1> DEFINE b2 == CTUF2Toggle(b1, t, in)
<1> DEFINE c1 == FailUnless(b1.nu >= in.max_updates \/ Settled(b1.snap, t), b1)
<1>3. Quiet(b1, c1) /\ (c1.at = "body" <=> b1.nu >= in.max_updates \/ Settled(b1.snap, t))
    BY <1>2, <1>1 DEF Quiet, IsAcc, PutIf, AddIf, ContinueUnless, FailUnless, Going
<1> HIDE DEF c1
<1>4. b2 = IF Going(c1) /\ c1.nu < in.max_updates
             THEN [c1 EXCEPT !.db.settlement[t] =
                                 ToggleCashType(Trade[t].is_cash, c1.snap.settlement[t]),
                             !.nu = @ + 1]
             ELSE c1
    BY DEF CTUF2Toggle, c1
<1> HIDE DEF b2
<1>5. Effect("c", "TUF2", acc, b2, t, in)
    <2>1. IsAcc(c1) /\ c1.db = acc.db /\ c1.snap = acc.snap /\ c1.nu = acc.nu /\ c1.nf = acc.nf
        BY <1>1, <1>3 DEF Quiet
    <2>2. CASE acc.nu < in.max_updates /\ Settled(acc.snap, t)
        <3>1. b2 = [c1 EXCEPT !.db.settlement[t] =
                                 ToggleCashType(Trade[t].is_cash, c1.snap.settlement[t]),
                             !.nu = @ + 1]
            BY <1>1, <1>3, <1>4, <2>1, <2>2 DEF Going, Quiet
        <3>2. Toggles("c", "TUF2", acc, t, in)
            BY <2>2 DEF Toggles, UpdateFrames, Source
        <3> QED BY <2>1, <3>1, <3>2 DEF Effect, IsAcc, Toggled, Source
    <2>3. CASE ~(acc.nu < in.max_updates /\ Settled(acc.snap, t))
        <3>1. b2 = c1
            BY <1>1, <1>3, <1>4, <2>1, <2>3 DEF Going, Quiet
        <3>2. ~Toggles("c", "TUF2", acc, t, in)
            BY <2>3 DEF Toggles, UpdateFrames, Source
        <3> QED BY <2>1, <3>1, <3>2 DEF Effect
    <2> QED BY <2>2, <2>3
<1>6. IsAcc(b2)
    BY <1>5 DEF Effect
<1> DEFINE b3 == CTUF2Settlement(b2, t)
<1>7. Quiet(b2, b3)
    BY <1>6 DEF CTUF2Settlement, Quiet, IsAcc, PutIf, AddIf, ContinueUnless, FailUnless, Going
<1> HIDE DEF b3
<1>8. IsAcc(b3)
    BY <1>7 DEF Quiet
<1> DEFINE b4 == CTUF2Cash(b3, t)
<1>9. Quiet(b3, b4)
    BY <1>8 DEF CTUF2Cash, Quiet, IsAcc, PutIf, AddIf, ContinueUnless, FailUnless, Going
<1> HIDE DEF b4
<1>10. IsAcc(b4)
    BY <1>9 DEF Quiet
<1> DEFINE b5 == CTUF2History(b4, t)
<1>11. Quiet(b4, b5)
    BY <1>10 DEF CTUF2History, Quiet, IsAcc, PutIf, AddIf, ContinueUnless, FailUnless, Going
<1> HIDE DEF b5
<1>12. IsAcc(b5)
    BY <1>11 DEF Quiet
<1>30. Effect("c", "TUF2", acc, b5, t, in)
    BY <1>1, <1>5, <1>7, <1>9, <1>11 DEF Quiet, Effect
<1>31. Body("c", "TUF2", acc, t, k, in) = b5
    BY DEF Body, b1, b2, b3, b4, b5
<1> QED BY <1>30, <1>31

(* What a round of Trade-Update 3 does to tables and counters: C.          *)
LEMMA CTUF3Effect ==
    ASSUME NEW acc, IsAcc(acc), acc.at = "body", NEW t, NEW k, NEW in,
           acc.nu \in Nat, in.max_updates \in Nat
    PROVE  Effect("c", "TUF3", acc, Body("c", "TUF3", acc, t, k, in), t, in)
<1>0. IsAcc(acc)
    OBVIOUS
<1> DEFINE b1 == CTUF3Trade(acc, t)
<1>1. Quiet(acc, b1) /\ b1.at = "body"
    BY <1>0 DEF CTUF3Trade, Quiet, IsAcc, PutIf, AddIf, ContinueUnless, FailUnless, Going
<1> HIDE DEF b1
<1>2. IsAcc(b1)
    BY <1>1 DEF Quiet
<1> DEFINE b2 == CTUF3Settlement(b1, t)
<1>3. Quiet(b1, b2) /\ b2.at = "body"
    BY <1>2, <1>1 DEF CTUF3Settlement, Quiet, IsAcc, PutIf, AddIf, ContinueUnless, FailUnless, Going
<1> HIDE DEF b2
<1>4. IsAcc(b2)
    BY <1>3 DEF Quiet
<1> DEFINE b3 == CTUF3Toggle(b2, t, in)
<1>5. Effect("c", "TUF3", acc, b3, t, in)
    BY <1>4, <1>1, <1>3 DEF CTUF3Toggle, Quiet, IsAcc, PutIf, AddIf, ContinueUnless, FailUnless, Going,
       Effect, Toggles, Toggled, Source, UpdateFrames
<1> HIDE DEF b3
<1>6. IsAcc(b3)
    BY <1>5 DEF Effect
<1> DEFINE b4 == CTUF3Cash(b3, t)
<1>7. Quiet(b3, b4)
    BY <1>6 DEF CTUF3Cash, Quiet, IsAcc, PutIf, AddIf, ContinueUnless, FailUnless, Going
<1> HIDE DEF b4
<1>8. IsAcc(b4)
    BY <1>7 DEF Quiet
<1> DEFINE b5 == CTUF3History(b4, t)
<1>9. Quiet(b4, b5)
    BY <1>8 DEF CTUF3History, Quiet, IsAcc, PutIf, AddIf, ContinueUnless, FailUnless, Going
<1> HIDE DEF b5
<1>10. IsAcc(b5)
    BY <1>9 DEF Quiet
<1>30. Effect("c", "TUF3", acc, b5, t, in)
    BY <1>1, <1>3, <1>5, <1>7, <1>9 DEF Quiet, Effect
<1>31. Body("c", "TUF3", acc, t, k, in) = b5
    BY DEF Body, b1, b2, b3, b4, b5
<1> QED BY <1>30, <1>31

(* What a round of Trade-Lookup 1 does to tables and counters: client.     *)
LEMMA ClientTLF1Effect ==
    ASSUME NEW acc, IsAcc(acc), acc.at = "body", NEW t, NEW k, NEW in
    PROVE  Effect("client", "TLF1", acc, Body("client", "TLF1", acc, t, k, in), t, in)
<1>0. IsAcc(acc)
    OBVIOUS
<1> DEFINE b1 == ClientTLF1Trade(acc, t, k)
<1>1. Effect("client", "TLF1", acc, b1, t, in)
    BY <1>0 DEF ClientTLF1Trade, Quiet, IsAcc, PutIf, AddIf, ContinueUnless, FailUnless, Going,
       Effect, Toggles, UpdateFrames
<1> HIDE DEF b1
<1>2. IsAcc(b1)
    BY <1>1 DEF Effect
<1> DEFINE b2 == ClientTLF1More(b1, t, k)
<1>3. Quiet(b1, b2)
    BY <1>2 DEF ClientTLF1More, Quiet, IsAcc, PutIf, AddIf, ContinueUnless, FailUnless, Going
<1> HIDE DEF b2
<1>4. IsAcc(b2)
    BY <1>3 DEF Quiet
<1>30. Effect("client", "TLF1", acc, b2, t, in)
    BY <1>1, <1>3 DEF Quiet, Effect
<1>31. Body("client", "TLF1", acc, t, k, in) = b2
    BY DEF Body, b1, b2
<1> QED BY <1>30, <1>31

(* What a round of Trade-Lookup 2 does to tables and counters: client.     *)
LEMMA ClientTLF2Effect ==
    ASSUME NEW acc, IsAcc(acc), acc.at = "body", NEW t, NEW k, NEW in
    PROVE  Effect("client", "TLF2", acc, Body("client", "TLF2", acc, t, k, in), t, in)
<1>0. IsAcc(acc)
    OBVIOUS
<1> DEFINE b1 == ClientTLF2Row(acc, t, k)
<1>1. Quiet(acc, b1)
    BY <1>0 DEF ClientTLF2Row, Quiet, IsAcc, PutIf, AddIf, ContinueUnless, FailUnless, Going
<1> HIDE DEF b1
<1>2. IsAcc(b1)
    BY <1>1 DEF Quiet
<1>30. Effect("client", "TLF2", acc, b1, t, in)
    BY <1>1 DEF Quiet, Effect, Toggles, UpdateFrames
<1>31. Body("client", "TLF2", acc, t, k, in) = b1
    BY DEF Body, b1
<1> QED BY <1>30, <1>31

(* What a round of Trade-Lookup 3 does to tables and counters: client.     *)
LEMMA ClientTLF3Effect ==
    ASSUME NEW acc, IsAcc(acc), acc.at = "body", NEW t, NEW k, NEW in
    PROVE  Effect("client", "TLF3", acc, Body("client", "TLF3", acc, t, k, in), t, in)
<1>0. IsAcc(acc)
    OBVIOUS
<1> DEFINE b1 == ClientTLF3Row(acc, t, k)
<1>1. Quiet(acc, b1)
    BY <1>0 DEF ClientTLF3Row, Quiet, IsAcc, PutIf, AddIf, ContinueUnless, FailUnless, Going
<1> HIDE DEF b1
<1>2. IsAcc(b1)
    BY <1>1 DEF Quiet
<1>30. Effect("client", "TLF3", acc, b1, t, in)
    BY <1>1 DEF Quiet, Effect, Toggles, UpdateFrames
<1>31. Body("client", "TLF3", acc, t, k, in) = b1
    BY DEF Body, b1
<1> QED BY <1>30, <1>31

(* What a round of Trade-Lookup 1 does to tables and counters: plpgsql.    *)
LEMMA PlpgsqlTLF1Effect ==
    ASSUME NEW acc, IsAcc(acc), acc.at = "body", NEW t, NEW k, NEW in
    PROVE  Effect("plpgsql", "TLF1", acc, Body("plpgsql", "TLF1", acc, t, k, in), t, in)
<1>0. IsAcc(acc)
    OBVIOUS
<1> DEFINE b1 == PlpgsqlTLF1Trade(acc, t, k)
<1>1. Effect("plpgsql", "TLF1", acc, b1, t, in)
    BY <1>0 DEF PlpgsqlTLF1Trade, Quiet, IsAcc, PutIf, AddIf, ContinueUnless, FailUnless, Going,
       Effect, Toggles, UpdateFrames
<1> HIDE DEF b1
<1>2. IsAcc(b1)
    BY <1>1 DEF Effect
<1> DEFINE b2 == PlpgsqlTLF1More(b1, t, k)
<1>3. Quiet(b1, b2)
    BY <1>2 DEF PlpgsqlTLF1More, Quiet, IsAcc, PutIf, AddIf, ContinueUnless, FailUnless, Going
<1> HIDE DEF b2
<1>4. IsAcc(b2)
    BY <1>3 DEF Quiet
<1>30. Effect("plpgsql", "TLF1", acc, b2, t, in)
    BY <1>1, <1>3 DEF Quiet, Effect
<1>31. Body("plpgsql", "TLF1", acc, t, k, in) = b2
    BY DEF Body, b1, b2
<1> QED BY <1>30, <1>31

(* What a round of Trade-Lookup 2 does to tables and counters: plpgsql.    *)
LEMMA PlpgsqlTLF2Effect ==
    ASSUME NEW acc, IsAcc(acc), acc.at = "body", NEW t, NEW k, NEW in
    PROVE  Effect("plpgsql", "TLF2", acc, Body("plpgsql", "TLF2", acc, t, k, in), t, in)
<1>0. IsAcc(acc)
    OBVIOUS
<1> DEFINE b1 == PlpgsqlTLF2Row(acc, t, k)
<1>1. Quiet(acc, b1)
    BY <1>0 DEF PlpgsqlTLF2Row, Quiet, IsAcc, PutIf, AddIf, ContinueUnless, FailUnless, Going
<1> HIDE DEF b1
<1>2. IsAcc(b1)
    BY <1>1 DEF Quiet
<1>30. Effect("plpgsql", "TLF2", acc, b1, t, in)
    BY <1>1 DEF Quiet, Effect, Toggles, UpdateFrames
<1>31. Body("plpgsql", "TLF2", acc, t, k, in) = b1
    BY DEF Body, b1
<1> QED BY <1>30, <1>31

(* What a round of Trade-Lookup 3 does to tables and counters: plpgsql.    *)
LEMMA PlpgsqlTLF3Effect ==
    ASSUME NEW acc, IsAcc(acc), acc.at = "body", NEW t, NEW k, NEW in
    PROVE  Effect("plpgsql", "TLF3", acc, Body("plpgsql", "TLF3", acc, t, k, in), t, in)
<1>0. IsAcc(acc)
    OBVIOUS
<1> DEFINE b1 == PlpgsqlTLF3Row(acc, t, k)
<1>1. Quiet(acc, b1)
    BY <1>0 DEF PlpgsqlTLF3Row, Quiet, IsAcc, PutIf, AddIf, ContinueUnless, FailUnless, Going
<1> HIDE DEF b1
<1>2. IsAcc(b1)
    BY <1>1 DEF Quiet
<1>30. Effect("plpgsql", "TLF3", acc, b1, t, in)
    BY <1>1 DEF Quiet, Effect, Toggles, UpdateFrames
<1>31. Body("plpgsql", "TLF3", acc, t, k, in) = b1
    BY DEF Body, b1
<1> QED BY <1>30, <1>31

(* What a round of Trade-Lookup 1 does to tables and counters: C.          *)
LEMMA CTLF1Effect ==
    ASSUME NEW acc, IsAcc(acc), acc.at = "body", NEW t, NEW k, NEW in
    PROVE  Effect("c", "TLF1", acc, Body("c", "TLF1", acc, t, k, in), t, in)
<1>0. IsAcc(acc)
    OBVIOUS
<1> DEFINE b1 == CTLF1Trade(acc, t)
<1>1. Effect("c", "TLF1", acc, b1, t, in)
    BY <1>0 DEF CTLF1Trade, Quiet, IsAcc, PutIf, AddIf, ContinueUnless, FailUnless, Going,
       Effect, Toggles, UpdateFrames
<1> HIDE DEF b1
<1>2. IsAcc(b1)
    BY <1>1 DEF Effect
<1> DEFINE b2 == CTLF1Settlement(b1, t)
<1>3. Quiet(b1, b2)
    BY <1>2 DEF CTLF1Settlement, Quiet, IsAcc, PutIf, AddIf, ContinueUnless, FailUnless, Going
<1> HIDE DEF b2
<1>4. IsAcc(b2)
    BY <1>3 DEF Quiet
<1> DEFINE b3 == CTLF1Cash(b2, t)
<1>5. Quiet(b2, b3)
    BY <1>4 DEF CTLF1Cash, Quiet, IsAcc, PutIf, AddIf, ContinueUnless, FailUnless, Going
<1> HIDE DEF b3
<1>6. IsAcc(b3)
    BY <1>5 DEF Quiet
<1> DEFINE b4 == CTLF1History(b3, t)
<1>7. Quiet(b3, b4)
    BY <1>6 DEF CTLF1History, Quiet, IsAcc, PutIf, AddIf, ContinueUnless, FailUnless, Going
<1> HIDE DEF b4
<1>8. IsAcc(b4)
    BY <1>7 DEF Quiet
<1>30. Effect("c", "TLF1", acc, b4, t, in)
    BY <1>1, <1>3, <1>5, <1>7 DEF Quiet, Effect
<1>31. Body("c", "TLF1", acc, t, k, in) = b4
    BY DEF Body, b1, b2, b3, b4
<1> QED BY <1>30, <1>31

(* What a round of Trade-Lookup 2 does to tables and counters: C.          *)
LEMMA CTLF2Effect ==
    ASSUME NEW acc, IsAcc(acc), acc.at = "body", NEW t, NEW k, NEW in
    PROVE  Effect("c", "TLF2", acc, Body("c", "TLF2", acc, t, k, in), t, in)
<1>0. IsAcc(acc)
    OBVIOUS
<1> DEFINE b1 == CTLF2Trade(acc, t)
<1>1. Quiet(acc, b1)
    BY <1>0 DEF CTLF2Trade, Quiet, IsAcc, PutIf, AddIf, ContinueUnless, FailUnless, Going
<1> HIDE DEF b1
<1>2. IsAcc(b1)
    BY <1>1 DEF Quiet
<1> DEFINE b2 == CTLF2Settlement(b1, t)
<1>3. Quiet(b1, b2)
    BY <1>2 DEF CTLF2Settlement, Quiet, IsAcc, PutIf, AddIf, ContinueUnless, FailUnless, Going
<1> HIDE DEF b2
<1>4. IsAcc(b2)
    BY <1>3 DEF Quiet
<1> DEFINE b3 == CTLF2Cash(b2, t)
<1>5. Quiet(b2, b3)
    BY <1>4 DEF CTLF2Cash, Quiet, IsAcc, PutIf, AddIf, ContinueUnless, FailUnless, Going
<1> HIDE DEF b3
<1>6. IsAcc(b3)
    BY <1>5 DEF Quiet
<1> DEFINE b4 == CTLF2History(b3, t)
<1>7. Quiet(b3, b4)
    BY <1>6 DEF CTLF2History, Quiet, IsAcc, PutIf, AddIf, ContinueUnless, FailUnless, Going
<1> HIDE DEF b4
<1>8. IsAcc(b4)
    BY <1>7 DEF Quiet
<1>30. Effect("c", "TLF2", acc, b4, t, in)
    BY <1>1, <1>3, <1>5, <1>7 DEF Quiet, Effect, Toggles, UpdateFrames
<1>31. Body("c", "TLF2", acc, t, k, in) = b4
    BY DEF Body, b1, b2, b3, b4
<1> QED BY <1>30, <1>31

(* What a round of Trade-Lookup 3 does to tables and counters: C.          *)
LEMMA CTLF3Effect ==
    ASSUME NEW acc, IsAcc(acc), acc.at = "body", NEW t, NEW k, NEW in
    PROVE  Effect("c", "TLF3", acc, Body("c", "TLF3", acc, t, k, in), t, in)
<1>0. IsAcc(acc)
    OBVIOUS
<1> DEFINE b1 == CTLF3Trade(acc, t)
<1>1. Quiet(acc, b1)
    BY <1>0 DEF CTLF3Trade, Quiet, IsAcc, PutIf, AddIf, ContinueUnless, FailUnless, Going
<1> HIDE DEF b1
<1>2. IsAcc(b1)
    BY <1>1 DEF Quiet
<1> DEFINE b2 == CTLF3Settlement(b1, t)
<1>3. Quiet(b1, b2)
    BY <1>2 DEF CTLF3Settlement, Quiet, IsAcc, PutIf, AddIf, ContinueUnless, FailUnless, Going
<1> HIDE DEF b2
<1>4. IsAcc(b2)
    BY <1>3 DEF Quiet
<1> DEFINE b3 == CTLF3Cash(b2, t)
<1>5. Quiet(b2, b3)
    BY <1>4 DEF CTLF3Cash, Quiet, IsAcc, PutIf, AddIf, ContinueUnless, FailUnless, Going
<1> HIDE DEF b3
<1>6. IsAcc(b3)
    BY <1>5 DEF Quiet
<1> DEFINE b4 == CTLF3History(b3, t)
<1>7. Quiet(b3, b4)
    BY <1>6 DEF CTLF3History, Quiet, IsAcc, PutIf, AddIf, ContinueUnless, FailUnless, Going
<1> HIDE DEF b4
<1>8. IsAcc(b4)
    BY <1>7 DEF Quiet
<1>30. Effect("c", "TLF3", acc, b4, t, in)
    BY <1>1, <1>3, <1>5, <1>7 DEF Quiet, Effect, Toggles, UpdateFrames
<1>31. Body("c", "TLF3", acc, t, k, in) = b4
    BY DEF Body, b1, b2, b3, b4
<1> QED BY <1>30, <1>31


(* One round of any frame in any implementation.                           *)
LEMMA BodyEffect ==
    ASSUME NEW i \in Impls, NEW frame \in ListFrames, NEW acc, IsAcc(acc), acc.at = "body",
           NEW t, NEW k, NEW in, acc.nu \in Nat,
           frame \in UpdateFrames => in.max_updates \in Nat
    PROVE  Effect(i, frame, acc, Body(i, frame, acc, t, k, in), t, in)
<1>1. CASE frame = "TUF1"
    BY <1>1, ClientTUF1Effect, PlpgsqlTUF1Effect, CTUF1Effect DEF Impls, UpdateFrames
<1>2. CASE frame = "TUF2"
    BY <1>2, ClientTUF2Effect, PlpgsqlTUF2Effect, CTUF2Effect DEF Impls, UpdateFrames
<1>3. CASE frame = "TUF3"
    BY <1>3, ClientTUF3Effect, PlpgsqlTUF3Effect, CTUF3Effect DEF Impls, UpdateFrames
<1>4. CASE frame = "TLF1"
    BY <1>4, ClientTLF1Effect, PlpgsqlTLF1Effect, CTLF1Effect DEF Impls
<1>5. CASE frame = "TLF2"
    BY <1>5, ClientTLF2Effect, PlpgsqlTLF2Effect, CTLF2Effect DEF Impls
<1>6. CASE frame = "TLF3"
    BY <1>6, ClientTLF3Effect, PlpgsqlTLF3Effect, CTLF3Effect DEF Impls
<1> QED BY <1>1, <1>2, <1>3, <1>4, <1>5, <1>6 DEF ListFrames, UpdateFrames

-----------------------------------------------------------------------------
(* The trades of a loop.                                                   *)

(* The smaller of two naturals.                                            *)
LEMMA MinOfTwo ==
    ASSUME NEW x \in Nat, NEW y \in Nat
    PROVE  Min({x, y}) \in {x, y} /\ Min({x, y}) <= x /\ Min({x, y}) <= y
BY MinOfNaturals

(* The larger of two naturals.                                             *)
LEMMA MaxOfTwo ==
    ASSUME NEW x \in Nat, NEW y \in Nat, x <= y
    PROVE  Max({x, y}) = y
<1>1. y \in {x, y} /\ \A z \in {x, y} : y >= z
    OBVIOUS
<1>2. \A z \in {x, y} : (\A w \in {x, y} : z >= w) => z = y
    OBVIOUS
<1>3. Max({x, y}) \in {x, y} /\ \A w \in {x, y} : Max({x, y}) >= w
    BY <1>1, Zenon DEF Max
<1> QED BY <1>2, <1>3

Sorted(s, dts) == \A p, q \in DOMAIN s : p < q => dts[s[p]] <= dts[s[q]]

(* ORDER BY can always be obeyed.                                          *)
LEMMA SortedExists ==
    ASSUME NEW S, IsFiniteSet(S), NEW dts, \A x \in S : dts[x] \in Nat
    PROVE  \E s \in SetToSeqs(S) : Sorted(s, dts)
<1> DEFINE Good(T) == \E s \in SetToSeqs(T) : Sorted(s, dts)
           Bad == {Cardinality(T) : T \in {U \in SUBSET S : ~Good(U)}}
<1>1. \A T \in SUBSET S : IsFiniteSet(T) /\ Cardinality(T) \in Nat
    BY FS_Subset, FS_CardinalityType
<1> SUFFICES ASSUME Bad # {} PROVE FALSE
    <2>1. ~Good(S) => Cardinality(S) \in Bad
        <3> HIDE DEF Good
        <3> QED OBVIOUS
    <2> QED BY <2>1
<1>2. PICK n \in Bad : \A m \in Bad : n <= m
    <2>1. Bad \subseteq Nat
        <3> HIDE DEF Good
        <3> QED BY <1>1
    <2> QED BY <2>1, MinOfNaturals
<1>3. PICK T \in SUBSET S : ~Good(T) /\ n = Cardinality(T)
    <2> HIDE DEF Good
    <2> QED OBVIOUS
<1>4. T # {}
    <2> SUFFICES ASSUME T = {} PROVE FALSE
        OBVIOUS
    <2>1. Cardinality(T) = 0
        BY FS_EmptySet
    <2>2. [j \in 1..0 |-> 0] \in SetToSeqs(T)
        BY <2>1 DEF SetToSeqs
    <2>3. Sorted([j \in 1..0 |-> 0], dts)
        BY DEF Sorted
    <2> QED BY <1>3, <2>2, <2>3
<1>5. PICK x \in T : \A y \in T : dts[x] <= dts[y]
    <2> DEFINE times == {dts[y] : y \in T}
    <2>1. times \subseteq Nat /\ times # {}
        BY <1>4
    <2>2. PICK w \in times : \A z \in times : w <= z
        BY <2>1, MinOfNaturals
    <2> QED BY <2>2
<1> DEFINE R == T \ {x}
<1>6. R \in SUBSET S /\ Cardinality(R) \in Nat /\ Cardinality(R) = n - 1 /\ n \in Nat
    BY <1>1, <1>3, FS_RemoveElement
<1>7. PICK s \in SetToSeqs(R) : Sorted(s, dts)
    <2>1. Cardinality(R) \notin Bad
        <3> HIDE DEF R, Bad
        <3> QED BY <1>2, <1>6
    <2>2. Good(R)
        <3> HIDE DEF Good, R
        <3> QED BY <1>6, <2>1
    <2> QED BY <2>2
<1> DEFINE more == [j \in 1..n |-> IF j = 1 THEN x ELSE s[j - 1]]
<1>8. /\ s \in [1..(n - 1) -> R]
      /\ \A p, q \in 1..(n - 1) : p # q => s[p] # s[q]
    BY <1>6, <1>7 DEF SetToSeqs
<1>9. n >= 1
    BY <1>6
<1>10. \A j \in 1..n : j # 1 => j - 1 \in 1..(n - 1) /\ s[j - 1] \in R
    BY <1>6, <1>8
<1>11. more \in SetToSeqs(T)
    <2>1. more \in [1..n -> T]
        BY <1>10
    <2>2. ASSUME NEW p \in 1..n, NEW q \in 1..n, p # q PROVE more[p] # more[q]
        <3>1. p - 1 # q - 1
            BY <1>6, <2>2
        <3> QED BY <1>8, <1>10, <2>2, <3>1
    <2> HIDE DEF more
    <2> QED BY <1>3, <2>1, <2>2 DEF SetToSeqs
<1>12. Sorted(more, dts)
    <2>1. ASSUME NEW p \in 1..n, NEW q \in 1..n, p < q PROVE dts[more[p]] <= dts[more[q]]
        <3>1. q # 1 /\ more[q] = s[q - 1] /\ q - 1 \in 1..(n - 1)
            BY <1>6, <2>1
        <3>2. CASE p = 1
            BY <1>5, <1>10, <3>1, <3>2
        <3>3. CASE p # 1
            <4>1. more[p] = s[p - 1] /\ p - 1 \in 1..(n - 1) /\ p - 1 < q - 1
                BY <1>6, <2>1, <3>3
            <4>2. DOMAIN s = 1..(n - 1)
                BY <1>8
            <4> QED BY <1>7, <3>1, <4>1, <4>2 DEF Sorted
        <3> QED BY <3>2, <3>3
    <2>2. DOMAIN more = 1..n
        OBVIOUS
    <2> HIDE DEF more
    <2> QED BY <2>1, <2>2 DEF Sorted
<1> QED BY <1>3, <1>11, <1>12

(* The ids of the trades of a loop: no more than fit, and none twice.      *)
IsList(ts, S) ==
    /\ ts \in Seq(S) /\ Len(ts) \in 0..MaxRows
    /\ \A p, q \in 1..Len(ts) : p # q => ts[p] # ts[q]

(* The first n trades by date form a list of trades of S, none twice.      *)
LEMMA ByDtsIsList ==
    ASSUME NEW d, NEW S, S \subseteq Trades, \A x \in S : d.dts[x] \in Nat,
           NEW n \in Nat, n <= MaxRows
    PROVE  IsList(ByDts(d, S, n), S) /\ Len(ByDts(d, S, n)) <= n
<1>1. IsFiniteSet(S) /\ Cardinality(S) \in Nat
    BY TablesAssumption, FS_Subset, FS_CardinalityType DEF Trades
<1> DEFINE all == CHOOSE s \in SetToSeqs(S) : \A p, q \in DOMAIN s :
                      p < q => d.dts[s[p]] <= d.dts[s[q]]
<1>2. \E s \in SetToSeqs(S) : \A p, q \in DOMAIN s : p < q => d.dts[s[p]] <= d.dts[s[q]]
    BY <1>1, SortedExists DEF Sorted
<1>3. all \in SetToSeqs(S)
    BY <1>2, Zenon
<1> DEFINE m == Min({n, Len(all)})
<1>4. ByDts(d, S, n) = SubSeq(all, 1, m)
    BY Zenon DEF ByDts
<1> HIDE DEF all
<1>5. /\ all \in Seq(S) /\ Len(all) = Cardinality(S)
      /\ \A p, q \in 1..Len(all) : p # q => all[p] # all[q]
    <2>1. /\ all \in [1..Cardinality(S) -> S]
          /\ \A p, q \in 1..Cardinality(S) : p # q => all[p] # all[q]
        BY <1>3 DEF SetToSeqs
    <2> QED BY <1>1, <2>1
<1>6. m \in Nat /\ m <= n /\ m <= Len(all)
    BY <1>1, <1>5, MinOfTwo
<1> HIDE DEF m
<1> DEFINE ts == SubSeq(all, 1, m)
<1>7. ts \in Seq(S) /\ Len(ts) = m /\ \A p \in 1..m : ts[p] = all[p]
    BY <1>5, <1>6
<1> HIDE DEF ts
<1>8. IsList(ts, S)
    BY <1>5, <1>6, <1>7, TablesAssumption DEF IsList
<1> QED BY <1>4, <1>6, <1>7, <1>8 DEF ts

-----------------------------------------------------------------------------
(* The databases a behaviour can be in: the rows that a trade has agree    *)
(* with its status.                                                        *)

ExecNames == {"John Doe", "John X Doe"}
Statuses == {"SBMT", "CMPT"}
CashTypes(t) ==
    IF Trade[t].is_cash THEN {"Cash", "Cash Account"} ELSE {"Margin", "Margin Account"}
AllCashTypes == {"Cash", "Cash Account", "Margin", "Margin Account"}
CtNames == {"shares of", "Shares of"}

Done(d) == {t \in Trades : d.status[t] = "CMPT"}
PaidIn(d) == {t \in Done(d) : Trade[t].is_cash}

IsDb(d) ==
    d = [exec |-> d.exec, dts |-> d.dts, status |-> d.status, history |-> d.history,
         tax |-> d.tax, comm |-> d.comm, settlement |-> d.settlement, se_amt |-> d.se_amt,
         cash |-> d.cash, ca_bal |-> d.ca_bal, b_comm_total |-> d.b_comm_total,
         b_num_trades |-> d.b_num_trades, maint |-> d.maint]

TablesOK(d) ==
    /\ IsDb(d)
    /\ d.exec \in [Trades -> ExecNames]
    /\ d.dts \in [Trades -> Nat]
    /\ d.status \in [Trades -> Statuses]
    /\ d.history \in [Trades -> Seq(Statuses)] /\ \A t \in Trades : d.history[t] # <<>>
    /\ d.comm \in [Trades -> Int]
    /\ d.settlement \in [Done(d) -> AllCashTypes]
    /\ \A t \in Done(d) : d.settlement[t] \in CashTypes(t)
    /\ d.se_amt \in [Done(d) -> Int]
    /\ d.cash \in [PaidIn(d) -> CtNames]
    /\ d.ca_bal \in [Accounts -> Int]
    /\ d.b_comm_total \in Int

(* The column a frame of Trade-Update changes, and the rows it has changed *)
(* in it.                                                                  *)
Column(frame, d) ==
    CASE frame = "TUF1" -> d.exec [] frame = "TUF2" -> d.settlement [] frame = "TUF3" -> d.cash

Touched(frame, d, e) ==
    {t \in DOMAIN Column(frame, d) : Column(frame, d)[t] # Column(frame, e)[t]}

SameBut(frame, d, e) ==
    CASE frame = "TUF1" -> e = [d EXCEPT !.exec = e.exec]
      [] frame = "TUF2" -> e = [d EXCEPT !.settlement = e.settlement]
      [] frame = "TUF3" -> e = [d EXCEPT !.cash = e.cash]
      [] OTHER -> e = d

(* The trades of an instance are finitely many.                            *)
LEMMA TradesAreFinite == IsFiniteSet(Trades) /\ \A t \in Trades : Trade[t].is_cash \in BOOLEAN
BY TablesAssumption DEF Trades

(* The rows in which two columns differ, and one more of them.             *)
Differ(S, c, f) == {x \in S : c[x] # f[x]}

(* Changing one more row adds one to the rows in which two columns differ. *)
LEMMA OneMoreTouched ==
    ASSUME NEW S, IsFiniteSet(S), NEW c, NEW f, f = [x \in S |-> f[x]], NEW t \in S, NEW v,
           f[t] = c[t], v # c[t], NEW g, g = [f EXCEPT ![t] = v]
    PROVE  /\ Differ(S, c, g) = Differ(S, c, f) \cup {t}
           /\ Cardinality(Differ(S, c, g)) = Cardinality(Differ(S, c, f)) + 1
<1>1. Differ(S, c, g) = Differ(S, c, f) \cup {t}
    BY DEF Differ
<1>2. t \notin Differ(S, c, f) /\ IsFiniteSet(Differ(S, c, f))
    BY FS_Subset DEF Differ
<1>3. Cardinality(Differ(S, c, f) \cup {t}) = Cardinality(Differ(S, c, f)) + 1
    BY <1>2, FS_AddElement
<1> QED BY <1>1, <1>3

(* The tables after one row has been changed.                              *)
LEMMA TogglesAreChanges ==
    /\ \A x \in ExecNames : ToggleExecName(x) \in ExecNames /\ ToggleExecName(x) # x
    /\ \A t \in Trades : \A x \in CashTypes(t) :
           ToggleCashType(Trade[t].is_cash, x) \in CashTypes(t)
           /\ ToggleCashType(Trade[t].is_cash, x) # x
    /\ \A x \in CtNames : ToggleCtName(x) \in CtNames /\ ToggleCtName(x) # x
BY TradesAreFinite DEF ExecNames, CashTypes, CtNames, ToggleExecName, ToggleCashType, ToggleCtName

(* Updating an executor name keeps the shape of the tables.                *)
LEMMA SetExecTables ==
    ASSUME NEW e, TablesOK(e), NEW t \in Trades, NEW v \in ExecNames
    PROVE  LET f == [e EXCEPT !.exec[t] = v]
           IN  TablesOK(f) /\ f = [e EXCEPT !.exec = f.exec] /\ f.exec = [e.exec EXCEPT ![t] = v]
<1> DEFINE f == [e EXCEPT !.exec[t] = v]
<1>1. IsDb(e)
    BY DEF TablesOK
<1>2. f = [exec |-> [e.exec EXCEPT ![t] = v], dts |-> e.dts, status |-> e.status,
           history |-> e.history, tax |-> e.tax, comm |-> e.comm, settlement |-> e.settlement,
           se_amt |-> e.se_amt, cash |-> e.cash, ca_bal |-> e.ca_bal,
           b_comm_total |-> e.b_comm_total, b_num_trades |-> e.b_num_trades, maint |-> e.maint]
    BY <1>1 DEF IsDb
<1> HIDE DEF f
<1>3. IsDb(f) /\ f = [e EXCEPT !.exec = f.exec] /\ f.exec = [e.exec EXCEPT ![t] = v]
    BY <1>1, <1>2 DEF IsDb
<1>4. Done(f) = Done(e) /\ PaidIn(f) = PaidIn(e)
    BY <1>2 DEF Done, PaidIn
<1>5. f.exec \in [Trades -> ExecNames]
    BY <1>3 DEF TablesOK
<1>6. TablesOK(f)
    BY <1>2, <1>3, <1>4, <1>5 DEF TablesOK
<1> QED BY <1>3, <1>6 DEF f

(* Updating a cash type keeps the shape of the tables.                     *)
LEMMA SetCashTypeTables ==
    ASSUME NEW e, TablesOK(e), NEW t \in Done(e), NEW v \in CashTypes(t)
    PROVE  LET f == [e EXCEPT !.settlement[t] = v]
           IN  /\ TablesOK(f) /\ f = [e EXCEPT !.settlement = f.settlement]
               /\ f.settlement = [e.settlement EXCEPT ![t] = v]
<1> DEFINE f == [e EXCEPT !.settlement[t] = v]
<1>1. IsDb(e)
    BY DEF TablesOK
<1>2. f = [exec |-> e.exec, dts |-> e.dts, status |-> e.status,
           history |-> e.history, tax |-> e.tax, comm |-> e.comm,
           settlement |-> [e.settlement EXCEPT ![t] = v],
           se_amt |-> e.se_amt, cash |-> e.cash, ca_bal |-> e.ca_bal,
           b_comm_total |-> e.b_comm_total, b_num_trades |-> e.b_num_trades, maint |-> e.maint]
    BY <1>1 DEF IsDb
<1> HIDE DEF f
<1>3. /\ IsDb(f) /\ f = [e EXCEPT !.settlement = f.settlement]
      /\ f.settlement = [e.settlement EXCEPT ![t] = v]
    BY <1>1, <1>2 DEF IsDb
<1>4. Done(f) = Done(e) /\ PaidIn(f) = PaidIn(e)
    BY <1>2 DEF Done, PaidIn
<1>5. v \in AllCashTypes
    BY DEF CashTypes, AllCashTypes
<1>6. f.settlement \in [Done(f) -> AllCashTypes]
    BY <1>3, <1>4, <1>5 DEF TablesOK
<1>7. \A u \in Done(f) : f.settlement[u] \in CashTypes(u)
    BY <1>3, <1>4 DEF TablesOK
<1>8. TablesOK(f)
    BY <1>2, <1>3, <1>4, <1>6, <1>7 DEF TablesOK
<1> QED BY <1>3, <1>8 DEF f

(* Updating the name of a cash transaction keeps the shape of the tables.  *)
LEMMA SetCtNameTables ==
    ASSUME NEW e, TablesOK(e), NEW t \in PaidIn(e), NEW v \in CtNames
    PROVE  LET f == [e EXCEPT !.cash[t] = v]
           IN  /\ TablesOK(f) /\ f = [e EXCEPT !.cash = f.cash]
               /\ f.cash = [e.cash EXCEPT ![t] = v]
<1> DEFINE f == [e EXCEPT !.cash[t] = v]
<1>1. IsDb(e)
    BY DEF TablesOK
<1>2. f = [exec |-> e.exec, dts |-> e.dts, status |-> e.status,
           history |-> e.history, tax |-> e.tax, comm |-> e.comm,
           settlement |-> e.settlement,
           se_amt |-> e.se_amt, cash |-> [e.cash EXCEPT ![t] = v], ca_bal |-> e.ca_bal,
           b_comm_total |-> e.b_comm_total, b_num_trades |-> e.b_num_trades, maint |-> e.maint]
    BY <1>1 DEF IsDb
<1> HIDE DEF f
<1>3. /\ IsDb(f) /\ f = [e EXCEPT !.cash = f.cash]
      /\ f.cash = [e.cash EXCEPT ![t] = v]
    BY <1>1, <1>2 DEF IsDb
<1>4. Done(f) = Done(e) /\ PaidIn(f) = PaidIn(e)
    BY <1>2 DEF Done, PaidIn
<1>5. f.cash \in [PaidIn(f) -> CtNames]
    BY <1>3, <1>4 DEF TablesOK
<1>6. TablesOK(f)
    BY <1>2, <1>3, <1>4, <1>5 DEF TablesOK
<1> QED BY <1>3, <1>6 DEF f

-----------------------------------------------------------------------------
(* A run, round by round.                                                  *)

(* The trades looked at in k rounds.                                       *)
Seen(ts, k) == {ts[j] : j \in 1..k}

(* What k rounds from the tables d have made of them: num_updated counts   *)
(* the rows of one column that differ, all of trades already looked at.    *)
RunInv(frame, d, in, ts, a, k) ==
    /\ IsAcc(a) /\ a.snap = d
    /\ TablesOK(a.db) /\ SameBut(frame, d, a.db)
    /\ a.nu \in Nat /\ a.nf \in 0..k
    /\ frame \notin UpdateFrames => a.nu = 0
    /\ frame \in UpdateFrames =>
           /\ a.nu <= in.max_updates
           /\ a.nu = Cardinality(Touched(frame, d, a.db))
           /\ Touched(frame, d, a.db) \subseteq Seen(ts, k)

(* The columns that no Trade-Update frame writes.                          *)
LEMMA SameButFields ==
    ASSUME NEW frame \in ListFrames, NEW d, NEW e, TablesOK(d), TablesOK(e),
           SameBut(frame, d, e)
    PROVE  /\ e.dts = d.dts /\ e.status = d.status /\ e.history = d.history
           /\ Done(e) = Done(d) /\ PaidIn(e) = PaidIn(d)
           /\ frame # "TUF1" => e.exec = d.exec
           /\ frame # "TUF2" => e.settlement = d.settlement
           /\ frame # "TUF3" => e.cash = d.cash
           /\ frame \notin UpdateFrames => e = d
<1>1. /\ e.dts = d.dts /\ e.status = d.status /\ e.history = d.history
      /\ frame # "TUF1" => e.exec = d.exec
      /\ frame # "TUF2" => e.settlement = d.settlement
      /\ frame # "TUF3" => e.cash = d.cash
      /\ frame \notin UpdateFrames => e = d
    BY DEF TablesOK, IsDb, SameBut, ListFrames, UpdateFrames
<1> QED BY <1>1 DEF Done, PaidIn

(* One row changed, in the terms of RunInv.                                *)
LEMMA ToggledTables ==
    ASSUME NEW frame \in UpdateFrames, NEW d, NEW e, NEW src, TablesOK(d), TablesOK(e),
           SameBut(frame, d, e), src \in {d, e}, NEW t, t \notin Touched(frame, d, e),
           t \in DOMAIN Column(frame, d), NEW new, new = Toggled(frame, e, src, t)
    PROVE  /\ TablesOK(new) /\ SameBut(frame, d, new)
           /\ Touched(frame, d, new) = Touched(frame, d, e) \cup {t}
           /\ Cardinality(Touched(frame, d, new)) = Cardinality(Touched(frame, d, e)) + 1
<1>0. Done(e) = Done(d) /\ PaidIn(e) = PaidIn(d)
    BY SameButFields DEF ListFrames
<1>1. CASE frame = "TUF1"
    <2> DEFINE v == ToggleExecName(src.exec[t])
               f == [e EXCEPT !.exec[t] = v]
    <2>1. /\ t \in Trades /\ src.exec[t] = d.exec[t] /\ e.exec[t] = d.exec[t]
          /\ d.exec[t] \in ExecNames /\ Touched(frame, d, e) = {x \in Trades : d.exec[x] # e.exec[x]}
        BY <1>1 DEF Column, Touched, TablesOK
    <2>2. v \in ExecNames /\ v # d.exec[t]
        BY <2>1, TogglesAreChanges
    <2> HIDE DEF v
    <2>3. TablesOK(f) /\ f = [e EXCEPT !.exec = f.exec] /\ f.exec = [e.exec EXCEPT ![t] = v]
        BY <2>1, <2>2, SetExecTables
    <2>4. Toggled(frame, e, src, t) = f
        BY <1>1 DEF Toggled, v
    <2> HIDE DEF f
    <2>5. SameBut(frame, d, f)
        <3>1. f = [d EXCEPT !.exec = f.exec]
            BY <1>1, <2>3 DEF SameBut, TablesOK, IsDb
        <3> QED BY <1>1, <3>1 DEF SameBut
    <2>6. Touched(frame, d, f) = {x \in Trades : d.exec[x] # f.exec[x]}
        BY <1>1, <2>3 DEF Column, Touched, TablesOK
    <2>7. /\ Touched(frame, d, f) = Touched(frame, d, e) \cup {t}
          /\ Cardinality(Touched(frame, d, f)) = Cardinality(Touched(frame, d, e)) + 1
        <3> DEFINE S == Trades
                   c == d.exec
                   h == e.exec
                   g == f.exec
        <3>1. h = [x \in S |-> h[x]]
            BY DEF TablesOK
        <3>2. g = [h EXCEPT ![t] = v] /\ h[t] = c[t] /\ v # c[t] /\ t \in S /\ IsFiniteSet(S)
            BY <2>1, TradesAreFinite, <2>2, <2>3
        <3>3. /\ Touched(frame, d, f) = Differ(S, c, g)
              /\ Touched(frame, d, e) = Differ(S, c, h)
            BY <2>1, <2>6 DEF Differ
        <3> HIDE DEF S, c, h, g
        <3>4. /\ Differ(S, c, g) = Differ(S, c, h) \cup {t}
              /\ Cardinality(Differ(S, c, g)) = Cardinality(Differ(S, c, h)) + 1
            BY <3>1, <3>2, OneMoreTouched
        <3> QED BY <3>3, <3>4
    <2> QED BY <2>3, <2>4, <2>5, <2>7
<1>2. CASE frame = "TUF2"
    <2> DEFINE v == ToggleCashType(Trade[t].is_cash, src.settlement[t])
               f == [e EXCEPT !.settlement[t] = v]
    <2>0. IsFiniteSet(Done(e)) /\ Done(e) \subseteq Trades
        BY TradesAreFinite, FS_Subset DEF Done
    <2>1. /\ t \in Done(e) /\ src.settlement[t] = d.settlement[t]
          /\ e.settlement[t] = d.settlement[t] /\ d.settlement[t] \in CashTypes(t)
          /\ Touched(frame, d, e) = {x \in Done(e) : d.settlement[x] # e.settlement[x]}
        BY <1>0, <1>2 DEF Column, Touched, TablesOK
    <2>2. v \in CashTypes(t) /\ v # d.settlement[t]
        BY <2>0, <2>1, TogglesAreChanges
    <2> HIDE DEF v
    <2>3. /\ TablesOK(f) /\ f = [e EXCEPT !.settlement = f.settlement]
          /\ f.settlement = [e.settlement EXCEPT ![t] = v]
        BY <2>1, <2>2, SetCashTypeTables
    <2>4. Toggled(frame, e, src, t) = f
        BY <1>2 DEF Toggled, v
    <2> HIDE DEF f
    <2>5. SameBut(frame, d, f)
        <3>1. f = [d EXCEPT !.settlement = f.settlement]
            BY <1>2, <2>3 DEF SameBut, TablesOK, IsDb
        <3> QED BY <1>2, <3>1 DEF SameBut
    <2>6. Touched(frame, d, f) =
              {x \in Done(e) : d.settlement[x] # f.settlement[x]}
        BY <1>0, <1>2, <2>3 DEF Column, Touched, TablesOK
    <2>7. /\ Touched(frame, d, f) = Touched(frame, d, e) \cup {t}
          /\ Cardinality(Touched(frame, d, f)) = Cardinality(Touched(frame, d, e)) + 1
        <3> DEFINE S == Done(e)
                   c == d.settlement
                   h == e.settlement
                   g == f.settlement
        <3>1. h = [x \in S |-> h[x]]
            BY DEF TablesOK
        <3>2. g = [h EXCEPT ![t] = v] /\ h[t] = c[t] /\ v # c[t] /\ t \in S /\ IsFiniteSet(S)
            BY <2>0, <2>1, <2>2, <2>3
        <3>3. /\ Touched(frame, d, f) = Differ(S, c, g)
              /\ Touched(frame, d, e) = Differ(S, c, h)
            BY <2>1, <2>6 DEF Differ
        <3> HIDE DEF S, c, h, g
        <3>4. /\ Differ(S, c, g) = Differ(S, c, h) \cup {t}
              /\ Cardinality(Differ(S, c, g)) = Cardinality(Differ(S, c, h)) + 1
            BY <3>1, <3>2, OneMoreTouched
        <3> QED BY <3>3, <3>4
    <2> QED BY <2>3, <2>4, <2>5, <2>7
<1>3. CASE frame = "TUF3"
    <2> DEFINE v == ToggleCtName(src.cash[t])
               f == [e EXCEPT !.cash[t] = v]
    <2>0. IsFiniteSet(PaidIn(e))
        BY TradesAreFinite, FS_Subset DEF PaidIn, Done
    <2>1. /\ t \in PaidIn(e) /\ src.cash[t] = d.cash[t]
          /\ e.cash[t] = d.cash[t] /\ d.cash[t] \in CtNames
          /\ Touched(frame, d, e) = {x \in PaidIn(e) : d.cash[x] # e.cash[x]}
        BY <1>0, <1>3 DEF Column, Touched, TablesOK
    <2>2. v \in CtNames /\ v # d.cash[t]
        BY <2>1, TogglesAreChanges
    <2> HIDE DEF v
    <2>3. /\ TablesOK(f) /\ f = [e EXCEPT !.cash = f.cash]
          /\ f.cash = [e.cash EXCEPT ![t] = v]
        BY <2>1, <2>2, SetCtNameTables
    <2>4. Toggled(frame, e, src, t) = f
        BY <1>3 DEF Toggled, v
    <2> HIDE DEF f
    <2>5. SameBut(frame, d, f)
        <3>1. f = [d EXCEPT !.cash = f.cash]
            BY <1>3, <2>3 DEF SameBut, TablesOK, IsDb
        <3> QED BY <1>3, <3>1 DEF SameBut
    <2>6. Touched(frame, d, f) = {x \in PaidIn(e) : d.cash[x] # f.cash[x]}
        BY <1>0, <1>3, <2>3 DEF Column, Touched, TablesOK
    <2>7. /\ Touched(frame, d, f) = Touched(frame, d, e) \cup {t}
          /\ Cardinality(Touched(frame, d, f)) = Cardinality(Touched(frame, d, e)) + 1
        <3> DEFINE S == PaidIn(e)
                   c == d.cash
                   h == e.cash
                   g == f.cash
        <3>1. h = [x \in S |-> h[x]]
            BY DEF TablesOK
        <3>2. g = [h EXCEPT ![t] = v] /\ h[t] = c[t] /\ v # c[t] /\ t \in S /\ IsFiniteSet(S)
            BY <2>0, <2>1, <2>2, <2>3
        <3>3. /\ Touched(frame, d, f) = Differ(S, c, g)
              /\ Touched(frame, d, e) = Differ(S, c, h)
            BY <2>1, <2>6 DEF Differ
        <3> HIDE DEF S, c, h, g
        <3>4. /\ Differ(S, c, g) = Differ(S, c, h) \cup {t}
              /\ Cardinality(Differ(S, c, g)) = Cardinality(Differ(S, c, h)) + 1
            BY <3>1, <3>2, OneMoreTouched
        <3> QED BY <3>3, <3>4
    <2> QED BY <2>3, <2>4, <2>5, <2>7
<1> QED BY <1>1, <1>2, <1>3 DEF UpdateFrames

(* A new round starts in its body and keeps all but the place.             *)
LEMMA AnewFields ==
    ASSUME NEW acc, IsAcc(acc)
    PROVE  LET a == Anew(acc)
           IN  IsAcc(a) /\ a.at = "body" /\ a.db = acc.db /\ a.snap = acc.snap /\ a.arr = acc.arr
               /\ a.nu = acc.nu /\ a.nf = acc.nf /\ a.max_calls = acc.max_calls
BY DEF Anew, IsAcc

(* RunInv is kept by a round.                                              *)
LEMMA RunStep ==
    ASSUME NEW i \in Impls, NEW frame \in ListFrames, NEW d, TablesOK(d), NEW in, NEW ts,
           frame \in UpdateFrames => in.max_updates \in Nat,
           NEW k \in Nat, k # 0, \A j \in 1..(k - 1) : ts[j] # ts[k],
           NEW acc, RunInv(frame, d, in, ts, acc, k - 1)
    PROVE  RunInv(frame, d, in, ts, Body(i, frame, Anew(acc), ts[k], k, in), k)
<1> DEFINE t == ts[k]
           a == Anew(acc)
           b == Body(i, frame, a, t, k, in)
           e == acc.db
<1> SUFFICES RunInv(frame, d, in, ts, b, k)
    OBVIOUS
<1>1. /\ IsAcc(acc) /\ acc.snap = d /\ TablesOK(e) /\ SameBut(frame, d, e)
      /\ acc.nu \in Nat /\ acc.nf \in 0..(k - 1)
      /\ frame \notin UpdateFrames => acc.nu = 0
    BY DEF RunInv
<1>2. /\ IsAcc(a) /\ a.at = "body" /\ a.db = e /\ a.snap = d
      /\ a.nu = acc.nu /\ a.nf = acc.nf
    BY <1>1, AnewFields
<1> HIDE DEF a
<1>3. Effect(i, frame, a, b, t, in)
    BY <1>1, <1>2, BodyEffect
<1> HIDE DEF b
<1>4. IsAcc(b) /\ b.snap = d /\ b.nf \in 0..k
    <2>1. acc.nf + 1 \in 0..k /\ acc.nf \in 0..k
        BY <1>1
    <2> QED BY <1>2, <1>3, <2>1 DEF Effect
<1>5. CASE ~Toggles(i, frame, a, t, in)
    <2>1. b.db = e /\ b.nu = acc.nu
        BY <1>2, <1>3, <1>5 DEF Effect
    <2>2. Seen(ts, k - 1) \subseteq Seen(ts, k)
        BY DEF Seen
    <2> QED BY <1>1, <1>4, <2>1, <2>2 DEF RunInv
<1>6. CASE Toggles(i, frame, a, t, in)
    <2>1. /\ frame \in UpdateFrames /\ acc.nu < in.max_updates
          /\ b.db = Toggled(frame, e, Source(i, a), t) /\ b.nu = acc.nu + 1
        BY <1>2, <1>3, <1>6 DEF Effect, Toggles
    <2>2. Source(i, a) \in {d, e}
        BY <1>2 DEF Source
    <2>3. Done(e) = Done(d) /\ PaidIn(e) = PaidIn(d)
        BY <1>1, SameButFields
    <2>4. t \in DOMAIN Column(frame, d)
        <3>1. CASE frame = "TUF1"
            BY <1>6, <3>1 DEF Toggles, Exists, Column, TablesOK, Trades
        <3>2. CASE frame = "TUF2"
            <4>1. t \in DOMAIN Source(i, a).settlement
                BY <1>6, <3>2 DEF Toggles, Settled
            <4> QED BY <1>1, <2>2, <2>3, <3>2, <4>1 DEF Column, TablesOK
        <3>3. CASE frame = "TUF3"
            <4>1. t \in DOMAIN Source(i, a).cash
                BY <1>6, <3>3 DEF Toggles, Paid
            <4> QED BY <1>1, <2>2, <2>3, <3>3, <4>1 DEF Column, TablesOK
        <3> QED BY <2>1, <3>1, <3>2, <3>3 DEF UpdateFrames
    <2>5. t \notin Touched(frame, d, e)
        <3>1. Touched(frame, d, e) \subseteq Seen(ts, k - 1)
            BY <2>1 DEF RunInv
        <3> QED BY <3>1 DEF Seen
    <2>6. /\ TablesOK(b.db) /\ SameBut(frame, d, b.db)
          /\ Touched(frame, d, b.db) = Touched(frame, d, e) \cup {t}
          /\ Cardinality(Touched(frame, d, b.db)) = Cardinality(Touched(frame, d, e)) + 1
        BY <1>1, <2>1, <2>2, <2>4, <2>5, ToggledTables
    <2>7. b.nu \in Nat /\ b.nu <= in.max_updates
        BY <1>1, <2>1
    <2>8. b.nu = Cardinality(Touched(frame, d, b.db))
        BY <2>1, <2>6 DEF RunInv
    <2>9. Touched(frame, d, b.db) \subseteq Seen(ts, k)
        <3>1. Touched(frame, d, e) \subseteq Seen(ts, k - 1)
            BY <2>1 DEF RunInv
        <3> QED BY <2>6, <3>1 DEF Seen
    <2> QED BY <1>4, <2>1, <2>6, <2>7, <2>8, <2>9 DEF RunInv
<1> QED BY <1>5, <1>6

(* The loop invariant holds before the first round.                        *)
LEMMA RunStart ==
    ASSUME NEW i, NEW frame \in ListFrames, NEW d, TablesOK(d), NEW in, NEW ts,
           frame \in UpdateFrames => in.max_updates \in Nat
    PROVE  RunInv(frame, d, in, ts, First(i, d), 0)
<1> DEFINE a == First(i, d)
<1>1. IsAcc(a) /\ a.snap = d /\ a.db = d /\ a.nu = 0 /\ a.nf = 0
    BY DEF First, Start, IsAcc
<1> HIDE DEF a
<1>2. SameBut(frame, d, d)
    BY DEF SameBut, TablesOK, IsDb
<1>3. Touched(frame, d, d) = {} /\ Cardinality(Touched(frame, d, d)) = 0
    BY FS_EmptySet DEF Touched
<1>4. RunInv(frame, d, in, ts, a, 0)
    BY <1>1, <1>2, <1>3 DEF RunInv
<1> QED BY <1>4 DEF a

(* Every round of a run keeps it.                                          *)
LEMMA RunKeeps ==
    ASSUME NEW i \in Impls, NEW frame \in ListFrames, NEW d, TablesOK(d), NEW in,
           frame \in UpdateFrames => in.max_updates \in Nat,
           NEW n \in Nat, NEW ts, ts = TradesOf(frame, d, in),
           \A p, q \in 1..n : p # q => ts[p] # ts[q],
           NEW acc, IsRun(acc, i, frame, d, in, n)
    PROVE  \A k \in 0..n : RunInv(frame, d, in, ts, acc[k], k)
<1> DEFINE Bad == {k \in 0..n : ~RunInv(frame, d, in, ts, acc[k], k)}
<1> SUFFICES ASSUME Bad # {} PROVE FALSE
    OBVIOUS
<1>0. Bad \subseteq Nat
    OBVIOUS
<1>1. PICK k \in Bad : \A m \in Bad : k <= m
    <2> HIDE DEF Bad
    <2> QED BY <1>0, MinOfNaturals
<1>2. k # 0
    BY <1>1, RunStart DEF IsRun
<1>3. k \in Nat /\ k \in 1..n /\ k - 1 \in 0..n /\ k - 1 \notin Bad
    <2> HIDE DEF Bad
    <2>1. k \in 0..n
        BY DEF Bad
    <2> QED BY <1>1, <1>2, <2>1
<1>4. RunInv(frame, d, in, ts, acc[k - 1], k - 1)
    BY <1>3
<1>5. \A j \in 1..(k - 1) : ts[j] # ts[k]
    BY <1>3
<1>6. acc[k] = Body(i, frame, Anew(acc[k - 1]), ts[k], k, in)
    BY <1>3 DEF IsRun
<1>7. RunInv(frame, d, in, ts, acc[k], k)
    BY <1>2, <1>3, <1>4, <1>5, <1>6, RunStep
<1> QED BY <1>1, <1>7

-----------------------------------------------------------------------------
(* The frames that are asked for, and their answers.                       *)

IsInput(frame, in) ==
    /\ frame \in ByIds => /\ in.trade_id \in IdLists
                          /\ in.max_trades = Len(in.trade_id)
    /\ frame \notin ByIds => in.max_trades \in MaxTrades
    /\ frame \in UpdateFrames => in.max_updates \in MaxUpdates

(* Every implementation walks over the same list, to its end.              *)
LEMMA ListOfFrame ==
    ASSUME NEW frame \in ListFrames, NEW d, TablesOK(d), NEW in, IsInput(frame, in),
           NEW ts, ts = TradesOf(frame, d, in)
    PROVE  /\ Len(ts) \in 0..MaxRows /\ DOMAIN ts = 1..Len(ts)
           /\ \A p, q \in 1..Len(ts) : p # q => ts[p] # ts[q]
           /\ \A i \in Impls : Rounds(i, frame, d, in) = Len(ts)
           /\ frame \notin ByIds => \A p \in 1..Len(ts) : ts[p] \in Trades
<1>1. MaxRows \in Nat
    BY TablesAssumption
<1>2. CASE frame \in ByIds
    <2>1. ts = in.trade_id /\ in.trade_id \in IdLists /\ in.max_trades = Len(ts)
        BY <1>2 DEF TradesOf, IsInput, ByIds, ByAccount, BySymbol
    <2>2. Len(ts) \in 1..MaxRows /\ IsInjective(ts) /\ ts \in Seq(Range(ts))
        BY <2>1, SuiteAssumption
    <2>3. DOMAIN ts = 1..Len(ts) /\ \A p, q \in 1..Len(ts) : p # q => ts[p] # ts[q]
        <3>1. DOMAIN ts = 1..Len(ts)
            BY <2>2
        <3> QED BY <2>2, <3>1 DEF IsInjective
    <2>4. Min({Len(ts), MaxRows}) = Len(ts) /\ Min({Len(ts), Len(ts)}) = Len(ts)
        BY <1>1, <2>2, MinOfTwo
    <2>5. \A i \in Impls : Rounds(i, frame, d, in) = Len(ts)
        BY <1>2, <2>1, <2>4 DEF Rounds, Impls
    <2> QED BY <1>1, <1>2, <2>2, <2>3, <2>5
<1>3. CASE frame \notin ByIds
    <2>1. in.max_trades \in Nat /\ in.max_trades <= MaxRows
        <3>1. MaxTrades \subseteq 0..MaxRows
            BY SuiteAssumption
        <3>2. in.max_trades \in MaxTrades
            BY <1>3 DEF IsInput
        <3>3. \A m \in MaxTrades : m \in Nat /\ m <= MaxRows
            BY <1>1, <3>1
        <3> QED BY <3>2, <3>3
    <2>2. \A x \in Trades : d.dts[x] \in Nat
        BY DEF TablesOK
    <2>3. PICK S \in SUBSET Trades : ts = ByDts(d, S, in.max_trades)
        <3>1. CASE frame \in ByAccount
            <4> DEFINE S == {t \in DOMAIN Trade : Trade[t].acct = in.acct_id /\ Between(d, t, in)}
            <4>1. ts = ByDts(d, S, in.max_trades)
                BY <1>3, <3>1 DEF TradesOf, OfAccount, ByIds, ByAccount, BySymbol
            <4>2. S \in SUBSET Trades
                BY DEF Trades
            <4> QED BY <4>1, <4>2
        <3>2. CASE frame \in BySymbol
            <4> DEFINE S == {t \in DOMAIN Trade : Trade[t].symb = in.symbol /\ Between(d, t, in)}
            <4>1. ts = ByDts(d, S, in.max_trades)
                BY <1>3, <3>2 DEF TradesOf, OfSymbol, ByAccount, BySymbol
            <4>2. S \in SUBSET Trades
                BY DEF Trades
            <4> QED BY <4>1, <4>2
        <3> QED BY <1>3, <3>1, <3>2 DEF ListFrames, UpdateFrames, ByIds, ByAccount, BySymbol
    <2>4. IsList(ts, S)
        BY <2>1, <2>2, <2>3, ByDtsIsList
    <2>5. /\ Len(ts) \in 0..MaxRows /\ DOMAIN ts = 1..Len(ts)
          /\ \A p, q \in 1..Len(ts) : p # q => ts[p] # ts[q]
          /\ \A p \in 1..Len(ts) : ts[p] \in Trades
        BY <2>4 DEF IsList
    <2>6. Min({Len(ts), MaxRows}) = Len(ts)
        BY <1>1, <2>5, MinOfTwo
    <2>7. \A i \in Impls : Rounds(i, frame, d, in) = Len(ts)
        BY <1>3, <2>6 DEF Rounds, Impls
    <2> QED BY <2>5, <2>7
<1> QED BY <1>2, <1>3

(* What the caller of the frame gets.                                      *)
OutOf(i, frame, d, in) ==
    CASE i = "client" -> FrameOf(i, frame, d, in)
      [] i # "client" /\ frame \in UpdateFrames -> UpdateOutput(FrameOf(i, frame, d, in))
      [] i # "client" /\ frame \notin UpdateFrames -> LookupOutput(FrameOf(i, frame, d, in))

Info(i, a) ==
    CASE i = "client" -> TradeInfo(a.arr)
      [] i = "plpgsql" -> CopyColumns(a.arr)
      [] i = "c" -> CopyColumns([g \in Groups |-> IF a.arr[g] = <<Hole>> THEN <<>> ELSE a.arr[g]])

(* The answer o to the last round a of a run.                              *)
Answers(i, frame, d, a, n, o) ==
    LET found == IF frame \in ByIds THEN a.nf ELSE n
        full == /\ o.db = a.db /\ o.num_updated = a.nu /\ o.num_found = found
                /\ o.ok = TRUE
                /\ (found = 0 /\ a.nu = 0 /\ o.info = ClearedInfo) \/ o.info = Info(i, a)
        none == o.num_updated = 0 /\ o.num_found = 0
    IN  /\ i # "c" => full
        /\ i = "c" => IF a.max_calls = 0 THEN none /\ o.db = a.db
                      ELSE IF \E g \in Groups : Malformed(a.arr[g]) THEN none /\ o.db = d
                      ELSE full

(* What the code after the loop keeps of the last round.                   *)
LEMMA EndedFields ==
    ASSUME NEW frame, NEW a, IsAcc(a), NEW n
    PROVE  LET b == Ended(frame, a, n)
           IN  /\ b.db = a.db /\ b.arr = a.arr /\ b.nu = a.nu /\ b.max_calls = a.max_calls
               /\ b.nf = IF frame \in ByIds THEN a.nf ELSE n
BY DEF Ended, IsAcc

(* Every answer is that to the last round of a run.                        *)
LEMMA FrameAnswers ==
    ASSUME NEW i \in Impls, NEW frame \in ListFrames, NEW d, NEW in, NEW a, IsAcc(a), NEW n,
           frame \notin UpdateFrames => a.nu = 0,
           FrameOf(i, frame, d, in) = AnswerOf(i, d, Ended(frame, a, n))
    PROVE  Answers(i, frame, d, a, n, OutOf(i, frame, d, in))
<1> DEFINE b == Ended(frame, a, n)
           o == OutOf(i, frame, d, in)
           found == IF frame \in ByIds THEN a.nf ELSE n
<1>1. b.db = a.db /\ b.arr = a.arr /\ b.nu = a.nu /\ b.nf = found /\ b.max_calls = a.max_calls
    BY EndedFields
<1> HIDE DEF b
<1>2. CASE i = "client"
    <2>1. o = ClientAnswer(b)
        BY <1>2 DEF OutOf, AnswerOf, b
    <2>2. /\ o.db = a.db /\ o.num_updated = a.nu /\ o.num_found = found /\ o.ok = TRUE
          /\ o.info = TradeInfo(a.arr)
        BY <1>1, <2>1 DEF ClientAnswer
    <2> HIDE DEF o
    <2> QED BY <1>2, <2>2 DEF Answers, Info, o
<1> DEFINE res == FrameOf(i, frame, d, in)
           oo == IF frame \in UpdateFrames THEN UpdateOutput(res) ELSE LookupOutput(res)
<1>3. ASSUME i # "client" PROVE o = oo
    BY <1>3 DEF OutOf
<1>4. /\ oo.db = res.db /\ oo.num_found = res.row.num_found /\ oo.ok = res.ok
      /\ oo.num_updated = IF frame \in UpdateFrames THEN res.row.num_updated ELSE 0
      /\ oo.info = IF res.row = NoRow THEN ClearedInfo ELSE CopyColumns(res.row.cols)
    BY DEF UpdateOutput, LookupOutput
<1>5. NoRow.num_found = 0 /\ NoRow.num_updated = 0
    BY DEF NoRow
<1>6. ASSUME NEW cols, res.row = Row(b, cols), res.ok = TRUE
      PROVE  /\ oo.num_found = found /\ oo.num_updated = a.nu /\ oo.ok = TRUE
             /\ (found = 0 /\ a.nu = 0 /\ oo.info = ClearedInfo) \/ oo.info = CopyColumns(cols)
    <2>1. res.row.num_found = found /\ res.row.num_updated = a.nu /\ res.row.cols = cols
        BY <1>1, <1>6 DEF Row
    <2> HIDE DEF res, oo, found
    <2> QED BY <1>4, <1>5, <1>6, <2>1
<1>7. CASE i = "plpgsql"
    <2>1. res = PlpgsqlRow(b)
        BY <1>7 DEF AnswerOf, b
    <2>2. res.db = a.db /\ res.row = Row(b, a.arr) /\ res.ok = TRUE
        BY <1>1, <2>1 DEF PlpgsqlRow
    <2> HIDE DEF res, o, oo, found
    <2>3. Info(i, a) = CopyColumns(a.arr)
        BY <1>7 DEF Info
    <2>4. /\ o.db = a.db /\ o.num_updated = a.nu /\ o.num_found = found /\ o.ok = TRUE
          /\ (found = 0 /\ a.nu = 0 /\ o.info = ClearedInfo) \/ o.info = Info(i, a)
        BY <1>3, <1>4, <1>6, <1>7, <2>2, <2>3
    <2> QED BY <1>7, <2>4 DEF Answers, o, found
<1>8. CASE i = "c"
    <2> DEFINE lists == [g \in Groups |-> IF a.arr[g] = <<Hole>> THEN <<>> ELSE a.arr[g]]
    <2>1. res = CRow(d, b)
        BY <1>8 DEF AnswerOf, b
    <2>2. CASE a.max_calls = 0
        <3>1. res = [ok |-> TRUE, db |-> a.db, row |-> NoRow]
            BY <1>1, <2>1, <2>2 DEF CRow
        <3>2. res.db = a.db /\ res.row = NoRow
            BY <3>1
        <3> HIDE DEF res, o, oo, found
        <3>3. o.db = a.db /\ o.num_updated = 0 /\ o.num_found = 0
            BY <1>3, <1>4, <1>5, <1>8, <3>2
        <3> QED BY <1>8, <2>2, <3>3 DEF Answers, o
    <2>3. CASE a.max_calls # 0 /\ \E g \in Groups : Malformed(a.arr[g])
        <3>1. res = [ok |-> FALSE, db |-> d, row |-> NoRow]
            BY <1>1, <2>1, <2>3 DEF CRow
        <3>2. res.db = d /\ res.row = NoRow
            BY <3>1
        <3> HIDE DEF res, o, oo, found
        <3>3. o.db = d /\ o.num_updated = 0 /\ o.num_found = 0
            BY <1>3, <1>4, <1>5, <1>8, <3>2
        <3> QED BY <1>8, <2>3, <3>3 DEF Answers, o
    <2>4. CASE a.max_calls # 0 /\ ~\E g \in Groups : Malformed(a.arr[g])
        <3>1. res = [ok |-> TRUE, db |-> a.db, row |-> Row(b, lists)]
            BY <1>1, <2>1, <2>4 DEF CRow
        <3>2. res.db = a.db /\ res.row = Row(b, lists) /\ res.ok = TRUE
            BY <3>1
        <3>3. Info(i, a) = CopyColumns(lists)
            BY <1>8 DEF Info
        <3> HIDE DEF res, o, oo, found, lists
        <3>4. /\ o.db = a.db /\ o.num_updated = a.nu /\ o.num_found = found /\ o.ok = TRUE
              /\ (found = 0 /\ a.nu = 0 /\ o.info = ClearedInfo) \/ o.info = Info(i, a)
            BY <1>3, <1>4, <1>6, <1>8, <3>2, <3>3
        <3> QED BY <1>8, <2>4, <3>4 DEF Answers, o, found
    <2> QED BY <2>2, <2>3, <2>4
<1> QED BY <1>2, <1>7, <1>8 DEF Impls

-----------------------------------------------------------------------------
(* What has been asked for, and what out holds then.                       *)

IsListAnswer(frame, in, answers) ==
    /\ frame \in ListFrames /\ IsInput(frame, in)
    /\ \A i \in Impls : answers[i] = OutOf(i, frame, db, in)

IsTradeResult(in, answers) ==
    /\ in.trade_id \in Trades \ Done(db)
    /\ in.gain \in Int /\ in.trade_qty \in Nat /\ in.value \in Int
    /\ in.trade_dts = Max({db.dts[u] : u \in Trades}) + 1
    /\ answers["client"] = ClientTR(db, in) /\ answers["plpgsql"] = PlpgsqlTR(db, in)
    /\ answers["c"] = CTR(db, in)

IsMaintenance(in, answers) ==
    /\ in.table_name = db.maint.table
    /\ answers["client"] = ClientDMF1(db, in)
    /\ answers["plpgsql"] = ServerDMF1(db, PlpgsqlDMF1(db, in))
    /\ answers["c"] = ServerDMF1(db, CDMF1(db, in))

IsHoldingAnswer(in, answers) ==
    /\ answers["client"] = ClientTLF4(db, in)
    /\ answers["plpgsql"] = ServerTLF4(PlpgsqlTLF4(db, in))
    /\ answers["c"] = ServerTLF4(CTLF4(db, in))

IsAnswer(frame, in, answers) ==
    \/ IsListAnswer(frame, in, answers)
    \/ frame = "TLF4" /\ IsHoldingAnswer(in, answers)
    \/ frame = "TR" /\ IsTradeResult(in, answers)
    \/ frame = "DM" /\ IsMaintenance(in, answers)

AskedInv ==
    asked = Nothing \/ IsAnswer(asked.frame, asked.in, out)

(* The three answers of All, one by one.                                   *)
LEMMA AllOf ==
    ASSUME NEW x, NEW y, NEW z
    PROVE  /\ All(x, y, z)["client"] = x /\ All(x, y, z)["plpgsql"] = y /\ All(x, y, z)["c"] = z
BY DEF All, Impls

(* The trade ids reach the stored function as they are.                    *)
LEMMA ServerInputIsInput ==
    ASSUME NEW ids \in IdLists, NEW in, in.trade_id = ids, in.max_trades = Len(ids),
           in = [in EXCEPT !.trade_id = ids]
    PROVE  ServerInput(in) = in
<1>1. Len(ids) \in Nat /\ 1 <= Len(ids) /\ ids \in Seq(Range(ids))
    BY SuiteAssumption, TablesAssumption
<1>2. Max({1, Len(ids)}) = Len(ids)
    BY <1>1, MaxOfTwo
<1>3. SubSeq(ids, 1, Len(ids)) = ids
    BY <1>1
<1> QED BY <1>2, <1>3 DEF ServerInput, TradeIdLiteral

(* A frame that ran leaves its three answers and the tables as they were.  *)
LEMMA RunIsAnswer ==
    ASSUME NEW frame, NEW in, NEW answers, Run(frame, in, answers),
           IsAnswer(frame, in, answers)
    PROVE  AskedInv' /\ db' = db
<1>1. asked'.frame = frame /\ asked'.in = in /\ out' = answers /\ db' = db
    BY DEF Run
<1>2. IsAnswer(asked'.frame, asked'.in, out')
    BY <1>1
<1>3. IsAnswer(asked.frame, asked.in, out)'
    BY <1>1, <1>2 DEF IsAnswer, IsListAnswer, IsTradeResult, IsMaintenance, IsHoldingAnswer
<1> QED BY <1>1, <1>3 DEF AskedInv

(* The three Trade-Update frames leave their answers.                      *)
LEMMA UpdateIsAnswer ==
    ASSUME DoTradeUpdateFrame1 \/ DoTradeUpdateFrame2 \/ DoTradeUpdateFrame3
    PROVE  AskedInv' /\ db' = db
<1>1. CASE DoTradeUpdateFrame1
    <2>1. PICK ids \in IdLists, u \in MaxUpdates :
              LET in == [trade_id |-> ids, max_trades |-> Len(ids), max_updates |-> u]
              IN  Run("TUF1", in, All(ClientTUF1(db, in),
                          ServerTUF1(PlpgsqlTUF1(db, ServerInput(in))),
                          ServerTUF1(CTUF1(db, ServerInput(in)))))
        BY <1>1, Zenon DEF DoTradeUpdateFrame1
    <2> DEFINE in == [trade_id |-> ids, max_trades |-> Len(ids), max_updates |-> u]
               answers == All(ClientTUF1(db, in), ServerTUF1(PlpgsqlTUF1(db, in)),
                              ServerTUF1(CTUF1(db, in)))
    <2>2. ServerInput(in) = in
        BY ServerInputIsInput
    <2>3. Run("TUF1", in, answers)
        BY <2>1, <2>2
    <2>4. IsInput("TUF1", in)
        BY DEF IsInput, ByIds, UpdateFrames
    <2> HIDE DEF in
    <2>5. \A i \in Impls : answers[i] = OutOf(i, "TUF1", db, in)
        BY AllOf DEF OutOf, FrameOf, Impls, ServerTUF1, UpdateFrames
    <2> HIDE DEF answers
    <2>6. IsAnswer("TUF1", in, answers)
        BY <2>4, <2>5 DEF IsAnswer, IsListAnswer, ListFrames, UpdateFrames
    <2> QED BY <2>3, <2>6, RunIsAnswer
<1>2. CASE DoTradeUpdateFrame2
    <2>1. PICK a \in Accounts, w \in Windows, m \in MaxTrades, u \in MaxUpdates :
              LET in == [acct_id |-> a, start_dts |-> w[1], end_dts |-> w[2],
                         max_trades |-> m, max_updates |-> u]
              IN  Run("TUF2", in, All(ClientTUF2(db, in), ServerTUF2(PlpgsqlTUF2(db, in)),
                               ServerTUF2(CTUF2(db, in))))
        BY <1>2, Zenon DEF DoTradeUpdateFrame2
    <2> DEFINE in == [acct_id |-> a, start_dts |-> w[1], end_dts |-> w[2],
                      max_trades |-> m, max_updates |-> u]
               answers == All(ClientTUF2(db, in), ServerTUF2(PlpgsqlTUF2(db, in)),
                              ServerTUF2(CTUF2(db, in)))
    <2>3. Run("TUF2", in, answers)
        BY <2>1
    <2>4. IsInput("TUF2", in)
        BY DEF IsInput, ByIds, UpdateFrames
    <2> HIDE DEF in
    <2>5. \A i \in Impls : answers[i] = OutOf(i, "TUF2", db, in)
        BY AllOf DEF OutOf, FrameOf, Impls, ServerTUF2, UpdateFrames
    <2> HIDE DEF answers
    <2>6. IsAnswer("TUF2", in, answers)
        BY <2>4, <2>5 DEF IsAnswer, IsListAnswer, ListFrames, UpdateFrames
    <2> QED BY <2>3, <2>6, RunIsAnswer
<1>3. CASE DoTradeUpdateFrame3
    <2>1. PICK s \in Symbols, w \in Windows, m \in MaxTrades, u \in MaxUpdates :
              LET in == [symbol |-> s, start_dts |-> w[1], end_dts |-> w[2],
                         max_trades |-> m, max_updates |-> u]
              IN  Run("TUF3", in, All(ClientTUF3(db, in), ServerTUF3(PlpgsqlTUF3(db, in)),
                               ServerTUF3(CTUF3(db, in))))
        BY <1>3, Zenon DEF DoTradeUpdateFrame3
    <2> DEFINE in == [symbol |-> s, start_dts |-> w[1], end_dts |-> w[2],
                      max_trades |-> m, max_updates |-> u]
               answers == All(ClientTUF3(db, in), ServerTUF3(PlpgsqlTUF3(db, in)),
                              ServerTUF3(CTUF3(db, in)))
    <2>3. Run("TUF3", in, answers)
        BY <2>1
    <2>4. IsInput("TUF3", in)
        BY DEF IsInput, ByIds, UpdateFrames
    <2> HIDE DEF in
    <2>5. \A i \in Impls : answers[i] = OutOf(i, "TUF3", db, in)
        BY AllOf DEF OutOf, FrameOf, Impls, ServerTUF3, UpdateFrames
    <2> HIDE DEF answers
    <2>6. IsAnswer("TUF3", in, answers)
        BY <2>4, <2>5 DEF IsAnswer, IsListAnswer, ListFrames, UpdateFrames
    <2> QED BY <2>3, <2>6, RunIsAnswer
<1> QED BY <1>1, <1>2, <1>3

(* The first three Trade-Lookup frames leave their answers.                *)
LEMMA LookupIsAnswer ==
    ASSUME DoTradeLookupFrame1 \/ DoTradeLookupFrame2 \/ DoTradeLookupFrame3
    PROVE  AskedInv' /\ db' = db
<1>1. CASE DoTradeLookupFrame1
    <2>1. PICK ids \in IdLists :
              LET in == [trade_id |-> ids, max_trades |-> Len(ids)]
              IN  Run("TLF1", in, All(ClientTLF1(db, in),
                          ServerTLF1(PlpgsqlTLF1(db, ServerInput(in))),
                          ServerTLF1(CTLF1(db, ServerInput(in)))))
        BY <1>1, Zenon DEF DoTradeLookupFrame1
    <2> DEFINE in == [trade_id |-> ids, max_trades |-> Len(ids)]
               answers == All(ClientTLF1(db, in), ServerTLF1(PlpgsqlTLF1(db, in)),
                              ServerTLF1(CTLF1(db, in)))
    <2>2. ServerInput(in) = in
        BY ServerInputIsInput
    <2>3. Run("TLF1", in, answers)
        BY <2>1, <2>2
    <2>4. IsInput("TLF1", in)
        BY DEF IsInput, ByIds, UpdateFrames
    <2> HIDE DEF in
    <2>5. \A i \in Impls : answers[i] = OutOf(i, "TLF1", db, in)
        BY AllOf DEF OutOf, FrameOf, Impls, ServerTLF1, UpdateFrames
    <2> HIDE DEF answers
    <2>6. IsAnswer("TLF1", in, answers)
        BY <2>4, <2>5 DEF IsAnswer, IsListAnswer, ListFrames, UpdateFrames
    <2> QED BY <2>3, <2>6, RunIsAnswer
<1>2. CASE DoTradeLookupFrame2
    <2>1. PICK a \in Accounts, w \in Windows, m \in MaxTrades :
              LET in == [acct_id |-> a, start_dts |-> w[1], end_dts |-> w[2], max_trades |-> m]
              IN  Run("TLF2", in, All(ClientTLF2(db, in), ServerTLF2(PlpgsqlTLF2(db, in)),
                               ServerTLF2(CTLF2(db, in))))
        BY <1>2, Zenon DEF DoTradeLookupFrame2
    <2> DEFINE in == [acct_id |-> a, start_dts |-> w[1], end_dts |-> w[2], max_trades |-> m]
               answers == All(ClientTLF2(db, in), ServerTLF2(PlpgsqlTLF2(db, in)),
                              ServerTLF2(CTLF2(db, in)))
    <2>3. Run("TLF2", in, answers)
        BY <2>1
    <2>4. IsInput("TLF2", in)
        BY DEF IsInput, ByIds, UpdateFrames
    <2> HIDE DEF in
    <2>5. \A i \in Impls : answers[i] = OutOf(i, "TLF2", db, in)
        BY AllOf DEF OutOf, FrameOf, Impls, ServerTLF2, UpdateFrames
    <2> HIDE DEF answers
    <2>6. IsAnswer("TLF2", in, answers)
        BY <2>4, <2>5 DEF IsAnswer, IsListAnswer, ListFrames, UpdateFrames
    <2> QED BY <2>3, <2>6, RunIsAnswer
<1>3. CASE DoTradeLookupFrame3
    <2>1. PICK s \in Symbols, w \in Windows, m \in MaxTrades :
              LET in == [symbol |-> s, start_dts |-> w[1], end_dts |-> w[2], max_trades |-> m]
              IN  Run("TLF3", in, All(ClientTLF3(db, in), ServerTLF3(PlpgsqlTLF3(db, in)),
                               ServerTLF3(CTLF3(db, in))))
        BY <1>3, Zenon DEF DoTradeLookupFrame3
    <2> DEFINE in == [symbol |-> s, start_dts |-> w[1], end_dts |-> w[2], max_trades |-> m]
               answers == All(ClientTLF3(db, in), ServerTLF3(PlpgsqlTLF3(db, in)),
                              ServerTLF3(CTLF3(db, in)))
    <2>3. Run("TLF3", in, answers)
        BY <2>1
    <2>4. IsInput("TLF3", in)
        BY DEF IsInput, ByIds, UpdateFrames
    <2> HIDE DEF in
    <2>5. \A i \in Impls : answers[i] = OutOf(i, "TLF3", db, in)
        BY AllOf DEF OutOf, FrameOf, Impls, ServerTLF3, UpdateFrames
    <2> HIDE DEF answers
    <2>6. IsAnswer("TLF3", in, answers)
        BY <2>4, <2>5 DEF IsAnswer, IsListAnswer, ListFrames, UpdateFrames
    <2> QED BY <2>3, <2>6, RunIsAnswer
<1> QED BY <1>1, <1>2, <1>3

(* Trade-Lookup 4, Trade-Result and Data-Maintenance leave their answers.  *)
LEMMA OthersAreAnswers ==
    ASSUME TablesOK(db), DoTradeLookupFrame4 \/ DoTradeResult \/ DoDataMaintenanceFrame1
    PROVE  AskedInv' /\ db' = db
<1>1. CASE DoTradeLookupFrame4
    <2>1. PICK a \in Accounts, w \in Windows :
              LET in == [acct_id |-> a, start_dts |-> w[1]]
              IN  Run("TLF4", in, All(ClientTLF4(db, in), ServerTLF4(PlpgsqlTLF4(db, in)),
                               ServerTLF4(CTLF4(db, in))))
        BY <1>1, Zenon DEF DoTradeLookupFrame4
    <2> DEFINE in == [acct_id |-> a, start_dts |-> w[1]]
               answers == All(ClientTLF4(db, in), ServerTLF4(PlpgsqlTLF4(db, in)),
                              ServerTLF4(CTLF4(db, in)))
    <2>2. Run("TLF4", in, answers)
        BY <2>1
    <2> HIDE DEF in
    <2>3. IsAnswer("TLF4", in, answers)
        BY AllOf DEF IsAnswer, IsHoldingAnswer
    <2> QED BY <2>2, <2>3, RunIsAnswer
<1>2. CASE DoTradeResult
    <2>1. PICK t \in {u \in Trades : db.status[u] = "SBMT"} :
              LET in == [trade_id |-> t, gain |-> Trade[t].gain, trade_qty |-> Trade[t].qty,
                         value |-> Trade[t].value,
                         trade_dts |-> Max({db.dts[u] : u \in Trades}) + 1]
              IN  Run("TR", in, All(ClientTR(db, in), PlpgsqlTR(db, in), CTR(db, in)))
        BY <1>2, Zenon DEF DoTradeResult
    <2> DEFINE in == [trade_id |-> t, gain |-> Trade[t].gain, trade_qty |-> Trade[t].qty,
                      value |-> Trade[t].value,
                      trade_dts |-> Max({db.dts[u] : u \in Trades}) + 1]
               answers == All(ClientTR(db, in), PlpgsqlTR(db, in), CTR(db, in))
    <2>2. Run("TR", in, answers)
        BY <2>1
    <2>3. t \in Trades \ Done(db)
        BY <2>1 DEF Done
    <2>4. Trade[t].gain \in Int /\ Trade[t].qty \in Nat /\ Trade[t].value \in Int
        BY <2>3, SuiteAssumption DEF Trades
    <2>5. /\ in.trade_id = t /\ in.gain = Trade[t].gain /\ in.trade_qty = Trade[t].qty
          /\ in.value = Trade[t].value /\ in.trade_dts = Max({db.dts[u] : u \in Trades}) + 1
        OBVIOUS
    <2> HIDE DEF in
    <2>6. IsTradeResult(in, answers)
        BY <2>3, <2>4, <2>5, AllOf DEF IsTradeResult
    <2>7. IsAnswer("TR", in, answers)
        BY <2>6 DEF IsAnswer
    <2> QED BY <2>2, <2>7, RunIsAnswer
<1>3. CASE DoDataMaintenanceFrame1
    <2>1. PICK key \in DOMAIN db.maint.rows \cup {NoKey} :
              LET in == [table_name |-> db.maint.table, key |-> key]
              IN  Run("DM", in, All(ClientDMF1(db, in), ServerDMF1(db, PlpgsqlDMF1(db, in)),
                                ServerDMF1(db, CDMF1(db, in))))
        BY <1>3, Zenon DEF DoDataMaintenanceFrame1
    <2> DEFINE in == [table_name |-> db.maint.table, key |-> key]
               answers == All(ClientDMF1(db, in), ServerDMF1(db, PlpgsqlDMF1(db, in)),
                              ServerDMF1(db, CDMF1(db, in)))
    <2>2. Run("DM", in, answers)
        BY <2>1
    <2>3. in.table_name = db.maint.table
        OBVIOUS
    <2> HIDE DEF in
    <2>4. IsAnswer("DM", in, answers)
        BY <2>3, AllOf DEF IsAnswer, IsMaintenance
    <2> QED BY <2>2, <2>4, RunIsAnswer
<1> QED BY <1>1, <1>2, <1>3

(* The answer of a frame is that of a run that keeps RunInv.               *)
LEMMA AnswerOfRun ==
    ASSUME NEW i \in Impls, NEW frame \in ListFrames, NEW d, TablesOK(d), NEW in,
           IsInput(frame, in), NEW ts, ts = TradesOf(frame, d, in)
    PROVE  \E acc : /\ IsRun(acc, i, frame, d, in, Len(ts))
                    /\ \A k \in 0..Len(ts) : RunInv(frame, d, in, ts, acc[k], k)
                    /\ Answers(i, frame, d, acc[Len(ts)], Len(ts), OutOf(i, frame, d, in))
<1> DEFINE n == Len(ts)
<1>1. /\ n \in 0..MaxRows /\ (\A p, q \in 1..n : p # q => ts[p] # ts[q])
      /\ Rounds(i, frame, d, in) = n
    BY ListOfFrame
<1> HIDE DEF n
<1>2. n \in Nat /\ n \in 0..n
    BY <1>1, TablesAssumption
<1>3. frame \in UpdateFrames => in.max_updates \in Nat
    BY SuiteAssumption DEF IsInput
<1>4. PICK acc : /\ IsRun(acc, i, frame, d, in, n)
                 /\ FrameOf(i, frame, d, in) = AnswerOf(i, d, Ended(frame, acc[n], n))
    BY <1>1, <1>2, FramesRun DEF FrameRuns
<1>5. \A k \in 0..n : RunInv(frame, d, in, ts, acc[k], k)
    BY <1>1, <1>2, <1>3, <1>4, RunKeeps
<1>6. IsAcc(acc[n]) /\ (frame \notin UpdateFrames => acc[n].nu = 0)
    BY <1>2, <1>5 DEF RunInv
<1>7. Answers(i, frame, d, acc[n], n, OutOf(i, frame, d, in))
    BY <1>4, <1>6, FrameAnswers
<1> QED BY <1>4, <1>5, <1>7 DEF n

-----------------------------------------------------------------------------
(* Money.                                                                  *)

CashOf(d, a) == {t \in PaidIn(d) : Trade[t].acct = a}

MoneyOf(d) ==
    /\ \A a \in Accounts : d.ca_bal[a] = SumOver(d.se_amt, CashOf(d, a))
    /\ d.b_comm_total = SumOver(d.comm, Done(d))
    /\ d.b_num_trades = Cardinality(Done(d))
    /\ \A t \in Trades : t \in Done(d) <=> Last(d.history[t]) = "CMPT"

(* The accounts of the tables are what MoneyAddsUp speaks of.              *)
LEMMA MoneyOfTables ==
    ASSUME TablesOK(db), MoneyOf(db)
    PROVE  MoneyAddsUp
<1>1. \A a \in Accounts : {t \in DOMAIN db.cash : Trade[t].acct = a} = CashOf(db, a)
    BY DEF TablesOK, CashOf
<1>2. \A t \in Trades : t \in Done(db) <=> Complete(db, t)
    BY TradesAreFinite DEF TablesOK, Complete, Exists, Settled, Paid, PaidIn, Done, Trades
<1>3. \A a \in Accounts : db.ca_bal[a] = MapThenSumSet(LAMBDA t : db.se_amt[t],
                              {t \in DOMAIN db.cash : Trade[t].acct = a})
    BY <1>1 DEF MoneyOf, SumOver
<1>4. db.b_comm_total = MapThenSumSet(LAMBDA t : db.comm[t], Done(db))
    BY DEF MoneyOf, SumOver
<1>5. /\ db.b_num_trades = Cardinality(Done(db))
      /\ \A t \in Trades : t \in Done(db) <=> Last(db.history[t]) = "CMPT"
    BY DEF MoneyOf
<1> QED BY <1>2, <1>3, <1>4, <1>5, Zenon DEF MoneyAddsUp, Done

(* The frames of lists leave the money alone.                              *)
LEMMA MoneyOfLists ==
    ASSUME NEW frame \in ListFrames, NEW d, NEW e, TablesOK(d), TablesOK(e),
           SameBut(frame, d, e), MoneyOf(d)
    PROVE  MoneyOf(e)
<1>1. /\ e.ca_bal = d.ca_bal /\ e.se_amt = d.se_amt /\ e.comm = d.comm
      /\ e.b_comm_total = d.b_comm_total /\ e.b_num_trades = d.b_num_trades
    BY DEF TablesOK, IsDb, SameBut, ListFrames, UpdateFrames
<1>2. e.history = d.history /\ Done(e) = Done(d) /\ PaidIn(e) = PaidIn(d)
    BY SameButFields
<1>3. \A a : CashOf(e, a) = CashOf(d, a)
    BY <1>2 DEF CashOf
<1> QED BY <1>1, <1>2, <1>3 DEF MoneyOf

(* No frame over a list breaks the tables or moves money.                  *)
LEMMA ListsKeepTables ==
    ASSUME NEW i \in Impls, NEW frame \in ListFrames, NEW d, TablesOK(d), MoneyOf(d), NEW in,
           IsInput(frame, in)
    PROVE  LET e == OutOf(i, frame, d, in).db IN TablesOK(e) /\ MoneyOf(e)
<1> DEFINE ts == TradesOf(frame, d, in)
           n == Len(ts)
           o == OutOf(i, frame, d, in)
<1>1. PICK acc : /\ \A k \in 0..n : RunInv(frame, d, in, ts, acc[k], k)
                 /\ Answers(i, frame, d, acc[n], n, o)
    BY AnswerOfRun
<1>2. n \in 0..n
    BY ListOfFrame, TablesAssumption
<1> HIDE DEF ts, n, o
<1>3. TablesOK(acc[n].db) /\ SameBut(frame, d, acc[n].db)
    BY <1>1, <1>2 DEF RunInv
<1>4. MoneyOf(acc[n].db)
    BY <1>3, MoneyOfLists
<1>5. o.db \in {d, acc[n].db}
    BY <1>1 DEF Answers
<1> QED BY <1>3, <1>4, <1>5 DEF o

(* Data-Maintenance changes its own table only.                            *)
LEMMA MaintainedTables ==
    ASSUME NEW d, TablesOK(d), NEW m, NEW e, e = [d EXCEPT !.maint = m]
    PROVE  TablesOK(e) /\ (MoneyOf(d) => MoneyOf(e)) /\ e.maint = m
<1>1. e = [exec |-> d.exec, dts |-> d.dts, status |-> d.status, history |-> d.history,
         tax |-> d.tax, comm |-> d.comm, settlement |-> d.settlement, se_amt |-> d.se_amt,
         cash |-> d.cash, ca_bal |-> d.ca_bal, b_comm_total |-> d.b_comm_total,
         b_num_trades |-> d.b_num_trades, maint |-> m]
    BY DEF TablesOK, IsDb
<1>2. IsDb(e)
    BY <1>1 DEF IsDb
<1>3. /\ e.exec = d.exec /\ e.dts = d.dts /\ e.status = d.status /\ e.history = d.history
      /\ e.comm = d.comm /\ e.settlement = d.settlement /\ e.se_amt = d.se_amt
      /\ e.cash = d.cash /\ e.ca_bal = d.ca_bal /\ e.b_comm_total = d.b_comm_total
      /\ e.b_num_trades = d.b_num_trades /\ e.maint = m
    BY <1>1
<1>4. Done(e) = Done(d) /\ PaidIn(e) = PaidIn(d)
    BY <1>3 DEF Done, PaidIn
<1>5. TablesOK(e)
    BY <1>2, <1>3, <1>4 DEF TablesOK
<1>6. \A a : CashOf(e, a) = CashOf(d, a)
    BY <1>4 DEF CashOf
<1>7. MoneyOf(d) => MoneyOf(e)
    BY <1>3, <1>4, <1>6 DEF MoneyOf
<1> QED BY <1>3, <1>5, <1>7

(* What becomes of the table under maintenance.                            *)
NewMaint(m, in, impl) ==
    IF in.key \in DOMAIN m.rows
    THEN [m EXCEPT !.rows = [m.rows EXCEPT ![in.key] = NewRows(in.table_name, m.rows[in.key], impl)]]
    ELSE m

(* Data-Maintenance writes nothing but the maintained table.               *)
LEMMA UpdateRowsIsMaint ==
    ASSUME NEW d, TablesOK(d), NEW in, NEW impl
    PROVE  UpdateRows(d, in, impl) = [d EXCEPT !.maint = NewMaint(d.maint, in, impl)]
<1>1. CASE in.key \in DOMAIN d.maint.rows
    BY <1>1 DEF UpdateRows, NewMaint
<1>2. CASE in.key \notin DOMAIN d.maint.rows
    <2>1. d = [d EXCEPT !.maint = d.maint]
        BY DEF TablesOK, IsDb
    <2> QED BY <1>2, <2>1 DEF UpdateRows, NewMaint
<1> QED BY <1>1, <1>2

(* An implementation of Data-Maintenance updates the rows or nothing.      *)
LEMMA MaintenanceAnswers ==
    ASSUME NEW in, NEW answers, IsMaintenance(in, answers), TablesOK(db), NEW i \in Impls
    PROVE  answers[i].db \in {db, UpdateRows(db, in, i)}
<1>1. answers["client"].db \in {db, UpdateRows(db, in, "client")}
    BY DEF IsMaintenance, ClientDMF1
<1>2. answers["plpgsql"].db \in {db, UpdateRows(db, in, "plpgsql")}
    BY DEF IsMaintenance, ServerDMF1, PlpgsqlDMF1
<1>3. answers["c"].db \in {db, UpdateRows(db, in, "c")}
    BY DEF IsMaintenance, ServerDMF1, CDMF1
<1> QED BY <1>1, <1>2, <1>3 DEF Impls

(* Data-Maintenance keeps the shape of the tables and moves no money.      *)
LEMMA MaintenanceKeepsTables ==
    ASSUME NEW in, NEW answers, IsMaintenance(in, answers), TablesOK(db), MoneyOf(db),
           NEW i \in Impls
    PROVE  TablesOK(answers[i].db) /\ MoneyOf(answers[i].db)
<1>1. answers[i].db \in {db, UpdateRows(db, in, i)}
    BY MaintenanceAnswers
<1> DEFINE e == UpdateRows(db, in, i)
<1>2. e = [db EXCEPT !.maint = NewMaint(db.maint, in, i)]
    BY UpdateRowsIsMaint
<1> HIDE DEF e
<1>3. TablesOK(e) /\ MoneyOf(e)
    BY <1>2, MaintainedTables
<1> QED BY <1>1, <1>3 DEF e

(* Trade-Lookup Frame 4 changes nothing.                                   *)
LEMMA HoldingKeepsTables ==
    ASSUME NEW in, NEW answers, IsHoldingAnswer(in, answers), NEW i \in Impls
    PROVE  answers[i].db = db
<1>1. answers["client"].db = db
    BY DEF IsHoldingAnswer, ClientTLF4, Answer4
<1>2. answers["plpgsql"].db = db
    BY DEF IsHoldingAnswer, ServerTLF4, PlpgsqlTLF4, Answer4
<1>3. answers["c"].db = db
    BY DEF IsHoldingAnswer, ServerTLF4, CTLF4, Answer4
<1> QED BY <1>1, <1>2, <1>3 DEF Impls

-----------------------------------------------------------------------------
(* Trade-Result.                                                           *)

(* The rates of the first j tax rates added up.                            *)
IsSum(sum, j) ==
    sum[0] = 0 /\ \A k \in 1..j : sum[k] = sum[k - 1] + TaxRates[k]

(* The running sums of the tax rates exist and are naturals.               *)
LEMMA SumsOfRatesExist ==
    ASSUME NEW len \in Nat, len <= Len(TaxRates)
    PROVE  \E sum : IsSum(sum, len) /\ \A k \in 0..len : sum[k] \in Nat
<1> DEFINE Exists1(k) == \E sum : IsSum(sum, k) /\ \A j \in 0..k : sum[j] \in Nat
           Bad == {k \in 0..len : ~Exists1(k)}
<1>0. TaxRates \in Seq(Nat)
    BY RatesAssumption
<1>1. 0 \notin Bad
    <2>1. IsSum([r \in {0} |-> 0], 0) /\ \A j \in 0..0 : [r \in {0} |-> 0][j] \in Nat
        BY DEF IsSum
    <2> QED BY <2>1
<1>2. Bad = {}
    <2> SUFFICES ASSUME Bad # {} PROVE FALSE
        OBVIOUS
    <2>1. PICK k \in Bad : \A y \in Bad : k <= y
        <3>1. Bad \subseteq Nat
            OBVIOUS
        <3> HIDE DEF Bad
        <3> QED BY <3>1, MinOfNaturals
    <2>2. k \in Nat /\ k # 0 /\ k \in 1..Len(TaxRates) /\ k \in 1..len
        BY <1>0, <1>1, <2>1
    <2>3. k - 1 \in 0..len /\ k - 1 \notin Bad
        <3> HIDE DEF Bad
        <3> QED BY <2>1, <2>2
    <2>4. PICK sum : IsSum(sum, k - 1) /\ \A j \in 0..(k - 1) : sum[j] \in Nat
        BY <2>3
    <2> DEFINE more == [r \in 0..k |-> IF r = k THEN sum[k - 1] + TaxRates[k] ELSE sum[r]]
    <2>5. more[0] = 0
        BY <2>2, <2>4 DEF IsSum
    <2>6. ASSUME NEW r \in 1..k PROVE more[r] = more[r - 1] + TaxRates[r]
        <3>1. more[r - 1] = sum[r - 1]
            BY <2>2
        <3>2. CASE r = k
            BY <2>2, <3>1, <3>2
        <3>3. CASE r # k
            <4>1. r \in 1..(k - 1) /\ more[r] = sum[r]
                BY <2>2, <3>3
            <4> QED BY <2>4, <3>1, <4>1 DEF IsSum
        <3> QED BY <3>2, <3>3
    <2>7. \A j \in 0..k : more[j] \in Nat
        <3>1. TaxRates[k] \in Nat /\ sum[k - 1] \in Nat
            BY <1>0, <2>2, <2>4
        <3>2. \A j \in 0..k : j # k => j \in 0..(k - 1)
            BY <2>2
        <3> QED BY <2>4, <3>1, <3>2
    <2>8. IsSum(more, k)
        <3> HIDE DEF more
        <3> QED BY <2>5, <2>6 DEF IsSum
    <2> HIDE DEF more
    <2> QED BY <2>1, <2>7, <2>8
<1> QED BY <1>2

(* The sum of the tax rates is a natural, zero if there are none.          *)
LEMMA SumOfRatesIsNat ==
    SumOfRates \in Nat /\ (TaxRates = <<>> => SumOfRates = 0)
<1> DEFINE n == Len(TaxRates)
           It == CHOOSE sum : sum = [k \in 0..n |-> IF k = 0 THEN 0 ELSE sum[k - 1] + TaxRates[k]]
<1>1. SumOfRates = It[n]
    BY Zenon DEF SumOfRates
<1>2. n \in Nat /\ n <= Len(TaxRates)
    BY RatesAssumption
<1>3. TaxRates = <<>> => n = 0
    OBVIOUS
<1> HIDE DEF n
<1>4. PICK sum : IsSum(sum, n) /\ \A k \in 0..n : sum[k] \in Nat
    BY <1>2, SumsOfRatesExist
<1> DEFINE table == [k \in 0..n |-> sum[k]]
<1>5. table = [k \in 0..n |-> IF k = 0 THEN 0 ELSE table[k - 1] + TaxRates[k]]
    <2>1. \A k \in 0..n : k # 0 => k \in 1..n /\ table[k - 1] = sum[k - 1]
        BY <1>2
    <2> QED BY <1>4, <2>1 DEF IsSum
<1>6. It = [k \in 0..n |-> IF k = 0 THEN 0 ELSE It[k - 1] + TaxRates[k]]
    <2> HIDE DEF table
    <2> QED BY <1>5, Zenon
<1> HIDE DEF It
<1> DEFINE Bad == {k \in 0..n : It[k] # sum[k]}
<1>7. Bad = {}
    <2> SUFFICES ASSUME Bad # {} PROVE FALSE
        OBVIOUS
    <2>1. PICK k \in Bad : \A y \in Bad : k <= y
        <3>1. Bad \subseteq Nat
            OBVIOUS
        <3> HIDE DEF Bad
        <3> QED BY <3>1, MinOfNaturals
    <2>2. k \in 0..n /\ It[k] # sum[k]
        OBVIOUS
    <2>3. k # 0
        BY <1>2, <1>4, <1>6, <2>2 DEF IsSum
    <2>4. k \in 1..n /\ k - 1 \in 0..n /\ k - 1 \notin Bad
        <3> HIDE DEF Bad
        <3> QED BY <1>2, <2>1, <2>2, <2>3
    <2>5. It[k] = It[k - 1] + TaxRates[k]
        BY <1>6, <2>2, <2>3
    <2>6. sum[k] = sum[k - 1] + TaxRates[k]
        BY <1>4, <2>4 DEF IsSum
    <2> QED BY <2>2, <2>4, <2>5, <2>6
<1>8. n \in 0..n /\ 0 \in 0..n
    BY <1>2
<1>9. It[n] = sum[n] /\ sum[n] \in Nat /\ sum[0] = 0
    BY <1>4, <1>7, <1>8 DEF IsSum
<1> QED BY <1>1, <1>3, <1>9

(* The tax an implementation computes, and the rest of Trade-Result.       *)
TaxOf(i, in) ==
    IF in.gain > 0
    THEN CASE i = "client"  -> IF TaxRates = <<>> THEN 0 ELSE RoundHalfUp(in.gain * SumOfRates)
           [] i = "plpgsql" -> RoundHalfUp(in.gain * SumOfRates)
           [] i = "c"       -> IF TaxRates = <<>> THEN 0 ELSE RoundHalfEven(in.gain * SumOfRates)
    ELSE 0

Taxed(d, in, tax) == IF in.gain > 0 THEN SetTax(d, in, tax) ELSE d
CommOf(in) == HarnessComm(in, CommRate(in))
Completed(d, in, tax) ==
    UpdateBroker(InsertHistory(UpdateTrade(Taxed(d, in, tax), in, CommOf(in)), in), CommOf(in))
SettledBy(d, in, tax) ==
    SettleTrade(Completed(d, in, tax), in, HarnessAmount(in, CommOf(in), tax))

ResultWith(d, in, tax) ==
    [ok |-> TRUE, db |-> SettledBy(d, in, tax).db, tax_amount |-> tax,
     comm_rate |-> CommRate(in), acct_bal |-> SettledBy(d, in, tax).acct_bal]

(* Each answer of a Trade-Result differs by its tax alone.                 *)
LEMMA TradeResultAnswers ==
    ASSUME NEW in, NEW answers, IsTradeResult(in, answers), NEW i \in Impls
    PROVE  answers[i] = ResultWith(db, in, TaxOf(i, in))
<1>1. CASE in.gain > 0
    <2>1. ClientTR(db, in) = ResultWith(db, in, TaxOf("client", in))
        BY <1>1 DEF ClientTR, TradeResult, ClientTRF3, ClientTRF4, ClientTRF5, ClientTRF6,
            ResultWith, SettledBy, Completed, Taxed, CommOf, TaxOf
    <2>2. PlpgsqlTR(db, in) = ResultWith(db, in, TaxOf("plpgsql", in))
        BY <1>1 DEF PlpgsqlTR, TradeResult, PlpgsqlTRF3, PlpgsqlTRF4, PlpgsqlTRF5, PlpgsqlTRF6,
            ResultWith, SettledBy, Completed, Taxed, CommOf, TaxOf
    <2>3. CTR(db, in) = ResultWith(db, in, TaxOf("c", in))
        BY <1>1 DEF CTR, TradeResult, CTRF3, CTRF4, CTRF5, CTRF6,
            ResultWith, SettledBy, Completed, Taxed, CommOf, TaxOf
    <2> QED BY <2>1, <2>2, <2>3 DEF IsTradeResult, Impls
<1>2. CASE ~(in.gain > 0)
    <2>0. TaxOf("client", in) = 0 /\ TaxOf("plpgsql", in) = 0 /\ TaxOf("c", in) = 0
        BY <1>2 DEF TaxOf
    <2>1. ClientTR(db, in) = ResultWith(db, in, 0)
        BY <1>2 DEF ClientTR, TradeResult, ClientTRF4, ClientTRF5, ClientTRF6,
            ResultWith, SettledBy, Completed, Taxed, CommOf
    <2>2. PlpgsqlTR(db, in) = ResultWith(db, in, 0)
        BY <1>2 DEF PlpgsqlTR, TradeResult, PlpgsqlTRF4, PlpgsqlTRF5, PlpgsqlTRF6,
            ResultWith, SettledBy, Completed, Taxed, CommOf
    <2>3. CTR(db, in) = ResultWith(db, in, 0)
        BY <1>2 DEF CTR, TradeResult, CTRF4, CTRF5, CTRF6,
            ResultWith, SettledBy, Completed, Taxed, CommOf
    <2> QED BY <2>0, <2>1, <2>2, <2>3 DEF IsTradeResult, Impls
<1> QED BY <1>1, <1>2

(* Tax, commission and settlement of a Trade-Result are whole amounts.     *)
LEMMA AmountsAreIntegers ==
    ASSUME NEW in, in.gain \in Int, in.trade_qty \in Nat, in.value \in Int, NEW i \in Impls
    PROVE  /\ TaxOf(i, in) \in Int /\ CommOf(in) \in Int
           /\ HarnessAmount(in, CommOf(in), TaxOf(i, in)) \in Int
<1> DEFINE x == in.gain * SumOfRates
<1>1. x \in Int
    BY SumOfRatesIsNat
<1> HIDE DEF x
<1>2. RoundHalfUp(x) \in Int /\ RoundHalfEven(x) \in Int
    BY <1>1 DEF RoundHalfUp, RoundHalfEven
<1>3. TaxOf(i, in) \in Int
    BY <1>2 DEF TaxOf, x, Impls
<1>4. CommRate(in) \in Nat
    <2> DEFINE rows == {row \in CommissionRate : row.from_qty <= in.trade_qty
                                                /\ row.to_qty >= in.trade_qty}
    <2>1. rows # {} => (CHOOSE row \in rows : TRUE) \in rows
        BY Zenon
    <2>2. CommRate(in) = IF rows = {} THEN 0 ELSE (CHOOSE row \in rows : TRUE).rate
        BY Zenon DEF CommRate
    <2> DEFINE one == CHOOSE row \in rows : TRUE
    <2>3. rows # {} => one \in CommissionRate
        BY <2>1
    <2> HIDE DEF one, rows
    <2>4. rows # {} => one.rate \in Nat
        BY <2>3, RatesAssumption
    <2> QED BY <2>2, <2>4 DEF one
<1>5. CommOf(in) \in Int
    <2> DEFINE y == CommRate(in) * in.trade_qty
    <2>1. y \in Int
        BY <1>4
    <2> HIDE DEF y
    <2>2. y \div 10 \in Int
        BY <2>1
    <2> QED BY <2>2 DEF CommOf, HarnessComm, y
<1>6. HarnessAmount(in, CommOf(in), TaxOf(i, in)) \in Int
    BY <1>3, <1>5 DEF HarnessAmount
<1> QED BY <1>3, <1>5, <1>6

(* The parts of Trade-Result, column by column.                            *)

At(f, x, v) == [f EXCEPT ![x] = v]
LabelOf(t) == IF Trade[t].is_cash THEN "Cash Account" ELSE "Margin"
Completion == "CMPT"
ClosedAt(h, t) == [h EXCEPT ![t] = Append(h[t], Completion)]
CashName == "shares of"

(* UPDATE trade of Frame 5.                                                *)
LEMMA UpdateTradeIs ==
    ASSUME NEW d, IsDb(d), NEW in, NEW comm,
           NEW e, e = UpdateTrade(d, in, comm)
    PROVE  /\ IsDb(e)
           /\ e.exec = d.exec
           /\ e.dts = At(d.dts, in.trade_id, in.trade_dts)
           /\ e.status = At(d.status, in.trade_id, Completion)
           /\ e.history = d.history /\ e.tax = d.tax
           /\ e.comm = At(d.comm, in.trade_id, comm)
           /\ e.settlement = d.settlement /\ e.se_amt = d.se_amt
           /\ e.cash = d.cash /\ e.ca_bal = d.ca_bal
           /\ e.b_comm_total = d.b_comm_total
           /\ e.b_num_trades = d.b_num_trades /\ e.maint = d.maint
<1> DEFINE v1 == At(d.comm, in.trade_id, comm)
           v2 == At(d.dts, in.trade_id, in.trade_dts)
           v3 == At(d.status, in.trade_id, Completion)
           d1 == [d EXCEPT !.comm = v1]
           d2 == [d1 EXCEPT !.dts = v2]
           d3 == [d2 EXCEPT !.status = v3]
<1>1. e = d3
    BY DEF UpdateTrade, At, LabelOf, Completion, ClosedAt, CashName
<1> HIDE DEF v1, v2, v3
<1>2. d1 =
           [exec |-> d.exec, dts |-> d.dts, status |-> d.status,
            history |-> d.history, tax |-> d.tax, comm |-> v1,
            settlement |-> d.settlement, se_amt |-> d.se_amt, cash |-> d.cash,
            ca_bal |-> d.ca_bal, b_comm_total |-> d.b_comm_total,
            b_num_trades |-> d.b_num_trades, maint |-> d.maint]
    BY DEF IsDb
<1> HIDE DEF d1
<1>3. d2 =
           [exec |-> d.exec, dts |-> v2, status |-> d.status,
            history |-> d.history, tax |-> d.tax, comm |-> v1,
            settlement |-> d.settlement, se_amt |-> d.se_amt, cash |-> d.cash,
            ca_bal |-> d.ca_bal, b_comm_total |-> d.b_comm_total,
            b_num_trades |-> d.b_num_trades, maint |-> d.maint]
    BY <1>2 DEF IsDb
<1> HIDE DEF d2
<1>4. d3 =
           [exec |-> d.exec, dts |-> v2, status |-> v3, history |-> d.history,
            tax |-> d.tax, comm |-> v1, settlement |-> d.settlement,
            se_amt |-> d.se_amt, cash |-> d.cash, ca_bal |-> d.ca_bal,
            b_comm_total |-> d.b_comm_total, b_num_trades |-> d.b_num_trades,
            maint |-> d.maint]
    BY <1>3 DEF IsDb
<1>5. IsDb(e)
    BY <1>1, <1>4 DEF IsDb
<1>6. /\ e.exec = d.exec
      /\ e.dts = v2
      /\ e.status = v3
      /\ e.history = d.history /\ e.tax = d.tax
      /\ e.comm = v1
      /\ e.settlement = d.settlement /\ e.se_amt = d.se_amt
      /\ e.cash = d.cash /\ e.ca_bal = d.ca_bal
      /\ e.b_comm_total = d.b_comm_total
      /\ e.b_num_trades = d.b_num_trades /\ e.maint = d.maint
    BY <1>1, <1>4
<1> QED BY <1>5, <1>6 DEF v1, v2, v3

(* INSERT INTO trade_history of Frame 5.                                   *)
LEMMA InsertHistoryIs ==
    ASSUME NEW d, NEW in, IsDb(d), NEW e, InsertHistory(d, in) = e
    PROVE  /\ IsDb(e)
           /\ e.exec = d.exec /\ e.dts = d.dts /\ e.status = d.status
           /\ e.history = ClosedAt(d.history, in.trade_id)
           /\ e.tax = d.tax /\ e.comm = d.comm /\ e.settlement = d.settlement
           /\ e.se_amt = d.se_amt /\ e.cash = d.cash /\ e.ca_bal = d.ca_bal
           /\ e.b_comm_total = d.b_comm_total
           /\ e.b_num_trades = d.b_num_trades /\ e.maint = d.maint
<1> DEFINE v1 == ClosedAt(d.history, in.trade_id)
<1>1. e = [d EXCEPT !.history = v1]
    BY DEF InsertHistory, At, LabelOf, Completion, ClosedAt, CashName
<1> HIDE DEF v1
<1>2. e =
           [exec |-> d.exec, dts |-> d.dts, status |-> d.status, history |-> v1,
            tax |-> d.tax, comm |-> d.comm, settlement |-> d.settlement,
            se_amt |-> d.se_amt, cash |-> d.cash, ca_bal |-> d.ca_bal,
            b_comm_total |-> d.b_comm_total, b_num_trades |-> d.b_num_trades,
            maint |-> d.maint]
    BY <1>1 DEF IsDb
<1>3. IsDb(e)
    BY <1>2 DEF IsDb
<1>4. /\ e.exec = d.exec /\ e.dts = d.dts /\ e.status = d.status
      /\ e.history = v1
      /\ e.tax = d.tax /\ e.comm = d.comm /\ e.settlement = d.settlement
      /\ e.se_amt = d.se_amt /\ e.cash = d.cash /\ e.ca_bal = d.ca_bal
      /\ e.b_comm_total = d.b_comm_total
      /\ e.b_num_trades = d.b_num_trades /\ e.maint = d.maint
    BY <1>2
<1> QED BY <1>3, <1>4 DEF v1

(* UPDATE broker of Frame 5.                                               *)
LEMMA UpdateBrokerIs ==
    ASSUME NEW d, IsDb(d), NEW comm,
           NEW e, e = UpdateBroker(d, comm)
    PROVE  /\ IsDb(e)
           /\ e.exec = d.exec /\ e.dts = d.dts /\ e.status = d.status
           /\ e.history = d.history /\ e.tax = d.tax /\ e.comm = d.comm
           /\ e.settlement = d.settlement /\ e.se_amt = d.se_amt
           /\ e.cash = d.cash /\ e.ca_bal = d.ca_bal
           /\ e.b_comm_total = d.b_comm_total + comm
           /\ e.b_num_trades = d.b_num_trades + 1
           /\ e.maint = d.maint
<1> DEFINE v1 == d.b_comm_total + comm
           v2 == d.b_num_trades + 1
           d1 == [d EXCEPT !.b_comm_total = v1]
           d2 == [d1 EXCEPT !.b_num_trades = v2]
<1>1. e = d2
    BY DEF UpdateBroker, At, LabelOf, Completion, ClosedAt, CashName
<1> HIDE DEF v1, v2
<1>2. d1 =
           [exec |-> d.exec, dts |-> d.dts, status |-> d.status,
            history |-> d.history, tax |-> d.tax, comm |-> d.comm,
            settlement |-> d.settlement, se_amt |-> d.se_amt, cash |-> d.cash,
            ca_bal |-> d.ca_bal, b_comm_total |-> v1,
            b_num_trades |-> d.b_num_trades, maint |-> d.maint]
    BY DEF IsDb
<1> HIDE DEF d1
<1>3. d2 =
           [exec |-> d.exec, dts |-> d.dts, status |-> d.status,
            history |-> d.history, tax |-> d.tax, comm |-> d.comm,
            settlement |-> d.settlement, se_amt |-> d.se_amt, cash |-> d.cash,
            ca_bal |-> d.ca_bal, b_comm_total |-> v1, b_num_trades |-> v2,
            maint |-> d.maint]
    BY <1>2 DEF IsDb
<1>4. IsDb(e)
    BY <1>1, <1>3 DEF IsDb
<1>5. /\ e.exec = d.exec /\ e.dts = d.dts /\ e.status = d.status
      /\ e.history = d.history /\ e.tax = d.tax /\ e.comm = d.comm
      /\ e.settlement = d.settlement /\ e.se_amt = d.se_amt
      /\ e.cash = d.cash /\ e.ca_bal = d.ca_bal
      /\ e.b_comm_total = v1
      /\ e.b_num_trades = v2
      /\ e.maint = d.maint
    BY <1>1, <1>3
<1> QED BY <1>4, <1>5 DEF v1, v2

(* INSERT INTO settlement of Frame 6.                                      *)
LEMMA InsertSettlementIs ==
    ASSUME NEW d, IsDb(d), NEW t, NEW amount,
           NEW e, e = InsertSettlement(d, t, amount)
    PROVE  /\ IsDb(e)
           /\ e.exec = d.exec /\ e.dts = d.dts /\ e.status = d.status
           /\ e.history = d.history /\ e.tax = d.tax /\ e.comm = d.comm
           /\ e.settlement = Put(d.settlement, t, LabelOf(t))
           /\ e.se_amt = Put(d.se_amt, t, amount)
           /\ e.cash = d.cash /\ e.ca_bal = d.ca_bal
           /\ e.b_comm_total = d.b_comm_total
           /\ e.b_num_trades = d.b_num_trades /\ e.maint = d.maint
<1> DEFINE v1 == Put(d.settlement, t, LabelOf(t))
           v2 == Put(d.se_amt, t, amount)
           d1 == [d EXCEPT !.settlement = v1]
           d2 == [d1 EXCEPT !.se_amt = v2]
<1>1. e = d2
    BY DEF InsertSettlement, At, LabelOf, Completion, ClosedAt, CashName
<1> HIDE DEF v1, v2
<1>2. d1 =
           [exec |-> d.exec, dts |-> d.dts, status |-> d.status,
            history |-> d.history, tax |-> d.tax, comm |-> d.comm,
            settlement |-> v1, se_amt |-> d.se_amt, cash |-> d.cash,
            ca_bal |-> d.ca_bal, b_comm_total |-> d.b_comm_total,
            b_num_trades |-> d.b_num_trades, maint |-> d.maint]
    BY DEF IsDb
<1> HIDE DEF d1
<1>3. d2 =
           [exec |-> d.exec, dts |-> d.dts, status |-> d.status,
            history |-> d.history, tax |-> d.tax, comm |-> d.comm,
            settlement |-> v1, se_amt |-> v2, cash |-> d.cash,
            ca_bal |-> d.ca_bal, b_comm_total |-> d.b_comm_total,
            b_num_trades |-> d.b_num_trades, maint |-> d.maint]
    BY <1>2 DEF IsDb
<1>4. IsDb(e)
    BY <1>1, <1>3 DEF IsDb
<1>5. /\ e.exec = d.exec /\ e.dts = d.dts /\ e.status = d.status
      /\ e.history = d.history /\ e.tax = d.tax /\ e.comm = d.comm
      /\ e.settlement = v1
      /\ e.se_amt = v2
      /\ e.cash = d.cash /\ e.ca_bal = d.ca_bal
      /\ e.b_comm_total = d.b_comm_total
      /\ e.b_num_trades = d.b_num_trades /\ e.maint = d.maint
    BY <1>1, <1>3
<1> QED BY <1>4, <1>5 DEF v1, v2

(* UPDATE customer_account of Frame 6.                                     *)
LEMMA UpdateBalanceIs ==
    ASSUME NEW d, IsDb(d), NEW t, NEW amount,
           NEW e, e = UpdateBalance(d, t, amount)
    PROVE  /\ IsDb(e)
           /\ e.exec = d.exec /\ e.dts = d.dts /\ e.status = d.status
           /\ e.history = d.history /\ e.tax = d.tax /\ e.comm = d.comm
           /\ e.settlement = d.settlement /\ e.se_amt = d.se_amt
           /\ e.cash = d.cash
           /\ e.ca_bal = At(d.ca_bal, Trade[t].acct,
                             d.ca_bal[Trade[t].acct] + amount)
           /\ e.b_comm_total = d.b_comm_total
           /\ e.b_num_trades = d.b_num_trades /\ e.maint = d.maint
<1> DEFINE v1 == At(d.ca_bal, Trade[t].acct,
                             d.ca_bal[Trade[t].acct] + amount)
<1>1. e = [d EXCEPT !.ca_bal = v1]
    BY DEF UpdateBalance, At, LabelOf, Completion, ClosedAt, CashName
<1> HIDE DEF v1
<1>2. e =
           [exec |-> d.exec, dts |-> d.dts, status |-> d.status,
            history |-> d.history, tax |-> d.tax, comm |-> d.comm,
            settlement |-> d.settlement, se_amt |-> d.se_amt, cash |-> d.cash,
            ca_bal |-> v1, b_comm_total |-> d.b_comm_total,
            b_num_trades |-> d.b_num_trades, maint |-> d.maint]
    BY <1>1 DEF IsDb
<1>3. IsDb(e)
    BY <1>2 DEF IsDb
<1>4. /\ e.exec = d.exec /\ e.dts = d.dts /\ e.status = d.status
      /\ e.history = d.history /\ e.tax = d.tax /\ e.comm = d.comm
      /\ e.settlement = d.settlement /\ e.se_amt = d.se_amt
      /\ e.cash = d.cash
      /\ e.ca_bal = v1
      /\ e.b_comm_total = d.b_comm_total
      /\ e.b_num_trades = d.b_num_trades /\ e.maint = d.maint
    BY <1>2
<1> QED BY <1>3, <1>4 DEF v1

(* INSERT INTO cash_transaction of Frame 6.                                *)
LEMMA InsertCashIs ==
    ASSUME NEW d, IsDb(d), NEW t,
           NEW e, e = InsertCash(d, t)
    PROVE  /\ IsDb(e)
           /\ e.exec = d.exec /\ e.dts = d.dts /\ e.status = d.status
           /\ e.history = d.history /\ e.tax = d.tax /\ e.comm = d.comm
           /\ e.settlement = d.settlement /\ e.se_amt = d.se_amt
           /\ e.cash = Put(d.cash, t, CashName)
           /\ e.ca_bal = d.ca_bal /\ e.b_comm_total = d.b_comm_total
           /\ e.b_num_trades = d.b_num_trades /\ e.maint = d.maint
<1> DEFINE v1 == Put(d.cash, t, CashName)
<1>1. e = [d EXCEPT !.cash = v1]
    BY DEF InsertCash, At, LabelOf, Completion, ClosedAt, CashName
<1> HIDE DEF v1
<1>2. e =
           [exec |-> d.exec, dts |-> d.dts, status |-> d.status,
            history |-> d.history, tax |-> d.tax, comm |-> d.comm,
            settlement |-> d.settlement, se_amt |-> d.se_amt, cash |-> v1,
            ca_bal |-> d.ca_bal, b_comm_total |-> d.b_comm_total,
            b_num_trades |-> d.b_num_trades, maint |-> d.maint]
    BY <1>1 DEF IsDb
<1>3. IsDb(e)
    BY <1>2 DEF IsDb
<1>4. /\ e.exec = d.exec /\ e.dts = d.dts /\ e.status = d.status
      /\ e.history = d.history /\ e.tax = d.tax /\ e.comm = d.comm
      /\ e.settlement = d.settlement /\ e.se_amt = d.se_amt
      /\ e.cash = v1
      /\ e.ca_bal = d.ca_bal /\ e.b_comm_total = d.b_comm_total
      /\ e.b_num_trades = d.b_num_trades /\ e.maint = d.maint
    BY <1>2
<1> QED BY <1>3, <1>4 DEF v1


(* The tables Trade-Result leaves, column by column.                       *)
LEMMA ResultTables ==
    ASSUME NEW d, TablesOK(d), NEW in, NEW tax, NEW t, t = in.trade_id, NEW comm, comm = CommOf(in),
           NEW amount, amount = HarnessAmount(in, comm, tax), t \in Trades,
           NEW e, e = SettledBy(d, in, tax).db
    PROVE  /\ IsDb(e)
           /\ e.exec = d.exec /\ e.maint = d.maint
           /\ e.dts = At(d.dts, t, in.trade_dts)
           /\ e.status = At(d.status, t, Completion)
           /\ e.history = ClosedAt(d.history, t)
           /\ e.comm = At(d.comm, t, comm)
           /\ e.settlement =
                  Put(d.settlement, t, LabelOf(t))
           /\ e.se_amt = Put(d.se_amt, t, amount)
           /\ e.cash = IF Trade[t].is_cash THEN Put(d.cash, t, CashName) ELSE d.cash
           /\ e.ca_bal = IF Trade[t].is_cash
                         THEN At(d.ca_bal, Trade[t].acct, d.ca_bal[Trade[t].acct] + amount)
                         ELSE d.ca_bal
           /\ e.b_comm_total = d.b_comm_total + comm
           /\ e.b_num_trades = d.b_num_trades + 1
<1> DEFINE d1 == Taxed(d, in, tax)
           d2 == UpdateTrade(d1, in, comm)
           d3 == InsertHistory(d2, in)
           d4 == UpdateBroker(d3, comm)
           d5 == InsertSettlement(d4, t, amount)
           d6 == UpdateBalance(d5, t, amount)
           d7 == InsertCash(d6, t)
<1>0. e = IF Trade[t].is_cash THEN d7 ELSE d5
    BY DEF SettledBy, Completed, SettleTrade
<1>1. /\ IsDb(d1) /\ d1.exec = d.exec /\ d1.maint = d.maint /\ d1.dts = d.dts
      /\ d1.status = d.status /\ d1.history = d.history /\ d1.comm = d.comm
      /\ d1.settlement = d.settlement /\ d1.se_amt = d.se_amt /\ d1.cash = d.cash
      /\ d1.ca_bal = d.ca_bal /\ d1.b_comm_total = d.b_comm_total
      /\ d1.b_num_trades = d.b_num_trades
    BY DEF Taxed, SetTax, IsDb, TablesOK
<1> HIDE DEF d1
<1>2. /\ IsDb(d2) /\ d2.exec = d.exec /\ d2.maint = d.maint
      /\ d2.dts = At(d.dts, t, in.trade_dts)
      /\ d2.status = At(d.status, t, Completion) /\ d2.history = d.history
      /\ d2.comm = At(d.comm, t, comm)
      /\ d2.settlement = d.settlement /\ d2.se_amt = d.se_amt /\ d2.cash = d.cash
      /\ d2.ca_bal = d.ca_bal /\ d2.b_comm_total = d.b_comm_total
      /\ d2.b_num_trades = d.b_num_trades
    <2>1. d2 = UpdateTrade(d1, in, comm)
        OBVIOUS
    <2> HIDE DEF d2
    <2> QED BY <1>1, <2>1, UpdateTradeIs
<1> HIDE DEF d2
<1>3. /\ IsDb(d3) /\ d3.exec = d.exec /\ d3.maint = d.maint /\ d3.dts = d2.dts
      /\ d3.status = d2.status /\ d3.comm = d2.comm
      /\ d3.history = ClosedAt(d.history, t)
      /\ d3.settlement = d.settlement /\ d3.se_amt = d.se_amt /\ d3.cash = d.cash
      /\ d3.ca_bal = d.ca_bal /\ d3.b_comm_total = d.b_comm_total
      /\ d3.b_num_trades = d.b_num_trades
    <2>1. d3 = InsertHistory(d2, in)
        OBVIOUS
    <2> HIDE DEF d3
    <2> QED BY <1>2, <2>1, InsertHistoryIs
<1> HIDE DEF d3
<1>4. /\ IsDb(d4) /\ d4.exec = d.exec /\ d4.maint = d.maint /\ d4.dts = d2.dts
      /\ d4.status = d2.status /\ d4.comm = d2.comm /\ d4.history = d3.history
      /\ d4.settlement = d.settlement /\ d4.se_amt = d.se_amt /\ d4.cash = d.cash
      /\ d4.ca_bal = d.ca_bal /\ d4.b_comm_total = d.b_comm_total + comm
      /\ d4.b_num_trades = d.b_num_trades + 1
    <2>1. d4 = UpdateBroker(d3, comm)
        OBVIOUS
    <2> HIDE DEF d4
    <2> QED BY <1>3, <2>1, UpdateBrokerIs
<1> HIDE DEF d4
<1>5. /\ IsDb(d5) /\ d5.exec = d.exec /\ d5.maint = d.maint /\ d5.dts = d2.dts
      /\ d5.status = d2.status /\ d5.comm = d2.comm /\ d5.history = d3.history
      /\ d5.settlement =
             Put(d.settlement, t, LabelOf(t))
      /\ d5.se_amt = Put(d.se_amt, t, amount) /\ d5.cash = d.cash
      /\ d5.ca_bal = d.ca_bal /\ d5.b_comm_total = d4.b_comm_total
      /\ d5.b_num_trades = d4.b_num_trades
    <2>1. d5 = InsertSettlement(d4, t, amount)
        OBVIOUS
    <2> HIDE DEF d5
    <2> QED BY <1>4, <2>1, InsertSettlementIs
<1> HIDE DEF d5
<1>6. /\ IsDb(d6) /\ d6.exec = d.exec /\ d6.maint = d.maint /\ d6.dts = d2.dts
      /\ d6.status = d2.status /\ d6.comm = d2.comm /\ d6.history = d3.history
      /\ d6.settlement = d5.settlement /\ d6.se_amt = d5.se_amt /\ d6.cash = d.cash
      /\ d6.ca_bal = At(d.ca_bal, Trade[t].acct, d.ca_bal[Trade[t].acct] + amount)
      /\ d6.b_comm_total = d4.b_comm_total /\ d6.b_num_trades = d4.b_num_trades
    <2>1. d6 = UpdateBalance(d5, t, amount)
        OBVIOUS
    <2> HIDE DEF d6
    <2> QED BY <1>5, <2>1, UpdateBalanceIs
<1> HIDE DEF d6
<1>7. /\ IsDb(d7) /\ d7.exec = d.exec /\ d7.maint = d.maint /\ d7.dts = d2.dts
      /\ d7.status = d2.status /\ d7.comm = d2.comm /\ d7.history = d3.history
      /\ d7.settlement = d5.settlement /\ d7.se_amt = d5.se_amt
      /\ d7.cash = Put(d.cash, t, CashName) /\ d7.ca_bal = d6.ca_bal
      /\ d7.b_comm_total = d4.b_comm_total /\ d7.b_num_trades = d4.b_num_trades
    <2>1. d7 = InsertCash(d6, t)
        OBVIOUS
    <2> HIDE DEF d7
    <2> QED BY <1>6, <2>1, InsertCashIs
<1> HIDE DEF d7
<1>8. CASE Trade[t].is_cash
    BY <1>0, <1>2, <1>3, <1>4, <1>5, <1>6, <1>7, <1>8
<1>9. CASE ~Trade[t].is_cash
    BY <1>0, <1>2, <1>3, <1>4, <1>5, <1>9
<1> QED BY <1>8, <1>9

(* A history ends with the status added to it.                             *)
LEMMA ClosedRow ==
    ASSUME NEW h \in [Trades -> Seq(Statuses)], NEW t \in Trades, NEW g, ClosedAt(h, t) = g
    PROVE  /\ g \in [Trades -> Seq(Statuses)] /\ g[t] # <<>> /\ Last(g[t]) = "CMPT"
           /\ \A u \in Trades : u # t => g[u] = h[u]
<1>1. Completion \in Statuses /\ Completion = "CMPT"
    BY DEF Completion, Statuses
<1> DEFINE s == h[t]
           x == Completion
<1>2. s \in Seq(Statuses) /\ x \in Statuses
    BY <1>1
<1>3. g = [h EXCEPT ![t] = Append(s, x)]
    BY DEF ClosedAt
<1> HIDE DEF s, x
<1>4. /\ Append(s, x) \in Seq(Statuses) /\ Append(s, x) # <<>>
      /\ Append(s, x)[Len(Append(s, x))] = x
    <2>1. Append(s, x) \in Seq(Statuses) /\ Len(Append(s, x)) = Len(s) + 1 /\ Len(s) \in Nat
        BY <1>2
    <2>2. Append(s, x)[Len(s) + 1] = x
        BY <1>2
    <2>3. Append(s, x) # <<>>
        <3>1. Len(Append(s, x)) # 0
            BY <2>1
        <3>2. Len(<<>>) = 0
            OBVIOUS
        <3> QED BY <3>1, <3>2, Zenon
    <2> QED BY <2>1, <2>2, <2>3
<1>5. Last(Append(s, x)) = x
    BY <1>4, Zenon DEF Last
<1>6. g \in [Trades -> Seq(Statuses)] /\ g[t] = Append(s, x)
    BY <1>3, <1>4
<1>7. \A u \in Trades : u # t => g[u] = h[u]
    BY <1>3
<1> QED BY <1>1, <1>4, <1>5, <1>6, <1>7 DEF x

(* Trade-Result makes one more trade complete, and the sums take its       *)
(* commission and, for a cash trade, its settlement.                       *)
LEMMA ResultKeepsTables ==
    ASSUME NEW d, TablesOK(d), MoneyOf(d), NEW in, NEW tax, NEW t, t = in.trade_id,
           t \in Trades, t \notin Done(d), in.trade_dts \in Nat,
           NEW comm, comm = CommOf(in), comm \in Int,
           NEW amount, amount = HarnessAmount(in, comm, tax), amount \in Int,
           NEW e, e = SettledBy(d, in, tax).db
    PROVE  TablesOK(e) /\ MoneyOf(e)
<1>1. /\ IsDb(e)
      /\ e.exec = d.exec /\ e.maint = d.maint
      /\ e.dts = At(d.dts, t, in.trade_dts)
      /\ e.status = At(d.status, t, Completion)
      /\ e.history = ClosedAt(d.history, t)
      /\ e.comm = At(d.comm, t, comm)
      /\ e.settlement = Put(d.settlement, t, LabelOf(t))
      /\ e.se_amt = Put(d.se_amt, t, amount)
      /\ e.b_comm_total = d.b_comm_total + comm
      /\ e.b_num_trades = d.b_num_trades + 1
    BY ResultTables
<1>2. /\ Trade[t].is_cash => e.cash = Put(d.cash, t, CashName)
                             /\ e.ca_bal = At(d.ca_bal, Trade[t].acct,
                                              d.ca_bal[Trade[t].acct] + amount)
      /\ ~Trade[t].is_cash => e.cash = d.cash /\ e.ca_bal = d.ca_bal
    BY ResultTables
<1>3. /\ d.exec \in [Trades -> ExecNames] /\ d.dts \in [Trades -> Nat]
      /\ d.status \in [Trades -> Statuses] /\ d.history \in [Trades -> Seq(Statuses)]
      /\ d.comm \in [Trades -> Int] /\ d.settlement \in [Done(d) -> AllCashTypes]
      /\ d.se_amt \in [Done(d) -> Int] /\ d.cash \in [PaidIn(d) -> CtNames]
      /\ d.ca_bal \in [Accounts -> Int] /\ d.b_comm_total \in Int
      /\ \A u \in Trades : d.history[u] # <<>>
      /\ \A u \in Done(d) : d.settlement[u] \in CashTypes(u)
    BY DEF TablesOK
<1>4. Done(d) \subseteq Trades /\ PaidIn(d) \subseteq Done(d) /\ IsFiniteSet(Done(d))
    <2>1. Done(d) \subseteq Trades /\ PaidIn(d) \subseteq Done(d)
        BY DEF Done, PaidIn
    <2> QED BY <2>1, TradesAreFinite, FS_Subset
<1>5. e.status \in [Trades -> Statuses] /\ Done(e) = Done(d) \cup {t}
    <2>1. Completion \in Statuses /\ Completion = "CMPT"
        BY DEF Completion, Statuses
    <2>2. /\ e.status \in [Trades -> Statuses] /\ e.status[t] = "CMPT"
          /\ \A u \in Trades : u # t => e.status[u] = d.status[u]
        BY <1>1, <1>3, <2>1 DEF At
    <2> QED BY <2>2 DEF Done
<1>6. PaidIn(e) = IF Trade[t].is_cash THEN PaidIn(d) \cup {t} ELSE PaidIn(d)
    BY <1>5 DEF PaidIn
<1>7. e.dts \in [Trades -> Nat]
    BY <1>1, <1>3 DEF At
<1>8. /\ e.comm \in [Trades -> Int] /\ e.comm[t] = comm
      /\ \A u \in Trades : u # t => e.comm[u] = d.comm[u]
    BY <1>1, <1>3 DEF At
<1>9. /\ e.history \in [Trades -> Seq(Statuses)] /\ e.history[t] # <<>>
      /\ Last(e.history[t]) = "CMPT"
      /\ \A u \in Trades : u # t => e.history[u] = d.history[u]
    <2>1. d.history \in [Trades -> Seq(Statuses)] /\ ClosedAt(d.history, t) = e.history
        BY <1>1, <1>3
    <2> DEFINE h == d.history
               g == e.history
    <2>2. h \in [Trades -> Seq(Statuses)] /\ ClosedAt(h, t) = g
        BY <2>1
    <2> HIDE DEF h, g
    <2>3. /\ g \in [Trades -> Seq(Statuses)] /\ g[t] # <<>> /\ Last(g[t]) = "CMPT"
          /\ \A u \in Trades : u # t => g[u] = h[u]
        BY <2>2, ClosedRow
    <2> QED BY <2>3 DEF g, h
<1>10. LabelOf(t) \in AllCashTypes /\ LabelOf(t) \in CashTypes(t) /\ CashName \in CtNames
    BY DEF LabelOf, AllCashTypes, CashTypes, CashName, CtNames
<1>11. /\ e.settlement \in [Done(e) -> AllCashTypes]
       /\ \A u \in Done(e) : e.settlement[u] \in CashTypes(u)
    <2>1. /\ e.settlement \in [Done(d) \cup {t} -> AllCashTypes] /\ e.settlement[t] = LabelOf(t)
          /\ \A u \in Done(d) : u # t => e.settlement[u] = d.settlement[u]
        BY <1>1, <1>3, <1>10 DEF Put
    <2> QED BY <1>3, <1>5, <1>10, <2>1
<1>12. /\ e.se_amt \in [Done(e) -> Int] /\ e.se_amt[t] = amount
       /\ \A u \in Done(d) : e.se_amt[u] = d.se_amt[u]
    <2>1. /\ e.se_amt \in [Done(d) \cup {t} -> Int] /\ e.se_amt[t] = amount
          /\ \A u \in Done(d) : u # t => e.se_amt[u] = d.se_amt[u]
        BY <1>1, <1>3 DEF Put
    <2> QED BY <1>5, <2>1
<1>13. e.cash \in [PaidIn(e) -> CtNames]
    <2>1. CASE Trade[t].is_cash
        <3>1. e.cash \in [PaidIn(d) \cup {t} -> CtNames]
            BY <1>2, <1>3, <1>10, <2>1 DEF Put
        <3> QED BY <1>6, <2>1, <3>1
    <2>2. CASE ~Trade[t].is_cash
        BY <1>2, <1>3, <1>6, <2>2
    <2> QED BY <2>1, <2>2
<1>14. Trade[t].acct \in Accounts
    BY SuiteAssumption DEF Trades
<1>15. /\ e.ca_bal \in [Accounts -> Int]
       /\ \A a \in Accounts :
              e.ca_bal[a] = IF Trade[t].is_cash /\ a = Trade[t].acct
                            THEN d.ca_bal[a] + amount ELSE d.ca_bal[a]
    <2>1. CASE Trade[t].is_cash
        <3> DEFINE a0 == Trade[t].acct
                   v == d.ca_bal[a0] + amount
        <3>1. a0 \in Accounts /\ v \in Int /\ e.ca_bal = At(d.ca_bal, a0, v)
            BY <1>2, <1>3, <1>14, <2>1
        <3>2. /\ e.ca_bal \in [Accounts -> Int] /\ e.ca_bal[a0] = v
              /\ \A a \in Accounts : a # a0 => e.ca_bal[a] = d.ca_bal[a]
            <4> HIDE DEF a0, v
            <4> QED BY <1>3, <3>1 DEF At
        <3> QED BY <2>1, <3>2
    <2>2. CASE ~Trade[t].is_cash
        BY <1>2, <1>3, <2>2
    <2> QED BY <2>1, <2>2
<1>16. TablesOK(e)
    <2>1. \A u \in Trades : e.history[u] # <<>>
        BY <1>3, <1>9
    <2>2. e.exec \in [Trades -> ExecNames] /\ e.b_comm_total \in Int
        BY <1>1, <1>3
    <2> QED BY <1>1, <1>5, <1>7, <1>8, <1>9, <1>11, <1>12, <1>13, <1>15, <2>1, <2>2 DEF TablesOK
<1>17. ASSUME NEW a \in Accounts PROVE e.ca_bal[a] = SumOver(e.se_amt, CashOf(e, a))
    <2>1. CashOf(d, a) \subseteq Done(d) /\ t \notin CashOf(d, a) /\ IsFiniteSet(CashOf(d, a))
        <3>1. CashOf(d, a) \subseteq Done(d)
            BY <1>4 DEF CashOf
        <3> QED BY <1>4, <3>1, FS_Subset
    <2>2. \A u \in CashOf(d, a) : d.se_amt[u] \in Int /\ e.se_amt[u] = d.se_amt[u]
        BY <1>3, <1>12, <2>1
    <2>3. SumOver(e.se_amt, CashOf(d, a)) = SumOver(d.se_amt, CashOf(d, a))
        BY <2>1, <2>2, SumsAgree
    <2>4. d.ca_bal[a] = SumOver(d.se_amt, CashOf(d, a))
        BY DEF MoneyOf
    <2>5. CASE Trade[t].is_cash /\ a = Trade[t].acct
        <3>1. CashOf(e, a) = CashOf(d, a) \cup {t}
            BY <1>6, <2>5 DEF CashOf
        <3>2. \A u \in CashOf(d, a) \cup {t} : e.se_amt[u] \in Int
            BY <1>12, <2>2
        <3>3. SumOver(e.se_amt, CashOf(d, a) \cup {t}) = e.se_amt[t] + SumOver(e.se_amt, CashOf(d, a))
            BY <2>1, <3>2, SumAddElement
        <3>4. d.ca_bal[a] \in Int
            BY <1>3
        <3> QED BY <1>12, <1>15, <2>3, <2>4, <2>5, <3>1, <3>3, <3>4
    <2>6. CASE ~(Trade[t].is_cash /\ a = Trade[t].acct)
        <3>1. CashOf(e, a) = CashOf(d, a)
            BY <1>6, <2>6 DEF CashOf
        <3> QED BY <1>15, <2>3, <2>4, <2>6, <3>1
    <2> QED BY <2>5, <2>6
<1>18. e.b_comm_total = SumOver(e.comm, Done(e))
    <2>1. \A u \in Done(d) : d.comm[u] \in Int /\ e.comm[u] = d.comm[u]
        BY <1>3, <1>4, <1>8
    <2>2. SumOver(e.comm, Done(d)) = SumOver(d.comm, Done(d))
        BY <1>4, <2>1, SumsAgree
    <2>3. \A u \in Done(d) \cup {t} : e.comm[u] \in Int
        BY <1>4, <1>8
    <2>4. SumOver(e.comm, Done(d) \cup {t}) = e.comm[t] + SumOver(e.comm, Done(d))
        BY <1>4, <2>3, SumAddElement
    <2>5. d.b_comm_total = SumOver(d.comm, Done(d)) /\ d.b_comm_total \in Int
        BY <1>3 DEF MoneyOf
    <2> QED BY <1>1, <1>5, <1>8, <2>2, <2>4, <2>5
<1>19. e.b_num_trades = Cardinality(Done(e))
    <2>1. Cardinality(Done(d) \cup {t}) = Cardinality(Done(d)) + 1
        BY <1>4, FS_AddElement
    <2> QED BY <1>1, <1>5, <2>1 DEF MoneyOf
<1>20. \A u \in Trades : u \in Done(e) <=> Last(e.history[u]) = "CMPT"
    <2>1. \A u \in Trades : u \in Done(d) <=> Last(d.history[u]) = "CMPT"
        BY DEF MoneyOf
    <2> QED BY <1>5, <1>9, <2>1
<1> QED BY <1>16, <1>17, <1>18, <1>19, <1>20 DEF MoneyOf

(* The time stamp of a Trade-Result, later than those of all trades.       *)
LEMMA LastDts ==
    ASSUME NEW d, d.dts \in [Trades -> Nat], Trades # {}
    PROVE  Max({d.dts[u] : u \in Trades}) \in Nat
<1> DEFINE n == Cardinality(Trades)
           times == {d.dts[u] : u \in Trades}
<1>1. n \in Nat /\ n # 0
    BY TradesAreFinite, FS_CardinalityType, FS_EmptySet
<1>2. PICK s \in SetToSeqs(Trades) : Sorted(s, d.dts)
    BY TradesAreFinite, SortedExists
<1>3. s \in [1..n -> Trades] /\ \A u \in Trades : \E p \in 1..n : s[p] = u
    <2>1. s \in [1..n -> Trades] /\ \A p, q \in 1..n : p # q => s[p] # s[q]
        BY <1>2 DEF SetToSeqs
    <2>3. IsFiniteSet(1..n) /\ Cardinality(1..n) = n
        BY <1>1, FS_Interval
    <2>4. s \in Injection(1..n, Trades)
        BY <2>1 DEF Injection, IsInjective
    <2>5. s \in Surjection(1..n, Trades)
        BY <2>3, <2>4, TradesAreFinite, FS_Injection
    <2> QED BY <2>1, <2>5 DEF Surjection
<1>4. n \in 1..n
    BY <1>1
<1> HIDE DEF n
<1>5. d.dts[s[n]] \in times /\ \A z \in times : d.dts[s[n]] >= z
    <2>1. s[n] \in Trades /\ DOMAIN s = 1..n
        BY <1>3, <1>4
    <2>2. ASSUME NEW u \in Trades PROVE d.dts[s[n]] >= d.dts[u]
        <3>1. PICK p \in 1..n : s[p] = u
            BY <1>3
        <3>2. CASE p = n
            BY <2>1, <3>1, <3>2
        <3>3. CASE p < n
            <4>1. d.dts[s[p]] <= d.dts[s[n]]
                BY <1>2, <1>4, <2>1, <3>3 DEF Sorted
            <4> QED BY <2>1, <3>1, <4>1
        <3> QED BY <1>1, <3>2, <3>3
    <2> QED BY <2>1, <2>2
<1>6. times \subseteq Nat
    OBVIOUS
<1> HIDE DEF times
<1>7. Max(times) \in times
    BY <1>5, Zenon DEF Max
<1> QED BY <1>6, <1>7 DEF times

-----------------------------------------------------------------------------
(* The invariant.                                                          *)

SuiteInv == TablesOK(db) /\ MoneyOf(db) /\ AskedInv

(* The loaded database: its trades are complete, and have cost nothing.    *)
LEMMA LoadedTablesAreOK ==
    ASSUME NEW table, NEW d, d = LoadedTables(table)
    PROVE  TablesOK(d) /\ MoneyOf(d)
<1>1. /\ d.exec = [t \in Trades |-> "John Doe"] /\ d.dts = FirstDts
      /\ d.status = [t \in Trades |-> IF t \in Loaded THEN "CMPT" ELSE "SBMT"]
      /\ d.history = [t \in Trades |->
                          IF t \in Loaded THEN <<"SBMT", "CMPT">> ELSE <<"SBMT">>]
      /\ d.comm = [t \in Trades |-> 0]
      /\ d.settlement = [t \in Loaded |-> IF Trade[t].is_cash THEN "Cash Account" ELSE "Margin"]
      /\ d.se_amt = [t \in Loaded |-> 0]
      /\ d.cash = [t \in {u \in Loaded : Trade[u].is_cash} |-> "shares of"]
      /\ d.ca_bal = [a \in Accounts |-> 0] /\ d.b_comm_total = 0
      /\ d.b_num_trades = Cardinality(Loaded)
    BY DEF LoadedTables
<1>2. IsDb(d)
    BY DEF LoadedTables, IsDb
<1>3. Loaded \subseteq Trades /\ IsFiniteSet(Loaded)
    BY SuiteAssumption, TradesAreFinite, FS_Subset DEF Trades
<1>4. d.status \in [Trades -> Statuses] /\ Done(d) = Loaded
    <2>1. d.status = [t \in Trades |-> IF t \in Loaded THEN "CMPT" ELSE "SBMT"]
        BY <1>1
    <2> QED BY <1>3, <2>1 DEF Done, Statuses
<1>5. PaidIn(d) = {u \in Loaded : Trade[u].is_cash}
    BY <1>4 DEF PaidIn
<1>6. /\ d.history \in [Trades -> Seq(Statuses)]
      /\ \A t \in Trades : /\ d.history[t] # <<>>
                           /\ t \in Loaded <=> Last(d.history[t]) = "CMPT"
    <2> DEFINE old == <<"SBMT", "CMPT">>
               new == <<"SBMT">>
    <2>1. old \in Seq(Statuses) /\ new \in Seq(Statuses) /\ old # <<>> /\ new # <<>>
        BY DEF Statuses
    <2>2. Len(old) = 2 /\ Len(new) = 1 /\ old[2] = "CMPT" /\ new[1] = "SBMT"
        OBVIOUS
    <2>3. Last(old) = "CMPT" /\ Last(new) = "SBMT"
        <3> HIDE DEF old, new
        <3> QED BY <2>2, Zenon DEF Last
    <2>4. d.history = [t \in Trades |-> IF t \in Loaded THEN old ELSE new]
        BY <1>1
    <2> HIDE DEF old, new
    <2> QED BY <2>1, <2>3, <2>4
<1>7. d.exec \in [Trades -> ExecNames] /\ d.dts \in [Trades -> Nat] /\ d.comm \in [Trades -> Int]
    <2>1. d.exec = [t \in Trades |-> "John Doe"]
        BY <1>1
    <2>2. d.exec \in [Trades -> ExecNames]
        BY <2>1 DEF ExecNames
    <2>3. d.dts \in [Trades -> Nat]
        BY <1>1, SuiteAssumption DEF Trades
    <2>4. d.comm = [t \in Trades |-> 0]
        BY <1>1
    <2> QED BY <2>2, <2>3, <2>4
<1>8. /\ d.settlement \in [Loaded -> AllCashTypes]
      /\ \A t \in Loaded : d.settlement[t] \in CashTypes(t)
      /\ d.se_amt \in [Loaded -> Int] /\ d.cash \in [PaidIn(d) -> CtNames]
      /\ d.ca_bal \in [Accounts -> Int] /\ d.b_comm_total \in Int
    <2>1. d.settlement =
              [t \in Loaded |-> IF Trade[t].is_cash THEN "Cash Account" ELSE "Margin"]
        BY <1>1
    <2>2. /\ d.settlement \in [Loaded -> AllCashTypes]
          /\ \A t \in Loaded : d.settlement[t] \in CashTypes(t)
        BY <2>1 DEF AllCashTypes, CashTypes
    <2>3. d.se_amt = [t \in Loaded |-> 0]
        BY <1>1
    <2>4. d.cash = [t \in PaidIn(d) |-> "shares of"]
        BY <1>1, <1>5
    <2>5. d.cash \in [PaidIn(d) -> CtNames]
        BY <2>4 DEF CtNames
    <2>6. d.ca_bal = [a \in Accounts |-> 0] /\ d.b_comm_total = 0
        BY <1>1
    <2> QED BY <2>2, <2>3, <2>5, <2>6
<1>9. TablesOK(d)
    BY <1>2, <1>4, <1>6, <1>7, <1>8 DEF TablesOK
<1>10. ASSUME NEW a \in Accounts PROVE d.ca_bal[a] = SumOver(d.se_amt, CashOf(d, a))
    <2>1. CashOf(d, a) \subseteq Loaded /\ IsFiniteSet(CashOf(d, a))
        <3>1. CashOf(d, a) \subseteq Loaded
            BY <1>5 DEF CashOf
        <3> QED BY <1>3, <3>1, FS_Subset
    <2>2. d.se_amt = [t \in Loaded |-> 0] /\ d.ca_bal = [b \in Accounts |-> 0]
        BY <1>1
    <2>3. (\A t \in CashOf(d, a) : d.se_amt[t] = 0) /\ d.ca_bal[a] = 0
        BY <2>1, <2>2
    <2>4. SumOver(d.se_amt, CashOf(d, a)) = 0
        BY <2>1, <2>3, SumOfZeros
    <2> QED BY <2>3, <2>4
<1>11. d.b_comm_total = SumOver(d.comm, Done(d))
    <2>1. d.comm = [t \in Trades |-> 0] /\ d.b_comm_total = 0
        BY <1>1
    <2>2. \A t \in Loaded : d.comm[t] = 0
        BY <1>3, <2>1
    <2>3. SumOver(d.comm, Loaded) = 0
        BY <1>3, <2>2, SumOfZeros
    <2> QED BY <1>4, <2>1, <2>3
<1>12. d.b_num_trades = Cardinality(Done(d))
    BY <1>1, <1>4
<1> QED BY <1>4, <1>6, <1>9, <1>10, <1>11, <1>12 DEF MoneyOf

(* Whatever has been asked for, each implementation leaves tables that are *)
(* those of a behaviour.                                                   *)
LEMMA AnswersKeepTables ==
    ASSUME SuiteInv, asked # Nothing, NEW i \in Impls
    PROVE  TablesOK(out[i].db) /\ MoneyOf(out[i].db)
<1>1. TablesOK(db) /\ MoneyOf(db) /\ IsAnswer(asked.frame, asked.in, out)
    BY DEF SuiteInv, AskedInv
<1> DEFINE frame == asked.frame
           in == asked.in
<1>2. CASE IsListAnswer(frame, in, out)
    <2>1. frame \in ListFrames /\ IsInput(frame, in) /\ out[i] = OutOf(i, frame, db, in)
        BY <1>2 DEF IsListAnswer
    <2> HIDE DEF frame, in
    <2> QED BY <1>1, <2>1, ListsKeepTables
<1>3. CASE IsHoldingAnswer(in, out)
    <2> HIDE DEF in
    <2> QED BY <1>1, <1>3, HoldingKeepsTables
<1>4. CASE IsTradeResult(in, out)
    <2> HIDE DEF in
    <2> DEFINE tax == TaxOf(i, in)
               t == in.trade_id
               comm == CommOf(in)
               amount == HarnessAmount(in, comm, tax)
               e == SettledBy(db, in, tax).db
    <2>1. out[i].db = e
        <3>1. out[i] = ResultWith(db, in, tax)
            BY <1>4, TradeResultAnswers
        <3> QED BY <3>1 DEF ResultWith
    <2>2. comm \in Int /\ amount \in Int
        BY <1>4, AmountsAreIntegers DEF IsTradeResult
    <2>3. t \in Trades /\ t \notin Done(db)
        BY <1>4 DEF IsTradeResult
    <2>4. in.trade_dts \in Nat
        <3>1. Max({db.dts[u] : u \in Trades}) \in Nat
            <4>1. db.dts \in [Trades -> Nat] /\ Trades # {}
                BY <1>1, <2>3 DEF TablesOK
            <4> QED BY <4>1, LastDts, Zenon
        <3> QED BY <1>4, <3>1 DEF IsTradeResult
    <2> HIDE DEF tax, t, comm, amount, e
    <2>5. TablesOK(e) /\ MoneyOf(e)
        BY <1>1, <2>2, <2>3, <2>4, ResultKeepsTables DEF tax, t, comm, amount, e
    <2> QED BY <2>1, <2>5
<1>5. CASE IsMaintenance(in, out)
    <2> HIDE DEF in
    <2> QED BY <1>1, <1>5, MaintenanceKeepsTables
<1> QED BY <1>1, <1>2, <1>3, <1>4, <1>5 DEF IsAnswer

(* Frames answer, and the suite goes on from what one of them left.        *)
LEMMA SuiteStep ==
    ASSUME SuiteInv, [Next]_vars
    PROVE  SuiteInv'
<1>1. CASE NextFrame
    <2>1. PICK i \in Impls : db' = out[i].db
        BY <1>1 DEF NextFrame
    <2>2. asked # Nothing /\ asked' = Nothing
        BY <1>1 DEF NextFrame
    <2>3. TablesOK(out[i].db) /\ MoneyOf(out[i].db)
        BY <2>2, AnswersKeepTables
    <2>4. TablesOK(db') /\ MoneyOf(db')
        BY <2>1, <2>3
    <2>5. TablesOK(db)' /\ MoneyOf(db)'
        BY <2>4 DEF TablesOK, MoneyOf, IsDb, Done, PaidIn, CashOf
    <2> QED BY <2>2, <2>5 DEF SuiteInv, AskedInv
<1>2. ASSUME AskedInv', db' = db PROVE SuiteInv'
    <2>1. TablesOK(db)' /\ MoneyOf(db)'
        BY <1>2 DEF SuiteInv, TablesOK, MoneyOf, IsDb, Done, PaidIn, CashOf
    <2> QED BY <1>2, <2>1 DEF SuiteInv
<1>3. CASE DoTradeUpdateFrame1 \/ DoTradeUpdateFrame2 \/ DoTradeUpdateFrame3
    BY <1>2, <1>3, UpdateIsAnswer
<1>4. CASE DoTradeLookupFrame1 \/ DoTradeLookupFrame2 \/ DoTradeLookupFrame3
    BY <1>2, <1>4, LookupIsAnswer
<1>5. CASE DoTradeLookupFrame4 \/ DoTradeResult \/ DoDataMaintenanceFrame1
    BY <1>2, <1>5, OthersAreAnswers DEF SuiteInv
<1>6. CASE UNCHANGED vars
    <2>1. AskedInv' /\ db' = db
        BY <1>6 DEF vars, SuiteInv, AskedInv, IsAnswer, IsListAnswer, IsTradeResult,
            IsMaintenance, IsHoldingAnswer
    <2> QED BY <1>2, <2>1
<1> QED BY <1>1, <1>3, <1>4, <1>5, <1>6 DEF Next

(* SuiteInv holds in every state of a behaviour.                           *)
THEOREM SuiteInvariant == Spec => []SuiteInv
<1>1. Init => SuiteInv
    <2> SUFFICES ASSUME Init PROVE SuiteInv
        OBVIOUS
    <2>1. PICK table \in DOMAIN LoadedRows : db = LoadedTables(table)
        BY DEF Init
    <2>2. TablesOK(db) /\ MoneyOf(db)
        BY <2>1, LoadedTablesAreOK
    <2> QED BY <2>2 DEF Init, SuiteInv, AskedInv
<1>2. SuiteInv /\ [Next]_vars => SuiteInv'
    BY SuiteStep
<1> QED BY <1>1, <1>2, PTL DEF Spec

(* What Trade-Result has spread over the tables of trade, trade_history,   *)
(* settlement, cash_transaction, customer_account and broker agrees after  *)
(* any frames of any implementations, whatever trades, taxes and           *)
(* commissions there are.                                                  *)
THEOREM MoneyIsExact == Spec => []MoneyAddsUp
<1>1. SuiteInv => MoneyAddsUp
    BY MoneyOfTables DEF SuiteInv
<1> QED BY <1>1, SuiteInvariant, PTL

-----------------------------------------------------------------------------
(* What a round writes into the arrays.                                    *)

(* What the arrays hold of a trade, by the tables e: Null in the place of  *)
(* a cash transaction or of a history that is not there.                   *)
Cell(e, g, t) ==
    CASE g = "trade" -> TradeRow(e, t)
      [] g = "settlement" -> SettlementRow(e, t)
      [] g = "cash" -> IF Exists(t) /\ Trade[t].is_cash /\ Paid(e, t) THEN CashRow(e, t) ELSE Null
      [] g = "history" -> HistoryRows(e, t)

(* The tables have a row to put there.                                     *)
Real(e, g, t) ==
    CASE g = "trade" -> Exists(t)
      [] g = "settlement" -> Settled(e, t)
      [] g = "cash" -> Exists(t) /\ Trade[t].is_cash /\ Paid(e, t)
      [] g = "history" -> Past(e, t) # <<>>

(* A trade of which nothing is missing.                                    *)
Has(e, t) == Complete(e, t) /\ Past(e, t) # <<>>

(* The client leaves the cash transaction of a margin trade as it was.     *)
Skips(i, g, t) == i = "client" /\ g = "cash" /\ ~Trade[t].is_cash

IsArr(arr) == arr = [g \in Groups |-> arr[g]]

SameCounters(a, b) ==
    b.db = a.db /\ b.snap = a.snap /\ b.nu = a.nu /\ b.nf = a.nf /\ b.max_calls = a.max_calls

(* The client and plpgsql, from a at the beginning of round k to b: the    *)
(* groups of G have been dealt with.                                       *)
OnlyReal(i, g) == i = "client" \/ g \in {"trade", "settlement"}

WroteGroup(i, e, t, k, g, old, new) ==
    new = old \/ (new = Put(old, k, Cell(e, g, t)) /\ (OnlyReal(i, g) => Real(e, g, t)))

WroteAll(i, e, t, k, g, old, new) ==
    new = IF Skips(i, g, t) THEN old ELSE Put(old, k, Cell(e, g, t))

Filled(i, a, b, G, e, t, k) ==
    /\ IsAcc(b) /\ IsArr(b.arr)
    /\ \A g \in Groups : g \notin G => b.arr[g] = a.arr[g]
    /\ \A g \in Groups : g \in G => WroteGroup(i, e, t, k, g, a.arr[g], b.arr[g])
    /\ Has(e, t) => /\ b.at = "body"
                    /\ \A g \in Groups : g \in G => WroteAll(i, e, t, k, g, a.arr[g], b.arr[g])

(* One group is written, or is not.                                        *)
LEMMA PutFields ==
    ASSUME NEW a, IsAcc(a), IsArr(a.arr), NEW g \in Groups, NEW c, NEW v, NEW k, NEW b,
           PutIf(c, a, g, k, v) = b
    PROVE  /\ IsAcc(b) /\ IsArr(b.arr) /\ SameCounters(a, b) /\ b.at = a.at
           /\ \A h \in Groups : h # g => b.arr[h] = a.arr[h]
           /\ b.arr[g] = IF a.at = "body" /\ c THEN Put(a.arr[g], k, v) ELSE a.arr[g]
<1> DEFINE new == Put(a.arr[g], k, v)
           arr == [a.arr EXCEPT ![g] = new]
<1>1. b = IF a.at = "body" /\ c THEN [a EXCEPT !.arr = arr] ELSE a
    BY DEF PutIf, Going, IsAcc
<1>2. IsArr(arr) /\ arr[g] = new /\ \A h \in Groups : h # g => arr[h] = a.arr[h]
    <2> HIDE DEF new
    <2> QED BY DEF IsArr
<1> HIDE DEF arr, new
<1>3. CASE a.at = "body" /\ c
    <2>1. b = [a EXCEPT !.arr = arr]
        BY <1>1, <1>3
    <2>2. b.arr = arr /\ IsAcc(b) /\ SameCounters(a, b) /\ b.at = a.at
        BY <2>1 DEF IsAcc, SameCounters
    <2> QED BY <1>2, <1>3, <2>2 DEF new
<1>4. CASE ~(a.at = "body" /\ c)
    <2>1. b = a
        BY <1>1, <1>4
    <2> QED BY <1>4, <2>1 DEF SameCounters
<1> QED BY <1>3, <1>4

(* H is G with one group of columns more.                                  *)
Joins(G, g, H) == g \in Groups /\ g \notin G /\ H = G \cup {g}

(* One assignment of a group of columns to row k, taken or skipped.        *)
LEMMA FillStep ==
    ASSUME NEW i, NEW a, NEW m, NEW G, NEW e, NEW t, NEW k, Filled(i, a, m, G, e, t, k),
           NEW g, NEW H, Joins(G, g, H), NEW c, NEW v, NEW b, PutIf(c, m, g, k, v) = b,
           m.at = "body" /\ c => v = Cell(e, g, t) /\ (OnlyReal(i, g) => Real(e, g, t)),
           Has(e, t) => (c <=> ~Skips(i, g, t))
    PROVE  Filled(i, a, b, H, e, t, k) /\ SameCounters(m, b) /\ b.at = m.at
<1> g \in Groups /\ g \notin G /\ H = G \cup {g}
    BY DEF Joins
<1>1. IsAcc(m) /\ IsArr(m.arr) /\ m.arr[g] = a.arr[g]
    BY DEF Filled
<1>2. /\ IsAcc(b) /\ IsArr(b.arr) /\ SameCounters(m, b) /\ b.at = m.at
      /\ \A h \in Groups : h # g => b.arr[h] = m.arr[h]
      /\ b.arr[g] = IF m.at = "body" /\ c THEN Put(m.arr[g], k, v) ELSE m.arr[g]
    BY <1>1, PutFields
<1>3. \A h \in Groups : h \notin H => b.arr[h] = a.arr[h]
    BY <1>2 DEF Filled
<1>4. WroteGroup(i, e, t, k, g, a.arr[g], b.arr[g])
    BY <1>1, <1>2 DEF WroteGroup
<1>5. \A h \in Groups : h \in H => WroteGroup(i, e, t, k, h, a.arr[h], b.arr[h])
    BY <1>2, <1>4 DEF Filled
<1>6. ASSUME Has(e, t)
      PROVE  /\ b.at = "body"
             /\ \A h \in Groups : h \in H => WroteAll(i, e, t, k, h, a.arr[h], b.arr[h])
    <2>1. m.at = "body" /\ (c <=> ~Skips(i, g, t))
        BY <1>6 DEF Filled
    <2>2. WroteAll(i, e, t, k, g, a.arr[g], b.arr[g])
        BY <1>1, <1>2, <2>1 DEF WroteAll
    <2> QED BY <1>2, <1>6, <2>1, <2>2 DEF Filled
<1> QED BY <1>2, <1>3, <1>5, <1>6 DEF Filled

(* The work on the trade is ended, or is not.                              *)
LEMMA PauseStep ==
    ASSUME NEW i, NEW a, NEW m, NEW G, NEW e, NEW t, NEW k, Filled(i, a, m, G, e, t, k),
           NEW c, NEW b, ContinueUnless(c, m) = b, Has(e, t) => c
    PROVE  /\ Filled(i, a, b, G, e, t, k) /\ SameCounters(m, b)
           /\ b.at = "body" <=> m.at = "body" /\ c
<1>1. IsAcc(m)
    BY DEF Filled
<1>2. /\ IsAcc(b) /\ SameCounters(m, b) /\ b.arr = m.arr
      /\ (b.at = "body" <=> m.at = "body" /\ c)
    BY <1>1 DEF ContinueUnless, Going, IsAcc, SameCounters
<1> QED BY <1>2 DEF Filled

(* A row of the tables is changed, the arrays are not.                     *)
LEMMA ChangeStep ==
    ASSUME NEW i, NEW a, NEW m, NEW G, NEW e, NEW t, NEW k, Filled(i, a, m, G, e, t, k),
           NEW b, IsAcc(b), b.arr = m.arr, b.at = m.at
    PROVE  Filled(i, a, b, G, e, t, k)
BY DEF Filled

(* Before its first assignment a round has filled nothing.                 *)
LEMMA FillStart ==
    ASSUME NEW i, NEW a, IsAcc(a), IsArr(a.arr), a.at = "body", NEW e, NEW t, NEW k,
           NEW G, G = {}
    PROVE  Filled(i, a, a, G, e, t, k)
BY DEF Filled

(* The tables d and e differ in the column of the frame at most.           *)
SameRows(frame, d, e) ==
    /\ frame # "TUF1" => e.exec = d.exec
    /\ frame # "TUF2" => e.settlement = d.settlement
    /\ frame # "TUF3" => e.cash = d.cash
    /\ e.history = d.history
    /\ DOMAIN e.settlement = DOMAIN d.settlement /\ DOMAIN e.cash = DOMAIN d.cash

(* The rows of a trade that a frame does not update.                       *)
RowsKept(frame, d, e, t) ==
    /\ frame # "TUF1" => TradeRow(e, t) = TradeRow(d, t)
    /\ frame # "TUF2" => SettlementRow(e, t) = SettlementRow(d, t)
    /\ frame # "TUF3" => CashRow(e, t) = CashRow(d, t)
    /\ Past(e, t) = Past(d, t) /\ HistoryRows(e, t) = HistoryRows(d, t)
    /\ (Settled(e, t) <=> Settled(d, t)) /\ (Paid(e, t) <=> Paid(d, t))
    /\ (Has(e, t) <=> Has(d, t))

(* They are kept.                                                          *)
LEMMA RowsOfTrade ==
    ASSUME NEW frame, NEW d, NEW e, SameRows(frame, d, e), NEW t
    PROVE  RowsKept(frame, d, e, t)
<1>1. Past(e, t) = Past(d, t)
    BY DEF SameRows, Past
<1>2. HistoryRows(e, t) = HistoryRows(d, t)
    BY <1>1 DEF HistoryRows
<1>3. (Settled(e, t) <=> Settled(d, t)) /\ (Paid(e, t) <=> Paid(d, t))
    BY DEF SameRows, Settled, Paid
<1>4. Has(e, t) <=> Has(d, t)
    BY <1>1, <1>3 DEF Has, Complete
<1> QED BY <1>1, <1>2, <1>3, <1>4 DEF RowsKept, SameRows, TradeRow, SettlementRow, CashRow

(* What the change of a row leaves alone.                                  *)
Changed(frame, m, b) ==
    /\ IsAcc(b) /\ b.arr = m.arr /\ b.at = m.at /\ b.snap = m.snap /\ b.max_calls = m.max_calls
    /\ SameRows(frame, m.db, b.db)

(* An update of an executor changes no row but those of the trade table.   *)
LEMMA ExecRow ==
    ASSUME NEW d, IsDb(d), NEW t, NEW v, NEW f, [d EXCEPT !.exec[t] = v] = f
    PROVE  SameRows("TUF1", d, f)
BY DEF IsDb, SameRows

(* An update of a cash type changes no row but those of settlement.        *)
LEMMA SettlementsRow ==
    ASSUME NEW d, IsDb(d), NEW t, NEW v, NEW f, [d EXCEPT !.settlement[t] = v] = f
    PROVE  SameRows("TUF2", d, f)
<1>1. f.settlement = [d.settlement EXCEPT ![t] = v]
    BY DEF IsDb
<1>2. DOMAIN f.settlement = DOMAIN d.settlement
    BY <1>1
<1>3. f.exec = d.exec /\ f.cash = d.cash /\ f.history = d.history
    BY DEF IsDb
<1> QED BY <1>2, <1>3 DEF SameRows

(* An update of a ct_name changes no row but those of cash_transaction.    *)
LEMMA CashsRow ==
    ASSUME NEW d, IsDb(d), NEW t, NEW v, NEW f, [d EXCEPT !.cash[t] = v] = f
    PROVE  SameRows("TUF3", d, f)
<1>1. f.cash = [d.cash EXCEPT ![t] = v]
    BY DEF IsDb
<1>2. DOMAIN f.cash = DOMAIN d.cash
    BY <1>1
<1>3. f.exec = d.exec /\ f.settlement = d.settlement /\ f.history = d.history
    BY DEF IsDb
<1> QED BY <1>2, <1>3 DEF SameRows

(* The change of a row, or none.                                           *)
LEMMA SetExecChanges ==
    ASSUME NEW m, IsAcc(m), IsDb(m.db), NEW t, NEW c, NEW b,
           (IF c THEN SetExec(m, t) ELSE m) = b
    PROVE  Changed("TUF1", m, b)
<1>1. CASE c
    <2> DEFINE f == [m.db EXCEPT !.exec[t] = ToggleExecName(m.db.exec[t])]
    <2>1. SameRows("TUF1", m.db, f)
        BY ExecRow
    <2>2. b = SetExec(m, t)
        BY <1>1
    <2>3. b.db = f
        BY <2>2 DEF SetExec, IsAcc
    <2>4. /\ IsAcc(b) /\ b.arr = m.arr /\ b.at = m.at /\ b.snap = m.snap
          /\ b.max_calls = m.max_calls
        BY <2>2 DEF SetExec, IsAcc
    <2> QED BY <2>1, <2>3, <2>4 DEF Changed
<1>2. CASE ~c
    BY <1>2 DEF Changed, SameRows
<1> QED BY <1>1, <1>2

(* The update of Trade-Update 2, taken or skipped.                         *)
LEMMA SetCashTypeChanges ==
    ASSUME NEW m, IsAcc(m), IsDb(m.db), NEW t, NEW c, NEW b,
           (IF c THEN SetCashType(m, t) ELSE m) = b
    PROVE  Changed("TUF2", m, b)
<1>1. CASE c
    <2> DEFINE f == [m.db EXCEPT !.settlement[t] =
                        ToggleCashType(Trade[t].is_cash, m.db.settlement[t])]
    <2>1. SameRows("TUF2", m.db, f)
        BY SettlementsRow
    <2>2. b = SetCashType(m, t)
        BY <1>1
    <2>3. b.db = f
        BY <2>2 DEF SetCashType, IsAcc
    <2>4. /\ IsAcc(b) /\ b.arr = m.arr /\ b.at = m.at /\ b.snap = m.snap
          /\ b.max_calls = m.max_calls
        BY <2>2 DEF SetCashType, IsAcc
    <2> QED BY <2>1, <2>3, <2>4 DEF Changed
<1>2. CASE ~c
    BY <1>2 DEF Changed, SameRows
<1> QED BY <1>1, <1>2

(* The update of Trade-Update 3, taken or skipped.                         *)
LEMMA SetCtNameChanges ==
    ASSUME NEW m, IsAcc(m), IsDb(m.db), NEW t, NEW c, NEW b,
           (IF c THEN SetCtName(m, t) ELSE m) = b
    PROVE  Changed("TUF3", m, b)
<1>1. CASE c
    <2> DEFINE f == [m.db EXCEPT !.cash[t] = ToggleCtName(m.db.cash[t])]
    <2>1. SameRows("TUF3", m.db, f)
        BY CashsRow
    <2>2. b = SetCtName(m, t)
        BY <1>1
    <2>3. b.db = f
        BY <2>2 DEF SetCtName, IsAcc
    <2>4. /\ IsAcc(b) /\ b.arr = m.arr /\ b.at = m.at /\ b.snap = m.snap
          /\ b.max_calls = m.max_calls
        BY <2>2 DEF SetCtName, IsAcc
    <2> QED BY <2>1, <2>3, <2>4 DEF Changed
<1>2. CASE ~c
    BY <1>2 DEF Changed, SameRows
<1> QED BY <1>1, <1>2

(* A continue, taken or not, changes the place alone.                      *)
LEMMA PauseFields ==
    ASSUME NEW m, IsAcc(m), IsArr(m.arr), NEW c, NEW b, ContinueUnless(c, m) = b
    PROVE  IsAcc(b) /\ IsArr(b.arr) /\ SameCounters(m, b)
<1>1. IsAcc(b) /\ SameCounters(m, b) /\ b.arr = m.arr
    BY DEF ContinueUnless, Going, IsAcc, SameCounters
<1> QED BY <1>1

(* A trade of which the tables have everything.                            *)
LEMMA HasRows ==
    ASSUME NEW e, NEW t, Has(e, t)
    PROVE  /\ Exists(t) /\ Settled(e, t) /\ Past(e, t) # <<>>
           /\ (Trade[t].is_cash <=> Paid(e, t)) /\ Trade[t].is_cash \in BOOLEAN
BY TablesAssumption DEF Has, Complete, Exists

(* What each group of columns holds of a trade, and when there is a row.   *)
CellsOf(e, t) ==
    /\ Cell(e, "trade", t) = TradeRow(e, t) /\ (Real(e, "trade", t) <=> Exists(t))
    /\ Cell(e, "settlement", t) = SettlementRow(e, t)
    /\ (Real(e, "settlement", t) <=> Settled(e, t))
    /\ Cell(e, "cash", t) =
          IF Exists(t) /\ Trade[t].is_cash /\ Paid(e, t) THEN CashRow(e, t) ELSE Null
    /\ (Real(e, "cash", t) <=> Exists(t) /\ Trade[t].is_cash /\ Paid(e, t))
    /\ Cell(e, "history", t) = HistoryRows(e, t)
    /\ (Real(e, "history", t) <=> Past(e, t) # <<>>)

(* Which groups of columns a round of Trade-Update 1 fills for its trade:  *)
(* client.                                                                 *)
LEMMA ClientTUF1Fills ==
    ASSUME NEW acc, IsAcc(acc), IsArr(acc.arr), acc.at = "body", IsDb(acc.db),
           NEW t, NEW k, NEW in,
           NEW b, Body("client", "TUF1", acc, t, k, in) = b
    PROVE  Filled("client", acc, b, Groups, b.db, t, k) /\ SameRows("TUF1", acc.db, b.db)
<1> DEFINE c1 == acc.nu >= in.max_updates \/ Exists(t)
           b1 == ContinueUnless(c1, acc)
           b2 == IF Going(b1) /\ b1.nu < in.max_updates THEN SetExec(b1, t) ELSE b1
           c3 == Exists(t)
           b3 == ContinueUnless(c3, b2)
           c4 == TRUE
           b4 == PutIf(c4, b3, "trade", k, TradeRow(b3.db, t))
           c5 == Settled(b4.db, t)
           b5 == ContinueUnless(c5, b4)
           c6 == TRUE
           b6 == PutIf(c6, b5, "settlement", k, SettlementRow(b5.db, t))
           c7 == (Trade[t].is_cash => Paid(b6.db, t))
           b7 == ContinueUnless(c7, b6)
           c8 == Trade[t].is_cash
           b8 == PutIf(c8, b7, "cash", k, CashRow(b7.db, t))
           c9 == Past(b6.db, t) # <<>>
           b9 == PutIf(c9, b8, "history", k, HistoryRows(b6.db, t))
<1> DEFINE G0 == {}
           G1 == G0 \cup {"trade"}
           G2 == G1 \cup {"settlement"}
           G3 == G2 \cup {"cash"}
           G4 == G3 \cup {"history"}
           e == b2.db
<1>1. b = b9
    BY DEF Body, ClientTUF1Toggle, ClientTUF1Read, ClientTUF1ReadMore, b1, b2, b3, b4, b5, b6, b7, b8, b9, c1, c3, c4, c5, c6, c7, c8, c9
<1>db1. (ContinueUnless(c1, acc)) = b1
    BY DEF b1
<1>db2. (IF Going(b1) /\ b1.nu < in.max_updates THEN SetExec(b1, t) ELSE b1) = b2
    BY DEF b2
<1>db3. (ContinueUnless(c3, b2)) = b3
    BY DEF b3
<1>db4. (PutIf(c4, b3, "trade", k, TradeRow(b3.db, t))) = b4
    BY DEF b4
<1>db5. (ContinueUnless(c5, b4)) = b5
    BY DEF b5
<1>db6. (PutIf(c6, b5, "settlement", k, SettlementRow(b5.db, t))) = b6
    BY DEF b6
<1>db7. (ContinueUnless(c7, b6)) = b7
    BY DEF b7
<1>db8. (PutIf(c8, b7, "cash", k, CashRow(b7.db, t))) = b8
    BY DEF b8
<1>db9. (PutIf(c9, b8, "history", k, HistoryRows(b6.db, t))) = b9
    BY DEF b9
<1>e. e = b2.db
    OBVIOUS
<1>g. /\ Joins(G0, "trade", G1) /\ Joins(G1, "settlement", G2)
      /\ Joins(G2, "cash", G3) /\ Joins(G3, "history", G4)
      /\ G4 = Groups /\ G0 = {}
    BY DEF Groups, Joins
<1> HIDE DEF b1, b2, b3, b4, b5, b6, b7, b8, b9, c1, c3, c4, c5, c6, c7, c8, c9, G0, G1, G2, G3, G4, e
<1>c0. IsAcc(acc) /\ IsArr(acc.arr) /\ acc.db = acc.db
    OBVIOUS
<1>cb1. IsAcc(b1) /\ IsArr(b1.arr) /\ b1.db = acc.db
    <2>1. IsAcc(b1) /\ IsArr(b1.arr) /\ SameCounters(acc, b1)
        BY <1>c0, <1>db1, PauseFields
    <2> QED BY <1>c0, <2>1 DEF SameCounters
<1>t. Changed("TUF1", b1, b2)
    BY <1>cb1, <1>db2, SetExecChanges
<1>2. SameRows("TUF1", acc.db, e)
    BY <1>cb1, <1>e, <1>t DEF Changed
<1>3. RowsKept("TUF1", acc.db, e, t)
    BY <1>2, RowsOfTrade
<1>4. Has(e, t) => /\ Exists(t) /\ Settled(e, t) /\ Past(e, t) # <<>>
                   /\ (Trade[t].is_cash <=> Paid(e, t)) /\ Trade[t].is_cash \in BOOLEAN
    BY HasRows
<1>5. CellsOf(e, t)
    BY DEF CellsOf, Cell, Real
<1>6. \A g \in Groups : Skips("client", g, t) <=> g = "cash" /\ ~Trade[t].is_cash
    BY DEF Skips
<1>f0. Filled("client", acc, acc, G0, e, t, k) /\ acc.db = acc.db /\ (acc.at = "body" => TRUE)
    BY <1>g, FillStart
<1>fb1.
      /\ Filled("client", acc, b1, G0, e, t, k) /\ b1.db = acc.db
      /\ b1.at = "body" => (acc.nu >= in.max_updates \/ Exists(t))
    <2>1. Has(e, t) => c1
        BY <1>f0, <1>3, <1>4 DEF c1, RowsKept
    <2>2.
          /\ Filled("client", acc, b1, G0, e, t, k) /\ SameCounters(acc, b1)
          /\ b1.at = "body" <=> acc.at = "body" /\ (c1)
        BY <1>f0, <2>1, <1>db1, PauseStep
    <2> QED BY <1>f0, <2>2 DEF SameCounters, c1
<1>fb2.
      /\ Filled("client", acc, b2, G0, e, t, k) /\ b2.db = e
      /\ b2.at = "body" => (acc.nu >= in.max_updates \/ Exists(t))
    <2>1. IsAcc(b2) /\ b2.arr = b1.arr /\ b2.at = b1.at
        BY <1>t DEF Changed
    <2>2. Filled("client", acc, b2, G0, e, t, k)
        BY <1>fb1, <2>1, ChangeStep
    <2> QED BY <1>fb1, <1>e, <2>1, <2>2
<1>fb3.
      /\ Filled("client", acc, b3, G0, e, t, k) /\ b3.db = e
      /\ b3.at = "body" => (acc.nu >= in.max_updates \/ Exists(t)) /\ (Exists(t))
    <2>1. Has(e, t) => c3
        BY <1>fb2, <1>fb1, <1>3, <1>4 DEF c3, RowsKept
    <2>2.
          /\ Filled("client", acc, b3, G0, e, t, k) /\ SameCounters(b2, b3)
          /\ b3.at = "body" <=> b2.at = "body" /\ (c3)
        BY <1>fb2, <2>1, <1>db3, PauseStep
    <2> QED BY <1>fb2, <2>2 DEF SameCounters, c3
<1>fb4.
      /\ Filled("client", acc, b4, G1, e, t, k) /\ b4.db = e
      /\ b4.at = "body" => (acc.nu >= in.max_updates \/ Exists(t)) /\ (Exists(t))
    <2>0. /\ Filled("client", acc, b3, G0, e, t, k) /\ PutIf(c4, b3, "trade", k, TradeRow(b3.db, t)) = b4
          /\ Joins(G0, "trade", G1)
        BY <1>fb3, <1>g, <1>db4
    <2>1. b3.at = "body" /\ (c4) =>
              TradeRow(b3.db, t) = Cell(e, "trade", t) /\ (OnlyReal("client", "trade") => Real(e, "trade", t))
        BY <1>fb3, <1>fb1, <1>fb2, <1>e, <1>3, <1>5 DEF OnlyReal, c4, RowsKept, CellsOf
    <2>2. Has(e, t) => ((c4) <=> ~Skips("client", "trade", t))
        BY <1>fb3, <1>fb1, <1>fb2, <1>e, <1>g, <1>3, <1>4, <1>6 DEF c4, Joins, RowsKept
    <2>3.
          /\ Filled("client", acc, b4, G1, e, t, k) /\ SameCounters(b3, b4)
          /\ b4.at = b3.at
        BY <2>0, <2>1, <2>2, FillStep
    <2> QED BY <1>fb3, <2>3 DEF SameCounters
<1>fb5.
      /\ Filled("client", acc, b5, G1, e, t, k) /\ b5.db = e
      /\ b5.at = "body" => (acc.nu >= in.max_updates \/ Exists(t)) /\ (Exists(t)) /\ (Settled(b4.db, t))
    <2>1. Has(e, t) => c5
        BY <1>fb4, <1>fb1, <1>fb2, <1>fb3, <1>3, <1>4 DEF c5, RowsKept
    <2>2.
          /\ Filled("client", acc, b5, G1, e, t, k) /\ SameCounters(b4, b5)
          /\ b5.at = "body" <=> b4.at = "body" /\ (c5)
        BY <1>fb4, <2>1, <1>db5, PauseStep
    <2> QED BY <1>fb4, <2>2 DEF SameCounters, c5
<1>fb6.
      /\ Filled("client", acc, b6, G2, e, t, k) /\ b6.db = e
      /\ b6.at = "body" => (acc.nu >= in.max_updates \/ Exists(t)) /\ (Exists(t)) /\ (Settled(b4.db, t))
    <2>0. /\ Filled("client", acc, b5, G1, e, t, k) /\ PutIf(c6, b5, "settlement", k, SettlementRow(b5.db, t)) = b6
          /\ Joins(G1, "settlement", G2)
        BY <1>fb5, <1>g, <1>db6
    <2>1. b5.at = "body" /\ (c6) =>
              SettlementRow(b5.db, t) = Cell(e, "settlement", t) /\ (OnlyReal("client", "settlement") => Real(e, "settlement", t))
        BY <1>fb5, <1>fb1, <1>fb2, <1>fb3, <1>fb4, <1>e, <1>3, <1>5 DEF OnlyReal, c6, RowsKept, CellsOf
    <2>2. Has(e, t) => ((c6) <=> ~Skips("client", "settlement", t))
        BY <1>fb5, <1>fb1, <1>fb2, <1>fb3, <1>fb4, <1>e, <1>g, <1>3, <1>4, <1>6 DEF c6, Joins, RowsKept
    <2>3.
          /\ Filled("client", acc, b6, G2, e, t, k) /\ SameCounters(b5, b6)
          /\ b6.at = b5.at
        BY <2>0, <2>1, <2>2, FillStep
    <2> QED BY <1>fb5, <2>3 DEF SameCounters
<1>fb7.
      /\ Filled("client", acc, b7, G2, e, t, k) /\ b7.db = e
      /\ b7.at = "body" => (acc.nu >= in.max_updates \/ Exists(t)) /\ (Exists(t)) /\ (Settled(b4.db, t)) /\ ((Trade[t].is_cash => Paid(b6.db, t)))
    <2>1. Has(e, t) => c7
        BY <1>fb6, <1>fb1, <1>fb2, <1>fb3, <1>fb4, <1>fb5, <1>3, <1>4 DEF c7, RowsKept
    <2>2.
          /\ Filled("client", acc, b7, G2, e, t, k) /\ SameCounters(b6, b7)
          /\ b7.at = "body" <=> b6.at = "body" /\ (c7)
        BY <1>fb6, <2>1, <1>db7, PauseStep
    <2> QED BY <1>fb6, <2>2 DEF SameCounters, c7
<1>fb8.
      /\ Filled("client", acc, b8, G3, e, t, k) /\ b8.db = e
      /\ b8.at = "body" => (acc.nu >= in.max_updates \/ Exists(t)) /\ (Exists(t)) /\ (Settled(b4.db, t)) /\ ((Trade[t].is_cash => Paid(b6.db, t)))
    <2>0. /\ Filled("client", acc, b7, G2, e, t, k) /\ PutIf(c8, b7, "cash", k, CashRow(b7.db, t)) = b8
          /\ Joins(G2, "cash", G3)
        BY <1>fb7, <1>g, <1>db8
    <2>1. b7.at = "body" /\ (c8) =>
              CashRow(b7.db, t) = Cell(e, "cash", t) /\ (OnlyReal("client", "cash") => Real(e, "cash", t))
        BY <1>fb7, <1>fb1, <1>fb2, <1>fb3, <1>fb4, <1>fb5, <1>fb6, <1>e, <1>3, <1>5 DEF OnlyReal, c8, RowsKept, CellsOf
    <2>2. Has(e, t) => ((c8) <=> ~Skips("client", "cash", t))
        BY <1>fb7, <1>fb1, <1>fb2, <1>fb3, <1>fb4, <1>fb5, <1>fb6, <1>e, <1>g, <1>3, <1>4, <1>6 DEF c8, Joins, RowsKept
    <2>3.
          /\ Filled("client", acc, b8, G3, e, t, k) /\ SameCounters(b7, b8)
          /\ b8.at = b7.at
        BY <2>0, <2>1, <2>2, FillStep
    <2> QED BY <1>fb7, <2>3 DEF SameCounters
<1>fb9.
      /\ Filled("client", acc, b9, G4, e, t, k) /\ b9.db = e
      /\ b9.at = "body" => (acc.nu >= in.max_updates \/ Exists(t)) /\ (Exists(t)) /\ (Settled(b4.db, t)) /\ ((Trade[t].is_cash => Paid(b6.db, t)))
    <2>0. /\ Filled("client", acc, b8, G3, e, t, k) /\ PutIf(c9, b8, "history", k, HistoryRows(b6.db, t)) = b9
          /\ Joins(G3, "history", G4)
        BY <1>fb8, <1>g, <1>db9
    <2>1. b8.at = "body" /\ (c9) =>
              HistoryRows(b6.db, t) = Cell(e, "history", t) /\ (OnlyReal("client", "history") => Real(e, "history", t))
        BY <1>fb8, <1>fb1, <1>fb2, <1>fb3, <1>fb4, <1>fb5, <1>fb6, <1>fb7, <1>e, <1>3, <1>5 DEF OnlyReal, c9, RowsKept, CellsOf
    <2>2. Has(e, t) => ((c9) <=> ~Skips("client", "history", t))
        BY <1>fb8, <1>fb1, <1>fb2, <1>fb3, <1>fb4, <1>fb5, <1>fb6, <1>fb7, <1>e, <1>g, <1>3, <1>4, <1>6 DEF c9, Joins, RowsKept
    <2>3.
          /\ Filled("client", acc, b9, G4, e, t, k) /\ SameCounters(b8, b9)
          /\ b9.at = b8.at
        BY <2>0, <2>1, <2>2, FillStep
    <2> QED BY <1>fb8, <2>3 DEF SameCounters
<1>7. b.db = e
    BY <1>1, <1>e, <1>fb9
<1> QED BY <1>1, <1>2, <1>7, <1>g, <1>fb9

(* Which groups of columns a round of Trade-Update 2 fills for its trade:  *)
(* client.                                                                 *)
LEMMA ClientTUF2Fills ==
    ASSUME NEW acc, IsAcc(acc), IsArr(acc.arr), acc.at = "body", IsDb(acc.db),
           NEW t, NEW k, NEW in, Exists(t),
           NEW b, Body("client", "TUF2", acc, t, k, in) = b
    PROVE  Filled("client", acc, b, Groups, b.db, t, k) /\ SameRows("TUF2", acc.db, b.db)
<1> DEFINE c1 == TRUE
           b1 == PutIf(c1, acc, "trade", k, TradeRow(acc.db, t))
           c2 == b1.nu >= in.max_updates \/ Settled(b1.db, t)
           b2 == ContinueUnless(c2, b1)
           b3 == IF Going(b2) /\ b2.nu < in.max_updates THEN SetCashType(b2, t) ELSE b2
           c4 == Settled(b3.db, t)
           b4 == ContinueUnless(c4, b3)
           c5 == TRUE
           b5 == PutIf(c5, b4, "settlement", k, SettlementRow(b4.db, t))
           c6 == Trade[t].is_cash /\ Paid(b5.db, t)
           b6 == PutIf(c6, b5, "cash", k, CashRow(b5.db, t))
           c7 == Past(b3.db, t) # <<>>
           b7 == PutIf(c7, b6, "history", k, HistoryRows(b3.db, t))
<1> DEFINE G0 == {}
           G1 == G0 \cup {"trade"}
           G2 == G1 \cup {"settlement"}
           G3 == G2 \cup {"cash"}
           G4 == G3 \cup {"history"}
           e == b3.db
<1>1. b = b7
    BY DEF Body, ClientTUF2Toggle, ClientTUF2Read, b1, b2, b3, b4, b5, b6, b7, c1, c2, c4, c5, c6, c7
<1>db1. (PutIf(c1, acc, "trade", k, TradeRow(acc.db, t))) = b1
    BY DEF b1
<1>db2. (ContinueUnless(c2, b1)) = b2
    BY DEF b2
<1>db3. (IF Going(b2) /\ b2.nu < in.max_updates THEN SetCashType(b2, t) ELSE b2) = b3
    BY DEF b3
<1>db4. (ContinueUnless(c4, b3)) = b4
    BY DEF b4
<1>db5. (PutIf(c5, b4, "settlement", k, SettlementRow(b4.db, t))) = b5
    BY DEF b5
<1>db6. (PutIf(c6, b5, "cash", k, CashRow(b5.db, t))) = b6
    BY DEF b6
<1>db7. (PutIf(c7, b6, "history", k, HistoryRows(b3.db, t))) = b7
    BY DEF b7
<1>e. e = b3.db
    OBVIOUS
<1>g. /\ Joins(G0, "trade", G1) /\ Joins(G1, "settlement", G2)
      /\ Joins(G2, "cash", G3) /\ Joins(G3, "history", G4)
      /\ G4 = Groups /\ G0 = {}
    BY DEF Groups, Joins
<1> HIDE DEF b1, b2, b3, b4, b5, b6, b7, c1, c2, c4, c5, c6, c7, G0, G1, G2, G3, G4, e
<1>c0. IsAcc(acc) /\ IsArr(acc.arr) /\ acc.db = acc.db
    OBVIOUS
<1>cb1. IsAcc(b1) /\ IsArr(b1.arr) /\ b1.db = acc.db
    <2>1. IsAcc(b1) /\ IsArr(b1.arr) /\ SameCounters(acc, b1)
        BY <1>c0, <1>db1, <1>g, PutFields DEF Joins
    <2> QED BY <1>c0, <2>1 DEF SameCounters
<1>cb2. IsAcc(b2) /\ IsArr(b2.arr) /\ b2.db = acc.db
    <2>1. IsAcc(b2) /\ IsArr(b2.arr) /\ SameCounters(b1, b2)
        BY <1>cb1, <1>db2, PauseFields
    <2> QED BY <1>cb1, <2>1 DEF SameCounters
<1>t. Changed("TUF2", b2, b3)
    BY <1>cb2, <1>db3, SetCashTypeChanges
<1>2. SameRows("TUF2", acc.db, e)
    BY <1>cb2, <1>e, <1>t DEF Changed
<1>3. RowsKept("TUF2", acc.db, e, t)
    BY <1>2, RowsOfTrade
<1>4. Has(e, t) => /\ Exists(t) /\ Settled(e, t) /\ Past(e, t) # <<>>
                   /\ (Trade[t].is_cash <=> Paid(e, t)) /\ Trade[t].is_cash \in BOOLEAN
    BY HasRows
<1>5. CellsOf(e, t)
    BY DEF CellsOf, Cell, Real
<1>6. \A g \in Groups : Skips("client", g, t) <=> g = "cash" /\ ~Trade[t].is_cash
    BY DEF Skips
<1>f0. Filled("client", acc, acc, G0, e, t, k) /\ acc.db = acc.db /\ (acc.at = "body" => TRUE)
    BY <1>g, FillStart
<1>fb1.
      /\ Filled("client", acc, b1, G1, e, t, k) /\ b1.db = acc.db
      /\ b1.at = "body" => (Exists(t))
    <2>0. /\ Filled("client", acc, acc, G0, e, t, k) /\ PutIf(c1, acc, "trade", k, TradeRow(acc.db, t)) = b1
          /\ Joins(G0, "trade", G1)
        BY <1>f0, <1>g, <1>db1
    <2>1. acc.at = "body" /\ (c1) =>
              TradeRow(acc.db, t) = Cell(e, "trade", t) /\ (OnlyReal("client", "trade") => Real(e, "trade", t))
        BY <1>f0, <1>e, <1>3, <1>5 DEF OnlyReal, c1, RowsKept, CellsOf
    <2>2. Has(e, t) => ((c1) <=> ~Skips("client", "trade", t))
        BY <1>f0, <1>e, <1>g, <1>3, <1>4, <1>6 DEF c1, Joins, RowsKept
    <2>3.
          /\ Filled("client", acc, b1, G1, e, t, k) /\ SameCounters(acc, b1)
          /\ b1.at = acc.at
        BY <2>0, <2>1, <2>2, FillStep
    <2> QED BY <1>f0, <2>3 DEF SameCounters
<1>fb2.
      /\ Filled("client", acc, b2, G1, e, t, k) /\ b2.db = acc.db
      /\ b2.at = "body" => (Exists(t)) /\ (b1.nu >= in.max_updates \/ Settled(b1.db, t))
    <2>1. Has(e, t) => c2
        BY <1>fb1, <1>3, <1>4 DEF c2, RowsKept
    <2>2.
          /\ Filled("client", acc, b2, G1, e, t, k) /\ SameCounters(b1, b2)
          /\ b2.at = "body" <=> b1.at = "body" /\ (c2)
        BY <1>fb1, <2>1, <1>db2, PauseStep
    <2> QED BY <1>fb1, <2>2 DEF SameCounters, c2
<1>fb3.
      /\ Filled("client", acc, b3, G1, e, t, k) /\ b3.db = e
      /\ b3.at = "body" => (Exists(t)) /\ (b1.nu >= in.max_updates \/ Settled(b1.db, t))
    <2>1. IsAcc(b3) /\ b3.arr = b2.arr /\ b3.at = b2.at
        BY <1>t DEF Changed
    <2>2. Filled("client", acc, b3, G1, e, t, k)
        BY <1>fb2, <2>1, ChangeStep
    <2> QED BY <1>fb2, <1>e, <2>1, <2>2
<1>fb4.
      /\ Filled("client", acc, b4, G1, e, t, k) /\ b4.db = e
      /\ b4.at = "body" => (Exists(t)) /\ (b1.nu >= in.max_updates \/ Settled(b1.db, t)) /\ (Settled(b3.db, t))
    <2>1. Has(e, t) => c4
        BY <1>fb3, <1>fb1, <1>fb2, <1>3, <1>4 DEF c4, RowsKept
    <2>2.
          /\ Filled("client", acc, b4, G1, e, t, k) /\ SameCounters(b3, b4)
          /\ b4.at = "body" <=> b3.at = "body" /\ (c4)
        BY <1>fb3, <2>1, <1>db4, PauseStep
    <2> QED BY <1>fb3, <2>2 DEF SameCounters, c4
<1>fb5.
      /\ Filled("client", acc, b5, G2, e, t, k) /\ b5.db = e
      /\ b5.at = "body" => (Exists(t)) /\ (b1.nu >= in.max_updates \/ Settled(b1.db, t)) /\ (Settled(b3.db, t))
    <2>0. /\ Filled("client", acc, b4, G1, e, t, k) /\ PutIf(c5, b4, "settlement", k, SettlementRow(b4.db, t)) = b5
          /\ Joins(G1, "settlement", G2)
        BY <1>fb4, <1>g, <1>db5
    <2>1. b4.at = "body" /\ (c5) =>
              SettlementRow(b4.db, t) = Cell(e, "settlement", t) /\ (OnlyReal("client", "settlement") => Real(e, "settlement", t))
        BY <1>fb4, <1>fb1, <1>fb2, <1>fb3, <1>e, <1>3, <1>5 DEF OnlyReal, c5, RowsKept, CellsOf
    <2>2. Has(e, t) => ((c5) <=> ~Skips("client", "settlement", t))
        BY <1>fb4, <1>fb1, <1>fb2, <1>fb3, <1>e, <1>g, <1>3, <1>4, <1>6 DEF c5, Joins, RowsKept
    <2>3.
          /\ Filled("client", acc, b5, G2, e, t, k) /\ SameCounters(b4, b5)
          /\ b5.at = b4.at
        BY <2>0, <2>1, <2>2, FillStep
    <2> QED BY <1>fb4, <2>3 DEF SameCounters
<1>fb6.
      /\ Filled("client", acc, b6, G3, e, t, k) /\ b6.db = e
      /\ b6.at = "body" => (Exists(t)) /\ (b1.nu >= in.max_updates \/ Settled(b1.db, t)) /\ (Settled(b3.db, t))
    <2>0. /\ Filled("client", acc, b5, G2, e, t, k) /\ PutIf(c6, b5, "cash", k, CashRow(b5.db, t)) = b6
          /\ Joins(G2, "cash", G3)
        BY <1>fb5, <1>g, <1>db6
    <2>1. b5.at = "body" /\ (c6) =>
              CashRow(b5.db, t) = Cell(e, "cash", t) /\ (OnlyReal("client", "cash") => Real(e, "cash", t))
        BY <1>fb5, <1>fb1, <1>fb2, <1>fb3, <1>fb4, <1>e, <1>3, <1>5 DEF OnlyReal, c6, RowsKept, CellsOf
    <2>2. Has(e, t) => ((c6) <=> ~Skips("client", "cash", t))
        BY <1>fb5, <1>fb1, <1>fb2, <1>fb3, <1>fb4, <1>e, <1>g, <1>3, <1>4, <1>6 DEF c6, Joins, RowsKept
    <2>3.
          /\ Filled("client", acc, b6, G3, e, t, k) /\ SameCounters(b5, b6)
          /\ b6.at = b5.at
        BY <2>0, <2>1, <2>2, FillStep
    <2> QED BY <1>fb5, <2>3 DEF SameCounters
<1>fb7.
      /\ Filled("client", acc, b7, G4, e, t, k) /\ b7.db = e
      /\ b7.at = "body" => (Exists(t)) /\ (b1.nu >= in.max_updates \/ Settled(b1.db, t)) /\ (Settled(b3.db, t))
    <2>0. /\ Filled("client", acc, b6, G3, e, t, k) /\ PutIf(c7, b6, "history", k, HistoryRows(b3.db, t)) = b7
          /\ Joins(G3, "history", G4)
        BY <1>fb6, <1>g, <1>db7
    <2>1. b6.at = "body" /\ (c7) =>
              HistoryRows(b3.db, t) = Cell(e, "history", t) /\ (OnlyReal("client", "history") => Real(e, "history", t))
        BY <1>fb6, <1>fb1, <1>fb2, <1>fb3, <1>fb4, <1>fb5, <1>e, <1>3, <1>5 DEF OnlyReal, c7, RowsKept, CellsOf
    <2>2. Has(e, t) => ((c7) <=> ~Skips("client", "history", t))
        BY <1>fb6, <1>fb1, <1>fb2, <1>fb3, <1>fb4, <1>fb5, <1>e, <1>g, <1>3, <1>4, <1>6 DEF c7, Joins, RowsKept
    <2>3.
          /\ Filled("client", acc, b7, G4, e, t, k) /\ SameCounters(b6, b7)
          /\ b7.at = b6.at
        BY <2>0, <2>1, <2>2, FillStep
    <2> QED BY <1>fb6, <2>3 DEF SameCounters
<1>7. b.db = e
    BY <1>1, <1>e, <1>fb7
<1> QED BY <1>1, <1>2, <1>7, <1>g, <1>fb7

(* Which groups of columns a round of Trade-Update 3 fills for its trade:  *)
(* client.                                                                 *)
LEMMA ClientTUF3Fills ==
    ASSUME NEW acc, IsAcc(acc), IsArr(acc.arr), acc.at = "body", IsDb(acc.db),
           NEW t, NEW k, NEW in, Exists(t),
           NEW b, Body("client", "TUF3", acc, t, k, in) = b
    PROVE  Filled("client", acc, b, Groups, b.db, t, k) /\ SameRows("TUF3", acc.db, b.db)
<1> DEFINE c1 == TRUE
           b1 == PutIf(c1, acc, "trade", k, TradeRow(acc.db, t))
           c2 == Settled(b1.db, t)
           b2 == ContinueUnless(c2, b1)
           c3 == TRUE
           b3 == PutIf(c3, b2, "settlement", k, SettlementRow(b2.db, t))
           c4 == (Trade[t].is_cash /\ b3.nu < in.max_updates => Paid(b3.db, t))
           b4 == ContinueUnless(c4, b3)
           b5 == IF Going(b4) /\ (Trade[t].is_cash /\ b3.nu < in.max_updates) THEN SetCtName(b4, t) ELSE b4
           c6 == Trade[t].is_cash /\ Paid(b5.db, t)
           b6 == PutIf(c6, b5, "cash", k, CashRow(b5.db, t))
           c7 == Past(b5.db, t) # <<>>
           b7 == PutIf(c7, b6, "history", k, HistoryRows(b5.db, t))
<1> DEFINE G0 == {}
           G1 == G0 \cup {"trade"}
           G2 == G1 \cup {"settlement"}
           G3 == G2 \cup {"cash"}
           G4 == G3 \cup {"history"}
           e == b5.db
<1>1. b = b7
    BY DEF Body, ClientTUF3Read, ClientTUF3Toggle, ClientTUF3ReadMore, b1, b2, b3, b4, b5, b6, b7, c1, c2, c3, c4, c6, c7
<1>db1. (PutIf(c1, acc, "trade", k, TradeRow(acc.db, t))) = b1
    BY DEF b1
<1>db2. (ContinueUnless(c2, b1)) = b2
    BY DEF b2
<1>db3. (PutIf(c3, b2, "settlement", k, SettlementRow(b2.db, t))) = b3
    BY DEF b3
<1>db4. (ContinueUnless(c4, b3)) = b4
    BY DEF b4
<1>db5. (IF Going(b4) /\ (Trade[t].is_cash /\ b3.nu < in.max_updates) THEN SetCtName(b4, t) ELSE b4) = b5
    BY DEF b5
<1>db6. (PutIf(c6, b5, "cash", k, CashRow(b5.db, t))) = b6
    BY DEF b6
<1>db7. (PutIf(c7, b6, "history", k, HistoryRows(b5.db, t))) = b7
    BY DEF b7
<1>e. e = b5.db
    OBVIOUS
<1>g. /\ Joins(G0, "trade", G1) /\ Joins(G1, "settlement", G2)
      /\ Joins(G2, "cash", G3) /\ Joins(G3, "history", G4)
      /\ G4 = Groups /\ G0 = {}
    BY DEF Groups, Joins
<1> HIDE DEF b1, b2, b3, b4, b5, b6, b7, c1, c2, c3, c4, c6, c7, G0, G1, G2, G3, G4, e
<1>c0. IsAcc(acc) /\ IsArr(acc.arr) /\ acc.db = acc.db
    OBVIOUS
<1>cb1. IsAcc(b1) /\ IsArr(b1.arr) /\ b1.db = acc.db
    <2>1. IsAcc(b1) /\ IsArr(b1.arr) /\ SameCounters(acc, b1)
        BY <1>c0, <1>db1, <1>g, PutFields DEF Joins
    <2> QED BY <1>c0, <2>1 DEF SameCounters
<1>cb2. IsAcc(b2) /\ IsArr(b2.arr) /\ b2.db = acc.db
    <2>1. IsAcc(b2) /\ IsArr(b2.arr) /\ SameCounters(b1, b2)
        BY <1>cb1, <1>db2, PauseFields
    <2> QED BY <1>cb1, <2>1 DEF SameCounters
<1>cb3. IsAcc(b3) /\ IsArr(b3.arr) /\ b3.db = acc.db
    <2>1. IsAcc(b3) /\ IsArr(b3.arr) /\ SameCounters(b2, b3)
        BY <1>cb2, <1>db3, <1>g, PutFields DEF Joins
    <2> QED BY <1>cb2, <2>1 DEF SameCounters
<1>cb4. IsAcc(b4) /\ IsArr(b4.arr) /\ b4.db = acc.db
    <2>1. IsAcc(b4) /\ IsArr(b4.arr) /\ SameCounters(b3, b4)
        BY <1>cb3, <1>db4, PauseFields
    <2> QED BY <1>cb3, <2>1 DEF SameCounters
<1>t. Changed("TUF3", b4, b5)
    BY <1>cb4, <1>db5, SetCtNameChanges
<1>2. SameRows("TUF3", acc.db, e)
    BY <1>cb4, <1>e, <1>t DEF Changed
<1>3. RowsKept("TUF3", acc.db, e, t)
    BY <1>2, RowsOfTrade
<1>4. Has(e, t) => /\ Exists(t) /\ Settled(e, t) /\ Past(e, t) # <<>>
                   /\ (Trade[t].is_cash <=> Paid(e, t)) /\ Trade[t].is_cash \in BOOLEAN
    BY HasRows
<1>5. CellsOf(e, t)
    BY DEF CellsOf, Cell, Real
<1>6. \A g \in Groups : Skips("client", g, t) <=> g = "cash" /\ ~Trade[t].is_cash
    BY DEF Skips
<1>f0. Filled("client", acc, acc, G0, e, t, k) /\ acc.db = acc.db /\ (acc.at = "body" => TRUE)
    BY <1>g, FillStart
<1>fb1.
      /\ Filled("client", acc, b1, G1, e, t, k) /\ b1.db = acc.db
      /\ b1.at = "body" => (Exists(t))
    <2>0. /\ Filled("client", acc, acc, G0, e, t, k) /\ PutIf(c1, acc, "trade", k, TradeRow(acc.db, t)) = b1
          /\ Joins(G0, "trade", G1)
        BY <1>f0, <1>g, <1>db1
    <2>1. acc.at = "body" /\ (c1) =>
              TradeRow(acc.db, t) = Cell(e, "trade", t) /\ (OnlyReal("client", "trade") => Real(e, "trade", t))
        BY <1>f0, <1>e, <1>3, <1>5 DEF OnlyReal, c1, RowsKept, CellsOf
    <2>2. Has(e, t) => ((c1) <=> ~Skips("client", "trade", t))
        BY <1>f0, <1>e, <1>g, <1>3, <1>4, <1>6 DEF c1, Joins, RowsKept
    <2>3.
          /\ Filled("client", acc, b1, G1, e, t, k) /\ SameCounters(acc, b1)
          /\ b1.at = acc.at
        BY <2>0, <2>1, <2>2, FillStep
    <2> QED BY <1>f0, <2>3 DEF SameCounters
<1>fb2.
      /\ Filled("client", acc, b2, G1, e, t, k) /\ b2.db = acc.db
      /\ b2.at = "body" => (Exists(t)) /\ (Settled(b1.db, t))
    <2>1. Has(e, t) => c2
        BY <1>fb1, <1>3, <1>4 DEF c2, RowsKept
    <2>2.
          /\ Filled("client", acc, b2, G1, e, t, k) /\ SameCounters(b1, b2)
          /\ b2.at = "body" <=> b1.at = "body" /\ (c2)
        BY <1>fb1, <2>1, <1>db2, PauseStep
    <2> QED BY <1>fb1, <2>2 DEF SameCounters, c2
<1>fb3.
      /\ Filled("client", acc, b3, G2, e, t, k) /\ b3.db = acc.db
      /\ b3.at = "body" => (Exists(t)) /\ (Settled(b1.db, t))
    <2>0. /\ Filled("client", acc, b2, G1, e, t, k) /\ PutIf(c3, b2, "settlement", k, SettlementRow(b2.db, t)) = b3
          /\ Joins(G1, "settlement", G2)
        BY <1>fb2, <1>g, <1>db3
    <2>1. b2.at = "body" /\ (c3) =>
              SettlementRow(b2.db, t) = Cell(e, "settlement", t) /\ (OnlyReal("client", "settlement") => Real(e, "settlement", t))
        BY <1>fb2, <1>fb1, <1>e, <1>3, <1>5 DEF OnlyReal, c3, RowsKept, CellsOf
    <2>2. Has(e, t) => ((c3) <=> ~Skips("client", "settlement", t))
        BY <1>fb2, <1>fb1, <1>e, <1>g, <1>3, <1>4, <1>6 DEF c3, Joins, RowsKept
    <2>3.
          /\ Filled("client", acc, b3, G2, e, t, k) /\ SameCounters(b2, b3)
          /\ b3.at = b2.at
        BY <2>0, <2>1, <2>2, FillStep
    <2> QED BY <1>fb2, <2>3 DEF SameCounters
<1>fb4.
      /\ Filled("client", acc, b4, G2, e, t, k) /\ b4.db = acc.db
      /\ b4.at = "body" => (Exists(t)) /\ (Settled(b1.db, t)) /\ ((Trade[t].is_cash /\ b3.nu < in.max_updates => Paid(b3.db, t)))
    <2>1. Has(e, t) => c4
        BY <1>fb3, <1>fb1, <1>fb2, <1>3, <1>4 DEF c4, RowsKept
    <2>2.
          /\ Filled("client", acc, b4, G2, e, t, k) /\ SameCounters(b3, b4)
          /\ b4.at = "body" <=> b3.at = "body" /\ (c4)
        BY <1>fb3, <2>1, <1>db4, PauseStep
    <2> QED BY <1>fb3, <2>2 DEF SameCounters, c4
<1>fb5.
      /\ Filled("client", acc, b5, G2, e, t, k) /\ b5.db = e
      /\ b5.at = "body" => (Exists(t)) /\ (Settled(b1.db, t)) /\ ((Trade[t].is_cash /\ b3.nu < in.max_updates => Paid(b3.db, t)))
    <2>1. IsAcc(b5) /\ b5.arr = b4.arr /\ b5.at = b4.at
        BY <1>t DEF Changed
    <2>2. Filled("client", acc, b5, G2, e, t, k)
        BY <1>fb4, <2>1, ChangeStep
    <2> QED BY <1>fb4, <1>e, <2>1, <2>2
<1>fb6.
      /\ Filled("client", acc, b6, G3, e, t, k) /\ b6.db = e
      /\ b6.at = "body" => (Exists(t)) /\ (Settled(b1.db, t)) /\ ((Trade[t].is_cash /\ b3.nu < in.max_updates => Paid(b3.db, t)))
    <2>0. /\ Filled("client", acc, b5, G2, e, t, k) /\ PutIf(c6, b5, "cash", k, CashRow(b5.db, t)) = b6
          /\ Joins(G2, "cash", G3)
        BY <1>fb5, <1>g, <1>db6
    <2>1. b5.at = "body" /\ (c6) =>
              CashRow(b5.db, t) = Cell(e, "cash", t) /\ (OnlyReal("client", "cash") => Real(e, "cash", t))
        BY <1>fb5, <1>fb1, <1>fb2, <1>fb3, <1>fb4, <1>e, <1>3, <1>5 DEF OnlyReal, c6, RowsKept, CellsOf
    <2>2. Has(e, t) => ((c6) <=> ~Skips("client", "cash", t))
        BY <1>fb5, <1>fb1, <1>fb2, <1>fb3, <1>fb4, <1>e, <1>g, <1>3, <1>4, <1>6 DEF c6, Joins, RowsKept
    <2>3.
          /\ Filled("client", acc, b6, G3, e, t, k) /\ SameCounters(b5, b6)
          /\ b6.at = b5.at
        BY <2>0, <2>1, <2>2, FillStep
    <2> QED BY <1>fb5, <2>3 DEF SameCounters
<1>fb7.
      /\ Filled("client", acc, b7, G4, e, t, k) /\ b7.db = e
      /\ b7.at = "body" => (Exists(t)) /\ (Settled(b1.db, t)) /\ ((Trade[t].is_cash /\ b3.nu < in.max_updates => Paid(b3.db, t)))
    <2>0. /\ Filled("client", acc, b6, G3, e, t, k) /\ PutIf(c7, b6, "history", k, HistoryRows(b5.db, t)) = b7
          /\ Joins(G3, "history", G4)
        BY <1>fb6, <1>g, <1>db7
    <2>1. b6.at = "body" /\ (c7) =>
              HistoryRows(b5.db, t) = Cell(e, "history", t) /\ (OnlyReal("client", "history") => Real(e, "history", t))
        BY <1>fb6, <1>fb1, <1>fb2, <1>fb3, <1>fb4, <1>fb5, <1>e, <1>3, <1>5 DEF OnlyReal, c7, RowsKept, CellsOf
    <2>2. Has(e, t) => ((c7) <=> ~Skips("client", "history", t))
        BY <1>fb6, <1>fb1, <1>fb2, <1>fb3, <1>fb4, <1>fb5, <1>e, <1>g, <1>3, <1>4, <1>6 DEF c7, Joins, RowsKept
    <2>3.
          /\ Filled("client", acc, b7, G4, e, t, k) /\ SameCounters(b6, b7)
          /\ b7.at = b6.at
        BY <2>0, <2>1, <2>2, FillStep
    <2> QED BY <1>fb6, <2>3 DEF SameCounters
<1>7. b.db = e
    BY <1>1, <1>e, <1>fb7
<1> QED BY <1>1, <1>2, <1>7, <1>g, <1>fb7

(* Which groups of columns a round of Trade-Lookup 1 fills for its trade:  *)
(* client.                                                                 *)
LEMMA ClientTLF1Fills ==
    ASSUME NEW acc, IsAcc(acc), IsArr(acc.arr), acc.at = "body", IsDb(acc.db),
           NEW t, NEW k, NEW in,
           NEW b, Body("client", "TLF1", acc, t, k, in) = b
    PROVE  Filled("client", acc, b, Groups, b.db, t, k) /\ SameRows("TLF1", acc.db, b.db)
<1> DEFINE b1 == IF Exists(t) THEN [acc EXCEPT !.nf = @ + 1] ELSE acc
           c2 == Exists(t)
           b2 == PutIf(c2, b1, "trade", k, TradeRow(b1.db, t))
           c3 == Settled(b2.db, t)
           b3 == PutIf(c3, b2, "settlement", k, SettlementRow(b2.db, t))
           c4 == Exists(t) /\ Trade[t].is_cash /\ Paid(b3.db, t)
           b4 == PutIf(c4, b3, "cash", k, CashRow(b3.db, t))
           c5 == Past(b3.db, t) # <<>>
           b5 == PutIf(c5, b4, "history", k, HistoryRows(b3.db, t))
<1> DEFINE G0 == {}
           G1 == G0 \cup {"trade"}
           G2 == G1 \cup {"settlement"}
           G3 == G2 \cup {"cash"}
           G4 == G3 \cup {"history"}
           e == acc.db
<1>1. b = b5
    BY DEF Body, ClientTLF1Trade, ClientTLF1More, b1, b2, b3, b4, b5, c2, c3, c4, c5
<1>db1. (IF Exists(t) THEN [acc EXCEPT !.nf = @ + 1] ELSE acc) = b1
    BY DEF b1
<1>db2. (PutIf(c2, b1, "trade", k, TradeRow(b1.db, t))) = b2
    BY DEF b2
<1>db3. (PutIf(c3, b2, "settlement", k, SettlementRow(b2.db, t))) = b3
    BY DEF b3
<1>db4. (PutIf(c4, b3, "cash", k, CashRow(b3.db, t))) = b4
    BY DEF b4
<1>db5. (PutIf(c5, b4, "history", k, HistoryRows(b3.db, t))) = b5
    BY DEF b5
<1>e. e = acc.db
    OBVIOUS
<1>g. /\ Joins(G0, "trade", G1) /\ Joins(G1, "settlement", G2)
      /\ Joins(G2, "cash", G3) /\ Joins(G3, "history", G4)
      /\ G4 = Groups /\ G0 = {}
    BY DEF Groups, Joins
<1> HIDE DEF b1, b2, b3, b4, b5, c2, c3, c4, c5, G0, G1, G2, G3, G4, e
<1>2. SameRows("TLF1", acc.db, e)
    BY <1>e DEF SameRows
<1>3. RowsKept("TLF1", acc.db, e, t)
    BY <1>2, RowsOfTrade
<1>4. Has(e, t) => /\ Exists(t) /\ Settled(e, t) /\ Past(e, t) # <<>>
                   /\ (Trade[t].is_cash <=> Paid(e, t)) /\ Trade[t].is_cash \in BOOLEAN
    BY HasRows
<1>5. CellsOf(e, t)
    BY DEF CellsOf, Cell, Real
<1>6. \A g \in Groups : Skips("client", g, t) <=> g = "cash" /\ ~Trade[t].is_cash
    BY DEF Skips
<1>f0. Filled("client", acc, acc, G0, e, t, k) /\ acc.db = acc.db /\ (acc.at = "body" => TRUE)
    BY <1>g, FillStart
<1>fb1.
      /\ Filled("client", acc, b1, G0, e, t, k) /\ b1.db = acc.db
      /\ b1.at = "body" => TRUE
    <2>1. IsAcc(b1) /\ b1.arr = acc.arr /\ b1.at = acc.at /\ b1.db = acc.db
        BY <1>db1 DEF IsAcc
    <2>2. Filled("client", acc, b1, G0, e, t, k)
        BY <1>f0, <2>1, ChangeStep
    <2> QED BY <1>f0, <2>1, <2>2
<1>fb2.
      /\ Filled("client", acc, b2, G1, e, t, k) /\ b2.db = acc.db
      /\ b2.at = "body" => TRUE
    <2>0. /\ Filled("client", acc, b1, G0, e, t, k) /\ PutIf(c2, b1, "trade", k, TradeRow(b1.db, t)) = b2
          /\ Joins(G0, "trade", G1)
        BY <1>fb1, <1>g, <1>db2
    <2>1. b1.at = "body" /\ (c2) =>
              TradeRow(b1.db, t) = Cell(e, "trade", t) /\ (OnlyReal("client", "trade") => Real(e, "trade", t))
        BY <1>fb1, <1>e, <1>3, <1>5 DEF OnlyReal, c2, RowsKept, CellsOf
    <2>2. Has(e, t) => ((c2) <=> ~Skips("client", "trade", t))
        BY <1>fb1, <1>e, <1>g, <1>3, <1>4, <1>6 DEF c2, Joins, RowsKept
    <2>3.
          /\ Filled("client", acc, b2, G1, e, t, k) /\ SameCounters(b1, b2)
          /\ b2.at = b1.at
        BY <2>0, <2>1, <2>2, FillStep
    <2> QED BY <1>fb1, <2>3 DEF SameCounters
<1>fb3.
      /\ Filled("client", acc, b3, G2, e, t, k) /\ b3.db = acc.db
      /\ b3.at = "body" => TRUE
    <2>0. /\ Filled("client", acc, b2, G1, e, t, k) /\ PutIf(c3, b2, "settlement", k, SettlementRow(b2.db, t)) = b3
          /\ Joins(G1, "settlement", G2)
        BY <1>fb2, <1>g, <1>db3
    <2>1. b2.at = "body" /\ (c3) =>
              SettlementRow(b2.db, t) = Cell(e, "settlement", t) /\ (OnlyReal("client", "settlement") => Real(e, "settlement", t))
        BY <1>fb2, <1>fb1, <1>e, <1>3, <1>5 DEF OnlyReal, c3, RowsKept, CellsOf
    <2>2. Has(e, t) => ((c3) <=> ~Skips("client", "settlement", t))
        BY <1>fb2, <1>fb1, <1>e, <1>g, <1>3, <1>4, <1>6 DEF c3, Joins, RowsKept
    <2>3.
          /\ Filled("client", acc, b3, G2, e, t, k) /\ SameCounters(b2, b3)
          /\ b3.at = b2.at
        BY <2>0, <2>1, <2>2, FillStep
    <2> QED BY <1>fb2, <2>3 DEF SameCounters
<1>fb4.
      /\ Filled("client", acc, b4, G3, e, t, k) /\ b4.db = acc.db
      /\ b4.at = "body" => TRUE
    <2>0. /\ Filled("client", acc, b3, G2, e, t, k) /\ PutIf(c4, b3, "cash", k, CashRow(b3.db, t)) = b4
          /\ Joins(G2, "cash", G3)
        BY <1>fb3, <1>g, <1>db4
    <2>1. b3.at = "body" /\ (c4) =>
              CashRow(b3.db, t) = Cell(e, "cash", t) /\ (OnlyReal("client", "cash") => Real(e, "cash", t))
        BY <1>fb3, <1>fb1, <1>fb2, <1>e, <1>3, <1>5 DEF OnlyReal, c4, RowsKept, CellsOf
    <2>2. Has(e, t) => ((c4) <=> ~Skips("client", "cash", t))
        BY <1>fb3, <1>fb1, <1>fb2, <1>e, <1>g, <1>3, <1>4, <1>6 DEF c4, Joins, RowsKept
    <2>3.
          /\ Filled("client", acc, b4, G3, e, t, k) /\ SameCounters(b3, b4)
          /\ b4.at = b3.at
        BY <2>0, <2>1, <2>2, FillStep
    <2> QED BY <1>fb3, <2>3 DEF SameCounters
<1>fb5.
      /\ Filled("client", acc, b5, G4, e, t, k) /\ b5.db = acc.db
      /\ b5.at = "body" => TRUE
    <2>0. /\ Filled("client", acc, b4, G3, e, t, k) /\ PutIf(c5, b4, "history", k, HistoryRows(b3.db, t)) = b5
          /\ Joins(G3, "history", G4)
        BY <1>fb4, <1>g, <1>db5
    <2>1. b4.at = "body" /\ (c5) =>
              HistoryRows(b3.db, t) = Cell(e, "history", t) /\ (OnlyReal("client", "history") => Real(e, "history", t))
        BY <1>fb4, <1>fb1, <1>fb2, <1>fb3, <1>e, <1>3, <1>5 DEF OnlyReal, c5, RowsKept, CellsOf
    <2>2. Has(e, t) => ((c5) <=> ~Skips("client", "history", t))
        BY <1>fb4, <1>fb1, <1>fb2, <1>fb3, <1>e, <1>g, <1>3, <1>4, <1>6 DEF c5, Joins, RowsKept
    <2>3.
          /\ Filled("client", acc, b5, G4, e, t, k) /\ SameCounters(b4, b5)
          /\ b5.at = b4.at
        BY <2>0, <2>1, <2>2, FillStep
    <2> QED BY <1>fb4, <2>3 DEF SameCounters
<1>7. b.db = e
    BY <1>1, <1>e, <1>fb5
<1> QED BY <1>1, <1>2, <1>7, <1>g, <1>fb5

(* Which groups of columns a round of Trade-Lookup 2 fills for its trade:  *)
(* client.                                                                 *)
LEMMA ClientTLF2Fills ==
    ASSUME NEW acc, IsAcc(acc), IsArr(acc.arr), acc.at = "body", IsDb(acc.db),
           NEW t, NEW k, NEW in, Exists(t),
           NEW b, Body("client", "TLF2", acc, t, k, in) = b
    PROVE  Filled("client", acc, b, Groups, b.db, t, k) /\ SameRows("TLF2", acc.db, b.db)
<1> DEFINE c1 == TRUE
           b1 == PutIf(c1, acc, "trade", k, TradeRow(acc.db, t))
           c2 == Settled(b1.db, t)
           b2 == PutIf(c2, b1, "settlement", k, SettlementRow(b1.db, t))
           c3 == Trade[t].is_cash /\ Paid(b2.db, t)
           b3 == PutIf(c3, b2, "cash", k, CashRow(b2.db, t))
           c4 == Past(acc.db, t) # <<>>
           b4 == PutIf(c4, b3, "history", k, HistoryRows(acc.db, t))
<1> DEFINE G0 == {}
           G1 == G0 \cup {"trade"}
           G2 == G1 \cup {"settlement"}
           G3 == G2 \cup {"cash"}
           G4 == G3 \cup {"history"}
           e == acc.db
<1>1. b = b4
    BY DEF Body, ClientTLF2Row, b1, b2, b3, b4, c1, c2, c3, c4
<1>db1. (PutIf(c1, acc, "trade", k, TradeRow(acc.db, t))) = b1
    BY DEF b1
<1>db2. (PutIf(c2, b1, "settlement", k, SettlementRow(b1.db, t))) = b2
    BY DEF b2
<1>db3. (PutIf(c3, b2, "cash", k, CashRow(b2.db, t))) = b3
    BY DEF b3
<1>db4. (PutIf(c4, b3, "history", k, HistoryRows(acc.db, t))) = b4
    BY DEF b4
<1>e. e = acc.db
    OBVIOUS
<1>g. /\ Joins(G0, "trade", G1) /\ Joins(G1, "settlement", G2)
      /\ Joins(G2, "cash", G3) /\ Joins(G3, "history", G4)
      /\ G4 = Groups /\ G0 = {}
    BY DEF Groups, Joins
<1> HIDE DEF b1, b2, b3, b4, c1, c2, c3, c4, G0, G1, G2, G3, G4, e
<1>2. SameRows("TLF2", acc.db, e)
    BY <1>e DEF SameRows
<1>3. RowsKept("TLF2", acc.db, e, t)
    BY <1>2, RowsOfTrade
<1>4. Has(e, t) => /\ Exists(t) /\ Settled(e, t) /\ Past(e, t) # <<>>
                   /\ (Trade[t].is_cash <=> Paid(e, t)) /\ Trade[t].is_cash \in BOOLEAN
    BY HasRows
<1>5. CellsOf(e, t)
    BY DEF CellsOf, Cell, Real
<1>6. \A g \in Groups : Skips("client", g, t) <=> g = "cash" /\ ~Trade[t].is_cash
    BY DEF Skips
<1>f0. Filled("client", acc, acc, G0, e, t, k) /\ acc.db = acc.db /\ (acc.at = "body" => TRUE)
    BY <1>g, FillStart
<1>fb1.
      /\ Filled("client", acc, b1, G1, e, t, k) /\ b1.db = acc.db
      /\ b1.at = "body" => (Exists(t))
    <2>0. /\ Filled("client", acc, acc, G0, e, t, k) /\ PutIf(c1, acc, "trade", k, TradeRow(acc.db, t)) = b1
          /\ Joins(G0, "trade", G1)
        BY <1>f0, <1>g, <1>db1
    <2>1. acc.at = "body" /\ (c1) =>
              TradeRow(acc.db, t) = Cell(e, "trade", t) /\ (OnlyReal("client", "trade") => Real(e, "trade", t))
        BY <1>f0, <1>e, <1>3, <1>5 DEF OnlyReal, c1, RowsKept, CellsOf
    <2>2. Has(e, t) => ((c1) <=> ~Skips("client", "trade", t))
        BY <1>f0, <1>e, <1>g, <1>3, <1>4, <1>6 DEF c1, Joins, RowsKept
    <2>3.
          /\ Filled("client", acc, b1, G1, e, t, k) /\ SameCounters(acc, b1)
          /\ b1.at = acc.at
        BY <2>0, <2>1, <2>2, FillStep
    <2> QED BY <1>f0, <2>3 DEF SameCounters
<1>fb2.
      /\ Filled("client", acc, b2, G2, e, t, k) /\ b2.db = acc.db
      /\ b2.at = "body" => (Exists(t))
    <2>0. /\ Filled("client", acc, b1, G1, e, t, k) /\ PutIf(c2, b1, "settlement", k, SettlementRow(b1.db, t)) = b2
          /\ Joins(G1, "settlement", G2)
        BY <1>fb1, <1>g, <1>db2
    <2>1. b1.at = "body" /\ (c2) =>
              SettlementRow(b1.db, t) = Cell(e, "settlement", t) /\ (OnlyReal("client", "settlement") => Real(e, "settlement", t))
        BY <1>fb1, <1>e, <1>3, <1>5 DEF OnlyReal, c2, RowsKept, CellsOf
    <2>2. Has(e, t) => ((c2) <=> ~Skips("client", "settlement", t))
        BY <1>fb1, <1>e, <1>g, <1>3, <1>4, <1>6 DEF c2, Joins, RowsKept
    <2>3.
          /\ Filled("client", acc, b2, G2, e, t, k) /\ SameCounters(b1, b2)
          /\ b2.at = b1.at
        BY <2>0, <2>1, <2>2, FillStep
    <2> QED BY <1>fb1, <2>3 DEF SameCounters
<1>fb3.
      /\ Filled("client", acc, b3, G3, e, t, k) /\ b3.db = acc.db
      /\ b3.at = "body" => (Exists(t))
    <2>0. /\ Filled("client", acc, b2, G2, e, t, k) /\ PutIf(c3, b2, "cash", k, CashRow(b2.db, t)) = b3
          /\ Joins(G2, "cash", G3)
        BY <1>fb2, <1>g, <1>db3
    <2>1. b2.at = "body" /\ (c3) =>
              CashRow(b2.db, t) = Cell(e, "cash", t) /\ (OnlyReal("client", "cash") => Real(e, "cash", t))
        BY <1>fb2, <1>fb1, <1>e, <1>3, <1>5 DEF OnlyReal, c3, RowsKept, CellsOf
    <2>2. Has(e, t) => ((c3) <=> ~Skips("client", "cash", t))
        BY <1>fb2, <1>fb1, <1>e, <1>g, <1>3, <1>4, <1>6 DEF c3, Joins, RowsKept
    <2>3.
          /\ Filled("client", acc, b3, G3, e, t, k) /\ SameCounters(b2, b3)
          /\ b3.at = b2.at
        BY <2>0, <2>1, <2>2, FillStep
    <2> QED BY <1>fb2, <2>3 DEF SameCounters
<1>fb4.
      /\ Filled("client", acc, b4, G4, e, t, k) /\ b4.db = acc.db
      /\ b4.at = "body" => (Exists(t))
    <2>0. /\ Filled("client", acc, b3, G3, e, t, k) /\ PutIf(c4, b3, "history", k, HistoryRows(acc.db, t)) = b4
          /\ Joins(G3, "history", G4)
        BY <1>fb3, <1>g, <1>db4
    <2>1. b3.at = "body" /\ (c4) =>
              HistoryRows(acc.db, t) = Cell(e, "history", t) /\ (OnlyReal("client", "history") => Real(e, "history", t))
        BY <1>fb3, <1>fb1, <1>fb2, <1>e, <1>3, <1>5 DEF OnlyReal, c4, RowsKept, CellsOf
    <2>2. Has(e, t) => ((c4) <=> ~Skips("client", "history", t))
        BY <1>fb3, <1>fb1, <1>fb2, <1>e, <1>g, <1>3, <1>4, <1>6 DEF c4, Joins, RowsKept
    <2>3.
          /\ Filled("client", acc, b4, G4, e, t, k) /\ SameCounters(b3, b4)
          /\ b4.at = b3.at
        BY <2>0, <2>1, <2>2, FillStep
    <2> QED BY <1>fb3, <2>3 DEF SameCounters
<1>7. b.db = e
    BY <1>1, <1>e, <1>fb4
<1> QED BY <1>1, <1>2, <1>7, <1>g, <1>fb4

(* Which groups of columns a round of Trade-Lookup 3 fills for its trade:  *)
(* client.                                                                 *)
LEMMA ClientTLF3Fills ==
    ASSUME NEW acc, IsAcc(acc), IsArr(acc.arr), acc.at = "body", IsDb(acc.db),
           NEW t, NEW k, NEW in, Exists(t),
           NEW b, Body("client", "TLF3", acc, t, k, in) = b
    PROVE  Filled("client", acc, b, Groups, b.db, t, k) /\ SameRows("TLF3", acc.db, b.db)
<1> DEFINE c1 == TRUE
           b1 == PutIf(c1, acc, "trade", k, TradeRow(acc.db, t))
           c2 == Settled(b1.db, t)
           b2 == PutIf(c2, b1, "settlement", k, SettlementRow(b1.db, t))
           c3 == Trade[t].is_cash /\ Paid(b2.db, t)
           b3 == PutIf(c3, b2, "cash", k, CashRow(b2.db, t))
           c4 == Past(acc.db, t) # <<>>
           b4 == PutIf(c4, b3, "history", k, HistoryRows(acc.db, t))
<1> DEFINE G0 == {}
           G1 == G0 \cup {"trade"}
           G2 == G1 \cup {"settlement"}
           G3 == G2 \cup {"cash"}
           G4 == G3 \cup {"history"}
           e == acc.db
<1>1. b = b4
    BY DEF Body, ClientTLF3Row, b1, b2, b3, b4, c1, c2, c3, c4
<1>db1. (PutIf(c1, acc, "trade", k, TradeRow(acc.db, t))) = b1
    BY DEF b1
<1>db2. (PutIf(c2, b1, "settlement", k, SettlementRow(b1.db, t))) = b2
    BY DEF b2
<1>db3. (PutIf(c3, b2, "cash", k, CashRow(b2.db, t))) = b3
    BY DEF b3
<1>db4. (PutIf(c4, b3, "history", k, HistoryRows(acc.db, t))) = b4
    BY DEF b4
<1>e. e = acc.db
    OBVIOUS
<1>g. /\ Joins(G0, "trade", G1) /\ Joins(G1, "settlement", G2)
      /\ Joins(G2, "cash", G3) /\ Joins(G3, "history", G4)
      /\ G4 = Groups /\ G0 = {}
    BY DEF Groups, Joins
<1> HIDE DEF b1, b2, b3, b4, c1, c2, c3, c4, G0, G1, G2, G3, G4, e
<1>2. SameRows("TLF3", acc.db, e)
    BY <1>e DEF SameRows
<1>3. RowsKept("TLF3", acc.db, e, t)
    BY <1>2, RowsOfTrade
<1>4. Has(e, t) => /\ Exists(t) /\ Settled(e, t) /\ Past(e, t) # <<>>
                   /\ (Trade[t].is_cash <=> Paid(e, t)) /\ Trade[t].is_cash \in BOOLEAN
    BY HasRows
<1>5. CellsOf(e, t)
    BY DEF CellsOf, Cell, Real
<1>6. \A g \in Groups : Skips("client", g, t) <=> g = "cash" /\ ~Trade[t].is_cash
    BY DEF Skips
<1>f0. Filled("client", acc, acc, G0, e, t, k) /\ acc.db = acc.db /\ (acc.at = "body" => TRUE)
    BY <1>g, FillStart
<1>fb1.
      /\ Filled("client", acc, b1, G1, e, t, k) /\ b1.db = acc.db
      /\ b1.at = "body" => (Exists(t))
    <2>0. /\ Filled("client", acc, acc, G0, e, t, k) /\ PutIf(c1, acc, "trade", k, TradeRow(acc.db, t)) = b1
          /\ Joins(G0, "trade", G1)
        BY <1>f0, <1>g, <1>db1
    <2>1. acc.at = "body" /\ (c1) =>
              TradeRow(acc.db, t) = Cell(e, "trade", t) /\ (OnlyReal("client", "trade") => Real(e, "trade", t))
        BY <1>f0, <1>e, <1>3, <1>5 DEF OnlyReal, c1, RowsKept, CellsOf
    <2>2. Has(e, t) => ((c1) <=> ~Skips("client", "trade", t))
        BY <1>f0, <1>e, <1>g, <1>3, <1>4, <1>6 DEF c1, Joins, RowsKept
    <2>3.
          /\ Filled("client", acc, b1, G1, e, t, k) /\ SameCounters(acc, b1)
          /\ b1.at = acc.at
        BY <2>0, <2>1, <2>2, FillStep
    <2> QED BY <1>f0, <2>3 DEF SameCounters
<1>fb2.
      /\ Filled("client", acc, b2, G2, e, t, k) /\ b2.db = acc.db
      /\ b2.at = "body" => (Exists(t))
    <2>0. /\ Filled("client", acc, b1, G1, e, t, k) /\ PutIf(c2, b1, "settlement", k, SettlementRow(b1.db, t)) = b2
          /\ Joins(G1, "settlement", G2)
        BY <1>fb1, <1>g, <1>db2
    <2>1. b1.at = "body" /\ (c2) =>
              SettlementRow(b1.db, t) = Cell(e, "settlement", t) /\ (OnlyReal("client", "settlement") => Real(e, "settlement", t))
        BY <1>fb1, <1>e, <1>3, <1>5 DEF OnlyReal, c2, RowsKept, CellsOf
    <2>2. Has(e, t) => ((c2) <=> ~Skips("client", "settlement", t))
        BY <1>fb1, <1>e, <1>g, <1>3, <1>4, <1>6 DEF c2, Joins, RowsKept
    <2>3.
          /\ Filled("client", acc, b2, G2, e, t, k) /\ SameCounters(b1, b2)
          /\ b2.at = b1.at
        BY <2>0, <2>1, <2>2, FillStep
    <2> QED BY <1>fb1, <2>3 DEF SameCounters
<1>fb3.
      /\ Filled("client", acc, b3, G3, e, t, k) /\ b3.db = acc.db
      /\ b3.at = "body" => (Exists(t))
    <2>0. /\ Filled("client", acc, b2, G2, e, t, k) /\ PutIf(c3, b2, "cash", k, CashRow(b2.db, t)) = b3
          /\ Joins(G2, "cash", G3)
        BY <1>fb2, <1>g, <1>db3
    <2>1. b2.at = "body" /\ (c3) =>
              CashRow(b2.db, t) = Cell(e, "cash", t) /\ (OnlyReal("client", "cash") => Real(e, "cash", t))
        BY <1>fb2, <1>fb1, <1>e, <1>3, <1>5 DEF OnlyReal, c3, RowsKept, CellsOf
    <2>2. Has(e, t) => ((c3) <=> ~Skips("client", "cash", t))
        BY <1>fb2, <1>fb1, <1>e, <1>g, <1>3, <1>4, <1>6 DEF c3, Joins, RowsKept
    <2>3.
          /\ Filled("client", acc, b3, G3, e, t, k) /\ SameCounters(b2, b3)
          /\ b3.at = b2.at
        BY <2>0, <2>1, <2>2, FillStep
    <2> QED BY <1>fb2, <2>3 DEF SameCounters
<1>fb4.
      /\ Filled("client", acc, b4, G4, e, t, k) /\ b4.db = acc.db
      /\ b4.at = "body" => (Exists(t))
    <2>0. /\ Filled("client", acc, b3, G3, e, t, k) /\ PutIf(c4, b3, "history", k, HistoryRows(acc.db, t)) = b4
          /\ Joins(G3, "history", G4)
        BY <1>fb3, <1>g, <1>db4
    <2>1. b3.at = "body" /\ (c4) =>
              HistoryRows(acc.db, t) = Cell(e, "history", t) /\ (OnlyReal("client", "history") => Real(e, "history", t))
        BY <1>fb3, <1>fb1, <1>fb2, <1>e, <1>3, <1>5 DEF OnlyReal, c4, RowsKept, CellsOf
    <2>2. Has(e, t) => ((c4) <=> ~Skips("client", "history", t))
        BY <1>fb3, <1>fb1, <1>fb2, <1>e, <1>g, <1>3, <1>4, <1>6 DEF c4, Joins, RowsKept
    <2>3.
          /\ Filled("client", acc, b4, G4, e, t, k) /\ SameCounters(b3, b4)
          /\ b4.at = b3.at
        BY <2>0, <2>1, <2>2, FillStep
    <2> QED BY <1>fb3, <2>3 DEF SameCounters
<1>7. b.db = e
    BY <1>1, <1>e, <1>fb4
<1> QED BY <1>1, <1>2, <1>7, <1>g, <1>fb4

(* Which groups of columns a round of Trade-Update 1 fills for its trade:  *)
(* plpgsql.                                                                *)
LEMMA PlpgsqlTUF1Fills ==
    ASSUME NEW acc, IsAcc(acc), IsArr(acc.arr), acc.at = "body", IsDb(acc.db),
           NEW t, NEW k, NEW in,
           NEW b, Body("plpgsql", "TUF1", acc, t, k, in) = b
    PROVE  Filled("plpgsql", acc, b, Groups, b.db, t, k) /\ SameRows("TUF1", acc.db, b.db)
<1> DEFINE b1 == IF acc.nu < in.max_updates /\ Exists(t) THEN SetExec(acc, t) ELSE acc
           c2 == Exists(t)
           b2 == PutIf(c2, b1, "trade", k, TradeRow(b1.db, t))
           c3 == Settled(b2.db, t)
           b3 == PutIf(c3, b2, "settlement", k, SettlementRow(b2.db, t))
           c4 == TRUE
           v4 == IF Exists(t) /\ Trade[t].is_cash /\ Paid(b3.db, t) THEN CashRow(b3.db, t) ELSE Null
           b4 == PutIf(c4, b3, "cash", k, v4)
           c5 == TRUE
           b5 == PutIf(c5, b4, "history", k, HistoryRows(b1.db, t))
<1> DEFINE G0 == {}
           G1 == G0 \cup {"trade"}
           G2 == G1 \cup {"settlement"}
           G3 == G2 \cup {"cash"}
           G4 == G3 \cup {"history"}
           e == b1.db
<1>1. b = b5
    BY DEF Body, PlpgsqlTUF1Toggle, PlpgsqlTUF1Read, b1, b2, b3, b4, b5, c2, c3, c4, v4, c5
<1>db1. (IF acc.nu < in.max_updates /\ Exists(t) THEN SetExec(acc, t) ELSE acc) = b1
    BY DEF b1
<1>db2. (PutIf(c2, b1, "trade", k, TradeRow(b1.db, t))) = b2
    BY DEF b2
<1>db3. (PutIf(c3, b2, "settlement", k, SettlementRow(b2.db, t))) = b3
    BY DEF b3
<1>db4. (PutIf(c4, b3, "cash", k, v4)) = b4
    BY DEF b4
<1>vb4. v4 = IF Exists(t) /\ Trade[t].is_cash /\ Paid(b3.db, t) THEN CashRow(b3.db, t) ELSE Null
    OBVIOUS
<1>db5. (PutIf(c5, b4, "history", k, HistoryRows(b1.db, t))) = b5
    BY DEF b5
<1>e. e = b1.db
    OBVIOUS
<1>g. /\ Joins(G0, "trade", G1) /\ Joins(G1, "settlement", G2)
      /\ Joins(G2, "cash", G3) /\ Joins(G3, "history", G4)
      /\ G4 = Groups /\ G0 = {}
    BY DEF Groups, Joins
<1> HIDE DEF b1, b2, b3, b4, b5, c2, c3, c4, v4, c5, G0, G1, G2, G3, G4, e
<1>c0. IsAcc(acc) /\ IsArr(acc.arr) /\ acc.db = acc.db
    OBVIOUS
<1>t. Changed("TUF1", acc, b1)
    BY <1>c0, <1>db1, SetExecChanges
<1>2. SameRows("TUF1", acc.db, e)
    BY <1>c0, <1>e, <1>t DEF Changed
<1>3. RowsKept("TUF1", acc.db, e, t)
    BY <1>2, RowsOfTrade
<1>4. Has(e, t) => /\ Exists(t) /\ Settled(e, t) /\ Past(e, t) # <<>>
                   /\ (Trade[t].is_cash <=> Paid(e, t)) /\ Trade[t].is_cash \in BOOLEAN
    BY HasRows
<1>5. CellsOf(e, t)
    BY DEF CellsOf, Cell, Real
<1>6. \A g \in Groups : Skips("plpgsql", g, t) <=> FALSE
    BY DEF Skips
<1>f0. Filled("plpgsql", acc, acc, G0, e, t, k) /\ acc.db = acc.db /\ (acc.at = "body" => TRUE)
    BY <1>g, FillStart
<1>fb1.
      /\ Filled("plpgsql", acc, b1, G0, e, t, k) /\ b1.db = e
      /\ b1.at = "body" => TRUE
    <2>1. IsAcc(b1) /\ b1.arr = acc.arr /\ b1.at = acc.at
        BY <1>t DEF Changed
    <2>2. Filled("plpgsql", acc, b1, G0, e, t, k)
        BY <1>f0, <2>1, ChangeStep
    <2> QED BY <1>f0, <1>e, <2>1, <2>2
<1>fb2.
      /\ Filled("plpgsql", acc, b2, G1, e, t, k) /\ b2.db = e
      /\ b2.at = "body" => TRUE
    <2>0. /\ Filled("plpgsql", acc, b1, G0, e, t, k) /\ PutIf(c2, b1, "trade", k, TradeRow(b1.db, t)) = b2
          /\ Joins(G0, "trade", G1)
        BY <1>fb1, <1>g, <1>db2
    <2>1. b1.at = "body" /\ (c2) =>
              TradeRow(b1.db, t) = Cell(e, "trade", t) /\ (OnlyReal("plpgsql", "trade") => Real(e, "trade", t))
        BY <1>fb1, <1>e, <1>3, <1>5 DEF OnlyReal, c2, RowsKept, CellsOf
    <2>2. Has(e, t) => ((c2) <=> ~Skips("plpgsql", "trade", t))
        BY <1>fb1, <1>e, <1>g, <1>3, <1>4, <1>6 DEF c2, Joins, RowsKept
    <2>3.
          /\ Filled("plpgsql", acc, b2, G1, e, t, k) /\ SameCounters(b1, b2)
          /\ b2.at = b1.at
        BY <2>0, <2>1, <2>2, FillStep
    <2> QED BY <1>fb1, <2>3 DEF SameCounters
<1>fb3.
      /\ Filled("plpgsql", acc, b3, G2, e, t, k) /\ b3.db = e
      /\ b3.at = "body" => TRUE
    <2>0. /\ Filled("plpgsql", acc, b2, G1, e, t, k) /\ PutIf(c3, b2, "settlement", k, SettlementRow(b2.db, t)) = b3
          /\ Joins(G1, "settlement", G2)
        BY <1>fb2, <1>g, <1>db3
    <2>1. b2.at = "body" /\ (c3) =>
              SettlementRow(b2.db, t) = Cell(e, "settlement", t) /\ (OnlyReal("plpgsql", "settlement") => Real(e, "settlement", t))
        BY <1>fb2, <1>fb1, <1>e, <1>3, <1>5 DEF OnlyReal, c3, RowsKept, CellsOf
    <2>2. Has(e, t) => ((c3) <=> ~Skips("plpgsql", "settlement", t))
        BY <1>fb2, <1>fb1, <1>e, <1>g, <1>3, <1>4, <1>6 DEF c3, Joins, RowsKept
    <2>3.
          /\ Filled("plpgsql", acc, b3, G2, e, t, k) /\ SameCounters(b2, b3)
          /\ b3.at = b2.at
        BY <2>0, <2>1, <2>2, FillStep
    <2> QED BY <1>fb2, <2>3 DEF SameCounters
<1>fb4.
      /\ Filled("plpgsql", acc, b4, G3, e, t, k) /\ b4.db = e
      /\ b4.at = "body" => TRUE
    <2>0. /\ Filled("plpgsql", acc, b3, G2, e, t, k) /\ PutIf(c4, b3, "cash", k, v4) = b4
          /\ Joins(G2, "cash", G3)
        BY <1>fb3, <1>g, <1>db4
    <2>1. b3.at = "body" /\ (c4) =>
              v4 = Cell(e, "cash", t) /\ (OnlyReal("plpgsql", "cash") => Real(e, "cash", t))
        BY <1>fb3, <1>fb1, <1>fb2, <1>vb4, <1>e, <1>3, <1>5 DEF OnlyReal, c4, RowsKept, CellsOf
    <2>2. Has(e, t) => ((c4) <=> ~Skips("plpgsql", "cash", t))
        BY <1>fb3, <1>fb1, <1>fb2, <1>vb4, <1>e, <1>g, <1>3, <1>4, <1>6 DEF c4, Joins, RowsKept
    <2>3.
          /\ Filled("plpgsql", acc, b4, G3, e, t, k) /\ SameCounters(b3, b4)
          /\ b4.at = b3.at
        BY <2>0, <2>1, <2>2, FillStep
    <2> QED BY <1>fb3, <2>3 DEF SameCounters
<1>fb5.
      /\ Filled("plpgsql", acc, b5, G4, e, t, k) /\ b5.db = e
      /\ b5.at = "body" => TRUE
    <2>0. /\ Filled("plpgsql", acc, b4, G3, e, t, k) /\ PutIf(c5, b4, "history", k, HistoryRows(b1.db, t)) = b5
          /\ Joins(G3, "history", G4)
        BY <1>fb4, <1>g, <1>db5
    <2>1. b4.at = "body" /\ (c5) =>
              HistoryRows(b1.db, t) = Cell(e, "history", t) /\ (OnlyReal("plpgsql", "history") => Real(e, "history", t))
        BY <1>fb4, <1>fb1, <1>fb2, <1>fb3, <1>e, <1>3, <1>5 DEF OnlyReal, c5, RowsKept, CellsOf
    <2>2. Has(e, t) => ((c5) <=> ~Skips("plpgsql", "history", t))
        BY <1>fb4, <1>fb1, <1>fb2, <1>fb3, <1>e, <1>g, <1>3, <1>4, <1>6 DEF c5, Joins, RowsKept
    <2>3.
          /\ Filled("plpgsql", acc, b5, G4, e, t, k) /\ SameCounters(b4, b5)
          /\ b5.at = b4.at
        BY <2>0, <2>1, <2>2, FillStep
    <2> QED BY <1>fb4, <2>3 DEF SameCounters
<1>7. b.db = e
    BY <1>1, <1>e, <1>fb5
<1> QED BY <1>1, <1>2, <1>7, <1>g, <1>fb5

(* Which groups of columns a round of Trade-Update 2 fills for its trade:  *)
(* plpgsql.                                                                *)
LEMMA PlpgsqlTUF2Fills ==
    ASSUME NEW acc, IsAcc(acc), IsArr(acc.arr), acc.at = "body", IsDb(acc.db),
           NEW t, NEW k, NEW in, Exists(t),
           NEW b, Body("plpgsql", "TUF2", acc, t, k, in) = b
    PROVE  Filled("plpgsql", acc, b, Groups, b.db, t, k) /\ SameRows("TUF2", acc.db, b.db)
<1> DEFINE c1 == TRUE
           b1 == PutIf(c1, acc, "trade", k, TradeRow(acc.db, t))
           b2 == IF b1.nu < in.max_updates /\ Settled(b1.db, t) THEN SetCashType(b1, t) ELSE b1
           c3 == Settled(b2.db, t)
           b3 == PutIf(c3, b2, "settlement", k, SettlementRow(b2.db, t))
           c4 == TRUE
           v4 == IF Trade[t].is_cash /\ Paid(b3.db, t) THEN CashRow(b3.db, t) ELSE Null
           b4 == PutIf(c4, b3, "cash", k, v4)
           c5 == TRUE
           b5 == PutIf(c5, b4, "history", k, HistoryRows(b2.db, t))
<1> DEFINE G0 == {}
           G1 == G0 \cup {"trade"}
           G2 == G1 \cup {"settlement"}
           G3 == G2 \cup {"cash"}
           G4 == G3 \cup {"history"}
           e == b2.db
<1>1. b = b5
    BY DEF Body, PlpgsqlTUF2Toggle, PlpgsqlTUF2Read, b1, b2, b3, b4, b5, c1, c3, c4, v4, c5
<1>db1. (PutIf(c1, acc, "trade", k, TradeRow(acc.db, t))) = b1
    BY DEF b1
<1>db2. (IF b1.nu < in.max_updates /\ Settled(b1.db, t) THEN SetCashType(b1, t) ELSE b1) = b2
    BY DEF b2
<1>db3. (PutIf(c3, b2, "settlement", k, SettlementRow(b2.db, t))) = b3
    BY DEF b3
<1>db4. (PutIf(c4, b3, "cash", k, v4)) = b4
    BY DEF b4
<1>vb4. v4 = IF Trade[t].is_cash /\ Paid(b3.db, t) THEN CashRow(b3.db, t) ELSE Null
    OBVIOUS
<1>db5. (PutIf(c5, b4, "history", k, HistoryRows(b2.db, t))) = b5
    BY DEF b5
<1>e. e = b2.db
    OBVIOUS
<1>g. /\ Joins(G0, "trade", G1) /\ Joins(G1, "settlement", G2)
      /\ Joins(G2, "cash", G3) /\ Joins(G3, "history", G4)
      /\ G4 = Groups /\ G0 = {}
    BY DEF Groups, Joins
<1> HIDE DEF b1, b2, b3, b4, b5, c1, c3, c4, v4, c5, G0, G1, G2, G3, G4, e
<1>c0. IsAcc(acc) /\ IsArr(acc.arr) /\ acc.db = acc.db
    OBVIOUS
<1>cb1. IsAcc(b1) /\ IsArr(b1.arr) /\ b1.db = acc.db
    <2>1. IsAcc(b1) /\ IsArr(b1.arr) /\ SameCounters(acc, b1)
        BY <1>c0, <1>db1, <1>g, PutFields DEF Joins
    <2> QED BY <1>c0, <2>1 DEF SameCounters
<1>t. Changed("TUF2", b1, b2)
    BY <1>cb1, <1>db2, SetCashTypeChanges
<1>2. SameRows("TUF2", acc.db, e)
    BY <1>cb1, <1>e, <1>t DEF Changed
<1>3. RowsKept("TUF2", acc.db, e, t)
    BY <1>2, RowsOfTrade
<1>4. Has(e, t) => /\ Exists(t) /\ Settled(e, t) /\ Past(e, t) # <<>>
                   /\ (Trade[t].is_cash <=> Paid(e, t)) /\ Trade[t].is_cash \in BOOLEAN
    BY HasRows
<1>5. CellsOf(e, t)
    BY DEF CellsOf, Cell, Real
<1>6. \A g \in Groups : Skips("plpgsql", g, t) <=> FALSE
    BY DEF Skips
<1>f0. Filled("plpgsql", acc, acc, G0, e, t, k) /\ acc.db = acc.db /\ (acc.at = "body" => TRUE)
    BY <1>g, FillStart
<1>fb1.
      /\ Filled("plpgsql", acc, b1, G1, e, t, k) /\ b1.db = acc.db
      /\ b1.at = "body" => (Exists(t))
    <2>0. /\ Filled("plpgsql", acc, acc, G0, e, t, k) /\ PutIf(c1, acc, "trade", k, TradeRow(acc.db, t)) = b1
          /\ Joins(G0, "trade", G1)
        BY <1>f0, <1>g, <1>db1
    <2>1. acc.at = "body" /\ (c1) =>
              TradeRow(acc.db, t) = Cell(e, "trade", t) /\ (OnlyReal("plpgsql", "trade") => Real(e, "trade", t))
        BY <1>f0, <1>e, <1>3, <1>5 DEF OnlyReal, c1, RowsKept, CellsOf
    <2>2. Has(e, t) => ((c1) <=> ~Skips("plpgsql", "trade", t))
        BY <1>f0, <1>e, <1>g, <1>3, <1>4, <1>6 DEF c1, Joins, RowsKept
    <2>3.
          /\ Filled("plpgsql", acc, b1, G1, e, t, k) /\ SameCounters(acc, b1)
          /\ b1.at = acc.at
        BY <2>0, <2>1, <2>2, FillStep
    <2> QED BY <1>f0, <2>3 DEF SameCounters
<1>fb2.
      /\ Filled("plpgsql", acc, b2, G1, e, t, k) /\ b2.db = e
      /\ b2.at = "body" => (Exists(t))
    <2>1. IsAcc(b2) /\ b2.arr = b1.arr /\ b2.at = b1.at
        BY <1>t DEF Changed
    <2>2. Filled("plpgsql", acc, b2, G1, e, t, k)
        BY <1>fb1, <2>1, ChangeStep
    <2> QED BY <1>fb1, <1>e, <2>1, <2>2
<1>fb3.
      /\ Filled("plpgsql", acc, b3, G2, e, t, k) /\ b3.db = e
      /\ b3.at = "body" => (Exists(t))
    <2>0. /\ Filled("plpgsql", acc, b2, G1, e, t, k) /\ PutIf(c3, b2, "settlement", k, SettlementRow(b2.db, t)) = b3
          /\ Joins(G1, "settlement", G2)
        BY <1>fb2, <1>g, <1>db3
    <2>1. b2.at = "body" /\ (c3) =>
              SettlementRow(b2.db, t) = Cell(e, "settlement", t) /\ (OnlyReal("plpgsql", "settlement") => Real(e, "settlement", t))
        BY <1>fb2, <1>fb1, <1>e, <1>3, <1>5 DEF OnlyReal, c3, RowsKept, CellsOf
    <2>2. Has(e, t) => ((c3) <=> ~Skips("plpgsql", "settlement", t))
        BY <1>fb2, <1>fb1, <1>e, <1>g, <1>3, <1>4, <1>6 DEF c3, Joins, RowsKept
    <2>3.
          /\ Filled("plpgsql", acc, b3, G2, e, t, k) /\ SameCounters(b2, b3)
          /\ b3.at = b2.at
        BY <2>0, <2>1, <2>2, FillStep
    <2> QED BY <1>fb2, <2>3 DEF SameCounters
<1>fb4.
      /\ Filled("plpgsql", acc, b4, G3, e, t, k) /\ b4.db = e
      /\ b4.at = "body" => (Exists(t))
    <2>0. /\ Filled("plpgsql", acc, b3, G2, e, t, k) /\ PutIf(c4, b3, "cash", k, v4) = b4
          /\ Joins(G2, "cash", G3)
        BY <1>fb3, <1>g, <1>db4
    <2>1. b3.at = "body" /\ (c4) =>
              v4 = Cell(e, "cash", t) /\ (OnlyReal("plpgsql", "cash") => Real(e, "cash", t))
        BY <1>fb3, <1>fb1, <1>fb2, <1>vb4, <1>e, <1>3, <1>5 DEF OnlyReal, c4, RowsKept, CellsOf
    <2>2. Has(e, t) => ((c4) <=> ~Skips("plpgsql", "cash", t))
        BY <1>fb3, <1>fb1, <1>fb2, <1>vb4, <1>e, <1>g, <1>3, <1>4, <1>6 DEF c4, Joins, RowsKept
    <2>3.
          /\ Filled("plpgsql", acc, b4, G3, e, t, k) /\ SameCounters(b3, b4)
          /\ b4.at = b3.at
        BY <2>0, <2>1, <2>2, FillStep
    <2> QED BY <1>fb3, <2>3 DEF SameCounters
<1>fb5.
      /\ Filled("plpgsql", acc, b5, G4, e, t, k) /\ b5.db = e
      /\ b5.at = "body" => (Exists(t))
    <2>0. /\ Filled("plpgsql", acc, b4, G3, e, t, k) /\ PutIf(c5, b4, "history", k, HistoryRows(b2.db, t)) = b5
          /\ Joins(G3, "history", G4)
        BY <1>fb4, <1>g, <1>db5
    <2>1. b4.at = "body" /\ (c5) =>
              HistoryRows(b2.db, t) = Cell(e, "history", t) /\ (OnlyReal("plpgsql", "history") => Real(e, "history", t))
        BY <1>fb4, <1>fb1, <1>fb2, <1>fb3, <1>e, <1>3, <1>5 DEF OnlyReal, c5, RowsKept, CellsOf
    <2>2. Has(e, t) => ((c5) <=> ~Skips("plpgsql", "history", t))
        BY <1>fb4, <1>fb1, <1>fb2, <1>fb3, <1>e, <1>g, <1>3, <1>4, <1>6 DEF c5, Joins, RowsKept
    <2>3.
          /\ Filled("plpgsql", acc, b5, G4, e, t, k) /\ SameCounters(b4, b5)
          /\ b5.at = b4.at
        BY <2>0, <2>1, <2>2, FillStep
    <2> QED BY <1>fb4, <2>3 DEF SameCounters
<1>7. b.db = e
    BY <1>1, <1>e, <1>fb5
<1> QED BY <1>1, <1>2, <1>7, <1>g, <1>fb5

(* Which groups of columns a round of Trade-Update 3 fills for its trade:  *)
(* plpgsql.                                                                *)
LEMMA PlpgsqlTUF3Fills ==
    ASSUME NEW acc, IsAcc(acc), IsArr(acc.arr), acc.at = "body", IsDb(acc.db),
           NEW t, NEW k, NEW in, Exists(t),
           NEW b, Body("plpgsql", "TUF3", acc, t, k, in) = b
    PROVE  Filled("plpgsql", acc, b, Groups, b.db, t, k) /\ SameRows("TUF3", acc.db, b.db)
<1> DEFINE c1 == TRUE
           b1 == PutIf(c1, acc, "trade", k, TradeRow(acc.db, t))
           c2 == Settled(b1.db, t)
           b2 == PutIf(c2, b1, "settlement", k, SettlementRow(b1.db, t))
           b3 == IF Trade[t].is_cash /\ b2.nu < in.max_updates /\ Paid(b2.db, t) THEN SetCtName(b2, t) ELSE b2
           c4 == TRUE
           v4 == IF Trade[t].is_cash /\ Paid(b3.db, t) THEN CashRow(b3.db, t) ELSE Null
           b4 == PutIf(c4, b3, "cash", k, v4)
           c5 == TRUE
           b5 == PutIf(c5, b4, "history", k, HistoryRows(b3.db, t))
<1> DEFINE G0 == {}
           G1 == G0 \cup {"trade"}
           G2 == G1 \cup {"settlement"}
           G3 == G2 \cup {"cash"}
           G4 == G3 \cup {"history"}
           e == b3.db
<1>1. b = b5
    BY DEF Body, PlpgsqlTUF3Toggle, PlpgsqlTUF3Read, b1, b2, b3, b4, b5, c1, c2, c4, v4, c5
<1>db1. (PutIf(c1, acc, "trade", k, TradeRow(acc.db, t))) = b1
    BY DEF b1
<1>db2. (PutIf(c2, b1, "settlement", k, SettlementRow(b1.db, t))) = b2
    BY DEF b2
<1>db3. (IF Trade[t].is_cash /\ b2.nu < in.max_updates /\ Paid(b2.db, t) THEN SetCtName(b2, t) ELSE b2) = b3
    BY DEF b3
<1>db4. (PutIf(c4, b3, "cash", k, v4)) = b4
    BY DEF b4
<1>vb4. v4 = IF Trade[t].is_cash /\ Paid(b3.db, t) THEN CashRow(b3.db, t) ELSE Null
    OBVIOUS
<1>db5. (PutIf(c5, b4, "history", k, HistoryRows(b3.db, t))) = b5
    BY DEF b5
<1>e. e = b3.db
    OBVIOUS
<1>g. /\ Joins(G0, "trade", G1) /\ Joins(G1, "settlement", G2)
      /\ Joins(G2, "cash", G3) /\ Joins(G3, "history", G4)
      /\ G4 = Groups /\ G0 = {}
    BY DEF Groups, Joins
<1> HIDE DEF b1, b2, b3, b4, b5, c1, c2, c4, v4, c5, G0, G1, G2, G3, G4, e
<1>c0. IsAcc(acc) /\ IsArr(acc.arr) /\ acc.db = acc.db
    OBVIOUS
<1>cb1. IsAcc(b1) /\ IsArr(b1.arr) /\ b1.db = acc.db
    <2>1. IsAcc(b1) /\ IsArr(b1.arr) /\ SameCounters(acc, b1)
        BY <1>c0, <1>db1, <1>g, PutFields DEF Joins
    <2> QED BY <1>c0, <2>1 DEF SameCounters
<1>cb2. IsAcc(b2) /\ IsArr(b2.arr) /\ b2.db = acc.db
    <2>1. IsAcc(b2) /\ IsArr(b2.arr) /\ SameCounters(b1, b2)
        BY <1>cb1, <1>db2, <1>g, PutFields DEF Joins
    <2> QED BY <1>cb1, <2>1 DEF SameCounters
<1>t. Changed("TUF3", b2, b3)
    BY <1>cb2, <1>db3, SetCtNameChanges
<1>2. SameRows("TUF3", acc.db, e)
    BY <1>cb2, <1>e, <1>t DEF Changed
<1>3. RowsKept("TUF3", acc.db, e, t)
    BY <1>2, RowsOfTrade
<1>4. Has(e, t) => /\ Exists(t) /\ Settled(e, t) /\ Past(e, t) # <<>>
                   /\ (Trade[t].is_cash <=> Paid(e, t)) /\ Trade[t].is_cash \in BOOLEAN
    BY HasRows
<1>5. CellsOf(e, t)
    BY DEF CellsOf, Cell, Real
<1>6. \A g \in Groups : Skips("plpgsql", g, t) <=> FALSE
    BY DEF Skips
<1>f0. Filled("plpgsql", acc, acc, G0, e, t, k) /\ acc.db = acc.db /\ (acc.at = "body" => TRUE)
    BY <1>g, FillStart
<1>fb1.
      /\ Filled("plpgsql", acc, b1, G1, e, t, k) /\ b1.db = acc.db
      /\ b1.at = "body" => (Exists(t))
    <2>0. /\ Filled("plpgsql", acc, acc, G0, e, t, k) /\ PutIf(c1, acc, "trade", k, TradeRow(acc.db, t)) = b1
          /\ Joins(G0, "trade", G1)
        BY <1>f0, <1>g, <1>db1
    <2>1. acc.at = "body" /\ (c1) =>
              TradeRow(acc.db, t) = Cell(e, "trade", t) /\ (OnlyReal("plpgsql", "trade") => Real(e, "trade", t))
        BY <1>f0, <1>e, <1>3, <1>5 DEF OnlyReal, c1, RowsKept, CellsOf
    <2>2. Has(e, t) => ((c1) <=> ~Skips("plpgsql", "trade", t))
        BY <1>f0, <1>e, <1>g, <1>3, <1>4, <1>6 DEF c1, Joins, RowsKept
    <2>3.
          /\ Filled("plpgsql", acc, b1, G1, e, t, k) /\ SameCounters(acc, b1)
          /\ b1.at = acc.at
        BY <2>0, <2>1, <2>2, FillStep
    <2> QED BY <1>f0, <2>3 DEF SameCounters
<1>fb2.
      /\ Filled("plpgsql", acc, b2, G2, e, t, k) /\ b2.db = acc.db
      /\ b2.at = "body" => (Exists(t))
    <2>0. /\ Filled("plpgsql", acc, b1, G1, e, t, k) /\ PutIf(c2, b1, "settlement", k, SettlementRow(b1.db, t)) = b2
          /\ Joins(G1, "settlement", G2)
        BY <1>fb1, <1>g, <1>db2
    <2>1. b1.at = "body" /\ (c2) =>
              SettlementRow(b1.db, t) = Cell(e, "settlement", t) /\ (OnlyReal("plpgsql", "settlement") => Real(e, "settlement", t))
        BY <1>fb1, <1>e, <1>3, <1>5 DEF OnlyReal, c2, RowsKept, CellsOf
    <2>2. Has(e, t) => ((c2) <=> ~Skips("plpgsql", "settlement", t))
        BY <1>fb1, <1>e, <1>g, <1>3, <1>4, <1>6 DEF c2, Joins, RowsKept
    <2>3.
          /\ Filled("plpgsql", acc, b2, G2, e, t, k) /\ SameCounters(b1, b2)
          /\ b2.at = b1.at
        BY <2>0, <2>1, <2>2, FillStep
    <2> QED BY <1>fb1, <2>3 DEF SameCounters
<1>fb3.
      /\ Filled("plpgsql", acc, b3, G2, e, t, k) /\ b3.db = e
      /\ b3.at = "body" => (Exists(t))
    <2>1. IsAcc(b3) /\ b3.arr = b2.arr /\ b3.at = b2.at
        BY <1>t DEF Changed
    <2>2. Filled("plpgsql", acc, b3, G2, e, t, k)
        BY <1>fb2, <2>1, ChangeStep
    <2> QED BY <1>fb2, <1>e, <2>1, <2>2
<1>fb4.
      /\ Filled("plpgsql", acc, b4, G3, e, t, k) /\ b4.db = e
      /\ b4.at = "body" => (Exists(t))
    <2>0. /\ Filled("plpgsql", acc, b3, G2, e, t, k) /\ PutIf(c4, b3, "cash", k, v4) = b4
          /\ Joins(G2, "cash", G3)
        BY <1>fb3, <1>g, <1>db4
    <2>1. b3.at = "body" /\ (c4) =>
              v4 = Cell(e, "cash", t) /\ (OnlyReal("plpgsql", "cash") => Real(e, "cash", t))
        BY <1>fb3, <1>fb1, <1>fb2, <1>vb4, <1>e, <1>3, <1>5 DEF OnlyReal, c4, RowsKept, CellsOf
    <2>2. Has(e, t) => ((c4) <=> ~Skips("plpgsql", "cash", t))
        BY <1>fb3, <1>fb1, <1>fb2, <1>vb4, <1>e, <1>g, <1>3, <1>4, <1>6 DEF c4, Joins, RowsKept
    <2>3.
          /\ Filled("plpgsql", acc, b4, G3, e, t, k) /\ SameCounters(b3, b4)
          /\ b4.at = b3.at
        BY <2>0, <2>1, <2>2, FillStep
    <2> QED BY <1>fb3, <2>3 DEF SameCounters
<1>fb5.
      /\ Filled("plpgsql", acc, b5, G4, e, t, k) /\ b5.db = e
      /\ b5.at = "body" => (Exists(t))
    <2>0. /\ Filled("plpgsql", acc, b4, G3, e, t, k) /\ PutIf(c5, b4, "history", k, HistoryRows(b3.db, t)) = b5
          /\ Joins(G3, "history", G4)
        BY <1>fb4, <1>g, <1>db5
    <2>1. b4.at = "body" /\ (c5) =>
              HistoryRows(b3.db, t) = Cell(e, "history", t) /\ (OnlyReal("plpgsql", "history") => Real(e, "history", t))
        BY <1>fb4, <1>fb1, <1>fb2, <1>fb3, <1>e, <1>3, <1>5 DEF OnlyReal, c5, RowsKept, CellsOf
    <2>2. Has(e, t) => ((c5) <=> ~Skips("plpgsql", "history", t))
        BY <1>fb4, <1>fb1, <1>fb2, <1>fb3, <1>e, <1>g, <1>3, <1>4, <1>6 DEF c5, Joins, RowsKept
    <2>3.
          /\ Filled("plpgsql", acc, b5, G4, e, t, k) /\ SameCounters(b4, b5)
          /\ b5.at = b4.at
        BY <2>0, <2>1, <2>2, FillStep
    <2> QED BY <1>fb4, <2>3 DEF SameCounters
<1>7. b.db = e
    BY <1>1, <1>e, <1>fb5
<1> QED BY <1>1, <1>2, <1>7, <1>g, <1>fb5

(* Which groups of columns a round of Trade-Lookup 1 fills for its trade:  *)
(* plpgsql.                                                                *)
LEMMA PlpgsqlTLF1Fills ==
    ASSUME NEW acc, IsAcc(acc), IsArr(acc.arr), acc.at = "body", IsDb(acc.db),
           NEW t, NEW k, NEW in,
           NEW b, Body("plpgsql", "TLF1", acc, t, k, in) = b
    PROVE  Filled("plpgsql", acc, b, Groups, b.db, t, k) /\ SameRows("TLF1", acc.db, b.db)
<1> DEFINE b1 == IF Exists(t) THEN [acc EXCEPT !.nf = @ + 1] ELSE acc
           c2 == Exists(t)
           b2 == PutIf(c2, b1, "trade", k, TradeRow(b1.db, t))
           c3 == Settled(b2.db, t)
           b3 == PutIf(c3, b2, "settlement", k, SettlementRow(b2.db, t))
           c4 == (Exists(t) /\ Trade[t].is_cash => Paid(b3.db, t))
           v4 == IF Exists(t) /\ Trade[t].is_cash THEN CashRow(b3.db, t) ELSE Null
           b4 == PutIf(c4, b3, "cash", k, v4)
           c5 == TRUE
           b5 == PutIf(c5, b4, "history", k, HistoryRows(b3.db, t))
<1> DEFINE G0 == {}
           G1 == G0 \cup {"trade"}
           G2 == G1 \cup {"settlement"}
           G3 == G2 \cup {"cash"}
           G4 == G3 \cup {"history"}
           e == acc.db
<1>1. b = b5
    BY DEF Body, PlpgsqlTLF1Trade, PlpgsqlTLF1More, b1, b2, b3, b4, b5, c2, c3, c4, v4, c5
<1>db1. (IF Exists(t) THEN [acc EXCEPT !.nf = @ + 1] ELSE acc) = b1
    BY DEF b1
<1>db2. (PutIf(c2, b1, "trade", k, TradeRow(b1.db, t))) = b2
    BY DEF b2
<1>db3. (PutIf(c3, b2, "settlement", k, SettlementRow(b2.db, t))) = b3
    BY DEF b3
<1>db4. (PutIf(c4, b3, "cash", k, v4)) = b4
    BY DEF b4
<1>vb4. v4 = IF Exists(t) /\ Trade[t].is_cash THEN CashRow(b3.db, t) ELSE Null
    OBVIOUS
<1>db5. (PutIf(c5, b4, "history", k, HistoryRows(b3.db, t))) = b5
    BY DEF b5
<1>e. e = acc.db
    OBVIOUS
<1>g. /\ Joins(G0, "trade", G1) /\ Joins(G1, "settlement", G2)
      /\ Joins(G2, "cash", G3) /\ Joins(G3, "history", G4)
      /\ G4 = Groups /\ G0 = {}
    BY DEF Groups, Joins
<1> HIDE DEF b1, b2, b3, b4, b5, c2, c3, c4, v4, c5, G0, G1, G2, G3, G4, e
<1>2. SameRows("TLF1", acc.db, e)
    BY <1>e DEF SameRows
<1>3. RowsKept("TLF1", acc.db, e, t)
    BY <1>2, RowsOfTrade
<1>4. Has(e, t) => /\ Exists(t) /\ Settled(e, t) /\ Past(e, t) # <<>>
                   /\ (Trade[t].is_cash <=> Paid(e, t)) /\ Trade[t].is_cash \in BOOLEAN
    BY HasRows
<1>5. CellsOf(e, t)
    BY DEF CellsOf, Cell, Real
<1>6. \A g \in Groups : Skips("plpgsql", g, t) <=> FALSE
    BY DEF Skips
<1>f0. Filled("plpgsql", acc, acc, G0, e, t, k) /\ acc.db = acc.db /\ (acc.at = "body" => TRUE)
    BY <1>g, FillStart
<1>fb1.
      /\ Filled("plpgsql", acc, b1, G0, e, t, k) /\ b1.db = acc.db
      /\ b1.at = "body" => TRUE
    <2>1. IsAcc(b1) /\ b1.arr = acc.arr /\ b1.at = acc.at /\ b1.db = acc.db
        BY <1>db1 DEF IsAcc
    <2>2. Filled("plpgsql", acc, b1, G0, e, t, k)
        BY <1>f0, <2>1, ChangeStep
    <2> QED BY <1>f0, <2>1, <2>2
<1>fb2.
      /\ Filled("plpgsql", acc, b2, G1, e, t, k) /\ b2.db = acc.db
      /\ b2.at = "body" => TRUE
    <2>0. /\ Filled("plpgsql", acc, b1, G0, e, t, k) /\ PutIf(c2, b1, "trade", k, TradeRow(b1.db, t)) = b2
          /\ Joins(G0, "trade", G1)
        BY <1>fb1, <1>g, <1>db2
    <2>1. b1.at = "body" /\ (c2) =>
              TradeRow(b1.db, t) = Cell(e, "trade", t) /\ (OnlyReal("plpgsql", "trade") => Real(e, "trade", t))
        BY <1>fb1, <1>e, <1>3, <1>5 DEF OnlyReal, c2, RowsKept, CellsOf
    <2>2. Has(e, t) => ((c2) <=> ~Skips("plpgsql", "trade", t))
        BY <1>fb1, <1>e, <1>g, <1>3, <1>4, <1>6 DEF c2, Joins, RowsKept
    <2>3.
          /\ Filled("plpgsql", acc, b2, G1, e, t, k) /\ SameCounters(b1, b2)
          /\ b2.at = b1.at
        BY <2>0, <2>1, <2>2, FillStep
    <2> QED BY <1>fb1, <2>3 DEF SameCounters
<1>fb3.
      /\ Filled("plpgsql", acc, b3, G2, e, t, k) /\ b3.db = acc.db
      /\ b3.at = "body" => TRUE
    <2>0. /\ Filled("plpgsql", acc, b2, G1, e, t, k) /\ PutIf(c3, b2, "settlement", k, SettlementRow(b2.db, t)) = b3
          /\ Joins(G1, "settlement", G2)
        BY <1>fb2, <1>g, <1>db3
    <2>1. b2.at = "body" /\ (c3) =>
              SettlementRow(b2.db, t) = Cell(e, "settlement", t) /\ (OnlyReal("plpgsql", "settlement") => Real(e, "settlement", t))
        BY <1>fb2, <1>fb1, <1>e, <1>3, <1>5 DEF OnlyReal, c3, RowsKept, CellsOf
    <2>2. Has(e, t) => ((c3) <=> ~Skips("plpgsql", "settlement", t))
        BY <1>fb2, <1>fb1, <1>e, <1>g, <1>3, <1>4, <1>6 DEF c3, Joins, RowsKept
    <2>3.
          /\ Filled("plpgsql", acc, b3, G2, e, t, k) /\ SameCounters(b2, b3)
          /\ b3.at = b2.at
        BY <2>0, <2>1, <2>2, FillStep
    <2> QED BY <1>fb2, <2>3 DEF SameCounters
<1>fb4.
      /\ Filled("plpgsql", acc, b4, G3, e, t, k) /\ b4.db = acc.db
      /\ b4.at = "body" => TRUE
    <2>0. /\ Filled("plpgsql", acc, b3, G2, e, t, k) /\ PutIf(c4, b3, "cash", k, v4) = b4
          /\ Joins(G2, "cash", G3)
        BY <1>fb3, <1>g, <1>db4
    <2>1. b3.at = "body" /\ (c4) =>
              v4 = Cell(e, "cash", t) /\ (OnlyReal("plpgsql", "cash") => Real(e, "cash", t))
        BY <1>fb3, <1>fb1, <1>fb2, <1>vb4, <1>e, <1>3, <1>5 DEF OnlyReal, c4, RowsKept, CellsOf
    <2>2. Has(e, t) => ((c4) <=> ~Skips("plpgsql", "cash", t))
        BY <1>fb3, <1>fb1, <1>fb2, <1>vb4, <1>e, <1>g, <1>3, <1>4, <1>6 DEF c4, Joins, RowsKept
    <2>3.
          /\ Filled("plpgsql", acc, b4, G3, e, t, k) /\ SameCounters(b3, b4)
          /\ b4.at = b3.at
        BY <2>0, <2>1, <2>2, FillStep
    <2> QED BY <1>fb3, <2>3 DEF SameCounters
<1>fb5.
      /\ Filled("plpgsql", acc, b5, G4, e, t, k) /\ b5.db = acc.db
      /\ b5.at = "body" => TRUE
    <2>0. /\ Filled("plpgsql", acc, b4, G3, e, t, k) /\ PutIf(c5, b4, "history", k, HistoryRows(b3.db, t)) = b5
          /\ Joins(G3, "history", G4)
        BY <1>fb4, <1>g, <1>db5
    <2>1. b4.at = "body" /\ (c5) =>
              HistoryRows(b3.db, t) = Cell(e, "history", t) /\ (OnlyReal("plpgsql", "history") => Real(e, "history", t))
        BY <1>fb4, <1>fb1, <1>fb2, <1>fb3, <1>e, <1>3, <1>5 DEF OnlyReal, c5, RowsKept, CellsOf
    <2>2. Has(e, t) => ((c5) <=> ~Skips("plpgsql", "history", t))
        BY <1>fb4, <1>fb1, <1>fb2, <1>fb3, <1>e, <1>g, <1>3, <1>4, <1>6 DEF c5, Joins, RowsKept
    <2>3.
          /\ Filled("plpgsql", acc, b5, G4, e, t, k) /\ SameCounters(b4, b5)
          /\ b5.at = b4.at
        BY <2>0, <2>1, <2>2, FillStep
    <2> QED BY <1>fb4, <2>3 DEF SameCounters
<1>7. b.db = e
    BY <1>1, <1>e, <1>fb5
<1> QED BY <1>1, <1>2, <1>7, <1>g, <1>fb5

(* Which groups of columns a round of Trade-Lookup 2 fills for its trade:  *)
(* plpgsql.                                                                *)
LEMMA PlpgsqlTLF2Fills ==
    ASSUME NEW acc, IsAcc(acc), IsArr(acc.arr), acc.at = "body", IsDb(acc.db),
           NEW t, NEW k, NEW in, Exists(t),
           NEW b, Body("plpgsql", "TLF2", acc, t, k, in) = b
    PROVE  Filled("plpgsql", acc, b, Groups, b.db, t, k) /\ SameRows("TLF2", acc.db, b.db)
<1> DEFINE c1 == TRUE
           b1 == PutIf(c1, acc, "trade", k, TradeRow(acc.db, t))
           c2 == Settled(b1.db, t)
           b2 == PutIf(c2, b1, "settlement", k, SettlementRow(b1.db, t))
           c3 == (Trade[t].is_cash => Paid(b2.db, t))
           v3 == IF Trade[t].is_cash THEN CashRow(b2.db, t) ELSE Null
           b3 == PutIf(c3, b2, "cash", k, v3)
           c4 == TRUE
           b4 == PutIf(c4, b3, "history", k, HistoryRows(acc.db, t))
<1> DEFINE G0 == {}
           G1 == G0 \cup {"trade"}
           G2 == G1 \cup {"settlement"}
           G3 == G2 \cup {"cash"}
           G4 == G3 \cup {"history"}
           e == acc.db
<1>1. b = b4
    BY DEF Body, PlpgsqlTLF2Row, b1, b2, b3, b4, c1, c2, c3, v3, c4
<1>db1. (PutIf(c1, acc, "trade", k, TradeRow(acc.db, t))) = b1
    BY DEF b1
<1>db2. (PutIf(c2, b1, "settlement", k, SettlementRow(b1.db, t))) = b2
    BY DEF b2
<1>db3. (PutIf(c3, b2, "cash", k, v3)) = b3
    BY DEF b3
<1>vb3. v3 = IF Trade[t].is_cash THEN CashRow(b2.db, t) ELSE Null
    OBVIOUS
<1>db4. (PutIf(c4, b3, "history", k, HistoryRows(acc.db, t))) = b4
    BY DEF b4
<1>e. e = acc.db
    OBVIOUS
<1>g. /\ Joins(G0, "trade", G1) /\ Joins(G1, "settlement", G2)
      /\ Joins(G2, "cash", G3) /\ Joins(G3, "history", G4)
      /\ G4 = Groups /\ G0 = {}
    BY DEF Groups, Joins
<1> HIDE DEF b1, b2, b3, b4, c1, c2, c3, v3, c4, G0, G1, G2, G3, G4, e
<1>2. SameRows("TLF2", acc.db, e)
    BY <1>e DEF SameRows
<1>3. RowsKept("TLF2", acc.db, e, t)
    BY <1>2, RowsOfTrade
<1>4. Has(e, t) => /\ Exists(t) /\ Settled(e, t) /\ Past(e, t) # <<>>
                   /\ (Trade[t].is_cash <=> Paid(e, t)) /\ Trade[t].is_cash \in BOOLEAN
    BY HasRows
<1>5. CellsOf(e, t)
    BY DEF CellsOf, Cell, Real
<1>6. \A g \in Groups : Skips("plpgsql", g, t) <=> FALSE
    BY DEF Skips
<1>f0. Filled("plpgsql", acc, acc, G0, e, t, k) /\ acc.db = acc.db /\ (acc.at = "body" => TRUE)
    BY <1>g, FillStart
<1>fb1.
      /\ Filled("plpgsql", acc, b1, G1, e, t, k) /\ b1.db = acc.db
      /\ b1.at = "body" => (Exists(t))
    <2>0. /\ Filled("plpgsql", acc, acc, G0, e, t, k) /\ PutIf(c1, acc, "trade", k, TradeRow(acc.db, t)) = b1
          /\ Joins(G0, "trade", G1)
        BY <1>f0, <1>g, <1>db1
    <2>1. acc.at = "body" /\ (c1) =>
              TradeRow(acc.db, t) = Cell(e, "trade", t) /\ (OnlyReal("plpgsql", "trade") => Real(e, "trade", t))
        BY <1>f0, <1>e, <1>3, <1>5 DEF OnlyReal, c1, RowsKept, CellsOf
    <2>2. Has(e, t) => ((c1) <=> ~Skips("plpgsql", "trade", t))
        BY <1>f0, <1>e, <1>g, <1>3, <1>4, <1>6 DEF c1, Joins, RowsKept
    <2>3.
          /\ Filled("plpgsql", acc, b1, G1, e, t, k) /\ SameCounters(acc, b1)
          /\ b1.at = acc.at
        BY <2>0, <2>1, <2>2, FillStep
    <2> QED BY <1>f0, <2>3 DEF SameCounters
<1>fb2.
      /\ Filled("plpgsql", acc, b2, G2, e, t, k) /\ b2.db = acc.db
      /\ b2.at = "body" => (Exists(t))
    <2>0. /\ Filled("plpgsql", acc, b1, G1, e, t, k) /\ PutIf(c2, b1, "settlement", k, SettlementRow(b1.db, t)) = b2
          /\ Joins(G1, "settlement", G2)
        BY <1>fb1, <1>g, <1>db2
    <2>1. b1.at = "body" /\ (c2) =>
              SettlementRow(b1.db, t) = Cell(e, "settlement", t) /\ (OnlyReal("plpgsql", "settlement") => Real(e, "settlement", t))
        BY <1>fb1, <1>e, <1>3, <1>5 DEF OnlyReal, c2, RowsKept, CellsOf
    <2>2. Has(e, t) => ((c2) <=> ~Skips("plpgsql", "settlement", t))
        BY <1>fb1, <1>e, <1>g, <1>3, <1>4, <1>6 DEF c2, Joins, RowsKept
    <2>3.
          /\ Filled("plpgsql", acc, b2, G2, e, t, k) /\ SameCounters(b1, b2)
          /\ b2.at = b1.at
        BY <2>0, <2>1, <2>2, FillStep
    <2> QED BY <1>fb1, <2>3 DEF SameCounters
<1>fb3.
      /\ Filled("plpgsql", acc, b3, G3, e, t, k) /\ b3.db = acc.db
      /\ b3.at = "body" => (Exists(t))
    <2>0. /\ Filled("plpgsql", acc, b2, G2, e, t, k) /\ PutIf(c3, b2, "cash", k, v3) = b3
          /\ Joins(G2, "cash", G3)
        BY <1>fb2, <1>g, <1>db3
    <2>1. b2.at = "body" /\ (c3) =>
              v3 = Cell(e, "cash", t) /\ (OnlyReal("plpgsql", "cash") => Real(e, "cash", t))
        BY <1>fb2, <1>fb1, <1>vb3, <1>e, <1>3, <1>5 DEF OnlyReal, c3, RowsKept, CellsOf
    <2>2. Has(e, t) => ((c3) <=> ~Skips("plpgsql", "cash", t))
        BY <1>fb2, <1>fb1, <1>vb3, <1>e, <1>g, <1>3, <1>4, <1>6 DEF c3, Joins, RowsKept
    <2>3.
          /\ Filled("plpgsql", acc, b3, G3, e, t, k) /\ SameCounters(b2, b3)
          /\ b3.at = b2.at
        BY <2>0, <2>1, <2>2, FillStep
    <2> QED BY <1>fb2, <2>3 DEF SameCounters
<1>fb4.
      /\ Filled("plpgsql", acc, b4, G4, e, t, k) /\ b4.db = acc.db
      /\ b4.at = "body" => (Exists(t))
    <2>0. /\ Filled("plpgsql", acc, b3, G3, e, t, k) /\ PutIf(c4, b3, "history", k, HistoryRows(acc.db, t)) = b4
          /\ Joins(G3, "history", G4)
        BY <1>fb3, <1>g, <1>db4
    <2>1. b3.at = "body" /\ (c4) =>
              HistoryRows(acc.db, t) = Cell(e, "history", t) /\ (OnlyReal("plpgsql", "history") => Real(e, "history", t))
        BY <1>fb3, <1>fb1, <1>fb2, <1>e, <1>3, <1>5 DEF OnlyReal, c4, RowsKept, CellsOf
    <2>2. Has(e, t) => ((c4) <=> ~Skips("plpgsql", "history", t))
        BY <1>fb3, <1>fb1, <1>fb2, <1>e, <1>g, <1>3, <1>4, <1>6 DEF c4, Joins, RowsKept
    <2>3.
          /\ Filled("plpgsql", acc, b4, G4, e, t, k) /\ SameCounters(b3, b4)
          /\ b4.at = b3.at
        BY <2>0, <2>1, <2>2, FillStep
    <2> QED BY <1>fb3, <2>3 DEF SameCounters
<1>7. b.db = e
    BY <1>1, <1>e, <1>fb4
<1> QED BY <1>1, <1>2, <1>7, <1>g, <1>fb4

(* Which groups of columns a round of Trade-Lookup 3 fills for its trade:  *)
(* plpgsql.                                                                *)
LEMMA PlpgsqlTLF3Fills ==
    ASSUME NEW acc, IsAcc(acc), IsArr(acc.arr), acc.at = "body", IsDb(acc.db),
           NEW t, NEW k, NEW in, Exists(t),
           NEW b, Body("plpgsql", "TLF3", acc, t, k, in) = b
    PROVE  Filled("plpgsql", acc, b, Groups, b.db, t, k) /\ SameRows("TLF3", acc.db, b.db)
<1> DEFINE c1 == TRUE
           b1 == PutIf(c1, acc, "trade", k, TradeRow(acc.db, t))
           c2 == Settled(b1.db, t)
           b2 == PutIf(c2, b1, "settlement", k, SettlementRow(b1.db, t))
           c3 == (Trade[t].is_cash => Paid(b2.db, t))
           v3 == IF Trade[t].is_cash THEN CashRow(b2.db, t) ELSE Null
           b3 == PutIf(c3, b2, "cash", k, v3)
           c4 == TRUE
           b4 == PutIf(c4, b3, "history", k, HistoryRows(acc.db, t))
<1> DEFINE G0 == {}
           G1 == G0 \cup {"trade"}
           G2 == G1 \cup {"settlement"}
           G3 == G2 \cup {"cash"}
           G4 == G3 \cup {"history"}
           e == acc.db
<1>1. b = b4
    BY DEF Body, PlpgsqlTLF3Row, b1, b2, b3, b4, c1, c2, c3, v3, c4
<1>db1. (PutIf(c1, acc, "trade", k, TradeRow(acc.db, t))) = b1
    BY DEF b1
<1>db2. (PutIf(c2, b1, "settlement", k, SettlementRow(b1.db, t))) = b2
    BY DEF b2
<1>db3. (PutIf(c3, b2, "cash", k, v3)) = b3
    BY DEF b3
<1>vb3. v3 = IF Trade[t].is_cash THEN CashRow(b2.db, t) ELSE Null
    OBVIOUS
<1>db4. (PutIf(c4, b3, "history", k, HistoryRows(acc.db, t))) = b4
    BY DEF b4
<1>e. e = acc.db
    OBVIOUS
<1>g. /\ Joins(G0, "trade", G1) /\ Joins(G1, "settlement", G2)
      /\ Joins(G2, "cash", G3) /\ Joins(G3, "history", G4)
      /\ G4 = Groups /\ G0 = {}
    BY DEF Groups, Joins
<1> HIDE DEF b1, b2, b3, b4, c1, c2, c3, v3, c4, G0, G1, G2, G3, G4, e
<1>2. SameRows("TLF3", acc.db, e)
    BY <1>e DEF SameRows
<1>3. RowsKept("TLF3", acc.db, e, t)
    BY <1>2, RowsOfTrade
<1>4. Has(e, t) => /\ Exists(t) /\ Settled(e, t) /\ Past(e, t) # <<>>
                   /\ (Trade[t].is_cash <=> Paid(e, t)) /\ Trade[t].is_cash \in BOOLEAN
    BY HasRows
<1>5. CellsOf(e, t)
    BY DEF CellsOf, Cell, Real
<1>6. \A g \in Groups : Skips("plpgsql", g, t) <=> FALSE
    BY DEF Skips
<1>f0. Filled("plpgsql", acc, acc, G0, e, t, k) /\ acc.db = acc.db /\ (acc.at = "body" => TRUE)
    BY <1>g, FillStart
<1>fb1.
      /\ Filled("plpgsql", acc, b1, G1, e, t, k) /\ b1.db = acc.db
      /\ b1.at = "body" => (Exists(t))
    <2>0. /\ Filled("plpgsql", acc, acc, G0, e, t, k) /\ PutIf(c1, acc, "trade", k, TradeRow(acc.db, t)) = b1
          /\ Joins(G0, "trade", G1)
        BY <1>f0, <1>g, <1>db1
    <2>1. acc.at = "body" /\ (c1) =>
              TradeRow(acc.db, t) = Cell(e, "trade", t) /\ (OnlyReal("plpgsql", "trade") => Real(e, "trade", t))
        BY <1>f0, <1>e, <1>3, <1>5 DEF OnlyReal, c1, RowsKept, CellsOf
    <2>2. Has(e, t) => ((c1) <=> ~Skips("plpgsql", "trade", t))
        BY <1>f0, <1>e, <1>g, <1>3, <1>4, <1>6 DEF c1, Joins, RowsKept
    <2>3.
          /\ Filled("plpgsql", acc, b1, G1, e, t, k) /\ SameCounters(acc, b1)
          /\ b1.at = acc.at
        BY <2>0, <2>1, <2>2, FillStep
    <2> QED BY <1>f0, <2>3 DEF SameCounters
<1>fb2.
      /\ Filled("plpgsql", acc, b2, G2, e, t, k) /\ b2.db = acc.db
      /\ b2.at = "body" => (Exists(t))
    <2>0. /\ Filled("plpgsql", acc, b1, G1, e, t, k) /\ PutIf(c2, b1, "settlement", k, SettlementRow(b1.db, t)) = b2
          /\ Joins(G1, "settlement", G2)
        BY <1>fb1, <1>g, <1>db2
    <2>1. b1.at = "body" /\ (c2) =>
              SettlementRow(b1.db, t) = Cell(e, "settlement", t) /\ (OnlyReal("plpgsql", "settlement") => Real(e, "settlement", t))
        BY <1>fb1, <1>e, <1>3, <1>5 DEF OnlyReal, c2, RowsKept, CellsOf
    <2>2. Has(e, t) => ((c2) <=> ~Skips("plpgsql", "settlement", t))
        BY <1>fb1, <1>e, <1>g, <1>3, <1>4, <1>6 DEF c2, Joins, RowsKept
    <2>3.
          /\ Filled("plpgsql", acc, b2, G2, e, t, k) /\ SameCounters(b1, b2)
          /\ b2.at = b1.at
        BY <2>0, <2>1, <2>2, FillStep
    <2> QED BY <1>fb1, <2>3 DEF SameCounters
<1>fb3.
      /\ Filled("plpgsql", acc, b3, G3, e, t, k) /\ b3.db = acc.db
      /\ b3.at = "body" => (Exists(t))
    <2>0. /\ Filled("plpgsql", acc, b2, G2, e, t, k) /\ PutIf(c3, b2, "cash", k, v3) = b3
          /\ Joins(G2, "cash", G3)
        BY <1>fb2, <1>g, <1>db3
    <2>1. b2.at = "body" /\ (c3) =>
              v3 = Cell(e, "cash", t) /\ (OnlyReal("plpgsql", "cash") => Real(e, "cash", t))
        BY <1>fb2, <1>fb1, <1>vb3, <1>e, <1>3, <1>5 DEF OnlyReal, c3, RowsKept, CellsOf
    <2>2. Has(e, t) => ((c3) <=> ~Skips("plpgsql", "cash", t))
        BY <1>fb2, <1>fb1, <1>vb3, <1>e, <1>g, <1>3, <1>4, <1>6 DEF c3, Joins, RowsKept
    <2>3.
          /\ Filled("plpgsql", acc, b3, G3, e, t, k) /\ SameCounters(b2, b3)
          /\ b3.at = b2.at
        BY <2>0, <2>1, <2>2, FillStep
    <2> QED BY <1>fb2, <2>3 DEF SameCounters
<1>fb4.
      /\ Filled("plpgsql", acc, b4, G4, e, t, k) /\ b4.db = acc.db
      /\ b4.at = "body" => (Exists(t))
    <2>0. /\ Filled("plpgsql", acc, b3, G3, e, t, k) /\ PutIf(c4, b3, "history", k, HistoryRows(acc.db, t)) = b4
          /\ Joins(G3, "history", G4)
        BY <1>fb3, <1>g, <1>db4
    <2>1. b3.at = "body" /\ (c4) =>
              HistoryRows(acc.db, t) = Cell(e, "history", t) /\ (OnlyReal("plpgsql", "history") => Real(e, "history", t))
        BY <1>fb3, <1>fb1, <1>fb2, <1>e, <1>3, <1>5 DEF OnlyReal, c4, RowsKept, CellsOf
    <2>2. Has(e, t) => ((c4) <=> ~Skips("plpgsql", "history", t))
        BY <1>fb3, <1>fb1, <1>fb2, <1>e, <1>g, <1>3, <1>4, <1>6 DEF c4, Joins, RowsKept
    <2>3.
          /\ Filled("plpgsql", acc, b4, G4, e, t, k) /\ SameCounters(b3, b4)
          /\ b4.at = b3.at
        BY <2>0, <2>1, <2>2, FillStep
    <2> QED BY <1>fb3, <2>3 DEF SameCounters
<1>7. b.db = e
    BY <1>1, <1>e, <1>fb4
<1> QED BY <1>1, <1>2, <1>7, <1>g, <1>fb4


-----------------------------------------------------------------------------
(* The same for C, of a trade of which nothing is missing: every group     *)
(* gets one element more.                                                  *)

Added(a, b, G, e, t) ==
    /\ IsAcc(b) /\ IsArr(b.arr) /\ b.at = "body"
    /\ \A g \in Groups : g \notin G => b.arr[g] = a.arr[g]
    /\ \A g \in Groups : g \in G => b.arr[g] = Append(a.arr[g], Cell(e, g, t))

(* An element is added.                                                    *)
LEMMA AddStep ==
    ASSUME NEW a, NEW m, NEW G, NEW e, NEW t, Added(a, m, G, e, t),
           NEW g, NEW H, Joins(G, g, H), NEW v, NEW b, AddIf(TRUE, m, g, v) = b,
           v = Cell(e, g, t)
    PROVE  Added(a, b, H, e, t) /\ SameCounters(m, b)
<1> g \in Groups /\ g \notin G /\ H = G \cup {g}
    BY DEF Joins
<1> DEFINE new == Append(m.arr[g], v)
           arr == [m.arr EXCEPT ![g] = new]
<1>1. IsAcc(m) /\ IsArr(m.arr) /\ m.arr[g] = a.arr[g] /\ m.at = "body"
    BY DEF Added
<1>2. b = [m EXCEPT !.arr = arr]
    BY <1>1 DEF AddIf, Going, IsAcc
<1>3. IsArr(arr) /\ arr[g] = new /\ \A h \in Groups : h # g => arr[h] = m.arr[h]
    <2> HIDE DEF new
    <2> QED BY <1>1 DEF IsArr
<1> HIDE DEF arr
<1>4. b.arr = arr /\ IsAcc(b) /\ SameCounters(m, b) /\ b.at = "body"
    BY <1>1, <1>2 DEF IsAcc, SameCounters
<1>5. \A h \in Groups : h \notin H => b.arr[h] = a.arr[h]
    BY <1>3, <1>4 DEF Added
<1>6. \A h \in Groups : h \in H => b.arr[h] = Append(a.arr[h], Cell(e, h, t))
    BY <1>1, <1>3, <1>4 DEF Added
<1> QED BY <1>3, <1>4, <1>5, <1>6 DEF Added

(* An append to a list of C changes that list alone.                       *)
LEMMA AddFields ==
    ASSUME NEW m, IsAcc(m), IsArr(m.arr), m.at = "body", NEW g \in Groups, NEW v, NEW b,
           AddIf(TRUE, m, g, v) = b
    PROVE  IsAcc(b) /\ IsArr(b.arr) /\ b.at = "body" /\ SameCounters(m, b)
<1> DEFINE new == Append(m.arr[g], v)
           arr == [m.arr EXCEPT ![g] = new]
<1>1. b = [m EXCEPT !.arr = arr]
    BY DEF AddIf, Going, IsAcc
<1>2. IsArr(arr)
    <2> HIDE DEF new
    <2> QED BY DEF IsArr
<1> HIDE DEF arr
<1>3. b.arr = arr /\ IsAcc(b) /\ SameCounters(m, b) /\ b.at = "body"
    BY <1>1 DEF IsAcc, SameCounters
<1> QED BY <1>2, <1>3

(* The work on the trade goes on.                                          *)
LEMMA GoesOn ==
    ASSUME NEW c, NEW m, c
    PROVE  ContinueUnless(c, m) = m /\ FailUnless(c, m) = m
BY DEF ContinueUnless, FailUnless


(* Its row is changed, or the limit is reached.                            *)
LEMMA CTUF1Changes ==
    ASSUME NEW m, IsAcc(m), IsDb(m.db), NEW t, Exists(t), NEW in, NEW b,
           CTUF1Toggle(m, t, in) = b
    PROVE  Changed("TUF1", m, b)
<1>1. ContinueUnless(m.nu >= in.max_updates \/ Exists(t), m) = m
    BY GoesOn
<1>2. b = IF Going(m) /\ (m.nu < in.max_updates)
          THEN [m EXCEPT !.db.exec[t] = ToggleExecName(m.snap.exec[t]),
                           !.nf = @ + 1, !.nu = @ + 1]
          ELSE m
    BY <1>1 DEF CTUF1Toggle
<1>3. CASE Going(m) /\ (m.nu < in.max_updates)
    <2> DEFINE f == [m.db EXCEPT !.exec[t] = ToggleExecName(m.snap.exec[t])]
    <2>1. SameRows("TUF1", m.db, f)
        BY ExecRow
    <2>2. b.db = f
        BY <1>2, <1>3 DEF IsAcc
    <2>3. /\ IsAcc(b) /\ b.arr = m.arr /\ b.at = m.at /\ b.snap = m.snap
          /\ b.max_calls = m.max_calls
        BY <1>2, <1>3 DEF IsAcc
    <2> QED BY <2>1, <2>2, <2>3 DEF Changed
<1>4. CASE ~(Going(m) /\ (m.nu < in.max_updates))
    BY <1>2, <1>4 DEF Changed, SameRows
<1> QED BY <1>3, <1>4

(* Its row is changed, or the limit is reached.                            *)
LEMMA CTUF2Changes ==
    ASSUME NEW m, IsAcc(m), IsDb(m.db), NEW t, Settled(m.snap, t), NEW in, NEW b,
           CTUF2Toggle(m, t, in) = b
    PROVE  Changed("TUF2", m, b)
<1>1. FailUnless(m.nu >= in.max_updates \/ Settled(m.snap, t), m) = m
    BY GoesOn
<1>2. b = IF Going(m) /\ (m.nu < in.max_updates)
          THEN [m EXCEPT !.db.settlement[t] =
                               ToggleCashType(Trade[t].is_cash, m.snap.settlement[t]),
                           !.nu = @ + 1]
          ELSE m
    BY <1>1 DEF CTUF2Toggle
<1>3. CASE Going(m) /\ (m.nu < in.max_updates)
    <2> DEFINE f == [m.db EXCEPT !.settlement[t] =
                        ToggleCashType(Trade[t].is_cash, m.snap.settlement[t])]
    <2>1. SameRows("TUF2", m.db, f)
        BY SettlementsRow
    <2>2. b.db = f
        BY <1>2, <1>3 DEF IsAcc
    <2>3. /\ IsAcc(b) /\ b.arr = m.arr /\ b.at = m.at /\ b.snap = m.snap
          /\ b.max_calls = m.max_calls
        BY <1>2, <1>3 DEF IsAcc
    <2> QED BY <2>1, <2>2, <2>3 DEF Changed
<1>4. CASE ~(Going(m) /\ (m.nu < in.max_updates))
    BY <1>2, <1>4 DEF Changed, SameRows
<1> QED BY <1>3, <1>4

(* Its row is changed, or the limit is reached.                            *)
LEMMA CTUF3Changes ==
    ASSUME NEW m, IsAcc(m), IsDb(m.db), NEW t, (Trade[t].is_cash => Paid(m.snap, t)), NEW in, NEW b,
           CTUF3Toggle(m, t, in) = b
    PROVE  Changed("TUF3", m, b)
<1>1. FailUnless(Trade[t].is_cash /\ m.nu < in.max_updates => Paid(m.snap, t), m) = m
    BY GoesOn
<1>2. b = IF Going(m) /\ (Trade[t].is_cash /\ m.nu < in.max_updates)
          THEN [m EXCEPT !.db.cash[t] = ToggleCtName(m.snap.cash[t]), !.nu = @ + 1]
          ELSE m
    BY <1>1 DEF CTUF3Toggle
<1>3. CASE Going(m) /\ (Trade[t].is_cash /\ m.nu < in.max_updates)
    <2> DEFINE f == [m.db EXCEPT !.cash[t] = ToggleCtName(m.snap.cash[t])]
    <2>1. SameRows("TUF3", m.db, f)
        BY CashsRow
    <2>2. b.db = f
        BY <1>2, <1>3 DEF IsAcc
    <2>3. /\ IsAcc(b) /\ b.arr = m.arr /\ b.at = m.at /\ b.snap = m.snap
          /\ b.max_calls = m.max_calls
        BY <1>2, <1>3 DEF IsAcc
    <2> QED BY <2>1, <2>2, <2>3 DEF Changed
<1>4. CASE ~(Going(m) /\ (Trade[t].is_cash /\ m.nu < in.max_updates))
    BY <1>2, <1>4 DEF Changed, SameRows
<1> QED BY <1>3, <1>4

(* A round of Trade-Update 1 in C adds a row to every group it collects.   *)
LEMMA CTUF1Adds ==
    ASSUME NEW acc, IsAcc(acc), IsArr(acc.arr), acc.at = "body", IsDb(acc.db),
           SameRows("TUF1", acc.snap, acc.db), NEW t, Has(acc.db, t), NEW k, NEW in,
           NEW b, Body("c", "TUF1", acc, t, k, in) = b
    PROVE  /\ Added(acc, b, Groups, b.db, t) /\ b.max_calls = acc.max_calls
           /\ SameRows("TUF1", acc.db, b.db)
<1> DEFINE b1 == CTUF1Toggle(acc, t, in)
           b2 == CTUF1Trade(b1, t)
           b3 == CTUF1Settlement(b2, t)
           b4 == CTUF1Cash(b3, t)
           b5 == CTUF1History(b4, t)
           e == b1.db
           v2 == TradeRow(b1.db, t)
           v3 == SettlementRow(b2.snap, t)
           v4 == IF Trade[t].is_cash THEN CashRow(b3.snap, t) ELSE Null
           v5 == HistoryRows(b4.snap, t)
<1> DEFINE G0 == {}
           G1 == G0 \cup {"trade"}
           G2 == G1 \cup {"settlement"}
           G3 == G2 \cup {"cash"}
           G4 == G3 \cup {"history"}
<1>1. b = b5
    BY DEF Body, b1, b2, b3, b4, b5
<1>d1. CTUF1Toggle(acc, t, in) = b1
    BY DEF b1
<1>d2. CTUF1Trade(b1, t) = b2
    BY DEF b2
<1>d3. CTUF1Settlement(b2, t) = b3
    BY DEF b3
<1>d4. CTUF1Cash(b3, t) = b4
    BY DEF b4
<1>d5. CTUF1History(b4, t) = b5
    BY DEF b5
<1>e. e = b1.db
    OBVIOUS
<1>g. /\ Joins(G0, "trade", G1) /\ Joins(G1, "settlement", G2)
      /\ Joins(G2, "cash", G3) /\ Joins(G3, "history", G4)
      /\ G4 = Groups /\ G0 = {}
    BY DEF Groups, Joins
<1> HIDE DEF b1, b2, b3, b4, b5, G0, G1, G2, G3, G4, e, v2, v3, v4, v5
<1>2. /\ Exists(t) /\ Settled(acc.db, t) /\ Past(acc.db, t) # <<>>
      /\ (Trade[t].is_cash <=> Paid(acc.db, t)) /\ Trade[t].is_cash \in BOOLEAN
    BY HasRows
<1>3. RowsKept("TUF1", acc.snap, acc.db, t)
    BY RowsOfTrade
<1>q0. IsAcc(acc) /\ IsArr(acc.arr) /\ acc.at = "body" /\ acc.db = acc.db /\ acc.snap = acc.snap
    OBVIOUS
<1>t. Changed("TUF1", acc, b1)
    BY <1>q0, <1>d1, <1>2, <1>3, CTUF1Changes DEF RowsKept
<1>q1. /\ IsAcc(b1) /\ IsArr(b1.arr) /\ b1.at = "body" /\ b1.db = e
      /\ b1.snap = acc.snap /\ b1.max_calls = acc.max_calls /\ SameRows("TUF1", acc.db, e)
    BY <1>q0, <1>e, <1>t DEF Changed
<1>4. RowsKept("TUF1", acc.db, e, t)
    BY <1>q1, RowsOfTrade
<1>a2. AddIf(TRUE, b1, "trade", v2) = b2
    BY <1>q1, <1>d2, <1>2, <1>3, <1>4, GoesOn DEF CTUF1Trade, RowsKept, v2
<1>q2. /\ IsAcc(b2) /\ IsArr(b2.arr) /\ b2.at = "body" /\ b2.db = e
      /\ b2.snap = acc.snap /\ b2.max_calls = acc.max_calls
    <2>0. "trade" \in Groups /\ IsAcc(b1) /\ IsArr(b1.arr) /\ b1.at = "body"
        BY <1>g, <1>q1 DEF Joins
    <2>2. IsAcc(b2) /\ IsArr(b2.arr) /\ b2.at = "body" /\ SameCounters(b1, b2)
        BY <2>0, <1>a2, AddFields
    <2> QED BY <1>q1, <2>2 DEF SameCounters
<1>a3. AddIf(TRUE, b2, "settlement", v3) = b3
    BY <1>q2, <1>d3, <1>2, <1>3, <1>4, GoesOn DEF CTUF1Settlement, RowsKept, v3
<1>q3. /\ IsAcc(b3) /\ IsArr(b3.arr) /\ b3.at = "body" /\ b3.db = e
      /\ b3.snap = acc.snap /\ b3.max_calls = acc.max_calls
    <2>0. "settlement" \in Groups /\ IsAcc(b2) /\ IsArr(b2.arr) /\ b2.at = "body"
        BY <1>g, <1>q2 DEF Joins
    <2>2. IsAcc(b3) /\ IsArr(b3.arr) /\ b3.at = "body" /\ SameCounters(b2, b3)
        BY <2>0, <1>a3, AddFields
    <2> QED BY <1>q2, <2>2 DEF SameCounters
<1>a4. AddIf(TRUE, b3, "cash", v4) = b4
    BY <1>q3, <1>d4, <1>2, <1>3, <1>4, GoesOn DEF CTUF1Cash, RowsKept, v4
<1>q4. /\ IsAcc(b4) /\ IsArr(b4.arr) /\ b4.at = "body" /\ b4.db = e
      /\ b4.snap = acc.snap /\ b4.max_calls = acc.max_calls
    <2>0. "cash" \in Groups /\ IsAcc(b3) /\ IsArr(b3.arr) /\ b3.at = "body"
        BY <1>g, <1>q3 DEF Joins
    <2>2. IsAcc(b4) /\ IsArr(b4.arr) /\ b4.at = "body" /\ SameCounters(b3, b4)
        BY <2>0, <1>a4, AddFields
    <2> QED BY <1>q3, <2>2 DEF SameCounters
<1>a5. AddIf(TRUE, b4, "history", v5) = b5
    BY <1>q4, <1>d5, <1>2, <1>3, <1>4, GoesOn DEF CTUF1History, RowsKept, v5
<1>q5. /\ IsAcc(b5) /\ IsArr(b5.arr) /\ b5.at = "body" /\ b5.db = e
      /\ b5.snap = acc.snap /\ b5.max_calls = acc.max_calls
    <2>0. "history" \in Groups /\ IsAcc(b4) /\ IsArr(b4.arr) /\ b4.at = "body"
        BY <1>g, <1>q4 DEF Joins
    <2>2. IsAcc(b5) /\ IsArr(b5.arr) /\ b5.at = "body" /\ SameCounters(b4, b5)
        BY <2>0, <1>a5, AddFields
    <2> QED BY <1>q4, <2>2 DEF SameCounters
<1>5. /\ Cell(e, "trade", t) = TradeRow(e, t) /\ Cell(e, "settlement", t) = SettlementRow(e, t)
      /\ Cell(e, "cash", t) = IF Trade[t].is_cash THEN CashRow(e, t) ELSE Null
      /\ Cell(e, "history", t) = HistoryRows(e, t)
    BY <1>2, <1>4 DEF Cell, RowsKept
<1>f0. Added(acc, acc, G0, e, t)
    BY <1>g DEF Added
<1>f1. Added(acc, b1, G0, e, t)
    BY <1>f0, <1>t DEF Added, Changed
<1>f2. Added(acc, b2, G1, e, t)
    <2>1. v2 = Cell(e, "trade", t)
        BY <1>q1, <1>3, <1>4, <1>5 DEF RowsKept, v2
    <2> QED BY <1>f1, <1>g, <2>1, <1>a2, AddStep
<1>f3. Added(acc, b3, G2, e, t)
    <2>1. v3 = Cell(e, "settlement", t)
        BY <1>q2, <1>3, <1>4, <1>5 DEF RowsKept, v3
    <2> QED BY <1>f2, <1>g, <2>1, <1>a3, AddStep
<1>f4. Added(acc, b4, G3, e, t)
    <2>1. v4 = Cell(e, "cash", t)
        BY <1>q3, <1>3, <1>4, <1>5 DEF RowsKept, v4
    <2> QED BY <1>f3, <1>g, <2>1, <1>a4, AddStep
<1>f5. Added(acc, b5, G4, e, t)
    <2>1. v5 = Cell(e, "history", t)
        BY <1>q4, <1>3, <1>4, <1>5 DEF RowsKept, v5
    <2> QED BY <1>f4, <1>g, <2>1, <1>a5, AddStep
<1>6. b.db = e
    BY <1>1, <1>4, <1>q5 DEF RowsKept
<1> QED BY <1>1, <1>6, <1>g, <1>q1, <1>q5, <1>f5 DEF Joins

(* A round of Trade-Update 2 in C adds a row to every group it collects.   *)
LEMMA CTUF2Adds ==
    ASSUME NEW acc, IsAcc(acc), IsArr(acc.arr), acc.at = "body", IsDb(acc.db),
           SameRows("TUF2", acc.snap, acc.db), NEW t, Has(acc.db, t), NEW k, NEW in,
           NEW b, Body("c", "TUF2", acc, t, k, in) = b
    PROVE  /\ Added(acc, b, Groups, b.db, t) /\ b.max_calls = acc.max_calls
           /\ SameRows("TUF2", acc.db, b.db)
<1> DEFINE b1 == CTUF2Trade(acc, t)
           b2 == CTUF2Toggle(b1, t, in)
           b3 == CTUF2Settlement(b2, t)
           b4 == CTUF2Cash(b3, t)
           b5 == CTUF2History(b4, t)
           e == b2.db
           v1 == TradeRow(acc.snap, t)
           v3 == SettlementRow(b2.db, t)
           v4 == IF Trade[t].is_cash THEN CashRow(b3.snap, t) ELSE Null
           v5 == HistoryRows(b4.snap, t)
<1> DEFINE G0 == {}
           G1 == G0 \cup {"trade"}
           G2 == G1 \cup {"settlement"}
           G3 == G2 \cup {"cash"}
           G4 == G3 \cup {"history"}
<1>1. b = b5
    BY DEF Body, b1, b2, b3, b4, b5
<1>d1. CTUF2Trade(acc, t) = b1
    BY DEF b1
<1>d2. CTUF2Toggle(b1, t, in) = b2
    BY DEF b2
<1>d3. CTUF2Settlement(b2, t) = b3
    BY DEF b3
<1>d4. CTUF2Cash(b3, t) = b4
    BY DEF b4
<1>d5. CTUF2History(b4, t) = b5
    BY DEF b5
<1>e. e = b2.db
    OBVIOUS
<1>g. /\ Joins(G0, "trade", G1) /\ Joins(G1, "settlement", G2)
      /\ Joins(G2, "cash", G3) /\ Joins(G3, "history", G4)
      /\ G4 = Groups /\ G0 = {}
    BY DEF Groups, Joins
<1> HIDE DEF b1, b2, b3, b4, b5, G0, G1, G2, G3, G4, e, v1, v3, v4, v5
<1>2. /\ Exists(t) /\ Settled(acc.db, t) /\ Past(acc.db, t) # <<>>
      /\ (Trade[t].is_cash <=> Paid(acc.db, t)) /\ Trade[t].is_cash \in BOOLEAN
    BY HasRows
<1>3. RowsKept("TUF2", acc.snap, acc.db, t)
    BY RowsOfTrade
<1>q0. IsAcc(acc) /\ IsArr(acc.arr) /\ acc.at = "body" /\ acc.db = acc.db /\ acc.snap = acc.snap
    OBVIOUS
<1>a1. AddIf(TRUE, acc, "trade", v1) = b1
    BY <1>q0, <1>d1, <1>2, <1>3, GoesOn DEF CTUF2Trade, RowsKept, v1
<1>q1. /\ IsAcc(b1) /\ IsArr(b1.arr) /\ b1.at = "body" /\ b1.db = acc.db
      /\ b1.snap = acc.snap /\ b1.max_calls = acc.max_calls
    <2>0. "trade" \in Groups /\ IsAcc(acc) /\ IsArr(acc.arr) /\ acc.at = "body"
        BY <1>g, <1>q0 DEF Joins
    <2>2. IsAcc(b1) /\ IsArr(b1.arr) /\ b1.at = "body" /\ SameCounters(acc, b1)
        BY <2>0, <1>a1, AddFields
    <2> QED BY <1>q0, <2>2 DEF SameCounters
<1>t. Changed("TUF2", b1, b2)
    BY <1>q1, <1>d2, <1>2, <1>3, CTUF2Changes DEF RowsKept
<1>q2. /\ IsAcc(b2) /\ IsArr(b2.arr) /\ b2.at = "body" /\ b2.db = e
      /\ b2.snap = acc.snap /\ b2.max_calls = acc.max_calls /\ SameRows("TUF2", acc.db, e)
    BY <1>q1, <1>e, <1>t DEF Changed
<1>4. RowsKept("TUF2", acc.db, e, t)
    BY <1>q2, RowsOfTrade
<1>a3. AddIf(TRUE, b2, "settlement", v3) = b3
    BY <1>q2, <1>d3, <1>2, <1>3, <1>4, GoesOn DEF CTUF2Settlement, RowsKept, v3
<1>q3. /\ IsAcc(b3) /\ IsArr(b3.arr) /\ b3.at = "body" /\ b3.db = e
      /\ b3.snap = acc.snap /\ b3.max_calls = acc.max_calls
    <2>0. "settlement" \in Groups /\ IsAcc(b2) /\ IsArr(b2.arr) /\ b2.at = "body"
        BY <1>g, <1>q2 DEF Joins
    <2>2. IsAcc(b3) /\ IsArr(b3.arr) /\ b3.at = "body" /\ SameCounters(b2, b3)
        BY <2>0, <1>a3, AddFields
    <2> QED BY <1>q2, <2>2 DEF SameCounters
<1>a4. AddIf(TRUE, b3, "cash", v4) = b4
    BY <1>q3, <1>d4, <1>2, <1>3, <1>4, GoesOn DEF CTUF2Cash, RowsKept, v4
<1>q4. /\ IsAcc(b4) /\ IsArr(b4.arr) /\ b4.at = "body" /\ b4.db = e
      /\ b4.snap = acc.snap /\ b4.max_calls = acc.max_calls
    <2>0. "cash" \in Groups /\ IsAcc(b3) /\ IsArr(b3.arr) /\ b3.at = "body"
        BY <1>g, <1>q3 DEF Joins
    <2>2. IsAcc(b4) /\ IsArr(b4.arr) /\ b4.at = "body" /\ SameCounters(b3, b4)
        BY <2>0, <1>a4, AddFields
    <2> QED BY <1>q3, <2>2 DEF SameCounters
<1>a5. AddIf(TRUE, b4, "history", v5) = b5
    BY <1>q4, <1>d5, <1>2, <1>3, <1>4, GoesOn DEF CTUF2History, RowsKept, v5
<1>q5. /\ IsAcc(b5) /\ IsArr(b5.arr) /\ b5.at = "body" /\ b5.db = e
      /\ b5.snap = acc.snap /\ b5.max_calls = acc.max_calls
    <2>0. "history" \in Groups /\ IsAcc(b4) /\ IsArr(b4.arr) /\ b4.at = "body"
        BY <1>g, <1>q4 DEF Joins
    <2>2. IsAcc(b5) /\ IsArr(b5.arr) /\ b5.at = "body" /\ SameCounters(b4, b5)
        BY <2>0, <1>a5, AddFields
    <2> QED BY <1>q4, <2>2 DEF SameCounters
<1>5. /\ Cell(e, "trade", t) = TradeRow(e, t) /\ Cell(e, "settlement", t) = SettlementRow(e, t)
      /\ Cell(e, "cash", t) = IF Trade[t].is_cash THEN CashRow(e, t) ELSE Null
      /\ Cell(e, "history", t) = HistoryRows(e, t)
    BY <1>2, <1>4 DEF Cell, RowsKept
<1>f0. Added(acc, acc, G0, e, t)
    BY <1>g DEF Added
<1>f1. Added(acc, b1, G1, e, t)
    <2>1. v1 = Cell(e, "trade", t)
        BY <1>q0, <1>3, <1>4, <1>5 DEF RowsKept, v1
    <2> QED BY <1>f0, <1>g, <2>1, <1>a1, AddStep
<1>f2. Added(acc, b2, G1, e, t)
    BY <1>f1, <1>t DEF Added, Changed
<1>f3. Added(acc, b3, G2, e, t)
    <2>1. v3 = Cell(e, "settlement", t)
        BY <1>q2, <1>3, <1>4, <1>5 DEF RowsKept, v3
    <2> QED BY <1>f2, <1>g, <2>1, <1>a3, AddStep
<1>f4. Added(acc, b4, G3, e, t)
    <2>1. v4 = Cell(e, "cash", t)
        BY <1>q3, <1>3, <1>4, <1>5 DEF RowsKept, v4
    <2> QED BY <1>f3, <1>g, <2>1, <1>a4, AddStep
<1>f5. Added(acc, b5, G4, e, t)
    <2>1. v5 = Cell(e, "history", t)
        BY <1>q4, <1>3, <1>4, <1>5 DEF RowsKept, v5
    <2> QED BY <1>f4, <1>g, <2>1, <1>a5, AddStep
<1>6. b.db = e
    BY <1>1, <1>4, <1>q5 DEF RowsKept
<1> QED BY <1>1, <1>6, <1>g, <1>q2, <1>q5, <1>f5 DEF Joins

(* A round of Trade-Update 3 in C adds a row to every group it collects.   *)
LEMMA CTUF3Adds ==
    ASSUME NEW acc, IsAcc(acc), IsArr(acc.arr), acc.at = "body", IsDb(acc.db),
           SameRows("TUF3", acc.snap, acc.db), NEW t, Has(acc.db, t), NEW k, NEW in,
           NEW b, Body("c", "TUF3", acc, t, k, in) = b
    PROVE  /\ Added(acc, b, Groups, b.db, t) /\ b.max_calls = acc.max_calls
           /\ SameRows("TUF3", acc.db, b.db)
<1> DEFINE b1 == CTUF3Trade(acc, t)
           b2 == CTUF3Settlement(b1, t)
           b3 == CTUF3Toggle(b2, t, in)
           b4 == CTUF3Cash(b3, t)
           b5 == CTUF3History(b4, t)
           e == b3.db
           v1 == TradeRow(acc.snap, t)
           v2 == SettlementRow(b1.snap, t)
           v4 == IF Trade[t].is_cash THEN CashRow(b3.db, t) ELSE Null
           v5 == HistoryRows(b4.snap, t)
<1> DEFINE G0 == {}
           G1 == G0 \cup {"trade"}
           G2 == G1 \cup {"settlement"}
           G3 == G2 \cup {"cash"}
           G4 == G3 \cup {"history"}
<1>1. b = b5
    BY DEF Body, b1, b2, b3, b4, b5
<1>d1. CTUF3Trade(acc, t) = b1
    BY DEF b1
<1>d2. CTUF3Settlement(b1, t) = b2
    BY DEF b2
<1>d3. CTUF3Toggle(b2, t, in) = b3
    BY DEF b3
<1>d4. CTUF3Cash(b3, t) = b4
    BY DEF b4
<1>d5. CTUF3History(b4, t) = b5
    BY DEF b5
<1>e. e = b3.db
    OBVIOUS
<1>g. /\ Joins(G0, "trade", G1) /\ Joins(G1, "settlement", G2)
      /\ Joins(G2, "cash", G3) /\ Joins(G3, "history", G4)
      /\ G4 = Groups /\ G0 = {}
    BY DEF Groups, Joins
<1> HIDE DEF b1, b2, b3, b4, b5, G0, G1, G2, G3, G4, e, v1, v2, v4, v5
<1>2. /\ Exists(t) /\ Settled(acc.db, t) /\ Past(acc.db, t) # <<>>
      /\ (Trade[t].is_cash <=> Paid(acc.db, t)) /\ Trade[t].is_cash \in BOOLEAN
    BY HasRows
<1>3. RowsKept("TUF3", acc.snap, acc.db, t)
    BY RowsOfTrade
<1>q0. IsAcc(acc) /\ IsArr(acc.arr) /\ acc.at = "body" /\ acc.db = acc.db /\ acc.snap = acc.snap
    OBVIOUS
<1>a1. AddIf(TRUE, acc, "trade", v1) = b1
    BY <1>q0, <1>d1, <1>2, <1>3, GoesOn DEF CTUF3Trade, RowsKept, v1
<1>q1. /\ IsAcc(b1) /\ IsArr(b1.arr) /\ b1.at = "body" /\ b1.db = acc.db
      /\ b1.snap = acc.snap /\ b1.max_calls = acc.max_calls
    <2>0. "trade" \in Groups /\ IsAcc(acc) /\ IsArr(acc.arr) /\ acc.at = "body"
        BY <1>g, <1>q0 DEF Joins
    <2>2. IsAcc(b1) /\ IsArr(b1.arr) /\ b1.at = "body" /\ SameCounters(acc, b1)
        BY <2>0, <1>a1, AddFields
    <2> QED BY <1>q0, <2>2 DEF SameCounters
<1>a2. AddIf(TRUE, b1, "settlement", v2) = b2
    BY <1>q1, <1>d2, <1>2, <1>3, GoesOn DEF CTUF3Settlement, RowsKept, v2
<1>q2. /\ IsAcc(b2) /\ IsArr(b2.arr) /\ b2.at = "body" /\ b2.db = acc.db
      /\ b2.snap = acc.snap /\ b2.max_calls = acc.max_calls
    <2>0. "settlement" \in Groups /\ IsAcc(b1) /\ IsArr(b1.arr) /\ b1.at = "body"
        BY <1>g, <1>q1 DEF Joins
    <2>2. IsAcc(b2) /\ IsArr(b2.arr) /\ b2.at = "body" /\ SameCounters(b1, b2)
        BY <2>0, <1>a2, AddFields
    <2> QED BY <1>q1, <2>2 DEF SameCounters
<1>t. Changed("TUF3", b2, b3)
    BY <1>q2, <1>d3, <1>2, <1>3, CTUF3Changes DEF RowsKept
<1>q3. /\ IsAcc(b3) /\ IsArr(b3.arr) /\ b3.at = "body" /\ b3.db = e
      /\ b3.snap = acc.snap /\ b3.max_calls = acc.max_calls /\ SameRows("TUF3", acc.db, e)
    BY <1>q2, <1>e, <1>t DEF Changed
<1>4. RowsKept("TUF3", acc.db, e, t)
    BY <1>q3, RowsOfTrade
<1>a4. AddIf(TRUE, b3, "cash", v4) = b4
    BY <1>q3, <1>d4, <1>2, <1>3, <1>4, GoesOn DEF CTUF3Cash, RowsKept, v4
<1>q4. /\ IsAcc(b4) /\ IsArr(b4.arr) /\ b4.at = "body" /\ b4.db = e
      /\ b4.snap = acc.snap /\ b4.max_calls = acc.max_calls
    <2>0. "cash" \in Groups /\ IsAcc(b3) /\ IsArr(b3.arr) /\ b3.at = "body"
        BY <1>g, <1>q3 DEF Joins
    <2>2. IsAcc(b4) /\ IsArr(b4.arr) /\ b4.at = "body" /\ SameCounters(b3, b4)
        BY <2>0, <1>a4, AddFields
    <2> QED BY <1>q3, <2>2 DEF SameCounters
<1>a5. AddIf(TRUE, b4, "history", v5) = b5
    BY <1>q4, <1>d5, <1>2, <1>3, <1>4, GoesOn DEF CTUF3History, RowsKept, v5
<1>q5. /\ IsAcc(b5) /\ IsArr(b5.arr) /\ b5.at = "body" /\ b5.db = e
      /\ b5.snap = acc.snap /\ b5.max_calls = acc.max_calls
    <2>0. "history" \in Groups /\ IsAcc(b4) /\ IsArr(b4.arr) /\ b4.at = "body"
        BY <1>g, <1>q4 DEF Joins
    <2>2. IsAcc(b5) /\ IsArr(b5.arr) /\ b5.at = "body" /\ SameCounters(b4, b5)
        BY <2>0, <1>a5, AddFields
    <2> QED BY <1>q4, <2>2 DEF SameCounters
<1>5. /\ Cell(e, "trade", t) = TradeRow(e, t) /\ Cell(e, "settlement", t) = SettlementRow(e, t)
      /\ Cell(e, "cash", t) = IF Trade[t].is_cash THEN CashRow(e, t) ELSE Null
      /\ Cell(e, "history", t) = HistoryRows(e, t)
    BY <1>2, <1>4 DEF Cell, RowsKept
<1>f0. Added(acc, acc, G0, e, t)
    BY <1>g DEF Added
<1>f1. Added(acc, b1, G1, e, t)
    <2>1. v1 = Cell(e, "trade", t)
        BY <1>q0, <1>3, <1>4, <1>5 DEF RowsKept, v1
    <2> QED BY <1>f0, <1>g, <2>1, <1>a1, AddStep
<1>f2. Added(acc, b2, G2, e, t)
    <2>1. v2 = Cell(e, "settlement", t)
        BY <1>q1, <1>3, <1>4, <1>5 DEF RowsKept, v2
    <2> QED BY <1>f1, <1>g, <2>1, <1>a2, AddStep
<1>f3. Added(acc, b3, G2, e, t)
    BY <1>f2, <1>t DEF Added, Changed
<1>f4. Added(acc, b4, G3, e, t)
    <2>1. v4 = Cell(e, "cash", t)
        BY <1>q3, <1>3, <1>4, <1>5 DEF RowsKept, v4
    <2> QED BY <1>f3, <1>g, <2>1, <1>a4, AddStep
<1>f5. Added(acc, b5, G4, e, t)
    <2>1. v5 = Cell(e, "history", t)
        BY <1>q4, <1>3, <1>4, <1>5 DEF RowsKept, v5
    <2> QED BY <1>f4, <1>g, <2>1, <1>a5, AddStep
<1>6. b.db = e
    BY <1>1, <1>4, <1>q5 DEF RowsKept
<1> QED BY <1>1, <1>6, <1>g, <1>q3, <1>q5, <1>f5 DEF Joins

(* A round of Trade-Lookup 1 in C adds a row to every group it collects.   *)
LEMMA CTLF1Adds ==
    ASSUME NEW acc, IsAcc(acc), IsArr(acc.arr), acc.at = "body", IsDb(acc.db),
           SameRows("TLF1", acc.snap, acc.db), NEW t, Has(acc.db, t), NEW k, NEW in,
           NEW b, Body("c", "TLF1", acc, t, k, in) = b
    PROVE  /\ Added(acc, b, Groups, b.db, t) /\ b.max_calls = acc.max_calls
           /\ SameRows("TLF1", acc.db, b.db)
<1> DEFINE b1 == CTLF1Trade(acc, t)
           b2 == CTLF1Settlement(b1, t)
           b3 == CTLF1Cash(b2, t)
           b4 == CTLF1History(b3, t)
           e == acc.db
           v2 == SettlementRow(b1.db, t)
           v3 == IF Trade[t].is_cash THEN CashRow(b2.db, t) ELSE Null
           v4 == HistoryRows(b3.db, t)
<1> DEFINE G0 == {}
           G1 == G0 \cup {"trade"}
           G2 == G1 \cup {"settlement"}
           G3 == G2 \cup {"cash"}
           G4 == G3 \cup {"history"}
<1>1. b = b4
    BY DEF Body, b1, b2, b3, b4
<1>d1. CTLF1Trade(acc, t) = b1
    BY DEF b1
<1>d2. CTLF1Settlement(b1, t) = b2
    BY DEF b2
<1>d3. CTLF1Cash(b2, t) = b3
    BY DEF b3
<1>d4. CTLF1History(b3, t) = b4
    BY DEF b4
<1>e. e = acc.db
    OBVIOUS
<1>g. /\ Joins(G0, "trade", G1) /\ Joins(G1, "settlement", G2)
      /\ Joins(G2, "cash", G3) /\ Joins(G3, "history", G4)
      /\ G4 = Groups /\ G0 = {}
    BY DEF Groups, Joins
<1> HIDE DEF b1, b2, b3, b4, G0, G1, G2, G3, G4, e, v2, v3, v4
<1>2. /\ Exists(t) /\ Settled(acc.db, t) /\ Past(acc.db, t) # <<>>
      /\ (Trade[t].is_cash <=> Paid(acc.db, t)) /\ Trade[t].is_cash \in BOOLEAN
    BY HasRows
<1>3. RowsKept("TLF1", acc.snap, acc.db, t)
    BY RowsOfTrade
<1>q0. IsAcc(acc) /\ IsArr(acc.arr) /\ acc.at = "body" /\ acc.db = acc.db /\ acc.snap = acc.snap
    OBVIOUS
<1>a1. b1 = [AddIf(TRUE, acc, "trade", TradeRow(acc.db, t)) EXCEPT !.nf = @ + 1]
    BY <1>d1, <1>2, <1>q0, GoesOn DEF CTLF1Trade, Going
<1> DEFINE a1 == AddIf(TRUE, acc, "trade", TradeRow(acc.db, t))
<1>q1. /\ IsAcc(b1) /\ IsArr(b1.arr) /\ b1.at = "body" /\ b1.db = acc.db
      /\ b1.snap = acc.snap /\ b1.max_calls = acc.max_calls
      /\ IsAcc(a1) /\ b1.arr = a1.arr
    <2>1. IsAcc(a1) /\ a1.at = "body" /\ SameCounters(acc, a1) /\ IsArr(a1.arr)
        BY <1>q0, <1>g, AddFields DEF Joins
    <2> HIDE DEF a1
    <2>2. b1 = [a1 EXCEPT !.nf = @ + 1]
        BY <1>a1 DEF a1
    <2> QED BY <2>1, <2>2 DEF IsAcc, SameCounters
<1>a2. AddIf(TRUE, b1, "settlement", v2) = b2
    BY <1>q1, <1>d2, <1>2, <1>3, GoesOn DEF CTLF1Settlement, RowsKept, v2
<1>q2. /\ IsAcc(b2) /\ IsArr(b2.arr) /\ b2.at = "body" /\ b2.db = acc.db
      /\ b2.snap = acc.snap /\ b2.max_calls = acc.max_calls
    <2>0. "settlement" \in Groups /\ IsAcc(b1) /\ IsArr(b1.arr) /\ b1.at = "body"
        BY <1>g, <1>q1 DEF Joins
    <2>2. IsAcc(b2) /\ IsArr(b2.arr) /\ b2.at = "body" /\ SameCounters(b1, b2)
        BY <2>0, <1>a2, AddFields
    <2> QED BY <1>q1, <2>2 DEF SameCounters
<1>a3. AddIf(TRUE, b2, "cash", v3) = b3
    BY <1>q2, <1>d3, <1>2, <1>3, GoesOn DEF CTLF1Cash, RowsKept, v3
<1>q3. /\ IsAcc(b3) /\ IsArr(b3.arr) /\ b3.at = "body" /\ b3.db = acc.db
      /\ b3.snap = acc.snap /\ b3.max_calls = acc.max_calls
    <2>0. "cash" \in Groups /\ IsAcc(b2) /\ IsArr(b2.arr) /\ b2.at = "body"
        BY <1>g, <1>q2 DEF Joins
    <2>2. IsAcc(b3) /\ IsArr(b3.arr) /\ b3.at = "body" /\ SameCounters(b2, b3)
        BY <2>0, <1>a3, AddFields
    <2> QED BY <1>q2, <2>2 DEF SameCounters
<1>a4. AddIf(TRUE, b3, "history", v4) = b4
    BY <1>q3, <1>d4, <1>2, <1>3, GoesOn DEF CTLF1History, RowsKept, v4
<1>q4. /\ IsAcc(b4) /\ IsArr(b4.arr) /\ b4.at = "body" /\ b4.db = acc.db
      /\ b4.snap = acc.snap /\ b4.max_calls = acc.max_calls
    <2>0. "history" \in Groups /\ IsAcc(b3) /\ IsArr(b3.arr) /\ b3.at = "body"
        BY <1>g, <1>q3 DEF Joins
    <2>2. IsAcc(b4) /\ IsArr(b4.arr) /\ b4.at = "body" /\ SameCounters(b3, b4)
        BY <2>0, <1>a4, AddFields
    <2> QED BY <1>q3, <2>2 DEF SameCounters
<1>4. e = acc.db /\ SameRows("TLF1", acc.db, e)
    BY <1>e DEF SameRows
<1>5. /\ Cell(e, "trade", t) = TradeRow(e, t) /\ Cell(e, "settlement", t) = SettlementRow(e, t)
      /\ Cell(e, "cash", t) = IF Trade[t].is_cash THEN CashRow(e, t) ELSE Null
      /\ Cell(e, "history", t) = HistoryRows(e, t)
    BY <1>2, <1>4 DEF Cell
<1>f0. Added(acc, acc, G0, e, t)
    BY <1>g DEF Added
<1>f1. Added(acc, b1, G1, e, t)
    <2>1. Added(acc, a1, G1, e, t)
        <3>1. TradeRow(acc.db, t) = Cell(e, "trade", t)
            BY <1>4, <1>5
        <3> QED BY <1>f0, <1>g, <3>1, AddStep
    <2> HIDE DEF a1
    <2> QED BY <1>q1, <2>1 DEF Added
<1>f2. Added(acc, b2, G2, e, t)
    <2>1. v2 = Cell(e, "settlement", t)
        BY <1>q1, <1>3, <1>4, <1>5 DEF RowsKept, v2
    <2> QED BY <1>f1, <1>g, <2>1, <1>a2, AddStep
<1>f3. Added(acc, b3, G3, e, t)
    <2>1. v3 = Cell(e, "cash", t)
        BY <1>q2, <1>3, <1>4, <1>5 DEF RowsKept, v3
    <2> QED BY <1>f2, <1>g, <2>1, <1>a3, AddStep
<1>f4. Added(acc, b4, G4, e, t)
    <2>1. v4 = Cell(e, "history", t)
        BY <1>q3, <1>3, <1>4, <1>5 DEF RowsKept, v4
    <2> QED BY <1>f3, <1>g, <2>1, <1>a4, AddStep
<1>6. b.db = e
    BY <1>1, <1>4, <1>q4
<1> QED BY <1>1, <1>6, <1>g, <1>4, <1>q4, <1>f4 DEF Joins

(* A round of Trade-Lookup 2 in C adds a row to every group it collects.   *)
LEMMA CTLF2Adds ==
    ASSUME NEW acc, IsAcc(acc), IsArr(acc.arr), acc.at = "body", IsDb(acc.db),
           SameRows("TLF2", acc.snap, acc.db), NEW t, Has(acc.db, t), NEW k, NEW in,
           NEW b, Body("c", "TLF2", acc, t, k, in) = b
    PROVE  /\ Added(acc, b, Groups, b.db, t) /\ b.max_calls = acc.max_calls
           /\ SameRows("TLF2", acc.db, b.db)
<1> DEFINE b1 == CTLF2Trade(acc, t)
           b2 == CTLF2Settlement(b1, t)
           b3 == CTLF2Cash(b2, t)
           b4 == CTLF2History(b3, t)
           e == acc.db
           v1 == TradeRow(acc.db, t)
           v2 == SettlementRow(b1.db, t)
           v3 == IF Trade[t].is_cash THEN CashRow(b2.db, t) ELSE Null
           v4 == HistoryRows(b3.db, t)
<1> DEFINE G0 == {}
           G1 == G0 \cup {"trade"}
           G2 == G1 \cup {"settlement"}
           G3 == G2 \cup {"cash"}
           G4 == G3 \cup {"history"}
<1>1. b = b4
    BY DEF Body, b1, b2, b3, b4
<1>d1. CTLF2Trade(acc, t) = b1
    BY DEF b1
<1>d2. CTLF2Settlement(b1, t) = b2
    BY DEF b2
<1>d3. CTLF2Cash(b2, t) = b3
    BY DEF b3
<1>d4. CTLF2History(b3, t) = b4
    BY DEF b4
<1>e. e = acc.db
    OBVIOUS
<1>g. /\ Joins(G0, "trade", G1) /\ Joins(G1, "settlement", G2)
      /\ Joins(G2, "cash", G3) /\ Joins(G3, "history", G4)
      /\ G4 = Groups /\ G0 = {}
    BY DEF Groups, Joins
<1> HIDE DEF b1, b2, b3, b4, G0, G1, G2, G3, G4, e, v1, v2, v3, v4
<1>2. /\ Exists(t) /\ Settled(acc.db, t) /\ Past(acc.db, t) # <<>>
      /\ (Trade[t].is_cash <=> Paid(acc.db, t)) /\ Trade[t].is_cash \in BOOLEAN
    BY HasRows
<1>3. RowsKept("TLF2", acc.snap, acc.db, t)
    BY RowsOfTrade
<1>q0. IsAcc(acc) /\ IsArr(acc.arr) /\ acc.at = "body" /\ acc.db = acc.db /\ acc.snap = acc.snap
    OBVIOUS
<1>a1. AddIf(TRUE, acc, "trade", v1) = b1
    BY <1>q0, <1>d1, <1>2, <1>3, GoesOn DEF CTLF2Trade, RowsKept, v1
<1>q1. /\ IsAcc(b1) /\ IsArr(b1.arr) /\ b1.at = "body" /\ b1.db = acc.db
      /\ b1.snap = acc.snap /\ b1.max_calls = acc.max_calls
    <2>0. "trade" \in Groups /\ IsAcc(acc) /\ IsArr(acc.arr) /\ acc.at = "body"
        BY <1>g, <1>q0 DEF Joins
    <2>2. IsAcc(b1) /\ IsArr(b1.arr) /\ b1.at = "body" /\ SameCounters(acc, b1)
        BY <2>0, <1>a1, AddFields
    <2> QED BY <1>q0, <2>2 DEF SameCounters
<1>a2. AddIf(TRUE, b1, "settlement", v2) = b2
    BY <1>q1, <1>d2, <1>2, <1>3, GoesOn DEF CTLF2Settlement, RowsKept, v2
<1>q2. /\ IsAcc(b2) /\ IsArr(b2.arr) /\ b2.at = "body" /\ b2.db = acc.db
      /\ b2.snap = acc.snap /\ b2.max_calls = acc.max_calls
    <2>0. "settlement" \in Groups /\ IsAcc(b1) /\ IsArr(b1.arr) /\ b1.at = "body"
        BY <1>g, <1>q1 DEF Joins
    <2>2. IsAcc(b2) /\ IsArr(b2.arr) /\ b2.at = "body" /\ SameCounters(b1, b2)
        BY <2>0, <1>a2, AddFields
    <2> QED BY <1>q1, <2>2 DEF SameCounters
<1>a3. AddIf(TRUE, b2, "cash", v3) = b3
    BY <1>q2, <1>d3, <1>2, <1>3, GoesOn DEF CTLF2Cash, RowsKept, v3
<1>q3. /\ IsAcc(b3) /\ IsArr(b3.arr) /\ b3.at = "body" /\ b3.db = acc.db
      /\ b3.snap = acc.snap /\ b3.max_calls = acc.max_calls
    <2>0. "cash" \in Groups /\ IsAcc(b2) /\ IsArr(b2.arr) /\ b2.at = "body"
        BY <1>g, <1>q2 DEF Joins
    <2>2. IsAcc(b3) /\ IsArr(b3.arr) /\ b3.at = "body" /\ SameCounters(b2, b3)
        BY <2>0, <1>a3, AddFields
    <2> QED BY <1>q2, <2>2 DEF SameCounters
<1>a4. AddIf(TRUE, b3, "history", v4) = b4
    BY <1>q3, <1>d4, <1>2, <1>3, GoesOn DEF CTLF2History, RowsKept, v4
<1>q4. /\ IsAcc(b4) /\ IsArr(b4.arr) /\ b4.at = "body" /\ b4.db = acc.db
      /\ b4.snap = acc.snap /\ b4.max_calls = acc.max_calls
    <2>0. "history" \in Groups /\ IsAcc(b3) /\ IsArr(b3.arr) /\ b3.at = "body"
        BY <1>g, <1>q3 DEF Joins
    <2>2. IsAcc(b4) /\ IsArr(b4.arr) /\ b4.at = "body" /\ SameCounters(b3, b4)
        BY <2>0, <1>a4, AddFields
    <2> QED BY <1>q3, <2>2 DEF SameCounters
<1>4. e = acc.db /\ SameRows("TLF2", acc.db, e)
    BY <1>e DEF SameRows
<1>5. /\ Cell(e, "trade", t) = TradeRow(e, t) /\ Cell(e, "settlement", t) = SettlementRow(e, t)
      /\ Cell(e, "cash", t) = IF Trade[t].is_cash THEN CashRow(e, t) ELSE Null
      /\ Cell(e, "history", t) = HistoryRows(e, t)
    BY <1>2, <1>4 DEF Cell
<1>f0. Added(acc, acc, G0, e, t)
    BY <1>g DEF Added
<1>f1. Added(acc, b1, G1, e, t)
    <2>1. v1 = Cell(e, "trade", t)
        BY <1>q0, <1>3, <1>4, <1>5 DEF RowsKept, v1
    <2> QED BY <1>f0, <1>g, <2>1, <1>a1, AddStep
<1>f2. Added(acc, b2, G2, e, t)
    <2>1. v2 = Cell(e, "settlement", t)
        BY <1>q1, <1>3, <1>4, <1>5 DEF RowsKept, v2
    <2> QED BY <1>f1, <1>g, <2>1, <1>a2, AddStep
<1>f3. Added(acc, b3, G3, e, t)
    <2>1. v3 = Cell(e, "cash", t)
        BY <1>q2, <1>3, <1>4, <1>5 DEF RowsKept, v3
    <2> QED BY <1>f2, <1>g, <2>1, <1>a3, AddStep
<1>f4. Added(acc, b4, G4, e, t)
    <2>1. v4 = Cell(e, "history", t)
        BY <1>q3, <1>3, <1>4, <1>5 DEF RowsKept, v4
    <2> QED BY <1>f3, <1>g, <2>1, <1>a4, AddStep
<1>6. b.db = e
    BY <1>1, <1>4, <1>q4
<1> QED BY <1>1, <1>6, <1>g, <1>4, <1>q4, <1>f4 DEF Joins

(* A round of Trade-Lookup 3 in C adds a row to every group it collects.   *)
LEMMA CTLF3Adds ==
    ASSUME NEW acc, IsAcc(acc), IsArr(acc.arr), acc.at = "body", IsDb(acc.db),
           SameRows("TLF3", acc.snap, acc.db), NEW t, Has(acc.db, t), NEW k, NEW in,
           NEW b, Body("c", "TLF3", acc, t, k, in) = b
    PROVE  /\ Added(acc, b, Groups, b.db, t) /\ b.max_calls = acc.max_calls
           /\ SameRows("TLF3", acc.db, b.db)
<1> DEFINE b1 == CTLF3Trade(acc, t)
           b2 == CTLF3Settlement(b1, t)
           b3 == CTLF3Cash(b2, t)
           b4 == CTLF3History(b3, t)
           e == acc.db
           v1 == TradeRow(acc.db, t)
           v2 == SettlementRow(b1.db, t)
           v3 == IF Trade[t].is_cash THEN CashRow(b2.db, t) ELSE Null
           v4 == HistoryRows(b3.db, t)
<1> DEFINE G0 == {}
           G1 == G0 \cup {"trade"}
           G2 == G1 \cup {"settlement"}
           G3 == G2 \cup {"cash"}
           G4 == G3 \cup {"history"}
<1>1. b = b4
    BY DEF Body, b1, b2, b3, b4
<1>d1. CTLF3Trade(acc, t) = b1
    BY DEF b1
<1>d2. CTLF3Settlement(b1, t) = b2
    BY DEF b2
<1>d3. CTLF3Cash(b2, t) = b3
    BY DEF b3
<1>d4. CTLF3History(b3, t) = b4
    BY DEF b4
<1>e. e = acc.db
    OBVIOUS
<1>g. /\ Joins(G0, "trade", G1) /\ Joins(G1, "settlement", G2)
      /\ Joins(G2, "cash", G3) /\ Joins(G3, "history", G4)
      /\ G4 = Groups /\ G0 = {}
    BY DEF Groups, Joins
<1> HIDE DEF b1, b2, b3, b4, G0, G1, G2, G3, G4, e, v1, v2, v3, v4
<1>2. /\ Exists(t) /\ Settled(acc.db, t) /\ Past(acc.db, t) # <<>>
      /\ (Trade[t].is_cash <=> Paid(acc.db, t)) /\ Trade[t].is_cash \in BOOLEAN
    BY HasRows
<1>3. RowsKept("TLF3", acc.snap, acc.db, t)
    BY RowsOfTrade
<1>q0. IsAcc(acc) /\ IsArr(acc.arr) /\ acc.at = "body" /\ acc.db = acc.db /\ acc.snap = acc.snap
    OBVIOUS
<1>a1. AddIf(TRUE, acc, "trade", v1) = b1
    BY <1>q0, <1>d1, <1>2, <1>3, GoesOn DEF CTLF3Trade, RowsKept, v1
<1>q1. /\ IsAcc(b1) /\ IsArr(b1.arr) /\ b1.at = "body" /\ b1.db = acc.db
      /\ b1.snap = acc.snap /\ b1.max_calls = acc.max_calls
    <2>0. "trade" \in Groups /\ IsAcc(acc) /\ IsArr(acc.arr) /\ acc.at = "body"
        BY <1>g, <1>q0 DEF Joins
    <2>2. IsAcc(b1) /\ IsArr(b1.arr) /\ b1.at = "body" /\ SameCounters(acc, b1)
        BY <2>0, <1>a1, AddFields
    <2> QED BY <1>q0, <2>2 DEF SameCounters
<1>a2. AddIf(TRUE, b1, "settlement", v2) = b2
    BY <1>q1, <1>d2, <1>2, <1>3, GoesOn DEF CTLF3Settlement, RowsKept, v2
<1>q2. /\ IsAcc(b2) /\ IsArr(b2.arr) /\ b2.at = "body" /\ b2.db = acc.db
      /\ b2.snap = acc.snap /\ b2.max_calls = acc.max_calls
    <2>0. "settlement" \in Groups /\ IsAcc(b1) /\ IsArr(b1.arr) /\ b1.at = "body"
        BY <1>g, <1>q1 DEF Joins
    <2>2. IsAcc(b2) /\ IsArr(b2.arr) /\ b2.at = "body" /\ SameCounters(b1, b2)
        BY <2>0, <1>a2, AddFields
    <2> QED BY <1>q1, <2>2 DEF SameCounters
<1>a3. AddIf(TRUE, b2, "cash", v3) = b3
    BY <1>q2, <1>d3, <1>2, <1>3, GoesOn DEF CTLF3Cash, AddIf, RowsKept, v3
<1>q3. /\ IsAcc(b3) /\ IsArr(b3.arr) /\ b3.at = "body" /\ b3.db = acc.db
      /\ b3.snap = acc.snap /\ b3.max_calls = acc.max_calls
    <2>0. "cash" \in Groups /\ IsAcc(b2) /\ IsArr(b2.arr) /\ b2.at = "body"
        BY <1>g, <1>q2 DEF Joins
    <2>2. IsAcc(b3) /\ IsArr(b3.arr) /\ b3.at = "body" /\ SameCounters(b2, b3)
        BY <2>0, <1>a3, AddFields
    <2> QED BY <1>q2, <2>2 DEF SameCounters
<1>a4. AddIf(TRUE, b3, "history", v4) = b4
    BY <1>q3, <1>d4, <1>2, <1>3, GoesOn DEF CTLF3History, RowsKept, v4
<1>q4. /\ IsAcc(b4) /\ IsArr(b4.arr) /\ b4.at = "body" /\ b4.db = acc.db
      /\ b4.snap = acc.snap /\ b4.max_calls = acc.max_calls
    <2>0. "history" \in Groups /\ IsAcc(b3) /\ IsArr(b3.arr) /\ b3.at = "body"
        BY <1>g, <1>q3 DEF Joins
    <2>2. IsAcc(b4) /\ IsArr(b4.arr) /\ b4.at = "body" /\ SameCounters(b3, b4)
        BY <2>0, <1>a4, AddFields
    <2> QED BY <1>q3, <2>2 DEF SameCounters
<1>4. e = acc.db /\ SameRows("TLF3", acc.db, e)
    BY <1>e DEF SameRows
<1>5. /\ Cell(e, "trade", t) = TradeRow(e, t) /\ Cell(e, "settlement", t) = SettlementRow(e, t)
      /\ Cell(e, "cash", t) = IF Trade[t].is_cash THEN CashRow(e, t) ELSE Null
      /\ Cell(e, "history", t) = HistoryRows(e, t)
    BY <1>2, <1>4 DEF Cell
<1>f0. Added(acc, acc, G0, e, t)
    BY <1>g DEF Added
<1>f1. Added(acc, b1, G1, e, t)
    <2>1. v1 = Cell(e, "trade", t)
        BY <1>q0, <1>3, <1>4, <1>5 DEF RowsKept, v1
    <2> QED BY <1>f0, <1>g, <2>1, <1>a1, AddStep
<1>f2. Added(acc, b2, G2, e, t)
    <2>1. v2 = Cell(e, "settlement", t)
        BY <1>q1, <1>3, <1>4, <1>5 DEF RowsKept, v2
    <2> QED BY <1>f1, <1>g, <2>1, <1>a2, AddStep
<1>f3. Added(acc, b3, G3, e, t)
    <2>1. v3 = Cell(e, "cash", t)
        BY <1>q2, <1>3, <1>4, <1>5 DEF RowsKept, v3
    <2> QED BY <1>f2, <1>g, <2>1, <1>a3, AddStep
<1>f4. Added(acc, b4, G4, e, t)
    <2>1. v4 = Cell(e, "history", t)
        BY <1>q3, <1>3, <1>4, <1>5 DEF RowsKept, v4
    <2> QED BY <1>f3, <1>g, <2>1, <1>a4, AddStep
<1>6. b.db = e
    BY <1>1, <1>4, <1>q4
<1> QED BY <1>1, <1>6, <1>g, <1>4, <1>q4, <1>f4 DEF Joins

(* One round of any frame in any implementation.                           *)
LEMMA BodyFills ==
    ASSUME NEW i \in {"client", "plpgsql"}, NEW frame \in ListFrames, NEW acc, IsAcc(acc),
           IsArr(acc.arr), acc.at = "body", IsDb(acc.db), NEW t, frame \notin ByIds => Exists(t),
           NEW k, NEW in, NEW b, Body(i, frame, acc, t, k, in) = b
    PROVE  Filled(i, acc, b, Groups, b.db, t, k) /\ SameRows(frame, acc.db, b.db)
<1>1. CASE frame = "TUF1"
    BY <1>1, ClientTUF1Fills, PlpgsqlTUF1Fills
<1>2. CASE frame = "TUF2"
    BY <1>2, ClientTUF2Fills, PlpgsqlTUF2Fills DEF ByIds
<1>3. CASE frame = "TUF3"
    BY <1>3, ClientTUF3Fills, PlpgsqlTUF3Fills DEF ByIds
<1>4. CASE frame = "TLF1"
    BY <1>4, ClientTLF1Fills, PlpgsqlTLF1Fills
<1>5. CASE frame = "TLF2"
    BY <1>5, ClientTLF2Fills, PlpgsqlTLF2Fills DEF ByIds
<1>6. CASE frame = "TLF3"
    BY <1>6, ClientTLF3Fills, PlpgsqlTLF3Fills DEF ByIds
<1> QED BY <1>1, <1>2, <1>3, <1>4, <1>5, <1>6 DEF ListFrames, UpdateFrames

(* A round of a frame in C appends one row of each group it collects.      *)
LEMMA BodyAdds ==
    ASSUME NEW frame \in ListFrames, NEW acc, IsAcc(acc), IsArr(acc.arr), acc.at = "body",
           IsDb(acc.db), SameRows(frame, acc.snap, acc.db), NEW t, Has(acc.db, t),
           NEW k, NEW in, NEW b, Body("c", frame, acc, t, k, in) = b
    PROVE  /\ Added(acc, b, Groups, b.db, t) /\ b.max_calls = acc.max_calls
           /\ SameRows(frame, acc.db, b.db)
<1>1. CASE frame = "TUF1"
    BY <1>1, CTUF1Adds
<1>2. CASE frame = "TUF2"
    BY <1>2, CTUF2Adds
<1>3. CASE frame = "TUF3"
    BY <1>3, CTUF3Adds
<1>4. CASE frame = "TLF1"
    BY <1>4, CTLF1Adds
<1>5. CASE frame = "TLF2"
    BY <1>5, CTLF2Adds
<1>6. CASE frame = "TLF3"
    BY <1>6, CTLF3Adds
<1> QED BY <1>1, <1>2, <1>3, <1>4, <1>5, <1>6 DEF ListFrames, UpdateFrames

-----------------------------------------------------------------------------
(* The arrays after k rounds.                                              *)

(* The rows of another trade stay what they are.                           *)
SameCells(d, e, u) ==
    \A g \in Groups :
        /\ Real(e, g, u) <=> Real(d, g, u)
        /\ (g \in {"trade", "settlement"} => Real(d, g, u)) => Cell(e, g, u) = Cell(d, g, u)

(* The cells of a trade whose rows no update touched.                      *)
LEMMA OtherCells ==
    ASSUME NEW frame, NEW d, NEW e, SameRows(frame, d, e), NEW u,
           Exists(u) => e.exec[u] = d.exec[u],
           Settled(d, u) => e.settlement[u] = d.settlement[u],
           Paid(d, u) => e.cash[u] = d.cash[u]
    PROVE  SameCells(d, e, u)
<1>1. /\ Past(e, u) = Past(d, u) /\ HistoryRows(e, u) = HistoryRows(d, u)
      /\ (Settled(e, u) <=> Settled(d, u)) /\ (Paid(e, u) <=> Paid(d, u))
    BY RowsOfTrade DEF RowsKept
<1>2. /\ Exists(u) => TradeRow(e, u) = TradeRow(d, u)
      /\ Settled(d, u) => SettlementRow(e, u) = SettlementRow(d, u)
      /\ Paid(d, u) => CashRow(e, u) = CashRow(d, u)
    BY DEF TradeRow, SettlementRow, CashRow
<1>3. ASSUME NEW g \in Groups
      PROVE  /\ Real(e, g, u) <=> Real(d, g, u)
             /\ (g \in {"trade", "settlement"} => Real(d, g, u)) => Cell(e, g, u) = Cell(d, g, u)
    <2>1. CASE g = "trade"
        BY <1>2, <2>1 DEF Real, Cell
    <2>2. CASE g = "settlement"
        BY <1>1, <1>2, <2>2 DEF Real, Cell
    <2>3. CASE g = "cash"
        BY <1>1, <1>2, <2>3 DEF Real, Cell
    <2>4. CASE g = "history"
        BY <1>1, <2>4 DEF Real, Cell
    <2> QED BY <2>1, <2>2, <2>3, <2>4 DEF Groups
<1> QED BY <1>3 DEF SameCells

(* A changed row is the one of its trade.                                  *)
LEMMA ToggledCells ==
    ASSUME NEW frame \in UpdateFrames, NEW d, TablesOK(d), NEW src, NEW t, NEW e,
           Toggled(frame, d, src, t) = e, NEW u, u # t
    PROVE  SameCells(d, e, u)
<1>0. IsDb(d)
    BY DEF TablesOK
<1>1. CASE frame = "TUF1"
    <2> DEFINE v == ToggleExecName(src.exec[t])
    <2>1. e = [d EXCEPT !.exec[t] = v]
        BY <1>1 DEF Toggled
    <2> HIDE DEF v
    <2>2. SameRows("TUF1", d, e)
        BY <1>0, <2>1, ExecRow
    <2>3. e.exec = [d.exec EXCEPT ![t] = v] /\ e.settlement = d.settlement /\ e.cash = d.cash
        BY <1>0, <2>1 DEF IsDb
    <2>4. Exists(u) => e.exec[u] = d.exec[u]
        BY <2>3 DEF TablesOK, Exists, Trades
    <2> QED BY <2>2, <2>3, <2>4, OtherCells
<1>2. CASE frame = "TUF2"
    <2> DEFINE v == ToggleCashType(Trade[t].is_cash, src.settlement[t])
    <2>1. e = [d EXCEPT !.settlement[t] = v]
        BY <1>2 DEF Toggled
    <2> HIDE DEF v
    <2>2. SameRows("TUF2", d, e)
        BY <1>0, <2>1, SettlementsRow
    <2>3. e.settlement = [d.settlement EXCEPT ![t] = v] /\ e.exec = d.exec /\ e.cash = d.cash
        BY <1>0, <2>1 DEF IsDb
    <2>4. Settled(d, u) => e.settlement[u] = d.settlement[u]
        BY <2>3 DEF TablesOK, Settled
    <2> QED BY <2>2, <2>3, <2>4, OtherCells
<1>3. CASE frame = "TUF3"
    <2> DEFINE v == ToggleCtName(src.cash[t])
    <2>1. e = [d EXCEPT !.cash[t] = v]
        BY <1>3 DEF Toggled
    <2> HIDE DEF v
    <2>2. SameRows("TUF3", d, e)
        BY <1>0, <2>1, CashsRow
    <2>3. e.cash = [d.cash EXCEPT ![t] = v] /\ e.exec = d.exec /\ e.settlement = d.settlement
        BY <1>0, <2>1 DEF IsDb
    <2>4. Paid(d, u) => e.cash[u] = d.cash[u]
        BY <2>3 DEF TablesOK, Paid
    <2> QED BY <2>2, <2>3, <2>4, OtherCells
<1> QED BY <1>1, <1>2, <1>3 DEF UpdateFrames

(* What the arrays of the client and of plpgsql may hold after k rounds.   *)
Rows(i, ts, a, k) ==
    /\ IsArr(a.arr)
    /\ \A g \in Groups : \A j \in DOMAIN a.arr[g] :
           /\ j \in 1..k /\ a.arr[g][j] = Cell(a.db, g, ts[j])
           /\ OnlyReal(i, g) => Real(a.db, g, ts[j])

(* What they hold, in C too, when nothing is missing of any trade.         *)
Kept(i, g, ts, k) == {j \in 1..k : ~Skips(i, g, ts[j])}
Collected(i, e, g, ts, k) == [j \in Kept(i, g, ts, k) |-> Cell(e, g, ts[j])]

Full(i, ts, a, k) ==
    /\ IsArr(a.arr) /\ (i = "c" => a.max_calls = 1)
    /\ \A g \in Groups : a.arr[g] = Collected(i, a.db, g, ts, k)

(* One more row of the client or of plpgsql.                               *)
LEMMA RowsStep ==
    ASSUME NEW i, NEW ts, NEW k \in Nat, k # 0, NEW a, Rows(i, ts, a, k - 1), NEW b,
           Filled(i, a, b, Groups, b.db, ts[k], k),
           \A j \in 1..(k - 1) : SameCells(a.db, b.db, ts[j])
    PROVE  Rows(i, ts, b, k)
<1>1. IsArr(b.arr)
    BY DEF Filled
<1>2. ASSUME NEW g \in Groups, NEW j \in DOMAIN b.arr[g]
      PROVE  /\ j \in 1..k /\ b.arr[g][j] = Cell(b.db, g, ts[j])
             /\ OnlyReal(i, g) => Real(b.db, g, ts[j])
    <2> DEFINE old == a.arr[g]
               new == b.arr[g]
    <2>1. WroteGroup(i, b.db, ts[k], k, g, old, new)
        BY DEF Filled
    <2>2. ASSUME j \in DOMAIN old
          PROVE  /\ j \in 1..(k - 1) /\ old[j] = Cell(b.db, g, ts[j])
                 /\ OnlyReal(i, g) => Real(b.db, g, ts[j])
        <3>1. /\ j \in 1..(k - 1) /\ old[j] = Cell(a.db, g, ts[j])
              /\ OnlyReal(i, g) => Real(a.db, g, ts[j])
            BY <2>2 DEF Rows
        <3>2. SameCells(a.db, b.db, ts[j])
            BY <3>1
        <3>3. g \in {"trade", "settlement"} => Real(a.db, g, ts[j])
            BY <3>1 DEF OnlyReal
        <3>4. Cell(b.db, g, ts[j]) = Cell(a.db, g, ts[j]) /\ (Real(b.db, g, ts[j]) <=> Real(a.db, g, ts[j]))
            BY <3>2, <3>3 DEF SameCells
        <3> QED BY <3>1, <3>4
    <2>3. CASE new = old
        BY <2>2, <2>3
    <2>4. CASE new = Put(old, k, Cell(b.db, g, ts[k])) /\ (OnlyReal(i, g) => Real(b.db, g, ts[k]))
        <3>1. DOMAIN new = DOMAIN old \cup {k}
            BY <2>4 DEF Put
        <3>2. CASE j = k
            <4>1. new[j] = Cell(b.db, g, ts[k])
                BY <2>4, <3>1, <3>2 DEF Put
            <4> QED BY <2>4, <3>2, <4>1
        <3>3. CASE j # k
            <4>1. j \in DOMAIN old /\ new[j] = old[j]
                BY <2>4, <3>1, <3>3 DEF Put
            <4> QED BY <2>2, <4>1
        <3> QED BY <3>2, <3>3
    <2> QED BY <2>1, <2>3, <2>4 DEF WroteGroup
<1> QED BY <1>1, <1>2 DEF Rows

(* A list of k elements, and one more.                                     *)
LEMMA AppendIs ==
    ASSUME NEW n \in Nat, NEW f, f = [j \in 1..n |-> f[j]], NEW v
    PROVE  Append(f, v) = [j \in 1..(n + 1) |-> IF j = n + 1 THEN v ELSE f[j]]
<1> DEFINE S == {f[j] : j \in 1..n} \cup {v}
<1>1. f \in [1..n -> S] /\ v \in S
    OBVIOUS
<1> HIDE DEF S
<1>2. f \in Seq(S) /\ Len(f) = n
    BY <1>1
<1>3. /\ Append(f, v) \in Seq(S) /\ Len(Append(f, v)) = n + 1
      /\ \A j \in 1..n : Append(f, v)[j] = f[j]
      /\ Append(f, v)[n + 1] = v
    BY <1>1, <1>2
<1>4. Append(f, v) = [j \in 1..(n + 1) |-> Append(f, v)[j]]
    BY <1>3
<1> QED BY <1>3, <1>4

(* A complete trade has a row of trade and of settlement.                  *)
LEMMA HasIsReal ==
    ASSUME NEW e, NEW t, Has(e, t), NEW g \in {"trade", "settlement"}
    PROVE  Real(e, g, t)
BY HasRows DEF Real

(* What is collected in one more round.                                    *)
LEMMA CollectedPut ==
    ASSUME NEW i, NEW d, NEW e, NEW g, NEW ts, NEW k \in Nat, k # 0,
           \A j \in 1..(k - 1) : Cell(e, g, ts[j]) = Cell(d, g, ts[j])
    PROVE  Collected(i, e, g, ts, k) =
               IF Skips(i, g, ts[k]) THEN Collected(i, d, g, ts, k - 1)
               ELSE Put(Collected(i, d, g, ts, k - 1), k, Cell(e, g, ts[k]))
<1> DEFINE old == Collected(i, d, g, ts, k - 1)
           new == Collected(i, e, g, ts, k)
           all == Kept(i, g, ts, k)
           most == Kept(i, g, ts, k - 1)
<1>1. 1..k = 1..(k - 1) \cup {k} /\ k \notin 1..(k - 1)
    OBVIOUS
<1>2. /\ DOMAIN old = most /\ \A j \in most : old[j] = Cell(d, g, ts[j])
      /\ DOMAIN new = all /\ new = [j \in all |-> Cell(e, g, ts[j])]
      /\ old = [j \in most |-> Cell(d, g, ts[j])]
    BY DEF Collected
<1>3. \A j \in most : j \in 1..(k - 1) /\ Cell(d, g, ts[j]) = Cell(e, g, ts[j])
    BY DEF Kept
<1>4. CASE Skips(i, g, ts[k])
    <2>1. all = most
        BY <1>1, <1>4 DEF Kept
    <2> HIDE DEF old, new, all, most
    <2>2. new = old
        BY <1>2, <1>3, <2>1
    <2> QED BY <1>4, <2>2 DEF old, new
<1>5. CASE ~Skips(i, g, ts[k])
    <2>1. all = most \cup {k}
        BY <1>1, <1>5 DEF Kept
    <2>2. k \notin most
        BY <1>1 DEF Kept
    <2> HIDE DEF old, new, all, most
    <2>3. Put(old, k, Cell(e, g, ts[k])) =
              [j \in all |-> IF j = k THEN Cell(e, g, ts[k]) ELSE old[j]]
        BY <1>2, <2>1 DEF Put
    <2>4. \A j \in all : (IF j = k THEN Cell(e, g, ts[k]) ELSE old[j]) = Cell(e, g, ts[j])
        BY <1>2, <1>3, <2>1
    <2>5. new = Put(old, k, Cell(e, g, ts[k]))
        BY <1>2, <2>3, <2>4
    <2> QED BY <1>5, <2>5 DEF old, new
<1> QED BY <1>4, <1>5

(* The list of C after k rounds is the one before with a row appended.     *)
LEMMA CollectedAppend ==
    ASSUME NEW d, NEW e, NEW g, NEW ts, NEW k \in Nat, k # 0,
           \A j \in 1..(k - 1) : Cell(e, g, ts[j]) = Cell(d, g, ts[j])
    PROVE  Collected("c", e, g, ts, k) = Append(Collected("c", d, g, ts, k - 1), Cell(e, g, ts[k]))
<1> DEFINE old == Collected("c", d, g, ts, k - 1)
           new == Collected("c", e, g, ts, k)
           v == Cell(e, g, ts[k])
<1>1. \A n : Kept("c", g, ts, n) = 1..n
    BY DEF Kept, Skips
<1>2. /\ old = [j \in 1..(k - 1) |-> Cell(d, g, ts[j])]
      /\ new = [j \in 1..k |-> Cell(e, g, ts[j])]
    BY <1>1 DEF Collected
<1>3. old = [j \in 1..(k - 1) |-> old[j]] /\ k - 1 \in Nat /\ k - 1 + 1 = k
    BY <1>2
<1>4. \A j \in 1..k : (IF j = k THEN v ELSE old[j]) = Cell(e, g, ts[j])
    BY <1>2
<1> HIDE DEF old, new, v
<1>5. Append(old, v) = [j \in 1..k |-> IF j = k THEN v ELSE old[j]]
    BY <1>3, AppendIs
<1>6. new = Append(old, v)
    BY <1>2, <1>4, <1>5
<1> QED BY <1>6 DEF old, new, v

(* One more row when nothing is missing.                                   *)
LEMMA FullStep ==
    ASSUME NEW i \in Impls, NEW ts, NEW k \in Nat, k # 0, NEW a, Full(i, ts, a, k - 1), NEW b,
           i # "c" => Filled(i, a, b, Groups, b.db, ts[k], k),
           i = "c" => Added(a, b, Groups, b.db, ts[k]) /\ b.max_calls = a.max_calls,
           Has(b.db, ts[k]),
           \A j \in 1..(k - 1) : SameCells(a.db, b.db, ts[j]) /\ Has(a.db, ts[j])
    PROVE  Full(i, ts, b, k)
<1>1. IsArr(b.arr) /\ (i = "c" => b.max_calls = 1)
    BY DEF Filled, Added, Full
<1>2. ASSUME NEW g \in Groups
      PROVE  b.arr[g] = Collected(i, b.db, g, ts, k)
    <2>1. \A j \in 1..(k - 1) : Cell(b.db, g, ts[j]) = Cell(a.db, g, ts[j])
        BY HasIsReal DEF SameCells
    <2>2. a.arr[g] = Collected(i, a.db, g, ts, k - 1)
        BY DEF Full
    <2>3. CASE i = "c"
        <3>1. b.arr[g] = Append(a.arr[g], Cell(b.db, g, ts[k]))
            BY <2>3 DEF Added
        <3>2. Collected("c", b.db, g, ts, k) =
                  Append(Collected("c", a.db, g, ts, k - 1), Cell(b.db, g, ts[k]))
            BY <2>1, CollectedAppend
        <3> QED BY <2>2, <2>3, <3>1, <3>2
    <2>4. CASE i # "c"
        <3>1. WroteAll(i, b.db, ts[k], k, g, a.arr[g], b.arr[g])
            BY <2>4 DEF Filled
        <3>2. Collected(i, b.db, g, ts, k) =
                  IF Skips(i, g, ts[k]) THEN Collected(i, a.db, g, ts, k - 1)
                  ELSE Put(Collected(i, a.db, g, ts, k - 1), k, Cell(b.db, g, ts[k]))
            BY <2>1, CollectedPut
        <3> QED BY <2>2, <3>1, <3>2 DEF WroteAll
    <2> QED BY <2>3, <2>4
<1> QED BY <1>1, <1>2 DEF Full

(* The work of k rounds on the n trades ts.                                *)
AllHave(d, ts, n) == \A j \in 1..n : Has(d, ts[j])

Work(i, d, ts, a, k, n) ==
    /\ i # "c" => Rows(i, ts, a, k)
    /\ AllHave(d, ts, n) => Full(i, ts, a, k)

(* Tables that differ in the column of a frame alone agree in their rows.  *)
LEMMA SameButRows ==
    ASSUME NEW frame \in ListFrames, NEW d, NEW e, TablesOK(d), TablesOK(e), SameBut(frame, d, e)
    PROVE  SameRows(frame, d, e)
<1>1. /\ e.history = d.history /\ Done(e) = Done(d) /\ PaidIn(e) = PaidIn(d)
      /\ frame # "TUF1" => e.exec = d.exec
      /\ frame # "TUF2" => e.settlement = d.settlement
      /\ frame # "TUF3" => e.cash = d.cash
    BY SameButFields
<1>2. DOMAIN e.settlement = DOMAIN d.settlement /\ DOMAIN e.cash = DOMAIN d.cash
    BY <1>1 DEF TablesOK
<1> QED BY <1>1, <1>2 DEF SameRows

(* Before the first round the arrays are empty.                            *)
LEMMA WorkStart ==
    ASSUME NEW i \in Impls, NEW d, NEW ts, NEW n, NEW a, First(i, d) = a
    PROVE  Work(i, d, ts, a, 0, n)
<1> DEFINE empty == IF i = "c" THEN <<>> ELSE EmptyArray
<1>1. a.arr = [g \in Groups |-> empty] /\ a.max_calls = 1 /\ a.db = d
    BY DEF First, Start
<1>2. DOMAIN empty = {} /\ empty = [j \in {} |-> Null]
    BY DEF EmptyArray
<1> HIDE DEF empty
<1>3. IsArr(a.arr) /\ \A g \in Groups : a.arr[g] = empty
    BY <1>1 DEF IsArr
<1>4. Rows(i, ts, a, 0)
    BY <1>2, <1>3 DEF Rows
<1>5. \A g \in Groups : Collected(i, a.db, g, ts, 0) = empty
    <2>1. \A g : Kept(i, g, ts, 0) = {}
        BY DEF Kept
    <2> QED BY <1>2, <2>1 DEF Collected
<1>6. Full(i, ts, a, 0)
    BY <1>1, <1>3, <1>5 DEF Full
<1> QED BY <1>4, <1>6 DEF Work

(* A round goes on with it.                                                *)
LEMMA WorkStep ==
    ASSUME NEW i \in Impls, NEW frame \in ListFrames, NEW d, TablesOK(d), NEW in, NEW ts,
           frame \in UpdateFrames => in.max_updates \in Nat,
           NEW n \in Nat, NEW k \in 1..n, \A p, q \in 1..n : p # q => ts[p] # ts[q],
           frame \notin ByIds => \A p \in 1..n : ts[p] \in Trades,
           NEW acc, RunInv(frame, d, in, ts, acc, k - 1), Work(i, d, ts, acc, k - 1, n)
    PROVE  Work(i, d, ts, Body(i, frame, Anew(acc), ts[k], k, in), k, n)
<1> DEFINE t == ts[k]
           a == Anew(acc)
           b == Body(i, frame, a, t, k, in)
<1> SUFFICES Work(i, d, ts, b, k, n)
    OBVIOUS
<1>1. /\ IsAcc(acc) /\ acc.snap = d /\ TablesOK(acc.db) /\ SameBut(frame, d, acc.db)
      /\ acc.nu \in Nat /\ k \in Nat /\ k # 0
    BY DEF RunInv
<1>2. /\ IsAcc(a) /\ a.at = "body" /\ a.db = acc.db /\ a.snap = d /\ a.arr = acc.arr
      /\ a.nu = acc.nu /\ a.max_calls = acc.max_calls
    BY <1>1, AnewFields
<1> HIDE DEF a
<1>3. Effect(i, frame, a, b, t, in)
    BY <1>1, <1>2, BodyEffect
<1>4. Body(i, frame, a, t, k, in) = b
    OBVIOUS
<1> HIDE DEF b
<1>5. SameRows(frame, a.snap, a.db) /\ IsDb(a.db) /\ TablesOK(a.db)
    BY <1>1, <1>2, SameButRows DEF TablesOK
<1>6. ASSUME NEW j \in 1..(k - 1)
      PROVE  SameCells(a.db, b.db, ts[j])
    <2>1. ts[j] # t
        BY <1>1
    <2>2. CASE Toggles(i, frame, a, t, in)
        <3>1. frame \in UpdateFrames /\ Toggled(frame, a.db, Source(i, a), t) = b.db
            BY <1>3, <2>2 DEF Effect, Toggles
        <3> QED BY <1>5, <2>1, <3>1, ToggledCells
    <2>3. CASE ~Toggles(i, frame, a, t, in)
        <3>1. b.db = a.db
            BY <1>3, <2>3 DEF Effect
        <3> QED BY <3>1 DEF SameCells
    <2> QED BY <2>2, <2>3
<1>7. frame \notin ByIds => Exists(t)
    BY DEF Exists, Trades
<1>8. \A u : Has(a.db, u) <=> Has(d, u)
    BY <1>2, <1>5, RowsOfTrade DEF RowsKept
<1>9. CASE i # "c"
    <2>1. i \in {"client", "plpgsql"}
        BY <1>9 DEF Impls
    <2>2. Rows(i, ts, a, k - 1) /\ (AllHave(d, ts, n) => Full(i, ts, a, k - 1)) /\ IsArr(a.arr)
        BY <1>2, <1>9 DEF Work, Rows, Full
    <2>3. Filled(i, a, b, Groups, b.db, t, k) /\ SameRows(frame, a.db, b.db)
        BY <1>2, <1>4, <1>5, <1>7, <2>1, <2>2, BodyFills
    <2>4. Rows(i, ts, b, k)
        BY <1>1, <1>6, <2>2, <2>3, RowsStep
    <2>5. ASSUME AllHave(d, ts, n) PROVE Full(i, ts, b, k)
        <3>1. Has(b.db, t)
            BY <1>8, <2>3, <2>5, RowsOfTrade DEF AllHave, RowsKept
        <3>2. \A j \in 1..(k - 1) : SameCells(a.db, b.db, ts[j]) /\ Has(a.db, ts[j])
            BY <1>6, <1>8, <2>5 DEF AllHave
        <3> QED BY <1>1, <1>9, <2>2, <2>3, <2>5, <3>1, <3>2, FullStep
    <2> QED BY <2>4, <2>5 DEF Work
<1>10. CASE i = "c"
    <2>1. ASSUME AllHave(d, ts, n) PROVE Full(i, ts, b, k)
        <3>1. Full(i, ts, a, k - 1) /\ IsArr(a.arr)
            BY <1>2, <2>1 DEF Work, Full
        <3>2. Has(a.db, t)
            BY <1>8, <2>1 DEF AllHave
        <3>3. /\ Added(a, b, Groups, b.db, t) /\ b.max_calls = a.max_calls
              /\ SameRows(frame, a.db, b.db)
            BY <1>2, <1>4, <1>5, <1>10, <3>1, <3>2, BodyAdds
        <3>4. Has(b.db, t)
            BY <3>2, <3>3, RowsOfTrade DEF RowsKept
        <3>5. \A j \in 1..(k - 1) : SameCells(a.db, b.db, ts[j]) /\ Has(a.db, ts[j])
            BY <1>6, <1>8, <2>1 DEF AllHave
        <3> QED BY <1>1, <1>10, <3>1, <3>3, <3>4, <3>5, FullStep
    <2> QED BY <1>10, <2>1 DEF Work
<1> QED BY <1>9, <1>10

(* Every round of a run does.                                              *)
LEMMA RunWorks ==
    ASSUME NEW i \in Impls, NEW frame \in ListFrames, NEW d, TablesOK(d), NEW in,
           frame \in UpdateFrames => in.max_updates \in Nat,
           NEW n \in Nat, NEW ts, ts = TradesOf(frame, d, in),
           \A p, q \in 1..n : p # q => ts[p] # ts[q],
           frame \notin ByIds => \A p \in 1..n : ts[p] \in Trades,
           NEW acc, IsRun(acc, i, frame, d, in, n),
           \A k \in 0..n : RunInv(frame, d, in, ts, acc[k], k)
    PROVE  \A k \in 0..n : Work(i, d, ts, acc[k], k, n)
<1> DEFINE Bad == {k \in 0..n : ~Work(i, d, ts, acc[k], k, n)}
<1> SUFFICES ASSUME Bad # {} PROVE FALSE
    OBVIOUS
<1>0. Bad \subseteq Nat
    OBVIOUS
<1>1. PICK k \in Bad : \A m \in Bad : k <= m
    <2> HIDE DEF Bad
    <2> QED BY <1>0, MinOfNaturals
<1>2. k # 0
    BY <1>1, WorkStart DEF IsRun
<1>3. k \in 1..n /\ k - 1 \in 0..n /\ k - 1 \notin Bad
    <2> HIDE DEF Bad
    <2>1. k \in 0..n
        BY DEF Bad
    <2> QED BY <1>1, <1>2, <2>1
<1>4. RunInv(frame, d, in, ts, acc[k - 1], k - 1) /\ Work(i, d, ts, acc[k - 1], k - 1, n)
    BY <1>3
<1>5. acc[k] = Body(i, frame, Anew(acc[k - 1]), ts[k], k, in)
    BY <1>3 DEF IsRun
<1>6. Work(i, d, ts, acc[k], k, n)
    BY <1>3, <1>4, <1>5, WorkStep
<1> QED BY <1>1, <1>6

-----------------------------------------------------------------------------
(* The answers.                                                            *)

(* A frame is a run that keeps RunInv and Work, and its answer.            *)
LEMMA WorkOfAnswer ==
    ASSUME NEW i \in Impls, NEW frame \in ListFrames, NEW d, TablesOK(d), NEW in,
           IsInput(frame, in), NEW ts, ts = TradesOf(frame, d, in), NEW n, n = Len(ts)
    PROVE  \E acc : /\ IsRun(acc, i, frame, d, in, n)
                    /\ \A k \in 0..n : RunInv(frame, d, in, ts, acc[k], k)
                    /\ \A k \in 0..n : Work(i, d, ts, acc[k], k, n)
                    /\ Answers(i, frame, d, acc[n], n, OutOf(i, frame, d, in))
<1>1. PICK acc : /\ IsRun(acc, i, frame, d, in, n)
                 /\ \A k \in 0..n : RunInv(frame, d, in, ts, acc[k], k)
                 /\ Answers(i, frame, d, acc[n], n, OutOf(i, frame, d, in))
    BY AnswerOfRun
<1>2. /\ n \in Nat /\ \A p, q \in 1..n : p # q => ts[p] # ts[q]
      /\ frame \notin ByIds => \A p \in 1..n : ts[p] \in Trades
    BY ListOfFrame, TablesAssumption
<1>3. frame \in UpdateFrames => in.max_updates \in Nat
    BY SuiteAssumption DEF IsInput
<1>4. \A k \in 0..n : Work(i, d, ts, acc[k], k, n)
    BY <1>1, <1>2, <1>3, RunWorks
<1> QED BY <1>1, <1>4

(* What the properties say the frame looked at is the list of its loop,    *)
(* and nothing is missing of complete trades.                              *)
LEMMA LookedAtIs ==
    ASSUME asked.frame \in ListFrames, TablesOK(db), IsInput(asked.frame, asked.in)
    PROVE  /\ LookedAt = TradesOf(asked.frame, db, asked.in)
           /\ AllComplete => AllHave(db, LookedAt, Len(LookedAt))
<1>1. LookedAt = TradesOf(asked.frame, db, asked.in)
    BY DEF LookedAt, TradesOf, ByIds, ByAccount, BySymbol, ListFrames, UpdateFrames
<1>2. DOMAIN LookedAt = 1..Len(LookedAt)
    BY <1>1, ListOfFrame
<1>3. ASSUME NEW t, Complete(db, t) PROVE Has(db, t)
    <2>1. t \in Trades
        BY <1>3 DEF Complete, Exists, Trades
    <2> DEFINE h == db.history[t]
    <2>2. h \in Seq(Statuses) /\ h # <<>>
        BY <2>1 DEF TablesOK
    <2> HIDE DEF h
    <2>3. Len(h) \in Nat /\ Len(h) > 0
        BY <2>2
    <2> DEFINE m == Min({3, Len(h)})
    <2>4. m \in 1..Len(h)
        BY <2>3, MinOfTwo
    <2> HIDE DEF m
    <2>5. Len(SubSeq(h, 1, m)) = m
        BY <2>2, <2>3, <2>4
    <2>6. SubSeq(h, 1, m) # <<>>
        BY <2>4, <2>5
    <2> QED BY <1>3, <2>1, <2>6 DEF Has, Past, Exists, Trades, h, m
<1>4. AllComplete => AllHave(db, LookedAt, Len(LookedAt))
    BY <1>2, <1>3 DEF AllComplete, AllHave
<1> QED BY <1>1, <1>4

(* A frame of Trade-Update changes rows of one column, which RunInv counts.*)
LEMMA ChangesAreTouched ==
    ASSUME NEW frame \in UpdateFrames, NEW d, NEW e, TablesOK(d), TablesOK(e),
           SameBut(frame, d, e)
    PROVE  Changes(d, e) = Cardinality(Touched(frame, d, e))
<1> DEFINE A == {t \in Trades : d.exec[t] # e.exec[t]}
           B == {t \in DOMAIN d.settlement : d.settlement[t] # e.settlement[t]}
           C == {t \in DOMAIN d.cash : d.cash[t] # e.cash[t]}
<1>1. Changes(d, e) = Cardinality(A) + Cardinality(B) + Cardinality(C)
    BY DEF Changes
<1>2. /\ frame # "TUF1" => A = {}
      /\ frame # "TUF2" => B = {}
      /\ frame # "TUF3" => C = {}
    BY SameButFields DEF ListFrames
<1>3. /\ frame = "TUF1" => Touched(frame, d, e) = A
      /\ frame = "TUF2" => Touched(frame, d, e) = B
      /\ frame = "TUF3" => Touched(frame, d, e) = C
    BY DEF Touched, Column, TablesOK
<1>4. IsFiniteSet(A) /\ IsFiniteSet(B) /\ IsFiniteSet(C)
    <2>1. A \subseteq Trades /\ B \subseteq Trades /\ C \subseteq Trades
        BY DEF TablesOK, Done, PaidIn
    <2> HIDE DEF A, B, C
    <2> QED BY <2>1, TradesAreFinite, FS_Subset
<1> HIDE DEF A, B, C
<1>5. Cardinality(A) \in Nat /\ Cardinality(B) \in Nat /\ Cardinality(C) \in Nat
    BY <1>4, FS_CardinalityType
<1>6. Cardinality({}) = 0
    BY FS_EmptySet
<1> QED BY <1>1, <1>2, <1>3, <1>5, <1>6 DEF UpdateFrames

(* No frame, no change.                                                    *)
LEMMA NoChanges ==
    ASSUME NEW d
    PROVE  Changes(d, d) = 0
<1>1. /\ {t \in Trades : d.exec[t] # d.exec[t]} = {}
      /\ {t \in DOMAIN d.settlement : d.settlement[t] # d.settlement[t]} = {}
      /\ {t \in DOMAIN d.cash : d.cash[t] # d.cash[t]} = {}
    OBVIOUS
<1>2. Cardinality({}) = 0
    BY FS_EmptySet
<1> QED BY <1>1, <1>2 DEF Changes

(* num_updated of an answer.                                               *)
LEMMA HonestAnswer ==
    ASSUME NEW i \in Impls, NEW frame \in UpdateFrames, NEW d, TablesOK(d), NEW in,
           IsInput(frame, in), NEW ts, ts = TradesOf(frame, d, in),
           i = "c" => AllHave(d, ts, Len(ts)), NEW o, o = OutOf(i, frame, d, in)
    PROVE  Changes(d, o.db) = o.num_updated /\ o.num_updated <= in.max_updates
<1> DEFINE n == Len(ts)
<1>0. frame \in ListFrames /\ n \in Nat /\ in.max_updates \in Nat
    <2>1. frame \in ListFrames
        BY DEF ListFrames
    <2>2. n \in Nat
        BY <2>1, ListOfFrame, TablesAssumption
    <2>3. in.max_updates \in Nat
        BY SuiteAssumption DEF IsInput
    <2> QED BY <2>1, <2>2, <2>3
<1> HIDE DEF n
<1>1. PICK acc : /\ \A k \in 0..n : RunInv(frame, d, in, ts, acc[k], k)
                 /\ \A k \in 0..n : Work(i, d, ts, acc[k], k, n)
                 /\ Answers(i, frame, d, acc[n], n, o)
    BY <1>0, WorkOfAnswer DEF n
<1> DEFINE a == acc[n]
<1>2. RunInv(frame, d, in, ts, a, n) /\ Work(i, d, ts, a, n, n) /\ Answers(i, frame, d, a, n, o)
    BY <1>0, <1>1
<1> HIDE DEF a
<1>3. /\ TablesOK(a.db) /\ SameBut(frame, d, a.db) /\ a.nu <= in.max_updates
      /\ a.nu = Cardinality(Touched(frame, d, a.db))
    BY <1>2 DEF RunInv
<1>4. Changes(d, a.db) = a.nu /\ a.nu <= in.max_updates
    BY <1>3, ChangesAreTouched
<1>5. i = "c" => a.max_calls = 1
    BY <1>2 DEF Work, Full, n
<1>6. \/ o.db = a.db /\ o.num_updated = a.nu
      \/ o.db = d /\ o.num_updated = 0
    BY <1>2, <1>5 DEF Answers
<1> QED BY <1>0, <1>4, <1>6, NoChanges

(* num_updated is the number of rows a frame of Trade-Update changed and   *)
(* never more than max_updates, in every implementation (in C, of complete *)
(* trades), whatever the trades, the limits and what ran before.           *)
THEOREM CountsAreExact == Spec => []CountsAreHonest
<1>1. SuiteInv => CountsAreHonest
    <2> SUFFICES ASSUME SuiteInv, asked.frame \in UpdateFrames, NEW i \in Impls,
                        i = "c" => AllComplete
                 PROVE  /\ Changes(db, out[i].db) = out[i].num_updated
                        /\ out[i].num_updated <= asked.in.max_updates
        BY DEF CountsAreHonest
    <2>1. TablesOK(db) /\ IsListAnswer(asked.frame, asked.in, out)
        BY DEF SuiteInv, AskedInv, IsAnswer, Nothing, UpdateFrames
    <2>2. IsInput(asked.frame, asked.in) /\ out[i] = OutOf(i, asked.frame, db, asked.in)
        BY <2>1 DEF IsListAnswer
    <2>3. /\ LookedAt = TradesOf(asked.frame, db, asked.in)
          /\ AllComplete => AllHave(db, LookedAt, Len(LookedAt))
        BY <2>1, <2>2, LookedAtIs DEF ListFrames
    <2> QED BY <2>1, <2>2, <2>3, HonestAnswer
<1> QED BY <1>1, SuiteInvariant, PTL

-----------------------------------------------------------------------------
(* From the arrays to trade_info.                                          *)

(* A non-empty set of positions has a last one.                            *)
LEMMA MaxOfBounded ==
    ASSUME NEW n \in Nat, NEW S, S \subseteq 1..n, S # {}
    PROVE  Max(S) \in S /\ \A y \in S : Max(S) >= y
<1> DEFINE Gaps == {n - x : x \in S}
<1>1. Gaps \subseteq Nat /\ Gaps # {}
    <2>1. \A x \in S : x \in Nat /\ x <= n /\ n - x \in Nat
        OBVIOUS
    <2> QED BY <2>1
<1>2. PICK m \in Gaps : \A y \in Gaps : m <= y
    <2> HIDE DEF Gaps
    <2> QED BY <1>1, MinOfNaturals
<1>3. PICK x \in S : m = n - x
    OBVIOUS
<1>4. \A y \in S : x >= y
    <2>1. \A y \in S : n - x <= n - y
        BY <1>2, <1>3
    <2> QED BY <2>1
<1> QED BY <1>3, <1>4, Zenon DEF Max

(* The text of an array of n elements or fewer, split.                     *)
LEMMA TokensAre ==
    ASSUME NEW array, NEW n \in Nat, DOMAIN array \subseteq 1..n, NEW tokens,
           TokenizeSmart(array) = tokens
    PROVE  /\ 1 \notin DOMAIN array => Len(tokens) = 0
           /\ 1 \in DOMAIN array => /\ Len(tokens) = Max(DOMAIN array) /\ Len(tokens) \in DOMAIN array
                                    /\ \A y \in DOMAIN array : Len(tokens) >= y
           /\ \A k \in 1..Len(tokens) :
                  tokens[k] = IF k \in DOMAIN array THEN array[k] ELSE Null
<1>1. CASE 1 \notin DOMAIN array
    <2>1. tokens = <<>>
        BY <1>1 DEF TokenizeSmart
    <2>2. Len(tokens) = 0
        BY <2>1
    <2> QED BY <1>1, <2>2
<1>2. CASE 1 \in DOMAIN array
    <2> DEFINE m == Max(DOMAIN array)
    <2>1. m \in DOMAIN array /\ \A y \in DOMAIN array : m >= y
        <3> DEFINE S == DOMAIN array
        <3>1. S \subseteq 1..n /\ S # {}
            BY <1>2
        <3> HIDE DEF S
        <3>2. Max(S) \in S /\ \A y \in S : Max(S) >= y
            BY <3>1, MaxOfBounded
        <3> QED BY <3>2 DEF S
    <2>2. m \in Nat
        BY <2>1
    <2>3. tokens = [k \in 1..m |-> IF k \in DOMAIN array THEN array[k] ELSE Null]
        BY <1>2 DEF TokenizeSmart
    <2> HIDE DEF m
    <2>4. Len(tokens) = m
        BY <2>2, <2>3
    <2> QED BY <1>2, <2>1, <2>3, <2>4 DEF m
<1> QED BY <1>1, <1>2

(* A field of trade_info that is not as the caller cleared it.             *)
LEMMA FieldOfInfo ==
    ASSUME NEW cols, NEW n \in Nat, \A g \in Groups : DOMAIN cols[g] \subseteq 1..n,
           NEW k \in 1..MaxRows, NEW g \in Groups
    PROVE  /\ TradeInfo(cols)[k][g] # Unset =>
                  k \in DOMAIN cols[g] /\ TradeInfo(cols)[k][g] = cols[g][k]
           /\ CopyColumns(cols)[k][g] # Unset =>
                  /\ k \in DOMAIN cols[g] /\ CopyColumns(cols)[k][g] = cols[g][k]
                  /\ cols[g][k] # Null
<1>1. TradeInfo(cols)[k][g] = IF k \in DOMAIN cols[g] THEN cols[g][k] ELSE Unset
    BY DEF TradeInfo
<1> DEFINE array == cols[g]
           tokens == TokenizeSmart(array)
<1>2. CopyColumns(cols)[k][g] = IF k <= Len(tokens) /\ tokens[k] # Null THEN tokens[k] ELSE Unset
    BY DEF CopyColumns
<1>3. /\ Len(tokens) \in Nat
      /\ \A j \in 1..Len(tokens) : tokens[j] = IF j \in DOMAIN array THEN array[j] ELSE Null
    <2>1. DOMAIN array \subseteq 1..n
        OBVIOUS
    <2> HIDE DEF array
    <2>2. /\ 1 \notin DOMAIN array => Len(tokens) = 0
          /\ 1 \in DOMAIN array => Len(tokens) \in DOMAIN array
          /\ \A j \in 1..Len(tokens) : tokens[j] = IF j \in DOMAIN array THEN array[j] ELSE Null
        BY <2>1, TokensAre
    <2> HIDE DEF tokens
    <2> QED BY <2>1, <2>2
<1>4. MaxRows \in Nat
    BY TablesAssumption
<1> HIDE DEF tokens
<1>5. k <= Len(tokens) => k \in 1..Len(tokens)
    BY <1>3, <1>4
<1> QED BY <1>1, <1>2, <1>3, <1>5

(* What the arrays hold is what the tables have.                           *)
LEMMA CellIsStored ==
    ASSUME NEW e, NEW g \in Groups, NEW t, NEW v, v = Cell(e, g, t), v # Null \/ Real(e, g, t)
    PROVE  v[1] = t /\ v = StoredRow(e, g, t)
<1>1. CASE g = "trade"
    BY <1>1 DEF Cell, StoredRow, TradeRow
<1>2. CASE g = "settlement"
    BY <1>2 DEF Cell, StoredRow, SettlementRow
<1>3. CASE g = "cash"
    BY <1>3 DEF Cell, Real, StoredRow, CashRow
<1>4. CASE g = "history"
    BY <1>4 DEF Cell, Real, StoredRow, HistoryRows
<1> QED BY <1>1, <1>2, <1>3, <1>4 DEF Groups

(* Every element of the arrays is about the trade of its position.         *)
Describes(cols, e, ts, n) ==
    \A g \in Groups : \A j \in DOMAIN cols[g] : j \in 1..n /\ cols[g][j] = Cell(e, g, ts[j])

(* A field of trade_info is a row of its trade.                            *)
LEMMA FieldDescribes ==
    ASSUME NEW i, NEW cols, NEW e, NEW ts, NEW n \in Nat, Describes(cols, e, ts, n),
           NEW k \in 1..MaxRows, NEW g \in Groups, NEW info, NEW v, v = info[k][g], v # Unset,
           \/ info = CopyColumns(cols)
           \/ info = TradeInfo(cols) /\ \A j \in DOMAIN cols[g] : Real(e, g, ts[j])
    PROVE  v[1] = ts[k] /\ v = StoredRow(e, g, ts[k])
<1>1. \A h \in Groups : DOMAIN cols[h] \subseteq 1..n
    BY DEF Describes
<1>2. /\ TradeInfo(cols)[k][g] # Unset =>
             k \in DOMAIN cols[g] /\ TradeInfo(cols)[k][g] = cols[g][k]
      /\ CopyColumns(cols)[k][g] # Unset =>
             /\ k \in DOMAIN cols[g] /\ CopyColumns(cols)[k][g] = cols[g][k]
             /\ cols[g][k] # Null
    BY <1>1, FieldOfInfo
<1>3. k \in DOMAIN cols[g] /\ v = cols[g][k] /\ (v # Null \/ Real(e, g, ts[k]))
    BY <1>2
<1>4. v = Cell(e, g, ts[k])
    BY <1>3 DEF Describes
<1> QED BY <1>3, <1>4, CellIsStored

(* The rows of an answer.                                                  *)
LEMMA AnswerDescribes ==
    ASSUME NEW i \in Impls, NEW frame \in ListFrames, NEW d, TablesOK(d), NEW in,
           IsInput(frame, in), NEW ts, ts = TradesOf(frame, d, in),
           i = "c" => AllHave(d, ts, Len(ts)), NEW o, o = OutOf(i, frame, d, in),
           NEW k \in 1..o.num_found, NEW g \in Groups, NEW v, v = o.info[k][g], v # Unset
    PROVE  v[1] = ts[k] /\ v = StoredRow(o.db, g, ts[k])
<1> DEFINE n == Len(ts)
<1>0. n \in Nat /\ n <= MaxRows /\ MaxRows \in Nat
    BY ListOfFrame, TablesAssumption
<1>1. PICK acc : /\ \A p \in 0..n : RunInv(frame, d, in, ts, acc[p], p)
                 /\ \A p \in 0..n : Work(i, d, ts, acc[p], p, n)
                 /\ Answers(i, frame, d, acc[n], n, o)
    BY WorkOfAnswer
<1> DEFINE a == acc[n]
<1>2. RunInv(frame, d, in, ts, a, n) /\ Work(i, d, ts, a, n, n) /\ Answers(i, frame, d, a, n, o)
    BY <1>0, <1>1
<1>3. AllHave(d, ts, n) <=> AllHave(d, ts, Len(ts))
    OBVIOUS
<1> HIDE DEF a, n
<1>4. o.num_found # 0
    OBVIOUS
<1>5. /\ o.db = a.db /\ o.info = Info(i, a)
      /\ o.num_found = IF frame \in ByIds THEN a.nf ELSE n
    BY <1>2, <1>4 DEF Answers
<1>6. a.nf \in 0..n
    BY <1>2 DEF RunInv
<1>7. k \in 1..MaxRows
    BY <1>0, <1>5, <1>6
<1>8. CASE i \in {"client", "plpgsql"}
    <2>1. Rows(i, ts, a, n)
        BY <1>2, <1>8 DEF Work
    <2>2. Describes(a.arr, a.db, ts, n)
        BY <2>1 DEF Rows, Describes
    <2>3. i = "client" => \A j \in DOMAIN a.arr[g] : Real(a.db, g, ts[j])
        BY <2>1 DEF Rows, OnlyReal
    <2>4. o.info = IF i = "client" THEN TradeInfo(a.arr) ELSE CopyColumns(a.arr)
        BY <1>5, <1>8 DEF Info
    <2> QED BY <1>0, <1>5, <1>7, <1>8, <2>2, <2>3, <2>4, FieldDescribes
<1>9. CASE i = "c"
    <2>1. Full(i, ts, a, n)
        BY <1>2, <1>3, <1>9 DEF Work
    <2> DEFINE cols == [h \in Groups |-> IF a.arr[h] = <<Hole>> THEN <<>> ELSE a.arr[h]]
    <2>2. Describes(cols, a.db, ts, n)
        <3>1. ASSUME NEW h \in Groups, NEW j \in DOMAIN cols[h]
              PROVE  j \in 1..n /\ cols[h][j] = Cell(a.db, h, ts[j])
            <4>1. cols[h] = a.arr[h]
                <5>1. DOMAIN <<>> = {}
                    OBVIOUS
                <5> QED BY <5>1
            <4>2. a.arr[h] = Collected(i, a.db, h, ts, n)
                BY <2>1 DEF Full
            <4> QED BY <4>1, <4>2 DEF Collected, Kept
        <3> HIDE DEF cols
        <3> QED BY <3>1 DEF Describes
    <2>3. o.info = CopyColumns(cols)
        BY <1>5, <1>9 DEF Info
    <2> HIDE DEF cols
    <2> QED BY <1>0, <1>5, <1>7, <2>2, <2>3, FieldDescribes
<1> QED BY <1>8, <1>9 DEF Impls

(* Row k of an answer is about the k-th trade the frame looked at, in      *)
(* every group of columns, as the tables are when the frame is done, in    *)
(* every implementation (in C, of complete trades): no element of another  *)
(* trade, none from before the update, whatever rows are missing.          *)
THEOREM RowsAreOfTheirTrades == Spec => []RowsDescribeTrades
<1>1. SuiteInv => RowsDescribeTrades
    <2> SUFFICES ASSUME SuiteInv, asked.frame \in ListFrames, NEW i \in Impls,
                        i = "c" => AllComplete, NEW k \in 1..out[i].num_found, NEW g \in Groups,
                        NEW v, v = out[i].info[k][g], v # Unset
                 PROVE  v[1] = LookedAt[k] /\ v = StoredRow(out[i].db, g, LookedAt[k])
        BY DEF RowsDescribeTrades
    <2>1. TablesOK(db) /\ IsListAnswer(asked.frame, asked.in, out)
        BY DEF SuiteInv, AskedInv, IsAnswer, Nothing, ListFrames, UpdateFrames
    <2>2. IsInput(asked.frame, asked.in) /\ out[i] = OutOf(i, asked.frame, db, asked.in)
        BY <2>1 DEF IsListAnswer
    <2>3. /\ LookedAt = TradesOf(asked.frame, db, asked.in)
          /\ AllComplete => AllHave(db, LookedAt, Len(LookedAt))
        BY <2>1, <2>2, LookedAtIs
    <2> QED BY <2>1, <2>2, <2>3, AnswerDescribes
<1> QED BY <1>1, SuiteInvariant, PTL

-----------------------------------------------------------------------------
(* Two implementations side by side, when nothing is missing.              *)

(* The round changes a row, in every implementation.                       *)
Changing(frame, nu, t, in) ==
    frame \in UpdateFrames /\ nu < in.max_updates /\ (frame = "TUF3" => Trade[t].is_cash)

(* What the round does then, from d, the tables as the frame found them.   *)
SameRound(frame, d, a, b, t, in) ==
    LET changing == Changing(frame, a.nu, t, in)
    IN  /\ b.db = IF changing THEN Toggled(frame, a.db, d, t) ELSE a.db
        /\ b.nu = IF changing THEN a.nu + 1 ELSE a.nu
        /\ b.nf = IF (frame = "TUF1" /\ changing) \/ frame = "TLF1" THEN a.nf + 1 ELSE a.nf

(* The tables of before the frame and those of before the round have the   *)
(* same value for a trade that was not looked at yet.                      *)
LEMMA OneSource ==
    ASSUME NEW frame \in UpdateFrames, NEW d, NEW e, TablesOK(d), TablesOK(e), SameBut(frame, d, e),
           NEW t, Has(d, t), t \notin Touched(frame, d, e), frame = "TUF3" => Trade[t].is_cash
    PROVE  Toggled(frame, e, e, t) = Toggled(frame, e, d, t)
<1>1. t \in Trades /\ t \in DOMAIN d.settlement /\ (Trade[t].is_cash => t \in DOMAIN d.cash)
    BY HasRows DEF Exists, Trades, Settled, Paid
<1>2. CASE frame = "TUF1"
    <2>1. e.exec[t] = d.exec[t]
        BY <1>1, <1>2 DEF Touched, Column, TablesOK
    <2> QED BY <1>2, <2>1 DEF Toggled
<1>3. CASE frame = "TUF2"
    <2>1. e.settlement[t] = d.settlement[t]
        BY <1>1, <1>3 DEF Touched, Column
    <2> QED BY <1>3, <2>1 DEF Toggled
<1>4. CASE frame = "TUF3"
    <2>1. e.cash[t] = d.cash[t]
        BY <1>1, <1>4 DEF Touched, Column
    <2> QED BY <1>4, <2>1 DEF Toggled
<1> QED BY <1>2, <1>3, <1>4 DEF UpdateFrames

(* A round of any implementation is this one.                              *)
LEMMA RoundIsSame ==
    ASSUME NEW i \in Impls, NEW frame \in ListFrames, NEW d, TablesOK(d), NEW in, NEW ts,
           frame \in UpdateFrames => in.max_updates \in Nat,
           NEW k \in Nat, k # 0, \A j \in 1..(k - 1) : ts[j] # ts[k], Has(d, ts[k]),
           NEW acc, RunInv(frame, d, in, ts, acc, k - 1)
    PROVE  SameRound(frame, d, acc, Body(i, frame, Anew(acc), ts[k], k, in), ts[k], in)
<1> DEFINE t == ts[k]
           a == Anew(acc)
           b == Body(i, frame, a, t, k, in)
<1>1. /\ IsAcc(acc) /\ acc.snap = d /\ TablesOK(acc.db) /\ SameBut(frame, d, acc.db)
      /\ acc.nu \in Nat
    BY DEF RunInv
<1>2. /\ IsAcc(a) /\ a.at = "body" /\ a.db = acc.db /\ a.snap = d
      /\ a.nu = acc.nu /\ a.nf = acc.nf
    BY <1>1, AnewFields
<1> HIDE DEF a
<1>3. Effect(i, frame, a, b, t, in)
    BY <1>1, <1>2, BodyEffect
<1> HIDE DEF b
<1>4. Exists(t) /\ Settled(d, t) /\ (Trade[t].is_cash <=> Paid(d, t))
    BY HasRows
<1>5. (Settled(acc.db, t) <=> Settled(d, t)) /\ (Paid(acc.db, t) <=> Paid(d, t))
    BY <1>1, SameButRows, RowsOfTrade DEF RowsKept
<1> DEFINE src == Source(i, a)
<1>6. src \in {d, acc.db}
    BY <1>2 DEF Source
<1> HIDE DEF src
<1>7. Settled(src, t) /\ Settled(a.db, t) /\ (Trade[t].is_cash <=> Paid(src, t))
    BY <1>2, <1>4, <1>5, <1>6
<1>8. Toggles(i, frame, a, t, in) <=> Changing(frame, acc.nu, t, in)
    BY <1>2, <1>4, <1>7 DEF Toggles, Changing, src
<1>9. ASSUME Changing(frame, acc.nu, t, in)
      PROVE  Toggled(frame, a.db, src, t) = Toggled(frame, acc.db, d, t)
    <2>1. frame \in UpdateFrames /\ (frame = "TUF3" => Trade[t].is_cash)
        BY <1>9 DEF Changing
    <2>2. t \notin Touched(frame, d, acc.db)
        <3>1. Touched(frame, d, acc.db) \subseteq Seen(ts, k - 1)
            BY <2>1 DEF RunInv
        <3>2. t \notin Seen(ts, k - 1)
            BY DEF Seen
        <3> QED BY <3>1, <3>2
    <2>3. Toggled(frame, acc.db, acc.db, t) = Toggled(frame, acc.db, d, t)
        BY <1>1, <2>1, <2>2, OneSource
    <2> QED BY <1>2, <1>6, <2>3
<1>10. b.db = IF Changing(frame, acc.nu, t, in) THEN Toggled(frame, acc.db, d, t) ELSE acc.db
    BY <1>2, <1>3, <1>8, <1>9 DEF Effect, src
<1>11. b.nu = IF Changing(frame, acc.nu, t, in) THEN acc.nu + 1 ELSE acc.nu
    BY <1>2, <1>3, <1>8 DEF Effect
<1>12. b.nf = IF (frame = "TUF1" /\ Changing(frame, acc.nu, t, in)) \/ frame = "TLF1"
              THEN acc.nf + 1 ELSE acc.nf
    BY <1>2, <1>3, <1>4, <1>8 DEF Effect
<1> QED BY <1>10, <1>11, <1>12 DEF SameRound, a, b

(* After every round two implementations have the same tables and counts.  *)
Abreast(a, b) == a.db = b.db /\ a.nu = b.nu /\ a.nf = b.nf

(* Two implementations run in lockstep: after k rounds the same tables and *)
(* counts.                                                                 *)
LEMMA RunsAbreast ==
    ASSUME NEW i \in Impls, NEW j \in Impls, NEW frame \in ListFrames, NEW d, TablesOK(d), NEW in,
           frame \in UpdateFrames => in.max_updates \in Nat,
           NEW n \in Nat, NEW ts, ts = TradesOf(frame, d, in),
           \A p, q \in 1..n : p # q => ts[p] # ts[q], AllHave(d, ts, n),
           NEW acc, IsRun(acc, i, frame, d, in, n),
           \A k \in 0..n : RunInv(frame, d, in, ts, acc[k], k),
           NEW bcc, IsRun(bcc, j, frame, d, in, n),
           \A k \in 0..n : RunInv(frame, d, in, ts, bcc[k], k)
    PROVE  \A k \in 0..n : Abreast(acc[k], bcc[k])
<1> DEFINE Bad == {k \in 0..n : ~Abreast(acc[k], bcc[k])}
<1> SUFFICES ASSUME Bad # {} PROVE FALSE
    OBVIOUS
<1>0. Bad \subseteq Nat
    OBVIOUS
<1>1. PICK k \in Bad : \A m \in Bad : k <= m
    <2> HIDE DEF Bad
    <2> QED BY <1>0, MinOfNaturals
<1>2. k # 0
    <2>1. Abreast(acc[0], bcc[0])
        BY DEF IsRun, First, Start, Abreast
    <2> QED BY <1>1, <2>1
<1>3. k \in 1..n /\ k - 1 \in 0..n /\ k - 1 \notin Bad /\ k \in Nat
    <2> HIDE DEF Bad
    <2>1. k \in 0..n
        BY DEF Bad
    <2> QED BY <1>1, <1>2, <2>1
<1> DEFINE t == ts[k]
           a == acc[k - 1]
           b == bcc[k - 1]
<1>4. Abreast(a, b)
    BY <1>3
<1>5. RunInv(frame, d, in, ts, a, k - 1) /\ RunInv(frame, d, in, ts, b, k - 1)
    BY <1>3
<1>6. /\ acc[k] = Body(i, frame, Anew(a), t, k, in)
      /\ bcc[k] = Body(j, frame, Anew(b), t, k, in)
    BY <1>3 DEF IsRun
<1>7. Has(d, t) /\ \A p \in 1..(k - 1) : ts[p] # t
    BY <1>3 DEF AllHave
<1> HIDE DEF a, b
<1>8. SameRound(frame, d, a, acc[k], t, in) /\ SameRound(frame, d, b, bcc[k], t, in)
    <2>1. SameRound(frame, d, a, Body(i, frame, Anew(a), t, k, in), t, in)
        BY <1>2, <1>3, <1>5, <1>7, RoundIsSame
    <2>2. SameRound(frame, d, b, Body(j, frame, Anew(b), t, k, in), t, in)
        BY <1>2, <1>3, <1>5, <1>7, RoundIsSame
    <2> QED BY <1>6, <2>1, <2>2
<1>9. Abreast(acc[k], bcc[k])
    BY <1>4, <1>8 DEF SameRound, Abreast
<1> QED BY <1>1, <1>9

(* What is collected of a trade of which nothing is missing is its row, or *)
(* Null for the cash transaction a margin trade does not have.             *)
LEMMA CellIsRow ==
    ASSUME NEW e, TablesOK(e), NEW t, Has(e, t), NEW g \in Groups, NEW v, v = Cell(e, g, t)
    PROVE  /\ v # Hole
           /\ v = Null <=> g = "cash" /\ ~Trade[t].is_cash
           /\ v = Null \/ v # Unset
<1>1. Exists(t) /\ t \in Trades /\ Settled(e, t) /\ (Trade[t].is_cash <=> Paid(e, t))
    BY HasRows DEF Exists, Trades
<1>2. ASSUME NEW x \in ExecNames \cup AllCashTypes \cup CtNames
      PROVE  <<t, x>> \notin {Unset, Null, Hole}
    BY <1>1, RowsAssumption DEF ExecNames, AllCashTypes, CtNames, Trades
<1>3. CASE g = "trade"
    <2>1. v = <<t, e.exec[t]>> /\ e.exec[t] \in ExecNames
        BY <1>1, <1>3 DEF Cell, TradeRow, TablesOK
    <2> QED BY <1>2, <1>3, <2>1
<1>4. CASE g = "settlement"
    <2>1. v = <<t, e.settlement[t]>> /\ e.settlement[t] \in AllCashTypes
        BY <1>1, <1>4 DEF Cell, SettlementRow, TablesOK, Settled
    <2> QED BY <1>2, <1>4, <2>1
<1>5. CASE g = "cash"
    <2>1. CASE Trade[t].is_cash
        <3>1. v = <<t, e.cash[t]>> /\ e.cash[t] \in CtNames
            BY <1>1, <1>5, <2>1 DEF Cell, CashRow, TablesOK, Paid
        <3> QED BY <1>2, <1>5, <2>1, <3>1
    <2>2. CASE ~Trade[t].is_cash
        <3>1. v = Null
            BY <1>1, <1>5, <2>2 DEF Cell
        <3> QED BY <1>5, <2>2, <3>1, RowsAssumption
    <2> QED BY <2>1, <2>2
<1>6. CASE g = "history"
    <2> DEFINE h == e.history[t]
               m == Min({3, Len(h)})
               past == SubSeq(h, 1, m)
    <2>1. h \in Seq(Statuses) /\ h # <<>>
        BY <1>1 DEF TablesOK
    <2>2. v = <<t, past>>
        BY <1>1, <1>6, HasRows DEF Cell, HistoryRows, Past
    <2> HIDE DEF h
    <2>3. m \in 1..3 /\ m <= Len(h)
        <3>1. Len(h) \in Nat /\ Len(h) > 0
            BY <2>1
        <3> QED BY <3>1, MinOfTwo
    <2> HIDE DEF m
    <2>4. past \in [1..m -> Statuses]
        <3>1. h \in Seq(Statuses) /\ m \in 1..Len(h)
            BY <2>1, <2>3
        <3>2. past \in Seq(Statuses) /\ Len(past) = m
            BY <3>1
        <3> HIDE DEF past
        <3> QED BY <3>2
    <2> HIDE DEF past
    <2>5. <<t, past>> \notin {Unset, Null, Hole}
        BY <1>1, <2>3, <2>4, RowsAssumption DEF Statuses, Trades
    <2> QED BY <1>6, <2>2, <2>5
<1> QED BY <1>3, <1>4, <1>5, <1>6 DEF Groups

(* A field of trade_info for such a trade.                                 *)
Field(e, g, t) == IF Cell(e, g, t) = Null THEN Unset ELSE Cell(e, g, t)

(* Field g of row k of a complete answer is the row of the k-th trade.     *)
LEMMA FieldIs ==
    ASSUME NEW i \in Impls, NEW n \in Nat, n <= MaxRows, NEW ts, NEW a, Full(i, ts, a, n),
           TablesOK(a.db), AllHave(a.db, ts, n), NEW k \in 1..n, NEW g \in Groups
    PROVE  Info(i, a)[k][g] = Field(a.db, g, ts[k])
<1> DEFINE t == ts[k]
           e == a.db
           v == Cell(e, g, t)
           array == a.arr[g]
           got == Collected(i, e, g, ts, n)
<1>1. k \in 1..MaxRows /\ Has(e, t)
    BY TablesAssumption DEF AllHave
<1>2. array = got
    BY DEF Full
<1>3. v # Hole /\ (v = Null <=> g = "cash" /\ ~Trade[t].is_cash)
    BY <1>1, CellIsRow
<1>4. CASE i = "client"
    <2>1. Info(i, a)[k][g] = IF k \in DOMAIN array THEN array[k] ELSE Unset
        BY <1>1, <1>4 DEF Info, TradeInfo
    <2>2. k \in DOMAIN array <=> ~Skips(i, g, t)
        BY <1>2 DEF Collected, Kept
    <2>3. k \in DOMAIN array => array[k] = v
        BY <1>2 DEF Collected
    <2> QED BY <1>3, <1>4, <2>1, <2>2, <2>3 DEF Skips, Field
<1>5. ASSUME i # "client" PROVE array = [j \in 1..n |-> Cell(e, g, ts[j])]
    <2>1. Kept(i, g, ts, n) = 1..n
        BY <1>5 DEF Kept, Skips
    <2> QED BY <1>2, <2>1 DEF Collected
<1>6. ASSUME i # "client", NEW cols, cols[g] = array
      PROVE  CopyColumns(cols)[k][g] = Field(a.db, g, ts[k])
    <2> DEFINE tokens == TokenizeSmart(array)
    <2>1. CopyColumns(cols)[k][g] = IF k <= Len(tokens) /\ tokens[k] # Null THEN tokens[k] ELSE Unset
        BY <1>1, <1>6 DEF CopyColumns
    <2>2. DOMAIN array = 1..n /\ array[k] = v /\ n \in 1..n /\ 1 \in 1..n
        BY <1>5, <1>6
    <2> HIDE DEF array
    <2>3. /\ Len(tokens) \in DOMAIN array /\ \A y \in DOMAIN array : Len(tokens) >= y
          /\ \A j \in 1..Len(tokens) : tokens[j] = IF j \in DOMAIN array THEN array[j] ELSE Null
        BY <2>2, TokensAre
    <2> HIDE DEF tokens
    <2>4. k <= Len(tokens) /\ tokens[k] = v
        BY <2>2, <2>3
    <2> QED BY <2>1, <2>4 DEF Field
<1>7. CASE i = "plpgsql"
    BY <1>6, <1>7 DEF Info
<1>8. CASE i = "c"
    <2> DEFINE cols == [h \in Groups |-> IF a.arr[h] = <<Hole>> THEN <<>> ELSE a.arr[h]]
    <2>1. array # <<Hole>>
        <3>1. array[k] # Hole /\ DOMAIN array = 1..n
            BY <1>3, <1>5, <1>8
        <3>2. DOMAIN <<Hole>> = 1..1 /\ <<Hole>>[1] = Hole
            OBVIOUS
        <3> HIDE DEF array
        <3>3. ASSUME array = <<Hole>> PROVE FALSE
            <4>1. k \in 1..1
                BY <3>1, <3>2, <3>3
            <4>2. k = 1
                BY <4>1
            <4> QED BY <3>1, <3>2, <3>3, <4>2
        <3> QED BY <3>3
    <2>2. cols[g] = array
        BY <2>1
    <2>3. Info(i, a) = CopyColumns(cols)
        BY <1>8 DEF Info
    <2> HIDE DEF cols
    <2> QED BY <1>6, <1>8, <2>2, <2>3
<1> QED BY <1>4, <1>7, <1>8 DEF Impls

(* trade_info is a table of groups.                                        *)
LEMMA InfoIs ==
    ASSUME NEW i \in Impls, NEW a
    PROVE  \A k \in 1..MaxRows : Info(i, a)[k] = [g \in Groups |-> Info(i, a)[k][g]]
BY DEF Info, TradeInfo, CopyColumns, Impls

(* No array of C is malformed.                                             *)
LEMMA FullIsWellFormed ==
    ASSUME NEW n \in Nat, NEW ts, NEW a, Full("c", ts, a, n), TablesOK(a.db),
           AllHave(a.db, ts, n), NEW g \in Groups
    PROVE  ~Malformed(a.arr[g])
<1>1. a.arr[g] = Collected("c", a.db, g, ts, n)
    BY DEF Full
<1>2. ASSUME NEW j \in DOMAIN a.arr[g] PROVE a.arr[g][j] # Hole
    <2>1. j \in 1..n /\ a.arr[g][j] = Cell(a.db, g, ts[j])
        BY <1>1 DEF Collected, Kept
    <2> QED BY <2>1, CellIsRow DEF AllHave
<1> QED BY <1>2 DEF Malformed

(* Lists that begin alike.                                                 *)
Positions(x, m) == x = [k \in 1..m |-> x[k]]

(* Arrays that agree in their first f rows print the same f rows.          *)
LEMMA SamePrefix ==
    ASSUME NEW m \in Nat, NEW x, Positions(x, m), NEW y, Positions(y, m),
           NEW f \in 0..m, \A k \in 1..f : x[k] = y[k]
    PROVE  SubSeq(x, 1, f) = SubSeq(y, 1, f)
<1> DEFINE S == {x[k] : k \in 1..m} \cup {y[k] : k \in 1..m}
<1>1. x \in [1..m -> S] /\ y \in [1..m -> S]
    BY DEF Positions
<1> HIDE DEF S
<1>2. x \in Seq(S) /\ Len(x) = m /\ y \in Seq(S) /\ Len(y) = m
    BY <1>1
<1> DEFINE p == SubSeq(x, 1, f)
           q == SubSeq(y, 1, f)
<1>3. p \in Seq(S) /\ Len(p) = f /\ \A k \in 1..f : p[k] = x[k]
    BY <1>2
<1>4. q \in Seq(S) /\ Len(q) = f /\ \A k \in 1..f : q[k] = y[k]
    BY <1>2
<1> HIDE DEF p, q
<1>5. p = [k \in 1..f |-> p[k]] /\ q = [k \in 1..f |-> q[k]]
    BY <1>3, <1>4
<1>6. \A k \in 1..f : p[k] = q[k]
    BY <1>3, <1>4
<1>7. p = q
    BY <1>5, <1>6
<1> QED BY <1>7 DEF p, q

(* The row of trade_info for a trade.                                      *)
Fields(e, t) == [g \in Groups |-> Field(e, g, t)]

(* Everything is answered.                                                 *)
FullAnswer(frame, ts, n, a, o) ==
    /\ o.db = a.db /\ o.num_updated = a.nu /\ o.ok = TRUE
    /\ o.num_found = IF frame \in ByIds THEN a.nf ELSE n
    /\ o.num_found \in 0..n
    /\ Positions(o.info, MaxRows)
    /\ \A k \in 1..o.num_found : o.info[k] = Fields(a.db, ts[k])

(* The answer to a run of which nothing is missing.                        *)
LEMMA AnswerIsFull ==
    ASSUME NEW i \in Impls, NEW frame \in ListFrames, NEW d, TablesOK(d), NEW in, NEW ts,
           NEW n \in Nat, n <= MaxRows, AllHave(d, ts, n), NEW a, RunInv(frame, d, in, ts, a, n),
           Work(i, d, ts, a, n, n), NEW o, Answers(i, frame, d, a, n, o)
    PROVE  FullAnswer(frame, ts, n, a, o)
<1>1. Full(i, ts, a, n)
    BY DEF Work
<1>2. TablesOK(a.db) /\ SameBut(frame, d, a.db) /\ a.nf \in 0..n
    BY DEF RunInv
<1>3. AllHave(a.db, ts, n)
    <2>1. \A u : Has(a.db, u) <=> Has(d, u)
        BY <1>2, SameButRows, RowsOfTrade DEF RowsKept
    <2> QED BY <2>1 DEF AllHave
<1>4. i = "c" => a.max_calls = 1 /\ ~\E g \in Groups : Malformed(a.arr[g])
    BY <1>1, <1>2, <1>3, FullIsWellFormed DEF Full
<1>5. /\ o.db = a.db /\ o.num_updated = a.nu /\ o.ok = TRUE
      /\ o.num_found = IF frame \in ByIds THEN a.nf ELSE n
      /\ (o.num_found = 0 /\ o.info = ClearedInfo) \/ o.info = Info(i, a)
    BY <1>4 DEF Answers
<1>6. o.num_found \in 0..n
    BY <1>2, <1>5
<1>7. Positions(o.info, MaxRows)
    <2>1. Positions(ClearedInfo, MaxRows)
        BY DEF ClearedInfo, TradeInfo, Positions
    <2>2. Positions(Info(i, a), MaxRows)
        BY DEF Info, TradeInfo, CopyColumns, Impls, Positions
    <2> QED BY <1>5, <2>1, <2>2
<1>8. ASSUME NEW k \in 1..o.num_found
      PROVE  o.info[k] = Fields(a.db, ts[k])
    <2>1. o.num_found # 0 /\ k \in 1..n /\ k \in 1..MaxRows
        BY <1>6, TablesAssumption
    <2>2. o.info = Info(i, a)
        BY <1>5, <2>1
    <2>3. \A g \in Groups : Info(i, a)[k][g] = Field(a.db, g, ts[k])
        BY <1>1, <1>2, <1>3, <2>1, FieldIs
    <2>4. Info(i, a)[k] = [g \in Groups |-> Info(i, a)[k][g]]
        BY <2>1, InfoIs
    <2> QED BY <2>2, <2>3, <2>4 DEF Fields
<1> QED BY <1>5, <1>6, <1>7, <1>8 DEF FullAnswer

(* Answers that print the same rows, counts and status and leave the same  *)
(* tables behind.                                                          *)
Alike(o, q) ==
    /\ o.db = q.db /\ o.ok = q.ok /\ o.num_found = q.num_found
    /\ o.num_updated = q.num_updated
    /\ SubSeq(o.info, 1, o.num_found) = SubSeq(q.info, 1, q.num_found)

(* Two implementations answer alike when nothing is missing.               *)
LEMMA ListsAgree ==
    ASSUME NEW i \in Impls, NEW j \in Impls, NEW frame \in ListFrames, NEW d, TablesOK(d), NEW in,
           IsInput(frame, in), NEW ts, ts = TradesOf(frame, d, in), AllHave(d, ts, Len(ts)),
           NEW o, o = OutOf(i, frame, d, in), NEW q, q = OutOf(j, frame, d, in)
    PROVE  Alike(o, q)
<1> DEFINE n == Len(ts)
<1>0. n \in Nat /\ n <= MaxRows /\ MaxRows \in Nat
    BY ListOfFrame, TablesAssumption
<1>1. AllHave(d, ts, n) /\ n = Len(ts)
    OBVIOUS
<1>2. \A p, r \in 1..n : p # r => ts[p] # ts[r]
    BY ListOfFrame
<1>3. frame \in UpdateFrames => in.max_updates \in Nat
    BY SuiteAssumption DEF IsInput
<1> HIDE DEF n
<1>4. PICK acc : /\ IsRun(acc, i, frame, d, in, n)
                 /\ \A k \in 0..n : RunInv(frame, d, in, ts, acc[k], k)
                 /\ \A k \in 0..n : Work(i, d, ts, acc[k], k, n)
                 /\ Answers(i, frame, d, acc[n], n, o)
    BY <1>1, WorkOfAnswer
<1>5. PICK bcc : /\ IsRun(bcc, j, frame, d, in, n)
                 /\ \A k \in 0..n : RunInv(frame, d, in, ts, bcc[k], k)
                 /\ \A k \in 0..n : Work(j, d, ts, bcc[k], k, n)
                 /\ Answers(j, frame, d, bcc[n], n, q)
    BY <1>1, WorkOfAnswer
<1>6. \A k \in 0..n : Abreast(acc[k], bcc[k])
    BY <1>0, <1>1, <1>2, <1>3, <1>4, <1>5, RunsAbreast
<1> DEFINE a == acc[n]
           b == bcc[n]
<1>7. n \in 0..n
    BY <1>0
<1>8. /\ RunInv(frame, d, in, ts, a, n) /\ Work(i, d, ts, a, n, n)
      /\ Answers(i, frame, d, a, n, o)
    BY <1>4, <1>7
<1>9. /\ RunInv(frame, d, in, ts, b, n) /\ Work(j, d, ts, b, n, n)
      /\ Answers(j, frame, d, b, n, q)
    BY <1>5, <1>7
<1>10. a.db = b.db /\ a.nu = b.nu /\ a.nf = b.nf
    BY <1>6, <1>7 DEF Abreast
<1> HIDE DEF a, b
<1>11. FullAnswer(frame, ts, n, a, o) /\ FullAnswer(frame, ts, n, b, q)
    <2>1. FullAnswer(frame, ts, n, a, o)
        BY <1>0, <1>1, <1>8, AnswerIsFull
    <2>2. FullAnswer(frame, ts, n, b, q)
        BY <1>0, <1>1, <1>9, AnswerIsFull
    <2> QED BY <2>1, <2>2
<1>12. /\ o.db = q.db /\ o.num_updated = q.num_updated /\ o.ok = q.ok
       /\ o.num_found = q.num_found
    BY <1>10, <1>11 DEF FullAnswer
<1> DEFINE f == o.num_found
           x == o.info
           y == q.info
<1>13. \A k \in 1..f : x[k] = y[k]
    BY <1>10, <1>11, <1>12 DEF FullAnswer
<1>14. /\ Positions(x, MaxRows) /\ Positions(y, MaxRows)
       /\ f \in 0..MaxRows /\ MaxRows \in Nat
    BY <1>0, <1>11 DEF FullAnswer
<1> HIDE DEF f, x, y
<1>15. SubSeq(x, 1, f) = SubSeq(y, 1, f)
    BY <1>13, <1>14, SamePrefix
<1> QED BY <1>12, <1>15 DEF f, x, y, Alike

-----------------------------------------------------------------------------
(* The other frames.                                                       *)

(* Frame 4 of Trade-Lookup.                                                *)
HoldingAnswer(d, in) ==
    LET ts == FirstAfter(d, in)
    IN  IF ts = <<>> THEN Answer4(d, ts, Unset, {})
        ELSE Answer4(d, ts, ts[1], HistoryOfHoldings(ts[1]))

(* NULL, in the place of a trade that was not found, leads to no holding.  *)
LEMMA HoldingsAgree ==
    ASSUME NEW in, NEW answers, IsHoldingAnswer(in, answers), TablesOK(db), NEW i \in Impls
    PROVE  answers[i] = HoldingAnswer(db, in)
<1> DEFINE ts == FirstAfter(db, in)
           S == {t \in DOMAIN Trade : Trade[t].acct = in.acct_id /\ db.dts[t] >= in.start_dts}
<1>1. ts # <<>> => ts[1] # Null
    <2>1. ts = ByDts(db, S, 1)
        BY DEF FirstAfter
    <2>2. S \subseteq Trades /\ (\A x \in S : db.dts[x] \in Nat) /\ 1 \in Nat /\ 1 <= MaxRows
        BY TablesAssumption DEF TablesOK, Trades
    <2> HIDE DEF S, ts
    <2>3. IsList(ts, S)
        BY <2>1, <2>2, ByDtsIsList
    <2>4. ts \in Seq(S)
        BY <2>3 DEF IsList
    <2>5. ASSUME ts # <<>> PROVE ts[1] \in S
        BY <2>4, <2>5
    <2> QED BY <2>2, <2>5, HoldingsAssumption DEF Trades
<1>2. HistoryOfHoldings(Null) = {}
    BY HoldingsAssumption DEF HistoryOfHoldings
<1> HIDE DEF ts
<1>3. ClientTLF4(db, in) = HoldingAnswer(db, in)
    BY DEF ClientTLF4, HoldingAnswer
<1>4. CASE ts = <<>>
    <2>1. HoldingAnswer(db, in) = Answer4(db, ts, Unset, {})
        BY <1>4 DEF HoldingAnswer, ts
    <2>2. PlpgsqlTLF4(db, in) = Answer4(db, ts, Null, {})
        BY <1>2, <1>4 DEF PlpgsqlTLF4, ts
    <2>3. CTLF4(db, in) = Answer4(db, ts, Null, {})
        BY <1>4 DEF CTLF4, ts
    <2>4. ServerTLF4(Answer4(db, ts, Null, {})) = Answer4(db, ts, Unset, {})
        BY DEF ServerTLF4, Answer4
    <2> QED BY <1>3, <2>1, <2>2, <2>3, <2>4 DEF IsHoldingAnswer, Impls
<1>5. CASE ts # <<>>
    <2> DEFINE rows == HistoryOfHoldings(ts[1])
               t == ts[1]
    <2>1. HoldingAnswer(db, in) = Answer4(db, ts, t, rows)
        BY <1>5 DEF HoldingAnswer, ts
    <2>2. PlpgsqlTLF4(db, in) = Answer4(db, ts, t, rows)
        BY <1>5 DEF PlpgsqlTLF4, ts
    <2>3. CTLF4(db, in) = Answer4(db, ts, t, rows)
        BY <1>5 DEF CTLF4, ts
    <2>4. t # Null
        BY <1>1, <1>5
    <2> HIDE DEF rows, t
    <2>5. ServerTLF4(Answer4(db, ts, t, rows)) = Answer4(db, ts, t, rows)
        BY <2>4 DEF ServerTLF4, Answer4
    <2> QED BY <1>3, <2>1, <2>2, <2>3, <2>5 DEF IsHoldingAnswer, Impls
<1> QED BY <1>4, <1>5

(* Trade-Result: the ways of rounding agree off the half cent, and a sum   *)
(* of no rates is no tax.                                                  *)
LEMMA TaxesAgree ==
    ASSUME NEW in, in.gain \in Int, ~HalfCent(in), NEW i \in Impls
    PROVE  TaxOf(i, in) = TaxOf("client", in)
<1> DEFINE x == in.gain * SumOfRates
<1>1. x \in Int /\ x % 1000 # 500
    BY SumOfRatesIsNat DEF HalfCent
<1>2. TaxRates = <<>> => x = 0
    BY SumOfRatesIsNat
<1> HIDE DEF x
<1>3. RoundHalfEven(x) = RoundHalfUp(x)
    BY <1>1 DEF RoundHalfEven
<1>4. TaxRates = <<>> => RoundHalfUp(x) = 0
    BY <1>2 DEF RoundHalfUp
<1> QED BY <1>3, <1>4 DEF TaxOf, x, Impls

(* Off half a cent the three implementations of Trade-Result answer the    *)
(* same.                                                                   *)
LEMMA ResultsAgree ==
    ASSUME NEW in, NEW answers, IsTradeResult(in, answers), ~HalfCent(in), NEW i \in Impls
    PROVE  answers[i] = ResultWith(db, in, TaxOf("client", in))
<1>1. TaxOf(i, in) = TaxOf("client", in)
    BY TaxesAgree DEF IsTradeResult
<1> QED BY <1>1, TradeResultAnswers

(* The table under maintenance.                                            *)
MaintOf(d) ==
    /\ d.maint = [table |-> d.maint.table, rows |-> d.maint.rows]
    /\ d.maint.rows = [k \in DOMAIN d.maint.rows |-> d.maint.rows[k]]
    /\ d.maint.table \in DOMAIN LoadedRows
    /\ DOMAIN d.maint.rows = DOMAIN LoadedRows[d.maint.table]
    /\ KnownRows(d.maint.table, d.maint.rows)

(* The next tax rate, case by case or by the next digit.                   *)
LEMMA TaxRatesAgree ==
    ASSUME NEW tx \in {x \in {"US", "CN"} \X (1..5) : x # <<"CN", 5>>}
    PROVE  /\ CNextTaxRate(tx) = NextTaxRate(tx)
           /\ NextTaxRate(tx) \in {x \in {"US", "CN"} \X (1..5) : x # <<"CN", 5>>}
<1>1. PICK c \in {"US", "CN"}, n \in 1..5 : tx = <<c, n>> /\ ~(c = "CN" /\ n = 5)
    OBVIOUS
<1>2. tx[1] = c /\ tx[2] = n /\ n \in {1, 2, 3, 4, 5}
    BY <1>1
<1>3. CASE c = "US"
    <2>1. NextTaxRate(tx) = <<"US", IF n = 5 THEN 1 ELSE n + 1>>
        BY <1>2, <1>3 DEF NextTaxRate
    <2>2. CNextTaxRate(tx) = <<"US", IF n = 5 THEN 1 ELSE n + 1>>
        BY <1>1, <1>2, <1>3 DEF CNextTaxRate
    <2> QED BY <1>2, <2>1, <2>2
<1>4. CASE c = "CN"
    <2>1. NextTaxRate(tx) = <<"CN", IF n = 4 THEN 1 ELSE n + 1>> /\ n \in 1..4
        BY <1>1, <1>2, <1>4 DEF NextTaxRate
    <2>2. CNextTaxRate(tx) = <<"CN", IF n = 4 THEN 1 ELSE n + 1>>
        BY <1>1, <1>2, <1>4 DEF CNextTaxRate
    <2> QED BY <2>1, <2>2
<1> QED BY <1>3, <1>4

(* The symbols of a watch list have their places.                          *)
Below(W, s) == {w \in W : w < s}

(* Every place below the size of a watch list is taken by one of its       *)
(* securities.                                                             *)
LEMMA PlaceInList ==
    ASSUME NEW W, W \subseteq Nat, IsFiniteSet(W), NEW c \in Nat, c < Cardinality(W)
    PROVE  \E s \in W : Cardinality(Below(W, s)) = c
<1> DEFINE n == Cardinality(W)
           Placed(k) == \E s \in W : Cardinality(Below(W, s)) = k
           Bad == {k \in 0..c : ~Placed(k)}
<1>0. n \in Nat /\ c < n
    BY FS_CardinalityType
<1> HIDE DEF n
<1> SUFFICES ASSUME Bad # {} PROVE FALSE
    OBVIOUS
<1>1. PICK k \in Bad : \A m \in Bad : k <= m
    <2>1. Bad \subseteq Nat
        OBVIOUS
    <2> HIDE DEF Bad
    <2> QED BY <2>1, MinOfNaturals
<1>2. k \in 0..c /\ ~Placed(k) /\ k \in Nat /\ k < n
    BY <1>0
<1>3. k # 0
    <2>1. W # {}
        BY <1>0, FS_EmptySet DEF n
    <2>2. PICK s \in W : \A y \in W : s <= y
        BY <2>1, MinOfNaturals
    <2>3. Below(W, s) = {}
        <3>1. \A y \in W : ~(y < s)
            BY <2>2
        <3> QED BY <3>1 DEF Below
    <2>4. Cardinality(Below(W, s)) = 0
        BY <2>3, FS_EmptySet
    <2> QED BY <1>2, <2>4
<1>4. Placed(k - 1)
    <2>1. k - 1 \in 0..c
        BY <1>2, <1>3
    <2>2. k - 1 \notin Bad
        <3> HIDE DEF Bad
        <3> QED BY <1>1, <1>2, <2>1
    <2> QED BY <2>1, <2>2
<1>5. PICK s \in W : Cardinality(Below(W, s)) = k - 1
    BY <1>4
<1> DEFINE low == Below(W, s)
           more == low \cup {s}
           high == W \ more
<1>6. IsFiniteSet(low) /\ s \notin low /\ low \subseteq W
    <2>1. low \subseteq W /\ s \notin low
        BY DEF Below
    <2> QED BY <2>1, FS_Subset
<1>7. Cardinality(more) = k
    <2>1. Cardinality(low) = k - 1
        BY <1>5
    <2> HIDE DEF low
    <2>2. Cardinality(more) = Cardinality(low) + 1
        BY <1>6, FS_AddElement
    <2> QED BY <1>2, <2>1, <2>2
<1>8. high # {}
    <2>1. more \subseteq W
        BY <1>6
    <2>2. more # W
        <3> HIDE DEF more
        <3> QED BY <1>2, <1>7 DEF n
    <2> QED BY <2>1, <2>2
<1>9. PICK r \in high : \A y \in high : r <= y
    <2>1. high \subseteq Nat
        OBVIOUS
    <2> HIDE DEF high
    <2> QED BY <1>8, <2>1, MinOfNaturals
<1>10. Below(W, r) = more
    <2>1. r \in W /\ r > s
        BY DEF Below
    <2>2. ASSUME NEW w \in W PROVE w < r <=> w \in more
        <3>1. w \in more => w <= s
            BY DEF Below
        <3>2. w \notin more => r <= w
            BY <1>9
        <3>3. w \in Nat /\ r \in Nat /\ s \in Nat
            OBVIOUS
        <3> HIDE DEF more
        <3> QED BY <2>1, <3>1, <3>2, <3>3
    <2>3. more \subseteq W
        BY <1>6
    <2> HIDE DEF more
    <2> QED BY <2>2, <2>3 DEF Below
<1>11. r \in W /\ Cardinality(Below(W, r)) = k
    BY <1>7, <1>10
<1> QED BY <1>2, <1>11

(* A watch list is left with as many symbols, all of them securities.      *)
LEMMA WatchListKeeps ==
    ASSUME NEW W, W \subseteq Securities, W # {}
    PROVE  /\ NewWatchList(W) \subseteq Securities
           /\ Cardinality(NewWatchList(W)) = Cardinality(W)
<1> DEFINE n == Cardinality(W)
           cnt == Max({0, (n + 1) \div 2 - 1})
           old == OldSymbol(W)
           next == NewSymbols(W)
<1>1. IsFiniteSet(W) /\ W \subseteq Nat /\ n \in Nat /\ n # 0
    <2>1. IsFiniteSet(W) /\ W \subseteq Nat
        BY LoadedAssumption, FS_Subset
    <2> QED BY <2>1, FS_CardinalityType, FS_EmptySet
<1>2. cnt \in Nat /\ cnt < n
    <2> DEFINE half == (n + 1) \div 2 - 1
    <2> HIDE DEF n
    <2>1. half \in Nat /\ half < n
        BY <1>1
    <2> HIDE DEF half
    <2>2. Max({0, half}) = half
        BY <2>1, MaxOfTwo
    <2> QED BY <2>1, <2>2 DEF half
<1>3. old \in W
    <2> DEFINE c == cnt
    <2>1. c \in Nat /\ c < Cardinality(W)
        BY <1>2
    <2>2. old = CHOOSE s \in W : Cardinality({w \in W : w < s}) = c
        BY DEF OldSymbol
    <2> HIDE DEF c
    <2>3. \E s \in W : Cardinality({w \in W : w < s}) = c
        BY <1>1, <2>1, PlaceInList DEF Below
    <2> HIDE DEF old
    <2> QED BY <2>2, <2>3, Zenon
<1>4. next \subseteq Securities /\ next \subseteq Nat /\ next \cap W = {}
    BY LoadedAssumption DEF NewSymbols
<1> HIDE DEF old, next, n, cnt
<1>5. CASE next = {}
    BY <1>5 DEF NewWatchList, next
<1>6. CASE next # {}
    <2> DEFINE new == Min(next)
               rest == W \ {old}
    <2>1. new \in next
        BY <1>4, <1>6, MinOfNaturals
    <2>2. NewWatchList(W) = rest \cup {new}
        BY <1>6 DEF NewWatchList, next, old
    <2>3. new \in Securities /\ new \notin rest
        BY <1>4, <2>1
    <2> HIDE DEF new
    <2>4. IsFiniteSet(rest) /\ Cardinality(rest) = n - 1
        BY <1>1, <1>3, FS_RemoveElement DEF n
    <2>5. rest \subseteq Securities
        OBVIOUS
    <2> HIDE DEF rest
    <2>6. Cardinality(rest \cup {new}) = n
        <3>1. Cardinality(rest \cup {new}) = Cardinality(rest) + 1
            BY <2>3, <2>4, FS_AddElement
        <3> QED BY <1>1, <2>4, <3>1
    <2> QED BY <2>2, <2>3, <2>5, <2>6 DEF n
<1> QED BY <1>5, <1>6

(* The rows of a key stay values the frame knows, in every table.          *)
KnownValue(table, key, v) ==
    LET In(Sets) == \E S \in Sets : \A r \in DOMAIN v : v[r] \in S
    IN  CASE table = "ACCOUNT_PERMISSION" -> In({{0, 1, 11, 1111}})
          [] table = "CUSTOMER_TAXRATE" -> v \in {tx \in {"US", "CN"} \X (1..5) : tx # <<"CN", 5>>}
          [] table = "EXCHANGE" -> In({{"plain"}, {"stamped"}})
          [] table = "FINANCIAL" -> In({{1}, {2}})
          [] table = "WATCH_ITEM" ->
                v \subseteq Securities /\ Cardinality(v) = Cardinality(LoadedRows["WATCH_ITEM"][key])
          [] OTHER -> TRUE

(* The rows of a table are known when each one is.                         *)
LEMMA KnownRowsAre ==
    ASSUME NEW table, NEW rows
    PROVE  KnownRows(table, rows) <=> \A k \in DOMAIN rows : KnownValue(table, k, rows[k])
BY DEF KnownRows, KnownValue

(* Data-Maintenance replaces a known value by a known value.               *)
LEMMA ValueStaysKnown ==
    ASSUME NEW table, NEW key, NEW v, KnownValue(table, key, v), NEW impl \in Impls,
           table = "WATCH_ITEM" => v # {}
    PROVE  KnownValue(table, key, NewRows(table, v, impl))
<1> DEFINE new == NewRows(table, v, impl)
<1>1. CASE table = "ACCOUNT_PERMISSION"
    <2> DEFINE acl == Max({v[p] : p \in DOMAIN v})
    <2>1. new = [p \in DOMAIN v |-> IF v[p] # acl THEN v[p] ELSE IF acl # 1111 THEN 1111 ELSE 11]
        BY <1>1 DEF NewRows, NewPermissions
    <2> HIDE DEF acl, new
    <2>2. \A p \in DOMAIN v : v[p] \in {0, 1, 11, 1111}
        BY <1>1 DEF KnownValue
    <2>3. \A p \in DOMAIN new : new[p] \in {0, 1, 11, 1111}
        BY <2>1, <2>2
    <2> QED BY <1>1, <2>3 DEF KnownValue, new
<1>2. CASE table = "CUSTOMER_TAXRATE"
    <2>1. v \in {tx \in {"US", "CN"} \X (1..5) : tx # <<"CN", 5>>}
        BY <1>2 DEF KnownValue
    <2>2. new = NextTaxRate(v)
        BY <1>2, <2>1, TaxRatesAgree DEF NewRows
    <2> HIDE DEF new
    <2>3. new \in {tx \in {"US", "CN"} \X (1..5) : tx # <<"CN", 5>>}
        BY <2>1, <2>2, TaxRatesAgree
    <2> QED BY <1>2, <2>3 DEF KnownValue, new
<1>3. CASE table = "EXCHANGE"
    <2>1. \/ \A x \in DOMAIN v : v[x] = "plain"
          \/ \A x \in DOMAIN v : v[x] = "stamped"
        BY <1>3 DEF KnownValue
    <2>2. new = NewDescriptions(v)
        BY <1>3 DEF NewRows
    <2> HIDE DEF new
    <2>3. \A x \in DOMAIN new : new[x] \in {"stamped"}
        <3>1. CASE \A x \in DOMAIN v : v[x] # "stamped"
            <4>1. new = [x \in DOMAIN v |-> IF v[x] = "plain" THEN "stamped" ELSE v[x]]
                BY <2>2, <3>1 DEF NewDescriptions
            <4>2. \A x \in DOMAIN v : v[x] = "plain"
                BY <2>1, <3>1
            <4> QED BY <4>1, <4>2
        <3>2. CASE ~\A x \in DOMAIN v : v[x] # "stamped"
            <4>1. new = [x \in DOMAIN v |-> IF v[x] = "stamped" THEN "stamped" ELSE "overwritten"]
                BY <2>2, <3>2 DEF NewDescriptions
            <4>2. \A x \in DOMAIN v : v[x] = "stamped"
                BY <2>1, <3>2
            <4> QED BY <4>1, <4>2
        <3> QED BY <3>1, <3>2
    <2> QED BY <1>3, <2>3 DEF KnownValue, new
<1>4. CASE table = "FINANCIAL"
    <2>1. \/ \A q \in DOMAIN v : v[q] = 1
          \/ \A q \in DOMAIN v : v[q] = 2
        BY <1>4 DEF KnownValue
    <2>2. new = NewQuarters(v)
        BY <1>4 DEF NewRows
    <2> HIDE DEF new
    <2>3. \/ \A q \in DOMAIN new : new[q] \in {1}
          \/ \A q \in DOMAIN new : new[q] \in {2}
        <3>1. CASE \E q \in DOMAIN v : v[q] = 1
            <4>1. new = [q \in DOMAIN v |-> v[q] + 1]
                BY <2>2, <3>1 DEF NewQuarters
            <4>2. \A q \in DOMAIN v : v[q] = 1
                BY <2>1, <3>1
            <4> QED BY <4>1, <4>2
        <3>2. CASE ~\E q \in DOMAIN v : v[q] = 1
            <4>1. new = [q \in DOMAIN v |-> v[q] - 1]
                BY <2>2, <3>2 DEF NewQuarters
            <4>2. \A q \in DOMAIN v : v[q] = 2
                BY <2>1, <3>2
            <4> QED BY <4>1, <4>2
        <3> QED BY <3>1, <3>2
    <2> QED BY <1>4, <2>3 DEF KnownValue, new
<1>5. CASE table = "WATCH_ITEM"
    <2>1. v \subseteq Securities /\ v # {}
        BY <1>5 DEF KnownValue
    <2>2. new = NewWatchList(v)
        BY <1>5 DEF NewRows
    <2>3. NewWatchList(v) \subseteq Securities /\ Cardinality(NewWatchList(v)) = Cardinality(v)
        BY <2>1, WatchListKeeps
    <2> HIDE DEF new
    <2> QED BY <1>5, <2>2, <2>3 DEF KnownValue, new
<1>6. CASE table \notin {"ACCOUNT_PERMISSION", "CUSTOMER_TAXRATE", "EXCHANGE", "FINANCIAL", "WATCH_ITEM"}
    BY <1>6 DEF KnownValue
<1> QED BY <1>1, <1>2, <1>3, <1>4, <1>5, <1>6

(* A watch list is never empty.                                            *)
LEMMA WatchListIsNot ==
    ASSUME NEW d, MaintOf(d), d.maint.table = "WATCH_ITEM", NEW key \in DOMAIN d.maint.rows
    PROVE  d.maint.rows[key] # {}
<1> DEFINE v == d.maint.rows[key]
           w == LoadedRows["WATCH_ITEM"][key]
<1>1. "WATCH_ITEM" \in DOMAIN LoadedRows /\ key \in DOMAIN LoadedRows["WATCH_ITEM"]
    BY DEF MaintOf
<1>2. w # {} /\ KnownRows("WATCH_ITEM", LoadedRows["WATCH_ITEM"])
    BY <1>1, LoadedAssumption
<1>3. w \subseteq Securities
    BY <1>1, <1>2 DEF KnownRows
<1>4. Cardinality(v) = Cardinality(w)
    BY DEF MaintOf, KnownRows
<1> HIDE DEF v, w
<1>5. IsFiniteSet(w)
    BY <1>3, LoadedAssumption, FS_Subset
<1>6. Cardinality(w) # 0 /\ Cardinality({}) = 0
    BY <1>2, <1>5, FS_EmptySet
<1>7. v # {}
    BY <1>4, <1>6
<1> QED BY <1>7 DEF v

(* The table stays as it should, whichever implementation maintains it.    *)
LEMMA UpdateKeepsMaint ==
    ASSUME NEW d, TablesOK(d), MaintOf(d), NEW in, in.table_name = d.maint.table, NEW impl \in Impls,
           NEW e, UpdateRows(d, in, impl) = e
    PROVE  MaintOf(e)
<1> DEFINE table == d.maint.table
           rows == d.maint.rows
           key == in.key
           v == NewRows(table, rows[key], impl)
           new == [rows EXCEPT ![key] = v]
<1>1. CASE key \notin DOMAIN rows
    BY <1>1 DEF UpdateRows
<1>2. CASE key \in DOMAIN rows
    <2>1. e.maint = [d.maint EXCEPT !.rows = new]
        <3>1. e = [d EXCEPT !.maint = NewMaint(d.maint, in, impl)]
            BY UpdateRowsIsMaint
        <3>2. NewMaint(d.maint, in, impl) = [d.maint EXCEPT !.rows = new]
            BY <1>2 DEF NewMaint
        <3> QED BY <3>1, <3>2 DEF TablesOK, IsDb
    <2>2. e.maint.table = table /\ e.maint.rows = new /\ e.maint = [table |-> table, rows |-> new]
        BY <2>1 DEF MaintOf
    <2>3. KnownValue(table, key, v)
        <3>1. KnownValue(table, key, rows[key])
            BY <1>2, KnownRowsAre DEF MaintOf
        <3>2. table = "WATCH_ITEM" => rows[key] # {}
            BY <1>2, WatchListIsNot
        <3> HIDE DEF table, rows, key
        <3> QED BY <3>1, <3>2, ValueStaysKnown
    <2> HIDE DEF v
    <2>4. DOMAIN new = DOMAIN rows /\ new = [k \in DOMAIN new |-> new[k]]
        OBVIOUS
    <2>5. \A k \in DOMAIN new : KnownValue(table, k, new[k])
        <3>1. \A k \in DOMAIN rows : KnownValue(table, k, rows[k])
            BY KnownRowsAre DEF MaintOf
        <3>2. \A k \in DOMAIN rows : new[k] = IF k = key THEN v ELSE rows[k]
            OBVIOUS
        <3> HIDE DEF new, rows, table, key
        <3> QED BY <2>3, <2>4, <3>1, <3>2
    <2>6. table \in DOMAIN LoadedRows /\ DOMAIN rows = DOMAIN LoadedRows[table]
        BY DEF MaintOf
    <2> HIDE DEF new, rows, table, key
    <2>7. KnownRows(table, new)
        BY <2>5, KnownRowsAre
    <2> QED BY <2>2, <2>4, <2>6, <2>7 DEF MaintOf
<1> QED BY <1>1, <1>2

(* Data-Maintenance does the same in every implementation: what C rolls    *)
(* back, the others do not find either.                                    *)
LEMMA NothingToUpdate ==
    ASSUME NEW d, TablesOK(d), MaintOf(d), NEW in, in.table_name = d.maint.table,
           NothingFound(d, in), NEW impl
    PROVE  UpdateRows(d, in, impl) = d
<1> DEFINE rows == d.maint.rows
           key == in.key
<1>1. CASE key \notin DOMAIN rows
    BY <1>1 DEF UpdateRows
<1>2. CASE key \in DOMAIN rows
    <2>1. in.table_name = "WATCH_ITEM" /\ NewSymbols(rows[key]) = {}
        BY <1>2 DEF NothingFound
    <2>2. NewRows(in.table_name, rows[key], impl) = rows[key]
        BY <2>1 DEF NewRows, NewWatchList
    <2>3. [rows EXCEPT ![key] = rows[key]] = rows
        BY DEF MaintOf
    <2>4. NewMaint(d.maint, in, impl) = [d.maint EXCEPT !.rows = rows]
        BY <1>2, <2>2, <2>3 DEF NewMaint
    <2>5. [d.maint EXCEPT !.rows = rows] = d.maint
        BY DEF MaintOf
    <2>6. [d EXCEPT !.maint = d.maint] = d
        BY DEF TablesOK, IsDb
    <2>7. UpdateRows(d, in, impl) = [d EXCEPT !.maint = NewMaint(d.maint, in, impl)]
        BY UpdateRowsIsMaint
    <2> QED BY <2>4, <2>5, <2>6, <2>7
<1> QED BY <1>1, <1>2

(* The three implementations of Data-Maintenance write the same rows.      *)
LEMMA UpdatesAgree ==
    ASSUME NEW d, TablesOK(d), MaintOf(d), NEW in, in.table_name = d.maint.table, NEW impl \in Impls
    PROVE  UpdateRows(d, in, impl) = UpdateRows(d, in, "client")
<1> DEFINE rows == d.maint.rows
           key == in.key
           table == in.table_name
<1>1. CASE key \notin DOMAIN rows
    BY <1>1 DEF UpdateRows
<1>2. CASE key \in DOMAIN rows
    <2>1. NewRows(table, rows[key], impl) = NewRows(table, rows[key], "client")
        <3>1. CASE table = "CUSTOMER_TAXRATE"
            <4>1. rows[key] \in {tx \in {"US", "CN"} \X (1..5) : tx # <<"CN", 5>>}
                BY <1>2, <3>1 DEF MaintOf, KnownRows
            <4> HIDE DEF rows, key, table
            <4>2. CNextTaxRate(rows[key]) = NextTaxRate(rows[key])
                BY <4>1, TaxRatesAgree
            <4> QED BY <3>1, <4>2 DEF NewRows
        <3>2. CASE table # "CUSTOMER_TAXRATE"
            <4> HIDE DEF rows, key, table
            <4> QED BY <3>2 DEF NewRows
        <3> QED BY <3>1, <3>2
    <2>2. NewMaint(d.maint, in, impl) = NewMaint(d.maint, in, "client")
        BY <1>2, <2>1 DEF NewMaint
    <2> QED BY <2>2, UpdateRowsIsMaint
<1> QED BY <1>1, <1>2

(* A status of 0 is success.                                               *)
LEMMA StatusIsOk ==
    ASSUME NEW d, NEW res, res.status = 0
    PROVE  ServerDMF1(d, res).ok = TRUE
<1>1. ServerDMF1(d, res) = [ok |-> (res.status = 0), db |-> res.db]
    BY DEF ServerDMF1
<1>2. ServerDMF1(d, res) = [ok |-> TRUE, db |-> res.db]
    BY <1>1
<1> QED BY <1>2

(* The three leave the same tables, and say so when they found the row.    *)
LEMMA MaintenanceAgrees ==
    ASSUME NEW in, NEW answers, IsMaintenance(in, answers), TablesOK(db), MaintOf(db),
           NEW i \in Impls
    PROVE  /\ answers[i].db = answers["client"].db
           /\ in.table_name \in Maintained /\ ~NothingFound(db, in) => answers[i].ok = TRUE
<1> DEFINE up == UpdateRows(db, in, "client")
<1>1. in.table_name = db.maint.table
    BY DEF IsMaintenance
<1>2. UpdateRows(db, in, "plpgsql") = up /\ UpdateRows(db, in, "c") = up
    BY <1>1, UpdatesAgree DEF Impls
<1>3. NothingFound(db, in) => up = db
    BY <1>1, NothingToUpdate
<1>4. answers["client"].db = IF in.table_name \in Maintained THEN up ELSE db
    BY <1>3 DEF IsMaintenance, ClientDMF1
<1> HIDE DEF up
<1>5. answers["plpgsql"].db = IF in.table_name \in Maintained THEN up ELSE db
    BY <1>2 DEF IsMaintenance, ServerDMF1, PlpgsqlDMF1
<1>6. answers["c"].db = IF in.table_name \in Maintained THEN up ELSE db
    BY <1>2, <1>3 DEF IsMaintenance, ServerDMF1, CDMF1
<1>7. ASSUME in.table_name \in Maintained, ~NothingFound(db, in)
      PROVE  /\ answers["client"].ok = TRUE /\ answers["plpgsql"].ok = TRUE
             /\ answers["c"].ok = TRUE
    <2>1. PlpgsqlDMF1(db, in).status = 0 /\ CDMF1(db, in).status = 0
        BY <1>7 DEF PlpgsqlDMF1, CDMF1
    <2>2. ServerDMF1(db, PlpgsqlDMF1(db, in)).ok = TRUE /\ ServerDMF1(db, CDMF1(db, in)).ok = TRUE
        BY <2>1, StatusIsOk
    <2>3. ClientDMF1(db, in).ok = TRUE
        BY DEF ClientDMF1
    <2> QED BY <2>2, <2>3 DEF IsMaintenance
<1> QED BY <1>4, <1>5, <1>6, <1>7 DEF Impls

-----------------------------------------------------------------------------
(* The invariant with the table under maintenance.                         *)

WholeInv == SuiteInv /\ MaintOf(db)

(* Whatever the frame, the maintained table keeps values the frame knows.  *)
LEMMA AnswersKeepMaint ==
    ASSUME WholeInv, asked # Nothing, NEW i \in Impls
    PROVE  MaintOf(out[i].db)
<1>1. TablesOK(db) /\ MaintOf(db) /\ IsAnswer(asked.frame, asked.in, out)
    BY DEF WholeInv, SuiteInv, AskedInv
<1> DEFINE frame == asked.frame
           in == asked.in
<1>2. ASSUME NEW e, e.maint = db.maint PROVE MaintOf(e)
    BY <1>1, <1>2 DEF MaintOf
<1>3. CASE IsListAnswer(frame, in, out)
    <2>1. frame \in ListFrames /\ IsInput(frame, in) /\ out[i] = OutOf(i, frame, db, in)
        BY <1>3 DEF IsListAnswer
    <2> DEFINE ts == TradesOf(frame, db, in)
               n == Len(ts)
    <2> HIDE DEF frame, in
    <2>2. PICK acc : /\ \A k \in 0..n : RunInv(frame, db, in, ts, acc[k], k)
                     /\ Answers(i, frame, db, acc[n], n, OutOf(i, frame, db, in))
        BY <1>1, <2>1, AnswerOfRun
    <2>3. n \in 0..n
        BY <1>1, <2>1, ListOfFrame, TablesAssumption
    <2> HIDE DEF ts, n
    <2>4. TablesOK(acc[n].db) /\ SameBut(frame, db, acc[n].db)
        BY <2>2, <2>3 DEF RunInv
    <2>5. acc[n].db.maint = db.maint
        BY <1>1, <2>1, <2>4 DEF SameBut, TablesOK, IsDb, ListFrames, UpdateFrames
    <2>6. out[i].db \in {db, acc[n].db}
        BY <2>1, <2>2 DEF Answers
    <2> QED BY <1>2, <2>5, <2>6
<1>4. CASE IsHoldingAnswer(in, out)
    <2> HIDE DEF in
    <2>1. out[i].db = db
        BY <1>4, HoldingKeepsTables
    <2> QED BY <1>1, <2>1
<1>5. CASE IsTradeResult(in, out)
    <2> HIDE DEF in
    <2> DEFINE tax == TaxOf(i, in)
               e == SettledBy(db, in, tax).db
    <2>1. out[i].db = e
        <3>1. out[i] = ResultWith(db, in, tax)
            BY <1>5, TradeResultAnswers
        <3> QED BY <3>1 DEF ResultWith
    <2>2. in.trade_id \in Trades
        BY <1>5 DEF IsTradeResult
    <2> HIDE DEF tax
    <2>3. e.maint = db.maint
        BY <1>1, <2>2, ResultTables
    <2> QED BY <1>2, <2>1, <2>3
<1>6. CASE IsMaintenance(in, out)
    <2> HIDE DEF in
    <2>1. out[i].db \in {db, UpdateRows(db, in, i)}
        BY <1>1, <1>6, MaintenanceAnswers
    <2>2. MaintOf(UpdateRows(db, in, i))
        BY <1>1, <1>6, UpdateKeepsMaint DEF IsMaintenance
    <2> QED BY <1>1, <2>1, <2>2
<1> QED BY <1>1, <1>3, <1>4, <1>5, <1>6 DEF IsAnswer

(* It holds in every state of a behaviour.                                 *)
THEOREM WholeInvariant == Spec => []WholeInv
<1>1. Init => WholeInv
    <2> SUFFICES ASSUME Init PROVE WholeInv
        OBVIOUS
    <2>1. PICK table \in DOMAIN LoadedRows : db = LoadedTables(table)
        BY DEF Init
    <2>2. db.maint = [table |-> table, rows |-> LoadedRows[table]]
        BY <2>1 DEF LoadedTables
    <2>3. TablesOK(db) /\ MoneyOf(db)
        BY <2>1, LoadedTablesAreOK
    <2>4. /\ LoadedRows[table] = [k \in DOMAIN LoadedRows[table] |-> LoadedRows[table][k]]
          /\ KnownRows(table, LoadedRows[table])
        BY LoadedAssumption
    <2>5. db.maint.table = table /\ db.maint.rows = LoadedRows[table]
        BY <2>2
    <2>6. MaintOf(db)
        BY <2>2, <2>4, <2>5 DEF MaintOf
    <2> QED BY <2>3, <2>6 DEF Init, SuiteInv, AskedInv, WholeInv
<1>2. WholeInv /\ [Next]_vars => WholeInv'
    <2> SUFFICES ASSUME WholeInv, [Next]_vars PROVE WholeInv'
        OBVIOUS
    <2>1. SuiteInv'
        BY SuiteStep DEF WholeInv
    <2>2. CASE NextFrame
        <3>1. PICK i \in Impls : db' = out[i].db
            BY <2>2 DEF NextFrame
        <3>2. MaintOf(out[i].db)
            BY <2>2, AnswersKeepMaint DEF NextFrame
        <3>3. MaintOf(db')
            BY <3>1, <3>2
        <3>4. MaintOf(db)'
            BY <3>3 DEF MaintOf
        <3> QED BY <2>1, <3>4 DEF WholeInv
    <2>3. CASE ~NextFrame
        <3>1. db' = db
            BY <2>3 DEF Next, vars, Run, DoTradeUpdateFrame1, DoTradeUpdateFrame2,
                DoTradeUpdateFrame3, DoTradeLookupFrame1, DoTradeLookupFrame2,
                DoTradeLookupFrame3, DoTradeLookupFrame4, DoTradeResult, DoDataMaintenanceFrame1
        <3>2. MaintOf(db)'
            BY <3>1 DEF WholeInv, MaintOf
        <3> QED BY <2>1, <3>2 DEF WholeInv
    <2> QED BY <2>2, <2>3
<1> QED BY <1>1, <1>2, PTL DEF Spec

-----------------------------------------------------------------------------
(* The comparison.                                                         *)

(* What an answer is about, and what is known of it.                       *)
LEMMA AnswerCases ==
    ASSUME WholeInv, asked # Nothing
    PROVE  /\ TablesOK(db) /\ MaintOf(db)
           /\ \/ asked.frame \in ListFrames /\ IsListAnswer(asked.frame, asked.in, out)
              \/ asked.frame = "TLF4" /\ IsHoldingAnswer(asked.in, out)
              \/ asked.frame = "TR" /\ IsTradeResult(asked.in, out)
              \/ asked.frame = "DM" /\ IsMaintenance(asked.in, out)
BY DEF WholeInv, SuiteInv, AskedInv, IsAnswer, IsListAnswer

(* Comparable answers to a frame over a list.                              *)
LEMMA ListAnswersAgree ==
    ASSUME TablesOK(db), asked.frame \in ListFrames, IsListAnswer(asked.frame, asked.in, out),
           AllComplete, NEW i \in Impls, NEW j \in Impls
    PROVE  out[i].db = out[j].db /\ Printed(out[i]) = Printed(out[j])
<1> DEFINE frame == asked.frame
           in == asked.in
           ts == LookedAt
           d == db
           o == out[i]
           q == out[j]
<1>1. /\ IsInput(frame, in) /\ o = OutOf(i, frame, d, in) /\ q = OutOf(j, frame, d, in)
      /\ frame \in ListFrames /\ TablesOK(d)
    BY DEF IsListAnswer
<1>2. ts = TradesOf(frame, d, in) /\ AllHave(d, ts, Len(ts))
    BY <1>1, LookedAtIs
<1>3. /\ Printed(o) = <<o.ok, o.num_found, o.num_updated, SubSeq(o.info, 1, o.num_found)>>
      /\ Printed(q) = <<q.ok, q.num_found, q.num_updated, SubSeq(q.info, 1, q.num_found)>>
    <2> HIDE DEF o, q
    <2> QED BY <1>1 DEF Printed, ListFrames, UpdateFrames
<1> HIDE DEF frame, in, ts, d, o, q
<1>4. Alike(o, q)
    BY <1>1, <1>2, ListsAgree
<1>5. Printed(o) = Printed(q)
    BY <1>3, <1>4, Zenon DEF Alike
<1>6. o.db = q.db
    BY <1>4 DEF Alike
<1> QED BY <1>5, <1>6 DEF o, q

(* The client, plpgsql and C leave the same tables behind: of complete     *)
(* trades, of a Trade-Result whose tax does not fall on half a cent, and   *)
(* of every Data-Maintenance; whatever the tables are and whichever        *)
(* implementations ran before.                                             *)
THEOREM TablesAreSame == Spec => []SameTables
<1>1. WholeInv => SameTables
    <2> SUFFICES ASSUME WholeInv, asked # Nothing, Comparable \/ asked.frame = "DM",
                        NEW i \in Impls, NEW j \in Impls
                 PROVE  out[i].db = out[j].db
        BY DEF SameTables
    <2>1. CASE asked.frame \in ListFrames
        <3>1. TablesOK(db) /\ IsListAnswer(asked.frame, asked.in, out)
            BY <2>1, AnswerCases DEF ListFrames, UpdateFrames
        <3>2. AllComplete
            BY <2>1 DEF Comparable, ListFrames, UpdateFrames
        <3> QED BY <2>1, <3>1, <3>2, ListAnswersAgree
    <2>2. CASE asked.frame = "TLF4"
        <3>1. IsHoldingAnswer(asked.in, out)
            BY <2>2, AnswerCases DEF ListFrames, UpdateFrames
        <3>2. out[i].db = db /\ out[j].db = db
            BY <3>1, HoldingKeepsTables
        <3> QED BY <3>2
    <2>3. CASE asked.frame = "TR"
        <3>1. IsTradeResult(asked.in, out)
            BY <2>3, AnswerCases DEF ListFrames, UpdateFrames
        <3>2. ~HalfCent(asked.in)
            BY <2>3 DEF Comparable
        <3>3. out[i] = out[j]
            BY <3>1, <3>2, ResultsAgree
        <3> QED BY <3>3
    <2>4. CASE asked.frame = "DM"
        <3>1. IsMaintenance(asked.in, out) /\ TablesOK(db) /\ MaintOf(db)
            BY <2>4, AnswerCases DEF ListFrames, UpdateFrames
        <3>2. out[i].db = out["client"].db /\ out[j].db = out["client"].db
            BY <3>1, MaintenanceAgrees
        <3> QED BY <3>2
    <2> QED BY <2>1, <2>2, <2>3, <2>4, AnswerCases
<1> QED BY <1>1, WholeInvariant, PTL

(* They print the same frame output, wherever the test suite may compare   *)
(* them: rows, counts, tax, rate and balance.                              *)
THEOREM OutputIsSame == Spec => []SameFrameOutput
<1>1. WholeInv => SameFrameOutput
    <2> SUFFICES ASSUME WholeInv, asked # Nothing, Comparable, NEW i \in Impls, NEW j \in Impls
                 PROVE  Printed(out[i]) = Printed(out[j])
        BY DEF SameFrameOutput
    <2>1. CASE asked.frame \in ListFrames
        <3>1. TablesOK(db) /\ IsListAnswer(asked.frame, asked.in, out)
            BY <2>1, AnswerCases DEF ListFrames, UpdateFrames
        <3>2. AllComplete
            BY DEF Comparable
        <3> QED BY <2>1, <3>1, <3>2, ListAnswersAgree
    <2>2. CASE asked.frame = "TLF4"
        <3>1. IsHoldingAnswer(asked.in, out) /\ TablesOK(db)
            BY <2>2, AnswerCases DEF ListFrames, UpdateFrames
        <3>2. out[i] = out[j]
            BY <3>1, HoldingsAgree
        <3> QED BY <3>2
    <2>3. CASE asked.frame = "TR"
        <3>1. IsTradeResult(asked.in, out)
            BY <2>3, AnswerCases DEF ListFrames, UpdateFrames
        <3>2. ~HalfCent(asked.in)
            BY <2>3 DEF Comparable
        <3>3. out[i] = out[j]
            BY <3>1, <3>2, ResultsAgree
        <3> QED BY <3>3
    <2>4. CASE asked.frame = "DM"
        <3>1. IsMaintenance(asked.in, out) /\ TablesOK(db) /\ MaintOf(db)
            BY <2>4, AnswerCases DEF ListFrames, UpdateFrames
        <3>2. asked.in.table_name \in Maintained /\ ~NothingFound(db, asked.in)
            BY <2>4 DEF Comparable
        <3>3. out[i].ok = TRUE /\ out[j].ok = TRUE
            BY <3>1, <3>2, MaintenanceAgrees
        <3>4. Printed(out[i]) = out[i].ok /\ Printed(out[j]) = out[j].ok
            BY <2>4 DEF Printed, ListFrames, UpdateFrames
        <3> QED BY <3>3, <3>4
    <2> QED BY <2>1, <2>2, <2>3, <2>4, AnswerCases
<1> QED BY <1>1, WholeInvariant, PTL

(* The tables keep their shape, the maintained ones the values that        *)
(* Data-Maintenance knows, and num_found its limit.                        *)
THEOREM TypesAreKept == Spec => []TypeOK
<1>1. WholeInv => TypeOK
    <2> SUFFICES ASSUME WholeInv PROVE TypeOK
        OBVIOUS
    <2>1. TablesOK(db) /\ MaintOf(db)
        BY DEF WholeInv, SuiteInv
    <2>2. MaintainedOK
        BY <2>1 DEF MaintOf, MaintainedOK
    <2>3. db.exec \in [Trades -> {"John Doe", "John X Doe"}]
        BY <2>1 DEF TablesOK, ExecNames
    <2>4. DOMAIN db.settlement = DOMAIN db.se_amt
        BY <2>1 DEF TablesOK
    <2>5. \A t \in DOMAIN db.settlement : db.settlement[t] \in
              IF Trade[t].is_cash THEN {"Cash", "Cash Account"} ELSE {"Margin", "Margin Account"}
        BY <2>1 DEF TablesOK, CashTypes
    <2>6. \A t \in DOMAIN db.cash : db.cash[t] \in {"shares of", "Shares of"}
        BY <2>1 DEF TablesOK, CtNames
    <2>7. ASSUME asked.frame \in ListFrames, NEW i \in Impls
          PROVE  out[i].num_found \in 0..MaxRows
        <3> DEFINE frame == asked.frame
                   in == asked.in
                   o == OutOf(i, frame, db, in)
                   ts == TradesOf(frame, db, in)
                   n == Len(ts)
        <3>1. IsListAnswer(frame, in, out)
            BY <2>7, AnswerCases DEF ListFrames, UpdateFrames, Nothing
        <3>2. frame \in ListFrames /\ IsInput(frame, in) /\ out[i] = o
            BY <3>1 DEF IsListAnswer
        <3> HIDE DEF frame, in
        <3>3. PICK acc : /\ \A k \in 0..n : RunInv(frame, db, in, ts, acc[k], k)
                         /\ Answers(i, frame, db, acc[n], n, o)
            BY <2>1, <3>2, AnswerOfRun
        <3>4. n \in 0..MaxRows /\ MaxRows \in Nat
            BY <2>1, <3>2, ListOfFrame, TablesAssumption
        <3> HIDE DEF o, ts, n
        <3>5. n \in 0..n
            BY <3>4
        <3>6. acc[n].nf \in 0..n
            BY <3>3, <3>5 DEF RunInv
        <3>7. o.num_found \in {0, n, acc[n].nf}
            BY <3>3 DEF Answers
        <3> QED BY <3>2, <3>4, <3>6, <3>7
    <2> QED BY <2>2, <2>3, <2>4, <2>5, <2>6, <2>7 DEF TypeOK
<1> QED BY <1>1, WholeInvariant, PTL
=============================================================================
