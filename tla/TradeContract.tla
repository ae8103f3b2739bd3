--------------------------- MODULE TradeContract ----------------------------
(***************************************************************************)
(* What the life of a trade promises to whoever reads the database, with   *)
(* nothing of transactions, sessions, snapshots, processes or the market:  *)
(* trades are accepted, limit orders are triggered together, a submitted   *)
(* trade completes and moves money in the same instant, and what is left   *)
(* over is canceled all at once.  Every status a trade passes through is   *)
(* in its history, and completed and canceled trades never change again.   *)
(***************************************************************************)
EXTENDS Naturals

CONSTANT Trades

VARIABLES
    status,         \* "none" before the trade is accepted
    money,          \* how often the trade has been paid for
    brokerTrades,   \* trades counted for the broker
    history         \* trade and status

vars == <<status, money, brokerTrades, history>>

Init ==
    /\ status = [t \in Trades |-> "none"]
    /\ money = [t \in Trades |-> 0]
    /\ brokerTrades = 0
    /\ history = {}

With(st) == {t \in Trades : status[t] = st}

Become(S, st) == status' = [t \in Trades |-> IF t \in S THEN st ELSE status[t]]

Accept(t) ==
    /\ status[t] = "none"
    /\ \E st \in {"PNDG", "SBMT"} :
        /\ Become({t}, st)
        /\ history' = history \cup {<<t, st>>}
    /\ UNCHANGED <<money, brokerTrades>>

Trigger(S) ==
    /\ S \subseteq With("PNDG")
    /\ Become(S, "SBMT")
    /\ history' = history \cup (S \X {"SBMT"})
    /\ UNCHANGED <<money, brokerTrades>>

Complete(t) ==
    /\ status[t] = "SBMT"
    /\ Become({t}, "CMPT")
    /\ money' = [money EXCEPT ![t] = @ + 1]
    /\ brokerTrades' = brokerTrades + 1
    /\ history' = history \cup {<<t, "CMPT">>}

(* Everything that is unfinished; a pending order is submitted first.      *)
CancelAll ==
    LET S == With("PNDG") \cup With("SBMT")
    IN  /\ Become(S, "CNCL")
        /\ history' = history \cup (S \X {"SBMT", "CNCL"})
        /\ UNCHANGED <<money, brokerTrades>>

Next ==
    \/ \E t \in Trades : Accept(t) \/ Complete(t)
    \/ \E S \in SUBSET Trades : Trigger(S)
    \/ CancelAll

Spec == Init /\ [][Next]_vars
=============================================================================
