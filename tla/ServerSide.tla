----------------------------- MODULE ServerSide ------------------------------
(***************************************************************************)
(* How DBConnectionServerSide calls the stored functions of Trade-Lookup   *)
(* and Trade-Update, in plpgsql or in C, and fills the output structure of *)
(* the frame from the one row they return: scalars, and per column the     *)
(* text of an array.                                                       *)
(***************************************************************************)
EXTENDS FrameTables

(* The trade ids as an array literal: max_trades of them, at least one.    *)
TradeIdLiteral(in) == SubSeq(in.trade_id, 1, Max({1, in.max_trades}))

(* The text of a plpgsql array whose first element is missing begins with  *)
(* its bounds ("[2:3]={...}"), which is taken for an empty array; elements *)
(* missing further on are NULL.                                            *)
TokenizeSmart(array) ==
    IF 1 \notin DOMAIN array THEN <<>>
    ELSE [i \in 1..Max(DOMAIN array) |-> IF i \in DOMAIN array THEN array[i] ELSE Null]

(* Column after column is copied to trade_info, as far as it has rows; a   *)
(* length other than num_found is reported and not an error.  NULL, 0 and  *)
(* '' leave a field as the caller has cleared it.                          *)
CopyColumns(cols) ==
    LET tokens == [g \in Groups |-> TokenizeSmart(cols[g])]
    IN  [i \in 1..MaxRows |-> [g \in Groups |->
            IF i <= Len(tokens[g]) /\ tokens[g][i] # Null THEN tokens[g][i] ELSE Unset]]

(* No row leaves the output as the caller has cleared it.                  *)
ClearedInfo == TradeInfo([g \in Groups |-> EmptyArray])

LookupOutput(res) ==
    [ok |-> res.ok, db |-> res.db, num_updated |-> 0,
     num_found |-> res.row.num_found,
     info |-> IF res.row = NoRow THEN ClearedInfo ELSE CopyColumns(res.row.cols)]

UpdateOutput(res) == [LookupOutput(res) EXCEPT !.num_updated = res.row.num_updated]

-----------------------------------------------------------------------------
(* execute() for each frame: res is what the stored function answers to    *)
(* ServerInput, for the frames that pass trade ids, or to the plain input. *)

ServerInput(in) == [in EXCEPT !.trade_id = TradeIdLiteral(in)]

ServerTLF1(res) == LookupOutput(res)
ServerTLF2(res) == LookupOutput(res)
ServerTLF3(res) == LookupOutput(res)

(* A row of holding_history is at the same position in four columns.       *)
ServerTLF4(res) ==
    [ok |-> res.ok, db |-> res.db, num_trades_found |-> res.num_trades_found,
     num_found |-> res.num_found, rows |-> res.rows,
     trade_id |-> IF res.trade_id = Null THEN Unset ELSE res.trade_id]

ServerTUF1(res) == UpdateOutput(res)
ServerTUF2(res) == UpdateOutput(res)
ServerTUF3(res) == UpdateOutput(res)
=============================================================================
