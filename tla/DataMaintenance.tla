--------------------------- MODULE DataMaintenance ---------------------------
(***************************************************************************)
(* Frame 1 of Data-Maintenance: one row or a few of one table are changed, *)
(* to and fro, in the client, in plpgsql and in C.                         *)
(*                                                                         *)
(* db.maint is the table under maintenance: its name and its rows by the   *)
(* key the frame is called with (account, customer, company, symbol and    *)
(* day, tax rate; "all" for exchange).  Of a row there is what the frame   *)
(* tells apart: the digits of an ACL, the part of an address after the @,  *)
(* whether "Tax" is capitalised, how often a day or a volume was added.    *)
(***************************************************************************)
EXTENDS FrameTables

CONSTANT Securities     \* s_symb of security, as numbers in their order

Selecting == {"ACCOUNT_PERMISSION", "ADDRESS", "COMPANY", "CUSTOMER",
              "CUSTOMER_TAXRATE", "TAXRATE", "WATCH_ITEM"}
NotSelecting == {"DAILY_MARKET", "EXCHANGE", "FINANCIAL", "NEWS_ITEM", "SECURITY"}
Maintained == Selecting \cup NotSelecting

-----------------------------------------------------------------------------
(* What becomes of the rows of a key, table by table.                      *)

(* The permissions with the largest ACL of the account.                    *)
NewPermissions(acls) ==
    LET acl == Max({acls[p] : p \in DOMAIN acls})
    IN  [p \in DOMAIN acls |->
            IF acls[p] # acl THEN acls[p] ELSE IF acl # 1111 THEN 1111 ELSE 11]

NewLine2(line2) == IF line2 # "Apt. 10C" THEN "Apt. 10C" ELSE "Apt. 22"

NewSpRate(sprate) == IF sprate # "ABA" THEN "ABA" ELSE "AAA"

NewEmail(isp) == IF isp = "mindspring.com" THEN "earthlink.com" ELSE "mindspring.com"

(* US1 to US5 and CN1 to CN4 in turn, spelled out case by case ...         *)
NextTaxRate(tx) ==
    <<tx[1], IF tx[1] = "US" THEN CASE tx[2] = 5 -> 1 [] tx[2] = 4 -> 5 [] tx[2] = 3 -> 4
                                    [] tx[2] = 2 -> 3 [] OTHER -> 2
             ELSE CASE tx[2] = 4 -> 1 [] tx[2] = 3 -> 4 [] tx[2] = 2 -> 3 [] OTHER -> 2>>

(* ... or by the next digit.                                               *)
CNextTaxRate(tx) ==
    IF tx = <<"US", 5>> \/ tx = <<"CN", 4>> THEN <<tx[1], 1>> ELSE <<tx[1], tx[2] + 1>>

NewTaxName(name) ==
    CASE name = " Tax " -> " tax " [] name = " tax " -> " Tax " [] OTHER -> name

(* The time stamp at the end of every description is put there, or, if any *)
(* has one already, takes the place of the last characters.                *)
NewDescriptions(desc) ==
    IF \A x \in DOMAIN desc : desc[x] # "stamped"
    THEN [x \in DOMAIN desc |-> IF desc[x] = "plain" THEN "stamped" ELSE desc[x]]
    ELSE [x \in DOMAIN desc |-> IF desc[x] = "stamped" THEN "stamped" ELSE "overwritten"]

(* The day of the month of the quarters of a company, all moved together.  *)
NewQuarters(days) ==
    IF \E q \in DOMAIN days : days[q] = 1
    THEN [q \in DOMAIN days |-> days[q] + 1] ELSE [q \in DOMAIN days |-> days[q] - 1]

(* The symbol in the middle of the watch list, and the next one in the     *)
(* alphabet that is not on it.                                             *)
OldSymbol(watched) ==
    LET cnt == Max({0, (Cardinality(watched) + 1) \div 2 - 1})
    IN  CHOOSE s \in watched : Cardinality({w \in watched : w < s}) = cnt
NewSymbols(watched) == {s \in Securities : s > OldSymbol(watched) /\ s \notin watched}
NewWatchList(watched) ==
    IF NewSymbols(watched) = {} THEN watched
    ELSE (watched \ {OldSymbol(watched)}) \cup {Min(NewSymbols(watched))}

NewRows(table, rows, impl) ==
    CASE table = "ACCOUNT_PERMISSION" -> NewPermissions(rows)
      [] table = "ADDRESS"            -> NewLine2(rows)
      [] table = "COMPANY"            -> NewSpRate(rows)
      [] table = "CUSTOMER"           -> NewEmail(rows)
      [] table = "CUSTOMER_TAXRATE"   -> IF impl = "c" THEN CNextTaxRate(rows) ELSE NextTaxRate(rows)
      [] table = "DAILY_MARKET"       -> rows + 1
      [] table = "EXCHANGE"           -> NewDescriptions(rows)
      [] table = "FINANCIAL"          -> NewQuarters(rows)
      [] table = "NEWS_ITEM"          -> rows + 1
      [] table = "SECURITY"           -> rows + 1
      [] table = "TAXRATE"            -> NewTaxName(rows)
      [] table = "WATCH_ITEM"         -> NewWatchList(rows)

(* UPDATE ... WHERE key, which no row may match.                           *)
UpdateRows(db, in, impl) ==
    IF in.key \notin DOMAIN db.maint.rows THEN db
    ELSE [db EXCEPT !.maint.rows[in.key] = NewRows(in.table_name, @, impl)]

-----------------------------------------------------------------------------
(* The frame.  status is what the stored function returns.                 *)

(* The SELECT before the UPDATE finds no row, or no symbol for the list.   *)
NothingFound(db, in) ==
    /\ in.table_name \in Selecting
    /\ in.key \in DOMAIN db.maint.rows =>
            in.table_name = "WATCH_ITEM" /\ NewSymbols(db.maint.rows[in.key]) = {}

(* The client returns early, which nobody can tell from success, also for  *)
(* a table it does not know.                                               *)
ClientDMF1(db, in) ==
    [ok |-> TRUE,
     db |-> IF NothingFound(db, in) \/ in.table_name \notin Maintained THEN db
            ELSE UpdateRows(db, in, "client")]

(* plpgsql goes on with NULL, for which an UPDATE finds no row.            *)
PlpgsqlDMF1(db, in) ==
    IF in.table_name \in Maintained
    THEN [status |-> 0, db |-> UpdateRows(db, in, "plpgsql")]
    ELSE [status |-> 1, db |-> db]

CDMF1(db, in) ==
    IF in.table_name \in Maintained /\ ~NothingFound(db, in)
    THEN [status |-> 0, db |-> UpdateRows(db, in, "c")]
    ELSE [status |-> 1, db |-> db]

(* Any status but 0 is rolled back and thrown.                             *)
ServerDMF1(db, res) ==
    [ok |-> res.status = 0, db |-> IF res.status = 0 THEN res.db ELSE db]
=============================================================================
