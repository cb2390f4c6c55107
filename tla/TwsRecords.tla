----------------------------- MODULE TwsRecords ------------------------------
(***************************************************************************)
(* The records of a message, and the copies of them that are lent to the   *)
(* TWS library while the message is transmitted: made by prep_for_tws(),   *)
(* passed by to_tws(), released by cleanup_after_tws(), in the order of    *)
(* the message's tx() method.  The fields of a record do not touch each    *)
(* other, so that one field is followed at a time, whichever it is; with   *)
(* the blocks of memory it takes.                                          *)
(*                                                                         *)
(* A field is optional: a value and whether it is valid.  Asking for the   *)
(* value of an invalid one stores the default that the caller suggests.    *)
(***************************************************************************)
EXTENDS RecordFields, RequestKinds, Integers, Sequences

CONSTANT MaxBlocks  \* bound: a copy takes two; more are in use if some were lost

ASSUME RecordsAssumption == MaxBlocks \in Nat

VARIABLES
  field,   \* the field that is followed
  init,    \* what the library's tws_init_*() sets it to
  held,    \* the program's value: m_stored_value and m_is_valid
  given,   \* the value the program, or a record of TWS's, gave it last
  lent,    \* the field in m_tws_data, if there is a copy
  blocks,  \* how many blocks of memory are in use
  todo     \* what is left of the tx() that runs, if one does

recordVars == <<field, init, held, given, lent, blocks, todo>>

\* "zero" is 0, NULL, false, an empty text or list, as the field has it; "preset"
\* is a value the library may set a field to; "odd" is a slot TWS does not know, and
\* a delta-neutral part that has zeros only.
Values == {"zero", "preset", "other", "odd"}
Nothing == "nothing"

OrderRead == OrderAmountsRead \cup OrderTextsRead \cup OrderListsRead
               \cup OrderCountsRead \cup OrderFlagsRead
OrderSent == OrderAmountsSent \cup OrderTextsSent \cup OrderListsSent
               \cup OrderCountsSent \cup OrderFlagsSent

Lists == OrderListsRead \cup {"c_comboleg"}
Parts == Lists \cup {"c_undercomp"}
Read  == ContractRead \cup OrderRead \cup FilterRead \cup ScannerRead \cup Parts
Sent  == ContractSent \cup OrderSent \cup FilterSent \cup ScannerSent \cup Parts

\* Read whatever the value is: flags of an order, texts of the two small records
\* (only the pointer is looked at), lists, and the delta-neutral part, of which
\* the constructor makes one of zeros if the record has none.
Texts == {"f_acctcode", "f_time", "f_symbol", "f_sectype", "f_exchange", "f_side",
          "scan_exclude_convertible", "scan_instrument", "scan_location_code",
          "scan_maturity_date_above", "scan_maturity_date_below",
          "scan_moody_rating_above", "scan_moody_rating_below", "scan_code",
          "scan_sp_rating_above", "scan_sp_rating_below",
          "scan_scanner_setting_pairs", "scan_stock_type_filter"}
AlwaysRead == OrderFlagsRead \cup Texts \cup Parts

-----------------------------------------------------------------------------
(* optional_value *)

Unset(stored) == [valid |-> FALSE, stored |-> stored]
Some(v) == [valid |-> TRUE, stored |-> v]

\* A slot of a short sale that is not one of the two known is taken for none; no
\* delta-neutral part for one of zeros.
Converted(v) ==
  CASE field = "o_short_sale_slot" -> IF v = "other" THEN v ELSE "zero"
    [] field = "c_undercomp"       -> IF v = "zero" THEN "odd" ELSE v
    [] OTHER                       -> v

-----------------------------------------------------------------------------

NoCopy == [there |-> FALSE]

RecordsInit ==
  /\ field \in Read \cup Sent
  /\ init \in {"zero", "preset"}
  /\ field \in Parts => init = "zero"
  /\ held = Unset("zero")
  /\ given = Nothing
  /\ lent = NoCopy
  /\ blocks = 0
  /\ todo = <<>>

-----------------------------------------------------------------------------
(* The program fills the record in, before it is transmitted *)

Kept == todo = <<>> /\ UNCHANGED <<field, init, lent, blocks, todo>>

\* The constructor that reads a record of TWS's.
Construct(v) ==
  /\ field \in Parts => v \in {"zero", "other"}
  /\ IF field \in Read /\ (v # "zero" \/ field \in AlwaysRead)
     THEN held' = Some(Converted(v)) /\ given' = Converted(v)
     ELSE held' = Unset("zero") /\ given' = Nothing
  /\ Kept

\* value(default)
Peek(v) ==
  /\ field \notin Parts
  /\ held' = IF held.valid THEN held ELSE Unset(v)
  /\ UNCHANGED given
  /\ Kept

\* set(), operator=
Set(v) ==
  /\ field \in Parts => v \in {"zero", "other"}
  /\ held' = Some(v)
  /\ given' = v
  /\ Kept

\* clear()
Clear ==
  /\ held' = [held EXCEPT !.valid = FALSE]
  /\ given' = Nothing
  /\ field \notin Lists
  /\ Kept

-----------------------------------------------------------------------------
(* tx() *)

RecordOf ==
  CASE field \in ContractRead \cup ContractSent \cup {"c_comboleg", "c_undercomp"} -> "contract"
    [] field \in OrderRead \cup OrderSent                                       -> "order"
    [] field \in FilterRead \cup FilterSent                                     -> "filter"
    [] OTHER                                                                    -> "subscription"

Does(op, r) == [op |-> op, record |-> r]
Call == Does("call", "none")
With(r) == <<Does("prep", r), Does("pass", r), Call, Does("cleanup", r)>>

OrderOfContract ==
  <<Does("prep", "contract"), Does("prep", "order"), Does("pass", "contract"),
    Does("pass", "order"), Call, Does("cleanup", "order"), Does("cleanup", "contract")>>

\* The methods that pass a record, in two parts as they follow each other. The
\* call may fail; the method goes on in any case.
EarlyTx ==
  [req_scanner_subscription |-> With("subscription"), req_mkt_data |-> With("contract"),
   req_historical_data |-> With("contract"), exercise_options |-> With("contract"),
   place_order |-> OrderOfContract]

LateTx ==
  [req_executions |-> With("filter"), req_contract_details |-> With("contract"),
   req_mkt_depth |-> With("contract"), req_fundamental_data |-> With("contract"),
   calculate_implied_volatility |-> With("contract"),
   calculate_option_price |-> With("contract"),
   request_realtime_bars |-> With("contract")]

\* All others only call.
Tx(k) ==
  CASE k \in DOMAIN EarlyTx -> EarlyTx[k]
    [] k \in DOMAIN LateTx  -> LateTx[k]
    [] OTHER                -> <<Call>>

\* A message of kind k is transmitted, with the record that holds the field if
\* its kind has one.
Begin(k) ==
  /\ todo = <<>> /\ blocks < MaxBlocks
  /\ todo' = Tx(k)
  /\ UNCHANGED <<field, init, held, given, lent, blocks>>

Doing(op) == todo # <<>> /\ Head(todo) = Does(op, RecordOf)
Done == todo' = Tail(todo)

\* A step of tx() that is about another record, or the call itself.
Other ==
  /\ todo # <<>> /\ Head(todo).record # RecordOf
  /\ Done
  /\ UNCHANGED <<field, init, held, given, lent, blocks>>

\* A list has a block if it is not empty, the delta-neutral part if it is valid.
Block(h) ==
  IF \/ field \in Lists /\ h.stored # "zero"
     \/ field = "c_undercomp" /\ h.valid
  THEN 1 ELSE 0

\* The value that prep_for_tws() fills in.
Filled ==
  IF field \in Sent /\ (held.valid \/ field \in Lists) THEN held.stored ELSE init

PartsAgain   == ContractPartsAgain \cup OrderPartsAgain
PartsCleaned == ContractPartsCleaned \cup OrderPartsCleaned

\* The block of the field, if this releases fields of the given names.
Released(names) == IF field \in names THEN lent.block ELSE 0

\* prep_for_tws(): the record is made, or the old one's parts are released; it is
\* initialised by the library, and what is valid is filled in.
Prep ==
  /\ Doing("prep")
  /\ blocks' = blocks + Block(held) + (IF lent.there THEN -Released(PartsAgain) ELSE 1)
  /\ lent' = [there |-> TRUE, value |-> Filled, block |-> Block(held)]
  /\ Done
  /\ UNCHANGED <<field, init, held, given>>

\* to_tws()
Pass ==
  /\ Doing("pass")
  /\ Done
  /\ UNCHANGED <<field, init, held, given, lent, blocks>>

\* cleanup_after_tws()
Cleanup ==
  /\ Doing("cleanup")
  /\ blocks' = blocks - 1 - Released(PartsCleaned)
  /\ lent' = NoCopy
  /\ Done
  /\ UNCHANGED <<field, init, held, given>>

Fill ==
  \/ \E v \in Values : Construct(v)
  \/ \E v \in Values \ {"odd"} : Peek(v) \/ Set(v)
  \/ Clear

RecordsNext == Fill \/ (\E k \in Kinds : Begin(k)) \/ Prep \/ Pass \/ Cleanup \/ Other

RecordsSpec == RecordsInit /\ [][RecordsNext]_recordVars

-----------------------------------------------------------------------------
(* Safety *)

\* What TWS is passed, of every field of every record and in every kind of
\* message, is what the field was given last before the transmission, by the
\* program or by a record of TWS's; and the library's own value if it was given
\* none.  A default that somebody suggested when asking for the value is never
\* sent, and TWS never gets a NULL pointer or a copy of an earlier transmission.
SentAsGiven ==
  Doing("pass") =>
    /\ lent.there
    /\ lent.value = IF given = Nothing THEN init ELSE given

\* The blocks in use are those of the copy that is lent, and after tx() nothing
\* is lent any more, whatever the kind of the message and the values: no block
\* is forgotten, none is released twice, no copy outlives the call.
NothingLeaks ==
  /\ blocks = IF lent.there THEN 1 + lent.block ELSE 0
  /\ todo = <<>> => ~lent.there
=============================================================================
