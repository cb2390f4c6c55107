----------------------------- MODULE RequestKinds -----------------------------
(***************************************************************************)
(* The classes of requests and responses of the TWS API, and what their    *)
(* methods decide: the id a message carries, what a request does on its    *)
(* way to TWS, which responses are meant for it, which cancel messages are *)
(* about it.  The tables follow the order of the source; a kind is the     *)
(* name of its class without "ib_msg_" (requests) or "ib_msg_resp_".       *)
(***************************************************************************)
EXTENDS TLC

(* Requests, and the id each carries *)

ScannerKinds ==
  [req_scanner_parameters |-> "none", req_scanner_subscription |-> "ticker",
   cancel_scanner_subscription |-> "ticker"]
MarketDataKinds ==
  [req_mkt_data |-> "ticker", req_historical_data |-> "ticker",
   cancel_historical_data |-> "ticker", cancel_mkt_data |-> "ticker"]
OrderKinds ==
  [exercise_options |-> "ticker", place_order |-> "order", cancel_order |-> "order",
   req_open_orders |-> "none"]
AccountKinds ==
  [req_account_updates |-> "none", req_executions |-> "ticker", req_ids |-> "none",
   req_contract_details |-> "ticker"]
DepthAndNewsKinds ==
  [req_mkt_depth |-> "ticker", cancel_mkt_depth |-> "ticker",
   req_news_bulletins |-> "none", cancel_news_bulletins |-> "none"]
SessionKinds ==
  [set_server_log_level |-> "none", req_auto_open_orders |-> "none",
   req_all_open_orders |-> "none", req_managed_accts |-> "none"]
AdvisorKinds ==
  [request_fa |-> "none", replace_fa |-> "none", req_current_time |-> "none"]
FundamentalKinds ==
  [req_fundamental_data |-> "ticker", cancel_fundamental_data |-> "ticker"]
CalculationKinds ==
  [calculate_implied_volatility |-> "ticker",
   cancel_calculate_implied_volatility |-> "ticker",
   calculate_option_price |-> "ticker", cancel_calculate_option_price |-> "ticker"]
OtherKinds ==
  [req_global_cancel |-> "none", req_market_data_type |-> "none",
   request_realtime_bars |-> "ticker", cancel_realtime_bars |-> "ticker"]

IdOf ==
  ScannerKinds @@ MarketDataKinds @@ OrderKinds @@ AccountKinds @@ DepthAndNewsKinds
    @@ SessionKinds @@ AdvisorKinds @@ FundamentalKinds @@ CalculationKinds @@ OtherKinds

Kinds == DOMAIN IdOf

-----------------------------------------------------------------------------
(* Responses, and the id each carries *)

TickResponses ==
  [tick_price |-> "ticker", tick_size |-> "ticker", tick_option_computation |-> "ticker",
   tick_generic |-> "ticker", tick_string |-> "ticker", tick_efp |-> "ticker"]
OrderResponses ==
  [order_status |-> "none", open_order |-> "none", open_order_end |-> "none"]
AccountResponses ==
  [update_account_value |-> "none", update_portfolio |-> "none",
   update_account_time |-> "none", next_valid_id |-> "none"]
ContractResponses ==
  [contract_details |-> "ticker", contract_details_end |-> "ticker",
   bond_contract_details |-> "ticker", exec_details |-> "none",
   exec_details_end |-> "ticker"]
ReportResponses ==
  [error |-> "ticker", update_mkt_depth |-> "ticker", update_mkt_depth_l2 |-> "ticker",
   update_news_bulletin |-> "none", managed_accounts |-> "none"]
HistoryResponses ==
  [receive_fa |-> "none", historical_data |-> "ticker", historical_data_end |-> "ticker"]
ScannerResponses ==
  [scanner_parameters |-> "none", scanner_data |-> "ticker",
   scanner_data_end |-> "ticker", scanner_data_start |-> "ticker"]
LateResponses ==
  [current_time |-> "none", realtime_bar |-> "ticker", fundamental_data |-> "ticker",
   delta_neutral_validation |-> "ticker", acct_download_end |-> "none",
   tick_snapshot_end |-> "ticker", market_data_type |-> "ticker",
   commission_report |-> "none"]

ResponseIdOf ==
  TickResponses @@ OrderResponses @@ AccountResponses @@ ContractResponses
    @@ ReportResponses @@ HistoryResponses @@ ScannerResponses @@ LateResponses

Responses == DOMAIN ResponseIdOf

\* The callbacks of the TWS library, in their order: each makes one response and
\* has the manager process it.
EarlyCallbacks ==
  {"tick_price", "tick_size", "tick_option_computation", "tick_generic", "tick_string",
   "tick_efp", "order_status", "open_order", "update_account_value",
   "update_portfolio", "update_account_time", "next_valid_id"}
MiddleCallbacks ==
  {"contract_details", "bond_contract_details", "exec_details", "error",
   "update_mkt_depth", "update_mkt_depth_l2", "update_news_bulletin",
   "managed_accounts", "receive_fa", "historical_data", "historical_data_end"}
LateCallbacks ==
  {"scanner_parameters", "scanner_data", "scanner_data_start", "scanner_data_end",
   "current_time", "realtime_bar", "fundamental_data", "contract_details_end",
   "open_order_end", "delta_neutral_validation", "acct_download_end"}
LastCallbacks ==
  {"exec_details_end", "tick_snapshot_end", "market_data_type", "commission_report"}
CalledBack == EarlyCallbacks \cup MiddleCallbacks \cup LateCallbacks \cup LastCallbacks

\* The responses whose handler in the manager lets the requests look at them, in
\* its order. Some handlers do something of their own first: see MarketScans for
\* an error.
EarlyHandled ==
  {"tick_price", "tick_size", "tick_option_computation", "tick_generic", "tick_string",
   "tick_efp", "order_status", "open_order", "open_order_end", "update_account_value",
   "update_portfolio", "update_account_time", "next_valid_id", "contract_details"}
MiddleHandled ==
  {"contract_details_end", "bond_contract_details", "exec_details", "exec_details_end",
   "error"}
LateHandled ==
  {"update_mkt_depth", "update_mkt_depth_l2", "update_news_bulletin",
   "managed_accounts", "receive_fa", "historical_data", "historical_data_end",
   "scanner_parameters", "scanner_data", "scanner_data_end", "scanner_data_start",
   "current_time", "realtime_bar"}
LastHandled ==
  {"fundamental_data", "delta_neutral_validation", "acct_download_end",
   "tick_snapshot_end", "market_data_type", "commission_report"}

\* What TWS says and the requests hear of.
Reported ==
  CalledBack \cap (EarlyHandled \cup MiddleHandled \cup LateHandled \cup LastHandled)

-----------------------------------------------------------------------------
(* On the way to TWS *)

\* tx_*() cancels the requests the message is about before it goes on. The
\* handlers in two parts, as they follow each other.
EarlyCancels ==
  {"cancel_scanner_subscription", "cancel_historical_data", "cancel_mkt_data",
   "cancel_order", "cancel_mkt_depth", "cancel_news_bulletins"}
LateCancels ==
  {"cancel_fundamental_data", "cancel_calculate_implied_volatility",
   "cancel_calculate_option_price", "req_global_cancel", "cancel_realtime_bars"}
Cancels == EarlyCancels \cup LateCancels

\* f_commence_transmit() calls tx() for these; for all others it does nothing
\* in a release build, and fails an assertion in a debug build. In two parts.
EarlyTransmits ==
  {"req_scanner_parameters", "req_scanner_subscription", "cancel_scanner_subscription"}
LateTransmits == {"req_current_time"}

\* Faulty variant: the calls of the second part are forgotten.
TransmitsEarly == EarlyTransmits
Transmits == EarlyTransmits \cup LateTransmits

-----------------------------------------------------------------------------
(* Matching *)

\* response_is_meant_for_us(): what a request that was transmitted listens to.
ListensTo(k) ==
  CASE k = "req_scanner_parameters"   -> {"scanner_parameters"}
    [] k = "req_scanner_subscription" ->
         {"scanner_data", "scanner_data_start", "scanner_data_end", "error"}
    [] k = "req_current_time"         -> {"current_time"}
    [] OTHER                          -> {}

\* process_response_message(): the kinds that are ended by a response; all others
\* only log it. In two parts.
EarlyAnswered == {"req_scanner_parameters", "req_scanner_subscription"}
LateAnswered == {"req_current_time"}
Answered == EarlyAnswered \cup LateAnswered

\* cancel_request_is_meant_for_us(): the request of the first kind is cancelled
\* by a message of the second. The methods, again in two parts.
EarlyVictims ==
  [req_scanner_subscription |-> {"cancel_scanner_subscription"},
   req_mkt_data |-> {"cancel_mkt_data"},
   req_historical_data |-> {"cancel_historical_data"},
   place_order |-> {"cancel_order", "req_global_cancel"},
   req_mkt_depth |-> {"cancel_mkt_depth"},
   req_news_bulletins |-> {"cancel_news_bulletins"}]
LateVictims ==
  [req_fundamental_data |-> {"cancel_fundamental_data"},
   calculate_implied_volatility |-> {"cancel_calculate_implied_volatility"},
   calculate_option_price |-> {"cancel_calculate_option_price"},
   request_realtime_bars |-> {"cancel_realtime_bars"}]

CancelledBy(k) ==
  CASE k \in DOMAIN EarlyVictims -> EarlyVictims[k]
    [] k \in DOMAIN LateVictims  -> LateVictims[k]
    [] OTHER                     -> {}

\* These two cancel whatever is of the kind; the others the request of one id.
CancelsAll == {"cancel_news_bulletins", "req_global_cancel"}
=============================================================================
