---------------------------- MODULE RecordFields -----------------------------
(***************************************************************************)
(* The records that are lent to the TWS library, field by field: what the  *)
(* constructor reads from a record of TWS's, and what prep_for_tws() fills *)
(* in for TWS. The lists are written out by hand on either side, with one  *)
(* statement for every field; their order is the source's.                 *)
(***************************************************************************)

(* ib_contract *)

ContractRead ==
  {"c_strike", "c_symbol", "c_sectype", "c_exchange", "c_primary_exch", "c_expiry",
   "c_currency", "c_right", "c_local_symbol", "c_multiplier", "c_combolegs_descrip",
   "c_secid_type", "c_secid", "c_conid", "c_include_expired"}

ContractSent ==
  {"c_strike", "c_symbol", "c_sectype", "c_exchange", "c_primary_exch", "c_expiry",
   "c_currency", "c_right", "c_local_symbol", "c_multiplier", "c_combolegs_descrip",
   "c_secid_type", "c_secid", "c_conid", "c_include_expired"}

\* The fields that are kept in blocks of their own: which of them preparing a
\* contract again releases, and which cleaning up does.
ContractPartsAgain == {"c_undercomp", "c_comboleg"}
ContractPartsCleaned == {"c_undercomp", "c_comboleg"}

-----------------------------------------------------------------------------
(* ib_order *)

OrderAmountsRead ==
  {"o_discretionary_amt", "o_lmt_price", "o_aux_price", "o_percent_offset",
   "o_nbbo_price_cap", "o_starting_price", "o_stock_ref_price", "o_delta",
   "o_stock_range_lower", "o_stock_range_upper", "o_volatility",
   "o_delta_neutral_aux_price", "o_trail_stop_price", "o_trailing_percent",
   "o_basis_points", "o_scale_price_increment", "o_scale_price_adjust_value",
   "o_scale_profit_offset"}
OrderTextsRead ==
  {"o_algo_strategy", "o_good_after_time", "o_good_till_date", "o_fagroup", "o_famethod",
   "o_fapercentage", "o_faprofile", "o_action", "o_order_type", "o_tif", "o_oca_group",
   "o_account", "o_open_close", "o_orderref", "o_designated_location", "o_rule80a",
   "o_settling_firm", "o_delta_neutral_order_type", "o_clearing_account",
   "o_clearing_intent", "o_hedge_type", "o_hedge_param", "o_delta_neutral_settling_firm",
   "o_delta_neutral_clearing_account", "o_delta_neutral_clearing_intent"}
OrderListsRead ==
  {"o_algo_params", "o_smart_combo_routing_params", "o_combo_legs"}
OrderCountsRead ==
  {"o_orderid", "o_total_quantity", "o_origin", "o_clientid", "o_permid", "o_parentid",
   "o_display_size", "o_trigger_method", "o_min_qty", "o_volatility_type",
   "o_reference_price_type", "o_basis_points_type", "o_scale_subs_level_size",
   "o_scale_init_level_size", "o_scale_price_adjust_interval", "o_scale_init_position",
   "o_scale_init_fill_qty", "o_exempt_code", "o_delta_neutral_con_id", "o_oca_type",
   "o_auction_strategy", "o_short_sale_slot"}
OrderFlagsRead ==
  {"o_override_percentage_constraints", "o_firm_quote_only", "o_etrade_only",
   "o_all_or_none", "o_outside_rth", "o_hidden", "o_transmit", "o_block_order",
   "o_sweep_to_fill", "o_continuous_update", "o_whatif", "o_not_held",
   "o_opt_out_smart_routing", "o_scale_auto_reset", "o_scale_random_percent"}

OrderAmountsSent ==
  {"o_discretionary_amt", "o_lmt_price", "o_aux_price", "o_percent_offset",
   "o_nbbo_price_cap", "o_starting_price", "o_stock_ref_price", "o_delta",
   "o_stock_range_lower", "o_stock_range_upper", "o_volatility",
   "o_delta_neutral_aux_price", "o_trail_stop_price", "o_trailing_percent",
   "o_basis_points", "o_scale_price_increment", "o_scale_price_adjust_value",
   "o_scale_profit_offset"}
OrderTextsSent ==
  {"o_algo_strategy", "o_good_after_time", "o_good_till_date", "o_fagroup", "o_famethod",
   "o_fapercentage", "o_faprofile", "o_action", "o_order_type", "o_tif", "o_oca_group",
   "o_account", "o_open_close", "o_orderref", "o_designated_location", "o_rule80a",
   "o_settling_firm", "o_delta_neutral_order_type", "o_clearing_account",
   "o_clearing_intent", "o_hedge_type", "o_hedge_param", "o_delta_neutral_settling_firm",
   "o_delta_neutral_clearing_account", "o_delta_neutral_clearing_intent"}
OrderListsSent ==
  {"o_algo_params", "o_smart_combo_routing_params", "o_combo_legs"}
OrderCountsSent ==
  {"o_orderid", "o_total_quantity", "o_origin", "o_clientid", "o_permid", "o_parentid",
   "o_display_size", "o_trigger_method", "o_min_qty", "o_volatility_type",
   "o_reference_price_type", "o_basis_points_type", "o_scale_subs_level_size",
   "o_scale_init_level_size", "o_scale_price_adjust_interval", "o_scale_init_position",
   "o_scale_init_fill_qty", "o_exempt_code", "o_delta_neutral_con_id", "o_oca_type",
   "o_auction_strategy", "o_short_sale_slot"}

\* Faulty variant: the last statement is missing.
OrderFlagsButOne == OrderFlagsRead \ {"o_scale_random_percent"}

OrderFlagsSent ==
  {"o_override_percentage_constraints", "o_firm_quote_only", "o_etrade_only",
   "o_all_or_none", "o_outside_rth", "o_hidden", "o_transmit", "o_block_order",
   "o_sweep_to_fill", "o_continuous_update", "o_whatif", "o_not_held",
   "o_opt_out_smart_routing", "o_scale_auto_reset", "o_scale_random_percent"}

OrderPartsAgain == {"o_algo_params", "o_smart_combo_routing_params", "o_combo_legs"}

\* Faulty variant: the legs stay.
OrderPartsButLegs == {"o_algo_params", "o_smart_combo_routing_params"}
OrderPartsCleaned == {"o_algo_params", "o_smart_combo_routing_params", "o_combo_legs"}

-----------------------------------------------------------------------------
(* ib_exec_filter and ib_scanner_subscription; neither has parts *)

FilterRead ==
  {"f_acctcode", "f_time", "f_symbol", "f_sectype", "f_exchange", "f_side", "f_clientid"}
FilterSent ==
  {"f_acctcode", "f_time", "f_symbol", "f_sectype", "f_exchange", "f_side", "f_clientid"}

ScannerRead ==
  {"scan_above_price", "scan_below_price", "scan_coupon_rate_above",
   "scan_coupon_rate_below", "scan_market_cap_above", "scan_market_cap_below",
   "scan_exclude_convertible", "scan_instrument", "scan_location_code",
   "scan_maturity_date_above", "scan_maturity_date_below", "scan_moody_rating_above",
   "scan_moody_rating_below", "scan_code", "scan_sp_rating_above", "scan_sp_rating_below",
   "scan_scanner_setting_pairs", "scan_stock_type_filter", "scan_above_volume",
   "scan_number_of_rows", "scan_average_option_volume_above"}
ScannerSent ==
  {"scan_above_price", "scan_below_price", "scan_coupon_rate_above",
   "scan_coupon_rate_below", "scan_market_cap_above", "scan_market_cap_below",
   "scan_exclude_convertible", "scan_instrument", "scan_location_code",
   "scan_maturity_date_above", "scan_maturity_date_below", "scan_moody_rating_above",
   "scan_moody_rating_below", "scan_code", "scan_sp_rating_above", "scan_sp_rating_below",
   "scan_scanner_setting_pairs", "scan_stock_type_filter", "scan_above_volume",
   "scan_number_of_rows", "scan_average_option_volume_above"}
=============================================================================
