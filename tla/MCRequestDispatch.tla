-------------------------- MODULE MCRequestDispatch --------------------------
EXTENDS RequestDispatch
\* The kinds the program itself makes.
OwnKinds == {"req_scanner_parameters", "req_scanner_subscription",
             "cancel_scanner_subscription", "req_current_time"}
\* A kind of request of every way to be cancelled, and what cancels it.
CancelKinds ==
  {"place_order", "cancel_order", "req_global_cancel", "req_news_bulletins",
   "cancel_news_bulletins"}
AllKinds == OwnKinds \cup CancelKinds
=============================================================================
