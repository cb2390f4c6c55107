---------------------------- MODULE MCMarketScans ----------------------------
\* Market scans with two farms and two scans.
EXTENDS MarketScans
CONSTANTS f1, f2
=============================================================================
