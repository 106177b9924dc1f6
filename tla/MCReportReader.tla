--------------------------- MODULE MCReportReader ---------------------------
(* ReportReader on an owned and an anonymous analysis, polled by one browser, signed in *)
(* as the owner or not signed in at all: pollers do not write, so one is enough.        *)
EXTENDS ReportReader, TLC

CONSTANTS owned, open, alice, browser

MCOwnerOf   == owned :> alice @@ open :> Nobody
MCSessionOf == browser :> alice
=============================================================================
