------------------------------ MODULE ScreensMC -----------------------------
(***************************************************************************)
(* Two tickers, a watchlist of at most two or three, one network.          *)
(***************************************************************************)
EXTENDS Screens

\* The dashboard, a time picker over whatever is shown, a screen with a queued
\* rebuild and one with an attempt in progress.  The others are a tap away.
Jumps == {"WATCHLIST", "NIGHT_TIME", "MANAGE", "PASSWORD"}
=============================================================================
