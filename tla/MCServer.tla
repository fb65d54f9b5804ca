----------------------------- MODULE MCServer -----------------------------
(***************************************************************************)
(* Model-checking instance of four parts of the API process that share no  *)
(* state: the accounts, the weekly recap, the usage counters and an import *)
(* of a link or a file.  A behaviour moves one of them, so that the states *)
(* add up instead of multiplying.  In "purges" two processes run the       *)
(* deletion job and nobody signs in or out; in "accounts" one does.        *)
(***************************************************************************)
EXTENDS Account, WeeklyRecap, UsageCounters, LinkImport, TLC

CONSTANTS t1, t2, p1, p2, u1, u2, b1, b2, f1, f2, s1, s2

VARIABLE part

TwoTabs      == {t1, t2}
TwoProcesses == {p1, p2}
TwoUsers     == {u1, u2}
TwoBuckets   == {b1, b2}
TwoFlushers  == {f1, f2}
TwoSongs     == {s1, s2}

serverVars == <<vars, recapVars, usageVars, linkVars, part>>

\* The account is an old one, without an identity, or has a reset link mailed.
ServerInit ==
  /\ part \in {"accounts", "purges", "recap", "usage", "import"}
  /\ Init /\ RecapInit /\ UsageInit /\ LinkInit
  /\ identity = 1 <=> link = "active"
  /\ part \notin {"accounts", "purges"} => identity = 0
  /\ part = "purges" <=> job[p2] = "idle"
  /\ job[p1] = "idle"
  /\ part # "recap" => hasNews = {}

ServerNext ==
  /\ UNCHANGED part
  /\ \/ part = "accounts" /\ Next /\ UNCHANGED <<recapVars, usageVars, linkVars>>
     \/ part = "purges" /\ Next /\ asked' = 0 /\ UNCHANGED <<recapVars, usageVars, linkVars>>
     \/ part = "recap" /\ RecapNext /\ UNCHANGED <<vars, usageVars, linkVars>>
     \/ part = "usage" /\ UsageNext /\ UNCHANGED <<vars, recapVars, linkVars>>
     \/ part = "import" /\ LinkNext /\ UNCHANGED <<vars, recapVars, usageVars>>

\* A part that is not moved has nothing to be fair about: it stays where
\* every action that is to go on is disabled.
ServerSpec ==
  /\ ServerInit /\ [][ServerNext]_serverVars
  /\ Fairness /\ RecapFairness /\ LinkFairness

\* Every part's variables have their types.
ServerTypeOK == TypeOK /\ RecapTypeOK /\ UsageTypeOK /\ LinkTypeOK
=============================================================================
