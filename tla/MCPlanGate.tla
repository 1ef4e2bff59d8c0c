------------------------------- MODULE MCPlanGate -----------------------------
(* Two planners over three executables.  The catalogs are the one that is  *)
(* built in, reduced to a qualified native tool and a disabled Python one, *)
(* one with a native tool for Git subjects enabled too, and two in which a *)
(* Python tool is enabled against its pin or together with it.             *)
EXTENDS PlanGate
CONSTANTS p1, p2, good, bad, git

MCPlanners == {p1, p2}
MCBins == {good, bad, git}
MCTools == {"tomorrowci-lab", "phaseledger", "repopass-inspect"}

Tomorrow ==
  [enabled |-> TRUE, python |-> FALSE, admissible |-> FALSE, qualified |-> TRUE,
   allowed |-> {good}, subject |-> "self_foundation", ready |-> TRUE, closed |-> TRUE]
Ledger ==
  [enabled |-> FALSE, python |-> TRUE, admissible |-> TRUE, qualified |-> FALSE,
   allowed |-> {}, subject |-> "artifact", ready |-> FALSE, closed |-> FALSE]
Repo ==
  [enabled |-> FALSE, python |-> FALSE, admissible |-> FALSE, qualified |-> FALSE,
   allowed |-> {good}, subject |-> "git", ready |-> FALSE, closed |-> TRUE]
On(t) == [t EXCEPT !.enabled = TRUE]
Ready(t) == [t EXCEPT !.enabled = TRUE, !.ready = TRUE]
Catalog(ledger, repo) ==
  [t \in MCTools |-> CASE t = "tomorrowci-lab" -> Tomorrow
                       [] t = "phaseledger" -> ledger
                       [] OTHER -> repo]
MCCatalogs ==
  {Catalog(Ledger, Repo), Catalog(Ledger, Ready(Repo)), Catalog(On(Ledger), Repo),
   Catalog([Ready(Ledger) EXCEPT !.closed = TRUE], Repo),
   Catalog(Ledger, [Ready(Repo) EXCEPT !.closed = FALSE])}

Plain(tool, subject) ==
  [tool |-> tool, subject |-> subject, admission |-> "none", capsule |-> FALSE,
   qualification |-> FALSE, parameters |-> TRUE, timeout |-> TRUE]
MCRequests ==
  LET t == [Plain("tomorrowci-lab", "none") EXCEPT !.qualification = TRUE]
      l == [Plain("phaseledger", "input_artifact") EXCEPT !.admission = "admission"]
      r == Plain("repopass-inspect", "repository")
  IN {t, [t EXCEPT !.qualification = FALSE],
      l, [l EXCEPT !.admission = "none", !.capsule = TRUE],
      [l EXCEPT !.admission = "inventory"],
      r, [r EXCEPT !.timeout = FALSE], [r EXCEPT !.subject = "both"]}
=============================================================================
