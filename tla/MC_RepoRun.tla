----------------------------- MODULE MC_RepoRun -----------------------------
(* Small instances of RepoRun: one section of plain items, one with a sealed
   secret, a tolerant create and drift only a person can mend.             *)
EXTENDS RepoRun

MCItems == {"add", "drop", "join", "seal", "warn"}

MCSectionOf ==
  [i \in MCItems |-> IF i \in {"add", "drop"} THEN 1 ELSE 2]

MCKindOf ==
  [i \in MCItems |-> CASE i \in {"add", "join"} -> "create" [] i = "drop" -> "remove"
                       [] i = "seal" -> "resend" [] i = "warn" -> "report"]

MCTolerant == {"join"}

Base == [mode |-> "apply", policy |-> "fail", declared |-> {1, 2}, only |-> {},
         required |-> {}, secrets |-> {2}, env |-> {2}]

MCOptions ==
  {Base,
   [Base EXCEPT !.mode = "check", !.policy = "warn"],
   [Base EXCEPT !.policy = "warn"],
   [Base EXCEPT !.policy = "warn", !.required = {1}],
   [Base EXCEPT !.env = {}, !.secrets = {1, 2}],
   [Base EXCEPT !.env = {2}, !.secrets = {1, 2}],
   [Base EXCEPT !.only = {1}],
   [Base EXCEPT !.declared = {2}, !.secrets = {}]}

(* Lost answers under the warn policy. *)
MCWarn == {[Base EXCEPT !.policy = "warn"]}
=============================================================================
