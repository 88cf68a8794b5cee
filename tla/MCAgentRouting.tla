---------------------------- MODULE MCAgentRouting -----------------------------
(* Small instances of AgentRouting: rosters of up to three seats, made of  *)
(* kinds of agents that differ in what the gates and the preferences look  *)
(* at.                                                                     *)
EXTENDS AgentRouting

Seat ==
  [enabled |-> TRUE, roles |-> {"code"}, backend |-> "http", claude |-> FALSE,
   serverHosted |-> TRUE, policy |-> "open", command |-> TRUE, credentials |-> TRUE,
   cost_tier |-> 1, local |-> FALSE, max_scope |-> Scopes.unset, tools |-> TRUE,
   catalog |-> TRUE, flags |-> {"tools"}, ctx |-> 1, override |-> 0, adapterCtx |-> 0,
   deprecated |-> FALSE, flapping |-> FALSE, max_parallel |-> 0, active |-> -1]

MCProfile ==
  [cheap    |-> [Seat EXCEPT !.cost_tier = 0, !.max_scope = Scopes.bounded],
   local    |-> [Seat EXCEPT !.local = TRUE, !.tools = FALSE, !.flags = {}, !.roles = {"all"}],
   flapping |-> [Seat EXCEPT !.cost_tier = 0, !.flapping = TRUE],
   vision   |-> [Seat EXCEPT !.flags = {"vision"}, !.ctx = 3, !.max_parallel = 1, !.active = 1],
   session  |-> [Seat EXCEPT !.backend = "tmux", !.claude = TRUE, !.catalog = FALSE,
                             !.adapterCtx = 2, !.flapping = TRUE],
   top      |-> [Seat EXCEPT !.cost_tier = 2, !.override = 2, !.policy = "primary_only"],
   off      |-> [Seat EXCEPT !.cost_tier = 0, !.enabled = FALSE],
   blocked  |-> [Seat EXCEPT !.cost_tier = 0, !.backend = "tmux", !.claude = TRUE,
                             !.serverHosted = FALSE]]

Kinds == <<"cheap", "local", "flapping", "vision", "session", "top", "off", "blocked">>

(* All rosters of three different kinds, in one order. *)
AllRosters ==
  {[agents |-> <<Kinds[t[1]], Kinds[t[2]], Kinds[t[3]]>>, default |-> t[4]] :
     t \in {t \in (1 .. 8) \X (1 .. 8) \X (1 .. 8) \X (0 .. 3) : t[1] < t[2] /\ t[2] < t[3]}}

Request(entry, primary, scope) ==
  [entry |-> entry, role |-> "code", primary |-> primary, scope |-> scope, caps |-> {},
   min_context |-> 0, capability_routing |-> FALSE, prefer_local |-> FALSE, failed_tier |-> 0,
   exclude |-> {}, name |-> 0]

PlainRequests == {Request("route", p, Scopes.unset) : p \in BOOLEAN}
ScopedRequests == {Request("with_caps", p, s) : p \in BOOLEAN, s \in {Scopes.unset, Scopes.bounded}}
CapsRequests ==
  {[Request("with_caps", p, s) EXCEPT !.capability_routing = TRUE, !.caps = n.caps,
                                      !.min_context = n.ctx, !.prefer_local = (n.ctx = 0)] :
     p \in BOOLEAN, s \in {Scopes.unset, Scopes.bounded},
     n \in {[caps |-> {}, ctx |-> 0], [caps |-> {"tools"}, ctx |-> 2],
            [caps |-> {"tools", "vision"}, ctx |-> 0]}}
OtherRequests ==
  {Request("at_tier", FALSE, Scopes.unset), Request("delegate", FALSE, Scopes.unset),
   [Request("delegate", FALSE, Scopes.unset) EXCEPT !.exclude = {1}],
   [Request("named", FALSE, Scopes.unset) EXCEPT !.name = 2],
   [Request("escalation_target", FALSE, Scopes.whole) EXCEPT !.caps = {"tools"}],
   [Request("escalation_target", TRUE, Scopes.whole) EXCEPT !.caps = {"tools"}]}

AllRequests == PlainRequests \cup ScopedRequests \cup CapsRequests \cup OtherRequests
===============================================================================
