----------------------------- MODULE AgentRouting ------------------------------
(***************************************************************************)
(* The eligibility and policy half of routing: the cheapest-seat-with-     *)
(* capability router of src/modules/routing/routing.c.                     *)
(*                                                                         *)
(* One route request is followed through the passes the code makes over    *)
(* the roster.  Every pass asks the health and degraded filters again, and *)
(* these read live state that other threads change, so both may flip       *)
(* between two passes (a pass itself is one step).  pc names the pass:     *)
(*   "primary"   agent_primary_turn_default                                *)
(*   "locals"    is an eligible seat local?                                *)
(*   "snapshot"  the degraded snapshot                                     *)
(*   "minTier"   the cheapest tier                                         *)
(*   "collect"   the candidates of that tier, and the pick among them      *)
(*   "escDefault", "escBest"   agent_route_escalate                        *)
(* A seat is an index into the roster, 0 is NULL.                          *)
(***************************************************************************)
EXTENDS Integers, Sequences, FiniteSets

CONSTANTS
  Profile,      \* kinds of agents: name -> agent_t, with what filters and catalog say
  Rosters,      \* agent_config_t: [agents: sequence of kinds, default: seat or 0]
  Requests,     \* route requests
  Provider,     \* a route-selection provider is registered
  MaxFlips      \* bound: changes of health during a route

(* A tier below 0 would read as "no tier yet" in every pass.  The default  *)
(* and the names to exclude are resolved against the roster.               *)
ASSUME RoutingAssumption ==
  /\ Provider \in BOOLEAN
  /\ MaxFlips \in Nat
  /\ \A k \in DOMAIN Profile :
       /\ Profile[k].enabled \in BOOLEAN
       /\ Profile[k].cost_tier \in Nat
       /\ Profile[k].override \in Int /\ Profile[k].ctx \in Int /\ Profile[k].adapterCtx \in Int
  /\ \A c \in Rosters :
       c.agents \in Seq(DOMAIN Profile) /\ c.default \in 0 .. Len(c.agents)
  /\ \A r \in Requests :
       /\ r.caps \subseteq {"tools", "vision"}
       /\ r.min_context \in Int /\ r.failed_tier \in Int
       /\ \A c \in Rosters : r.exclude \subseteq 1 .. Len(c.agents)

VARIABLES
  roster,       \* the agent configuration
  req,          \* the request
  pc,
  enabled,      \* the enabled field of every seat, which a route may withhold
  down,         \* seats the health filter reports down
  degraded,     \* seats the degraded filter reports
  flips,        \* changes of health so far
  moved,        \* history: seats whose health verdict changed during the route
  caps,         \* required_caps of the attempt
  withheld,     \* ceiling-barred seats are withheld
  locals_only, healthy_only, degraded_snapshot,
  min_tier, has_tmux,
  result,       \* the seat returned
  failed        \* history: the provider failed or named no candidate

health == <<down, degraded, flips, moved>>
choice == <<locals_only, healthy_only, degraded_snapshot, min_tier, has_tmux>>
vars == <<roster, req, pc, enabled, health, caps, withheld, choice, result, failed>>

Seats == 1 .. Len(roster.agents)
Agent(i) == Profile[roster.agents[i]]

Scopes == [unset |-> 0, bounded |-> 1, whole |-> 2]
SoftCaps == {"vision"}     \* MODEL_CAP_MODALITY_SOFT

(* Type correctness of a route in progress.                                *)
TypeOK ==
  /\ roster.agents \in Seq(DOMAIN Profile) /\ roster.default \in Seats \cup {0}
  /\ req.exclude \subseteq Seats
  /\ pc \in {"start", "primary", "locals", "snapshot", "minTier", "collect", "escDefault",
             "escBest", "done"}
  /\ enabled \in [Seats -> BOOLEAN]
  /\ down \subseteq Seats /\ degraded \subseteq Seats
  /\ flips \in 0 .. MaxFlips /\ moved \subseteq Seats
  /\ caps \subseteq {"tools", "vision"}
  /\ withheld \in BOOLEAN
  /\ locals_only \in BOOLEAN /\ healthy_only \in BOOLEAN
  /\ degraded_snapshot \subseteq Seats
  /\ min_tier \in Int
  /\ has_tmux \in BOOLEAN
  /\ result \in Seats \cup {0}
  /\ failed \in BOOLEAN
-------------------------------------------------------------------------------
(* The registered policy filter: a primary-only seat is excluded from      *)
(* delegation, others always.                                              *)
policy_filter(i) ==
  \/ Agent(i).policy = "excluded"
  \/ Agent(i).policy = "primary_only" /\ ~req.primary

(* agent_routing_block_reason: OK, or a gate that blocks the seat (the code *)
(* names the first of them; nothing depends on which).                     *)
block_reason(i) ==
  LET a == Agent(i)
      claudeCli == a.claude /\ a.backend # "http"
  IN  CASE i \in down -> "HEALTH_DOWN"
        [] claudeCli /\ ~a.serverHosted -> "CLIENT_ONLY_CLAUDE"
        [] policy_filter(i) -> "POLICY_EXCLUDED"
        [] a.backend # "http" /\ ~a.command -> "MISSING_COMMAND"
        [] a.backend = "http" /\ ~a.credentials -> "NO_CREDENTIALS"
        [] OTHER -> "OK"

available(i) == block_reason(i) = "OK"

has_role(i, role) == "all" \in Agent(i).roles \/ role \in Agent(i).roles

(* The eligibility triple of every pass. *)
Routable(i, role) == enabled[i] /\ has_role(i, role) /\ available(i)

(* agent_scope_admits: an undeclared packet scope counts as whole_task. *)
scope_admits(i, scope) ==
  \/ Agent(i).max_scope = Scopes.unset
  \/ (IF scope = Scopes.unset THEN Scopes.whole ELSE scope) <= Agent(i).max_scope

(* The window the gate uses: the override, else the catalog, else the CLI  *)
(* adapter (agent_satisfies_required_caps with a catalog entry, and        *)
(* agent_effective_context).                                               *)
effective_context(i) ==
  LET a == Agent(i)
      catalogCtx == IF a.catalog THEN a.ctx ELSE 0
  IN  IF a.override > 0 THEN a.override
      ELSE IF catalogCtx > 0 THEN catalogCtx ELSE a.adapterCtx

(* agent_satisfies_required_caps.  tools_enabled decides the tools flag,   *)
(* whatever the catalog says; without a catalog entry the override is the  *)
(* only window there is.                                                   *)
satisfies_caps(i, needed, min_context, scope) ==
  LET a == Agent(i)
      tools == IF a.tools THEN {"tools"} ELSE {}
  IN  /\ scope_admits(i, scope)
      /\ \/ needed = {} /\ min_context <= 0
         \/ /\ ~a.catalog
            /\ needed \subseteq tools
            /\ min_context <= 0 \/ (a.override > 0 /\ a.override >= min_context)
         \/ /\ a.catalog
            /\ needed \subseteq (a.flags \ {"tools"}) \cup tools
            /\ min_context > 0 => effective_context(i) >= min_context
            /\ ~a.deprecated

(* agent_route_candidate_eligible *)
candidate_eligible(i, role, needed, min_context, scope) ==
  /\ Routable(i, role)
  /\ IF needed # {} \/ min_context > 0
     THEN satisfies_caps(i, needed, min_context, scope)
     ELSE scope_admits(i, scope)

tmux(i) == Agent(i).backend = "tmux"
tier(i) == Agent(i).cost_tier

MinTier(seats) == CHOOSE t \in {tier(i) : i \in seats} : \A i \in seats : t <= tier(i)

(* agent_primary_turn_default: the configured default, unless a stateful   *)
(* tmux session at the cheapest tier would be abandoned for it.            *)
primary_turn_default ==
  LET d     == roster.default
      peers == {i \in Seats : candidate_eligible(i, req.role, {}, 0, Scopes.unset)}
  IN  IF /\ req.primary /\ d # 0
         /\ Routable(d, req.role)
         /\ ~tmux(d) => ~\E i \in peers \ {d} : tmux(i) /\ tier(i) = MinTier(peers)
      THEN d ELSE 0

-------------------------------------------------------------------------------
(* agent_load_config has filled the roster; nothing is withheld. *)
Init ==
  /\ roster \in Rosters
  /\ req \in Requests
  /\ pc = "start"
  /\ enabled = [i \in Seats |-> Agent(i).enabled]
  /\ down \in SUBSET {i \in Seats : Agent(i).flapping}
  /\ degraded \in SUBSET {i \in Seats : Agent(i).flapping}
  /\ flips = 0 /\ moved = {}
  /\ caps = req.caps
  /\ withheld = FALSE
  /\ locals_only = FALSE /\ healthy_only = FALSE
  /\ degraded_snapshot = {}
  /\ min_tier = -1 /\ has_tmux = FALSE
  /\ result = 0
  /\ failed = FALSE

Capability == req.entry = "with_caps" /\ req.capability_routing

Start ==
  /\ pc = "start"
  /\ req.entry \in {"route", "with_caps"}
  /\ pc' = "primary"
  /\ UNCHANGED <<roster, req, enabled, health, caps, withheld, choice, result, failed>>

Finish(seat) == pc' = "done" /\ result' = seat

(* Mutant of RestoreEnabled: the withheld seats are not given back. *)
KeepWithheld == UNCHANGED enabled

(* What becomes of the seat r an attempt has found.  Without capability    *)
(* routing a ceiling-barred seat is refused and the attempt repeated with  *)
(* all barred seats withheld; with it, soft modalities are relaxed first   *)
(* and then the request escalates.                                         *)
RestoreEnabled ==
  enabled' = IF withheld THEN [i \in Seats |-> Agent(i).enabled] ELSE enabled

Settle(r) ==
  \/ /\ req.entry = "route"
     /\ Finish(r)
     /\ UNCHANGED <<enabled, withheld, caps>>
  \/ /\ req.entry = "with_caps" /\ ~req.capability_routing
     /\ IF r = 0 \/ withheld \/ scope_admits(r, req.scope)
        THEN Finish(r) /\ RestoreEnabled /\ withheld' = FALSE
        ELSE /\ enabled' = [i \in Seats |-> enabled[i] /\ scope_admits(i, req.scope)]
             /\ withheld' = TRUE
             /\ pc' = "primary"
             /\ UNCHANGED result
     /\ UNCHANGED caps
  \/ /\ Capability
     /\ IF r # 0 THEN Finish(r) /\ UNCHANGED caps
        ELSE /\ pc' = IF caps \cap SoftCaps # {} THEN "primary" ELSE "escDefault"
             /\ caps' = caps \ SoftCaps
             /\ UNCHANGED result
     /\ UNCHANGED <<enabled, withheld>>

PrimaryDefault ==
  /\ pc = "primary"
  /\ LET d == primary_turn_default
     IN  IF ~Capability
         THEN IF d # 0 THEN Settle(d)
              ELSE pc' = "minTier" /\ UNCHANGED <<enabled, withheld, caps, result>>
         ELSE IF /\ d # 0
                 /\ scope_admits(d, req.scope)
                 /\ caps # {} \/ req.min_context > 0
                      => satisfies_caps(d, caps, req.min_context, req.scope)
              THEN Settle(d)
              ELSE pc' = "locals" /\ UNCHANGED <<enabled, withheld, caps, result>>
  /\ UNCHANGED <<roster, req, health, choice, failed>>

(* Mutant of Qualifies: the ceiling is left to the capability check, which *)
(* runs only if something is required.                                     *)
QualifiesNoScope(i) ==
  /\ Routable(i, req.role)
  /\ caps # {} \/ req.min_context > 0
       => satisfies_caps(i, caps, req.min_context, req.scope)

(* The per-seat gate of the passes with capability routing. *)
Qualifies(i) ==
  /\ Routable(i, req.role)
  /\ scope_admits(i, req.scope)
  /\ caps # {} \/ req.min_context > 0
       => satisfies_caps(i, caps, req.min_context, req.scope)

(* prefer_local is decided before the tier. *)
PreferLocal ==
  /\ pc = "locals"
  /\ locals_only' = (req.prefer_local /\ \E i \in Seats : Qualifies(i) /\ Agent(i).local)
  /\ pc' = "snapshot"
  /\ UNCHANGED <<roster, req, enabled, health, caps, withheld, healthy_only,
                 degraded_snapshot, min_tier, has_tmux, result, failed>>

SnapshotDegraded ==
  /\ pc = "snapshot"
  /\ degraded_snapshot' = degraded
  /\ healthy_only' = \E i \in Seats \ degraded :
                        Qualifies(i) /\ (locals_only => Agent(i).local)
  /\ pc' = "minTier"
  /\ UNCHANGED <<roster, req, enabled, health, caps, withheld, locals_only, min_tier,
                 has_tmux, result, failed>>

(* Mutant of Contends: prefer_local is forgotten in the tier passes. *)
ContendsAnywhere(i) ==
  IF Capability THEN Qualifies(i) /\ (healthy_only => i \notin degraded_snapshot)
  ELSE Routable(i, req.role)

(* In contention for the tier and for the pick. *)
Contends(i) ==
  IF Capability
  THEN /\ Qualifies(i)
       /\ locals_only => Agent(i).local
       /\ healthy_only => i \notin degraded_snapshot
  ELSE Routable(i, req.role)

(* Mutant of CheapestTier: the tier is that of all seats of the role, and  *)
(* only the collecting pass asks for their health.                         *)
CheapestTierOfRole ==
  /\ pc = "minTier"
  /\ LET seats == {i \in Seats : IF Capability THEN Contends(i)
                                ELSE enabled[i] /\ has_role(i, req.role)}
     IN  IF seats = {}
         THEN Settle(0) /\ UNCHANGED <<min_tier, has_tmux>>
         ELSE /\ min_tier' = MinTier(seats)
              /\ has_tmux' = \E i \in seats : tier(i) = MinTier(seats) /\ tmux(i)
              /\ pc' = "collect"
              /\ UNCHANGED <<enabled, withheld, caps, result>>
  /\ UNCHANGED <<roster, req, health, locals_only, healthy_only, degraded_snapshot, failed>>

CheapestTier ==
  /\ pc = "minTier"
  /\ LET seats == {i \in Seats : Contends(i)}
     IN  IF seats = {}
         THEN Settle(0) /\ UNCHANGED <<min_tier, has_tmux>>
         ELSE /\ min_tier' = MinTier(seats)
              /\ has_tmux' = \E i \in seats : tier(i) = MinTier(seats) /\ tmux(i)
              /\ pc' = "collect"
              /\ UNCHANGED <<enabled, withheld, caps, result>>
  /\ UNCHANGED <<roster, req, health, locals_only, healthy_only, degraded_snapshot, failed>>

(* Mutant of pick_balanced: the provider's index may equal the count. *)
pick_balanced_off_by_one(seats) ==
  CASE seats = {} -> {0}
    [] Cardinality(seats) = 1 -> seats
    [] OTHER -> IF Provider THEN seats \cup {0, Len(roster.agents) + 1} ELSE seats

(* agent_pick_balanced: two or more candidates are put to the provider,    *)
(* which may fail or answer out of range; without one the process-wide     *)
(* cursor picks (module Selector).  Pick is the set of possible outcomes.  *)
pick_balanced(seats) ==
  CASE seats = {} -> {0}
    [] Cardinality(seats) = 1 -> seats
    [] OTHER -> IF Provider THEN seats \cup {0} ELSE seats

ProviderFailed(seats, r) == failed \/ (Cardinality(seats) > 1 /\ r = 0)

Collect ==
  /\ pc = "collect"
  /\ LET seats == {i \in Seats : Contends(i) /\ tier(i) = min_tier /\ (has_tmux => tmux(i))}
     IN  \E r \in pick_balanced(seats) :
           Settle(r) /\ failed' = ProviderFailed(seats, r)
  /\ UNCHANGED <<roster, req, health, choice>>

(* Mutant of Escalatable: hard capabilities are relaxed with the window. *)
EscalatableAnyCaps(i) == candidate_eligible(i, req.role, {}, 0, req.scope)

(* agent_route_escalate: the default, else the largest window and then the *)
(* highest tier; only min_context is relaxed.                              *)
Escalatable(i) == candidate_eligible(i, req.role, caps, 0, req.scope)

EscalateDefault ==
  /\ pc = "escDefault"
  /\ IF roster.default # 0 /\ Escalatable(roster.default)
     THEN Finish(roster.default)
     ELSE pc' = "escBest" /\ UNCHANGED result
  /\ UNCHANGED <<roster, req, enabled, health, caps, withheld, choice, failed>>

(* The first seat of a non-empty set that is maximal in (x, y). *)
Largest(seats, x(_), y(_)) ==
  CHOOSE i \in seats : \A j \in seats :
    \/ x(i) > x(j)
    \/ x(i) = x(j) /\ (y(i) > y(j) \/ (y(i) = y(j) /\ i <= j))

EscalateBest ==
  /\ pc = "escBest"
  /\ LET seats == {i \in Seats : Escalatable(i)}
     IN  Finish(IF seats = {} THEN 0 ELSE Largest(seats, effective_context, tier))
  /\ UNCHANGED <<roster, req, enabled, health, caps, withheld, choice, failed>>

(* agent_route_escalation_target: ranked by tier, above the failed one. *)
EscalationTarget ==
  /\ pc = "start"
  /\ req.entry = "escalation_target"
  /\ LET seats == {i \in Seats : tier(i) > req.failed_tier /\ Escalatable(i)}
     IN  Finish(IF seats = {} THEN 0 ELSE Largest(seats, tier, effective_context))
  /\ UNCHANGED <<roster, req, enabled, health, caps, withheld, choice, failed>>

(* agent_route_at_tier *)
RouteAtTier ==
  /\ pc = "start"
  /\ req.entry = "at_tier"
  /\ LET seats == {i \in Seats : tier(i) = req.failed_tier /\ Routable(i, req.role)}
     IN  \E r \in pick_balanced(seats) :
           Finish(r) /\ failed' = ProviderFailed(seats, r)
  /\ UNCHANGED <<roster, req, enabled, health, caps, withheld, choice>>

(* delegate_pick_for_role: a seat with a free slot is preferred, never     *)
(* required; the provider is asked even for a pool of one.                 *)
free_slot(i) == Agent(i).max_parallel <= 0 \/ Agent(i).active < 0
                \/ Agent(i).active < Agent(i).max_parallel

(* Mutant of DelegatePick: a free slot is required. *)
DelegatePickFreeOnly ==
  /\ pc = "start"
  /\ req.entry = "delegate"
  /\ LET pool == {i \in Seats : Routable(i, req.role) /\ i \notin req.exclude /\ free_slot(i)}
     IN  \E r \in IF pool = {} \/ Provider THEN pool \cup {0} ELSE pool :
           Finish(r) /\ failed' = (pool # {} /\ r = 0)
  /\ UNCHANGED <<roster, req, enabled, health, caps, withheld, choice>>

DelegatePick ==
  /\ pc = "start"
  /\ req.entry = "delegate"
  /\ LET elig == {i \in Seats : Routable(i, req.role) /\ i \notin req.exclude}
         free == {i \in elig : free_slot(i)}
         pool == IF free # {} THEN free ELSE elig
     IN  \E r \in IF pool = {} \/ Provider THEN pool \cup {0} ELSE pool :
           Finish(r) /\ failed' = (pool # {} /\ r = 0)
  /\ UNCHANGED <<roster, req, enabled, health, caps, withheld, choice>>

(* agent_pick_named_for_role: a pinned seat is never substituted. *)
PickNamed ==
  /\ pc = "start"
  /\ req.entry = "named"
  /\ Finish(IF req.name \in Seats /\ Routable(req.name, req.role) THEN req.name ELSE 0)
  /\ UNCHANGED <<roster, req, enabled, health, caps, withheld, choice, failed>>

-------------------------------------------------------------------------------
(* Other threads record outcomes: the health filters change their verdict. *)
FlipHealth(i) ==
  /\ flips < MaxFlips
  /\ pc \notin {"start", "done"}
  /\ flips' = flips + 1
  /\ \/ /\ down' = IF i \in down THEN down \ {i} ELSE down \cup {i}
        /\ moved' = moved \cup {i}
        /\ UNCHANGED degraded
     \/ /\ degraded' = IF i \in degraded THEN degraded \ {i} ELSE degraded \cup {i}
        /\ UNCHANGED <<down, moved>>
  /\ UNCHANGED <<roster, req, pc, enabled, caps, withheld, choice, result, failed>>

Next ==
  \/ Start \/ PrimaryDefault \/ PreferLocal \/ SnapshotDegraded \/ CheapestTier \/ Collect
  \/ EscalateDefault \/ EscalateBest \/ EscalationTarget \/ RouteAtTier \/ DelegatePick
  \/ PickNamed
  \/ \E i \in Seats : FlipHealth(i)

Spec == Init /\ [][Next]_vars
-------------------------------------------------------------------------------
Done == pc = "done"
Scoped == req.entry \in {"with_caps", "escalation_target"}
HardCaps == req.caps \ SoftCaps

(* The scope ceiling binds on every path, with and without capability      *)
(* routing, on the primary turn, after relaxing and after escalating, and  *)
(* whatever health does in between (routing.c 606-627, 719-743, 985-987).  *)
CeilingBinds == Done /\ Scoped /\ result # 0 => scope_admits(result, req.scope)

(* Hard capabilities are never relaxed, only modalities and the window     *)
(* (routing.c 952-957, 1041-1051).                                         *)
HardCapsBind ==
  Done /\ Capability /\ result # 0 => satisfies_caps(result, HardCaps, 0, req.scope)

(* Seats withheld for a route are back when it returns, whatever it        *)
(* returns (routing.c 731-742).                                            *)
RosterRestored == Done => \A i \in Seats : enabled[i] = Agent(i).enabled

(* Seat i could take the request, whatever is preferred to it. *)
CouldTake(i) ==
  IF req.entry = "with_caps"
  THEN candidate_eligible(i, req.role, IF Capability THEN HardCaps ELSE {}, 0, req.scope)
  ELSE Routable(i, req.role)

(* If health holds still and the provider answers, a route fails only when *)
(* no seat could take the request: withholding, prefer_local, degraded     *)
(* seats, modalities, the window and full seats are preferences, or are    *)
(* escalated over, and never empty the field (routing.c 218-222, 443-447,  *)
(* 768-790, 903-914).                                                      *)
PreferencesNeverExclude ==
  Done /\ flips = 0 /\ ~failed /\ result = 0 /\ req.entry \in {"route", "with_caps", "delegate"} =>
    \A i \in Seats \ req.exclude : ~CouldTake(i)

(* What a route with capability routing should choose from, in one         *)
(* definition: the seats that qualify, narrowed to the local ones if some  *)
(* are, then to the healthy ones if some are, then to the cheapest tier,   *)
(* then to tmux sessions if some are.                                      *)
Prefer(seats, P(_)) == IF \E i \in seats : P(i) THEN {i \in seats : P(i)} ELSE seats
Preferred(needed) ==
  LET ok      == {i \in Seats : candidate_eligible(i, req.role, needed, req.min_context, req.scope)}
      near    == IF req.prefer_local THEN Prefer(ok, LAMBDA i : Agent(i).local) ELSE ok
      healthy == Prefer(near, LAMBDA i : i \notin degraded)
      cheap   == {i \in healthy : \A j \in healthy : tier(i) <= tier(j)}
  IN  Prefer(cheap, tmux)

(* The passes of agent_route_with_caps_inner, each with its own loop and   *)
(* its own copy of the filters, agree with that definition when health     *)
(* holds still and the turn is not a primary one; modalities are relaxed   *)
(* only if nothing has them (routing.c 756-883, 1045-1047).                *)
CheapestCapable ==
  Done /\ Capability /\ ~req.primary /\ flips = 0 /\ ~failed /\ Preferred(HardCaps) # {} =>
    result \in IF Preferred(req.caps) # {} THEN Preferred(req.caps) ELSE Preferred(HardCaps)

(* What a health flip in mid-route may cost (the passes ask the live filter *)
(* each time, routing.c 556-596, 810-883).  Without capability routing the *)
(* tier pass and the collecting pass may disagree, and then the route      *)
(* fails although seats remain; but only if the seat that moved was as     *)
(* cheap as every seat that stayed eligible throughout.  With it the route *)
(* escalates instead, and a seat eligible throughout is always found.      *)
SteadySeatIsFound ==
  Done /\ ~failed /\ result = 0 /\ req.entry \in {"route", "with_caps"} =>
    \A i \in Seats \ moved :
      CouldTake(i) => ~Capability /\ \E j \in moved : tier(j) <= tier(i)

(* What docs/modules/routing.md 23-24 says: "A missing, cancelled,         *)
(* timed-out, or malformed module reply fails the route closed."           *)
FailsClosed == Done /\ failed => result = 0

(* What the comments of agent_primary_turn_default say (routing.c 511-523):*)
(* a usable default that is no tmux session is passed over only for a      *)
(* stateful session the normal pass will pick, so the primary turn gets    *)
(* one or the other.                                                       *)
DefaultOrSession ==
  /\ Done /\ req.entry = "route" /\ req.primary /\ flips = 0 /\ ~failed
  /\ roster.default # 0 /\ Routable(roster.default, req.role)
  => result = roster.default \/ (result # 0 /\ tmux(result))
===============================================================================
