----------------------------- MODULE RoutingProofs -----------------------------
(***************************************************************************)
(* Proofs about AgentRouting, for any roster, any kinds of agents and any  *)
(* request, and however often health changes between two passes.           *)
(***************************************************************************)
EXTENDS AgentRouting, FiniteSetTheorems, TLAPS

InRoute == {"primary", "locals", "snapshot", "minTier", "collect", "escDefault", "escBest"}

(* Only the barred seats are withheld, and only by a route without         *)
(* capability routing, on its way.                                         *)
EnabledInv ==
  /\ \A i \in Seats :
       enabled[i] <=> Agent(i).enabled /\ (withheld => scope_admits(i, req.scope))
  /\ withheld => req.entry = "with_caps" /\ ~req.capability_routing /\ pc \in InRoute

(* How far a request has been relaxed at each pass. *)
CapsInv ==
  /\ caps \in {req.caps, HardCaps}
  /\ ~Capability => caps = req.caps
  /\ pc \in InRoute => req.entry \in {"route", "with_caps"}
  /\ pc \in {"locals", "snapshot", "escDefault", "escBest"} => Capability
  /\ pc \in {"escDefault", "escBest"} => caps = HardCaps
  /\ pc # "done" => result = 0

RouteInv ==
  TypeOK /\ EnabledInv /\ CapsInv /\ CeilingBinds /\ HardCapsBind
  /\ roster \in Rosters /\ req \in Requests
-------------------------------------------------------------------------------
(* Seat i is the first of S that is maximal in (x, y). *)
FirstMax(S, x, y, i) ==
  /\ i \in S
  /\ \A j \in S :
       \/ x[i] > x[j]
       \/ x[i] = x[j] /\ (y[i] > y[j] \/ (y[i] = y[j] /\ i <= j))

(* A set of seats has a first maximal one in (x, y): each seat is dominated *)
(* by the seats of a finite set, and a smallest such set is empty.          *)
LEMMA LargestExists ==
  ASSUME NEW n \in Nat, NEW S \in SUBSET (1 .. n), S # {},
         NEW x \in [S -> Int], NEW y \in [S -> Int]
  PROVE  \E i : FirstMax(S, x, y, i)
<1> DEFINE Beats(j, i) == \/ x[j] > x[i]
                          \/ x[j] = x[i] /\ (y[j] > y[i] \/ (y[j] = y[i] /\ j < i))
           Above(i) == {j \in S : Beats(j, i)}
           T == {Above(i) : i \in S}
<1>1. S \subseteq Int
  OBVIOUS
<1>2. \A i, j, k \in S : Beats(k, j) /\ Beats(j, i) => Beats(k, i)
  BY <1>1
<1>3. \A i \in S : ~Beats(i, i)
  BY <1>1
<1>4. IsFiniteSet(S)
  <2>1. 1 \in Int /\ n \in Int
    OBVIOUS
  <2>2. IsFiniteSet(1 .. n)
    BY <2>1, FS_Interval
  <2> QED BY <2>2, FS_Subset
<1>5. PICK X \in T : \A Y \in T : <<Y, X>> \notin StrictSubsetOrdering(S)
  <2> HIDE DEF Beats
  <2>1. T \subseteq FiniteSubsetsOf(S)
    BY <1>4, FS_Subset DEF FiniteSubsetsOf
  <2>2. IsWellFoundedOn(StrictSubsetOrdering(S), FiniteSubsetsOf(S))
    BY FS_StrictSubsetOrderingWellFounded
  <2>3. PICK i \in S : TRUE
    OBVIOUS
  <2>4. Above(i) \in T
    OBVIOUS
  <2>5. T # {}
    BY <2>4
  <2> HIDE DEF T
  <2> QED BY <2>1, <2>2, <2>5, WFMin
<1>6. PICK i \in S : X = Above(i)
  OBVIOUS
<1>7. ASSUME NEW j \in S, Beats(j, i)
      PROVE  FALSE
  <2> HIDE DEF Beats
  <2>1. Above(j) \subseteq Above(i)
    BY <1>2, <1>7
  <2>2. j \in Above(i) /\ j \notin Above(j)
    BY <1>3, <1>7
  <2>3. <<Above(j), Above(i)>> \in StrictSubsetOrdering(S)
    BY <2>1, <2>2 DEF StrictSubsetOrdering
  <2>4. Above(j) \in T
    OBVIOUS
  <2> HIDE DEF Above
  <2> QED BY <1>5, <1>6, <2>3, <2>4
<1>8. \A j \in S : ~Beats(j, i)
  BY <1>7
<1>9. FirstMax(S, x, y, i)
  <2>1. ASSUME NEW j \in S
        PROVE  \/ x[i] > x[j]
               \/ x[i] = x[j] /\ (y[i] > y[j] \/ (y[i] = y[j] /\ i <= j))
    <3>1. x[i] \in Int /\ x[j] \in Int /\ y[i] \in Int /\ y[j] \in Int /\ i \in Int /\ j \in Int
      BY <1>1
    <3> QED BY <3>1, <1>8
  <2> QED BY <2>1 DEF FirstMax
<1> QED BY <1>9

(* What the gates and rankings read of a seat is typed. *)
LEMMA SeatTypes ==
  ASSUME TypeOK
  PROVE  /\ Len(roster.agents) \in Nat
         /\ \A i \in Seats : /\ tier(i) \in Nat
                             /\ effective_context(i) \in Int
                             /\ Agent(i).enabled \in BOOLEAN
<1>1. \A i \in Seats : roster.agents[i] \in DOMAIN Profile
  BY DEF TypeOK, Seats
<1> QED BY <1>1, RoutingAssumption DEF TypeOK, Seats, Agent, tier, effective_context

(* agent_route_escalate and agent_route_escalation_target find a seat of    *)
(* the set they range over.                                                 *)
LEMMA LargestInSet ==
  ASSUME TypeOK, NEW S \in SUBSET Seats, S # {}
  PROVE  /\ Largest(S, effective_context, tier) \in S
         /\ Largest(S, tier, effective_context) \in S
<1> DEFINE ctx == [i \in S |-> effective_context(i)]
           cost == [i \in S |-> tier(i)]
<1>1. /\ ctx \in [S -> Int] /\ cost \in [S -> Int]
      /\ \A i \in S : tier(i) \in Int /\ effective_context(i) \in Int
      /\ \A i \in S : ctx[i] = effective_context(i) /\ cost[i] = tier(i)
  BY SeatTypes
<1>2. Len(roster.agents) \in Nat /\ S \in SUBSET (1 .. Len(roster.agents))
  BY SeatTypes DEF Seats
<1> HIDE DEF ctx, cost
<1>3. \E i : FirstMax(S, ctx, cost, i)
  BY <1>1, <1>2, LargestExists
<1>4. \E i : FirstMax(S, cost, ctx, i)
  BY <1>1, <1>2, LargestExists
<1>5. Largest(S, effective_context, tier) \in S
  BY <1>1, <1>3 DEF Largest, FirstMax
<1>6. Largest(S, tier, effective_context) \in S
  BY <1>1, <1>4 DEF Largest, FirstMax
<1> QED BY <1>5, <1>6

(* The cheapest tier of a pass is the tier of one of its seats. *)
LEMMA MinTierIsLeast ==
  ASSUME TypeOK, NEW S \in SUBSET Seats, S # {}
  PROVE  /\ MinTier(S) \in Nat
         /\ \E i \in S : tier(i) = MinTier(S)
         /\ \A i \in S : MinTier(S) <= tier(i)
<1> DEFINE gain == [i \in S |-> -tier(i)]
<1>1. /\ gain \in [S -> Int]
      /\ \A i \in S : tier(i) \in Nat /\ gain[i] = -tier(i)
  BY SeatTypes
<1>2. Len(roster.agents) \in Nat /\ S \in SUBSET (1 .. Len(roster.agents))
  BY SeatTypes DEF Seats
<1> HIDE DEF gain
<1>3. \E i : FirstMax(S, gain, gain, i)
  BY <1>1, <1>2, LargestExists
<1>4. PICK i \in S : \A j \in S : tier(i) <= tier(j)
  BY <1>1, <1>3 DEF FirstMax
<1>5. \E t \in {tier(k) : k \in S} : \A j \in S : t <= tier(j)
  BY <1>4
<1>6. MinTier(S) \in {tier(k) : k \in S} /\ \A j \in S : MinTier(S) <= tier(j)
  BY <1>5 DEF MinTier
<1> QED BY <1>1, <1>6

-------------------------------------------------------------------------------
(* Who satisfies a request satisfies one that asks for less, without a     *)
(* window.                                                                 *)
LEMMA SatisfiesLess ==
  ASSUME NEW i, NEW needed, NEW less \in SUBSET needed, NEW window, NEW scope,
         satisfies_caps(i, needed, window, scope)
  PROVE  satisfies_caps(i, less, 0, scope)
  BY DEF satisfies_caps

(* A seat that gets past the gate of a capability pass is within the       *)
(* ceiling and has the hard capabilities.                                  *)
Passes(i) ==
  /\ scope_admits(i, req.scope)
  /\ caps # {} \/ req.min_context > 0 => satisfies_caps(i, caps, req.min_context, req.scope)

(* A seat that passes the gates of the pass has the caps no pass may drop. *)
LEMMA PassesHard ==
  ASSUME NEW i, CapsInv, Passes(i)
  PROVE  scope_admits(i, req.scope) /\ satisfies_caps(i, HardCaps, 0, req.scope)
<1>1. HardCaps \subseteq caps
  BY DEF CapsInv, HardCaps
<1>2. CASE caps # {} \/ req.min_context > 0
  BY <1>1, <1>2, SatisfiesLess DEF Passes
<1>3. CASE caps = {}
  BY <1>1, <1>3 DEF Passes, satisfies_caps
<1> QED BY <1>2, <1>3 DEF Passes

(* What an attempt that has found seat r leaves behind. *)
LEMMA SettleInv ==
  ASSUME RouteInv, pc \in InRoute, NEW r \in Seats \cup {0}, Settle(r),
         r # 0 => enabled[r] /\ (Capability => Passes(r)),
         UNCHANGED <<roster, req>>
  PROVE  /\ pc' \in InRoute \cup {"done"}
         /\ enabled' \in [Seats -> BOOLEAN] /\ withheld' \in BOOLEAN
         /\ caps' \subseteq {"tools", "vision"} /\ result' \in Seats \cup {0}
         /\ EnabledInv' /\ CapsInv' /\ CeilingBinds' /\ HardCapsBind'
<1> USE DEF RouteInv, Finish
<1>0. req.entry \in {"route", "with_caps"} /\ TypeOK /\ Seats' = Seats /\ Capability' = Capability
      /\ HardCaps' = HardCaps /\ (\A i \in Seats : Agent(i)' = Agent(i))
      /\ \A i \in Seats : scope_admits(i, req.scope)' = scope_admits(i, req.scope)
  BY DEF CapsInv, Seats, Capability, HardCaps, Agent, scope_admits
<1>1. CASE req.entry = "route"
  <2>1. Finish(r) /\ UNCHANGED <<enabled, withheld, caps>>
    BY <1>1 DEF Settle, Capability
  <2>2. EnabledInv'
    BY <1>0, <1>1, <2>1 DEF EnabledInv
  <2>3. CapsInv' /\ CeilingBinds' /\ HardCapsBind'
    BY <1>0, <1>1, <2>1 DEF CapsInv, CeilingBinds, HardCapsBind, Capability,
                            Scoped, InRoute
  <2> QED BY <2>1, <2>2, <2>3, <1>0 DEF TypeOK
<1>2. CASE req.entry = "with_caps" /\ ~req.capability_routing
  <2>0. ~Capability /\ UNCHANGED caps
    BY <1>2 DEF Settle, Capability
  <2>1. CASE r = 0 \/ withheld \/ scope_admits(r, req.scope)
    <3>1. Finish(r) /\ RestoreEnabled /\ withheld' = FALSE
      BY <1>2, <2>1 DEF Settle, Capability
    <3>2. enabled' \in [Seats -> BOOLEAN] /\ withheld' \in BOOLEAN
      BY <3>1, <1>0, SeatTypes DEF RestoreEnabled, TypeOK
    <3>3. \A i \in Seats : enabled'[i] <=> Agent(i).enabled
      BY <3>1, <1>0, SeatTypes DEF RestoreEnabled, EnabledInv, TypeOK
    <3>4. EnabledInv'
      BY <3>1, <3>3, <1>0 DEF EnabledInv
    <3>5. r # 0 => scope_admits(r, req.scope)
      BY <2>1 DEF EnabledInv
    <3>6. CeilingBinds'
      BY <3>1, <3>5, <1>0 DEF CeilingBinds
    <3>7. CapsInv' /\ HardCapsBind'
      BY <1>0, <1>2, <2>0, <3>1 DEF CapsInv, HardCapsBind, InRoute
    <3> QED BY <1>0, <2>0, <3>1, <3>2, <3>4, <3>6, <3>7 DEF TypeOK
  <2>2. CASE ~(r = 0 \/ withheld \/ scope_admits(r, req.scope))
    <3>1. /\ enabled' = [i \in Seats |-> enabled[i] /\ scope_admits(i, req.scope)]
          /\ withheld' = TRUE /\ pc' = "primary" /\ UNCHANGED result
      BY <1>2, <2>2 DEF Settle, Capability
    <3>2. enabled' \in [Seats -> BOOLEAN] /\ withheld' \in BOOLEAN
      BY <3>1
    <3>3. \A i \in Seats : enabled'[i] <=> enabled[i] /\ scope_admits(i, req.scope)
      BY <3>1
    <3>4. EnabledInv'
      BY <1>0, <1>2, <2>2, <3>1, <3>3 DEF EnabledInv, InRoute
    <3>5. CapsInv' /\ CeilingBinds' /\ HardCapsBind'
      BY <1>0, <1>2, <2>0, <3>1 DEF CapsInv, CeilingBinds, HardCapsBind,
                                    InRoute, Done
    <3> QED BY <1>0, <2>0, <3>1, <3>2, <3>4, <3>5 DEF TypeOK, InRoute
  <2> QED BY <2>1, <2>2
<1>3. CASE Capability
  <2>1. UNCHANGED <<enabled, withheld>> /\ req.entry = "with_caps" /\ ~withheld
    BY <1>3 DEF Settle, Capability, EnabledInv
  <2>2. EnabledInv'
    BY <1>0, <2>1 DEF EnabledInv
  <2>3. CASE r # 0
    <3>1. Finish(r) /\ UNCHANGED caps
      BY <1>3, <2>3 DEF Settle, Capability
    <3>2. scope_admits(r, req.scope) /\ satisfies_caps(r, HardCaps, 0, req.scope)
      BY <1>3, <2>3, PassesHard
    <3>3. satisfies_caps(r, HardCaps, 0, req.scope)'
      BY <3>2, <1>0, <2>3 DEF satisfies_caps, effective_context
    <3>4. CeilingBinds' /\ HardCapsBind'
      BY <1>0, <2>3, <3>1, <3>2, <3>3 DEF CeilingBinds, HardCapsBind
    <3>5. CapsInv'
      BY <1>0, <1>3, <2>1, <3>1 DEF CapsInv, InRoute
    <3> QED BY <1>0, <2>1, <2>2, <3>1, <3>4, <3>5 DEF TypeOK
  <2>4. CASE r = 0
    <3>1. /\ pc' = IF caps \cap SoftCaps # {} THEN "primary" ELSE "escDefault"
          /\ caps' = caps \ SoftCaps
          /\ UNCHANGED result
      BY <1>3, <2>4 DEF Settle, Capability
    <3>2. caps' = HardCaps /\ caps' \subseteq {"tools", "vision"}
      BY <3>1 DEF CapsInv, HardCaps, TypeOK
    <3>3. CapsInv' /\ CeilingBinds' /\ HardCapsBind'
      BY <1>0, <1>3, <2>1, <3>1, <3>2 DEF CapsInv, CeilingBinds, HardCapsBind,
                                          InRoute, Done
    <3> QED BY <1>0, <2>1, <2>2, <3>1, <3>2, <3>3 DEF TypeOK, InRoute
  <2> QED BY <2>3, <2>4
<1> QED BY <1>0, <1>1, <1>2, <1>3 DEF Capability

(* A route starts with nothing withheld and nothing relaxed. *)
LEMMA InitInv == Init => RouteInv
<1> SUFFICES ASSUME Init PROVE RouteInv
  OBVIOUS
<1>1. TypeOK
  <2>1. \A i \in Seats : roster.agents[i] \in DOMAIN Profile
    BY RoutingAssumption DEF Init, Seats
  <2>2. enabled \in [Seats -> BOOLEAN]
    BY <2>1, RoutingAssumption DEF Init, Agent
  <2>3. withheld \in BOOLEAN /\ locals_only \in BOOLEAN /\ healthy_only \in BOOLEAN
        /\ has_tmux \in BOOLEAN /\ failed \in BOOLEAN
    BY Zenon DEF Init
  <2> QED BY <2>2, <2>3, RoutingAssumption DEF Init, TypeOK, Seats
<1>2. EnabledInv
  BY <1>1, SeatTypes DEF Init, EnabledInv
<1> QED BY <1>1, <1>2 DEF Init, RouteInv, CapsInv, CeilingBinds, HardCapsBind,
                          Done, InRoute

(* A route that returns a seat at once, or none. *)
LEMMA DirectInv ==
  ASSUME RouteInv, NEW r \in Seats \cup {0}, Finish(r),
         pc \in {"start", "escDefault", "escBest"},
         UNCHANGED <<roster, req, enabled, caps, withheld>>,
         r # 0 /\ Scoped => scope_admits(r, req.scope),
         r # 0 /\ Capability => satisfies_caps(r, HardCaps, 0, req.scope)
  PROVE  /\ EnabledInv' /\ CapsInv' /\ CeilingBinds' /\ HardCapsBind'
         /\ pc' = "done" /\ result' \in Seats \cup {0}
<1> USE DEF RouteInv, Finish
<1>1. Seats' = Seats /\ Capability' = Capability /\ HardCaps' = HardCaps /\ Scoped' = Scoped
      /\ (\A i \in Seats : Agent(i)' = Agent(i)) /\ ~withheld
      /\ \A i \in Seats : scope_admits(i, req.scope)' = scope_admits(i, req.scope)
  BY DEF CapsInv, EnabledInv, Seats, Capability, HardCaps, Agent, scope_admits, Scoped, InRoute
<1>2. EnabledInv'
  BY <1>1 DEF EnabledInv
<1>3. CapsInv'
  BY <1>1 DEF CapsInv, InRoute, Capability
<1>4. r # 0 /\ Capability => satisfies_caps(r, HardCaps, 0, req.scope)'
  BY <1>1 DEF satisfies_caps, effective_context
<1> QED BY <1>1, <1>2, <1>3, <1>4 DEF CeilingBinds, HardCapsBind

(* The candidates of a pass qualify. *)
LEMMA ContendsPasses ==
  ASSUME NEW i \in Seats, Contends(i)
  PROVE  enabled[i] /\ (Capability => Passes(i))
  BY DEF Contends, Qualifies, Routable, Passes

(* agent_pick_balanced picks one of the candidates, or none. *)
LEMMA PickInSeats ==
  ASSUME NEW S, NEW r \in pick_balanced(S)
  PROVE  r \in S \cup {0}
  BY DEF pick_balanced

(* Who is eligible with the capabilities of the attempt. *)
LEMMA EscalatablePasses ==
  ASSUME NEW i, Escalatable(i)
  PROVE  /\ enabled[i] /\ scope_admits(i, req.scope)
         /\ satisfies_caps(i, caps, 0, req.scope)
  BY DEF Escalatable, candidate_eligible, Routable, satisfies_caps

(* Eligibility depends on the roster, the request, who is enabled and who  *)
(* is down.                                                                *)
LEMMA EligibleStable ==
  ASSUME UNCHANGED <<roster, req, enabled, down>>, NEW i, NEW needed, NEW window
  PROVE  /\ Routable(i, req.role)' <=> Routable(i, req.role)
         /\ candidate_eligible(i, req.role, needed, window, req.scope)'
              <=> candidate_eligible(i, req.role, needed, window, req.scope)
<1>1. available(i)' <=> available(i)
  BY DEF available, block_reason, policy_filter, Agent
<1>2. Routable(i, req.role)' <=> Routable(i, req.role)
  BY <1>1 DEF Routable, has_role, Agent
<1>3. satisfies_caps(i, needed, window, req.scope)'
        <=> satisfies_caps(i, needed, window, req.scope)
  BY DEF satisfies_caps, scope_admits, effective_context, Agent
<1>4. scope_admits(i, req.scope)' <=> scope_admits(i, req.scope)
  BY DEF scope_admits, Agent
<1> QED BY <1>2, <1>3, <1>4 DEF candidate_eligible

(* Every pass keeps the invariant, and so does a change of health.         *)
LEMMA StepInv == RouteInv /\ [Next]_vars => RouteInv'
<1> SUFFICES ASSUME RouteInv, [Next]_vars PROVE RouteInv'
  OBVIOUS
<1>0. TypeOK /\ EnabledInv /\ CapsInv /\ roster \in Rosters /\ req \in Requests
  BY DEF RouteInv
<1> DEFINE Goal ==
      /\ pc' \in InRoute \cup {"done"}
      /\ enabled' \in [Seats -> BOOLEAN] /\ withheld' \in BOOLEAN
      /\ caps' \subseteq {"tools", "vision"} /\ result' \in Seats \cup {0}
      /\ EnabledInv' /\ CapsInv' /\ CeilingBinds' /\ HardCapsBind'
<1>T. ASSUME Goal, UNCHANGED <<roster, req, health, choice>>, failed' \in BOOLEAN
      PROVE  RouteInv'
  <2>1. TypeOK'
    BY <1>0, <1>T DEF TypeOK, health, choice, Seats, InRoute
  <2> QED BY <1>0, <1>T, <2>1 DEF RouteInv
<1>P. ASSUME pc # "done", pc' \in InRoute, UNCHANGED <<roster, req, enabled, caps, withheld, result>>,
             req.entry \in {"route", "with_caps"},
             pc' \in {"locals", "snapshot", "escDefault", "escBest"} => Capability,
             pc' \in {"escDefault", "escBest"} => caps = HardCaps
      PROVE  Goal
  <2>1. Seats' = Seats /\ Capability' = Capability /\ HardCaps' = HardCaps /\ ~Done'
        /\ (\A i \in Seats : Agent(i)' = Agent(i))
        /\ \A i \in Seats : scope_admits(i, req.scope)' = scope_admits(i, req.scope)
    BY <1>P DEF Seats, Capability, HardCaps, Agent, scope_admits, Done, InRoute
  <2>2. EnabledInv'
    BY <1>0, <1>P, <2>1 DEF EnabledInv
  <2>3. CapsInv'
    BY <1>0, <1>P, <2>1 DEF CapsInv
  <2> QED BY <1>0, <1>P, <2>1, <2>2, <2>3 DEF TypeOK, CeilingBinds, HardCapsBind
<1>1. ASSUME Start PROVE RouteInv'
  <2>1. Goal
    BY <1>1, <1>P DEF Start, InRoute
  <2> QED BY <1>0, <1>1, <1>T, <2>1 DEF Start, TypeOK
<1>2. ASSUME PrimaryDefault PROVE RouteInv'
  <2> DEFINE d == primary_turn_default
  <2>1. d \in Seats \cup {0} /\ (d # 0 => enabled[d])
    BY <1>0 DEF primary_turn_default, Routable, TypeOK
  <2>2. pc = "primary" /\ pc \in InRoute /\ UNCHANGED <<roster, req, health, choice, failed>>
    BY <1>2 DEF PrimaryDefault, InRoute
  <2>3. \/ Settle(d) /\ d # 0 /\ (Capability => Passes(d))
        \/ /\ pc' = IF Capability THEN "locals" ELSE "minTier"
           /\ UNCHANGED <<enabled, withheld, caps, result>>
    BY <1>2 DEF PrimaryDefault, Passes
  <2> HIDE DEF d
  <2>4. CASE Settle(d) /\ d # 0 /\ (Capability => Passes(d))
    <3>1. Goal
      BY <2>1, <2>2, <2>4, SettleInv
    <3> QED BY <1>0, <1>T, <2>2, <3>1 DEF TypeOK
  <2>5. CASE /\ pc' = IF Capability THEN "locals" ELSE "minTier"
             /\ UNCHANGED <<enabled, withheld, caps, result>>
    <3>1. Goal
      BY <1>0, <1>P, <2>2, <2>5 DEF CapsInv, InRoute
    <3> QED BY <1>0, <1>T, <2>2, <3>1 DEF TypeOK
  <2> QED BY <2>3, <2>4, <2>5
<1>3. ASSUME PreferLocal PROVE RouteInv'
  <2>1. Goal
    BY <1>0, <1>3, <1>P DEF PreferLocal, InRoute, CapsInv
  <2>2. locals_only' \in BOOLEAN
    BY <1>3, Zenon DEF PreferLocal
  <2>3. TypeOK'
    BY <1>0, <1>3, <2>1, <2>2 DEF TypeOK, PreferLocal, health, Seats, InRoute
  <2> QED BY <1>0, <1>3, <2>1, <2>3 DEF RouteInv, PreferLocal
<1>4. ASSUME SnapshotDegraded PROVE RouteInv'
  <2>1. Goal
    BY <1>0, <1>4, <1>P DEF SnapshotDegraded, InRoute, CapsInv
  <2>2. healthy_only' \in BOOLEAN
    BY <1>4, Zenon DEF SnapshotDegraded
  <2>3. TypeOK'
    BY <1>0, <1>4, <2>1, <2>2 DEF TypeOK, SnapshotDegraded, health, Seats, InRoute
  <2> QED BY <1>0, <1>4, <2>1, <2>3 DEF RouteInv, SnapshotDegraded
<1>5. ASSUME CheapestTier PROVE RouteInv'
  <2> DEFINE seats == {i \in Seats : Contends(i)}
  <2>1. /\ pc = "minTier" /\ pc \in InRoute
        /\ UNCHANGED <<roster, req, health, locals_only, healthy_only, degraded_snapshot, failed>>
    BY <1>5 DEF CheapestTier, InRoute
  <2>2. CASE seats = {}
    <3>1. Settle(0) /\ UNCHANGED <<min_tier, has_tmux>>
      BY <1>5, <2>2 DEF CheapestTier
    <3>2. Goal
      BY <2>1, <3>1, SettleInv
    <3> QED BY <1>0, <1>T, <2>1, <3>1, <3>2 DEF TypeOK, choice
  <2>3. CASE seats # {}
    <3>1. /\ min_tier' = MinTier(seats)
          /\ has_tmux' = \E i \in seats : tier(i) = MinTier(seats) /\ tmux(i)
          /\ pc' = "collect" /\ UNCHANGED <<enabled, withheld, caps, result>>
      BY <1>5, <2>3 DEF CheapestTier
    <3>2. Goal
      BY <1>0, <2>1, <3>1, <1>P DEF InRoute, CapsInv
    <3>3. min_tier' \in Int
      BY <1>0, <2>3, <3>1, MinTierIsLeast
    <3>4. has_tmux' \in BOOLEAN
      BY <3>1, Zenon
    <3> HIDE DEF seats
    <3>5. TypeOK'
      BY <1>0, <2>1, <3>2, <3>3, <3>4 DEF TypeOK, health, Seats, InRoute
    <3> QED BY <1>0, <2>1, <3>2, <3>5 DEF RouteInv
  <2> QED BY <2>2, <2>3
<1>6. ASSUME Collect PROVE RouteInv'
  <2> DEFINE seats == {i \in Seats : Contends(i) /\ tier(i) = min_tier /\ (has_tmux => tmux(i))}
  <2>1. PICK r \in pick_balanced(seats) : Settle(r) /\ failed' = ProviderFailed(seats, r)
    BY <1>6 DEF Collect
  <2>2. pc \in InRoute /\ UNCHANGED <<roster, req, health, choice>>
    BY <1>6 DEF Collect, InRoute
  <2>3. r \in seats \cup {0}
    BY PickInSeats
  <2>4. r \in Seats \cup {0} /\ (r # 0 => enabled[r] /\ (Capability => Passes(r)))
    BY <2>3, ContendsPasses
  <2>5. Goal
    BY <2>1, <2>2, <2>4, SettleInv
  <2>6. failed' \in BOOLEAN
    BY <2>1, Zenon DEF ProviderFailed
  <2> QED BY <1>T, <2>2, <2>5, <2>6
<1>D. ASSUME NEW r \in Seats \cup {0}, Finish(r),
             pc \in {"start", "escDefault", "escBest"},
             UNCHANGED <<roster, req, enabled, caps, withheld>>,
             r # 0 /\ Scoped => scope_admits(r, req.scope),
             r # 0 /\ Capability => satisfies_caps(r, HardCaps, 0, req.scope)
      PROVE  Goal
  <2>1. /\ EnabledInv' /\ CapsInv' /\ CeilingBinds' /\ HardCapsBind'
        /\ pc' = "done" /\ result' \in Seats \cup {0}
    BY <1>D, DirectInv
  <2> QED BY <1>0, <1>D, <2>1 DEF TypeOK
<1>7. ASSUME EscalateDefault PROVE RouteInv'
  <2>1. pc = "escDefault" /\ Capability /\ caps = HardCaps
        /\ UNCHANGED <<roster, req, enabled, health, caps, withheld, choice, failed>>
    BY <1>0, <1>7 DEF EscalateDefault, CapsInv
  <2>2. CASE roster.default # 0 /\ Escalatable(roster.default)
    <3>1. Finish(roster.default) /\ roster.default \in Seats
      BY <1>0, <1>7, <2>2 DEF EscalateDefault, TypeOK
    <3>2. Goal
      BY <1>D, <2>1, <2>2, <3>1, EscalatablePasses DEF Capability
    <3> QED BY <1>0, <1>T, <2>1, <3>2 DEF TypeOK
  <2>3. CASE ~(roster.default # 0 /\ Escalatable(roster.default))
    <3>1. pc' = "escBest" /\ UNCHANGED result
      BY <1>7, <2>3 DEF EscalateDefault
    <3>2. Goal
      BY <1>P, <2>1, <3>1 DEF InRoute, Capability
    <3> QED BY <1>0, <1>T, <2>1, <3>2 DEF TypeOK
  <2> QED BY <2>2, <2>3
<1>8. ASSUME EscalateBest PROVE RouteInv'
  <2> DEFINE seats == {i \in Seats : Escalatable(i)}
             best == IF seats = {} THEN 0 ELSE Largest(seats, effective_context, tier)
  <2>1. pc = "escBest" /\ Capability /\ caps = HardCaps /\ Finish(best)
        /\ UNCHANGED <<roster, req, enabled, health, caps, withheld, choice, failed>>
    BY <1>0, <1>8 DEF EscalateBest, CapsInv
  <2>2. seats # {} => Largest(seats, effective_context, tier) \in seats
    BY <1>0, LargestInSet
  <2>3. best \in seats \cup {0}
    BY <2>2
  <2> HIDE DEF best
  <2>4. best # 0 => scope_admits(best, req.scope) /\ satisfies_caps(best, HardCaps, 0, req.scope)
    BY <2>1, <2>3, EscalatablePasses
  <2>5. Goal
    BY <1>D, <2>1, <2>3, <2>4 DEF Capability
  <2> QED BY <1>0, <1>T, <2>1, <2>5 DEF TypeOK
<1>9. ASSUME EscalationTarget PROVE RouteInv'
  <2> DEFINE seats == {i \in Seats : tier(i) > req.failed_tier /\ Escalatable(i)}
             best == IF seats = {} THEN 0 ELSE Largest(seats, tier, effective_context)
  <2>1. /\ pc = "start" /\ req.entry = "escalation_target" /\ Finish(best)
        /\ UNCHANGED <<roster, req, enabled, health, caps, withheld, choice, failed>>
        /\ caps = req.caps
    BY <1>0, <1>9 DEF EscalationTarget, CapsInv, Capability
  <2>2. seats # {} => Largest(seats, tier, effective_context) \in seats
    BY <1>0, LargestInSet
  <2>3. best \in seats \cup {0}
    BY <2>2
  <2> HIDE DEF best
  <2>4. best # 0 => scope_admits(best, req.scope)
    BY <2>1, <2>3, EscalatablePasses
  <2>5. Goal
    BY <1>D, <2>1, <2>3, <2>4 DEF Capability
  <2> QED BY <1>0, <1>T, <2>1, <2>5 DEF TypeOK
<1>10. ASSUME RouteAtTier PROVE RouteInv'
  <2> DEFINE seats == {i \in Seats : tier(i) = req.failed_tier /\ Routable(i, req.role)}
  <2>1. PICK r \in pick_balanced(seats) : Finish(r) /\ failed' = ProviderFailed(seats, r)
    BY <1>10 DEF RouteAtTier
  <2>2. /\ pc = "start" /\ req.entry = "at_tier"
        /\ UNCHANGED <<roster, req, enabled, health, caps, withheld, choice>>
    BY <1>10 DEF RouteAtTier
  <2>3. r \in Seats \cup {0}
    BY PickInSeats
  <2>4. Goal
    BY <1>D, <2>1, <2>2, <2>3 DEF Scoped, Capability
  <2>5. failed' \in BOOLEAN
    BY <2>1, Zenon DEF ProviderFailed
  <2> QED BY <1>T, <2>2, <2>4, <2>5
<1>11. ASSUME DelegatePick PROVE RouteInv'
  <2>1. PICK r \in Seats \cup {0} : Finish(r) /\ failed' \in BOOLEAN
    BY <1>11 DEF DelegatePick
  <2>2. /\ pc = "start" /\ req.entry = "delegate"
        /\ UNCHANGED <<roster, req, enabled, health, caps, withheld, choice>>
    BY <1>11 DEF DelegatePick
  <2>3. Goal
    BY <1>D, <2>1, <2>2 DEF Scoped, Capability
  <2> QED BY <1>T, <2>1, <2>2, <2>3
<1>12. ASSUME PickNamed PROVE RouteInv'
  <2>1. PICK r \in Seats \cup {0} : Finish(r)
    BY <1>12 DEF PickNamed
  <2>2. /\ pc = "start" /\ req.entry = "named"
        /\ UNCHANGED <<roster, req, enabled, health, caps, withheld, choice, failed>>
    BY <1>12 DEF PickNamed
  <2>3. Goal
    BY <1>D, <2>1, <2>2 DEF Scoped, Capability
  <2> QED BY <1>0, <1>T, <2>2, <2>3 DEF TypeOK
<1>13. ASSUME NEW i \in Seats, FlipHealth(i) PROVE RouteInv'
  <2>1. /\ pc \in InRoute /\ flips' \in 0 .. MaxFlips
        /\ UNCHANGED <<roster, req, pc, enabled, caps, withheld, choice, result, failed>>
    BY <1>0, <1>13, RoutingAssumption DEF FlipHealth, TypeOK, InRoute
  <2>2. down' \subseteq Seats /\ degraded' \subseteq Seats /\ moved' \subseteq Seats
    BY <1>0, <1>13 DEF FlipHealth, TypeOK
  <2>3. Goal
    BY <1>0, <1>P, <2>1 DEF CapsInv, InRoute
  <2>4. TypeOK'
    BY <1>0, <2>1, <2>2, <2>3 DEF TypeOK, choice, Seats, InRoute
  <2> QED BY <1>0, <2>1, <2>3, <2>4 DEF RouteInv
<1>14. CASE UNCHANGED vars
  BY <1>14, SMTT(30) DEF vars, health, choice, RouteInv, TypeOK, EnabledInv, CapsInv, CeilingBinds,
               HardCapsBind, Seats, Agent, tier, scope_admits, Capability,
               HardCaps, Scoped, Done, satisfies_caps, effective_context, candidate_eligible,
               Routable, has_role, available, block_reason, policy_filter
<1> QED BY <1>1, <1>2, <1>3, <1>4, <1>5, <1>6, <1>7, <1>8, <1>9, <1>10, <1>11, <1>12, <1>13,
           <1>14 DEF Next

(* The type invariant and how far a request is relaxed hold throughout. *)
THEOREM RoutingInvariant == Spec => [](TypeOK /\ RouteInv)
<1>1. RouteInv => TypeOK
  BY DEF RouteInv
<1> QED BY <1>1, InitInv, StepInv, PTL DEF Spec

(* A seat is never given work beyond its scope ceiling: not on the primary *)
(* turn, not after modalities or the window were relaxed, not by an        *)
(* escalation, and not because health changed between two passes           *)
(* (routing.c 606-627, 719-743, 985-987).                                  *)
THEOREM CeilingAlwaysBinds == Spec => []CeilingBinds
<1>1. RouteInv => CeilingBinds
  BY DEF RouteInv
<1> QED BY <1>1, RoutingInvariant, PTL

(* Hard capabilities survive every relaxation (routing.c 952-957,          *)
(* 1041-1051).                                                             *)
THEOREM HardCapsAlwaysBind == Spec => []HardCapsBind
<1>1. RouteInv => HardCapsBind
  BY DEF RouteInv
<1> QED BY <1>1, RoutingInvariant, PTL

(* Every route gives back the seats it withheld (routing.c 731-742).       *)
THEOREM RosterAlwaysRestored == Spec => []RosterRestored
<1>1. RouteInv => RosterRestored
  <2> SUFFICES ASSUME RouteInv, Done PROVE \A i \in Seats : enabled[i] = Agent(i).enabled
    BY DEF RosterRestored
  <2>1. ~withheld
    BY DEF RouteInv, EnabledInv, Done, InRoute
  <2>2. \A i \in Seats : enabled[i] \in BOOLEAN /\ Agent(i).enabled \in BOOLEAN
    BY SeatTypes DEF RouteInv, TypeOK
  <2>3. \A i \in Seats : enabled[i] <=> Agent(i).enabled
    BY <2>1 DEF RouteInv, EnabledInv
  <2> QED BY <2>2, <2>3
<1> QED BY <1>1, RoutingInvariant, PTL

-------------------------------------------------------------------------------
(* While health holds still and the provider answers, the flags of the     *)
(* passes mean what they are named for.                                    *)
LocalsRight == locals_only <=> req.prefer_local /\ \E i \in Seats : Qualifies(i) /\ Agent(i).local

HealthyRight ==
  /\ degraded_snapshot = degraded
  /\ healthy_only <=> \E i \in Seats \ degraded : Qualifies(i) /\ (locals_only => Agent(i).local)

TierRight ==
  /\ \A i \in Seats : Contends(i) => min_tier <= tier(i)
  /\ \E i \in Seats : Contends(i) /\ tier(i) = min_tier
  /\ has_tmux <=> \E i \in Seats : Contends(i) /\ tier(i) = min_tier /\ tmux(i)

Nobody(needed) ==
  \A i \in Seats : ~candidate_eligible(i, req.role, needed, req.min_context, req.scope)

PassInv ==
  /\ Capability /\ pc \in {"snapshot", "minTier", "collect"} => LocalsRight
  /\ Capability /\ pc \in {"minTier", "collect"} => HealthyRight
  /\ pc = "collect" => TierRight
  /\ Capability /\ caps # req.caps => Nobody(req.caps)
  /\ pc \in {"escDefault", "escBest"} => Nobody(HardCaps)

(* A seat the last pass may pick. *)
Chosen(r) ==
  /\ LocalsRight /\ HealthyRight /\ TierRight
  /\ r \in Seats /\ Contends(r) /\ tier(r) = min_tier /\ (has_tmux => tmux(r))

(* The gate of the passes is agent_route_candidate_eligible. *)
LEMMA QualifiesIsEligible ==
  ASSUME NEW i
  PROVE  Qualifies(i) <=> candidate_eligible(i, req.role, caps, req.min_context, req.scope)
  BY DEF Qualifies, candidate_eligible, satisfies_caps

(* The passes and the one definition agree on the pick. *)
LEMMA ChosenIsPreferred == Capability /\ TypeOK /\ Chosen(result) => result \in Preferred(caps)
<1> SUFFICES ASSUME Capability, TypeOK, Chosen(result) PROVE result \in Preferred(caps)
  OBVIOUS
<1> DEFINE ok == {i \in Seats : candidate_eligible(i, req.role, caps, req.min_context, req.scope)}
           near == IF req.prefer_local THEN Prefer(ok, LAMBDA i : Agent(i).local) ELSE ok
           healthy == Prefer(near, LAMBDA i : i \notin degraded)
           cheap == {i \in healthy : \A j \in healthy : tier(i) <= tier(j)}
<1>1. ok = {i \in Seats : Qualifies(i)}
  BY QualifiesIsEligible
<1> HIDE DEF ok
<1>2. near = {i \in ok : locals_only => Agent(i).local}
  BY <1>1 DEF Chosen, LocalsRight, Prefer
<1> HIDE DEF near
<1>3. healthy = {i \in near : healthy_only => i \notin degraded}
  BY <1>1, <1>2 DEF Chosen, HealthyRight, Prefer
<1> HIDE DEF healthy
<1>4. \A i \in Seats : i \in healthy <=> Contends(i)
  BY <1>1, <1>2, <1>3 DEF Contends, Chosen, HealthyRight
<1>5. healthy \subseteq Seats
  BY <1>1, <1>2, <1>3
<1>6. result \in cheap
  BY <1>4, <1>5 DEF Chosen, TierRight
<1>7. (\E i \in cheap : tmux(i)) => tmux(result)
  <2> SUFFICES ASSUME NEW i \in cheap, tmux(i) PROVE tmux(result)
    OBVIOUS
  <2>1. i \in Seats /\ Contends(i) /\ tier(i) <= tier(result) /\ min_tier <= tier(i)
    BY <1>4, <1>5, <1>6 DEF Chosen, TierRight
  <2>2. tier(i) = min_tier
    BY <2>1, SeatTypes DEF Chosen, TypeOK
  <2> QED BY <2>1, <2>2 DEF Chosen, TierRight
<1>8. result \in Prefer(cheap, tmux)
  BY <1>6, <1>7 DEF Prefer
<1> QED BY <1>8 DEF Preferred, ok, near, healthy

(* Where nobody is eligible, there is nothing to choose from. *)
LEMMA NobodyPreferred ==
  /\ Nobody(HardCaps) => Preferred(HardCaps) = {}
  /\ Nobody(req.caps) => Preferred(req.caps) = {}
<1>1. ASSUME NEW needed, Nobody(needed) PROVE Preferred(needed) = {}
  BY <1>1 DEF Nobody, Preferred, Prefer
<1> QED BY <1>1

(* Only the provider leaves a route with candidates empty-handed. *)
LEMMA PickNone ==
  ASSUME TypeOK, NEW S \in SUBSET Seats, S # {}, 0 \in pick_balanced(S)
  PROVE  Cardinality(S) > 1
<1>1. Len(roster.agents) \in Int /\ 1 \in Int
  BY SeatTypes
<1>2. IsFiniteSet(Seats)
  BY <1>1, FS_Interval DEF Seats
<1>3. IsFiniteSet(S)
  BY <1>2, FS_Subset
<1>4. Cardinality(S) \in Nat /\ Cardinality(S) # 0
  BY <1>3, FS_CardinalityType, FS_EmptySet
<1>5. 0 \notin S
  BY <1>1 DEF Seats
<1>6. Cardinality(S) # 1
  BY <1>5 DEF pick_balanced
<1> QED BY <1>4, <1>6

(* The gates of a pass do not change while what they read does not. *)
LEMMA GatesStable ==
  ASSUME UNCHANGED <<roster, req, enabled, down, caps>>, NEW i
  PROVE  /\ Qualifies(i)' <=> Qualifies(i)
         /\ tier(i)' = tier(i) /\ (tmux(i)' <=> tmux(i)) /\ Agent(i)' = Agent(i)
         /\ UNCHANGED <<locals_only, healthy_only, degraded_snapshot>>
              => (Contends(i)' <=> Contends(i))
<1>1. Qualifies(i)' <=> Qualifies(i)
  <2>1. Routable(i, req.role)' <=> Routable(i, req.role)
    BY EligibleStable
  <2> QED BY <2>1 DEF Qualifies, satisfies_caps, scope_admits, effective_context, Agent
<1>2. tier(i)' = tier(i) /\ (tmux(i)' <=> tmux(i)) /\ Agent(i)' = Agent(i)
  BY DEF tier, tmux, Agent
<1>3. Routable(i, req.role)' <=> Routable(i, req.role)
  BY EligibleStable
<1>4. Capability' = Capability
  BY DEF Capability
<1>5. UNCHANGED <<locals_only, healthy_only, degraded_snapshot>> => (Contends(i)' <=> Contends(i))
  BY <1>1, <1>2, <1>3, <1>4 DEF Contends
<1> QED BY <1>1, <1>2, <1>5

(* So what the flags of the passes mean lasts. *)
LEMMA FlagsStable ==
  ASSUME UNCHANGED <<roster, req, enabled, down, caps, locals_only>>
  PROVE  /\ Seats' = Seats /\ Capability' = Capability /\ HardCaps' = HardCaps
         /\ LocalsRight' <=> LocalsRight
         /\ UNCHANGED <<degraded, degraded_snapshot, healthy_only>> => (HealthyRight' <=> HealthyRight)
         /\ UNCHANGED <<degraded, degraded_snapshot, healthy_only, min_tier, has_tmux>>
              => (TierRight' <=> TierRight)
<1>1. Seats' = Seats /\ Capability' = Capability /\ HardCaps' = HardCaps
  BY DEF Seats, Capability, HardCaps
<1>2. LocalsRight' <=> LocalsRight
  BY <1>1, GatesStable DEF LocalsRight
<1>3. UNCHANGED <<degraded, degraded_snapshot, healthy_only>> => (HealthyRight' <=> HealthyRight)
  BY <1>1, GatesStable DEF HealthyRight
<1>4. UNCHANGED <<degraded, degraded_snapshot, healthy_only, min_tier, has_tmux>>
        => (TierRight' <=> TierRight)
  BY <1>1, GatesStable DEF TierRight
<1> QED BY <1>1, <1>2, <1>3, <1>4

(* Whether nobody can take the request depends on roster, request and health alone. *)
LEMMA NobodyStable ==
  ASSUME UNCHANGED <<roster, req, enabled, down>>
  PROVE  (Nobody(req.caps)' <=> Nobody(req.caps)) /\ (Nobody(HardCaps)' <=> Nobody(HardCaps))
<1>1. Seats' = Seats /\ HardCaps' = HardCaps
  BY DEF Seats, HardCaps
<1>2. ASSUME NEW needed, NEW window, NEW i
      PROVE  candidate_eligible(i, req.role, needed, window, req.scope)'
               <=> candidate_eligible(i, req.role, needed, window, req.scope)
  BY EligibleStable
<1>3. Nobody(req.caps)' <=> Nobody(req.caps)
  BY <1>1, <1>2 DEF Nobody
<1>4. Nobody(HardCaps)' <=> Nobody(HardCaps)
  BY <1>1, <1>2 DEF Nobody
<1> QED BY <1>3, <1>4

(* What the two preference properties need of a route in progress. *)
StillInv ==
  /\ flips = 0 /\ ~failed => PassInv
  /\ PreferencesNeverExclude
  /\ CheapestCapable

(* A route without capability routing that ends empty-handed has found no  *)
(* candidate, and who could have taken it was in contention.               *)
LEMMA PlainEmpty ==
  ASSUME RouteInv, pc \in InRoute, ~Capability, NEW r \in Seats \cup {0}, Settle(r),
         Done', result' = 0, UNCHANGED <<roster, req, down>>, NEW i \in Seats, CouldTake(i)'
  PROVE  r = 0 /\ Routable(i, req.role)
<1> USE DEF Finish
<1>0. /\ TypeOK /\ EnabledInv /\ req.entry \in {"route", "with_caps"} /\ ~Capability'
  BY DEF RouteInv, CapsInv, Capability
<1>1. r = 0 /\ Routable(i, req.role)'
  BY <1>0 DEF Settle, Done, CouldTake, candidate_eligible
<1>2. enabled[i]
  <2>1. CASE req.entry = "route"
    BY <1>1, <2>1 DEF Settle, Capability, Routable
  <2>2. CASE req.entry = "with_caps"
    <3>1. scope_admits(i, req.scope)
      BY <1>0, <2>2 DEF CouldTake, candidate_eligible, satisfies_caps, scope_admits, Agent
    <3>2. Agent(i).enabled
      BY <1>0, <1>1, <2>2, SeatTypes DEF Settle, RestoreEnabled, Capability, Routable, EnabledInv,
                                         Agent, Done
    <3> QED BY <1>0, <3>1, <3>2 DEF EnabledInv
  <2> QED BY <1>0, <2>1, <2>2
<1>3. available(i)' <=> available(i)
  BY DEF available, block_reason, policy_filter, Agent
<1>4. Routable(i, req.role)
  BY <1>1, <1>2, <1>3 DEF Routable, has_role, Agent
<1> QED BY <1>1, <1>4

(* An attempt that ends while health holds still: empty-handed only if     *)
(* nobody would do, otherwise with a seat of the right choice.             *)
LEMMA SettleStill ==
  ASSUME RouteInv, RouteInv', PassInv, pc \in InRoute, NEW r \in Seats \cup {0}, Settle(r),
         UNCHANGED <<roster, req, health, choice>>,
         r = 0 /\ Capability => Nobody(caps),
         r = 0 /\ ~Capability => \A i \in Seats : ~Routable(i, req.role),
         r # 0 /\ Capability /\ ~req.primary => Chosen(r)
  PROVE  PassInv' /\ PreferencesNeverExclude' /\ CheapestCapable'
<1> USE DEF Finish
<1>0. /\ TypeOK /\ EnabledInv /\ CapsInv /\ req.entry \in {"route", "with_caps"}
      /\ Seats' = Seats /\ Capability' = Capability /\ HardCaps' = HardCaps
      /\ UNCHANGED <<down, degraded, flips>>
      /\ UNCHANGED <<locals_only, healthy_only, degraded_snapshot, min_tier, has_tmux>>
  BY DEF RouteInv, CapsInv, Seats, Capability, HardCaps, health, choice
<1>1. CASE ~Capability
  <2>1. CheapestCapable'
    BY <1>0, <1>1 DEF CheapestCapable
  <2>2. pc' \in {"done", "primary"}
    BY <1>1 DEF Settle
  <2>3. PassInv'
    BY <1>0, <1>1, <2>2 DEF PassInv
  <2>4. PreferencesNeverExclude'
    <3> SUFFICES ASSUME Done', result' = 0, NEW i \in Seats,
                        IF req.entry = "with_caps"
                        THEN candidate_eligible(i, req.role, {}, 0, req.scope)'
                        ELSE Routable(i, req.role)'
                 PROVE  FALSE
      BY <1>0, <1>1 DEF PreferencesNeverExclude, CouldTake
    <3>1. CouldTake(i)'
      BY <1>0, <1>1 DEF CouldTake
    <3> QED BY <1>0, <1>1, <3>1, PlainEmpty
  <2> QED BY <2>1, <2>3, <2>4
<1>2. CASE Capability
  <2>0. UNCHANGED enabled
    BY <1>2 DEF Settle, Capability
  <2>1. CASE r = 0
    <3>1. /\ pc' = IF caps \cap SoftCaps # {} THEN "primary" ELSE "escDefault"
          /\ caps' = caps \ SoftCaps
      BY <1>2, <2>1 DEF Settle, Capability
    <3>2. PreferencesNeverExclude' /\ CheapestCapable'
      BY <3>1 DEF PreferencesNeverExclude, CouldTake, CheapestCapable, Done
    <3>3. Nobody(req.caps)' <=> Nobody(req.caps)
      BY <1>0, <2>0, NobodyStable
    <3>4. Nobody(HardCaps)' <=> Nobody(HardCaps)
      BY <1>0, <2>0, NobodyStable
    <3>5. pc' = "escDefault" => Nobody(HardCaps)
      <4> SUFFICES ASSUME pc' = "escDefault" PROVE Nobody(HardCaps)
        OBVIOUS
      <4>1. caps \cap SoftCaps = {}
        BY <3>1
      <4>2. caps = HardCaps
        BY <1>0, <4>1 DEF CapsInv, HardCaps
      <4> QED BY <1>2, <2>1, <4>2
    <3>6. caps' # req.caps => Nobody(req.caps)
      <4> SUFFICES ASSUME caps' # req.caps PROVE Nobody(req.caps)
        OBVIOUS
      <4>1. CASE caps = req.caps
        BY <1>2, <2>1, <4>1
      <4>2. CASE caps # req.caps
        BY <1>2, <4>2 DEF PassInv
      <4> QED BY <4>1, <4>2
    <3>7. pc' \in {"primary", "escDefault"}
      BY <3>1
    <3>8. PassInv'
      BY <1>0, <3>3, <3>4, <3>5, <3>6, <3>7 DEF PassInv
    <3> QED BY <3>2, <3>8
  <2>2. CASE r # 0
    <3>1. pc' = "done" /\ result' = r /\ UNCHANGED caps
      BY <1>2, <2>2 DEF Settle, Capability
    <3>2. PreferencesNeverExclude'
      BY <2>2, <3>1 DEF PreferencesNeverExclude, CouldTake
    <3>3. Nobody(req.caps)' <=> Nobody(req.caps)
      BY <1>0, <2>0, NobodyStable
    <3>4. PassInv'
      BY <1>0, <3>1, <3>3 DEF PassInv
    <3>5. CheapestCapable'
      <4> SUFFICES ASSUME ~req.primary
                   PROVE  result' \in IF Preferred(req.caps)' # {} THEN Preferred(req.caps)'
                                      ELSE Preferred(HardCaps)'
        BY <1>0 DEF CheapestCapable
      <4>1. Chosen(r)
        BY <1>2, <2>2
      <4>2. Chosen(result)'
        <5>1. (LocalsRight /\ HealthyRight /\ TierRight)'
          BY <1>0, <2>0, <3>1, <4>1, FlagsStable DEF Chosen
        <5>2. Contends(r)' /\ tier(r)' = tier(r) /\ (tmux(r)' <=> tmux(r))
          BY <1>0, <2>0, <3>1, <4>1, GatesStable DEF Chosen
        <5> QED BY <1>0, <3>1, <4>1, <5>1, <5>2 DEF Chosen, tier, tmux, Agent, Contends, Qualifies,
                  Routable, available, block_reason, policy_filter, has_role, scope_admits,
                  satisfies_caps, effective_context
      <4>3. Capability' /\ TypeOK' /\ Chosen(result)' => (result \in Preferred(caps))'
        BY ChosenIsPreferred, PTL
      <4>4. result' \in Preferred(caps)'
        BY <1>0, <1>2, <4>2, <4>3 DEF RouteInv
      <4>5. CASE caps = req.caps
        BY <3>1, <4>4, <4>5
      <4>6. CASE caps # req.caps
        <5>1. Nobody(req.caps)'
          BY <1>0, <1>2, <3>3, <4>6 DEF PassInv
        <5>2. (Nobody(req.caps) => Preferred(req.caps) = {})'
          BY NobodyPreferred, PTL
        <5>3. caps' = HardCaps'
          BY <1>0, <3>1, <4>6 DEF CapsInv
        <5> QED BY <4>4, <5>1, <5>2, <5>3
      <4> QED BY <4>5, <4>6
    <3> QED BY <3>2, <3>4, <3>5
  <2> QED BY <2>1, <2>2
<1> QED BY <1>1, <1>2

(* A pass that finds no candidate has found that nobody qualifies: the     *)
(* preferences have not emptied the field.                                 *)
LEMMA NoneContends ==
  ASSUME LocalsRight, HealthyRight, Capability, \A i \in Seats : ~Contends(i)
  PROVE  Nobody(caps)
<1>1. \A i \in Seats : ~Qualifies(i)
  BY DEF Contends, LocalsRight, HealthyRight
<1> QED BY <1>1, QualifiesIsEligible DEF Nobody

(* The choice depends on what eligibility depends on, and on who is        *)
(* degraded.                                                               *)
LEMMA PreferredStable ==
  ASSUME UNCHANGED <<roster, req, enabled, down, degraded>>
  PROVE  Preferred(req.caps)' = Preferred(req.caps) /\ Preferred(HardCaps)' = Preferred(HardCaps)
<1>1. Seats' = Seats /\ HardCaps' = HardCaps
  BY DEF Seats, HardCaps
<1>2. ASSUME NEW needed PROVE Preferred(needed)' = Preferred(needed)
  <2> DEFINE ok == {i \in Seats : candidate_eligible(i, req.role, needed, req.min_context, req.scope)}
             near == IF req.prefer_local THEN Prefer(ok, LAMBDA i : Agent(i).local) ELSE ok
             healthy == Prefer(near, LAMBDA i : i \notin degraded)
             cheap == {i \in healthy : \A j \in healthy : tier(i) <= tier(j)}
  <2>1. ASSUME NEW i, NEW window
        PROVE  candidate_eligible(i, req.role, needed, window, req.scope)'
                 <=> candidate_eligible(i, req.role, needed, window, req.scope)
    BY EligibleStable
  <2>2. ok' = ok
    BY <1>1, <2>1
  <2> HIDE DEF ok
  <2>3. near' = near
    BY <2>2 DEF Prefer, Agent
  <2> HIDE DEF near
  <2>4. healthy' = healthy
    BY <2>3 DEF Prefer
  <2> HIDE DEF healthy
  <2>5. cheap' = cheap
    BY <2>4 DEF tier, Agent
  <2> HIDE DEF cheap
  <2>6. Prefer(cheap, tmux)' = Prefer(cheap, tmux)
    BY <2>5 DEF Prefer, tmux, Agent
  <2> QED BY <2>6 DEF Preferred, cheap, healthy, near, ok
<1> QED BY <1>1, <1>2

(* What a route that returns at once, without passes, must show. *)
LEMMA DirectStill ==
  ASSUME RouteInv, Finish(result'), pc \in {"start", "escDefault", "escBest"},
         PassInv, UNCHANGED <<roster, req, enabled, health, caps, withheld>>,
         Capability => pc \in {"escDefault", "escBest"},
         result' = 0 /\ ~failed' /\ req.entry \in {"route", "with_caps", "delegate"} =>
           \A i \in Seats \ req.exclude :
             ~(IF req.entry = "with_caps"
               THEN candidate_eligible(i, req.role, IF Capability THEN HardCaps ELSE {}, 0, req.scope)
               ELSE Routable(i, req.role))
  PROVE  PassInv' /\ PreferencesNeverExclude' /\ CheapestCapable'
<1>0. /\ Seats' = Seats /\ Capability' = Capability /\ HardCaps' = HardCaps /\ pc' = "done"
      /\ UNCHANGED <<down, degraded, flips>> /\ CapsInv
  BY DEF RouteInv, Seats, Capability, HardCaps, health, Finish
<1>1. Nobody(req.caps)' <=> Nobody(req.caps)
  BY <1>0, NobodyStable
<1>2. Nobody(HardCaps)' <=> Nobody(HardCaps)
  BY <1>0, NobodyStable
<1>3. PassInv'
  BY <1>0, <1>1 DEF PassInv
<1>4. CheapestCapable'
  <2> SUFFICES ASSUME Capability PROVE Preferred(HardCaps)' = {}
    BY <1>0 DEF CheapestCapable
  <2>1. Nobody(HardCaps)'
    BY <1>2 DEF PassInv
  <2>2. (Nobody(HardCaps) => Preferred(HardCaps) = {})'
    BY NobodyPreferred, PTL
  <2> QED BY <2>1, <2>2
<1>5. PreferencesNeverExclude'
  <2> SUFFICES ASSUME result' = 0, ~failed', req.entry \in {"route", "with_caps", "delegate"},
                      NEW i \in Seats \ req.exclude,
                      IF req.entry = "with_caps"
                      THEN candidate_eligible(i, req.role, IF Capability THEN HardCaps ELSE {},
                                              0, req.scope)'
                      ELSE Routable(i, req.role)'
               PROVE  FALSE
    BY <1>0 DEF PreferencesNeverExclude, CouldTake
  <2>1. Routable(i, req.role)' <=> Routable(i, req.role)
    BY <1>0, EligibleStable
  <2>2. ASSUME NEW needed
        PROVE  candidate_eligible(i, req.role, needed, 0, req.scope)'
                 <=> candidate_eligible(i, req.role, needed, 0, req.scope)
    BY <1>0, EligibleStable
  <2>3. CASE req.entry = "with_caps"
    BY <1>0, <2>2, <2>3
  <2>4. CASE req.entry # "with_caps"
    BY <2>1, <2>4
  <2> QED BY <2>3, <2>4
<1> QED BY <1>3, <1>4, <1>5

(* Every pass keeps the flags right while health holds still. *)
LEMMA StillStep == RouteInv /\ RouteInv' /\ StillInv /\ [Next]_vars => StillInv'
<1> SUFFICES ASSUME RouteInv, RouteInv', StillInv, [Next]_vars PROVE StillInv'
  OBVIOUS
<1>0. TypeOK /\ EnabledInv /\ CapsInv /\ req \in Requests
  BY DEF RouteInv
<1>1. CASE UNCHANGED vars
  <2>0. /\ UNCHANGED <<roster, req, pc, enabled, down, degraded, flips, caps, result, failed>>
        /\ UNCHANGED <<locals_only, healthy_only, degraded_snapshot, min_tier, has_tmux>>
    BY <1>1 DEF vars, health, choice
  <2>1. PassInv <=> PassInv'
    <3>1. Nobody(req.caps)' <=> Nobody(req.caps)
      BY <2>0, NobodyStable
    <3>2. Nobody(HardCaps)' <=> Nobody(HardCaps)
      BY <2>0, NobodyStable
    <3> QED BY <2>0, <3>1, <3>2, FlagsStable DEF PassInv
  <2>2. CheapestCapable <=> CheapestCapable'
    <3>1. Preferred(req.caps)' = Preferred(req.caps) /\ Preferred(HardCaps)' = Preferred(HardCaps)
      BY <2>0, PreferredStable
    <3> QED BY <2>0, <3>1 DEF CheapestCapable, Done, Capability
  <2>3. PreferencesNeverExclude <=> PreferencesNeverExclude'
    <3>1. \A i : Routable(i, req.role)' <=> Routable(i, req.role)
      BY <2>0, EligibleStable
    <3>2. ASSUME NEW i, NEW needed
          PROVE  candidate_eligible(i, req.role, needed, 0, req.scope)'
                   <=> candidate_eligible(i, req.role, needed, 0, req.scope)
      BY <2>0, EligibleStable
    <3>3. Seats' = Seats /\ Capability' = Capability /\ HardCaps' = HardCaps /\ Done' = Done
      BY <2>0 DEF Seats, Capability, HardCaps, Done
    <3> QED BY <2>0, <3>1, <3>2, <3>3 DEF PreferencesNeverExclude, CouldTake
  <2> QED BY <2>0, <2>1, <2>2, <2>3 DEF StillInv
<1>2. ASSUME NEW i \in Seats, FlipHealth(i) PROVE StillInv'
  <2>1. flips' # 0 /\ pc' # "done"
    BY <1>0, <1>2, RoutingAssumption DEF FlipHealth, TypeOK
  <2> QED BY <2>1 DEF StillInv, PreferencesNeverExclude, CheapestCapable, Done
<1>3. SUFFICES ASSUME flips' = 0, ~failed', UNCHANGED <<roster, req, health>>
               PROVE  PassInv' /\ PreferencesNeverExclude' /\ CheapestCapable'
  <2>1. ASSUME ~(flips' = 0 /\ ~failed') PROVE StillInv'
    BY <2>1 DEF StillInv, PreferencesNeverExclude, CheapestCapable
  <2>2. UNCHANGED <<roster, req, health>> \/ UNCHANGED vars \/ \E i \in Seats : FlipHealth(i)
    BY DEF Next, Start, PrimaryDefault, PreferLocal, SnapshotDegraded, CheapestTier, Collect,
           EscalateDefault, EscalateBest, EscalationTarget, RouteAtTier, DelegatePick, PickNamed
  <2> QED BY <1>1, <1>2, <1>3, <2>1, <2>2 DEF StillInv
<1>4. UNCHANGED <<down, degraded, flips>> /\ flips = 0
  BY <1>3 DEF health
<1>P. ASSUME pc' # "done", UNCHANGED <<enabled, caps, failed>>,
             Capability /\ pc' \in {"snapshot", "minTier", "collect"} => LocalsRight',
             Capability /\ pc' \in {"minTier", "collect"} => HealthyRight',
             pc' = "collect" => TierRight',
             pc' \in {"escDefault", "escBest"} => pc = "escDefault"
      PROVE  PassInv' /\ PreferencesNeverExclude' /\ CheapestCapable'
  <2>1. PreferencesNeverExclude' /\ CheapestCapable'
    BY <1>P DEF PreferencesNeverExclude, CouldTake, CheapestCapable, Done
  <2>2. Capability' = Capability
    BY <1>3 DEF Capability
  <2>3. Nobody(req.caps)' <=> Nobody(req.caps)
    BY <1>3, <1>4, <1>P, NobodyStable
  <2>4. Nobody(HardCaps)' <=> Nobody(HardCaps)
    BY <1>3, <1>4, <1>P, NobodyStable
  <2>5. PassInv
    BY <1>3, <1>4, <1>P DEF StillInv
  <2>6. PassInv'
    BY <1>3, <1>P, <2>2, <2>3, <2>4, <2>5 DEF PassInv
  <2> QED BY <2>1, <2>6
<1>5. ASSUME Start PROVE PassInv' /\ PreferencesNeverExclude' /\ CheapestCapable'
  BY <1>5, <1>P DEF Start
<1>6. ASSUME PrimaryDefault PROVE PassInv' /\ PreferencesNeverExclude' /\ CheapestCapable'
  <2> DEFINE d == primary_turn_default
  <2>1. d \in Seats \cup {0} /\ (~req.primary => d = 0)
    BY <1>0 DEF primary_turn_default, TypeOK
  <2>2. pc = "primary" /\ UNCHANGED <<choice, failed>>
    BY <1>6 DEF PrimaryDefault
  <2>3. \/ Settle(d) /\ d # 0
        \/ /\ pc' = IF Capability THEN "locals" ELSE "minTier"
           /\ UNCHANGED <<enabled, withheld, caps, result>>
    BY <1>6 DEF PrimaryDefault
  <2> HIDE DEF d
  <2>4. CASE Settle(d) /\ d # 0
    <3>1. PassInv
      BY <1>3, <1>4, <2>2 DEF StillInv
    <3> QED BY <1>3, <2>1, <2>2, <2>4, <3>1, SettleStill DEF InRoute
  <2>5. CASE /\ pc' = IF Capability THEN "locals" ELSE "minTier"
             /\ UNCHANGED <<enabled, withheld, caps, result>>
    BY <1>P, <2>2, <2>5
  <2> QED BY <2>3, <2>4, <2>5
<1>7. ASSUME PreferLocal PROVE PassInv' /\ PreferencesNeverExclude' /\ CheapestCapable'
  <2>1. /\ pc' = "snapshot" /\ UNCHANGED <<enabled, caps, failed>>
        /\ locals_only' <=> (req.prefer_local /\ \E i \in Seats : Qualifies(i) /\ Agent(i).local)
    BY <1>7 DEF PreferLocal
  <2>2. LocalsRight'
    <3>1. Seats' = Seats
      BY <1>3 DEF Seats
    <3> QED BY <1>3, <1>4, <2>1, <3>1, GatesStable DEF LocalsRight
  <2> QED BY <1>P, <2>1, <2>2
<1>8. ASSUME SnapshotDegraded PROVE PassInv' /\ PreferencesNeverExclude' /\ CheapestCapable'
  <2>1. /\ pc = "snapshot" /\ pc' = "minTier" /\ UNCHANGED <<enabled, caps, failed, locals_only>>
        /\ degraded_snapshot' = degraded
        /\ healthy_only' <=> \E i \in Seats \ degraded :
                                Qualifies(i) /\ (locals_only => Agent(i).local)
    BY <1>8 DEF SnapshotDegraded
  <2>2. Capability => LocalsRight'
    BY <1>3, <1>4, <2>1, FlagsStable DEF StillInv, PassInv
  <2>3. HealthyRight'
    <3>1. Seats' = Seats
      BY <1>3 DEF Seats
    <3> QED BY <1>3, <1>4, <2>1, <3>1, GatesStable DEF HealthyRight
  <2> QED BY <1>P, <2>1, <2>2, <2>3
<1>9. ASSUME CheapestTier PROVE PassInv' /\ PreferencesNeverExclude' /\ CheapestCapable'
  <2> DEFINE seats == {i \in Seats : Contends(i)}
  <2>1. /\ pc = "minTier"
        /\ UNCHANGED <<locals_only, healthy_only, degraded_snapshot, failed>>
    BY <1>9 DEF CheapestTier
  <2>2. PassInv /\ (Capability => LocalsRight /\ HealthyRight)
    BY <1>3, <1>4, <2>1 DEF StillInv, PassInv
  <2>3. CASE seats = {}
    <3>1. Settle(0) /\ UNCHANGED choice
      BY <1>9, <2>1, <2>3 DEF CheapestTier, choice
    <3>2. Capability => Nobody(caps)
      BY <2>2, <2>3, NoneContends
    <3>3. ~Capability => \A i \in Seats : ~Routable(i, req.role)
      BY <2>3 DEF Contends
    <3> QED BY <1>3, <2>1, <2>2, <3>1, <3>2, <3>3, SettleStill DEF InRoute
  <2>4. CASE seats # {}
    <3>1. /\ min_tier' = MinTier(seats)
          /\ has_tmux' <=> \E i \in seats : tier(i) = MinTier(seats) /\ tmux(i)
          /\ pc' = "collect" /\ UNCHANGED <<enabled, withheld, caps, result>>
      BY <1>9, <2>4 DEF CheapestTier
    <3>2. (\E i \in seats : tier(i) = MinTier(seats)) /\ \A i \in seats : MinTier(seats) <= tier(i)
      BY <1>0, <2>4, MinTierIsLeast
    <3>3. \A i \in Seats : i \in seats <=> Contends(i)
      OBVIOUS
    <3>4. seats \subseteq Seats /\ Seats' = Seats
      BY <1>3 DEF Seats
    <3>5. \A i : (Contends(i)' <=> Contends(i)) /\ tier(i)' = tier(i) /\ (tmux(i)' <=> tmux(i))
      BY <1>3, <1>4, <2>1, <3>1, GatesStable
    <3> HIDE DEF seats
    <3>6. TierRight'
      BY <3>1, <3>2, <3>3, <3>4, <3>5 DEF TierRight
    <3>7. Capability => LocalsRight' /\ HealthyRight'
      BY <1>3, <1>4, <2>1, <2>2, <3>1, FlagsStable
    <3> QED BY <1>P, <2>1, <3>1, <3>6, <3>7
  <2> QED BY <2>3, <2>4
<1>10. ASSUME Collect PROVE PassInv' /\ PreferencesNeverExclude' /\ CheapestCapable'
  <2> DEFINE seats == {i \in Seats : Contends(i) /\ tier(i) = min_tier /\ (has_tmux => tmux(i))}
  <2>1. PICK r \in pick_balanced(seats) : Settle(r) /\ failed' = ProviderFailed(seats, r)
    BY <1>10 DEF Collect
  <2>2. pc = "collect" /\ UNCHANGED choice
    BY <1>10 DEF Collect
  <2>3. ~failed /\ ~(Cardinality(seats) > 1 /\ r = 0)
    BY <1>3, <2>1 DEF ProviderFailed
  <2>4. PassInv /\ TierRight /\ (Capability => LocalsRight /\ HealthyRight)
    BY <1>4, <2>2, <2>3 DEF StillInv, PassInv
  <2>5. seats # {}
    BY <2>4 DEF TierRight
  <2>6. r \in seats
    <3>1. r \in seats \cup {0}
      BY PickInSeats
    <3>2. r # 0
      BY <1>0, <2>3, <2>5, PickNone
    <3> QED BY <3>1, <3>2
  <2>7. r \in Seats /\ r # 0 /\ (Capability => Chosen(r))
    <3>1. Len(roster.agents) \in Nat
      BY <1>0, SeatTypes
    <3> QED BY <2>4, <2>6, <3>1 DEF Chosen, Seats
  <2> QED BY <1>3, <2>1, <2>2, <2>4, <2>7, SettleStill DEF InRoute
<1>11. ASSUME EscalateDefault PROVE PassInv' /\ PreferencesNeverExclude' /\ CheapestCapable'
  <2>1. /\ pc = "escDefault" /\ UNCHANGED <<enabled, caps, withheld, failed>>
        /\ \/ Finish(roster.default) /\ roster.default # 0
           \/ pc' = "escBest"
    BY <1>11 DEF EscalateDefault
  <2>2. PassInv
    BY <1>3, <1>4, <2>1 DEF StillInv
  <2>3. CASE Finish(roster.default) /\ roster.default # 0
    <3>1. result' # 0 /\ Finish(result')
      BY <2>3 DEF Finish
    <3> QED BY <1>3, <2>1, <2>2, <3>1, DirectStill
  <2>4. CASE pc' = "escBest"
    BY <1>P, <2>1, <2>4
  <2> QED BY <2>1, <2>3, <2>4
<1>12. ASSUME EscalateBest PROVE PassInv' /\ PreferencesNeverExclude' /\ CheapestCapable'
  <2> DEFINE seats == {i \in Seats : Escalatable(i)}
  <2>1. /\ pc = "escBest" /\ UNCHANGED <<enabled, caps, withheld, failed>>
        /\ Finish(IF seats = {} THEN 0 ELSE Largest(seats, effective_context, tier))
    BY <1>12 DEF EscalateBest
  <2>2. PassInv /\ Capability /\ caps = HardCaps
    BY <1>0, <1>3, <1>4, <2>1 DEF StillInv, CapsInv
  <2>3. 0 \notin Seats
    BY <1>0, SeatTypes DEF Seats
  <2>4. seats # {} => Largest(seats, effective_context, tier) \in seats
    BY <1>0, LargestInSet
  <2>5. result' = 0 => \A i \in Seats : ~Escalatable(i)
    BY <2>1, <2>3, <2>4 DEF Finish
  <2>6. Finish(result')
    BY <2>1 DEF Finish
  <2>7. result' = 0 => \A i \in Seats \ req.exclude :
                         ~candidate_eligible(i, req.role, HardCaps, 0, req.scope)
    BY <2>2, <2>5 DEF Escalatable
  <2> QED BY <1>3, <2>1, <2>2, <2>6, <2>7, DirectStill DEF Capability
<1>S. ASSUME pc = "start", Finish(result'), UNCHANGED <<enabled, caps, withheld>>,
             req.entry \notin {"route", "with_caps"},
             result' = 0 /\ req.entry = "delegate" =>
               \A i \in Seats \ req.exclude : ~Routable(i, req.role)
      PROVE  PassInv' /\ PreferencesNeverExclude' /\ CheapestCapable'
  <2>1. ~Capability /\ PassInv
    BY <1>S DEF Capability, PassInv
  <2> QED BY <1>3, <1>S, <2>1, DirectStill
<1>13. ASSUME EscalationTarget PROVE PassInv' /\ PreferencesNeverExclude' /\ CheapestCapable'
  <2>1. Finish(result')
    BY <1>13 DEF EscalationTarget, Finish
  <2> QED BY <1>13, <1>S, <2>1 DEF EscalationTarget
<1>14. ASSUME RouteAtTier PROVE PassInv' /\ PreferencesNeverExclude' /\ CheapestCapable'
  <2>1. Finish(result')
    BY <1>14 DEF RouteAtTier, Finish
  <2> QED BY <1>14, <1>S, <2>1 DEF RouteAtTier
<1>15. ASSUME DelegatePick PROVE PassInv' /\ PreferencesNeverExclude' /\ CheapestCapable'
  <2> DEFINE elig == {i \in Seats : Routable(i, req.role) /\ i \notin req.exclude}
             free == {i \in elig : free_slot(i)}
             pool == IF free # {} THEN free ELSE elig
  <2>1. PICK r \in IF pool = {} \/ Provider THEN pool \cup {0} ELSE pool :
              Finish(r) /\ failed' = (pool # {} /\ r = 0)
    BY <1>15 DEF DelegatePick
  <2>2. result' = 0 => elig = {}
    <3> SUFFICES ASSUME r = 0 PROVE elig = {}
      BY <2>1 DEF Finish
    <3>1. pool = {}
      BY <1>3, <2>1
    <3> QED BY <3>1
  <2>3. Finish(result')
    BY <2>1 DEF Finish
  <2> QED BY <1>15, <1>S, <2>2, <2>3 DEF DelegatePick
<1>16. ASSUME PickNamed PROVE PassInv' /\ PreferencesNeverExclude' /\ CheapestCapable'
  <2>1. Finish(result')
    BY <1>16 DEF PickNamed, Finish
  <2> QED BY <1>16, <1>S, <2>1 DEF PickNamed
<1>17. ASSUME UNCHANGED vars PROVE PassInv' /\ PreferencesNeverExclude' /\ CheapestCapable'
  BY <1>1, <1>3, <1>17 DEF StillInv
<1>18. ASSUME NEW i \in Seats, FlipHealth(i)
       PROVE  PassInv' /\ PreferencesNeverExclude' /\ CheapestCapable'
  BY <1>2, <1>3, <1>18 DEF StillInv
<1> QED BY <1>5, <1>6, <1>7, <1>8, <1>9, <1>10, <1>11, <1>12, <1>13, <1>14, <1>15, <1>16, <1>17,
           <1>18 DEF Next

(* Both hold from the start. *)
LEMMA StillInit == Init => StillInv
  BY DEF Init, StillInv, PassInv, PreferencesNeverExclude, CheapestCapable, Done

(* What each pass has decided so far agrees with the gates it stands for   *)
(* as long as health does not change under it: the invariant behind the    *)
(* two results below (routing.c 756-883).                                  *)
THEOREM PassesAreRight == Spec => []StillInv
  BY InitInv, StepInv, StillInit, StillStep, PTL DEF Spec

(* Withholding, prefer_local, degraded seats, modalities, the window and   *)
(* full seats are preferences: with health still and the provider          *)
(* answering, a route fails only if no seat could take the request         *)
(* (routing.c 218-222, 443-447, 768-790, 903-914).                         *)
THEOREM PreferencesNeverEmptyTheField == Spec => []PreferencesNeverExclude
<1>1. StillInv => PreferencesNeverExclude
  BY DEF StillInv
<1> QED BY <1>1, PassesAreRight, PTL

(* The separate loops of agent_route_with_caps_inner together compute the  *)
(* one choice Preferred defines (routing.c 756-883, 1045-1047).            *)
THEOREM RouteIsCheapestCapable == Spec => []CheapestCapable
<1>1. StillInv => CheapestCapable
  BY DEF StillInv
<1> QED BY <1>1, PassesAreRight, PTL
-------------------------------------------------------------------------------
(* What the tier pass has found out about the seats that have not moved.   *)
SteadyTier ==
  /\ \A i \in Seats \ moved : Routable(i, req.role) => min_tier <= tier(i)
  /\ \E j \in Seats : /\ tier(j) = min_tier /\ (has_tmux => tmux(j))
                      /\ j \notin moved => Routable(j, req.role)

SteadyInv ==
  /\ pc = "collect" /\ ~Capability => SteadyTier
  /\ SteadySeatIsFound

(* A step that ends the route with a seat, or does not end it, has nothing *)
(* to show.                                                                *)
LEMMA SteadyGoesOn ==
  ASSUME pc' # "collect", pc' # "done" \/ result' # 0 \/ req'.entry \notin {"route", "with_caps"}
  PROVE  SteadyInv'
  BY DEF SteadyInv, SteadySeatIsFound, Done

(* Every step keeps it.                                                    *)
LEMMA SteadyStep == RouteInv /\ SteadyInv /\ [Next]_vars => SteadyInv'
<1> SUFFICES ASSUME RouteInv, SteadyInv, [Next]_vars PROVE SteadyInv'
  OBVIOUS
<1>0. TypeOK /\ CapsInv
  BY DEF RouteInv
<1>1. CASE UNCHANGED vars
  <2>1. /\ UNCHANGED <<roster, req, pc, enabled, down, moved, caps, result, failed>>
        /\ UNCHANGED <<min_tier, has_tmux>>
    BY <1>1 DEF vars, health, choice
  <2>2. /\ Seats' = Seats /\ Capability' = Capability /\ HardCaps' = HardCaps /\ Done' = Done
        /\ \A i : tier(i)' = tier(i) /\ (tmux(i)' <=> tmux(i))
    BY <2>1 DEF Seats, Capability, HardCaps, Done, tier, tmux, Agent
  <2>3. \A i : Routable(i, req.role)' <=> Routable(i, req.role)
    BY <2>1, EligibleStable
  <2>4. ASSUME NEW i PROVE CouldTake(i)' <=> CouldTake(i)
    <3>1. ASSUME NEW needed
          PROVE  candidate_eligible(i, req.role, needed, 0, req.scope)'
                   <=> candidate_eligible(i, req.role, needed, 0, req.scope)
      BY <2>1, EligibleStable
    <3> QED BY <2>1, <2>2, <2>3, <3>1 DEF CouldTake
  <2>5. SteadyTier' <=> SteadyTier
    BY <2>1, <2>2, <2>3 DEF SteadyTier
  <2>6. SteadySeatIsFound' <=> SteadySeatIsFound
    BY <2>1, <2>2, <2>4 DEF SteadySeatIsFound
  <2> QED BY <2>1, <2>2, <2>5, <2>6 DEF SteadyInv
<1>2. ASSUME NEW k \in Seats, FlipHealth(k) PROVE SteadyInv'
  <2>1. /\ UNCHANGED <<roster, req, pc, enabled, min_tier, has_tmux>> /\ pc # "done"
        /\ moved \subseteq moved'
        /\ \A i \in Seats \ moved' : i \in down' <=> i \in down
    BY <1>2 DEF FlipHealth, choice
  <2>2. /\ Seats' = Seats /\ Capability' = Capability
        /\ \A i : tier(i)' = tier(i) /\ (tmux(i)' <=> tmux(i))
    BY <2>1 DEF Seats, Capability, tier, tmux, Agent
  <2>3. ASSUME NEW i \in Seats \ moved' PROVE Routable(i, req.role)' <=> Routable(i, req.role)
    BY <2>1 DEF Routable, has_role, available, block_reason, policy_filter, Agent
  <2>4. SteadyTier => SteadyTier'
    <3> SUFFICES ASSUME SteadyTier PROVE SteadyTier'
      OBVIOUS
    <3>1. \A i \in Seats' \ moved' : Routable(i, req.role)' => min_tier' <= tier(i)'
      BY <2>1, <2>2, <2>3 DEF SteadyTier
    <3>2. \E j \in Seats' : /\ tier(j)' = min_tier' /\ (has_tmux' => tmux(j)')
                            /\ j \notin moved' => Routable(j, req.role)'
      BY <2>1, <2>2, <2>3 DEF SteadyTier
    <3> QED BY <3>1, <3>2 DEF SteadyTier
  <2> QED BY <2>1, <2>2, <2>4 DEF SteadyInv, SteadySeatIsFound, Done
<1>E. ASSUME pc \in {"minTier", "collect"}, ~Capability, UNCHANGED <<roster, req, health>>,
             NEW r \in Seats \cup {0}, Settle(r),
             r = 0 /\ ~failed' => \A i \in Seats \ moved :
               Routable(i, req.role) => \E j \in moved : tier(j) <= tier(i)
      PROVE  SteadyInv'
  <2>1. pc' \in {"done", "primary"} /\ pc \in InRoute /\ ~Capability'
    BY <1>E DEF Settle, Finish, InRoute, Capability
  <2>2. SteadySeatIsFound'
    <3> SUFFICES ASSUME Done', ~failed', result' = 0, NEW i \in Seats' \ moved', CouldTake(i)'
                 PROVE  \E j \in moved' : tier(j)' <= tier(i)'
      BY <2>1 DEF SteadySeatIsFound
    <3>1. Seats' = Seats /\ UNCHANGED <<down, moved>> /\ \A j : tier(j)' = tier(j)
      BY <1>E DEF Seats, health, tier, Agent
    <3>2. r = 0 /\ Routable(i, req.role)
      BY <1>E, <2>1, <3>1, PlainEmpty
    <3> QED BY <1>E, <3>1, <3>2
  <2> QED BY <2>1, <2>2 DEF SteadyInv
<1>C. ASSUME pc \in InRoute, Capability, UNCHANGED <<roster, req>>, NEW r \in Seats \cup {0}, Settle(r)
      PROVE  SteadyInv'
  <2>1. pc' \in {"done", "primary", "escDefault"} /\ (pc' = "done" => result' # 0)
    BY <1>C DEF Settle, Finish, Capability
  <2> QED BY <2>1, SteadyGoesOn
<1>3. ASSUME PrimaryDefault PROVE SteadyInv'
  <2> DEFINE d == primary_turn_default
  <2>1. d \in Seats \cup {0}
    BY <1>0 DEF primary_turn_default, TypeOK
  <2>2. pc = "primary" /\ UNCHANGED <<roster, req, health, choice, failed>>
    BY <1>3 DEF PrimaryDefault
  <2>3. (Settle(d) /\ d # 0) \/ pc' \in {"locals", "minTier"}
    BY <1>3 DEF PrimaryDefault
  <2> HIDE DEF d
  <2>4. CASE Settle(d) /\ d # 0
    <3>1. pc' # "collect" /\ (pc' # "done" \/ result' # 0)
      BY <2>4 DEF Settle, Finish
    <3> QED BY <3>1, SteadyGoesOn
  <2> QED BY <2>3, <2>4, SteadyGoesOn
<1>4. ASSUME CheapestTier PROVE SteadyInv'
  <2> DEFINE seats == {i \in Seats : Contends(i)}
  <2>1. pc = "minTier" /\ pc \in InRoute /\ UNCHANGED <<roster, req, health, failed>>
    BY <1>4 DEF CheapestTier, InRoute
  <2>2. CASE seats = {}
    <3>1. Settle(0)
      BY <1>4, <2>2 DEF CheapestTier
    <3>2. CASE Capability
      BY <1>C, <2>1, <3>1, <3>2
    <3>3. CASE ~Capability
      <4>1. \A i \in Seats : ~Routable(i, req.role)
        BY <2>2, <3>3 DEF Contends
      <4> QED BY <1>E, <2>1, <3>1, <3>3, <4>1
    <3> QED BY <3>2, <3>3
  <2>3. CASE seats # {}
    <3>1. /\ min_tier' = MinTier(seats)
          /\ has_tmux' <=> \E i \in seats : tier(i) = MinTier(seats) /\ tmux(i)
          /\ pc' = "collect" /\ UNCHANGED <<enabled, withheld, caps, result>>
      BY <1>4, <2>3 DEF CheapestTier
    <3>2. (\E i \in seats : tier(i) = MinTier(seats)) /\ \A i \in seats : MinTier(seats) <= tier(i)
      BY <1>0, <2>3, MinTierIsLeast
    <3>3. PICK j \in seats : tier(j) = MinTier(seats) /\ (has_tmux' => tmux(j))
      BY <3>1, <3>2
    <3>4. /\ Seats' = Seats /\ Capability' = Capability
          /\ \A i : tier(i)' = tier(i) /\ (tmux(i)' <=> tmux(i))
      BY <2>1 DEF Seats, Capability, tier, tmux, Agent
    <3>5. \A i : Routable(i, req.role)' <=> Routable(i, req.role)
      <4>1. UNCHANGED <<roster, req, enabled, down>>
        BY <2>1, <3>1 DEF health
      <4> QED BY <4>1, EligibleStable
    <3>6. ~Capability => SteadyTier'
      <4> SUFFICES ASSUME ~Capability PROVE SteadyTier'
        OBVIOUS
      <4>1. \A i \in Seats : i \in seats <=> Routable(i, req.role)
        BY DEF Contends
      <4> HIDE DEF seats
      <4>2. j \in Seats /\ Routable(j, req.role)
        BY <3>3, <4>1 DEF seats
      <4> QED BY <3>1, <3>2, <3>3, <3>4, <3>5, <4>1, <4>2 DEF SteadyTier
    <3> QED BY <3>1, <3>4, <3>6 DEF SteadyInv, SteadySeatIsFound, Done
  <2> QED BY <2>2, <2>3
<1>5. ASSUME Collect PROVE SteadyInv'
  <2> DEFINE seats == {i \in Seats : Contends(i) /\ tier(i) = min_tier /\ (has_tmux => tmux(i))}
  <2>1. PICK r \in pick_balanced(seats) : Settle(r) /\ failed' = ProviderFailed(seats, r)
    BY <1>5 DEF Collect
  <2>2. pc = "collect" /\ pc \in InRoute /\ UNCHANGED <<roster, req, health, choice>>
    BY <1>5 DEF Collect, InRoute
  <2>3. r \in Seats \cup {0}
    BY PickInSeats
  <2>4. CASE Capability
    BY <1>C, <2>1, <2>2, <2>3, <2>4
  <2>5. CASE ~Capability
    <3>1. ASSUME r = 0, ~failed', NEW i \in Seats \ moved, Routable(i, req.role)
          PROVE  \E j \in moved : tier(j) <= tier(i)
      <4>1. SteadyTier
        BY <2>2, <2>5 DEF SteadyInv
      <4>2. seats = {}
        <5>1. ~(Cardinality(seats) > 1)
          BY <2>1, <3>1 DEF ProviderFailed
        <5>2. 0 \in pick_balanced(seats) /\ seats \in SUBSET Seats
          BY <2>1, <3>1
        <5> QED BY <1>0, <5>1, <5>2, PickNone
      <4>3. PICK j \in Seats : /\ tier(j) = min_tier /\ (has_tmux => tmux(j))
                               /\ j \notin moved => Routable(j, req.role)
        BY <4>1 DEF SteadyTier
      <4>4. j \in moved
        BY <2>5, <4>2, <4>3 DEF Contends
      <4> QED BY <3>1, <4>1, <4>3, <4>4 DEF SteadyTier
    <3> QED BY <1>E, <2>1, <2>2, <2>3, <2>5, <3>1
  <2> QED BY <2>4, <2>5
<1>6. ASSUME EscalateDefault PROVE SteadyInv'
  <2>1. pc' # "collect" /\ (pc' # "done" \/ result' # 0)
    BY <1>6 DEF EscalateDefault, Finish
  <2> QED BY <2>1, SteadyGoesOn
<1>7. ASSUME EscalateBest PROVE SteadyInv'
  <2> DEFINE seats == {i \in Seats : Escalatable(i)}
  <2>1. /\ pc = "escBest" /\ pc' = "done" /\ Capability /\ caps = HardCaps
        /\ req.entry = "with_caps"
        /\ UNCHANGED <<roster, req, enabled, down, moved, caps>>
        /\ result' = IF seats = {} THEN 0 ELSE Largest(seats, effective_context, tier)
    BY <1>0, <1>7 DEF EscalateBest, Finish, CapsInv, Capability, health
  <2>2. 0 \notin Seats
    BY <1>0, SeatTypes DEF Seats
  <2>3. seats # {} => Largest(seats, effective_context, tier) \in seats
    BY <1>0, LargestInSet
  <2>4. result' = 0 => \A i \in Seats : ~Escalatable(i)
    BY <2>1, <2>2, <2>3
  <2>5. ASSUME NEW i \in Seats, CouldTake(i)' PROVE Escalatable(i)
    <3>1. candidate_eligible(i, req.role, HardCaps, 0, req.scope)'
      BY <2>1, <2>5 DEF CouldTake, Capability, HardCaps
    <3>2. ASSUME NEW needed
          PROVE  candidate_eligible(i, req.role, needed, 0, req.scope)'
                   <=> candidate_eligible(i, req.role, needed, 0, req.scope)
      BY <2>1, EligibleStable
    <3>3. HardCaps' = HardCaps
      BY <2>1 DEF HardCaps
    <3> QED BY <2>1, <3>1, <3>2, <3>3 DEF Escalatable
  <2>6. Seats' = Seats
    BY <2>1 DEF Seats
  <2>7. SteadySeatIsFound'
    BY <2>4, <2>5, <2>6 DEF SteadySeatIsFound
  <2> QED BY <2>1, <2>7 DEF SteadyInv
<1>8. ASSUME Start \/ PreferLocal \/ SnapshotDegraded PROVE SteadyInv'
  <2>1. pc' \notin {"collect", "done"}
    BY <1>8 DEF Start, PreferLocal, SnapshotDegraded
  <2> QED BY <2>1, SteadyGoesOn
<1>9. ASSUME EscalationTarget \/ RouteAtTier \/ DelegatePick \/ PickNamed PROVE SteadyInv'
  <2>1. pc' = "done" /\ req' = req /\ req.entry \notin {"route", "with_caps"}
    BY <1>9 DEF EscalationTarget, RouteAtTier, DelegatePick, PickNamed, Finish
  <2> QED BY <2>1, SteadyGoesOn
<1> QED BY <1>1, <1>2, <1>3, <1>4, <1>5, <1>6, <1>7, <1>8, <1>9 DEF Next

(* A seat whose health holds still is found, however the health of others  *)
(* flips between two passes: always with capability routing, and without   *)
(* it unless a seat as cheap has moved (routing.c 556-596, 810-883,        *)
(* 1041-1051).                                                             *)
THEOREM SteadySeatAlwaysFound == Spec => []SteadySeatIsFound
<1>1. Init => SteadyInv
  BY DEF Init, SteadyInv, SteadySeatIsFound, Done
<1>2. SteadyInv => SteadySeatIsFound
  BY DEF SteadyInv
<1> QED BY <1>1, <1>2, InitInv, StepInv, SteadyStep, PTL DEF Spec
===============================================================================
