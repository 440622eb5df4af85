------------------------------- MODULE Budget -------------------------------
(***************************************************************************)
(* The budget ledger of optional agent runs: every tenant's own policy and *)
(* the cap all tenants of one database share                               *)
(* (packages/store_core/gateway.py, budget.py).                            *)
(*                                                                         *)
(* record_demo_agent_run reads the clock and then opens its transaction,   *)
(* which BEGIN IMMEDIATE makes it wait for; a call is therefore two steps, *)
(* and the day a call books on may be over by the time it books.  An       *)
(* agent_runs row is written for every request row and says what that row  *)
(* says, so `runs` is both.                                                *)
(***************************************************************************)
EXTENDS Naturals, FiniteSets, FiniteSetsExt

CONSTANTS
  Tenants,       \* tenants of the database
  RunKeys,       \* idempotency keys a tenant may use
  Costs,         \* estimated costs that may be asked for
  LimitSets,     \* limits a tenant's administrator may set
  Callers,       \* concurrent calls of record_demo_agent_run
  Warning,       \* PLATFORM_WARNING_MINOR
  HardCap,       \* PLATFORM_HARD_CAP_MINOR
  Days,          \* bound: days the clock runs for
  MonthLength,   \* days of a month
  MaxPolicies    \* bound: versions of a tenant's policy

Limits == [daily : Nat, monthly : Nat, generations : Nat, runs : Nat]

ASSUME BudgetAssumption ==
  /\ Tenants # {} /\ RunKeys # {} /\ Costs # {}
  /\ Costs \subseteq Nat
  /\ LimitSets \subseteq Limits
  /\ Warning \in Nat /\ HardCap \in Nat \ {0} /\ Warning <= HardCap
  /\ Days \in Nat /\ MonthLength \in Nat \ {0} /\ MaxPolicies \in Nat

VARIABLES
  today,    \* the service clock, in days
  policy,   \* demo_budget_policies
  runs,     \* demo_budget_requests and demo_agent_runs
  ledger,   \* demo_budget_ledger
  call      \* what a call read before its transaction

budgetVars == <<today, policy, runs, ledger, call>>

Outcomes == {"RECORDED", "RECORDED_WARNING", "BLOCKED_BUDGET", "BLOCKED_TELEMETRY",
             "BLOCKED_GLOBAL_WARNING", "BLOCKED_GLOBAL_HARD_CAP"}
Accepting == {"RECORDED", "RECORDED_WARNING"}

Ask == [tenant : Tenants, key : RunKeys, cost : Costs, growth : BOOLEAN]
Entry == [tenant : Tenants, key : RunKeys, amount : Costs, day : 0..Days]
Run == [ask : Ask, outcome : Outcomes]
Call == [busy : BOOLEAN, ask : Ask, policy : 0..MaxPolicies, day : 0..Days]

NoLimits == [daily |-> 0, monthly |-> 0, generations |-> 0, runs |-> 0]
Policy == [version : 0..MaxPolicies, limits : LimitSets \cup {NoLimits}]
Idle == [busy |-> FALSE, ask |-> CHOOSE a \in Ask : TRUE, policy |-> 0, day |-> 0]

BudgetInit ==
  /\ today = 0
  /\ policy = [t \in Tenants |-> [version |-> 0, limits |-> NoLimits]]
  /\ runs = {}
  /\ ledger = {}
  /\ call = [c \in Callers |-> Idle]

Month(day) == day \div MonthLength

Total(entries) == MapThenSumSet(LAMBDA e : e.amount, entries)

-----------------------------------------------------------------------------
(* The ledger *)

\* budget_entries_for
Own(t) == {e \in ledger : e.tenant = t}

OnDay(entries, d) == {e \in entries : e.day = d}
InMonth(entries, d) == {e \in entries : Month(e.day) = Month(d)}

\* Mutant of PlatformTotal: the caller's own entries are all it sees.
PlatformTotalOwn(t, d) == Total(InMonth(Own(t), d))

\* platform_monthly_budget_total: every tenant of the database
PlatformTotal(t, d) == Total(InMonth(ledger, d))

\* get_budget_request
Prior(ask) == {r \in runs : r.ask.tenant = ask.tenant /\ r.ask.key = ask.key}

\* reserve_budget_entry refuses what would reach the cap
Fits(ask, d) == PlatformTotal(ask.tenant, d) + ask.cost < HardCap

-----------------------------------------------------------------------------
(* The decision *)

\* the tenant's own limits; blocked runs count as runs
OverLimit(ask, d, limits) ==
  LET mine == Own(ask.tenant)
  IN  \/ Total(OnDay(mine, d)) + ask.cost > limits.daily
      \/ Total(InMonth(mine, d)) + ask.cost > limits.monthly
      \/ Cardinality(OnDay(mine, d)) >= limits.generations
      \/ Cardinality({r \in runs : r.ask.tenant = ask.tenant}) >= limits.runs

\* Mutant of WarningOutcome: growth work is warned like any other.
WarningOutcomeForAll(ask, own) ==
  IF own = "RECORDED" THEN "RECORDED_WARNING" ELSE own

\* from the warning level on growth work stops; other work is marked
WarningOutcome(ask, own) ==
  CASE ask.growth -> "BLOCKED_GLOBAL_WARNING"
    [] ~ask.growth /\ own = "RECORDED" -> "RECORDED_WARNING"
    [] OTHER -> own

\* record_demo_agent_run: the platform's verdict overrides the tenant's
Outcome(ask, d, limits, telemetry) ==
  LET own == IF OverLimit(ask, d, limits) THEN "BLOCKED_BUDGET" ELSE "RECORDED"
      projected == PlatformTotal(ask.tenant, d) + ask.cost
  IN  CASE ~telemetry -> "BLOCKED_TELEMETRY"
        [] telemetry /\ projected >= HardCap -> "BLOCKED_GLOBAL_HARD_CAP"
        [] telemetry /\ projected >= Warning /\ projected < HardCap -> WarningOutcome(ask, own)
        [] OTHER -> own

-----------------------------------------------------------------------------
(* Calls *)

\* set_demo_budget_policy: a version is the number of policies set so far
SetDemoBudgetPolicy(t, limits) ==
  /\ policy[t].version < MaxPolicies
  /\ policy' = [policy EXCEPT ![t] = [version |-> @.version + 1, limits |-> limits]]
  /\ UNCHANGED <<today, runs, ledger, call>>

\* record_demo_agent_run up to its transaction: the caller names the policy it
\* has seen, and the clock is read
BeginRun(c, ask, version) ==
  /\ call[c] = Idle
  /\ version \in 1..policy[ask.tenant].version
  /\ call' = [call EXCEPT ![c] = [busy |-> TRUE, ask |-> ask, policy |-> version, day |-> today]]
  /\ UNCHANGED <<today, policy, runs, ledger>>

\* save_agent_run, save_budget_request
Recorded(ask, outcome) == runs \cup {[ask |-> ask, outcome |-> outcome]}

\* the transaction: run, request, reservation and audit together or not at all;
\* a key that was used replays or conflicts
RecordRun(c, telemetry) ==
  LET ask == call[c].ask
      d == call[c].day
      outcome == Outcome(ask, d, policy[ask.tenant].limits, telemetry)
  IN  /\ call[c].busy
      /\ Prior(ask) = {}
      /\ policy[ask.tenant].version = call[c].policy
      /\ outcome \in Accepting => Fits(ask, d)
      /\ runs' = Recorded(ask, outcome)
      /\ ledger' = IF outcome \in Accepting
                     THEN ledger \cup {[tenant |-> ask.tenant, key |-> ask.key,
                                        amount |-> ask.cost, day |-> d]}
                     ELSE ledger
      /\ call' = [call EXCEPT ![c] = Idle]
      /\ UNCHANGED <<today, policy>>

\* the call replays, is refused, or its process dies before the commit
LeaveRun(c) ==
  /\ call[c].busy
  /\ call' = [call EXCEPT ![c] = Idle]
  /\ UNCHANGED <<today, policy, runs, ledger>>

Midnight ==
  /\ today < Days
  /\ today' = today + 1
  /\ UNCHANGED <<policy, runs, ledger, call>>

BudgetNext ==
  \/ \E t \in Tenants, limits \in LimitSets : SetDemoBudgetPolicy(t, limits)
  \/ \E c \in Callers, ask \in Ask, version \in 1..MaxPolicies : BeginRun(c, ask, version)
  \/ \E c \in Callers, telemetry \in BOOLEAN : RecordRun(c, telemetry)
  \/ \E c \in Callers : LeaveRun(c)
  \/ Midnight

BudgetSpec == BudgetInit /\ [][BudgetNext]_budgetVars

-----------------------------------------------------------------------------
(* Properties *)

\* The tables and what the calls remember keep their shape.
BudgetTypeOK ==
  /\ today \in 0..Days
  /\ policy \in [Tenants -> Policy]
  /\ runs \subseteq Run
  /\ ledger \subseteq Entry
  /\ call \in [Callers -> Call]

\* In no month do all tenants together have the platform's cap booked, however
\* many calls projected the same total at once and although a call may book on
\* a day that is over (record_demo_agent_run, reserve_budget_entry).
CapHolds ==
  \A d \in 0..Days : Total(InMonth(ledger, d)) < HardCap

\* "growth work stops at WARNING": whatever is booked for growth leaves its
\* month below the warning level, also when others booked meanwhile.
GrowthYields ==
  [][\A r \in runs' \ runs :
       r.ask.growth /\ r.outcome \in Accepting =>
         \E e \in ledger' :
           /\ e.tenant = r.ask.tenant /\ e.key = r.ask.key
           /\ Total({f \in ledger' : Month(f.day) = Month(e.day)}) < Warning]_budgetVars
=============================================================================
