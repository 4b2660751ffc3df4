------------------------------ MODULE Evolution ------------------------------
(***************************************************************************)
(* How agents are weighted and tuned by what their trades earn.  The       *)
(* weight manager keeps each agent's outcomes of a rolling window, ranks   *)
(* agents by Sharpe ratio and moves the weights of the best and the worst  *)
(* quartile.  The autoresearch loop changes one parameter of the worst     *)
(* agent, lets some cycles pass and keeps or reverts the change.           *)
(*                                                                         *)
(* A Sharpe ratio is kept as its signed square, a pair [n, d] that stands  *)
(* for n/d; d = 0 is infinity.  Comparing squares compares ratios.         *)
(* Weights are in ten-thousandths, factors in percent.                     *)
(***************************************************************************)
EXTENDS Integers, Sequences, FiniteSets, FiniteSetsExt, SequencesExt

CONSTANTS
  None,                 \* no value
  Fleet,                \* the agents bootstrap builds, in the registry's order
  Tuning,               \* agent -> name of a parameter -> [lo, hi, step, start]
  Trades,               \* outcomes of a trade: [ret, confidence]
  Weights,              \* weights a caller may set or give an agent it adds
  Configured, Defaults, \* settings: [window, least, boost, decay, lo, hi]
  TrialCycles, Cooldown, Improvement,  \* cycles, cycles, percent
  MaxOutcomes, MaxUpdates, MaxCycles, MaxCalls  \* bounds of the instance

Agents == DOMAIN Tuning

ASSUME FleetAssumption == Fleet \in Seq(Agents) /\ IsInjective(Fleet)
ASSUME TrialAssumption ==
  TrialCycles \in Nat /\ Cooldown \in Nat /\ Improvement \in 0..100 /\ MaxCycles \in Nat
ASSUME TuningAssumption ==
  \A a \in Agents : \A p \in DOMAIN Tuning[a] :
    LET b == Tuning[a][p] IN b.lo \in Int /\ b.hi \in Int /\ b.step \in Nat /\ b.start \in b.lo..b.hi

ASSUME ManagerAssumption ==
  /\ Weights \subseteq Int /\ Trades \subseteq [ret : Int, confidence : Int]
  /\ {Configured, Defaults} \subseteq
       [window : Int, least : Int, boost : Int, decay : Int, lo : Int, hi : Int]

VARIABLES
  settings, members, weights, outcomes, updates,   \* the weight manager; members in order of entry
  tuned, modified, history, cycle,                 \* the autoresearch loop
  trial,                \* of it: the change on trial, a sequence of at most one
  arbitration,          \* the weights the coordinator's arbitration was built with
  calls                 \* how often a caller has set, added, registered or restarted

manager   == <<settings, members, weights, outcomes, updates>>
research  == <<tuned, modified, trial, history, cycle>>
evolution == <<manager, research, arbitration, calls>>

-----------------------------------------------------------------------------
(* Rolling Sharpe ratio and rank *)

Below(x, y) == x.n * y.d < y.n * x.d

\* The outcomes of an agent are a bag: nothing reads the order of the list.
Recent(a) ==
  LET os == {o \in DOMAIN outcomes[a] : o.age <= settings.window}
  IN [o \in os |-> outcomes[a][o]]
Pruned == [a \in Agents |-> Recent(a)]

\* What each outcome adds to a sum, as often as it occurs.
Each(f(_), os) == [o \in DOMAIN os |-> os[o] * f(o)]
Weighted(o) == o.ret * o.confidence
Squared(o) == Weighted(o) * Weighted(o)
Sign(x) == IF x > 0 THEN 1 ELSE IF x < 0 THEN -1 ELSE 0

\* Mean over sample deviation: with s the sum, q the sum of squares and k outcomes its
\* square is s^2 (k-1) / k (kq - s^2).  Returns that do not vary are infinitely good
\* when they are gains and neutral when they are not.
Sharpe(k, s, q) ==
  LET spread == k * q - s * s
  IN CASE k < settings.least \/ k < 2 -> None
       [] k >= settings.least /\ k >= 2 /\ spread = 0 ->
            IF s > 0 THEN [n |-> 1, d |-> 0] ELSE [n |-> 0, d |-> 1]
       [] OTHER -> [n |-> Sign(s) * s * s * (k - 1), d |-> k * spread]

RollingSharpe(a) ==
  LET os == Recent(a)
  IN Sharpe(SumFunction(os), SumFunction(Each(Weighted, os)), SumFunction(Each(Squared, os)))

\* An agent with too few outcomes ranks as neutral.
Performance(a) == LET s == RollingSharpe(a) IN IF s = None THEN [n |-> 0, d |-> 1] ELSE s

Position(a) == CHOOSE i \in DOMAIN members : members[i] = a

\* Mutant: the sort is ascending.
RankAscending(a) ==
  Cardinality({b \in Range(members) :
    \/ Below(Performance(b), Performance(a))
    \/ ~ Below(Performance(a), Performance(b)) /\ Position(b) < Position(a)})
\* The place of an agent in the sort from best to worst, which is stable.
Rank(a) ==
  LET p == [b \in Range(members) |-> Performance(b)]
  IN Cardinality({b \in Range(members) :
       Below(p[a], p[b]) \/ (~ Below(p[b], p[a]) /\ Position(b) < Position(a))})

Quartile(a) ==
  LET n == Len(members)
      size == Max({1, n \div 4})
      rank == Rank(a)
  IN CASE rank < size -> 1
       [] rank >= size /\ rank >= n - size -> 4
       [] OTHER -> IF rank < n \div 2 THEN 2 ELSE 3

\* The agent with the lowest ratio of those that have one and are not infinitely good.
WorstAgent ==
  LET s == [a \in Range(members) |-> RollingSharpe(a)]
      scored == {a \in Range(members) : s[a] # None /\ s[a].d # 0}
      worse(a, b) == Below(s[a], s[b]) \/ (~ Below(s[b], s[a]) /\ Position(a) < Position(b))
  IN IF scored = {} THEN None ELSE CHOOSE a \in scored : \A b \in scored \ {a} : worse(a, b)

-----------------------------------------------------------------------------
(* The weight manager *)

Clamped(w) == Max({settings.lo, Min({settings.hi, w})})

Evolved(a) ==
  CASE Quartile(a) = 1 -> Clamped((weights[a] * settings.boost) \div 100)
    [] Quartile(a) = 4 -> Clamped((weights[a] * settings.decay) \div 100)
    [] OTHER -> Clamped(weights[a])

TypicalWeight == 10000
Never == -999
NoOutcomes == [a \in Agents |-> EmptyBag]
Started(a) == [p \in DOMAIN Tuning[a] |-> Tuning[a][p].start]

\* Bootstrap: equal weights, every agent registered, a copy of the weights for arbitration.
EvolutionInit ==
  /\ settings = Configured /\ members = Fleet
  /\ weights = [a \in Range(Fleet) |-> TypicalWeight]
  /\ outcomes = NoOutcomes /\ updates = 0
  /\ tuned = [a \in Range(Fleet) |-> Started(a)] /\ modified = [a \in Range(Fleet) |-> Never]
  /\ trial = << >> /\ history = << >> /\ cycle = 0
  /\ arbitration = weights
  /\ calls = 0

RecordOutcome(a, t) ==
  /\ FoldFunction(LAMBDA os, n : n + BagCardinality(os), 0, outcomes) < MaxOutcomes
  /\ outcomes' = [outcomes EXCEPT ![a] =
       @ (+) SetToBag({[ret |-> t.ret, confidence |-> t.confidence, age |-> 0]})]
  /\ UNCHANGED <<settings, members, weights, updates, research, arbitration, calls>>

UpdateWeights ==
  /\ updates < MaxUpdates /\ updates' = updates + 1
  /\ weights' = [a \in DOMAIN weights |-> Evolved(a)]
  /\ outcomes' = Pruned
  /\ UNCHANGED <<settings, members, research, arbitration, calls>>

Entered(a) == IF a \in Range(members) THEN members ELSE Append(members, a)
Put(f, a, x) == [b \in DOMAIN f \union {a} |-> IF b = a THEN x ELSE f[b]]

SetWeight(a, w) ==
  /\ calls < MaxCalls /\ calls' = calls + 1
  /\ weights' = Put(weights, a, Clamped(w)) /\ members' = Entered(a)
  /\ UNCHANGED <<settings, outcomes, updates, research, arbitration>>

\* A weight given with a new agent is not clamped; a known agent keeps its own.
AddAgent(a, w) ==
  /\ calls < MaxCalls /\ calls' = calls + 1
  /\ a \notin DOMAIN weights
  /\ weights' = Put(weights, a, w) /\ members' = Entered(a)
  /\ UNCHANGED <<settings, outcomes, updates, research, arbitration>>

\* A new process: bootstrap starts anew.  A manager that to_dict saved may take the place
\* of the new one before anything else sees it; from_dict gives it the default settings.
\* The loop's to_dict has no counterpart that reads it.
StartAnew(saved) ==
  /\ calls < MaxCalls /\ calls' = calls + 1
  /\ settings' = IF saved THEN Defaults ELSE Configured
  /\ members' = IF saved THEN members ELSE Fleet
  /\ weights' = IF saved THEN weights ELSE [a \in Range(Fleet) |-> TypicalWeight]
  /\ outcomes' = IF saved THEN outcomes ELSE NoOutcomes
  /\ updates' = IF saved THEN updates ELSE 0
  /\ tuned' = [a \in Range(Fleet) |-> Started(a)] /\ modified' = [a \in Range(Fleet) |-> Never]
  /\ trial' = << >> /\ history' = << >> /\ cycle' = 0
  /\ arbitration' = weights'

\* Every outcome gets a day older; one that no window reaches back to is never read
\* again and is dropped here, though the list may hold it until it is next pruned.
Older(o) == [o EXCEPT !.age = @ + 1]
DayPasses ==
  /\ outcomes' = [a \in Agents |->
       LET os == {o \in DOMAIN outcomes[a] : o.age < Max({Configured.window, Defaults.window})}
       IN [x \in {Older(o) : o \in os} |-> outcomes[a][[x EXCEPT !.age = @ - 1]]]]
  /\ UNCHANGED <<settings, members, weights, updates, research, arbitration, calls>>

-----------------------------------------------------------------------------
(* The autoresearch loop *)

\* Bootstrap registers its agents with the defaults of their strategy, which may be none.
RegisterAgent(a) ==
  /\ calls < MaxCalls /\ calls' = calls + 1
  /\ a \notin DOMAIN tuned
  /\ tuned' = Put(tuned, a, Started(a)) /\ modified' = Put(modified, a, Never)
  /\ UNCHANGED <<manager, trial, history, cycle, arbitration>>

Within(b, v) == Max({b.lo, Min({b.hi, v})})

\* A step in the direction drawn, or in the other when a bound leaves no room.
Moved(b, v, direction) ==
  IF Within(b, v + direction * b.step) # v THEN Within(b, v + direction * b.step)
  ELSE Within(b, v - direction * b.step)

\* Mutant: no cooldown.
RestedEver(a) == TRUE
Rested(a) == cycle + 1 - modified[a] >= Cooldown

Candidate(a) == a # None /\ a \in DOMAIN tuned /\ Rested(a) /\ DOMAIN tuned[a] # {}

Tried == trial[1]

\* One cycle without a trial: a parameter of the worst agent is drawn and moved.
Propose ==
  /\ trial = << >> /\ cycle < MaxCycles /\ cycle' = cycle + 1
  /\ LET a == WorstAgent
     IN /\ Candidate(a)
        /\ \E p \in DOMAIN tuned[a], direction \in {-1, 1} :
             LET new == Moved(Tuning[a][p], tuned[a][p], direction)
             IN /\ new # tuned[a][p]
                /\ trial' = <<[agent |-> a, parameter |-> p, old |-> tuned[a][p], new |-> new,
                               baseline |-> Performance(a), elapsed |-> 0]>>
                /\ tuned' = [tuned EXCEPT ![a][p] = new]
        /\ modified' = [modified EXCEPT ![a] = cycle']
  /\ outcomes' = Pruned
  /\ UNCHANGED <<settings, members, weights, updates, history, arbitration, calls>>

ProposeNothing ==
  /\ trial = << >> /\ cycle < MaxCycles /\ cycle' = cycle + 1
  /\ LET a == WorstAgent
     IN Candidate(a) => \E p \in DOMAIN tuned[a], direction \in {-1, 1} :
                          Moved(Tuning[a][p], tuned[a][p], direction) = tuned[a][p]
  /\ UNCHANGED <<manager, tuned, modified, trial, history, arbitration, calls>>

TrialGoesOn ==
  /\ trial # << >> /\ cycle < MaxCycles /\ cycle' = cycle + 1
  /\ Tried.elapsed + 1 < TrialCycles
  /\ trial' = <<[Tried EXCEPT !.elapsed = @ + 1]>>
  /\ UNCHANGED <<manager, tuned, modified, history, arbitration, calls>>

\* Better by the share of the baseline asked for; of a baseline of zero, by that much.
Improved(b, c) ==
  LET asked == CASE b.n = 0 -> [n |-> Improvement * Improvement, d |-> 10000]
                 [] b.n > 0 -> [n |-> b.n * (100 + Improvement) * (100 + Improvement), d |-> b.d * 10000]
                 [] OTHER   -> [n |-> b.n * (100 - Improvement) * (100 - Improvement), d |-> b.d * 10000]
  IN ~ Below(c, asked)

FinalSharpe == IF Tried.agent \in Range(members) THEN Performance(Tried.agent) ELSE [n |-> 0, d |-> 1]

\* Mutant: a trial that failed leaves the value it tried.
AfterTrialKeepsTried(kept) == tuned
AfterTrial(kept) ==
  IF kept THEN tuned ELSE [tuned EXCEPT ![Tried.agent][Tried.parameter] = Tried.old]

ResolveTrial ==
  /\ trial # << >> /\ cycle < MaxCycles /\ cycle' = cycle + 1
  /\ Tried.elapsed + 1 >= TrialCycles
  /\ LET kept == Improved(Tried.baseline, FinalSharpe)
     IN /\ history' = Append(history, [agent |-> Tried.agent, parameter |-> Tried.parameter,
                                       new |-> Tried.new,
                                       status |-> IF kept THEN "kept" ELSE "reverted"])
        /\ tuned' = AfterTrial(kept)
  /\ trial' = << >> /\ outcomes' = Pruned
  /\ UNCHANGED <<settings, members, weights, updates, modified, arbitration, calls>>

Step == Propose \/ ProposeNothing \/ TrialGoesOn \/ ResolveTrial

EvolutionNext ==
  \/ Step \/ UpdateWeights \/ DayPasses
  \/ \E a \in Range(members), t \in Trades : RecordOutcome(a, t)
  \/ \E a \in Agents, w \in Weights : SetWeight(a, w) \/ AddAgent(a, w)
  \/ \E a \in Agents : RegisterAgent(a)
  \/ \E saved \in BOOLEAN : StartAnew(saved)

EvolutionSpec == EvolutionInit /\ [][EvolutionNext]_evolution

-----------------------------------------------------------------------------
(* Properties *)

EvolutionTypeOK ==
  /\ settings \in {Configured, Defaults}
  /\ DOMAIN weights = Range(members) /\ DOMAIN outcomes = Agents
  /\ DOMAIN tuned = DOMAIN modified
  /\ \A a \in DOMAIN tuned : \A p \in DOMAIN tuned[a] : tuned[a][p] \in Tuning[a][p].lo..Tuning[a][p].hi
  /\ cycle \in 0..MaxCycles

\* The value the loop has accepted for a parameter: that of the last change it kept.
Accepted(a, p) ==
  LET kept == {i \in DOMAIN history : /\ history[i].agent = a /\ history[i].parameter = p
                                      /\ history[i].status = "kept"}
  IN IF kept = {} THEN Tuning[a][p].start ELSE history[Max(kept)].new

\* Whatever trials ran, were kept and were reverted, at most one parameter of all agents
\* differs from its accepted value, and it is the one on trial, from which a revert gets
\* back exactly ("Only ONE agent is modified at a time", autoresearch.py:16; the trial's
\* old_value and the history against the tuning configurations).
OneChangeAtATime ==
  \A a \in DOMAIN tuned : \A p \in DOMAIN tuned[a] :
    IF trial # << >> /\ Tried.agent = a /\ Tried.parameter = p
    THEN Tried.old = Accepted(a, p) /\ tuned[a][p] = Tried.new
    ELSE tuned[a][p] = Accepted(a, p)

\* No agent is modified more often than its cooldown allows and trials follow one another:
\* k changes of one agent take (k - 1) cooldowns, k changes of all agents (k - 1) trials
\* and the steps that begin them ("cannot be modified twice within N cycles",
\* autoresearch.py:15).
ChangedSeldom ==
  LET all == history \o trial
      of(a) == Cardinality({i \in DOMAIN all : all[i].agent = a})
  IN /\ \A a \in Agents : of(a) > 0 => (of(a) - 1) * Cooldown < cycle
     /\ Len(all) > 0 => (Len(all) - 1) * (Max({1, TrialCycles}) + 1) < cycle

\* Of two agents with the same weight the one that did better never comes out of an update
\* with the smaller weight, wherever the two stand among the others and among ties and
\* whatever the update prunes (update_weights over compute_performance's ranks).
BetterIsNotBehind ==
  [][updates' = updates + 1 =>
       \A a, b \in DOMAIN weights :
         weights[a] = weights[b] /\ Below(Performance(b), Performance(a))
           => weights'[a] >= weights'[b]]_evolution

\* A change is kept on the evidence of trades ("Keep the modification if improved",
\* autoresearch.py:12).
KeptOnEvidence ==
  [][\A n \in {Len(history) + 1} : n \in DOMAIN history' /\ history'[n].status = "kept"
       => RollingSharpe(history'[n].agent) # None]_evolution

\* An agent all of whose outcomes in the window are losses is not given more weight.
LosersAreNotBoosted ==
  [][updates' = updates + 1 =>
       \A a \in DOMAIN weights :
         Recent(a) # EmptyBag /\ (\A o \in BagToSet(Recent(a)) : Weighted(o) < 0)
           => weights'[a] <= weights[a]]_evolution

\* "The weight vector feeds directly into WeightedArbitration" (darwinian.py:11).
ArbitrationFollowsWeights == arbitration = weights

\* A manager read back from its checkpoint goes on with the settings it had.
SettingsSurvive == settings = Configured

\* The fast period of a crossover stays below the slow one.
FastBelowSlow ==
  \A a \in DOMAIN tuned : {"fast", "slow"} \subseteq DOMAIN tuned[a] => tuned[a]["fast"] < tuned[a]["slow"]
=============================================================================
