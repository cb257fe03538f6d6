------------------------------ MODULE Routing ------------------------------
(***************************************************************************)
(* The request path of the engine: the registry of pkg/config, the walk of *)
(* router.Select with its never-downgrade floor, and the failover of       *)
(* pipeline.Optimize, with the evidence and savings sinks on the way.      *)
(*                                                                         *)
(* A request is cut at every lock of the Config and every call of a        *)
(* function of the consumer: between two of them tiers and alternatives    *)
(* are registered, the floor predicate is replaced, and tiers go down and  *)
(* come back.                                                              *)
(***************************************************************************)
EXTENDS Integers, FiniteSets, Sequences

CONSTANTS
    Names,          \* the tier names, numbered in their string order
    NoName,         \* the empty name
    Offered,        \* the tiers the consumer may try to register
    NoTier,         \* the absence of a tier
    Policies,       \* the predicates of the consumer that SetNeverDowngrade may install
    Denied,         \* the <<current, candidate, loadBearing>> each of them is true of
    Requests,       \* the callers of Optimize
    Signals,        \* what a request may ask for
    Sinks,          \* the installed recorders
    SinkFaults,     \* the recorders whose Record may fail
    MaxAlternatives,\* bound: the names in one call of RegisterAlternative
    MaxChanges      \* bound: registrations of alternatives, new predicates, outages, recoveries

Tier == [name : Names \cup {NoName}, priority : Int, priceIn : Int, priceOut : Int]

Default == "DefaultNeverDowngrade"

Predicates == Policies \cup {Default}

Signal == [minTier : Names \cup {NoName}, floorTier : Names \cup {NoName},
           loadBearing : BOOLEAN, autoBaseline : BOOLEAN]

ASSUME RoutingAssumption ==
    /\ Names \subseteq Nat
    /\ NoName \notin Names
    /\ Offered \subseteq Tier
    /\ NoTier \notin Offered
    /\ Default \notin Policies
    /\ Denied \in [Policies -> SUBSET (Offered \X Offered \X BOOLEAN)]
    /\ Signals \subseteq Signal
    /\ Sinks \subseteq {"evidence", "savings"}
    /\ SinkFaults \subseteq Sinks
    /\ MaxAlternatives \in Nat
    /\ MaxChanges \in Nat

VARIABLES
    tiers,          \* Config.tiers
    alternatives,   \* Config.alternatives
    neverDown,      \* Config.neverDown
    up,             \* the names the consumer's liveness predicate accepts
    changes,        \* how many changes there were
    pc,             \* where each request is, or how it ended
    call,           \* the locals of each request
    trail,          \* the lines each request left with the two recorders
    seen,           \* history: the predicates in force since the call
    ever,           \* history: the names live at some moment since the call
    steady          \* history: the names live at every moment since the call

config == <<tiers, alternatives, neverDown>>

environment == <<config, up, changes>>

history == <<seen, ever, steady>>

vars == <<environment, pc, call, trail, history>>

Errors == {"ErrNoTiers", "ErrUnknownTier", "ErrNoSelectableTier", "ErrNoFloorSafeLiveTier",
           "ErrEvidence", "ErrNoBaselineTier", "ErrSavings"}

PCs == {"idle", "select", "walk", "evidence", "probe", "alternatives", "consider",
        "probeAlternative", "savings", "decided"} \cup Errors

(***************************************************************************)
(* rest is what the walk of Select has still to look at, floor the floor   *)
(* in force, sel the selected tier, chain and at the alternatives and how  *)
(* many of them are behind, final the tier of the Decision.  History:      *)
(* adequate is what the walk began with.                                   *)
(***************************************************************************)
Call == [signal : Signals, adequate : SUBSET Offered, rest : SUBSET Offered,
         floor : Offered \cup {NoTier}, sel : Offered \cup {NoTier},
         chain : Seq(Names), at : Nat, final : Offered \cup {NoTier}]

(* An evidence line names a tier, a savings line also its baseline.        *)
Trail == [evidence : Seq(Names \cup {NoName}),
          savings : Seq([tag : Names \cup {NoName}, baseline : Offered \cup {NoTier}])]

TypeOK ==
    /\ tiers \in [Names -> Offered \cup {NoTier}]
    /\ \A n \in Names : tiers[n] # NoTier => tiers[n].name = n
    /\ alternatives \in [Names -> Seq(Names)]
    /\ neverDown \in Predicates
    /\ up \in SUBSET Names
    /\ changes \in 0 .. MaxChanges
    /\ pc \in [Requests -> PCs]
    /\ call \in [Requests -> Call]
    /\ trail \in [Requests -> Trail]
    /\ seen \in [Requests -> SUBSET Predicates]
    /\ ever \in [Requests -> SUBSET Names]
    /\ steady \in [Requests -> SUBSET Names]

-----------------------------------------------------------------------------
(* Tiers.                                                                  *)

CombinedPrice(t) == t.priceIn + t.priceOut

DefaultNeverDowngrade(current, candidate, loadBearing) ==
    loadBearing /\ CombinedPrice(candidate) < CombinedPrice(current)

(* What predicate fn returns.                                              *)
Forbids(fn, current, candidate, loadBearing) ==
    IF fn = Default THEN DefaultNeverDowngrade(current, candidate, loadBearing)
    ELSE <<current, candidate, loadBearing>> \in Denied[fn]

(* The cheapest-first order of Tiers().                                    *)
Before(s, t) == s.priority < t.priority \/ (s.priority = t.priority /\ s.name < t.name)

Cheapest(t, S) == t \in S /\ \A u \in S : u = t \/ Before(t, u)

Strongest(t, S) == t \in S /\ \A u \in S : u = t \/ Before(u, t)

Registered == {tiers[n] : n \in Names} \ {NoTier}

NewCall(s) ==
    [signal |-> s, adequate |-> {}, rest |-> {}, floor |-> NoTier, sel |-> NoTier,
     chain |-> <<>>, at |-> 0, final |-> NoTier]

NoTrail == [evidence |-> <<>>, savings |-> <<>>]

Init ==
    /\ tiers = [n \in Names |-> NoTier]
    /\ alternatives = [n \in Names |-> <<>>]
    /\ neverDown = Default
    /\ up \in SUBSET Names
    /\ changes = 0
    /\ pc = [q \in Requests |-> "idle"]
    /\ call \in [Requests -> {NewCall(s) : s \in Signals}]
    /\ trail = [q \in Requests |-> NoTrail]
    /\ seen = [q \in Requests |-> {}]
    /\ ever = [q \in Requests |-> {}]
    /\ steady = [q \in Requests |-> {}]

-----------------------------------------------------------------------------
(* Config.  A call that returns an error changes nothing and is no step.   *)

(* Mutant: a tier without a name is accepted.                              *)
RegisterUnnamed(t) ==
    /\ t.name \in Names => tiers[t.name] = NoTier
    /\ tiers' = [n \in Names \cup {t.name} |-> IF n = t.name THEN t ELSE tiers[n]]
    /\ UNCHANGED <<alternatives, neverDown, up, changes, pc, call, trail, history>>

RegisterTier(t) ==
    /\ t.name # NoName
    /\ t.priceIn >= 0 /\ t.priceOut >= 0
    /\ tiers[t.name] = NoTier
    /\ tiers' = [tiers EXCEPT ![t.name] = t]
    /\ UNCHANGED <<alternatives, neverDown, up, changes, pc, call, trail, history>>

ElementsOf(s) == {s[j] : j \in 1 .. Len(s)}

(* Mutant: nothing is de-duplicated.                                       *)
AsGiven(added, old, alts) == added = alts

(* added is the names of alts that are new, in first-seen order.           *)
Fresh(added, old, alts) ==
    /\ ElementsOf(added) = ElementsOf(alts) \ ElementsOf(old)
    /\ \A i, j \in 1 .. Len(added) : i < j =>
          \E p \in 1 .. Len(alts) :
              alts[p] = added[i] /\ \A r \in 1 .. p : alts[r] # added[j]

(* The bound on the changes of the consumer.                               *)
Change == changes < MaxChanges /\ changes' = changes + 1

(* Every name is validated before anything is appended.                    *)
RegisterAlternative(primary, alts) ==
    /\ Change
    /\ tiers[primary] # NoTier
    /\ \A j \in 1 .. Len(alts) : alts[j] # primary /\ tiers[alts[j]] # NoTier
    /\ \E n \in 0 .. Len(alts) : \E added \in [1 .. n -> Names] :
          /\ Fresh(added, alternatives[primary], alts)
          /\ alternatives' = [alternatives EXCEPT ![primary] = @ \o added]
    /\ UNCHANGED <<tiers, neverDown, up, pc, call, trail, history>>

Active(q) == pc[q] \notin {"idle", "decided"} \cup Errors

SetNeverDowngrade(fn) ==
    /\ Change
    /\ neverDown' = fn
    /\ seen' = [q \in Requests |-> IF Active(q) THEN seen[q] \cup {fn} ELSE seen[q]]
    /\ UNCHANGED <<tiers, alternatives, up, pc, call, trail, ever, steady>>

(* A tier goes down or comes back.                                         *)
Outage(n) ==
    /\ Change
    /\ n \in up
    /\ up' = up \ {n}
    /\ steady' = [q \in Requests |-> IF Active(q) THEN steady[q] \ {n} ELSE steady[q]]
    /\ UNCHANGED <<config, pc, call, trail, seen, ever>>

Recovery(n) ==
    /\ Change
    /\ n \notin up
    /\ up' = up \cup {n}
    /\ ever' = [q \in Requests |-> IF Active(q) THEN ever[q] \cup {n} ELSE ever[q]]
    /\ UNCHANGED <<config, pc, call, trail, seen, steady>>

IsForbiddenDowngrade(current, candidate, loadBearing) ==
    Forbids(neverDown, current, candidate, loadBearing)

-----------------------------------------------------------------------------
(* Select, under SelectWithEvidence.                                       *)

Goto(q, at) == pc' = [pc EXCEPT ![q] = at]

Optimize(q) ==
    /\ pc[q] = "idle"
    /\ Goto(q, "select")
    /\ seen' = [seen EXCEPT ![q] = {neverDown}]
    /\ ever' = [ever EXCEPT ![q] = up]
    /\ steady' = [steady EXCEPT ![q] = up]
    /\ UNCHANGED <<environment, call, trail>>

Known(n) == n \in {NoName} \cup {m \in Names : tiers[m] # NoTier}

SelectRefused(q) ==
    LET signal == call[q].signal
    IN  /\ pc[q] = "select"
        /\ \/ Registered = {} /\ Goto(q, "ErrNoTiers")
           \/ /\ Registered # {}
              /\ ~(Known(signal.minTier) /\ Known(signal.floorTier))
              /\ Goto(q, "ErrUnknownTier")
        /\ UNCHANGED <<environment, call, trail, history>>

(* Mutant: the walk starts at the cheapest tier.                           *)
AnyTier(min) == Registered

AtLeast(min) ==
    IF min = NoName THEN Registered ELSE {t \in Registered : ~Before(t, tiers[min])}

resolveFloor(signal, floor) ==
    IF signal.floorTier # NoName THEN floor = tiers[signal.floorTier]
    ELSE IF signal.loadBearing THEN Strongest(floor, Registered)
    ELSE floor = NoTier

Select(q) ==
    LET signal == call[q].signal
    IN  /\ pc[q] = "select"
        /\ Registered # {}
        /\ Known(signal.minTier) /\ Known(signal.floorTier)
        /\ \E floor \in Registered \cup {NoTier} :
              /\ resolveFloor(signal, floor)
              /\ call' = [call EXCEPT ![q].floor = floor,
                                      ![q].adequate = AtLeast(signal.minTier),
                                      ![q].rest = AtLeast(signal.minTier)]
        /\ Goto(q, "walk")
        /\ UNCHANGED <<environment, trail, history>>

(* Mutant: the floor is compared in the wrong direction.                   *)
BelowFloorReversed(q, t) ==
    /\ call[q].floor # NoTier
    /\ IsForbiddenDowngrade(t, call[q].floor, call[q].signal.loadBearing)

BelowFloor(q, t) ==
    /\ call[q].floor # NoTier
    /\ IsForbiddenDowngrade(call[q].floor, t, call[q].signal.loadBearing)

WalkPast(q) ==
    /\ pc[q] = "walk"
    /\ \E t \in call[q].rest :
          /\ Cheapest(t, call[q].rest)
          /\ BelowFloor(q, t)
          /\ call' = [call EXCEPT ![q].rest = @ \ {t}]
    /\ UNCHANGED <<environment, pc, trail, history>>

WalkTake(q) ==
    /\ pc[q] = "walk"
    /\ \E t \in call[q].rest :
          /\ Cheapest(t, call[q].rest)
          /\ ~BelowFloor(q, t)
          /\ call' = [call EXCEPT ![q].sel = t]
    /\ Goto(q, "evidence")
    /\ UNCHANGED <<environment, trail, history>>

WalkExhausted(q) ==
    /\ pc[q] = "walk"
    /\ call[q].rest = {}
    /\ Goto(q, "ErrNoSelectableTier")
    /\ UNCHANGED <<environment, call, trail, history>>

RecordEvidence(q) ==
    /\ pc[q] = "evidence"
    /\ trail' = IF "evidence" \in Sinks
                THEN [trail EXCEPT ![q].evidence = Append(@, call[q].sel.name)] ELSE trail
    /\ Goto(q, "probe")
    /\ UNCHANGED <<environment, call, history>>

(* The Decision is dropped: the caller gets only the error.                *)
EvidenceFails(q) ==
    /\ pc[q] = "evidence"
    /\ "evidence" \in SinkFaults
    /\ Goto(q, "ErrEvidence")
    /\ UNCHANGED <<environment, call, trail, history>>

-----------------------------------------------------------------------------
(* The rest of Optimize: liveness, failover, savings.                      *)

Decide(q, t) ==
    /\ call' = [call EXCEPT ![q].final = t]
    /\ Goto(q, "savings")

SelectedLive(q) ==
    /\ pc[q] = "probe"
    /\ call[q].sel.name \in up
    /\ Decide(q, call[q].sel)
    /\ UNCHANGED <<environment, trail, history>>

SelectedDown(q) ==
    /\ pc[q] = "probe"
    /\ call[q].sel.name \notin up
    /\ Goto(q, "alternatives")
    /\ UNCHANGED <<environment, call, trail, history>>

Alternatives(q) ==
    /\ pc[q] = "alternatives"
    /\ call' = [call EXCEPT ![q].chain = alternatives[call[q].sel.name]]
    /\ Goto(q, "consider")
    /\ UNCHANGED <<environment, trail, history>>

Alternative(q) == tiers[call[q].chain[call[q].at + 1]]

(* Mutant: the failover judges by liveness only.                           *)
NeverWeaker(q) == pc[q] = "idle"

(* The alternative is weaker than the selected tier.                       *)
Weaker(q) ==
    IsForbiddenDowngrade(call[q].sel, Alternative(q), call[q].signal.loadBearing)

Allowed(q) == Alternative(q) # NoTier /\ ~Weaker(q)

AlternativeRefused(q) ==
    /\ pc[q] = "consider"
    /\ call[q].at < Len(call[q].chain)
    /\ ~Allowed(q)
    /\ call' = [call EXCEPT ![q].at = @ + 1]
    /\ UNCHANGED <<environment, pc, trail, history>>

AlternativeAllowed(q) ==
    /\ pc[q] = "consider"
    /\ call[q].at < Len(call[q].chain)
    /\ Allowed(q)
    /\ Goto(q, "probeAlternative")
    /\ UNCHANGED <<environment, call, trail, history>>

AlternativeLive(q) ==
    /\ pc[q] = "probeAlternative"
    /\ Alternative(q).name \in up
    /\ Decide(q, Alternative(q))
    /\ UNCHANGED <<environment, trail, history>>

(* Mutant: the selected tier is probed again.                              *)
ProbesSelected(q) ==
    /\ pc[q] = "probeAlternative"
    /\ call[q].sel.name \notin up
    /\ call' = [call EXCEPT ![q].at = @ + 1]
    /\ Goto(q, "consider")
    /\ UNCHANGED <<environment, trail, history>>

AlternativeDown(q) ==
    /\ pc[q] = "probeAlternative"
    /\ Alternative(q).name \notin up
    /\ call' = [call EXCEPT ![q].at = @ + 1]
    /\ Goto(q, "consider")
    /\ UNCHANGED <<environment, trail, history>>

NoAlternativeLeft(q) ==
    /\ pc[q] = "consider"
    /\ call[q].at = Len(call[q].chain)
    /\ Goto(q, "ErrNoFloorSafeLiveTier")
    /\ UNCHANGED <<environment, call, trail, history>>

(* Mutant: the pre-failover entitlement is billed.                         *)
TagOfSelected(q) == call[q].sel.name

Tag(q) == call[q].final.name

(* Mutant: the baseline is the floor the request was selected under.       *)
BaselineFloor(q, t) == t = call[q].floor

(* AutoBaseline prices against the strongest tier registered by now.       *)
resolveBaselineCost(q, t) ==
    IF call[q].signal.autoBaseline THEN Strongest(t, Registered) ELSE t = NoTier

(* The line reaches the log of the recorder.                               *)
Billed(q) ==
    \E t \in Registered \cup {NoTier} :
        /\ resolveBaselineCost(q, t)
        /\ trail' = [trail EXCEPT ![q].savings = Append(@, [tag |-> Tag(q), baseline |-> t])]

recordSavings(q) ==
    /\ pc[q] = "savings"
    /\ IF "savings" \in Sinks THEN Billed(q) ELSE trail' = trail
    /\ Goto(q, "decided")
    /\ UNCHANGED <<environment, call, history>>

(* There is nothing to price the baseline on.                              *)
NoBaseline(q) == "savings" \in Sinks /\ call[q].signal.autoBaseline /\ Registered = {}

(***************************************************************************)
(* The Decision is returned beside the error.  A record that is refused    *)
(* leaves nothing; one that cannot be written stays in the log.            *)
(***************************************************************************)
SavingsFail(q) ==
    /\ pc[q] = "savings"
    /\ ~NoBaseline(q) => "savings" \in SinkFaults
    /\ Billed(q) \/ trail' = trail
    /\ Goto(q, IF NoBaseline(q) THEN "ErrNoBaselineTier" ELSE "ErrSavings")
    /\ UNCHANGED <<environment, call, history>>

(* The caller makes its next request.                                      *)
Return(q) ==
    /\ pc[q] \in {"decided"} \cup Errors
    /\ Goto(q, "idle")
    /\ \E s \in Signals : call' = [call EXCEPT ![q] = NewCall(s)]
    /\ trail' = [trail EXCEPT ![q] = NoTrail]
    /\ seen' = [seen EXCEPT ![q] = {}]
    /\ ever' = [ever EXCEPT ![q] = {}]
    /\ steady' = [steady EXCEPT ![q] = {}]
    /\ UNCHANGED environment

-----------------------------------------------------------------------------
(* The specification.                                                      *)

Configure ==
    \/ \E t \in Offered : RegisterTier(t)
    \/ \E primary \in Names, n \in 1 .. MaxAlternatives :
          \E alts \in [1 .. n -> Names] : RegisterAlternative(primary, alts)
    \/ \E fn \in Predicates : SetNeverDowngrade(fn)
    \/ \E n \in Names : Outage(n) \/ Recovery(n)

RequestStep(q) ==
    \/ SelectRefused(q) \/ Select(q)
    \/ WalkPast(q) \/ WalkTake(q) \/ WalkExhausted(q)
    \/ RecordEvidence(q) \/ EvidenceFails(q)
    \/ SelectedLive(q) \/ SelectedDown(q)
    \/ Alternatives(q) \/ AlternativeRefused(q) \/ AlternativeAllowed(q)
    \/ AlternativeLive(q) \/ AlternativeDown(q) \/ NoAlternativeLeft(q)
    \/ recordSavings(q) \/ SavingsFail(q)

Next ==
    \/ Configure
    \/ \E q \in Requests : Optimize(q) \/ RequestStep(q) \/ Return(q)

Spec == Init /\ [][Next]_vars

-----------------------------------------------------------------------------
(* Properties.                                                             *)

(* A predicate in force during the call let the candidate through.         *)
Permitted(q, current, candidate) ==
    \E fn \in seen[q] : ~Forbids(fn, current, candidate, call[q].signal.loadBearing)

Refused(q, current, candidate) ==
    \E fn \in seen[q] : Forbids(fn, current, candidate, call[q].signal.loadBearing)

(***************************************************************************)
(* The alternatives of a tier are registered tiers other than itself, each *)
(* named once, whatever the calls that registered them repeat (config.go   *)
(* 166-203).                                                               *)
(***************************************************************************)
AlternativesSound ==
    \A n \in Names :
        LET alts == alternatives[n]
        IN  \A i, j \in 1 .. Len(alts) :
                /\ alts[i] # n
                /\ tiers[alts[i]] # NoTier
                /\ i # j => alts[i] # alts[j]

(***************************************************************************)
(* The floor cannot be bypassed, by an outage or by replacing the          *)
(* predicate: a predicate in force let the selected tier through relative  *)
(* to the floor, and a failover target relative to the selected tier       *)
(* (pipeline.go 4-18, config.go 248-256).  That it is no lower on the      *)
(* ladder is another matter, see LoadBearingAtFloor.                       *)
(***************************************************************************)
FloorNeverBypassed ==
    \A q \in Requests :
        LET c == call[q]
        IN  /\ c.sel # NoTier /\ c.floor # NoTier => Permitted(q, c.floor, c.sel)
            /\ c.final \notin {NoTier, c.sel} => Permitted(q, c.sel, c.final)

(***************************************************************************)
(* As long as the consumer installs only predicates that forbid what the   *)
(* default one forbids, a load-bearing request is sent to a tier that is   *)
(* not cheaper than its floor, failover included (config.go 79-89).        *)
(***************************************************************************)
Stricter ==
    \A fn \in Policies, s, t \in Offered :
        DefaultNeverDowngrade(s, t, TRUE) => <<s, t, TRUE>> \in Denied[fn]

LoadBearingNotCheaper ==
    Stricter =>
        \A q \in Requests :
            LET c == call[q]
            IN  c.signal.loadBearing /\ c.final # NoTier =>
                    CombinedPrice(c.final) >= CombinedPrice(c.floor)

(***************************************************************************)
(* Select returns a tier of at least the minimum adequacy, and the walk    *)
(* refuses a cheaper adequate one only for the floor (router.go 105-108,   *)
(* 144-163).                                                               *)
(***************************************************************************)
CheapestAdequate ==
    \A q \in Requests :
        LET c == call[q]
        IN  c.sel # NoTier =>
                /\ c.signal.minTier # NoName => ~Before(c.sel, tiers[c.signal.minTier])
                /\ \A t \in c.adequate :
                       Before(t, c.sel) => c.floor # NoTier /\ Refused(q, c.floor, t)

(***************************************************************************)
(* A tier is passed over, or the request refused, only for a reason: the   *)
(* tier was down at some moment of the call, or its floor forbade it       *)
(* (pipeline.go 384-439).                                                  *)
(***************************************************************************)
FailoverHonest ==
    \A q \in Requests :
        LET c == call[q]
        IN  /\ c.final \notin {NoTier, c.sel} \/ pc[q] = "ErrNoFloorSafeLiveTier"
                   => c.sel.name \notin steady[q]
            /\ \A i \in 1 .. c.at : \/ c.chain[i] \notin steady[q]
                                   \/ Refused(q, c.sel, tiers[c.chain[i]])
            /\ c.final # NoTier => c.final.name \in ever[q]
            /\ pc[q] = "ErrNoFloorSafeLiveTier" => c.at = Len(c.chain)

(***************************************************************************)
(* The captured evidence agrees with the answer: a request that returns    *)
(* without an error has one evidence line, for the tier it was entitled    *)
(* to, and one savings line, for the tier it was sent to; a request that   *)
(* was refused has billed nothing, and none bills twice (pipeline.go       *)
(* 263-316).                                                               *)
(***************************************************************************)
TrailMatchesDecision ==
    \A q \in Requests :
        LET c == call[q]
        IN  /\ pc[q] = "decided" =>
                  /\ "evidence" \in Sinks => trail[q].evidence = <<c.sel.name>>
                  /\ "savings" \in Sinks => /\ Len(trail[q].savings) = 1
                                            /\ trail[q].savings[1].tag = c.final.name
            /\ pc[q] \in Errors \ {"ErrSavings"} => trail[q].savings = <<>>
            /\ Len(trail[q].savings) <= 1

(***************************************************************************)
(* The self-computed baseline is priced, if at all, on a tier at least as  *)
(* strong as the one the request was sent to and as its floor, whatever    *)
(* was registered in between; there always is one (pipeline.go 65-72,      *)
(* 318-341).                                                               *)
(***************************************************************************)
BaselineAtLeastAsStrong ==
    \A q \in Requests :
        /\ pc[q] # "ErrNoBaselineTier"
        /\ \A i \in 1 .. Len(trail[q].savings) :
              LET line == trail[q].savings[i]
              IN  line.baseline # NoTier =>
                      \A t \in {call[q].final, call[q].floor} \ {NoTier} : ~Before(line.baseline, t)

-----------------------------------------------------------------------------
(***************************************************************************)
(* What the comments say that the code does not do.  TLC refutes this with *)
(* MC_Routing_ladder.cfg.                                                  *)
(***************************************************************************)

(***************************************************************************)
(* "A request pinned to a floor never resolves to a tier below it", and    *)
(* the default predicate "pins every load-bearing request to the strongest *)
(* tier" (router.go 113-117), the last of the cheapest-first order         *)
(* (loadbearing.go 16-20).  But that order is one of priorities (config.go *)
(* 147-164) and the predicate compares prices (79-89): a tier lower on the *)
(* ladder that costs no less than the floor is let through.  What holds is *)
(* LoadBearingNotCheaper.                                                  *)
(***************************************************************************)
LoadBearingAtFloor ==
    \A q \in Requests :
        LET c == call[q]
        IN  c.signal.loadBearing /\ seen[q] = {Default} /\ c.sel # NoTier =>
                ~Before(c.sel, c.floor)

=============================================================================
