--------------------------- MODULE Routing_proofs ---------------------------
(***************************************************************************)
(* Theorems about Routing, and Failover over it, for every ladder of       *)
(* tiers, every set of predicates, every request and every change of the   *)
(* registry on the way.                                                    *)
(***************************************************************************)
EXTENDS Failover, TLAPS

(***************************************************************************)
(* TypeOK is inductive together with what a request has in hand where it   *)
(* is: registered tiers throughout, a selected one after the walk, an      *)
(* alternative when it probes one, the Decision's when it bills it.        *)
(***************************************************************************)
Selecting == {"idle", "select", "walk"}

Selected == {"evidence", "probe", "alternatives", "consider", "probeAlternative",
             "savings", "decided"}

IsRegistered(t) == t \in Offered /\ t.name \in Names /\ tiers[t.name] = t

Holding(q) ==
    LET c == call[q] IN c.adequate \cup c.rest \cup ({c.floor, c.sel, c.final} \ {NoTier})

HoldsRegistered(q) == \A t \in Holding(q) : IsRegistered(t)

Place(q) ==
    /\ pc[q] \in Selecting => call[q].sel = NoTier
    /\ pc[q] \in Selected => call[q].sel \in Offered
    /\ pc[q] \in Selecting \cup (Selected \ {"savings", "decided"}) => call[q].final = NoTier
    /\ pc[q] \in {"savings", "decided"} => call[q].final \in Offered
    /\ call[q].final # NoTier => call[q].sel # NoTier
    /\ pc[q] = "probeAlternative" =>
          call[q].at < Len(call[q].chain) /\ Alternative(q) # NoTier

InHand(q) == HoldsRegistered(q) /\ Place(q)

Typed == TypeOK /\ \A q \in Requests : InHand(q)

LEMMA InitTyped == Init => Typed
<1> SUFFICES ASSUME Init PROVE Typed
  OBVIOUS
<1> USE RoutingAssumption
<1>1. \A s \in Signals : NewCall(s) \in Call
  BY DEF NewCall, Call
<1>2. NoTrail \in Trail
  BY DEF NoTrail, Trail
<1>3. TypeOK
  BY <1>1, <1>2 DEF Init, TypeOK, PCs, Predicates
<1>4. \A q \in Requests : InHand(q)
  BY DEF Init, InHand, HoldsRegistered, Place, Holding, NewCall, Selecting, Selected
<1> QED
  BY <1>3, <1>4 DEF Typed

(* What changes only outside a request leaves it with what it has in hand. *)
LEMMA KeepsInHand ==
    ASSUME TypeOK, UNCHANGED <<pc, call>>,
           \A n \in Names : tiers[n] # NoTier => tiers'[n] = tiers[n],
           NEW q \in Requests, InHand(q)
    PROVE  InHand(q)'
<1>1. call[q].chain \in Seq(Names) /\ call[q].at \in Nat
  BY DEF TypeOK, Call
<1>2. pc[q] = "probeAlternative" => call[q].chain[call[q].at + 1] \in Names
  BY <1>1 DEF InHand, HoldsRegistered, Place
<1>3. HoldsRegistered(q)'
  <2>1. Holding(q)' = Holding(q)
    BY DEF Holding
  <2>2. ASSUME NEW t \in Holding(q) PROVE IsRegistered(t)'
    <3>1. IsRegistered(t) /\ t # NoTier
      BY RoutingAssumption DEF InHand, HoldsRegistered, Holding, IsRegistered
    <3> QED
      BY <3>1 DEF IsRegistered
  <2> QED
    BY <2>1, <2>2 DEF HoldsRegistered
<1> QED
  BY <1>2, <1>3 DEF InHand, HoldsRegistered, Place, Alternative

LEMMA ConfigureTyped == Typed /\ Configure => Typed'
<1> SUFFICES ASSUME Typed, Configure PROVE Typed'
  OBVIOUS
<1> USE RoutingAssumption DEF Typed
<1>1. ASSUME NEW t \in Offered, RegisterTier(t) PROVE Typed'
  <2>1. t.name \in Names
    BY <1>1 DEF RegisterTier, Tier
  <2>2. TypeOK'
    BY <1>1, <2>1 DEF RegisterTier, TypeOK, history
  <2>3. \A n \in Names : tiers[n] # NoTier => tiers'[n] = tiers[n]
    BY <1>1, <2>1 DEF RegisterTier, TypeOK
  <2> QED
    BY <1>1, <2>2, <2>3, KeepsInHand DEF RegisterTier
<1>2. ASSUME NEW primary \in Names, NEW n \in 1 .. MaxAlternatives,
             NEW alts \in [1 .. n -> Names], RegisterAlternative(primary, alts)
      PROVE  Typed'
  <2>1. PICK m \in 0 .. Len(alts) : \E added \in [1 .. m -> Names] :
            alternatives' = [alternatives EXCEPT ![primary] = @ \o added]
    BY <1>2 DEF RegisterAlternative
  <2>2. PICK added \in [1 .. m -> Names] :
            alternatives' = [alternatives EXCEPT ![primary] = @ \o added]
    BY <2>1
  <2>3. m \in Nat
    BY <2>1
  <2>4. added \in Seq(Names)
    BY <2>2, <2>3
  <2>5. alternatives[primary] \o added \in Seq(Names)
    BY <2>4 DEF TypeOK
  <2>6. alternatives' \in [Names -> Seq(Names)]
    BY <2>2, <2>5 DEF TypeOK
  <2>7. TypeOK'
    BY <1>2, <2>6 DEF RegisterAlternative, Change, TypeOK, history
  <2> QED
    BY <1>2, <2>7, KeepsInHand DEF RegisterAlternative
<1>3. ASSUME NEW fn \in Predicates, SetNeverDowngrade(fn) PROVE Typed'
  <2>1. TypeOK'
    BY <1>3 DEF SetNeverDowngrade, Change, TypeOK
  <2> QED
    BY <1>3, <2>1, KeepsInHand DEF SetNeverDowngrade
<1>4. ASSUME NEW n \in Names, Outage(n) PROVE Typed'
  <2>1. TypeOK'
    BY <1>4 DEF Outage, Change, TypeOK, config
  <2> QED
    BY <1>4, <2>1, KeepsInHand DEF Outage, config
<1>5. ASSUME NEW n \in Names, Recovery(n) PROVE Typed'
  <2>1. TypeOK'
    BY <1>5 DEF Recovery, Change, TypeOK, config
  <2> QED
    BY <1>5, <2>1, KeepsInHand DEF Recovery, config
<1> QED
  BY <1>1, <1>2, <1>3, <1>4, <1>5 DEF Configure

(***************************************************************************)
(* A step of a request changes its own locals only.                        *)
(***************************************************************************)
LEMMA OwnStep ==
    ASSUME Typed, TypeOK', UNCHANGED tiers, NEW q \in Requests,
           \A r \in Requests \ {q} : pc'[r] = pc[r] /\ call'[r] = call[r],
           InHand(q)'
    PROVE  Typed'
<1>1. ASSUME NEW r \in Requests \ {q} PROVE InHand(r)'
  <2>1. InHand(r) /\ pc'[r] = pc[r] /\ call'[r] = call[r]
    BY DEF Typed
  <2> QED
    BY <2>1 DEF InHand, HoldsRegistered, Place, Alternative, Holding, IsRegistered
<1> QED
  BY <1>1 DEF Typed

LEMMA RegisteredType ==
    ASSUME TypeOK
    PROVE  \A t \in Registered : IsRegistered(t)
  BY DEF TypeOK, Registered, IsRegistered

LEMMA OwnCall ==
    ASSUME TypeOK, NEW q \in Requests, NEW c \in Call, NEW at \in PCs,
           call' = [call EXCEPT ![q] = c], pc' = [pc EXCEPT ![q] = at],
           UNCHANGED <<environment, trail, history>>
    PROVE  /\ TypeOK'
           /\ call'[q] = c /\ pc'[q] = at
           /\ \A r \in Requests \ {q} : pc'[r] = pc[r] /\ call'[r] = call[r]
<1>1. call' \in [Requests -> Call] /\ pc' \in [Requests -> PCs]
  BY DEF TypeOK
<1>2. TypeOK'
  BY <1>1 DEF TypeOK, environment, config, history
<1> QED
  BY <1>2 DEF TypeOK

LEMMA SameCall ==
    ASSUME TypeOK, NEW q \in Requests, NEW at \in PCs,
           pc' = [pc EXCEPT ![q] = at], UNCHANGED <<environment, call, trail, history>>
    PROVE  /\ TypeOK'
           /\ call'[q] = call[q] /\ pc'[q] = at
           /\ \A r \in Requests \ {q} : pc'[r] = pc[r] /\ call'[r] = call[r]
<1>1. pc' \in [Requests -> PCs]
  BY DEF TypeOK
<1>2. TypeOK'
  BY <1>1 DEF TypeOK, environment, config, history
<1> QED
  BY <1>2 DEF TypeOK

LEMMA CallType ==
    ASSUME TypeOK, NEW q \in Requests
    PROVE  /\ call[q] \in Call
           /\ pc[q] \in PCs
           /\ call[q].chain \in Seq(Names) /\ call[q].at \in Nat
           /\ call[q].at < Len(call[q].chain) /\ Alternative(q) # NoTier
                 => IsRegistered(Alternative(q))
<1>1. call[q] \in Call /\ pc[q] \in PCs
  BY DEF TypeOK
<1>2. call[q].chain \in Seq(Names) /\ call[q].at \in Nat
  BY <1>1 DEF Call
<1>3. ASSUME call[q].at < Len(call[q].chain), Alternative(q) # NoTier
      PROVE  IsRegistered(Alternative(q))
  <2>1. call[q].chain[call[q].at + 1] \in Names
    BY <1>2, <1>3
  <2> QED
    BY <2>1, <1>3 DEF Alternative, IsRegistered, TypeOK
<1> QED
  BY <1>1, <1>2, <1>3

LEMMA OptimizeTyped ==
    ASSUME Typed, NEW q \in Requests, Optimize(q)
    PROVE  Typed'
<1> USE RoutingAssumption DEF Typed
<1>1. TypeOK'
  BY DEF Optimize, Goto, TypeOK, environment, config, PCs, Predicates
<1>2. UNCHANGED <<tiers, call>> /\ \A r \in Requests \ {q} : pc'[r] = pc[r]
  BY DEF Optimize, Goto, TypeOK, environment, config
<1>3. InHand(q)'
  BY <1>2 DEF Optimize, Goto, TypeOK, InHand, HoldsRegistered, Place, Selecting, Selected, Holding, IsRegistered
<1> QED
  BY <1>1, <1>2, <1>3, OwnStep

LEMMA ReturnTyped ==
    ASSUME Typed, NEW q \in Requests, Return(q)
    PROVE  Typed'
<1> USE RoutingAssumption DEF Typed
<1>1. PICK s \in Signals : call' = [call EXCEPT ![q] = NewCall(s)]
  BY DEF Return
<1>2. NewCall(s) \in Call /\ NoTrail \in Trail
  BY DEF NewCall, Call, NoTrail, Trail
<1>3. TypeOK'
  BY <1>1, <1>2 DEF Return, Goto, TypeOK, environment, config, PCs
<1>4. UNCHANGED tiers /\ \A r \in Requests \ {q} : pc'[r] = pc[r] /\ call'[r] = call[r]
  BY <1>1 DEF Return, Goto, TypeOK, environment, config
<1>5. pc'[q] = "idle" /\ call'[q] = NewCall(s)
  BY <1>1 DEF Return, Goto, TypeOK
<1>6. InHand(q)'
  BY <1>5 DEF InHand, HoldsRegistered, Place, NewCall, Selecting, Selected, Holding
<1> QED
  BY <1>3, <1>4, <1>6, OwnStep

LEMMA SelectTyped ==
    ASSUME Typed, NEW q \in Requests,
           SelectRefused(q) \/ Select(q) \/ WalkPast(q) \/ WalkTake(q) \/ WalkExhausted(q)
    PROVE  Typed'
<1> USE RoutingAssumption DEF Typed
<1>t. call[q] \in Call /\ InHand(q) /\ UNCHANGED tiers
  BY CallType DEF SelectRefused, Select, WalkPast, WalkTake, WalkExhausted, environment, config
<1>1. CASE SelectRefused(q)
  <2>1. PICK at \in {"ErrNoTiers", "ErrUnknownTier"} : pc' = [pc EXCEPT ![q] = at]
    BY <1>1 DEF SelectRefused, Goto
  <2>2. at \in PCs /\ pc[q] = "select"
    BY <1>1 DEF SelectRefused, PCs, Errors
  <2>3. UNCHANGED <<environment, call, trail, history>>
    BY <1>1 DEF SelectRefused
  <2>4. InHand(q)'
    BY <1>t, <2>1, <2>2, <2>3, SameCall DEF InHand, HoldsRegistered, Place, Selecting, Selected, Holding, IsRegistered
  <2> QED
    BY <1>t, <2>1, <2>2, <2>3, <2>4, SameCall, OwnStep
<1>2. CASE Select(q)
  <2>1. PICK floor \in Registered \cup {NoTier} :
            call' = [call EXCEPT ![q].floor = floor,
                                 ![q].adequate = AtLeast(call[q].signal.minTier),
                                 ![q].rest = AtLeast(call[q].signal.minTier)]
    BY <1>2 DEF Select
  <2> DEFINE c == [call[q] EXCEPT !.floor = floor,
                                  !.adequate = AtLeast(call[q].signal.minTier),
                                  !.rest = AtLeast(call[q].signal.minTier)]
  <2>2. Registered \subseteq Offered
    BY DEF Registered, TypeOK
  <2>3. AtLeast(call[q].signal.minTier) \subseteq Offered
    BY <2>2 DEF AtLeast
  <2>4. c \in Call
    BY <1>t, <2>2, <2>3 DEF Call
  <2>5. call' = [call EXCEPT ![q] = c]
    BY <2>1 DEF TypeOK
  <2>6. pc' = [pc EXCEPT ![q] = "walk"] /\ "walk" \in PCs /\ pc[q] = "select"
    BY <1>2 DEF Select, Goto, PCs
  <2>7. UNCHANGED <<environment, trail, history>>
    BY <1>2 DEF Select, environment
  <2>8. /\ c.sel = call[q].sel /\ c.final = call[q].final
        /\ c.floor \in Registered \cup {NoTier}
        /\ c.adequate \subseteq Registered /\ c.rest \subseteq Registered
    BY <1>t DEF Call, AtLeast
  <2> HIDE DEF c
  <2>9. InHand(q)'
    BY <1>t, <2>4, <2>5, <2>6, <2>7, <2>8, OwnCall, RegisteredType DEF InHand, HoldsRegistered, Place, Selecting, Selected, Holding, IsRegistered
  <2> QED
    BY <1>t, <2>4, <2>5, <2>6, <2>7, <2>9, OwnCall, OwnStep
<1>3. CASE WalkPast(q)
  <2>1. PICK t \in call[q].rest : call' = [call EXCEPT ![q].rest = @ \ {t}]
    BY <1>3 DEF WalkPast
  <2> DEFINE c == [call[q] EXCEPT !.rest = @ \ {t}]
  <2>2. /\ c \in Call /\ c.sel = call[q].sel /\ c.final = call[q].final
        /\ c.floor = call[q].floor /\ c.adequate = call[q].adequate
        /\ c.rest \subseteq call[q].rest
    BY <1>t DEF Call
  <2>3. call' = [call EXCEPT ![q] = c]
    BY <2>1 DEF TypeOK
  <2>4. pc' = [pc EXCEPT ![q] = "walk"] /\ "walk" \in PCs /\ pc[q] = "walk"
    BY <1>3 DEF WalkPast, PCs, TypeOK
  <2>5. UNCHANGED <<environment, trail, history>>
    BY <1>3 DEF WalkPast
  <2> HIDE DEF c
  <2>6. InHand(q)'
    BY <1>t, <2>2, <2>3, <2>4, <2>5, OwnCall DEF InHand, HoldsRegistered, Place, Selecting, Selected, Holding, IsRegistered
  <2> QED
    BY <1>t, <2>2, <2>3, <2>4, <2>5, <2>6, OwnCall, OwnStep
<1>4. CASE WalkTake(q)
  <2>1. PICK t \in call[q].rest : call' = [call EXCEPT ![q].sel = t]
    BY <1>4 DEF WalkTake
  <2> DEFINE c == [call[q] EXCEPT !.sel = t]
  <2>2. /\ c \in Call /\ c.sel = t /\ t \in Offered /\ c.final = call[q].final
        /\ c.floor = call[q].floor /\ c.adequate = call[q].adequate /\ c.rest = call[q].rest
    BY <1>t, <2>1 DEF Call
  <2>3. call' = [call EXCEPT ![q] = c]
    BY <2>1 DEF TypeOK
  <2>4. pc' = [pc EXCEPT ![q] = "evidence"] /\ "evidence" \in PCs /\ pc[q] = "walk"
    BY <1>4 DEF WalkTake, Goto, PCs
  <2>5. UNCHANGED <<environment, trail, history>>
    BY <1>4 DEF WalkTake
  <2> HIDE DEF c
  <2>h. HoldsRegistered(q)'
    BY <1>t, <2>2, <2>3, <2>4, <2>5, OwnCall DEF InHand, HoldsRegistered, Place, Holding, IsRegistered
  <2>i. call'[q] = c /\ pc'[q] = "evidence"
    BY <2>3, <2>4 DEF TypeOK
  <2>6. InHand(q)'
    BY <1>t, <2>2, <2>4, <2>h, <2>i DEF InHand, Place, Selecting, Selected
  <2> QED
    BY <1>t, <2>2, <2>3, <2>4, <2>5, <2>6, OwnCall, OwnStep
<1>5. CASE WalkExhausted(q)
  <2>1. /\ pc[q] = "walk"
        /\ pc' = [pc EXCEPT ![q] = "ErrNoSelectableTier"]
        /\ "ErrNoSelectableTier" \in PCs
        /\ UNCHANGED <<environment, call, trail, history>>
    BY <1>5 DEF WalkExhausted, Goto, PCs, Errors
  <2>2. InHand(q)'
    BY <1>t, <2>1, SameCall DEF InHand, HoldsRegistered, Place, Selecting, Selected, Holding, IsRegistered
  <2> QED
    BY <1>t, <2>1, <2>2, SameCall, OwnStep
<1> QED
  BY <1>1, <1>2, <1>3, <1>4, <1>5

LEMMA FailoverTyped ==
    ASSUME Typed, NEW q \in Requests,
           \/ SelectedLive(q) \/ SelectedDown(q) \/ Alternatives(q)
           \/ AlternativeRefused(q) \/ AlternativeAllowed(q)
           \/ AlternativeLive(q) \/ AlternativeDown(q) \/ NoAlternativeLeft(q)
    PROVE  Typed'
<1> USE RoutingAssumption DEF Typed
<1>t. call[q] \in Call /\ InHand(q) /\ UNCHANGED tiers
  BY CallType DEF SelectedLive, SelectedDown, Alternatives, AlternativeRefused,
                  AlternativeAllowed, AlternativeLive, AlternativeDown, NoAlternativeLeft,
                  environment, config
<1>1. CASE SelectedLive(q)
  <2> DEFINE c == [call[q] EXCEPT !.final = call[q].sel]
  <2>1. /\ c \in Call /\ c.sel = call[q].sel /\ c.final = call[q].sel /\ call[q].sel \in Offered
        /\ c.floor = call[q].floor /\ c.adequate = call[q].adequate /\ c.rest = call[q].rest
    BY <1>t, <1>1 DEF Call, InHand, HoldsRegistered, Place, Selected, SelectedLive
  <2>2. call' = [call EXCEPT ![q] = c]
    BY <1>1 DEF SelectedLive, Decide, TypeOK
  <2>3. /\ pc[q] = "probe"
        /\ pc' = [pc EXCEPT ![q] = "savings"]
        /\ "savings" \in PCs
        /\ UNCHANGED <<environment, trail, history>>
    BY <1>1 DEF SelectedLive, Decide, Goto, PCs, TypeOK
  <2> HIDE DEF c
  <2>h. HoldsRegistered(q)'
    BY <1>t, <2>1, <2>2, <2>3, OwnCall DEF InHand, HoldsRegistered, Place, Holding, IsRegistered
  <2>i. call'[q] = c /\ pc'[q] = "savings"
    BY <2>2, <2>3 DEF TypeOK
  <2>4. InHand(q)'
    BY <1>t, <2>1, <2>3, <2>h, <2>i DEF InHand, Place, Selecting, Selected
  <2> QED
    BY <1>t, <2>1, <2>2, <2>3, <2>4, OwnCall, OwnStep
<1>2. CASE SelectedDown(q)
  <2>1. /\ pc[q] = "probe"
        /\ pc' = [pc EXCEPT ![q] = "alternatives"]
        /\ "alternatives" \in PCs
        /\ UNCHANGED <<environment, call, trail, history>>
    BY <1>2 DEF SelectedDown, Goto, PCs, Errors
  <2>2. InHand(q)'
    BY <1>t, <2>1, SameCall DEF InHand, HoldsRegistered, Place, Selecting, Selected, Holding, IsRegistered
  <2> QED
    BY <1>t, <2>1, <2>2, SameCall, OwnStep
<1>3. CASE Alternatives(q)
  <2> DEFINE c == [call[q] EXCEPT !.chain = alternatives[call[q].sel.name]]
  <2>0. call[q].sel \in Offered /\ call[q].sel.name \in Names
    BY <1>t, <1>3 DEF InHand, HoldsRegistered, Place, Selected, Alternatives, Holding, IsRegistered
  <2>1. /\ c \in Call /\ c.sel = call[q].sel /\ c.final = call[q].final
        /\ c.floor = call[q].floor /\ c.adequate = call[q].adequate /\ c.rest = call[q].rest
    BY <1>t, <2>0 DEF Call, TypeOK
  <2>2. call' = [call EXCEPT ![q] = c]
    BY <1>3 DEF Alternatives, TypeOK
  <2>3. /\ pc[q] = "alternatives"
        /\ pc' = [pc EXCEPT ![q] = "consider"]
        /\ "consider" \in PCs
        /\ UNCHANGED <<environment, trail, history>>
    BY <1>3 DEF Alternatives, Goto, PCs, TypeOK
  <2> HIDE DEF c
  <2>4. InHand(q)'
    BY <1>t, <2>1, <2>2, <2>3, OwnCall DEF InHand, HoldsRegistered, Place, Selecting, Selected, Holding, IsRegistered
  <2> QED
    BY <1>t, <2>1, <2>2, <2>3, <2>4, OwnCall, OwnStep
<1>4. CASE AlternativeRefused(q)
  <2> DEFINE c == [call[q] EXCEPT !.at = call[q].at + 1]
  <2>1. /\ c \in Call /\ c.sel = call[q].sel /\ c.final = call[q].final
        /\ c.floor = call[q].floor /\ c.adequate = call[q].adequate /\ c.rest = call[q].rest
    BY <1>t, CallType DEF Call
  <2>2. call' = [call EXCEPT ![q] = c]
    BY <1>4 DEF AlternativeRefused, TypeOK
  <2>3. /\ pc[q] = "consider"
        /\ pc' = [pc EXCEPT ![q] = "consider"]
        /\ "consider" \in PCs
        /\ UNCHANGED <<environment, trail, history>>
    BY <1>4 DEF AlternativeRefused, Goto, PCs, TypeOK
  <2> HIDE DEF c
  <2>4. InHand(q)'
    BY <1>t, <2>1, <2>2, <2>3, OwnCall DEF InHand, HoldsRegistered, Place, Selecting, Selected, Holding, IsRegistered
  <2> QED
    BY <1>t, <2>1, <2>2, <2>3, <2>4, OwnCall, OwnStep
<1>5. CASE AlternativeAllowed(q)
  <2>1. /\ pc[q] = "consider"
        /\ pc' = [pc EXCEPT ![q] = "probeAlternative"]
        /\ "probeAlternative" \in PCs
        /\ UNCHANGED <<environment, call, trail, history>>
        /\ call[q].at < Len(call[q].chain) /\ Alternative(q) # NoTier
    BY <1>5 DEF AlternativeAllowed, Goto, PCs, Errors, Allowed
  <2>2. InHand(q)'
    BY <1>t, <2>1, SameCall DEF InHand, HoldsRegistered, Place, Selecting, Selected, Holding, IsRegistered, Alternative
  <2> QED
    BY <1>t, <2>1, <2>2, SameCall, OwnStep
<1>6. CASE AlternativeLive(q)
  <2> DEFINE c == [call[q] EXCEPT !.final = Alternative(q)]
  <2>0. IsRegistered(Alternative(q)) /\ call[q].sel \in Offered
    BY <1>t, <1>6, CallType DEF InHand, HoldsRegistered, Place, AlternativeLive, Selected
  <2>1. /\ c \in Call /\ c.sel = call[q].sel /\ c.final = Alternative(q)
        /\ c.floor = call[q].floor /\ c.adequate = call[q].adequate /\ c.rest = call[q].rest
    BY <1>t, <2>0 DEF Call, IsRegistered
  <2>2. call' = [call EXCEPT ![q] = c]
    BY <1>6 DEF AlternativeLive, Decide, TypeOK
  <2>3. /\ pc[q] = "probeAlternative"
        /\ pc' = [pc EXCEPT ![q] = "savings"]
        /\ "savings" \in PCs
        /\ UNCHANGED <<environment, trail, history>>
    BY <1>6 DEF AlternativeLive, Decide, Goto, PCs, TypeOK
  <2> HIDE DEF c
  <2>h. HoldsRegistered(q)'
    BY <1>t, <2>0, <2>1, <2>2, <2>3, OwnCall DEF InHand, HoldsRegistered, Place, Holding, IsRegistered
  <2>i. call'[q] = c /\ pc'[q] = "savings"
    BY <2>2, <2>3 DEF TypeOK
  <2>4. InHand(q)'
    BY <1>t, <2>0, <2>1, <2>3, <2>h, <2>i DEF InHand, Place, Selecting, Selected, IsRegistered
  <2> QED
    BY <1>t, <2>1, <2>2, <2>3, <2>4, OwnCall, OwnStep
<1>7. CASE AlternativeDown(q)
  <2> DEFINE c == [call[q] EXCEPT !.at = call[q].at + 1]
  <2>1. /\ c \in Call /\ c.sel = call[q].sel /\ c.final = call[q].final
        /\ c.floor = call[q].floor /\ c.adequate = call[q].adequate /\ c.rest = call[q].rest
    BY <1>t, CallType DEF Call
  <2>2. call' = [call EXCEPT ![q] = c]
    BY <1>7 DEF AlternativeDown, TypeOK
  <2>3. /\ pc[q] = "probeAlternative"
        /\ pc' = [pc EXCEPT ![q] = "consider"]
        /\ "consider" \in PCs
        /\ UNCHANGED <<environment, trail, history>>
    BY <1>7 DEF AlternativeDown, Goto, PCs, TypeOK
  <2> HIDE DEF c
  <2>h. HoldsRegistered(q)'
    BY <1>t, <2>1, <2>2, <2>3, OwnCall DEF InHand, HoldsRegistered, Place, Holding, IsRegistered
  <2>i. call'[q] = c /\ pc'[q] = "consider"
    BY <2>2, <2>3 DEF TypeOK
  <2>4. InHand(q)'
    BY <1>t, <2>1, <2>3, <2>h, <2>i DEF InHand, Place, Selecting, Selected
  <2> QED
    BY <1>t, <2>1, <2>2, <2>3, <2>4, OwnCall, OwnStep
<1>8. CASE NoAlternativeLeft(q)
  <2>1. /\ pc[q] = "consider"
        /\ pc' = [pc EXCEPT ![q] = "ErrNoFloorSafeLiveTier"]
        /\ "ErrNoFloorSafeLiveTier" \in PCs
        /\ UNCHANGED <<environment, call, trail, history>>
    BY <1>8 DEF NoAlternativeLeft, Goto, PCs, Errors
  <2>2. InHand(q)'
    BY <1>t, <2>1, SameCall DEF InHand, HoldsRegistered, Place, Selecting, Selected, Holding, IsRegistered
  <2> QED
    BY <1>t, <2>1, <2>2, SameCall, OwnStep
<1> QED
  BY <1>1, <1>2, <1>3, <1>4, <1>5, <1>6, <1>7, <1>8

LEMMA SinksTyped ==
    ASSUME Typed, NEW q \in Requests,
           RecordEvidence(q) \/ EvidenceFails(q) \/ recordSavings(q) \/ SavingsFail(q)
    PROVE  Typed'
<1> USE RoutingAssumption DEF Typed
<1>t. call[q] \in Call /\ InHand(q) /\ trail[q] \in Trail /\ UNCHANGED <<tiers, call>>
  BY CallType DEF RecordEvidence, EvidenceFails, recordSavings, SavingsFail, Billed,
                  environment, config, TypeOK
<1>1. CASE RecordEvidence(q)
  <2>1. call[q].sel.name \in Names \cup {NoName}
    BY <1>t, <1>1 DEF RecordEvidence, InHand, HoldsRegistered, Place, Selected, Tier
  <2>a. Append(trail[q].evidence, call[q].sel.name) \in Seq(Names \cup {NoName})
    BY <1>t, <2>1 DEF Trail
  <2>b. [trail[q] EXCEPT !.evidence = Append(trail[q].evidence, call[q].sel.name)] \in Trail
    BY <1>t, <2>a DEF Trail
  <2>2. trail' \in [Requests -> Trail]
    BY <1>1, <2>b DEF RecordEvidence, TypeOK
  <2>3. TypeOK'
    BY <1>1, <2>2 DEF RecordEvidence, Goto, PCs, TypeOK, environment, config, history
  <2>4. pc[q] = "evidence" /\ pc'[q] = "probe" /\ \A r \in Requests \ {q} : pc'[r] = pc[r]
    BY <1>1 DEF RecordEvidence, Goto, TypeOK
  <2>5. InHand(q)'
    BY <1>t, <2>4 DEF InHand, HoldsRegistered, Place, Selecting, Selected, Holding, IsRegistered
  <2> QED
    BY <1>t, <2>3, <2>4, <2>5, OwnStep
<1>2. CASE EvidenceFails(q)
  <2>1. /\ pc[q] = "evidence"
        /\ pc' = [pc EXCEPT ![q] = "ErrEvidence"]
        /\ "ErrEvidence" \in PCs
        /\ UNCHANGED <<environment, call, trail, history>>
    BY <1>2 DEF EvidenceFails, Goto, PCs, Errors
  <2>2. InHand(q)'
    BY <1>t, <2>1, SameCall DEF InHand, HoldsRegistered, Place, Selecting, Selected, Holding, IsRegistered
  <2> QED
    BY <1>t, <2>1, <2>2, SameCall, OwnStep
<1>b. ASSUME pc[q] = "savings", Billed(q) PROVE trail' \in [Requests -> Trail]
  <2>1. call[q].final \in Offered /\ Tag(q) \in Names \cup {NoName}
    BY <1>t, <1>b DEF InHand, HoldsRegistered, Place, Tag, Tier
  <2>2. Registered \subseteq Offered
    BY DEF Registered, TypeOK
  <2>3. PICK t \in Registered \cup {NoTier} :
            trail' = [trail EXCEPT ![q].savings =
                          Append(@, [tag |-> Tag(q), baseline |-> t])]
    BY <1>b DEF Billed
  <2> DEFINE line == [tag |-> Tag(q), baseline |-> t]
  <2>4. line \in [tag : Names \cup {NoName}, baseline : Offered \cup {NoTier}]
    BY <2>1, <2>2
  <2>5. trail' = [trail EXCEPT ![q].savings = Append(@, line)]
    BY <2>3
  <2> HIDE DEF line
  <2>6. Append(trail[q].savings, line)
            \in Seq([tag : Names \cup {NoName}, baseline : Offered \cup {NoTier}])
    BY <1>t, <2>4 DEF Trail
  <2>7. [trail[q] EXCEPT !.savings = Append(trail[q].savings, line)] \in Trail
    BY <1>t, <2>6 DEF Trail
  <2> QED
    BY <2>5, <2>7 DEF TypeOK
<1>3. ASSUME recordSavings(q) \/ SavingsFail(q) PROVE Typed'
  <2>1. pc[q] = "savings" /\ UNCHANGED <<environment, call, history>>
    BY <1>3 DEF recordSavings, SavingsFail
  <2>2. Billed(q) \/ trail' = trail
    BY <1>3 DEF recordSavings, SavingsFail
  <2>3. PICK at \in {"decided", "ErrNoBaselineTier", "ErrSavings"} :
            pc' = [pc EXCEPT ![q] = at]
    BY <1>3 DEF recordSavings, SavingsFail, Goto
  <2>4. trail' \in [Requests -> Trail]
    BY <1>b, <2>1, <2>2 DEF TypeOK
  <2>5. TypeOK'
    BY <2>1, <2>3, <2>4 DEF PCs, Errors, TypeOK, environment, config, history
  <2>6. pc'[q] = at /\ \A r \in Requests \ {q} : pc'[r] = pc[r]
    BY <2>3 DEF TypeOK
  <2>7. InHand(q)'
    BY <1>t, <2>1, <2>6 DEF InHand, HoldsRegistered, Place, Selecting, Selected, Holding, IsRegistered
  <2> QED
    BY <1>t, <2>5, <2>6, <2>7, OwnStep
<1> QED
  BY <1>1, <1>2, <1>3

LEMMA StepTyped == Typed /\ [Next]_vars => Typed'
<1> SUFFICES ASSUME Typed, [Next]_vars PROVE Typed'
  OBVIOUS
<1>1. CASE Configure
  BY <1>1, ConfigureTyped
<1>2. ASSUME NEW q \in Requests, Optimize(q) \/ RequestStep(q) \/ Return(q) PROVE Typed'
  BY <1>2, OptimizeTyped, ReturnTyped, SelectTyped, FailoverTyped, SinksTyped DEF RequestStep
<1>3. CASE UNCHANGED vars
  <2>1. TypeOK'
    BY <1>3 DEF Typed, TypeOK, vars, environment, config, history
  <2>2. UNCHANGED <<pc, call, tiers>>
    BY <1>3 DEF vars, environment, config
  <2> QED
    BY <2>1, <2>2, KeepsInHand DEF Typed
<1> QED
  BY <1>1, <1>2, <1>3 DEF Next

LEMMA AlwaysTyped == Spec => []Typed
  BY InitTyped, StepTyped, PTL DEF Spec

(***************************************************************************)
(* Type correctness of the request path.                                   *)
(***************************************************************************)
THEOREM TypeCorrect == Spec => []TypeOK
<1>1. Typed => TypeOK
  BY DEF Typed
<1> QED
  BY <1>1, AlwaysTyped, PTL

-----------------------------------------------------------------------------
(***************************************************************************)
(* The floor.  What makes FloorNeverBypassed inductive: the predicate in   *)
(* force has been in force during every call under way, and a tier that is *)
(* being probed was let through before.                                    *)
(***************************************************************************)
FloorKept(q) ==
    LET c == call[q]
    IN  /\ Active(q) => neverDown \in seen[q]
        /\ c.sel # NoTier /\ c.floor # NoTier => Permitted(q, c.floor, c.sel)
        /\ pc[q] = "probeAlternative" => Permitted(q, c.sel, Alternative(q))
        /\ c.final \notin {NoTier, c.sel} => Permitted(q, c.sel, c.final)

AllFloorsKept == \A q \in Requests : FloorKept(q)

LEMMA InitFloor == Init => AllFloorsKept
  BY DEF Init, AllFloorsKept, FloorKept, NewCall, Active, Permitted

(* A predicate that was in force during the call stays one of these.       *)
LEMMA StillPermitted ==
    ASSUME NEW q \in Requests, call'[q].signal = call[q].signal, seen[q] \subseteq seen'[q],
           NEW s, NEW t, Permitted(q, s, t)
    PROVE  \E fn \in seen'[q] : ~Forbids(fn, s, t, call'[q].signal.loadBearing)
<1>1. PICK fn \in seen[q] : ~Forbids(fn, s, t, call[q].signal.loadBearing)
  BY DEF Permitted
<1> QED
  BY <1>1

LEMMA ConfigureKeeps ==
    ASSUME Typed, AllFloorsKept, UNCHANGED <<pc, call>>,
           \A n \in Names : tiers[n] # NoTier => tiers'[n] = tiers[n],
           \A q \in Requests : /\ seen[q] \subseteq seen'[q]
                               /\ Active(q) => neverDown' \in seen'[q]
    PROVE  AllFloorsKept'
<1> SUFFICES ASSUME NEW q \in Requests PROVE FloorKept(q)'
  BY DEF AllFloorsKept
<1>1. FloorKept(q) /\ Place(q)
  BY DEF AllFloorsKept, Typed, InHand
<1>2. call'[q] = call[q] /\ pc'[q] = pc[q]
  OBVIOUS
<1>3. Active(q)' => neverDown' \in seen'[q]
  BY <1>2 DEF Active
<1>4. \A s, t : Permitted(q, s, t) => Permitted(q, s, t)'
  BY <1>2, StillPermitted DEF Permitted
<1>5. pc[q] = "probeAlternative" => Alternative(q)' = Alternative(q)
  <2>1. pc[q] = "probeAlternative" => call[q].chain[call[q].at + 1] \in Names
    BY <1>1, CallType DEF Place, Typed
  <2> QED
    BY <1>1, <1>2, <2>1 DEF Place, Alternative
<1> QED
  BY <1>1, <1>2, <1>3, <1>4, <1>5 DEF FloorKept

LEMMA ConfigureFloor ==
    ASSUME Typed, AllFloorsKept, Configure
    PROVE  AllFloorsKept'
<1> USE DEF Typed
<1>0. \A q \in Requests : Active(q) => neverDown \in seen[q]
  BY DEF AllFloorsKept, FloorKept
<1>1. ASSUME NEW t \in Offered, RegisterTier(t) PROVE AllFloorsKept'
  <2>1. t.name \in Names
    BY <1>1, RoutingAssumption DEF RegisterTier, Tier
  <2>2. \A n \in Names : tiers[n] # NoTier => tiers'[n] = tiers[n]
    BY <1>1, <2>1 DEF RegisterTier, TypeOK
  <2> QED
    BY <1>0, <1>1, <2>2, ConfigureKeeps DEF RegisterTier, history
<1>2. ASSUME NEW primary \in Names, NEW n \in 1 .. MaxAlternatives,
             NEW alts \in [1 .. n -> Names], RegisterAlternative(primary, alts)
      PROVE  AllFloorsKept'
  BY <1>0, <1>2, ConfigureKeeps DEF RegisterAlternative, history
<1>3. ASSUME NEW fn \in Predicates, SetNeverDowngrade(fn) PROVE AllFloorsKept'
  <2>1. \A q \in Requests : /\ seen[q] \subseteq seen'[q]
                            /\ Active(q) => neverDown' \in seen'[q]
    BY <1>3 DEF SetNeverDowngrade
  <2> QED
    BY <1>3, <2>1, ConfigureKeeps DEF SetNeverDowngrade
<1>4. ASSUME NEW n \in Names, Outage(n) \/ Recovery(n) PROVE AllFloorsKept'
  <2>1. UNCHANGED <<tiers, neverDown, pc, call, seen>>
    BY <1>4 DEF Outage, Recovery, config
  <2> QED
    BY <1>0, <2>1, ConfigureKeeps
<1> QED
  BY <1>1, <1>2, <1>3, <1>4 DEF Configure

(* A step of a request disturbs its own floor only.                        *)
LEMMA OwnFloor ==
    ASSUME AllFloorsKept, UNCHANGED <<tiers, neverDown>>, NEW q \in Requests,
           \A r \in Requests \ {q} : pc'[r] = pc[r] /\ call'[r] = call[r] /\ seen'[r] = seen[r],
           FloorKept(q)'
    PROVE  AllFloorsKept'
<1>1. ASSUME NEW r \in Requests \ {q} PROVE FloorKept(r)'
  BY <1>1 DEF AllFloorsKept, FloorKept, Active, Permitted, Alternative
<1> QED
  BY <1>1 DEF AllFloorsKept

LEMMA OptimizeFloor ==
    ASSUME Typed, AllFloorsKept, NEW q \in Requests, Optimize(q) \/ Return(q)
    PROVE  AllFloorsKept'
<1> USE DEF Typed
<1>1. CASE Optimize(q)
  <2>1. /\ pc'[q] = "select" /\ call'[q] = call[q] /\ seen'[q] = {neverDown}
        /\ UNCHANGED <<tiers, neverDown>>
        /\ \A r \in Requests \ {q} : pc'[r] = pc[r] /\ call'[r] = call[r] /\ seen'[r] = seen[r]
    BY <1>1 DEF Optimize, Goto, TypeOK, environment, config
  <2>2. call[q].sel = NoTier /\ call[q].final = NoTier
    BY <1>1 DEF Optimize, InHand, Place, Selecting
  <2>3. FloorKept(q)'
    BY <2>1, <2>2 DEF FloorKept
  <2> QED
    BY <2>1, <2>3, OwnFloor
<1>2. CASE Return(q)
  <2>1. PICK s \in Signals : call' = [call EXCEPT ![q] = NewCall(s)]
    BY <1>2 DEF Return
  <2>2. /\ pc'[q] = "idle" /\ call'[q] = NewCall(s)
        /\ UNCHANGED <<tiers, neverDown>>
        /\ \A r \in Requests \ {q} : pc'[r] = pc[r] /\ call'[r] = call[r] /\ seen'[r] = seen[r]
    BY <1>2, <2>1 DEF Return, Goto, TypeOK, environment, config
  <2>3. FloorKept(q)'
    BY <2>2 DEF FloorKept, NewCall, Active
  <2> QED
    BY <2>2, <2>3, OwnFloor
<1> QED
  BY <1>1, <1>2

(* The steps that take a tier do so by the predicate in force.             *)
LEMMA RequestFloor ==
    ASSUME Typed, AllFloorsKept, NEW q \in Requests, RequestStep(q)
    PROVE  AllFloorsKept'
<1> USE DEF Typed
<1>0. /\ UNCHANGED <<tiers, neverDown, seen>>
      /\ \A r \in Requests \ {q} : pc'[r] = pc[r] /\ call'[r] = call[r] /\ seen'[r] = seen[r]
  BY DEF RequestStep, SelectRefused, Select, WalkPast, WalkTake, WalkExhausted,
         RecordEvidence, EvidenceFails, SelectedLive, SelectedDown, Alternatives,
         AlternativeRefused, AlternativeAllowed, AlternativeLive, AlternativeDown,
         NoAlternativeLeft, recordSavings, SavingsFail, Billed, Goto, Decide,
         environment, config, history, TypeOK
<1>1. FloorKept(q) /\ Place(q) /\ call[q] \in Call
  BY CallType DEF AllFloorsKept, InHand
<1>2. SUFFICES FloorKept(q)'
  BY <1>0, OwnFloor
<1>3. CASE Select(q) \/ WalkPast(q)
  <2>a. pc[q] \in {"select", "walk"} /\ pc'[q] = "walk"
    BY <1>3 DEF Select, WalkPast, Goto, TypeOK
  <2>b. call'[q].sel = call[q].sel /\ call'[q].final = call[q].final
    <3>1. CASE Select(q)
      <4>1. PICK floor, A : call' = [call EXCEPT ![q].floor = floor, ![q].adequate = A,
                                                 ![q].rest = A]
        BY <3>1 DEF Select
      <4> QED
        BY <1>1, <4>1 DEF TypeOK, Call
    <3>2. CASE WalkPast(q)
      <4>1. PICK t : call' = [call EXCEPT ![q].rest = @ \ {t}]
        BY <3>2 DEF WalkPast
      <4> QED
        BY <1>1, <4>1 DEF TypeOK, Call
    <3> QED
      BY <1>3, <3>1, <3>2
  <2>1. /\ pc[q] \in {"select", "walk"} /\ pc'[q] = "walk"
        /\ call'[q].sel = call[q].sel /\ call'[q].final = call[q].final
    BY <2>a, <2>b
  <2> QED
    BY <1>0, <1>1, <2>1 DEF FloorKept, Place, Selecting, Active, Errors
<1>4. CASE WalkTake(q)
  <2>1. PICK t \in call[q].rest : ~BelowFloor(q, t) /\ call' = [call EXCEPT ![q].sel = t]
    BY <1>4 DEF WalkTake
  <2>2. /\ pc[q] = "walk" /\ pc'[q] = "evidence"
        /\ call'[q].sel = t /\ call'[q].floor = call[q].floor
        /\ call'[q].signal = call[q].signal /\ call'[q].final = call[q].final
    BY <1>1, <1>4, <2>1 DEF WalkTake, Goto, TypeOK, Call
  <2>3. neverDown \in seen[q] /\ call[q].final = NoTier
    BY <1>1, <2>2 DEF FloorKept, Active, Place, Selecting, Errors
  <2>4. call[q].floor # NoTier =>
            \E fn \in seen[q] : ~Forbids(fn, call[q].floor, t, call[q].signal.loadBearing)
    BY <2>1, <2>3 DEF BelowFloor, IsForbiddenDowngrade
  <2> QED
    BY <1>0, <2>2, <2>3, <2>4 DEF FloorKept, Permitted
<1>5. CASE SelectedLive(q)
  <2>1. /\ pc[q] = "probe" /\ pc'[q] = "savings"
        /\ call'[q].sel = call[q].sel /\ call'[q].final = call[q].sel
        /\ call'[q].floor = call[q].floor /\ call'[q].signal = call[q].signal
    BY <1>1, <1>5 DEF SelectedLive, Decide, Goto, TypeOK, Call
  <2> QED
    BY <1>0, <1>1, <2>1 DEF FloorKept, Permitted, Active, Errors
<1>6. CASE Alternatives(q) \/ AlternativeRefused(q) \/ AlternativeDown(q)
  <2>1. /\ pc[q] \in {"alternatives", "consider", "probeAlternative"} /\ pc'[q] = "consider"
        /\ call'[q].sel = call[q].sel /\ call'[q].final = call[q].final
        /\ call'[q].floor = call[q].floor /\ call'[q].signal = call[q].signal
    BY <1>1, <1>6 DEF Alternatives, AlternativeRefused, AlternativeDown, Goto, TypeOK, Call
  <2> QED
    BY <1>0, <1>1, <2>1 DEF FloorKept, Permitted, Active, Errors
<1>7. CASE AlternativeAllowed(q)
  <2>1. /\ pc[q] = "consider" /\ pc'[q] = "probeAlternative" /\ call'[q] = call[q]
        /\ ~Weaker(q)
    BY <1>7 DEF AlternativeAllowed, Allowed, Goto, TypeOK
  <2>2. neverDown \in seen[q]
    BY <1>1, <2>1 DEF FloorKept, Active, Errors
  <2>3. Permitted(q, call[q].sel, Alternative(q))
    BY <2>1, <2>2 DEF Weaker, IsForbiddenDowngrade, Permitted
  <2>4. Alternative(q)' = Alternative(q)
    BY <1>0, <2>1 DEF Alternative
  <2> QED
    BY <1>0, <1>1, <2>1, <2>2, <2>3, <2>4 DEF FloorKept, Permitted
<1>8. CASE AlternativeLive(q)
  <2>1. /\ pc[q] = "probeAlternative" /\ pc'[q] = "savings"
        /\ call'[q].sel = call[q].sel /\ call'[q].final = Alternative(q)
        /\ call'[q].floor = call[q].floor /\ call'[q].signal = call[q].signal
    BY <1>1, <1>8 DEF AlternativeLive, Decide, Goto, TypeOK, Call
  <2> QED
    BY <1>0, <1>1, <2>1 DEF FloorKept, Permitted, Active, Errors
<1>9. CASE \/ SelectRefused(q) \/ WalkExhausted(q) \/ RecordEvidence(q) \/ EvidenceFails(q)
           \/ SelectedDown(q) \/ NoAlternativeLeft(q) \/ recordSavings(q) \/ SavingsFail(q)
  <2>1. /\ call'[q] = call[q]
        /\ pc[q] \in {"select", "walk", "evidence", "probe", "consider", "savings"}
        /\ pc'[q] # "probeAlternative"
    BY <1>9 DEF SelectRefused, WalkExhausted, RecordEvidence, EvidenceFails, SelectedDown,
                NoAlternativeLeft, recordSavings, SavingsFail, Billed, Goto, TypeOK
  <2> QED
    BY <1>0, <1>1, <2>1 DEF FloorKept, Permitted, Active, Errors
<1> QED
  BY <1>3, <1>4, <1>5, <1>6, <1>7, <1>8, <1>9 DEF RequestStep

LEMMA StepFloor == Typed /\ AllFloorsKept /\ [Next]_vars => AllFloorsKept'
<1> SUFFICES ASSUME Typed, AllFloorsKept, [Next]_vars PROVE AllFloorsKept'
  OBVIOUS
<1>1. CASE Configure
  BY <1>1, ConfigureFloor
<1>2. ASSUME NEW q \in Requests, Optimize(q) \/ RequestStep(q) \/ Return(q)
      PROVE  AllFloorsKept'
  BY <1>2, OptimizeFloor, RequestFloor
<1>3. CASE UNCHANGED vars
  <2>1. UNCHANGED <<tiers, neverDown, pc, call, seen>>
    BY <1>3 DEF vars, environment, config, history
  <2> QED
    BY <2>1 DEF AllFloorsKept, FloorKept, Active, Permitted, Alternative
<1> QED
  BY <1>1, <1>2, <1>3 DEF Next

(***************************************************************************)
(* No outage, no failover and no replacement of the predicate takes a      *)
(* request past its floor.                                                 *)
(***************************************************************************)
THEOREM FloorHolds == Spec => []FloorNeverBypassed
<1>1. AllFloorsKept => FloorNeverBypassed
  BY DEF AllFloorsKept, FloorKept, FloorNeverBypassed
<1>2. Spec => []AllFloorsKept
  BY InitFloor, StepFloor, AlwaysTyped, PTL DEF Spec
<1> QED
  BY <1>1, <1>2, PTL

-----------------------------------------------------------------------------
(***************************************************************************)
(* A load-bearing request walks under a floor.                             *)
(***************************************************************************)
HasFloor(q) ==
    LET c == call[q]
    IN  c.signal.loadBearing /\ (pc[q] = "walk" \/ c.sel # NoTier) => c.floor # NoTier

AllHaveFloor == \A q \in Requests : HasFloor(q)

LEMMA InitHasFloor == Init => AllHaveFloor
  BY DEF Init, AllHaveFloor, HasFloor, NewCall

LEMMA resolveFloorRegistered ==
    ASSUME NEW s \in Signal, s.loadBearing, Known(s.floorTier),
           NEW floor \in Registered \cup {NoTier}, resolveFloor(s, floor)
    PROVE  floor # NoTier
  BY DEF resolveFloor, Known, Registered, Strongest

LEMMA StepHasFloor == Typed /\ AllHaveFloor /\ [Next]_vars => AllHaveFloor'
<1> SUFFICES ASSUME Typed, AllHaveFloor, [Next]_vars
             PROVE  \A q \in Requests : HasFloor(q)'
  BY DEF AllHaveFloor
<1> USE DEF Typed, AllHaveFloor
<1>1. ASSUME UNCHANGED <<pc, call>> PROVE \A q \in Requests : HasFloor(q)'
  BY <1>1 DEF HasFloor
<1>2. CASE Configure \/ UNCHANGED vars
  <2>1. UNCHANGED <<pc, call>>
    BY <1>2 DEF Configure, RegisterTier, RegisterAlternative, SetNeverDowngrade, Outage,
                Recovery, vars
  <2> QED
    BY <1>1, <2>1
<1>3. ASSUME NEW q \in Requests, Optimize(q) \/ RequestStep(q) \/ Return(q)
      PROVE  \A r \in Requests : HasFloor(r)'
  <2>1. \A r \in Requests \ {q} : pc'[r] = pc[r] /\ call'[r] = call[r]
    BY <1>3 DEF RequestStep, Optimize, Return, SelectRefused, Select, WalkPast, WalkTake,
           WalkExhausted, RecordEvidence, EvidenceFails, SelectedLive, SelectedDown,
           Alternatives, AlternativeRefused, AlternativeAllowed, AlternativeLive,
           AlternativeDown, NoAlternativeLeft, recordSavings, SavingsFail, Billed, Goto, Decide, TypeOK
  <2>2. SUFFICES HasFloor(q)'
    BY <2>1 DEF HasFloor
  <2>3. HasFloor(q) /\ Place(q) /\ call[q] \in Call
    BY CallType DEF InHand
  <2>4. CASE Select(q)
    <3>1. PICK floor \in Registered \cup {NoTier} :
              /\ resolveFloor(call[q].signal, floor)
              /\ call' = [call EXCEPT ![q].floor = floor,
                                      ![q].adequate = AtLeast(call[q].signal.minTier),
                                      ![q].rest = AtLeast(call[q].signal.minTier)]
      BY <2>4 DEF Select
    <3>2. call'[q].floor = floor /\ call'[q].signal = call[q].signal
      BY <2>3, <3>1 DEF TypeOK, Call
    <3>3. call[q].signal \in Signal /\ Known(call[q].signal.floorTier)
      BY <2>3, <2>4, RoutingAssumption DEF Select, Call
    <3> QED
      BY <3>1, <3>2, <3>3, resolveFloorRegistered DEF HasFloor
  <2>5. CASE WalkTake(q)
    <3>1. PICK t : call' = [call EXCEPT ![q].sel = t]
      BY <2>5 DEF WalkTake
    <3>2. /\ pc[q] = "walk" /\ call'[q].floor = call[q].floor
          /\ call'[q].signal = call[q].signal
      BY <2>3, <2>5, <3>1 DEF WalkTake, TypeOK, Call
    <3> QED
      BY <2>3, <3>2 DEF HasFloor
  <2>6. CASE Return(q)
    <3>1. PICK s \in Signals : call' = [call EXCEPT ![q] = NewCall(s)]
      BY <2>6 DEF Return
    <3>2. call'[q] = NewCall(s) /\ pc'[q] = "idle"
      BY <2>6, <3>1 DEF Return, Goto, TypeOK
    <3> QED
      BY <3>2 DEF HasFloor, NewCall
  <2>7. CASE WalkPast(q)
    <3>1. PICK t : call' = [call EXCEPT ![q].rest = @ \ {t}]
      BY <2>7 DEF WalkPast
    <3>2. /\ pc'[q] = pc[q] /\ call'[q].floor = call[q].floor
          /\ call'[q].sel = call[q].sel /\ call'[q].signal = call[q].signal
      BY <2>3, <2>7, <3>1 DEF WalkPast, TypeOK, Call
    <3> QED
      BY <2>3, <3>2 DEF HasFloor
  <2>8. CASE \/ SelectedLive(q) \/ Alternatives(q) \/ AlternativeRefused(q)
             \/ AlternativeLive(q) \/ AlternativeDown(q)
    <3>1. /\ pc'[q] # "walk" /\ call'[q].floor = call[q].floor
          /\ call'[q].sel = call[q].sel /\ call'[q].signal = call[q].signal
      BY <2>3, <2>8 DEF SelectedLive, Alternatives, AlternativeRefused, AlternativeLive,
                        AlternativeDown, Decide, Goto, TypeOK, Call
    <3> QED
      BY <2>3, <3>1 DEF HasFloor
  <2>9. CASE \/ Optimize(q) \/ SelectRefused(q) \/ WalkExhausted(q) \/ RecordEvidence(q)
             \/ EvidenceFails(q) \/ SelectedDown(q) \/ AlternativeAllowed(q)
             \/ NoAlternativeLeft(q) \/ recordSavings(q) \/ SavingsFail(q)
    <3>1. pc'[q] # "walk" /\ call'[q] = call[q]
      BY <2>9 DEF Optimize, SelectRefused, WalkExhausted, RecordEvidence, EvidenceFails,
                  SelectedDown, AlternativeAllowed, NoAlternativeLeft, recordSavings, Billed,
                  SavingsFail, Goto, TypeOK
    <3> QED
      BY <2>3, <3>1 DEF HasFloor
  <2> QED
    BY <1>3, <2>4, <2>5, <2>6, <2>7, <2>8, <2>9 DEF RequestStep
<1> QED
  BY <1>2, <1>3 DEF Next

(* What a predicate stricter than the default one lets through.            *)
LEMMA PermittedNotCheaper ==
    ASSUME TypeOK, Stricter, NEW q \in Requests, call[q].signal.loadBearing,
           NEW s \in Offered, NEW t \in Offered, Permitted(q, s, t)
    PROVE  CombinedPrice(t) >= CombinedPrice(s)
<1>0. call[q].signal.loadBearing = TRUE
  BY RoutingAssumption DEF TypeOK, Call, Signal
<1>1. PICK fn \in Predicates : ~Forbids(fn, s, t, TRUE)
  BY <1>0 DEF Permitted, TypeOK
<1>2. ~DefaultNeverDowngrade(s, t, TRUE)
  BY <1>1 DEF Forbids, Stricter, Predicates
<1>3. CombinedPrice(s) \in Int /\ CombinedPrice(t) \in Int
  BY RoutingAssumption DEF Tier, CombinedPrice
<1> QED
  BY <1>2, <1>3 DEF DefaultNeverDowngrade

(***************************************************************************)
(* Under the default predicate, and any that forbid what it forbids, a     *)
(* load-bearing request never ends at a tier cheaper than its floor.       *)
(***************************************************************************)
THEOREM NeverCheaperThanFloor == Spec => []LoadBearingNotCheaper
<1>1. ASSUME Typed, AllFloorsKept, AllHaveFloor PROVE LoadBearingNotCheaper
  <2> SUFFICES ASSUME Stricter, NEW q \in Requests, call[q].signal.loadBearing,
                      call[q].final # NoTier
               PROVE  CombinedPrice(call[q].final) >= CombinedPrice(call[q].floor)
    BY DEF LoadBearingNotCheaper
  <2> DEFINE c == call[q]
  <2>1. c.sel # NoTier /\ c.floor # NoTier
    BY <1>1 DEF Typed, InHand, Place, AllHaveFloor, HasFloor
  <2>2. c.sel \in Offered /\ c.floor \in Offered /\ c.final \in Offered
    BY <1>1, <2>1, CallType DEF Typed, Call
  <2>3. CombinedPrice(c.sel) >= CombinedPrice(c.floor)
    BY <1>1, <2>1, <2>2, PermittedNotCheaper DEF Typed, AllFloorsKept, FloorKept
  <2>4. CombinedPrice(c.final) >= CombinedPrice(c.sel)
    <3>1. CASE c.final = c.sel
      BY <2>2, <3>1, RoutingAssumption DEF CombinedPrice, Tier
    <3>2. CASE c.final # c.sel
      BY <1>1, <2>2, <3>2, PermittedNotCheaper DEF Typed, AllFloorsKept, FloorKept
    <3> QED
      BY <3>1, <3>2
  <2>5. /\ CombinedPrice(c.sel) \in Int /\ CombinedPrice(c.floor) \in Int
        /\ CombinedPrice(c.final) \in Int
    BY <2>2, RoutingAssumption DEF CombinedPrice, Tier
  <2> QED
    BY <2>3, <2>4, <2>5
<1>2. Spec => []AllFloorsKept
  BY InitFloor, StepFloor, AlwaysTyped, PTL DEF Spec
<1>3. Spec => []AllHaveFloor
  BY InitHasFloor, StepHasFloor, AlwaysTyped, PTL DEF Spec
<1> QED
  BY <1>1, <1>2, <1>3, AlwaysTyped, PTL

-----------------------------------------------------------------------------
(* What RegisterAlternative appends is free of duplicates, and new.        *)
LEMMA FreshIsNew ==
    ASSUME NEW n \in Nat, NEW added \in [1 .. n -> Names],
           NEW old \in Seq(Names), NEW alts \in Seq(Names), Fresh(added, old, alts)
    PROVE  /\ \A i \in 1 .. n : /\ \E j \in 1 .. Len(alts) : added[i] = alts[j]
                                /\ \A j \in 1 .. Len(old) : added[i] # old[j]
           /\ \A i, j \in 1 .. n : i # j => added[i] # added[j]
<1>1. added \in Seq(Names) /\ Len(added) = n
  OBVIOUS
<1>2. ASSUME NEW i \in 1 .. n
      PROVE  /\ \E j \in 1 .. Len(alts) : added[i] = alts[j]
             /\ \A j \in 1 .. Len(old) : added[i] # old[j]
  <2>1. added[i] \in ElementsOf(added)
    BY <1>1, Zenon DEF ElementsOf
  <2>2. added[i] \in ElementsOf(alts) /\ added[i] \notin ElementsOf(old)
    BY <2>1, Zenon DEF Fresh
  <2> QED
    BY <2>2, Zenon DEF ElementsOf
<1>3. ASSUME NEW i \in 1 .. n, NEW j \in 1 .. n, i < j PROVE added[i] # added[j]
  <2>1. PICK p \in 1 .. Len(alts) :
            alts[p] = added[i] /\ \A r \in 1 .. p : alts[r] # added[j]
    BY <1>1, <1>3, Zenon DEF Fresh
  <2>2. p \in 1 .. p
    BY <2>1
  <2> QED
    BY <2>1, <2>2
<1>4. ASSUME NEW i \in 1 .. n, NEW j \in 1 .. n, i # j PROVE added[i] # added[j]
  <2>1. i < j \/ j < i
    BY <1>4
  <2> QED
    BY <1>3, <2>1
<1> QED
  BY <1>2, <1>4

LEMMA StepAlternatives ==
    Typed /\ AlternativesSound /\ [Next]_vars => AlternativesSound'
<1> SUFFICES ASSUME Typed, AlternativesSound, [Next]_vars PROVE AlternativesSound'
  OBVIOUS
<1> USE DEF Typed
<1>a. ASSUME NEW n \in Names
      PROVE  alternatives[n] \in Seq(Names) /\ Len(alternatives[n]) \in Nat
  BY DEF TypeOK
<1>b. ASSUME NEW n \in Names, NEW i \in 1 .. Len(alternatives[n])
      PROVE  alternatives[n][i] \in Names
  BY <1>a
<1>1. ASSUME NEW t \in Offered, RegisterTier(t) PROVE AlternativesSound'
  <2>1. t.name \in Names /\ t # NoTier
    BY <1>1, RoutingAssumption DEF RegisterTier, Tier
  <2>2. \A n \in Names : tiers[n] # NoTier => tiers'[n] # NoTier
    BY <1>1, <2>1 DEF RegisterTier, TypeOK
  <2>3. UNCHANGED alternatives
    BY <1>1 DEF RegisterTier
  <2> QED
    BY <1>b, <2>2, <2>3 DEF AlternativesSound
<1>2. ASSUME NEW primary \in Names, NEW k \in 1 .. MaxAlternatives,
             NEW alts \in [1 .. k -> Names], RegisterAlternative(primary, alts)
      PROVE  AlternativesSound'
  <2> DEFINE old == alternatives[primary]
  <2>k. k \in Nat /\ alts \in Seq(Names)
    BY RoutingAssumption
  <2>1. PICK n \in 0 .. Len(alts) : \E added \in [1 .. n -> Names] :
            /\ Fresh(added, old, alts)
            /\ alternatives' = [alternatives EXCEPT ![primary] = @ \o added]
    BY <1>2 DEF RegisterAlternative
  <2>2. PICK added \in [1 .. n -> Names] :
            /\ Fresh(added, old, alts)
            /\ alternatives' = [alternatives EXCEPT ![primary] = @ \o added]
    BY <2>1
  <2>3. n \in Nat /\ old \in Seq(Names)
    BY <1>a, <2>1, <2>k
  <2>4. /\ \A i \in 1 .. n : /\ \E j \in 1 .. Len(alts) : added[i] = alts[j]
                             /\ \A j \in 1 .. Len(old) : added[i] # old[j]
        /\ \A i, j \in 1 .. n : i # j => added[i] # added[j]
    BY <2>2, <2>3, <2>k, FreshIsNew
  <2>5. UNCHANGED tiers /\ \A j \in 1 .. Len(alts) : alts[j] # primary /\ tiers[alts[j]] # NoTier
    BY <1>2 DEF RegisterAlternative
  <2>6. \A i \in 1 .. n : added[i] # primary /\ tiers[added[i]] # NoTier
    BY <2>4, <2>5
  <2>7. /\ alternatives'[primary] = old \o added
        /\ \A m \in Names \ {primary} : alternatives'[m] = alternatives[m]
    BY <2>2 DEF TypeOK
  <2>8. /\ added \in Seq(Names) /\ Len(old \o added) = Len(old) + n
        /\ \A i \in 1 .. Len(old) : (old \o added)[i] = old[i]
        /\ \A i \in 1 .. Len(old) + n : i > Len(old) =>
              i - Len(old) \in 1 .. n /\ (old \o added)[i] = added[i - Len(old)]
    BY <2>3
  <2>9. /\ \A i \in 1 .. Len(old) : old[i] # primary /\ tiers[old[i]] # NoTier
        /\ \A i, j \in 1 .. Len(old) : i # j => old[i] # old[j]
    BY DEF AlternativesSound
  <2>10. ASSUME NEW i \in 1 .. Len(old) + n, NEW j \in 1 .. Len(old) + n
         PROVE  /\ (old \o added)[i] # primary
                /\ tiers[(old \o added)[i]] # NoTier
                /\ i # j => (old \o added)[i] # (old \o added)[j]
    <3> DEFINE L == Len(old)  s == old \o added
    <3>1. L \in Nat /\ i \in Nat /\ j \in Nat
      BY <2>3
    <3>2. \A l \in 1 .. L : s[l] = old[l]
      BY <2>8
    <3>3. \A l \in 1 .. L + n : l > L => l - L \in 1 .. n /\ s[l] = added[l - L]
      BY <2>8
    <3> HIDE DEF s, L
    <3>4. CASE i <= L /\ j <= L
      BY <3>1, <3>2, <3>4, <2>9 DEF L, s
    <3>5. CASE i <= L /\ j > L
      BY <3>1, <3>2, <3>3, <3>5, <2>9, <2>4 DEF L, s
    <3>6. CASE i > L /\ j <= L
      BY <3>1, <3>2, <3>3, <3>6, <2>6, <2>4 DEF L, s
    <3>7. CASE i > L /\ j > L
      <4>1. i # j => i - L # j - L
        BY <3>1
      <4>2. i - L \in 1 .. n /\ s[i] = added[i - L] /\ j - L \in 1 .. n /\ s[j] = added[j - L]
        BY <3>3, <3>7, <3>1 DEF L
      <4>3. added[i - L] # primary /\ tiers[added[i - L]] # NoTier
        BY <4>2, <2>6
      <4>4. i # j => added[i - L] # added[j - L]
        BY <4>1, <4>2, <2>4
      <4> QED
        BY <4>2, <4>3, <4>4, Zenon DEF s
    <3> QED
      BY <3>1, <3>4, <3>5, <3>6, <3>7
  <2>11. ASSUME NEW m \in Names, NEW i \in 1 .. Len(alternatives'[m]),
                NEW j \in 1 .. Len(alternatives'[m])
         PROVE  /\ alternatives'[m][i] # m /\ tiers'[alternatives'[m][i]] # NoTier
                /\ i # j => alternatives'[m][i] # alternatives'[m][j]
    <3>1. CASE m = primary
      BY <3>1, <2>5, <2>7, <2>8, <2>10
    <3>2. CASE m # primary
      BY <3>2, <2>5, <2>7 DEF AlternativesSound
    <3> QED
      BY <3>1, <3>2
  <2> QED
    BY <2>11 DEF AlternativesSound
<1>3. CASE UNCHANGED <<tiers, alternatives>>
  BY <1>3 DEF AlternativesSound
<1>4. CASE \/ \E fn \in Predicates : SetNeverDowngrade(fn)
           \/ \E n \in Names : Outage(n) \/ Recovery(n)
  BY <1>3, <1>4 DEF SetNeverDowngrade, Outage, Recovery, config
<1>5. CASE (\E q \in Requests : Optimize(q) \/ RequestStep(q) \/ Return(q)) \/ UNCHANGED vars
  <2>1. UNCHANGED environment
    BY <1>5 DEF vars, RequestStep, Optimize, Return, SelectRefused, Select, WalkPast, WalkTake,
           WalkExhausted, RecordEvidence, EvidenceFails, SelectedLive, SelectedDown,
           Alternatives, AlternativeRefused, AlternativeAllowed, AlternativeLive,
           AlternativeDown, NoAlternativeLeft, recordSavings, SavingsFail
  <2> QED
    BY <1>3, <2>1 DEF environment, config
<1> QED
  BY <1>1, <1>2, <1>4, <1>5 DEF Next, Configure

(***************************************************************************)
(* However often RegisterAlternative is called and whatever its lists      *)
(* repeat, the alternatives of a tier are registered tiers other than      *)
(* itself, each named once.                                                *)
(***************************************************************************)
THEOREM AlternativesAreSound == Spec => []AlternativesSound
<1>1. Init => AlternativesSound
  BY DEF Init, AlternativesSound
<1> QED
  BY <1>1, StepAlternatives, AlwaysTyped, PTL DEF Spec

-----------------------------------------------------------------------------
(***************************************************************************)
(* The way of a request, remembered.  Watching: while it is under way the  *)
(* histories bound what is live and in force now.  Walked: what the walk   *)
(* left behind was refused, and what it took is the cheapest of the rest.  *)
(* Passed: the selected tier was down, and every alternative behind was    *)
(* down or refused.  Billing: the two lines, by where the request is.      *)
(***************************************************************************)
Watching(q) ==
    Active(q) => steady[q] \subseteq up /\ up \subseteq ever[q] /\ neverDown \in seen[q]

Walked(q) ==
    LET c == call[q]
    IN  /\ pc[q] \in {"idle", "select"} => c.adequate = {}
        /\ c.rest \subseteq c.adequate
        /\ \A t \in c.adequate \ c.rest : c.floor # NoTier /\ Refused(q, c.floor, t)
        /\ c.signal.minTier # NoName => \A t \in c.adequate :
              tiers[c.signal.minTier] # NoTier /\ ~Before(t, tiers[c.signal.minTier])
        /\ c.sel # NoTier => Cheapest(c.sel, c.rest)

BeforeFailover == Selecting \cup {"evidence", "probe", "alternatives"}

FailingOver == {"alternatives", "consider", "probeAlternative", "ErrNoFloorSafeLiveTier"}

Passed(q) ==
    LET c == call[q]
    IN  /\ pc[q] \in BeforeFailover => c.at = 0
        /\ pc[q] \in FailingOver => c.sel.name \notin steady[q]
        /\ c.final \notin {NoTier, c.sel} => c.sel.name \notin steady[q]
        /\ c.at <= Len(c.chain)
        /\ \A i \in 1 .. Len(c.chain) : tiers[c.chain[i]] # NoTier
        /\ \A i \in 1 .. c.at : c.chain[i] \notin steady[q] \/ Refused(q, c.sel, tiers[c.chain[i]])
        /\ c.final # NoTier => c.final.name \in ever[q]
        /\ pc[q] = "ErrNoFloorSafeLiveTier" => c.at = Len(c.chain)

Unrecorded == {"idle", "select", "walk", "evidence"}

Billing(q) ==
    LET c == call[q]
        w == trail[q]
    IN  /\ pc[q] \in Unrecorded => w.evidence = <<>>
        /\ pc[q] \in Selected \ {"evidence"} /\ "evidence" \in Sinks => w.evidence = <<c.sel.name>>
        /\ pc[q] \notin {"decided", "ErrSavings"} => w.savings = <<>>
        /\ Len(w.savings) <= 1
        /\ pc[q] = "decided" /\ "savings" \in Sinks =>
              Len(w.savings) = 1 /\ w.savings[1].tag = c.final.name
        /\ pc[q] # "ErrNoBaselineTier"
        /\ \A i \in 1 .. Len(w.savings) : w.savings[i].baseline # NoTier =>
              \A t \in {c.final, c.floor} \ {NoTier} : ~Before(w.savings[i].baseline, t)

Path(q) == Watching(q) /\ Walked(q) /\ Passed(q) /\ Billing(q)

AllPaths == \A q \in Requests : Path(q)

LEMMA InitPaths == Init => AllPaths
<1> SUFFICES ASSUME Init, NEW q \in Requests PROVE Path(q)
  BY DEF AllPaths
<1>1. /\ pc[q] = "idle" /\ trail[q] = NoTrail
      /\ \E s \in Signals : call[q] = NewCall(s)
  BY DEF Init
<1>2. /\ call[q].adequate = {} /\ call[q].rest = {} /\ call[q].floor = NoTier
      /\ call[q].sel = NoTier /\ call[q].chain = <<>> /\ call[q].at = 0
      /\ call[q].final = NoTier
      /\ trail[q].evidence = <<>> /\ trail[q].savings = <<>>
  BY <1>1 DEF NewCall, NoTrail
<1>3. Watching(q)
  BY <1>1 DEF Watching, Active
<1>4. Walked(q)
  BY <1>1, <1>2 DEF Walked
<1>5. Passed(q)
  BY <1>1, <1>2 DEF Passed, FailingOver
<1>6. Billing(q)
  BY <1>1, <1>2 DEF Billing, Selected
<1> QED
  BY <1>3, <1>4, <1>5, <1>6 DEF Path

(* What changes outside a request only lengthens its memory.               *)
LEMMA OutsidePath ==
    ASSUME Typed, UNCHANGED <<pc, call, trail>>,
           \A n \in Names : tiers[n] # NoTier => tiers'[n] = tiers[n],
           NEW q \in Requests, Path(q), Watching(q)',
           seen[q] \subseteq seen'[q], ever[q] \subseteq ever'[q], steady'[q] \subseteq steady[q]
    PROVE  Path(q)'
<1> USE DEF Path
<1>1. ASSUME NEW s, NEW t, Refused(q, s, t) PROVE Refused(q, s, t)'
  BY <1>1 DEF Refused
<1>2. call[q] \in Call /\ call[q].signal \in Signal
  BY CallType, RoutingAssumption DEF Typed, Call
<1>3. Walked(q)'
  <2>1. \A t \in call[q].adequate \ call[q].rest :
            call[q].floor # NoTier /\ Refused(q, call[q].floor, t)'
    BY <1>1 DEF Walked
  <2>2. call[q].signal.minTier # NoName => call[q].signal.minTier \in Names
    BY <1>2 DEF Signal
  <2>3. call[q].signal.minTier # NoName => \A t \in call[q].adequate :
            tiers'[call[q].signal.minTier] # NoTier /\ ~Before(t, tiers'[call[q].signal.minTier])
    BY <2>2 DEF Walked
  <2> QED
    BY <2>1, <2>3 DEF Walked, Refused
<1>4. Passed(q)'
  <2>1. call[q].chain \in Seq(Names) /\ call[q].at \in Nat /\ call[q].at <= Len(call[q].chain)
    BY CallType DEF Typed, Passed
  <2>2. \A i \in 1 .. Len(call[q].chain) : call[q].chain[i] \in Names /\ tiers[call[q].chain[i]] # NoTier
    BY <2>1 DEF Passed
  <2>3. \A i \in 1 .. Len(call[q].chain) : tiers'[call[q].chain[i]] = tiers[call[q].chain[i]]
    BY <2>2
  <2>4. \A i \in 1 .. call[q].at : i \in 1 .. Len(call[q].chain)
    BY <2>1
  <2>5. ASSUME NEW i \in 1 .. call[q].at
        PROVE  (\/ call[q].chain[i] \notin steady[q]
                \/ Refused(q, call[q].sel, tiers[call[q].chain[i]]))'
    <3>1. \/ call[q].chain[i] \notin steady[q]
          \/ Refused(q, call[q].sel, tiers[call[q].chain[i]])
      BY DEF Passed
    <3>2. tiers'[call[q].chain[i]] = tiers[call[q].chain[i]]
      BY <2>3, <2>4
    <3>3. CASE Refused(q, call[q].sel, tiers[call[q].chain[i]])
      <4>1. PICK fn \in seen[q] : Forbids(fn, call[q].sel, tiers[call[q].chain[i]], call[q].signal.loadBearing)
        BY <3>3 DEF Refused
      <4> QED
        BY <4>1, <3>2 DEF Refused
    <3> QED
      BY <3>1, <3>3
  <2> QED
    BY <2>2, <2>3, <2>5 DEF Passed
<1>5. Billing(q)'
  BY DEF Billing
<1> QED
  BY <1>3, <1>4, <1>5

LEMMA ConfigurePaths ==
    ASSUME Typed, AllPaths, Configure
    PROVE  AllPaths'
<1> USE DEF Typed
<1>1. UNCHANGED <<pc, call, trail>>
  BY DEF Configure, RegisterTier, RegisterAlternative, SetNeverDowngrade, Outage, Recovery
<1>2. \A n \in Names : tiers[n] # NoTier => tiers'[n] = tiers[n]
  BY DEF Configure, RegisterTier, RegisterAlternative, SetNeverDowngrade, Outage, Recovery,
         TypeOK, config
<1>3. SUFFICES ASSUME NEW q \in Requests
               PROVE  /\ Watching(q)' /\ seen[q] \subseteq seen'[q]
                      /\ ever[q] \subseteq ever'[q] /\ steady'[q] \subseteq steady[q]
  BY <1>1, <1>2, OutsidePath DEF AllPaths
<1>4. Watching(q) /\ (Active(q)' <=> Active(q))
  BY <1>1 DEF AllPaths, Path, Active
<1>5. CASE \/ \E t \in Offered : RegisterTier(t)
           \/ \E primary \in Names, n \in 1 .. MaxAlternatives :
                 \E alts \in [1 .. n -> Names] : RegisterAlternative(primary, alts)
  BY <1>4, <1>5 DEF RegisterTier, RegisterAlternative, history, Watching
<1>6. ASSUME NEW fn \in Predicates, SetNeverDowngrade(fn)
      PROVE  /\ Watching(q)' /\ seen[q] \subseteq seen'[q]
             /\ ever[q] \subseteq ever'[q] /\ steady'[q] \subseteq steady[q]
  <2>1. /\ UNCHANGED <<up, ever, steady>> /\ neverDown' = fn
        /\ seen'[q] = IF Active(q) THEN seen[q] \cup {fn} ELSE seen[q]
    BY <1>6 DEF SetNeverDowngrade, TypeOK
  <2> QED
    BY <1>4, <2>1 DEF Watching
<1>7. ASSUME NEW n \in Names, Outage(n) \/ Recovery(n)
      PROVE  /\ Watching(q)' /\ seen[q] \subseteq seen'[q]
             /\ ever[q] \subseteq ever'[q] /\ steady'[q] \subseteq steady[q]
  <2>1. CASE Outage(n)
    <3>1. /\ UNCHANGED <<neverDown, seen, ever>> /\ up' = up \ {n}
          /\ steady'[q] = IF Active(q) THEN steady[q] \ {n} ELSE steady[q]
      BY <2>1 DEF Outage, TypeOK, config
    <3> QED
      BY <1>4, <3>1 DEF Watching
  <2>2. CASE Recovery(n)
    <3>1. /\ UNCHANGED <<neverDown, seen, steady>> /\ up' = up \cup {n}
          /\ ever'[q] = IF Active(q) THEN ever[q] \cup {n} ELSE ever[q]
      BY <2>2 DEF Recovery, TypeOK, config
    <3> QED
      BY <1>4, <3>1 DEF Watching
  <2> QED
    BY <1>7, <2>1, <2>2
<1> QED
  BY <1>5, <1>6, <1>7 DEF Configure

(* A step of one request is no concern of another.                         *)
LEMMA OtherPath ==
    ASSUME Typed, NEW r \in Requests, Path(r), UNCHANGED environment,
           pc'[r] = pc[r], call'[r] = call[r], trail'[r] = trail[r],
           seen'[r] = seen[r], ever'[r] = ever[r], steady'[r] = steady[r]
    PROVE  Path(r)'
<1>0. UNCHANGED <<tiers, neverDown, up>>
  BY DEF environment, config
<1>1. Watching(r)'
  BY <1>0 DEF Path, Watching, Active
<1>2. Walked(r)'
  BY <1>0 DEF Path, Walked, Refused
<1>3. Passed(r)'
  BY <1>0 DEF Path, Passed, Refused
<1>4. Billing(r)'
  BY <1>0 DEF Path, Billing
<1> QED
  BY <1>1, <1>2, <1>3, <1>4 DEF Path

LEMMA OptimizePaths ==
    ASSUME Typed, AllPaths, NEW q \in Requests, Optimize(q)
    PROVE  AllPaths'
<1> USE DEF Typed
<1>1. /\ pc[q] = "idle" /\ pc'[q] = "select" /\ UNCHANGED <<environment, call, trail>>
      /\ seen'[q] = {neverDown} /\ ever'[q] = up /\ steady'[q] = up
      /\ \A r \in Requests \ {q} : /\ pc'[r] = pc[r] /\ seen'[r] = seen[r]
                                   /\ ever'[r] = ever[r] /\ steady'[r] = steady[r]
  BY DEF Optimize, Goto, TypeOK
<1>2. SUFFICES Path(q)'
  BY <1>1, OtherPath DEF AllPaths
<1>3. UNCHANGED <<tiers, neverDown, up>>
  BY <1>1 DEF environment, config
<1>4. /\ Walked(q) /\ Passed(q) /\ Billing(q)
      /\ call[q].sel = NoTier /\ call[q].final = NoTier /\ call[q].at = 0
      /\ call[q].adequate = {}
  BY <1>1 DEF AllPaths, Path, InHand, Place, Selecting, Passed, Walked, BeforeFailover
<1>5. Watching(q)'
  BY <1>1, <1>3 DEF Watching
<1>6. Walked(q)'
  BY <1>1, <1>3, <1>4 DEF Walked
<1>7. Passed(q)'
  BY <1>1, <1>3, <1>4 DEF Passed, FailingOver
<1>8. Billing(q)'
  BY <1>1, <1>4 DEF Billing, Unrecorded, Selected
<1> QED
  BY <1>5, <1>6, <1>7, <1>8 DEF Path

LEMMA ReturnPaths ==
    ASSUME Typed, AllPaths, NEW q \in Requests, Return(q)
    PROVE  AllPaths'
<1> USE DEF Typed
<1>1. PICK s \in Signals : call' = [call EXCEPT ![q] = NewCall(s)]
  BY DEF Return
<1>2. /\ pc'[q] = "idle" /\ UNCHANGED environment
      /\ call'[q] = NewCall(s) /\ trail'[q] = NoTrail
      /\ \A r \in Requests \ {q} : /\ pc'[r] = pc[r] /\ call'[r] = call[r]
                                   /\ trail'[r] = trail[r] /\ seen'[r] = seen[r]
                                   /\ ever'[r] = ever[r] /\ steady'[r] = steady[r]
  BY <1>1 DEF Return, Goto, TypeOK
<1>3. SUFFICES Path(q)'
  BY <1>2, OtherPath DEF AllPaths
<1>4. /\ call'[q].adequate = {} /\ call'[q].rest = {} /\ call'[q].floor = NoTier
      /\ call'[q].sel = NoTier /\ call'[q].chain = <<>> /\ call'[q].at = 0
      /\ call'[q].final = NoTier
      /\ trail'[q].evidence = <<>> /\ trail'[q].savings = <<>>
  BY <1>2 DEF NewCall, NoTrail
<1>5. Watching(q)'
  BY <1>2 DEF Watching, Active
<1>6. Walked(q)'
  BY <1>2, <1>4 DEF Walked
<1>7. Passed(q)'
  BY <1>2, <1>4 DEF Passed, FailingOver
<1>8. Billing(q)'
  BY <1>2, <1>4 DEF Billing, Selected
<1> QED
  BY <1>5, <1>6, <1>7, <1>8 DEF Path

(* What a step of a request leaves alone.                                  *)
LEMMA OthersAlone ==
    ASSUME TypeOK, NEW q \in Requests, RequestStep(q)
    PROVE  /\ UNCHANGED <<environment, history>>
           /\ \A r \in Requests \ {q} : pc'[r] = pc[r] /\ call'[r] = call[r] /\ trail'[r] = trail[r]
<1>1. UNCHANGED <<environment, history>>
  BY DEF RequestStep, SelectRefused, Select, WalkPast, WalkTake, WalkExhausted,
         RecordEvidence, EvidenceFails, SelectedLive, SelectedDown, Alternatives,
         AlternativeRefused, AlternativeAllowed, AlternativeLive, AlternativeDown,
         NoAlternativeLeft, recordSavings, SavingsFail
<1>2. \A r \in Requests \ {q} : pc'[r] = pc[r] /\ call'[r] = call[r]
  BY DEF RequestStep, SelectRefused, Select, WalkPast, WalkTake, WalkExhausted,
         RecordEvidence, EvidenceFails, SelectedLive, SelectedDown, Alternatives,
         AlternativeRefused, AlternativeAllowed, AlternativeLive, AlternativeDown,
         NoAlternativeLeft, recordSavings, SavingsFail, Goto, Decide, TypeOK
<1>3. \A r \in Requests \ {q} : trail'[r] = trail[r]
  BY DEF RequestStep, SelectRefused, Select, WalkPast, WalkTake, WalkExhausted,
         RecordEvidence, EvidenceFails, SelectedLive, SelectedDown, Alternatives,
         AlternativeRefused, AlternativeAllowed, AlternativeLive, AlternativeDown,
         NoAlternativeLeft, recordSavings, SavingsFail, Billed, TypeOK
<1> QED
  BY <1>1, <1>2, <1>3

LEMMA StepMoves ==
    ASSUME TypeOK, NEW q \in Requests, RequestStep(q)
    PROVE  Active(q) /\ pc'[q] \notin {"idle", "select"}
<1>1. pc \in [Requests -> PCs]
  BY DEF TypeOK
<1>2. CASE SelectRefused(q) \/ Select(q) \/ WalkPast(q) \/ WalkTake(q) \/ WalkExhausted(q)
  BY <1>1, <1>2 DEF SelectRefused, Select, WalkPast, WalkTake, WalkExhausted, Goto, Active, Errors
<1>3. CASE RecordEvidence(q) \/ EvidenceFails(q) \/ SelectedLive(q) \/ SelectedDown(q)
           \/ Alternatives(q) \/ AlternativeRefused(q)
  BY <1>1, <1>3 DEF RecordEvidence, EvidenceFails, SelectedLive, SelectedDown, Alternatives,
                    AlternativeRefused, Decide, Goto, Active, Errors
<1>4. CASE AlternativeAllowed(q) \/ AlternativeLive(q) \/ AlternativeDown(q)
           \/ NoAlternativeLeft(q) \/ recordSavings(q) \/ SavingsFail(q)
  BY <1>1, <1>4 DEF AlternativeAllowed, AlternativeLive, AlternativeDown, NoAlternativeLeft,
                    recordSavings, SavingsFail, Decide, Goto, Active, Errors
<1> QED
  BY <1>2, <1>3, <1>4 DEF RequestStep

FailsOver(q) ==
    \/ SelectedLive(q) \/ AlternativeLive(q) \/ Alternatives(q)
    \/ AlternativeRefused(q) \/ AlternativeDown(q)

(* The steps that change the locals of a request, field by field.          *)
LEMMA Locals ==
    ASSUME TypeOK, NEW q \in Requests
    PROVE  LET c == call[q]
               d == call'[q]
           IN  /\ Select(q) \/ WalkPast(q) \/ WalkTake(q) =>
                     /\ d.signal = c.signal /\ d.chain = c.chain /\ d.at = c.at
                     /\ d.final = c.final
               /\ WalkPast(q) \/ WalkTake(q) => d.adequate = c.adequate /\ d.floor = c.floor
               /\ WalkTake(q) => d.rest = c.rest
               /\ Select(q) \/ WalkPast(q) => d.sel = c.sel
               /\ FailsOver(q) =>
                     /\ d.signal = c.signal /\ d.adequate = c.adequate /\ d.rest = c.rest
                     /\ d.floor = c.floor /\ d.sel = c.sel
               /\ SelectedLive(q) \/ AlternativeLive(q) => d.chain = c.chain /\ d.at = c.at
               /\ SelectedLive(q) => d.final = c.sel
               /\ AlternativeLive(q) => d.final = Alternative(q)
               /\ Alternatives(q) => /\ d.chain = alternatives[c.sel.name]
                                     /\ d.at = c.at /\ d.final = c.final
               /\ AlternativeRefused(q) \/ AlternativeDown(q) =>
                     d.chain = c.chain /\ d.at = c.at + 1 /\ d.final = c.final
<1>1. call[q] \in Call /\ call \in [Requests -> Call]
  BY DEF TypeOK
<1>2. ASSUME Select(q)
      PROVE  \E floor, A : call'[q] = [call[q] EXCEPT !.floor = floor, !.adequate = A, !.rest = A]
  <2>1. PICK floor, A : call' = [call EXCEPT ![q].floor = floor, ![q].adequate = A, ![q].rest = A]
    BY <1>2 DEF Select
  <2> QED
    BY <1>1, <2>1
<1>3. ASSUME WalkPast(q) PROVE \E R : call'[q] = [call[q] EXCEPT !.rest = R]
  BY <1>1, <1>3 DEF WalkPast
<1>4. ASSUME WalkTake(q) PROVE \E t : call'[q] = [call[q] EXCEPT !.sel = t]
  BY <1>1, <1>4 DEF WalkTake
<1>5. SelectedLive(q) => call'[q] = [call[q] EXCEPT !.final = call[q].sel]
  BY <1>1 DEF SelectedLive, Decide
<1>6. AlternativeLive(q) => call'[q] = [call[q] EXCEPT !.final = Alternative(q)]
  BY <1>1 DEF AlternativeLive, Decide
<1>7. Alternatives(q) => call'[q] = [call[q] EXCEPT !.chain = alternatives[call[q].sel.name]]
  BY <1>1 DEF Alternatives
<1>8. AlternativeRefused(q) \/ AlternativeDown(q) =>
          call'[q] = [call[q] EXCEPT !.at = call[q].at + 1]
  BY <1>1 DEF AlternativeRefused, AlternativeDown
<1> HIDE DEF TypeOK
<1>a. /\ Select(q) \/ WalkPast(q) \/ WalkTake(q) =>
            /\ call'[q].signal = call[q].signal /\ call'[q].chain = call[q].chain
            /\ call'[q].at = call[q].at /\ call'[q].final = call[q].final
      /\ WalkPast(q) \/ WalkTake(q) =>
            call'[q].adequate = call[q].adequate /\ call'[q].floor = call[q].floor
      /\ WalkTake(q) => call'[q].rest = call[q].rest
      /\ Select(q) \/ WalkPast(q) => call'[q].sel = call[q].sel
  BY <1>1, <1>2, <1>3, <1>4 DEF Call
<1>b. FailsOver(q) =>
          /\ call'[q].signal = call[q].signal /\ call'[q].adequate = call[q].adequate
          /\ call'[q].rest = call[q].rest
          /\ call'[q].floor = call[q].floor /\ call'[q].sel = call[q].sel
  BY <1>1, <1>5, <1>6, <1>7, <1>8 DEF Call, FailsOver
<1>c. /\ SelectedLive(q) => /\ call'[q].chain = call[q].chain /\ call'[q].at = call[q].at
                            /\ call'[q].final = call[q].sel
      /\ AlternativeLive(q) => /\ call'[q].chain = call[q].chain /\ call'[q].at = call[q].at
                               /\ call'[q].final = Alternative(q)
      /\ Alternatives(q) => /\ call'[q].chain = alternatives[call[q].sel.name]
                            /\ call'[q].at = call[q].at /\ call'[q].final = call[q].final
      /\ AlternativeRefused(q) \/ AlternativeDown(q) =>
            /\ call'[q].chain = call[q].chain /\ call'[q].at = call[q].at + 1
            /\ call'[q].final = call[q].final
  BY <1>1, <1>5, <1>6, <1>7, <1>8 DEF Call
<1> QED
  BY <1>a, <1>b, <1>c

KeepsCall(q) ==
    \/ SelectRefused(q) \/ WalkExhausted(q) \/ RecordEvidence(q) \/ EvidenceFails(q)
    \/ SelectedDown(q) \/ AlternativeAllowed(q) \/ NoAlternativeLeft(q)
    \/ recordSavings(q) \/ SavingsFail(q)

LEMMA SameLocals ==
    ASSUME NEW q \in Requests, KeepsCall(q)
    PROVE  UNCHANGED call
  BY DEF KeepsCall, SelectRefused, WalkExhausted, RecordEvidence, EvidenceFails, SelectedDown,
         AlternativeAllowed, NoAlternativeLeft, recordSavings, SavingsFail

LEMMA StepWalked ==
    ASSUME Typed, NEW q \in Requests, Path(q), RequestStep(q)
    PROVE  Walked(q)'
<1> USE DEF Typed
<1>1. /\ UNCHANGED <<tiers, neverDown, seen>> /\ pc'[q] \notin {"idle", "select"}
      /\ neverDown \in seen[q]
  BY OthersAlone, StepMoves DEF environment, config, history, Path, Watching
<1>2. Walked(q) /\ Place(q) /\ call[q] \in Call
  BY CallType DEF Path, InHand
<1>3. CASE Select(q)
  <2>1. /\ call'[q].adequate = AtLeast(call[q].signal.minTier)
        /\ call'[q].rest = AtLeast(call[q].signal.minTier)
        /\ pc[q] = "select" /\ Known(call[q].signal.minTier)
    <3>1. PICK floor : call' = [call EXCEPT ![q].floor = floor,
                                        ![q].adequate = AtLeast(call[q].signal.minTier),
                                        ![q].rest = AtLeast(call[q].signal.minTier)]
      BY <1>3 DEF Select
    <3>2. call'[q] = [call[q] EXCEPT !.floor = floor,
                                     !.adequate = AtLeast(call[q].signal.minTier),
                                     !.rest = AtLeast(call[q].signal.minTier)]
      BY <3>1 DEF TypeOK
    <3> QED
      BY <1>2, <1>3, <3>2 DEF Call, Select
  <2>2. call'[q].sel = NoTier /\ call'[q].signal = call[q].signal
    BY <1>2, <1>3, <2>1, Locals DEF Place, Selecting
  <2>3. call[q].signal.minTier # NoName =>
            /\ tiers[call[q].signal.minTier] # NoTier
            /\ \A t \in AtLeast(call[q].signal.minTier) : ~Before(t, tiers[call[q].signal.minTier])
    BY <2>1 DEF AtLeast, Known
  <2> QED
    BY <1>1, <2>1, <2>2, <2>3 DEF Walked
<1>4. CASE WalkPast(q)
  <2>1. PICK t \in call[q].rest : BelowFloor(q, t) /\ call' = [call EXCEPT ![q].rest = @ \ {t}]
    BY <1>4 DEF WalkPast
  <2>2. call'[q].rest = call[q].rest \ {t}
    BY <1>2, <2>1 DEF TypeOK, Call
  <2>3. /\ call'[q].adequate = call[q].adequate /\ call'[q].floor = call[q].floor
        /\ call'[q].sel = NoTier /\ call'[q].signal = call[q].signal
    BY <1>2, <1>4, Locals DEF WalkPast, Place, Selecting
  <2>4. call[q].floor # NoTier /\ Refused(q, call[q].floor, t)
    BY <1>1, <2>1 DEF BelowFloor, IsForbiddenDowngrade, Refused
  <2> QED
    BY <1>1, <1>2, <2>2, <2>3, <2>4 DEF Walked, Refused
<1>5. CASE WalkTake(q)
  <2>1. PICK t \in call[q].rest : Cheapest(t, call[q].rest) /\ call' = [call EXCEPT ![q].sel = t]
    BY <1>5 DEF WalkTake
  <2>2. call'[q].sel = t
    BY <1>2, <2>1 DEF TypeOK, Call
  <2>3. /\ call'[q].adequate = call[q].adequate /\ call'[q].floor = call[q].floor
        /\ call'[q].rest = call[q].rest /\ call'[q].signal = call[q].signal
    BY <1>2, <1>5, Locals
  <2> QED
    BY <1>1, <1>2, <2>1, <2>2, <2>3 DEF Walked, Refused
<1>6. CASE FailsOver(q)
  <2>1. /\ call'[q].signal = call[q].signal /\ call'[q].adequate = call[q].adequate
        /\ call'[q].rest = call[q].rest /\ call'[q].floor = call[q].floor
        /\ call'[q].sel = call[q].sel
    BY <1>6, Locals
  <2> QED
    BY <1>1, <1>2, <2>1 DEF Walked, Refused
<1>7. CASE KeepsCall(q)
  BY <1>1, <1>2, <1>7, SameLocals DEF Walked, Refused
<1> QED
  BY <1>3, <1>4, <1>5, <1>6, <1>7 DEF RequestStep, KeepsCall, FailsOver

LEMMA StepPassed ==
    ASSUME Typed, AlternativesSound, NEW q \in Requests, Path(q), RequestStep(q)
    PROVE  Passed(q)'
<1> USE DEF Typed
<1> DEFINE c == call[q]
<1>1. /\ UNCHANGED <<tiers, neverDown, up, seen, ever, steady>>
      /\ neverDown \in seen[q] /\ steady[q] \subseteq up /\ up \subseteq ever[q]
  BY OthersAlone, StepMoves DEF environment, config, history, Path, Watching
<1>2. /\ Passed(q) /\ Place(q) /\ HoldsRegistered(q) /\ c \in Call
      /\ c.chain \in Seq(Names) /\ c.at \in Nat /\ Len(c.chain) \in Nat
  BY CallType DEF Path, InHand
<1>3. ASSUME UNCHANGED call, NEW from \in PCs, NEW to \in PCs, pc[q] = from, pc'[q] = to,
             to \notin BeforeFailover \/ from \in BeforeFailover,
             to \notin FailingOver \/ from \in FailingOver \/ c.sel.name \notin steady[q],
             to = "ErrNoFloorSafeLiveTier" => c.at = Len(c.chain)
      PROVE  Passed(q)'
  BY <1>1, <1>2, <1>3 DEF Passed, Refused
<1>4. CASE Select(q) \/ WalkPast(q) \/ WalkTake(q)
  <2>1. /\ pc[q] \in Selecting /\ pc'[q] \in BeforeFailover \ FailingOver
        /\ pc'[q] # "ErrNoFloorSafeLiveTier"
    BY <1>4 DEF Select, WalkPast, WalkTake, Goto, Selecting, TypeOK, BeforeFailover, FailingOver
  <2>2. call'[q].chain = c.chain /\ call'[q].at = 0 /\ call'[q].final = NoTier
    BY <1>2, <1>4, <2>1, Locals DEF Passed, BeforeFailover, Place
  <2> QED
    BY <1>1, <1>2, <2>1, <2>2 DEF Passed
<1>5. CASE SelectedLive(q)
  <2>1. /\ pc'[q] = "savings" /\ c.sel.name \in up /\ pc[q] = "probe"
    BY <1>5 DEF SelectedLive, Decide, Goto, TypeOK
  <2>2. /\ call'[q].chain = c.chain /\ call'[q].at = c.at
        /\ call'[q].final = c.sel /\ call'[q].sel = c.sel
    BY <1>5, Locals DEF FailsOver
  <2>3. c.at = 0
    BY <1>2, <2>1 DEF Passed, BeforeFailover
  <2> QED
    BY <1>1, <1>2, <2>1, <2>2, <2>3 DEF Passed, BeforeFailover, Selecting, FailingOver
<1>6. CASE Alternatives(q)
  <2>1. pc'[q] = "consider" /\ pc[q] = "alternatives"
    BY <1>6 DEF Alternatives, Goto, TypeOK
  <2>2. /\ call'[q].chain = alternatives[c.sel.name] /\ call'[q].at = c.at
        /\ call'[q].final = c.final /\ call'[q].sel = c.sel /\ c.at = 0 /\ c.final = NoTier
    BY <1>2, <1>6, <2>1, Locals DEF Passed, BeforeFailover, Place, Selecting, Selected, FailsOver
  <2>3. c.sel.name \in Names
    BY <1>2, <2>1, RoutingAssumption
       DEF Place, HoldsRegistered, Holding, Selected, IsRegistered
  <2>4. /\ Len(alternatives[c.sel.name]) \in Nat
        /\ \A i \in 1 .. Len(alternatives[c.sel.name]) : tiers[alternatives[c.sel.name][i]] # NoTier
    BY <2>3 DEF AlternativesSound, TypeOK
  <2>5. c.sel.name \notin steady[q]
    BY <1>2, <2>1 DEF Passed, FailingOver
  <2> QED
    BY <1>1, <2>1, <2>2, <2>4, <2>5 DEF Passed, BeforeFailover, Selecting, FailingOver
<1>7. CASE AlternativeRefused(q) \/ AlternativeDown(q)
  <2>1. /\ pc'[q] = "consider" /\ pc[q] \in {"consider", "probeAlternative"}
        /\ c.at < Len(c.chain)
    BY <1>2, <1>7 DEF AlternativeRefused, AlternativeDown, Goto, TypeOK, Place
  <2>2. /\ call'[q].chain = c.chain /\ call'[q].at = c.at + 1
        /\ call'[q].final = c.final /\ call'[q].sel = c.sel /\ c.final = NoTier
        /\ call'[q].signal = c.signal
    BY <1>2, <1>7, <2>1, Locals DEF Place, Selected, FailsOver
  <2>3. c.at + 1 \in 1 .. Len(c.chain) /\ c.chain[c.at + 1] \in Names
    BY <1>2, <2>1
  <2>4. tiers[c.chain[c.at + 1]] # NoTier /\ Alternative(q) = tiers[c.chain[c.at + 1]]
    BY <1>2, <2>3 DEF Passed, Alternative
  <2>5. c.chain[c.at + 1] \notin steady[q] \/ Refused(q, c.sel, tiers[c.chain[c.at + 1]])
    <3>1. CASE AlternativeRefused(q)
      <4>1. Forbids(neverDown, c.sel, tiers[c.chain[c.at + 1]], c.signal.loadBearing)
        BY <2>4, <3>1 DEF AlternativeRefused, Allowed, Weaker, IsForbiddenDowngrade
      <4> QED
        BY <1>1, <4>1 DEF Refused
    <3>2. CASE AlternativeDown(q)
      <4>1. Alternative(q).name \notin up /\ Alternative(q).name = c.chain[c.at + 1]
        BY <2>3, <2>4, <3>2 DEF AlternativeDown, TypeOK
      <4> QED
        BY <1>1, <4>1
    <3> QED
      BY <1>7, <3>1, <3>2
  <2>6. ASSUME NEW i \in 1 .. c.at + 1
        PROVE  c.chain[i] \notin steady[q] \/ Refused(q, c.sel, tiers[c.chain[i]])
    <3>1. i \in 1 .. c.at \/ i = c.at + 1
      BY <1>2
    <3> QED
      BY <1>2, <2>5, <3>1 DEF Passed
  <2> QED
    BY <1>1, <1>2, <2>1, <2>2, <2>3, <2>6 DEF Passed, BeforeFailover, Selecting, FailingOver, Refused
<1>8. CASE AlternativeLive(q)
  <2>1. /\ pc'[q] = "savings" /\ pc[q] = "probeAlternative" /\ Alternative(q).name \in up
    BY <1>8 DEF AlternativeLive, Decide, Goto, TypeOK
  <2>2. /\ call'[q].chain = c.chain /\ call'[q].at = c.at /\ call'[q].signal = c.signal
        /\ call'[q].final = Alternative(q) /\ call'[q].sel = c.sel
    BY <1>8, Locals DEF FailsOver
  <2>3. c.sel.name \notin steady[q]
    BY <1>2, <2>1 DEF Passed, FailingOver
  <2> QED
    BY <1>1, <1>2, <2>1, <2>2, <2>3 DEF Passed, BeforeFailover, Selecting, FailingOver, Refused
<1>9. CASE KeepsCall(q)
  <2>1. UNCHANGED call
    BY <1>9, SameLocals
  <2>2. CASE SelectRefused(q) \/ WalkExhausted(q) \/ RecordEvidence(q) \/ EvidenceFails(q)
    <3>1. pc[q] \in BeforeFailover /\ pc[q] \in PCs /\ pc'[q] \in PCs /\ pc'[q] \notin FailingOver
      BY <2>2 DEF SelectRefused, WalkExhausted, RecordEvidence, EvidenceFails, Goto, TypeOK,
                  BeforeFailover, Selecting, FailingOver, PCs, Errors
    <3> QED
      BY <1>3, <2>1, <3>1 DEF FailingOver
  <2>3. CASE SelectedDown(q)
    <3>1. pc[q] = "probe" /\ pc'[q] = "alternatives" /\ c.sel.name \notin up
      BY <2>3 DEF SelectedDown, Goto, TypeOK
    <3> QED
      BY <1>1, <1>3, <2>1, <3>1 DEF BeforeFailover, PCs
  <2>4. CASE AlternativeAllowed(q) \/ NoAlternativeLeft(q)
    <3>1. /\ pc[q] = "consider" /\ pc'[q] \in {"probeAlternative", "ErrNoFloorSafeLiveTier"}
          /\ pc'[q] = "ErrNoFloorSafeLiveTier" => c.at = Len(c.chain)
      BY <2>4 DEF AlternativeAllowed, NoAlternativeLeft, Goto, TypeOK
    <3> QED
      BY <1>3, <2>1, <3>1 DEF BeforeFailover, FailingOver, PCs, Errors, Selecting
  <2>5. CASE recordSavings(q) \/ SavingsFail(q)
    <3>1. pc[q] = "savings" /\ pc'[q] \in {"decided", "ErrNoBaselineTier", "ErrSavings"}
      BY <2>5 DEF recordSavings, SavingsFail, Goto, TypeOK
    <3> QED
      BY <1>3, <2>1, <3>1 DEF BeforeFailover, FailingOver, PCs, Errors, Selecting
  <2> QED
    BY <1>9, <2>2, <2>3, <2>4, <2>5 DEF KeepsCall
<1> QED
  BY <1>4, <1>5, <1>6, <1>7, <1>8, <1>9 DEF RequestStep, KeepsCall

LEMMA StrongestNotBefore ==
    ASSUME NEW t \in Offered, NEW u \in Offered, t.name \in Names, u.name \in Names,
           u = t \/ Before(u, t)
    PROVE  ~Before(t, u)
<1>1. t.priority \in Int /\ u.priority \in Int
  BY RoutingAssumption DEF Tier
<1>2. t.name \in Nat /\ u.name \in Nat
  <2>1. Names \subseteq Nat
    BY RoutingAssumption
  <2> QED
    BY <2>1
<1> QED
  BY <1>1, <1>2 DEF Before

LEMMA StepBilling ==
    ASSUME Typed, NEW q \in Requests, Path(q), RequestStep(q)
    PROVE  Billing(q)'
<1> USE DEF Typed
<1> DEFINE c == call[q]
           w == trail[q]
<1>1. /\ Billing(q) /\ Place(q) /\ HoldsRegistered(q) /\ c \in Call
      /\ trail \in [Requests -> Trail]
  BY CallType DEF Path, InHand, TypeOK
<1>2. ASSUME UNCHANGED trail, NEW from \in PCs, NEW to \in PCs, pc[q] = from, pc'[q] = to,
             to \notin Unrecorded \/ from \in Unrecorded,
             to \notin Selected \ {"evidence"} \/ from \in Selected \ {"evidence"},
             from \notin {"decided", "ErrSavings"}, to \notin {"decided", "ErrNoBaselineTier"},
             call'[q].sel = c.sel \/ (to \notin Selected \ {"evidence"})
      PROVE  Billing(q)'
  <2>1. w.savings = <<>>
    BY <1>1, <1>2 DEF Billing
  <2> QED
    BY <1>1, <1>2, <2>1 DEF Billing
<1>3. CASE \/ SelectRefused(q) \/ Select(q) \/ WalkPast(q) \/ WalkTake(q) \/ WalkExhausted(q)
           \/ EvidenceFails(q)
  <2>1. /\ UNCHANGED trail /\ pc[q] \in Unrecorded /\ pc[q] \in PCs /\ pc'[q] \in PCs
        /\ pc'[q] \in Unrecorded \cup (Errors \ {"ErrNoBaselineTier", "ErrSavings"})
    BY <1>3 DEF SelectRefused, Select, WalkPast, WalkTake, WalkExhausted, EvidenceFails, Goto,
                TypeOK, Unrecorded, PCs, Errors
  <2> QED
    BY <1>2, <2>1 DEF Unrecorded, Selected, Errors
<1>4. CASE RecordEvidence(q)
  <2>1. /\ pc[q] = "evidence" /\ pc'[q] = "probe" /\ UNCHANGED call
    BY <1>4 DEF RecordEvidence, Goto, TypeOK
  <2>2. /\ w.evidence = <<>> /\ w.savings = <<>>
    BY <1>1, <2>1 DEF Billing, Unrecorded
  <2>3. /\ trail'[q].savings = <<>>
        /\ "evidence" \in Sinks => trail'[q].evidence = <<c.sel.name>>
    <3>1. CASE "evidence" \in Sinks
      <4>1. trail'[q] = [w EXCEPT !.evidence = Append(w.evidence, c.sel.name)]
        BY <1>1, <1>4, <3>1 DEF RecordEvidence
      <4>2. w \in Trail
        BY <1>1
      <4>3. /\ trail'[q].evidence = Append(w.evidence, c.sel.name)
            /\ trail'[q].savings = w.savings
        BY <4>1, <4>2 DEF Trail
      <4> QED
        BY <2>2, <4>3
    <3>2. CASE "evidence" \notin Sinks
      BY <1>4, <2>2, <3>2 DEF RecordEvidence
    <3> QED
      BY <3>1, <3>2
  <2> QED
    BY <2>1, <2>3 DEF Billing, Unrecorded
<1>5. CASE FailsOver(q) \/ SelectedDown(q) \/ AlternativeAllowed(q) \/ NoAlternativeLeft(q)
  <2>1. UNCHANGED trail
    BY <1>5 DEF FailsOver, SelectedLive, SelectedDown, Alternatives, AlternativeRefused,
                AlternativeAllowed, AlternativeLive, AlternativeDown, NoAlternativeLeft
  <2>2. call'[q].sel = c.sel
    BY <1>5, Locals, SameLocals DEF KeepsCall
  <2>3. /\ pc[q] \in Selected \ {"evidence", "decided"} /\ pc[q] \in PCs /\ pc'[q] \in PCs
        /\ pc'[q] \in (Selected \ {"evidence", "decided"}) \cup {"ErrNoFloorSafeLiveTier"}
    BY <1>5 DEF FailsOver, SelectedLive, SelectedDown, Alternatives, AlternativeRefused,
                AlternativeAllowed, AlternativeLive, AlternativeDown, NoAlternativeLeft,
                Decide, Goto, TypeOK, PCs, Errors, Selected
  <2> QED
    BY <1>2, <2>1, <2>2, <2>3 DEF Unrecorded, Selected
<1>6. CASE recordSavings(q) \/ SavingsFail(q)
  <2>1. pc[q] = "savings" /\ UNCHANGED call
    BY <1>6 DEF recordSavings, SavingsFail
  <2>2. /\ c.final \in Offered /\ c.final.name \in Names /\ tiers[c.final.name] = c.final
        /\ c.final # NoTier
    BY <1>1, <2>1, RoutingAssumption DEF Place, HoldsRegistered, Holding, IsRegistered
  <2>3. c.floor # NoTier => /\ c.floor \in Offered /\ c.floor.name \in Names
                            /\ tiers[c.floor.name] = c.floor
    BY <1>1 DEF HoldsRegistered, Holding, IsRegistered
  <2>4. c.final \in Registered /\ (c.floor # NoTier => c.floor \in Registered)
    BY <2>2, <2>3 DEF Registered
  <2>5. w.savings = <<>> /\ ("evidence" \in Sinks => w.evidence = <<c.sel.name>>)
    BY <1>1, <2>1 DEF Billing, Selected
  <2>6. ASSUME Billed(q)
        PROVE  \E line : /\ trail'[q].savings = <<line>> /\ trail'[q].evidence = w.evidence
                         /\ line.tag = c.final.name
                         /\ line.baseline # NoTier =>
                               \A t \in {c.final, c.floor} \ {NoTier} : ~Before(line.baseline, t)
    <3>1. PICK t \in Registered \cup {NoTier} :
              /\ resolveBaselineCost(q, t)
              /\ trail' = [trail EXCEPT ![q].savings = Append(@, [tag |-> Tag(q), baseline |-> t])]
      BY <2>6 DEF Billed
    <3> DEFINE line == [tag |-> Tag(q), baseline |-> t]
    <3>2. trail'[q] = [w EXCEPT !.savings = Append(w.savings, line)] /\ w \in Trail
      BY <1>1, <3>1
    <3>3. trail'[q].savings = Append(w.savings, line) /\ trail'[q].evidence = w.evidence
      BY <3>2 DEF Trail
    <3>4. trail'[q].savings = <<line>>
      BY <2>5, <3>3
    <3>5. line.tag = c.final.name /\ line.baseline = t
      BY DEF Tag
    <3>6. ASSUME t # NoTier, NEW u \in {c.final, c.floor} \ {NoTier} PROVE ~Before(t, u)
      <4>1. /\ t \in Registered /\ IsRegistered(t) /\ u \in Registered /\ IsRegistered(u)
        BY <3>1, <3>6, <2>4, RegisteredType
      <4>2. u = t \/ Before(u, t)
        BY <3>1, <3>6, <4>1 DEF resolveBaselineCost, Strongest
      <4> QED
        BY <4>1, <4>2, StrongestNotBefore DEF IsRegistered
    <3> HIDE DEF line
    <3> QED
      BY <3>3, <3>4, <3>5, <3>6
  <2>7. ASSUME Billed(q), pc'[q] \in {"decided", "ErrSavings"} PROVE Billing(q)'
    <3>1. PICK line : /\ trail'[q].savings = <<line>> /\ trail'[q].evidence = w.evidence
                      /\ line.tag = c.final.name
                      /\ line.baseline # NoTier =>
                            \A t \in {c.final, c.floor} \ {NoTier} : ~Before(line.baseline, t)
      BY <2>6, <2>7
    <3>2. Len(trail'[q].savings) = 1 /\ \A i \in 1 .. Len(trail'[q].savings) : trail'[q].savings[i] = line
      BY <3>1
    <3> QED
      BY <2>1, <2>5, <2>7, <3>1, <3>2 DEF Billing, Unrecorded
  <2>8. CASE recordSavings(q)
    <3>1. pc'[q] = "decided"
      BY <2>8 DEF recordSavings, Goto, TypeOK
    <3>2. CASE "savings" \in Sinks
      BY <2>7, <2>8, <3>1, <3>2 DEF recordSavings
    <3>3. CASE "savings" \notin Sinks
      <4>1. UNCHANGED trail
        BY <2>8, <3>3 DEF recordSavings
      <4> QED
        BY <2>1, <2>5, <3>1, <3>3, <4>1 DEF Billing, Unrecorded
    <3> QED
      BY <3>2, <3>3
  <2>9. CASE SavingsFail(q)
    <3>1. ~NoBaseline(q)
      BY <2>4 DEF NoBaseline
    <3>2. pc'[q] = "ErrSavings" /\ (Billed(q) \/ UNCHANGED trail)
      BY <2>9, <3>1 DEF SavingsFail, Goto, TypeOK
    <3>3. CASE Billed(q)
      BY <2>7, <3>2, <3>3
    <3>4. CASE UNCHANGED trail
      BY <2>5, <3>2, <3>4 DEF Billing, Unrecorded, Selected
    <3> QED
      BY <3>2, <3>3, <3>4
  <2> QED
    BY <1>6, <2>8, <2>9
<1> QED
  BY <1>3, <1>4, <1>5, <1>6 DEF RequestStep, FailsOver

LEMMA StepPaths ==
    Typed /\ AlternativesSound /\ AllPaths /\ [Next]_vars => AllPaths'
<1> SUFFICES ASSUME Typed, AlternativesSound, AllPaths, [Next]_vars PROVE AllPaths'
  OBVIOUS
<1>1. CASE Configure
  BY <1>1, ConfigurePaths
<1>2. ASSUME NEW q \in Requests, Optimize(q) \/ RequestStep(q) \/ Return(q)
      PROVE  AllPaths'
  <2>1. CASE RequestStep(q)
    <3>1. /\ UNCHANGED <<environment, history>>
          /\ \A r \in Requests \ {q} : pc'[r] = pc[r] /\ call'[r] = call[r] /\ trail'[r] = trail[r]
      BY <2>1, OthersAlone DEF Typed
    <3>2. UNCHANGED <<neverDown, up, seen, ever, steady>>
      BY <3>1 DEF environment, config, history
    <3>3. Path(q) /\ Active(q)
      BY <2>1, StepMoves DEF AllPaths, Typed
    <3>4. Watching(q)'
      BY <3>2, <3>3 DEF Path, Watching
    <3>5. Path(q)'
      BY <2>1, <3>3, <3>4, StepWalked, StepPassed, StepBilling DEF Path
    <3>6. \A r \in Requests \ {q} : Path(r)'
      BY <3>1, <3>2, OtherPath DEF AllPaths
    <3> QED
      BY <3>5, <3>6 DEF AllPaths
  <2> QED
    BY <1>2, <2>1, OptimizePaths, ReturnPaths
<1>3. CASE UNCHANGED vars
  <2>1. \A q \in Requests : Path(q)'
    BY <1>3, OtherPath DEF vars, history, AllPaths
  <2> QED
    BY <2>1 DEF AllPaths
<1> QED
  BY <1>1, <1>2, <1>3 DEF Next

LEMMA AlwaysPaths == Spec => []AllPaths
  BY InitPaths, StepPaths, AlwaysTyped, AlternativesAreSound, PTL DEF Spec

(***************************************************************************)
(* Whatever is registered and whichever predicate is installed during the  *)
(* walk, Select takes a tier of at least the minimum adequacy, and passes  *)
(* over a cheaper adequate one only for the floor.                         *)
(***************************************************************************)
THEOREM SelectionIsCheapest == Spec => []CheapestAdequate
<1>1. ASSUME Typed, AllPaths PROVE CheapestAdequate
  <2> SUFFICES ASSUME NEW q \in Requests, call[q].sel # NoTier
               PROVE  LET c == call[q]
                      IN  /\ c.signal.minTier # NoName => ~Before(c.sel, tiers[c.signal.minTier])
                          /\ \A t \in c.adequate :
                                 Before(t, c.sel) => c.floor # NoTier /\ Refused(q, c.floor, t)
    BY DEF CheapestAdequate
  <2> DEFINE c == call[q]
  <2>1. Walked(q) /\ HoldsRegistered(q)
    BY <1>1 DEF AllPaths, Path, Typed, InHand
  <2>2. c.sel \in c.rest /\ c.sel \in c.adequate /\ \A u \in c.rest : u = c.sel \/ Before(c.sel, u)
    BY <2>1 DEF Walked, Cheapest
  <2>3. \A t \in c.adequate : t \in Offered /\ t.name \in Names
    BY <2>1 DEF HoldsRegistered, Holding, IsRegistered
  <2>4. ASSUME NEW t \in c.adequate, Before(t, c.sel) PROVE t \notin c.rest
    BY <2>2, <2>3, <2>4, StrongestNotBefore
  <2> QED
    BY <2>1, <2>2, <2>4 DEF Walked
<1> QED
  BY <1>1, AlwaysTyped, AlwaysPaths, PTL

(***************************************************************************)
(* However the tiers come and go during the call, Optimize passes a tier   *)
(* over, or refuses the request, only for an outage during the call or for *)
(* the floor, and answers with a tier that was live during it.             *)
(***************************************************************************)
THEOREM FailoverIsHonest == Spec => []FailoverHonest
<1>1. AllPaths => FailoverHonest
  BY DEF AllPaths, Path, Passed, FailoverHonest, FailingOver
<1> QED
  BY <1>1, AlwaysPaths, PTL

(***************************************************************************)
(* The lines the recorders have agree with what the caller was told, for   *)
(* every combination of recorders that are installed and that fail.        *)
(***************************************************************************)
THEOREM TrailIsTrue == Spec => []TrailMatchesDecision
<1>1. AllPaths => TrailMatchesDecision
  BY DEF AllPaths, Path, Billing, TrailMatchesDecision, Selected, Errors
<1> QED
  BY <1>1, AlwaysPaths, PTL

(***************************************************************************)
(* There is always a tier to price the baseline on, and it is at least as  *)
(* strong as the one that answered and as the floor of the request,        *)
(* although the ladder may have grown since Select.                        *)
(***************************************************************************)
THEOREM BaselineIsStrong == Spec => []BaselineAtLeastAsStrong
<1>1. AllPaths => BaselineAtLeastAsStrong
  <2> SUFFICES ASSUME AllPaths, NEW q \in Requests
               PROVE  /\ pc[q] # "ErrNoBaselineTier"
                      /\ \A i \in 1 .. Len(trail[q].savings) :
                            trail[q].savings[i].baseline # NoTier =>
                               \A t \in {call[q].final, call[q].floor} \ {NoTier} :
                                   ~Before(trail[q].savings[i].baseline, t)
    BY DEF BaselineAtLeastAsStrong
  <2>1. Billing(q)
    BY DEF AllPaths, Path
  <2> QED
    BY <2>1, Zenon DEF Billing
<1> QED
  BY <1>1, AlwaysPaths, PTL

-----------------------------------------------------------------------------
(* Failover.                                                               *)

(***************************************************************************)
(* A call of Failover in flight: the histories bound what is live now, the *)
(* primary tier is registered, and the chain is the beginning of its       *)
(* alternatives, which only grow.                                          *)
(***************************************************************************)
Walking == {"primary", "chain", "alternatives"}

Walk == [pc : {"idle"} \cup Walking \cup Outcomes, primary : Names \cup {NoName},
         chain : Seq(Names), at : Nat, tier : Offered \cup {NoTier},
         ever : SUBSET Names, steady : SUBSET Names]

ChainRegistered ==
    \A i \in 1 .. Len(walk.chain) : /\ i \in 1 .. Len(alternatives[walk.primary])
                                    /\ alternatives[walk.primary][i] = walk.chain[i]

Outcome ==
    LET w == walk
    IN  /\ w.tier # NoTier => w.tier.name \in w.ever
        /\ w.pc = "primary_live" => w.tier = tiers[w.primary]
        /\ w.pc \in {"chain", "alternatives", "failover_alternative", "ErrNoLiveTier"} =>
              w.primary \notin w.steady
        /\ \A i \in 1 .. w.at : w.chain[i] \notin w.steady
        /\ w.pc = "failover_alternative" =>
              /\ w.at < Len(w.chain) /\ tiers[w.chain[w.at + 1]] # NoTier
              /\ w.tier = tiers[w.chain[w.at + 1]]
        /\ w.pc = "ErrNoLiveTier" => w.at = Len(w.chain)

InFlight ==
    LET w == walk
    IN  /\ w.primary \in Names
        /\ w.pc # "ErrUnknownTier" => tiers[w.primary] # NoTier
        /\ w.pc \in Walking => w.steady \subseteq up /\ up \subseteq w.ever /\ w.tier = NoTier
        /\ w.pc \in {"primary", "chain"} => w.at = 0
        /\ w.at <= Len(w.chain)
        /\ ChainRegistered
        /\ Outcome

WalkHonest == walk \in Walk /\ (walk.pc # "idle" => InFlight)

LEMMA AlternativesGrow ==
    ASSUME Typed, Configure, NEW n \in Names, NEW i \in 1 .. Len(alternatives[n])
    PROVE  i \in 1 .. Len(alternatives'[n]) /\ alternatives'[n][i] = alternatives[n][i]
<1> USE DEF Typed
<1>1. CASE \E primary \in Names, k \in 1 .. MaxAlternatives :
              \E alts \in [1 .. k -> Names] : RegisterAlternative(primary, alts)
  <2>1. PICK primary \in Names, k \in 1 .. MaxAlternatives :
            \E alts \in [1 .. k -> Names] : RegisterAlternative(primary, alts)
    BY <1>1
  <2>2. PICK m \in Int : \E added \in [1 .. m -> Names] :
            m >= 0 /\ alternatives' = [alternatives EXCEPT ![primary] = @ \o added]
    <3>1. PICK alts \in [1 .. k -> Names] : RegisterAlternative(primary, alts)
      BY <2>1
    <3>2. k \in Nat /\ Len(alts) = k
      BY RoutingAssumption
    <3>3. PICK m \in 0 .. Len(alts) : \E added \in [1 .. m -> Names] :
              alternatives' = [alternatives EXCEPT ![primary] = @ \o added]
      BY <3>1 DEF RegisterAlternative
    <3>4. m \in Int /\ m >= 0
      BY <3>2, <3>3
    <3> QED
      BY <3>3, <3>4, Zenon
  <2>3. PICK added \in [1 .. m -> Names] :
            m >= 0 /\ alternatives' = [alternatives EXCEPT ![primary] = @ \o added]
    BY <2>2
  <2>4. added \in Seq(Names) /\ alternatives[n] \in Seq(Names) /\ alternatives \in [Names -> Seq(Names)]
    BY <2>3 DEF TypeOK
  <2>5. CASE n = primary
    <3>1. alternatives'[n] = alternatives[n] \o added
      BY <2>3, <2>4, <2>5
    <3> QED
      BY <2>4, <3>1
  <2>6. CASE n # primary
    BY <2>3, <2>4, <2>6
  <2> QED
    BY <2>5, <2>6
<1>2. CASE UNCHANGED alternatives
  BY <1>2
<1>3. CASE ~ \E primary \in Names, k \in 1 .. MaxAlternatives :
              \E alts \in [1 .. k -> Names] : RegisterAlternative(primary, alts)
  BY <1>2, <1>3 DEF Configure, RegisterTier, SetNeverDowngrade, Outage, Recovery, config
<1> QED
  BY <1>1, <1>3

LEMMA FailoverStepsNext == [FailoverNext]_failoverVars => [Next]_vars
  BY DEF FailoverNext, failoverVars, Next

LEMMA FailoverRoutes == FailoverSpec => Spec
  BY FailoverStepsNext, PTL DEF FailoverSpec, FailoverInit, Spec

LEMMA InitWalk == FailoverInit => WalkHonest
  BY DEF FailoverInit, NoWalk, WalkHonest, Walk

(* While the consumer changes its tiers, the histories follow.             *)
LEMMA WatchedHonest ==
    ASSUME Typed, Typed', WalkHonest, Configure, Watched
    PROVE  WalkHonest'
<1> USE DEF Typed
<1>1. \A n \in Names : tiers[n] # NoTier => tiers'[n] = tiers[n]
  BY DEF Configure, RegisterTier, RegisterAlternative, SetNeverDowngrade, Outage, Recovery,
         TypeOK, config
<1>2. walk \in Walk /\ up' \in SUBSET Names
  BY DEF WalkHonest, TypeOK
<1>3. /\ walk'.pc = walk.pc /\ walk'.primary = walk.primary /\ walk'.chain = walk.chain
      /\ walk'.at = walk.at /\ walk'.tier = walk.tier
      /\ walk.ever \subseteq walk'.ever /\ walk'.steady \subseteq walk.steady
      /\ walk.pc \in Walking => walk'.steady \subseteq up' /\ up' \subseteq walk'.ever
      /\ walk' \in Walk
  <2>1. CASE walk.pc = "idle" \/ walk.pc \in Outcomes
    BY <1>2, <2>1 DEF Watched, Walking, Outcomes
  <2>2. CASE ~(walk.pc = "idle" \/ walk.pc \in Outcomes)
    <3>1. walk' = [walk EXCEPT !.ever = walk.ever \cup up', !.steady = walk.steady \cap up']
      BY <2>2 DEF Watched
    <3> QED
      BY <1>2, <3>1 DEF Walk
  <2> QED
    BY <2>1, <2>2
<1>4. SUFFICES ASSUME walk.pc # "idle" PROVE InFlight'
  BY <1>3 DEF WalkHonest
<1>5. /\ InFlight /\ walk.chain \in Seq(Names) /\ walk.at \in Nat
      /\ Len(walk.chain) \in Nat /\ walk.primary \in Names
  BY <1>2, <1>4 DEF WalkHonest, Walk, InFlight
<1>6. ChainRegistered'
  BY <1>3, <1>5, AlternativesGrow DEF InFlight, ChainRegistered
<1>7. Outcome'
  <2>1. walk.pc = "primary_live" => tiers'[walk.primary] = tiers[walk.primary]
    BY <1>1, <1>5 DEF InFlight
  <2>2. walk.pc = "failover_alternative" =>
            tiers'[walk.chain[walk.at + 1]] = tiers[walk.chain[walk.at + 1]]
    <3>1. walk.at < Len(walk.chain) => walk.chain[walk.at + 1] \in Names
      BY <1>5
    <3> QED
      BY <1>1, <1>5, <3>1 DEF InFlight, Outcome
  <2> QED
    BY <1>3, <1>5, <2>1, <2>2 DEF InFlight, Outcome
<1>8. walk.pc # "ErrUnknownTier" => tiers'[walk.primary] # NoTier
  BY <1>1, <1>5 DEF InFlight
<1> QED
  BY <1>3, <1>5, <1>6, <1>7, <1>8 DEF InFlight

LEMMA FailoverStepHonest ==
    ASSUME Typed, AlternativesSound, WalkHonest, FailoverStep, UNCHANGED vars
    PROVE  WalkHonest'
<1> USE DEF Typed
<1>0. UNCHANGED <<tiers, alternatives, up>>
  BY DEF vars, environment, config
<1>1. /\ walk \in Walk /\ up \in SUBSET Names
      /\ tiers \in [Names -> Offered \cup {NoTier}] /\ alternatives \in [Names -> Seq(Names)]
  BY DEF WalkHonest, TypeOK
<1>2. /\ walk.chain \in Seq(Names) /\ walk.at \in Nat /\ Len(walk.chain) \in Nat
      /\ walk.pc # "idle" => InFlight
  BY <1>1 DEF Walk, WalkHonest
<1>3. ASSUME NEW primary \in Names, CallFailover(primary) PROVE WalkHonest'
  <2>a. PICK k \in {"ErrUnknownTier", "primary"} :
            /\ k = IF tiers[primary] = NoTier THEN "ErrUnknownTier" ELSE "primary"
            /\ walk' = [NoWalk EXCEPT !.pc = k, !.primary = primary, !.ever = up, !.steady = up]
    BY <1>3 DEF CallFailover
  <2>b. walk' = [pc |-> k, primary |-> primary, chain |-> <<>>, at |-> 0, tier |-> NoTier,
                 ever |-> up, steady |-> up]
    BY <2>a DEF NoWalk
  <2>c. <<>> \in Seq(Names) /\ k \in {"idle"} \cup Walking \cup Outcomes
    BY DEF Walking, Outcomes
  <2>e. /\ walk'.pc = k
        /\ walk'.primary = primary /\ walk'.chain = <<>> /\ walk'.at = 0
        /\ walk'.tier = NoTier /\ walk'.ever = up /\ walk'.steady = up
    BY <2>b, Zenon
  <2>1. /\ walk'.pc = IF tiers[primary] = NoTier THEN "ErrUnknownTier" ELSE "primary"
        /\ walk'.primary = primary /\ walk'.chain = <<>> /\ walk'.at = 0
        /\ walk'.tier = NoTier /\ walk'.ever = up /\ walk'.steady = up
    BY <2>a, <2>e
  <2>d. walk' \in Walk
    BY <1>1, <2>b, <2>c, Zenon DEF Walk
  <2>2. ChainRegistered' /\ Outcome'
    BY <2>1 DEF ChainRegistered, Outcome
  <2> QED
    BY <1>0, <1>3, <2>1, <2>2, <2>d DEF WalkHonest, InFlight, Walking
<1>4. CASE PrimaryLive
  <2>1. /\ walk.pc = "primary" /\ walk.primary \in up /\ InFlight
        /\ walk' = [walk EXCEPT !.pc = "primary_live", !.tier = tiers[walk.primary]]
    BY <1>2, <1>4 DEF PrimaryLive, Ends
  <2>2. walk.primary \in Names /\ tiers[walk.primary] # NoTier /\ tiers[walk.primary].name = walk.primary
    BY <2>1 DEF InFlight, TypeOK
  <2>3. /\ walk'.pc = "primary_live" /\ walk'.primary = walk.primary /\ walk'.chain = walk.chain
        /\ walk'.at = walk.at /\ walk'.tier = tiers[walk.primary]
        /\ walk'.ever = walk.ever /\ walk'.steady = walk.steady
        /\ walk' \in Walk
    BY <1>1, <2>1, <2>2 DEF Walk, Outcomes
  <2>4. ChainRegistered'
    BY <1>0, <2>1, <2>3 DEF InFlight, ChainRegistered
  <2>5. Outcome'
    BY <1>0, <2>1, <2>2, <2>3 DEF InFlight, Outcome, Walking
  <2> QED
    BY <1>0, <2>1, <2>3, <2>4, <2>5 DEF WalkHonest, InFlight, Walking
<1>5. CASE PrimaryDown
  <2>1. /\ walk.pc = "primary" /\ walk.primary \notin up /\ InFlight
        /\ walk' = [walk EXCEPT !.pc = "chain"]
    BY <1>2, <1>5 DEF PrimaryDown
  <2>2. /\ walk'.pc = "chain" /\ walk'.primary = walk.primary /\ walk'.chain = walk.chain
        /\ walk'.at = walk.at /\ walk'.tier = walk.tier
        /\ walk'.ever = walk.ever /\ walk'.steady = walk.steady
        /\ walk' \in Walk
    BY <1>1, <2>1 DEF Walk, Walking
  <2>3. ChainRegistered'
    BY <1>0, <2>1, <2>2 DEF InFlight, ChainRegistered
  <2>4. Outcome'
    BY <1>0, <2>1, <2>2 DEF InFlight, Outcome, Walking
  <2> QED
    BY <1>0, <2>1, <2>2, <2>3, <2>4 DEF WalkHonest, InFlight, Walking
<1>6. CASE CopyChain
  <2>1. /\ walk.pc = "chain" /\ InFlight
        /\ walk' = [walk EXCEPT !.pc = "alternatives", !.chain = alternatives[walk.primary]]
    BY <1>2, <1>6 DEF CopyChain
  <2>a. alternatives[walk.primary] \in Seq(Names)
    BY <1>1, <2>1 DEF InFlight
  <2>2. /\ walk'.pc = "alternatives" /\ walk'.primary = walk.primary
        /\ walk'.chain = alternatives[walk.primary] /\ walk.at = 0
        /\ walk'.at = walk.at /\ walk'.tier = walk.tier
        /\ walk'.ever = walk.ever /\ walk'.steady = walk.steady
        /\ walk' \in Walk
    BY <1>1, <2>1, <2>a DEF Walk, Walking, InFlight
  <2>b. Len(alternatives[walk.primary]) \in Nat
    BY <2>a
  <2>3. ChainRegistered'
    BY <1>0, <2>2 DEF ChainRegistered
  <2>4. Outcome'
    BY <1>0, <2>1, <2>2 DEF InFlight, Outcome, Walking
  <2> QED
    BY <1>0, <2>1, <2>2, <2>b, <2>3, <2>4 DEF WalkHonest, InFlight, Walking
<1>7. ASSUME NEW n \in Names, ChainLive(n) PROVE WalkHonest'
  <2>1. /\ walk.pc = "alternatives" /\ InFlight /\ walk.at < Len(walk.chain)
        /\ n = walk.chain[walk.at + 1] /\ tiers[n] # NoTier /\ n \in up
        /\ walk' = [walk EXCEPT !.pc = "failover_alternative", !.tier = tiers[n]]
    BY <1>2, <1>7 DEF ChainLive, Upcoming, Ends
  <2>2. tiers[n].name = n
    BY <2>1 DEF TypeOK
  <2>3. /\ walk'.pc = "failover_alternative" /\ walk'.primary = walk.primary
        /\ walk'.chain = walk.chain /\ walk'.at = walk.at /\ walk'.tier = tiers[n]
        /\ walk'.ever = walk.ever /\ walk'.steady = walk.steady
        /\ walk' \in Walk
    BY <1>1, <2>1 DEF Walk, Outcomes
  <2>4. ChainRegistered'
    BY <1>0, <2>1, <2>3 DEF InFlight, ChainRegistered
  <2>5. Outcome'
    BY <1>0, <2>1, <2>2, <2>3 DEF InFlight, Outcome, Walking
  <2> QED
    BY <1>0, <2>1, <2>3, <2>4, <2>5 DEF WalkHonest, InFlight, Walking
<1>8. ASSUME NEW n \in Names, ChainDown(n) PROVE WalkHonest'
  <2>1. /\ walk.pc = "alternatives" /\ InFlight /\ walk.at < Len(walk.chain)
        /\ n = walk.chain[walk.at + 1] /\ walk' = [walk EXCEPT !.at = walk.at + 1]
    BY <1>2, <1>8 DEF ChainDown, Upcoming
  <2>2. n \notin up
    <3>1. walk.at + 1 \in 1 .. Len(walk.chain)
      BY <1>2, <2>1
    <3>2. /\ alternatives[walk.primary][walk.at + 1] = n
          /\ walk.at + 1 \in 1 .. Len(alternatives[walk.primary])
      BY <2>1, <3>1 DEF InFlight, ChainRegistered
    <3>3. tiers[n] # NoTier
      BY <2>1, <3>2 DEF InFlight, AlternativesSound
    <3> QED
      BY <1>8, <3>3 DEF ChainDown
  <2>a. walk.at + 1 \in Nat
    BY <1>2
  <2>3. /\ walk'.pc = "alternatives" /\ walk'.primary = walk.primary
        /\ walk'.chain = walk.chain /\ walk'.at = walk.at + 1 /\ walk'.tier = walk.tier
        /\ walk'.ever = walk.ever /\ walk'.steady = walk.steady
        /\ walk' \in Walk
    BY <1>1, <2>1, <2>a DEF Walk
  <2>4. ChainRegistered'
    BY <1>0, <2>1, <2>3 DEF InFlight, ChainRegistered
  <2>5. ASSUME NEW i \in 1 .. walk.at + 1 PROVE walk.chain[i] \notin walk.steady
    <3>1. i \in 1 .. walk.at \/ i = walk.at + 1
      BY <1>2
    <3> QED
      BY <2>1, <2>2, <3>1 DEF InFlight, Outcome, Walking
  <2>6. Outcome'
    BY <1>0, <2>1, <2>3, <2>5 DEF InFlight, Outcome, Walking
  <2> QED
    BY <1>0, <1>2, <2>1, <2>3, <2>4, <2>6 DEF WalkHonest, InFlight, Walking
<1>9. CASE NoLiveTier
  <2>1. /\ walk.pc = "alternatives" /\ InFlight /\ walk.at = Len(walk.chain)
        /\ walk' = [walk EXCEPT !.pc = "ErrNoLiveTier", !.tier = NoTier]
    BY <1>2, <1>9 DEF NoLiveTier, Ends
  <2>2. /\ walk'.pc = "ErrNoLiveTier" /\ walk'.primary = walk.primary
        /\ walk'.chain = walk.chain /\ walk'.at = walk.at /\ walk'.tier = NoTier
        /\ walk'.ever = walk.ever /\ walk'.steady = walk.steady
        /\ walk' \in Walk
    BY <1>1, <2>1 DEF Walk, Outcomes
  <2>3. ChainRegistered'
    BY <1>0, <2>1, <2>2 DEF InFlight, ChainRegistered
  <2>4. Outcome'
    BY <1>0, <2>1, <2>2 DEF InFlight, Outcome, Walking
  <2> QED
    BY <1>0, <2>1, <2>2, <2>3, <2>4 DEF WalkHonest, InFlight, Walking
<1>10. CASE FailoverReturns
  BY <1>10 DEF FailoverReturns, NoWalk, WalkHonest, Walk
<1> QED
  BY <1>3, <1>4, <1>5, <1>6, <1>7, <1>8, <1>9, <1>10 DEF FailoverStep

LEMMA StepWalk ==
    Typed /\ Typed' /\ AlternativesSound /\ WalkHonest /\ [FailoverNext]_failoverVars => WalkHonest'
<1> SUFFICES ASSUME Typed, Typed', AlternativesSound, WalkHonest, [FailoverNext]_failoverVars
             PROVE  WalkHonest'
  OBVIOUS
<1>1. CASE Configure /\ Watched
  BY <1>1, WatchedHonest
<1>2. CASE UNCHANGED walk /\ UNCHANGED environment
  BY <1>2 DEF WalkHonest, InFlight, ChainRegistered, Outcome, environment, config
<1>3. ASSUME NEW q \in Requests, Optimize(q) \/ RequestStep(q) \/ Return(q), UNCHANGED walk
      PROVE  WalkHonest'
  <2>1. UNCHANGED environment
    BY <1>3, OthersAlone DEF Typed, Optimize, Return
  <2> QED
    BY <1>2, <1>3, <2>1
<1>4. CASE FailoverStep /\ UNCHANGED vars
  BY <1>4, FailoverStepHonest
<1>5. CASE UNCHANGED failoverVars
  BY <1>2, <1>5 DEF failoverVars, vars
<1> QED
  BY <1>1, <1>3, <1>4, <1>5 DEF FailoverNext

(***************************************************************************)
(* Whatever goes down, comes back or is registered during the walk,        *)
(* Failover returns the first tier of the chain that was live when it was  *)
(* asked, and gives up only when none was (failover.go 36-59).             *)
(***************************************************************************)
THEOREM FailoverTakesFirstLive == FailoverSpec => []FailoverByLiveness
<1>1. Typed /\ WalkHonest => FailoverByLiveness
  <2> SUFFICES ASSUME Typed, WalkHonest, walk.pc # "idle" PROVE FailoverByLiveness
    BY DEF FailoverByLiveness
  <2>1. InFlight /\ DOMAIN walk.chain = 1 .. Len(walk.chain)
    BY DEF WalkHonest, Walk
  <2>2. walk.primary \in Names /\ Outcome /\ ChainRegistered
    BY <2>1 DEF InFlight
  <2>3. DOMAIN alternatives[walk.primary] = 1 .. Len(alternatives[walk.primary])
    BY <2>2 DEF Typed, TypeOK
  <2> QED
    BY <2>1, <2>2, <2>3 DEF FailoverByLiveness, Outcome, ChainRegistered
<1>2. FailoverSpec => []Typed /\ []AlternativesSound
  BY FailoverRoutes, AlwaysTyped, AlternativesAreSound, PTL
<1>3. FailoverSpec => []WalkHonest
  BY <1>2, InitWalk, StepWalk, PTL DEF FailoverSpec
<1> QED
  BY <1>1, <1>2, <1>3, PTL

(* The theorems about Spec hold while Failover is called, too.             *)
COROLLARY FloorHoldsWithFailover ==
    FailoverSpec => [](TypeOK /\ FloorNeverBypassed /\ FailoverHonest)
  BY FailoverRoutes, TypeCorrect, FloorHolds, FailoverIsHonest, PTL

=============================================================================
