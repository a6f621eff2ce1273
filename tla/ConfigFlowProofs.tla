-------------------------- MODULE ConfigFlowProofs --------------------------
(***************************************************************************)
(* ConfigFlow for every number of dialogs and saves, every set of sources, *)
(* markets, discovered homes and answers, and every older entry: what a    *)
(* save leaves in the entry, whatever dialogs overlapped and however each  *)
(* of them came to its last form.                                          *)
(*                                                                         *)
(* The invariant says of each dialog what its step implies (Dialog).  It   *)
(* is a predicate of the dialog alone, so that the other dialogs' saves    *)
(* cannot disturb it.                                                      *)
(***************************************************************************)
EXTENDS ConfigFlow, FiniteSetTheorems, TLAPS

-----------------------------------------------------------------------------
(* What is true of every dialog.  The steps that follow a wizard's section.  *)

MarketSteps   == {"market_prices", "market_area"}
VatSteps      == {"vat_country", "vat_context", "vat_review"}
EstimateSteps == {"tibber_markup_estimate", "estimating", "tibber_markup_review"}
SupplierSteps == {"supplier"} \cup VatSteps \cup EstimateSteps
FlowSteps     == {"energy_flows", "flow_compatibility"}

AfterProduction   == {"insights", "review"}
AfterGrid         == FlowSteps \cup AfterProduction
AfterSupplier     == {"grid"} \cup AfterGrid
AfterMarket       == SupplierSteps \cup AfterSupplier
AfterMeasurements == MarketSteps \cup AfterMarket

\* An area is chosen where the market has several, and is one of them.
HasSeveral(market) == Cardinality(MarketAreas(market)) > 1
AreaFits(values) ==
    IF HasSeveral(values["market"])
    THEN values["area"] \in MarketAreas(values["market"]) ELSE values["area"] = None

\* A complete choice of market and area.
Settled(values) == DOMAIN values = MarketKeys /\ AreaFits(values)

\* The rate was there when the section was opened, or the user named it.
RateKnown(g, values) ==
    Get(values, "vatRate") \in {None, Get(g.ref, "vatRate")} \cup g.rates

\* Whatever the step: the settings of a draft are those of its section.
DialogFields == DOMAIN Opened("setup")
TibberKeys == MeasurementKeys \cup MarketKeys \cup SupplierKeys \cup {"profile"}

Drafted(g) ==
    /\ DOMAIN g = DialogFields
    /\ g.kind \in {"setup", "options"}
    /\ DOMAIN g.tibber \subseteq TibberKeys
    /\ DOMAIN g.measurements \subseteq MeasurementKeys
    /\ DOMAIN g.market \subseteq MarketKeys
    /\ DOMAIN g.supplier \subseteq SupplierKeys
    /\ DOMAIN g.grid \subseteq GridKeys
    /\ DOMAIN g.production \subseteq ProductionKeys
    /\ DOMAIN g.insights \subseteq InsightKeys
    /\ g.supplierOpen => g.kind = "options"

\* An options dialog outside its market form has no market, or a correction.
Corrected(g) == g.market = Nothing \/ Settled(g.market)

\* What a wizard has when it leaves a section.
Unrated(g)  == "vatRate" \notin DOMAIN g.tibber
Measured(g) == DOMAIN g.measurements = MeasurementKeys
               /\ (g.retried \/ PeriodIsTold(g.measurements, g))
Supplied(g) == {Get(g.supplier, "vatRate"), Get(g.tibber, "vatRate")} \subseteq {None} \cup g.rates
Produced(g) == DOMAIN g.production = ProductionKeys
               /\ ~SharesSource(Overlay(g.measurements, g.production))

\* What holds while a section's forms are shown.
ShowsPeriod(g) ==
    ~g.retried =>
        /\ "energyType" \in DOMAIN g.measurements
        /\ Get(g.measurements, "energy") = Get(g.ref, "energy")
        /\ <<Get(g.ref, "energy"), g.measurements["energyType"]>> \in g.periods

AsksPeriod(g) ==
    DOMAIN g.measurements = MeasurementKeys /\ MeasurementsAccepted(g.measurements, g.ref)

Supplying(g) == RateKnown(g, g.supplier) /\ (g.kind = "setup" => Get(g.ref, "vatRate") = None)

Producing(g) ==
    /\ DOMAIN g.production = ProductionKeys
    /\ g.kind = "setup" =>
          \A k \in {"power", "energy"} : Get(g.ref, k) = g.measurements[k]

Wizard(g) ==
    /\ g.step # "menu"
    /\ g.step \notin AfterSupplier => Unrated(g)
    /\ g.step \in AfterMeasurements => Measured(g)
    /\ g.step \in AfterMarket => Settled(g.market)
    /\ g.step \in AfterSupplier => Supplied(g)
    /\ g.step \in AfterProduction => Produced(g)
    /\ g.step = "review" => g.review = Assembled(g, g.insights)

Shown(g) ==
    /\ g.step = "measurements" => ShowsPeriod(g)
    /\ g.step = "measurement_energy" => AsksPeriod(g)
    /\ g.step \in MarketSteps => DOMAIN g.market = MarketKeys
    /\ g.step = "market_area" => HasSeveral(g.market["market"])
    /\ g.step \in SupplierSteps => Supplying(g)
    /\ g.step \in VatSteps => RateKnown(g, g.vat)
    /\ g.step \in EstimateSteps => RateKnown(g, g.pending)
    /\ g.step \in {"estimating", "tibber_markup_review"} => Get(g.pending, "vatRate") # None
    /\ g.step = "grid" => g.gridMode \in GridModes
    /\ g.step \in FlowSteps => Producing(g)
    /\ g.step = "flow_compatibility" => BindingsAccepted(g.production, g.ref)

Dialog(g) ==
    /\ g.step # "closed"
    /\ Drafted(g)
    /\ g.kind = "setup" => Wizard(g)
    /\ g.kind = "options" /\ g.step \notin MarketSteps => Corrected(g)
    /\ Shown(g)

Open(f) == flows[f].step # "closed"

(* Dialogs are options dialogs once there is an entry; the wizard that makes *)
(* it is alone.                                                              *)
DialogsSound ==
    /\ DOMAIN flows = Flows
    /\ \A f \in Flows : Open(f) => Dialog(flows[f]) /\ (flows[f].kind = "setup") = (data = Nothing)
    /\ data = Nothing =>
          options = Nothing /\ \A f, d \in Flows : Open(f) /\ Open(d) => f = d

IInv == DialogsSound /\ SharedOnlyIfStale /\ AreaOfItsMarket

-----------------------------------------------------------------------------
(* Settings, key by key. *)

LEMMA GetOverlay ==
    \A base, top, k :
        /\ DOMAIN Overlay(base, top) = DOMAIN base \cup DOMAIN top
        /\ k \in DOMAIN top => Overlay(base, top)[k] = top[k]
        /\ k \in DOMAIN base \ DOMAIN top => Overlay(base, top)[k] = base[k]
        /\ Get(Overlay(base, top), k) = IF k \in DOMAIN top THEN top[k] ELSE Get(base, k)
BY DEF Overlay, Get

LEMMA GetOnly ==
    \A s, keys, k :
        /\ DOMAIN Only(s, keys) = DOMAIN s \cap keys
        /\ k \in DOMAIN s \cap keys => Only(s, keys)[k] = s[k]
        /\ Get(Only(s, keys), k) = IF k \in keys THEN Get(s, k) ELSE None
BY DEF Only, Get

LEMMA GetNothing == DOMAIN Nothing = {} /\ \A k : Get(Nothing, k) = None
BY DEF Nothing, Get

LEMMA FlowKeysAre ==
    /\ PowerKeys = {"production_power", "grid_export_power", "household_power"}
    /\ PhaseKeys = {"production_phase", "grid_export_phase", "household_phase"}
    /\ FlowKeys = PowerKeys \cup {"production_energy", "grid_export_energy", "household_energy"}
<1>1. PowerKeys = {"production_power", "grid_export_power", "household_power"}
  BY DEF PowerKeys, Channels, PowerOf
<1>2. PhaseKeys = {"production_phase", "grid_export_phase", "household_phase"}
  BY DEF PhaseKeys, Channels, PhaseOf
<1>3. {EnergyOf[c] : c \in Channels} = {"production_energy", "grid_export_energy", "household_energy"}
  BY DEF Channels, EnergyOf
<1>4. QED  BY <1>1, <1>2, <1>3 DEF FlowKeys

\* The sections share no key.
LEMMA KeysApart ==
    /\ MeasurementKeys \cap (MarketKeys \cup SupplierKeys \cup GridKeys \cup ProductionKeys \cup InsightKeys) = {}
    /\ MarketKeys \cap (SupplierKeys \cup GridKeys \cup ProductionKeys \cup InsightKeys) = {}
    /\ SupplierKeys \cap (GridKeys \cup ProductionKeys \cup InsightKeys) = {}
    /\ GridKeys \cap (ProductionKeys \cup InsightKeys) = {}
    /\ ProductionKeys \cap InsightKeys = {}
BY FlowKeysAre DEF MeasurementKeys, MarketKeys, SupplierKeys, GridKeys, AmountKeys, TariffKeys,
   ProductionKeys, PresenceKeys, InsightKeys

\* The keys that relate sections to each other, by section.
LEMMA KeysOf ==
    /\ {"power", "energy", "energyType"} \subseteq MeasurementKeys
    /\ MarketKeys = {"market", "area"}
    /\ "vatRate" \in SupplierKeys
    /\ FlowKeys \subseteq ProductionKeys /\ FlowKeys \cap (PhaseKeys \cup PresenceKeys \cup {"enabled"}) = {}
BY FlowKeysAre DEF MeasurementKeys, MarketKeys, SupplierKeys, ProductionKeys, PresenceKeys

LEMMA FieldsAre ==
    DialogFields = {"step", "kind", "tibber", "setupTibber", "measurements", "market", "supplier",
        "grid", "production", "insights", "ref", "gridMode", "flowsOn", "supplierOpen",
        "hadThreshold", "vat", "vatSeen", "pending", "review", "rates", "periods", "retried"}
BY DEF DialogFields, Opened

\* The sets of steps, spelled out.
LEMMA StepsAre ==
    /\ MarketSteps = {"market_prices", "market_area"}
    /\ VatSteps = {"vat_country", "vat_context", "vat_review"}
    /\ EstimateSteps = {"tibber_markup_estimate", "estimating", "tibber_markup_review"}
    /\ SupplierSteps = {"supplier", "vat_country", "vat_context", "vat_review",
                        "tibber_markup_estimate", "estimating", "tibber_markup_review"}
    /\ FlowSteps = {"energy_flows", "flow_compatibility"}
    /\ AfterProduction = {"insights", "review"}
    /\ AfterSupplier = {"grid", "energy_flows", "flow_compatibility", "insights", "review"}
    /\ AfterMarket = SupplierSteps \cup AfterSupplier
    /\ AfterMeasurements = MarketSteps \cup AfterMarket
BY DEF MarketSteps, VatSteps, EstimateSteps, SupplierSteps, FlowSteps, AfterProduction, AfterGrid,
   AfterSupplier, AfterMarket, AfterMeasurements

\* Whether a source is shared depends on the sources only.
LEMMA SharesBySource ==
    ASSUME NEW s, NEW t, \A k \in FlowKeys \cup {"power", "energy"} : Get(s, k) = Get(t, k)
    PROVE  SharesSource(s) = SharesSource(t)
BY DEF SharesSource, Get

LEMMA MarketsFinite ==
    ASSUME NEW m
    PROVE  /\ Cardinality(MarketAreas(m)) \in Nat
           /\ MarketAreas(None) = {} /\ ~HasSeveral(None)
           /\ ~HasSeveral(m) <=> Cardinality(MarketAreas(m)) <= 1
<1>1. IsFiniteSet(MarketAreas(m))
  BY SectionsAssumption, FS_EmptySet DEF MarketAreas
<1>2. Cardinality(MarketAreas(m)) \in Nat
  BY <1>1, FS_CardinalityType
<1>3. MarketAreas(None) = {} /\ Cardinality(MarketAreas(None)) = 0
  BY SectionsAssumption, FS_EmptySet DEF MarketAreas
<1>4. QED  BY <1>2, <1>3 DEF HasSeveral

-----------------------------------------------------------------------------
(* The two ways a handler ends: a form is shown, or a section is saved. *)

\* What the action properties say of one step.
StepSound == TypedIsSaved /\ RateIsConfirmed /\ PeriodIsTyped

\* The entry is as it was, so nothing is claimed of the step.
LEMMA EntryKept ==
    ASSUME UNCHANGED <<data, options, saves, stale>>
    PROVE  /\ Resolved' = Resolved
           /\ StepSound
           /\ SharedOnlyIfStale => SharedOnlyIfStale'
           /\ AreaOfItsMarket => AreaOfItsMarket'
<1>1. Resolved' = Resolved
  BY DEF Resolved
<1>2. StepSound
  BY DEF StepSound, TypedIsSaved, RateIsConfirmed, PeriodIsTyped, Saved
<1>3. QED  BY <1>1, <1>2 DEF SharedOnlyIfStale, AreaOfItsMarket

LEMMA ShowSound ==
    ASSUME IInv, NEW f \in Flows, Open(f), NEW h, Show(f, h), Dialog(h), h.kind = flows[f].kind
    PROVE  IInv' /\ StepSound
<1>1. UNCHANGED <<data, options, saves, stale>> /\ flows' = [flows EXCEPT ![f] = h]
  BY DEF Show
<1>2. DOMAIN flows' = Flows /\ flows'[f] = h /\ \A d \in Flows \ {f} : flows'[d] = flows[d]
  BY <1>1 DEF IInv, DialogsSound
<1>3. \A d \in Flows : Open(d)' => Open(d)
  BY <1>2 DEF Open
<1>4. ASSUME NEW d \in Flows, Open(d)'
      PROVE  Dialog(flows'[d]) /\ (flows'[d].kind = "setup") = (data' = Nothing)
  <2>1. Open(d) /\ Dialog(flows[d]) /\ (flows[d].kind = "setup") = (data = Nothing)
    BY <1>3, <1>4 DEF IInv, DialogsSound
  <2>2. (flows[f].kind = "setup") = (data = Nothing)
    BY DEF IInv, DialogsSound
  <2>3. QED  BY <1>1, <1>2, <2>1, <2>2
<1>5. DialogsSound'
  BY <1>1, <1>2, <1>3, <1>4 DEF IInv, DialogsSound
<1>6. QED  BY <1>1, <1>5, EntryKept DEF IInv

LEMMA CloseSound ==
    ASSUME IInv, NEW f \in Flows, Show(f, Closed)
    PROVE  IInv' /\ StepSound
<1>1. UNCHANGED <<data, options, saves, stale>> /\ flows' = [flows EXCEPT ![f] = Closed]
  BY DEF Show
<1>2. DOMAIN flows' = Flows /\ ~Open(f)' /\ \A d \in Flows \ {f} : flows'[d] = flows[d]
  BY <1>1 DEF IInv, DialogsSound, Open, Closed
<1>3. \A d \in Flows : Open(d)' => Open(d) /\ flows'[d] = flows[d]
  BY <1>2 DEF Open
<1>4. ASSUME NEW d \in Flows, Open(d)'
      PROVE  Dialog(flows'[d]) /\ (flows'[d].kind = "setup") = (data' = Nothing)
  BY <1>1, <1>3, <1>4 DEF IInv, DialogsSound
<1>5. DialogsSound'
  BY <1>1, <1>2, <1>3, <1>4 DEF IInv, DialogsSound
<1>6. QED  BY <1>1, <1>5, EntryKept DEF IInv

Sections == {"measurements", "market", "supplier", "grid", "production", "insights"}

\* What a section's handler lets through, whatever the dialog is.
SectionSound(g, section, values) ==
    /\ section \in Sections
    /\ section = "measurements" =>
          /\ DOMAIN values = MeasurementKeys
          /\ MeasurementsAccepted(values, g.ref)
          /\ g.retried \/ PeriodIsTold(values, g)
    /\ section = "market" => Settled(values)
    /\ section = "supplier" => DOMAIN values \subseteq SupplierKeys /\ RateKnown(g, values)
    /\ section = "grid" => DOMAIN values \subseteq GridKeys
    /\ section = "production" =>
          DOMAIN values = ProductionKeys /\ BindingsAccepted(values, g.ref)
    /\ section = "insights" => DOMAIN values \subseteq InsightKeys

\* Accepted measurements or bindings keep apart what was apart where they
\* were checked.
LEMMA AcceptedMeasurements ==
    ASSUME NEW values, NEW ref, MeasurementsAccepted(values, ref), DOMAIN values = MeasurementKeys,
           NEW s, \A k \in {"power", "energy"} : Get(s, k) = values[k],
           \A k \in FlowKeys : Get(s, k) = Get(ref, k), ~SharesSource(ref)
    PROVE  ~SharesSource(s)
<1> SUFFICES ASSUME SharesSource(s) PROVE FALSE
  OBVIOUS
<1>1. ASSUME NEW k \in FlowKeys, Get(s, k) # None, s[k] \in {Get(s, "power"), Get(s, "energy")}
      PROVE  FALSE
  <2>1. s[k] = Get(s, k) /\ Get(s, k) = Get(ref, k)
    BY <1>1 DEF Get
  <2>2. PICK i \in {"power", "energy"} : values[i] = Get(ref, k)
    BY <1>1, <2>1
  <2>3. values[i] \notin {Get(ref, j) : j \in FlowKeys}
    BY <1>1, <2>1, <2>2 DEF MeasurementsAccepted
  <2>4. QED  BY <2>2, <2>3
<1>2. ASSUME NEW j \in FlowKeys, NEW k \in FlowKeys, j # k, Get(s, j) # None, Get(s, k) # None, s[j] = s[k]
      PROVE  FALSE
  <2>1. Get(ref, j) = Get(ref, k) /\ Get(ref, j) # None /\ Get(ref, k) # None
    BY <1>2 DEF Get
  <2>2. ref[j] = ref[k]
    BY <2>1 DEF Get
  <2>3. QED  BY <1>2, <2>1, <2>2 DEF SharesSource
<1>3. QED  BY <1>1, <1>2 DEF SharesSource

LEMMA AcceptedBindings ==
    ASSUME NEW values, NEW ref, BindingsAccepted(values, ref), DOMAIN values = ProductionKeys,
           NEW s, \A k \in {"power", "energy"} : Get(s, k) = Get(ref, k),
           \A k \in FlowKeys : Get(s, k) = values[k]
    PROVE  ~SharesSource(s)
<1> SUFFICES ASSUME SharesSource(s) PROVE FALSE
  OBVIOUS
<1>1. \A k \in FlowKeys : Get(s, k) # None => s[k] = values[k] /\ values[k] # None
  BY DEF Get
<1>2. ASSUME NEW k \in FlowKeys, Get(s, k) # None, s[k] \in {Get(s, "power"), Get(s, "energy")}
      PROVE  FALSE
  BY <1>1, <1>2 DEF BindingsAccepted
<1>3. ASSUME NEW j \in FlowKeys, NEW k \in FlowKeys, j # k, Get(s, j) # None, Get(s, k) # None, s[j] = s[k]
      PROVE  FALSE
  BY <1>1, <1>3 DEF BindingsAccepted
<1>4. QED  BY <1>2, <1>3 DEF SharesSource

LEMMA SaveSound ==
    ASSUME IInv, NEW f \in Flows, Open(f), data # Nothing,
           NEW g, NEW section, NEW values, SectionSound(g, section, values),
           section = "supplier" => Corrected(g),
           Save(f, g, section, values)
    PROVE  IInv' /\ StepSound
<1> DEFINE top == IF section = "supplier" THEN Overlay(g.market, values) ELSE values
           told == Told(g, section, values)
<1>1. /\ data' = data /\ options' = Overlay(options, top) /\ last' = told
      /\ flows' = [flows EXCEPT ![f] = Closed]
      /\ stale' = (stale \/ (section \in Referring /\ g.ref # Resolved))
  BY DEF Save, SavedOptions
<1>2. /\ told.section = section /\ told.values = values /\ told.rates = g.rates
      /\ told.periods = g.periods /\ told.retried = g.retried
      /\ told.opened = (IF section = "supplier" THEN Get(g.ref, "vatRate") ELSE None)
      /\ told.corrected = (IF section = "supplier" THEN g.market ELSE Nothing)
  BY DEF Told
<1> HIDE DEF told
<1>3. \A k : /\ DOMAIN Resolved' = DOMAIN Resolved \cup DOMAIN top
             /\ Get(Resolved', k) = IF k \in DOMAIN top THEN top[k] ELSE Get(Resolved, k)
             /\ k \in DOMAIN top => Resolved'[k] = top[k]
  <2> HIDE DEF top
  <2>1. PICK s, d, o : s = Resolved' /\ d = data /\ o = options
    OBVIOUS
  <2>2. s = Overlay(d, Overlay(o, top)) /\ Resolved = Overlay(d, o)
    BY <1>1, <2>1 DEF Resolved
  <2>3. ASSUME NEW k
        PROVE  /\ DOMAIN s = DOMAIN Resolved \cup DOMAIN top
               /\ Get(s, k) = IF k \in DOMAIN top THEN top[k] ELSE Get(Resolved, k)
               /\ k \in DOMAIN top => s[k] = top[k]
    <3>1. PICK m : m = Overlay(o, top)
      OBVIOUS
    <3>2. /\ DOMAIN m = DOMAIN o \cup DOMAIN top
          /\ k \in DOMAIN top => m[k] = top[k]
          /\ k \in DOMAIN o \ DOMAIN top => m[k] = o[k]
      BY <3>1 DEF Overlay
    <3>3. s = Overlay(d, m) /\ Resolved = Overlay(d, o)
      BY <2>2, <3>1
    <3>4. DOMAIN s = DOMAIN Resolved \cup DOMAIN top
      BY <3>2, <3>3 DEF Overlay
    <3>5. k \in DOMAIN top => s[k] = top[k]
      BY <3>2, <3>3 DEF Overlay
    <3>6. k \notin DOMAIN top => Get(s, k) = Get(Resolved, k)
      BY <3>2, <3>3 DEF Overlay, Get
    <3>7. k \in DOMAIN top => Get(s, k) = top[k]
      BY <3>4, <3>5 DEF Get
    <3>8. QED  BY <3>4, <3>5, <3>6, <3>7
  <2>4. QED  BY <2>1, <2>3
<1>4. \A k : /\ k \in DOMAIN top <=> k \in DOMAIN values \/ k \in DOMAIN told.corrected
             /\ k \in DOMAIN values => top[k] = values[k]
             /\ k \notin DOMAIN values /\ k \in DOMAIN told.corrected => top[k] = told.corrected[k]
  <2>1. CASE section = "supplier"
    <3>1. top = Overlay(g.market, values)
      BY <2>1
    <3> HIDE DEF top
    <3>2. QED  BY <1>2, <2>1, <3>1 DEF Overlay
  <2>2. CASE section # "supplier"
    BY <1>2, <2>2, GetNothing
  <2>3. QED  BY <2>1, <2>2
<1> HIDE DEF top
<1>5. DOMAIN values \subseteq Owned(told) /\ DOMAIN told.corrected \subseteq Owned(told)
  <2>1. DOMAIN values \subseteq Owned(told)
    BY <1>2 DEF Owned, SectionSound, Sections, Settled
  <2>2. QED  BY <1>2, <2>1, GetNothing DEF Owned
<1>6. TypedIsSaved
  BY <1>1, <1>2, <1>3, <1>4, <1>5 DEF TypedIsSaved
<1>7. /\ section \in {"market", "grid", "production", "insights"} => DOMAIN top \cap MeasurementKeys = {}
      /\ section # "production" => DOMAIN top \cap ProductionKeys = {}
      /\ section \notin {"market", "supplier"} => DOMAIN top \cap MarketKeys = {}
      /\ section # "supplier" => "vatRate" \notin DOMAIN top
      /\ section = "supplier" => DOMAIN top \subseteq MarketKeys \cup SupplierKeys
  BY <1>2, <1>4, KeysApart, KeysOf, GetNothing
     DEF SectionSound, Sections, Settled, Corrected
<1>8. section # "measurements" => DOMAIN top \cap MeasurementKeys = {}
  BY <1>7, KeysApart DEF SectionSound, Sections
<1>9. RateIsConfirmed
  <2>1. CASE section = "supplier"
    <3>1. "vatRate" \notin DOMAIN told.corrected
      BY <1>2, <2>1, KeysApart, KeysOf, GetNothing DEF Corrected, Settled
    <3>2. Get(values, "vatRate") \in {None, Get(g.ref, "vatRate")} \cup g.rates
      BY <2>1 DEF SectionSound, RateKnown
    <3>3. Get(Resolved', "vatRate") \in {Get(values, "vatRate"), Get(Resolved, "vatRate")}
      BY <1>3, <1>4, <3>1 DEF Get
    <3>4. QED  BY <1>1, <1>2, <2>1, <3>2, <3>3 DEF RateIsConfirmed
  <2>2. CASE section # "supplier"
    BY <1>3, <1>7, <2>2 DEF RateIsConfirmed
  <2>3. QED  BY <2>1, <2>2
<1>10. PeriodIsTyped
  <2> SUFFICES ASSUME section = "measurements", ~g.retried PROVE PeriodIsTold(Resolved', told)
    BY <1>1, <1>2 DEF PeriodIsTyped, SectionSound, Sections
  <2>1. PeriodIsTold(values, g) /\ DOMAIN values = MeasurementKeys
    BY DEF SectionSound
  <2>2. \A k \in {"energy", "energyType"} : Get(Resolved', k) = Get(values, k) /\ Resolved'[k] = values[k]
    BY <1>3, <1>4, <2>1, KeysOf DEF Get
  <2>3. QED  BY <1>2, <2>1, <2>2 DEF PeriodIsTold
<1>11. SharedOnlyIfStale'
  <2> SUFFICES ASSUME ~stale' PROVE ~SharesSource(Resolved')
    BY DEF SharedOnlyIfStale
  <2>1. ~SharesSource(Resolved) /\ (section \in Referring => g.ref = Resolved)
    BY <1>1 DEF IInv, SharedOnlyIfStale
  <2>2. CASE section = "measurements"
    <3>1. \A k \in {"power", "energy"} : Get(Resolved', k) = values[k]
      BY <1>3, <1>4, <2>2, KeysOf DEF SectionSound
    <3>2. \A k \in FlowKeys : Get(Resolved', k) = Get(g.ref, k)
      BY <1>3, <1>7, <2>1, <2>2, KeysOf DEF Referring
    <3>3. PICK s : s = Resolved'
      OBVIOUS
    <3>4. ~SharesSource(s)
      BY <2>1, <2>2, <3>1, <3>2, <3>3, AcceptedMeasurements DEF SectionSound, Referring
    <3>5. QED  BY <3>3, <3>4
  <2>3. CASE section = "production"
    <3>1. \A k \in FlowKeys : Get(Resolved', k) = values[k]
      BY <1>3, <1>4, <2>3, KeysOf DEF SectionSound
    <3>2. \A k \in {"power", "energy"} : Get(Resolved', k) = Get(g.ref, k)
      BY <1>3, <1>8, <2>1, <2>3, KeysOf DEF Referring
    <3>3. PICK s : s = Resolved'
      OBVIOUS
    <3>4. ~SharesSource(s)
      BY <2>3, <3>1, <3>2, <3>3, AcceptedBindings DEF SectionSound
    <3>5. QED  BY <3>3, <3>4
  <2>4. CASE section \notin Referring
    <3>1. \A k \in FlowKeys \cup {"power", "energy"} : Get(Resolved', k) = Get(Resolved, k)
      BY <1>3, <1>7, <1>8, <2>4, KeysOf DEF Referring
    <3>2. PICK s, t : s = Resolved' /\ t = Resolved
      OBVIOUS
    <3>3. SharesSource(s) = SharesSource(t)
      BY <3>1, <3>2, SharesBySource
    <3>4. QED  BY <2>1, <3>2, <3>3
  <2>5. QED  BY <2>2, <2>3, <2>4 DEF Referring
<1>12. AreaOfItsMarket'
  <2>1. CASE \E values2 : Settled(values2) /\ \A k \in MarketKeys : Get(Resolved', k) = values2[k]
    <3>1. PICK v : Settled(v) /\ \A k \in MarketKeys : Get(Resolved', k) = v[k]
      BY <2>1
    <3>2. Get(Resolved', "area") = v["area"] /\ Get(Resolved', "market") = v["market"] /\ AreaFits(v)
      BY <3>1, KeysOf DEF Settled
    <3>3. PICK a, m : a = Get(Resolved', "area") /\ m = Get(Resolved', "market")
      OBVIOUS
    <3>4. (a = None /\ Cardinality(MarketAreas(m)) <= 1) \/ a \in MarketAreas(m)
      BY <3>2, <3>3, MarketsFinite DEF AreaFits
    <3>5. QED  BY <3>3, <3>4 DEF AreaOfItsMarket
  <2>2. CASE DOMAIN top \cap MarketKeys = {}
    <3>1. Get(Resolved', "area") = Get(Resolved, "area") /\ Get(Resolved', "market") = Get(Resolved, "market")
      BY <1>3, <2>2, KeysOf
    <3>2. QED  BY <1>1, <3>1 DEF IInv, AreaOfItsMarket
  <2>3. CASE section = "market"
    <3>1. \A k \in MarketKeys : Get(Resolved', k) = values[k]
      BY <1>3, <1>4, <2>3 DEF SectionSound, Settled
    <3>2. QED  BY <2>1, <2>3, <3>1 DEF SectionSound
  <2>4. CASE section = "supplier"
    <3>1. DOMAIN values \cap MarketKeys = {}
      BY <2>4, KeysApart DEF SectionSound
    <3>2. CASE g.market = Nothing
      BY <1>2, <1>4, <2>2, <2>4, <3>1, <3>2, GetNothing
    <3>3. CASE Settled(g.market)
      <4>1. \A k \in MarketKeys : Get(Resolved', k) = g.market[k]
        BY <1>2, <1>3, <1>4, <2>4, <3>1, <3>3 DEF Settled
      <4>2. QED  BY <2>1, <3>3, <4>1
    <3>4. QED  BY <2>4, <3>2, <3>3 DEF Corrected
  <2>5. QED  BY <1>7, <2>2, <2>3, <2>4
<1>13. DialogsSound'
  <2>1. DOMAIN flows' = Flows /\ ~Open(f)' /\ \A d \in Flows \ {f} : flows'[d] = flows[d]
    BY <1>1 DEF IInv, DialogsSound, Open, Closed
  <2>2. \A d \in Flows : Open(d)' => Open(d) /\ flows'[d] = flows[d]
    BY <2>1 DEF Open
  <2>3. ASSUME NEW d \in Flows, Open(d)'
        PROVE  Dialog(flows'[d]) /\ (flows'[d].kind = "setup") = (data' = Nothing)
    BY <1>1, <2>2, <2>3 DEF IInv, DialogsSound
  <2>4. QED  BY <1>1, <2>1, <2>3 DEF DialogsSound
<1>14. QED  BY <1>6, <1>9, <1>10, <1>11, <1>12, <1>13 DEF IInv, StepSound

-----------------------------------------------------------------------------
(* Opening a section leaves the dialog sound at that section's first form.  *)

LEMMA DiscoveredUnrated ==
    ASSUME NEW home \in Homes
    PROVE  DOMAIN home \subseteq TibberKeys /\ "vatRate" \notin DOMAIN home
<1>1. PICK device : home = Discovered(device)
  BY DEF Homes
<1> DEFINE found   == {e \in Registry : e.device = device /\ e.enabled}
           sources == [k \in {e.key : e \in found} |-> (CHOOSE e \in found : e.key = k).entity]
           daily   == IF "energy" \in DOMAIN sources THEN Each({"energyType"}, "daily") ELSE Nothing
           priced  == IF "price" \in DOMAIN sources
                      THEN Each({"profile", "declaration"}, "tibber") ELSE Nothing
<1>2. home = Overlay(sources, Overlay(daily, priced))
  BY <1>1 DEF Discovered
<1>3. DOMAIN sources \subseteq {"power", "energy", "reading", "price", "dailyCost"}
  BY SectionsAssumption
<1>4. DOMAIN daily \subseteq {"energyType"} /\ DOMAIN priced \subseteq {"profile", "declaration"}
  BY DEF Each, Nothing
<1> HIDE DEF sources, daily, priced
<1>5. DOMAIN home = DOMAIN sources \cup (DOMAIN daily \cup DOMAIN priced)
  BY <1>2 DEF Overlay
<1>6. QED  BY <1>3, <1>4, <1>5 DEF TibberKeys, MeasurementKeys, SupplierKeys

LEMMA MeasurementDraftIs ==
    ASSUME NEW ref
    PROVE  LET draft == MeasurementDraft(ref) IN
           /\ DOMAIN draft \subseteq MeasurementKeys /\ "energyType" \in DOMAIN draft
           /\ Get(draft, "energy") = Get(ref, "energy")
<1> DEFINE kept == Only(ref, MeasurementKeys)
           draft == MeasurementDraft(ref)
<1>1. DOMAIN kept \subseteq MeasurementKeys /\ Get(kept, "energy") = Get(ref, "energy")
      /\ ("energyType" \notin DOMAIN kept => Get(kept, "energyType") = None)
  BY KeysOf DEF Only, Get
<1>2. draft = IF Get(kept, "energyType") \in EnergyTypes THEN kept
              ELSE Overlay(kept, Each({"energyType"}, "daily"))
  BY DEF MeasurementDraft
<1> HIDE DEF kept, draft
<1>3. CASE Get(kept, "energyType") \in EnergyTypes
  BY <1>1, <1>2, <1>3, SectionsAssumption DEF EnergyTypes, draft
<1>4. CASE Get(kept, "energyType") \notin EnergyTypes
  <2>1. DOMAIN draft = DOMAIN kept \cup {"energyType"} /\ Get(draft, "energy") = Get(kept, "energy")
    BY <1>2, <1>4 DEF Overlay, Each, Get
  <2>2. QED  BY <1>1, <2>1, KeysOf DEF draft
<1>5. QED  BY <1>3, <1>4

(* One dialog is another with some fields changed. *)
SameBut(h, g, fields) ==
    DOMAIN h = DialogFields /\ \A x \in DialogFields \ fields : h[x] = g[x]

LEMMA BeginMeasurementsSound ==
    ASSUME NEW g, Drafted(g), g.kind = "setup" => Unrated(g), g.kind = "options" => Corrected(g),
           NEW h, h = BeginMeasurements(g)
    PROVE  Dialog(h) /\ h.kind = g.kind
<1>1. PICK ref, draft :
         /\ draft = MeasurementDraft(ref)
         /\ h = [g EXCEPT !.step = "measurements", !.ref = ref, !.measurements = draft,
                          !.periods = {<<Get(draft, "energy"), draft["energyType"]>>}]
  BY DEF BeginMeasurements
<1>2. /\ SameBut(h, g, {"step", "ref", "measurements", "periods"})
      /\ h.step = "measurements" /\ h.ref = ref /\ h.measurements = draft
      /\ h.periods = {<<Get(draft, "energy"), draft["energyType"]>>}
  BY <1>1, FieldsAre DEF SameBut, Drafted
<1>3. /\ h.kind = g.kind /\ h.tibber = g.tibber /\ h.market = g.market /\ h.supplier = g.supplier
      /\ h.grid = g.grid /\ h.production = g.production /\ h.insights = g.insights
      /\ h.supplierOpen = g.supplierOpen
  BY <1>2, FieldsAre DEF SameBut
<1>4. /\ DOMAIN draft \subseteq MeasurementKeys /\ "energyType" \in DOMAIN draft
      /\ Get(draft, "energy") = Get(ref, "energy")
  BY <1>1, MeasurementDraftIs
<1>5. Drafted(h)
  BY <1>2, <1>3, <1>4 DEF Drafted, SameBut
<1>6. Wizard(h) \/ h.kind # "setup"
  BY <1>2, <1>3, StepsAre DEF Wizard, Unrated
<1>7. Shown(h)
  BY <1>2, <1>4, StepsAre DEF Shown, ShowsPeriod
<1>8. QED  BY <1>2, <1>3, <1>5, <1>6, <1>7, StepsAre DEF Dialog, Corrected

LEMMA BeginMarketSound ==
    ASSUME NEW g, Drafted(g), g.kind = "setup" => Unrated(g) /\ Measured(g),
           NEW h, h = BeginMarket(g)
    PROVE  Dialog(h) /\ h.kind = g.kind
<1>1. PICK draft : DOMAIN draft = MarketKeys /\ h = [g EXCEPT !.step = "market_prices", !.market = draft]
  BY DEF BeginMarket, MarketDraft
<1>2. /\ SameBut(h, g, {"step", "market"})
      /\ h.step = "market_prices" /\ DOMAIN h.market = MarketKeys
  BY <1>1, FieldsAre DEF SameBut, Drafted
<1>3. /\ h.kind = g.kind /\ h.tibber = g.tibber /\ h.supplier = g.supplier
      /\ h.measurements = g.measurements /\ h.retried = g.retried /\ h.periods = g.periods
      /\ h.grid = g.grid /\ h.production = g.production /\ h.insights = g.insights
      /\ h.supplierOpen = g.supplierOpen
  BY <1>2, FieldsAre DEF SameBut
<1>4. Drafted(h)
  BY <1>2, <1>3 DEF Drafted, SameBut
<1>5. Wizard(h) \/ h.kind # "setup"
  BY <1>2, <1>3, StepsAre DEF Wizard, Unrated, Measured, PeriodIsTold
<1>6. Shown(h)
  BY <1>2, StepsAre DEF Shown
<1>7. QED  BY <1>2, <1>3, <1>4, <1>5, <1>6, StepsAre DEF Dialog

(* The supplier form of an options dialog whose area is no longer offered   *)
(* asks for the area first.                                                 *)
LEMMA BeginSupplierSound ==
    ASSUME NEW g, Drafted(g),
           g.kind = "setup" => Unrated(g) /\ Measured(g) /\ Settled(g.market),
           g.kind = "options" => Corrected(g),
           NEW h, h = BeginSupplier(g)
    PROVE  Dialog(h) /\ h.kind = g.kind
<1>1. PICK o : o = [g EXCEPT !.supplierOpen = (g.kind = "options")]
  OBVIOUS
<1>2. PICK ref : ref = IF g.kind = "options" THEN SavedDefaults(o) ELSE SetupDefaults(g)
  OBVIOUS
<1>3. h = IF g.kind = "options" /\ NeedsArea(ref)
          THEN [o EXCEPT !.step = "market_area", !.market = MarketDraft(ref), !.ref = ref]
          ELSE [o EXCEPT !.step = "supplier", !.ref = ref, !.supplier = SupplierDraft(ref)]
  BY <1>1, <1>2 DEF BeginSupplier
<1>4. DOMAIN o = DialogFields /\ o.supplierOpen = (g.kind = "options")
      /\ \A x \in DialogFields \ {"supplierOpen"} : o[x] = g[x]
  BY <1>1, FieldsAre DEF Drafted
<1>5. /\ SameBut(h, g, {"step", "ref", "market", "supplier", "supplierOpen"})
      /\ h.ref = ref /\ h.supplierOpen = (g.kind = "options")
  BY <1>3, <1>4, FieldsAre DEF SameBut
<1>6. /\ h.kind = g.kind /\ h.tibber = g.tibber
      /\ h.measurements = g.measurements /\ h.retried = g.retried /\ h.periods = g.periods
      /\ h.grid = g.grid /\ h.production = g.production /\ h.insights = g.insights
  BY <1>5, FieldsAre DEF SameBut
<1>7. CASE g.kind = "options" /\ NeedsArea(ref)
  <2>1. h.step = "market_area" /\ h.market = MarketDraft(ref) /\ h.supplier = g.supplier
    BY <1>3, <1>4, <1>7, FieldsAre
  <2>2. DOMAIN h.market = MarketKeys /\ HasSeveral(h.market["market"])
    BY <1>7, <2>1 DEF MarketDraft, MarketKeys, NeedsArea, HasSeveral
  <2>3. Drafted(h)
    BY <1>5, <1>6, <2>1, <2>2 DEF Drafted, SameBut
  <2>4. Shown(h)
    BY <2>1, <2>2, StepsAre DEF Shown
  <2>5. QED  BY <1>6, <1>7, <2>1, <2>3, <2>4, StepsAre DEF Dialog
<1>8. CASE ~(g.kind = "options" /\ NeedsArea(ref))
  <2>1. h.step = "supplier" /\ h.supplier = SupplierDraft(ref) /\ h.market = g.market
    BY <1>3, <1>4, <1>8, FieldsAre
  <2>2. DOMAIN h.supplier \subseteq SupplierKeys /\ Get(h.supplier, "vatRate") = Get(ref, "vatRate")
    BY <2>1, KeysOf DEF SupplierDraft, Only, Get
  <2>3. Drafted(h)
    BY <1>5, <1>6, <2>1, <2>2 DEF Drafted, SameBut
  <2>4. g.kind = "setup" => Get(ref, "vatRate") = None
    <3> SUFFICES ASSUME g.kind = "setup" PROVE Get(ref, "vatRate") = None
      OBVIOUS
    <3> DEFINE known == IF Complete(g.tibber) THEN g.tibber ELSE Nothing
    <3>1. ref = Overlay(known, Overlay(g.measurements, g.market))
      BY <1>2 DEF SetupDefaults
    <3>2. "vatRate" \notin DOMAIN known
      BY GetNothing DEF Unrated
    <3>3. "vatRate" \notin DOMAIN g.measurements \cup DOMAIN g.market
      BY KeysApart, KeysOf DEF Drafted
    <3> HIDE DEF known
    <3>4. "vatRate" \notin DOMAIN ref
      BY <3>1, <3>2, <3>3 DEF Overlay
    <3>5. QED  BY <3>4 DEF Get
  <2>5. Supplying(h)
    BY <1>5, <1>6, <2>2, <2>4 DEF Supplying, RateKnown
  <2>6. Wizard(h) \/ h.kind # "setup"
    BY <1>6, <2>1, StepsAre DEF Wizard, Unrated, Measured, PeriodIsTold
  <2>7. Shown(h)
    BY <2>1, <2>5, StepsAre DEF Shown
  <2>8. QED  BY <1>6, <2>1, <2>3, <2>6, <2>7, StepsAre DEF Dialog, Corrected
<1>9. QED  BY <1>7, <1>8

LEMMA GridDraftIs == \A ref : DOMAIN GridDraft(ref) = GridKeys /\ GridMode(ref) \in GridModes
BY DEF GridDraft, GridMode, GridModes

LEMMA BeginGridSound ==
    ASSUME NEW g, Drafted(g),
           g.kind = "setup" => Measured(g) /\ Settled(g.market) /\ Supplied(g),
           g.kind = "options" => Corrected(g),
           NEW h, h = BeginGrid(g)
    PROVE  Dialog(h) /\ h.kind = g.kind
<1>1. PICK ref, draft, mode :
         /\ DOMAIN draft = GridKeys /\ mode \in GridModes
         /\ h = [g EXCEPT !.step = "grid", !.ref = ref, !.grid = draft, !.gridMode = mode]
  BY GridDraftIs DEF BeginGrid
<1>2. /\ SameBut(h, g, {"step", "ref", "grid", "gridMode"})
      /\ h.step = "grid" /\ DOMAIN h.grid = GridKeys /\ h.gridMode \in GridModes
  BY <1>1, FieldsAre DEF SameBut, Drafted
<1>3. /\ h.kind = g.kind /\ h.tibber = g.tibber /\ h.supplier = g.supplier /\ h.market = g.market
      /\ h.measurements = g.measurements /\ h.retried = g.retried /\ h.periods = g.periods
      /\ h.production = g.production /\ h.insights = g.insights
      /\ h.supplierOpen = g.supplierOpen /\ h.rates = g.rates
  BY <1>2, FieldsAre DEF SameBut
<1>4. Drafted(h)
  BY <1>2, <1>3 DEF Drafted, SameBut
<1>5. Wizard(h) \/ h.kind # "setup"
  BY <1>2, <1>3, StepsAre DEF Wizard, Measured, PeriodIsTold, Supplied
<1>6. Shown(h)
  BY <1>2, StepsAre DEF Shown
<1>7. QED  BY <1>2, <1>3, <1>4, <1>5, <1>6, StepsAre DEF Dialog, Corrected

LEMMA ProductionDraftIs == \A ref : DOMAIN ProductionDraft(ref) = ProductionKeys
BY DEF ProductionDraft

LEMMA BeginFlowsSound ==
    ASSUME NEW g, Drafted(g),
           g.kind = "setup" => Measured(g) /\ Settled(g.market) /\ Supplied(g),
           g.kind = "options" => Corrected(g),
           NEW h, h = BeginFlows(g)
    PROVE  Dialog(h) /\ h.kind = g.kind
<1>1. PICK ref, draft, on :
         /\ ref = IF g.kind = "options" THEN SavedDefaults(g) ELSE ProductionDefaults(g)
         /\ DOMAIN draft = ProductionKeys
         /\ h = [g EXCEPT !.step = "energy_flows", !.ref = ref, !.production = draft, !.flowsOn = on]
  BY ProductionDraftIs DEF BeginFlows
<1>2. /\ SameBut(h, g, {"step", "ref", "production", "flowsOn"})
      /\ h.step = "energy_flows" /\ DOMAIN h.production = ProductionKeys /\ h.ref = ref
  BY <1>1, FieldsAre DEF SameBut, Drafted
<1>3. /\ h.kind = g.kind /\ h.tibber = g.tibber /\ h.supplier = g.supplier /\ h.market = g.market
      /\ h.measurements = g.measurements /\ h.retried = g.retried /\ h.periods = g.periods
      /\ h.grid = g.grid /\ h.insights = g.insights
      /\ h.supplierOpen = g.supplierOpen /\ h.rates = g.rates
  BY <1>2, FieldsAre DEF SameBut
<1>4. Drafted(h)
  BY <1>2, <1>3 DEF Drafted, SameBut
<1>5. Wizard(h) \/ h.kind # "setup"
  BY <1>2, <1>3, StepsAre DEF Wizard, Measured, PeriodIsTold, Supplied
<1>6. ASSUME g.kind = "setup", NEW k \in {"power", "energy"}
      PROVE  Get(ref, k) = g.measurements[k]
  <2> DEFINE known == IF Complete(g.tibber) THEN g.tibber ELSE Nothing
             first == Overlay(g.measurements, g.market)
             later == Overlay(g.supplier, g.grid)
  <2>1. k \in DOMAIN g.measurements
        /\ k \notin DOMAIN g.market \cup DOMAIN g.supplier \cup DOMAIN g.grid
    BY <1>6, KeysApart, KeysOf DEF Drafted, Measured
  <2>2. k \in DOMAIN first /\ first[k] = g.measurements[k] /\ k \notin DOMAIN later
    BY <2>1 DEF Overlay
  <2>3. ref = Overlay(Overlay(known, first), later)
    BY <1>1, <1>6 DEF ProductionDefaults, SetupDefaults
  <2> HIDE DEF known, first, later
  <2>4. k \in DOMAIN Overlay(known, first) /\ Overlay(known, first)[k] = first[k]
    BY <2>2 DEF Overlay
  <2>5. k \in DOMAIN ref /\ ref[k] = first[k]
    BY <2>2, <2>3, <2>4 DEF Overlay
  <2>6. QED  BY <2>2, <2>5 DEF Get
<1>7. Producing(h)
  BY <1>2, <1>3, <1>6 DEF Producing
<1>8. Shown(h)
  BY <1>2, <1>7, StepsAre DEF Shown
<1>9. QED  BY <1>2, <1>3, <1>4, <1>5, <1>8, StepsAre DEF Dialog, Corrected

LEMMA BeginInsightsSound ==
    ASSUME NEW g, Drafted(g),
           g.kind = "setup" => Measured(g) /\ Settled(g.market) /\ Supplied(g) /\ Produced(g),
           g.kind = "options" => Corrected(g),
           NEW h, h = BeginInsights(g)
    PROVE  Dialog(h) /\ h.kind = g.kind
<1>1. PICK ref, draft, had :
         /\ draft = InsightDraft(ref)
         /\ h = [g EXCEPT !.step = "insights", !.ref = ref, !.insights = draft, !.hadThreshold = had]
  BY DEF BeginInsights
<1>2. /\ SameBut(h, g, {"step", "ref", "insights", "hadThreshold"})
      /\ h.step = "insights" /\ h.insights = draft
  BY <1>1, FieldsAre DEF SameBut, Drafted
<1>3. /\ h.kind = g.kind /\ h.tibber = g.tibber /\ h.supplier = g.supplier /\ h.market = g.market
      /\ h.measurements = g.measurements /\ h.retried = g.retried /\ h.periods = g.periods
      /\ h.grid = g.grid /\ h.production = g.production
      /\ h.supplierOpen = g.supplierOpen /\ h.rates = g.rates
  BY <1>2, FieldsAre DEF SameBut
<1>4. DOMAIN h.insights \subseteq InsightKeys
  BY <1>1, <1>2 DEF InsightDraft, Overlay, Only, InsightKeys
<1>5. Drafted(h)
  BY <1>2, <1>3, <1>4 DEF Drafted, SameBut
<1>6. Wizard(h) \/ h.kind # "setup"
  BY <1>2, <1>3, StepsAre DEF Wizard, Measured, PeriodIsTold, Supplied, Produced
<1>7. Shown(h)
  BY <1>2, StepsAre DEF Shown
<1>8. QED  BY <1>2, <1>3, <1>5, <1>6, <1>7, StepsAre DEF Dialog, Corrected

-----------------------------------------------------------------------------
(* Completing a section: the wizard goes on to the next, an options dialog *)
(* saves and closes.                                                       *)

\* What a wizard has when it completes a section.
Stage(g, section) ==
    /\ section \in {"measurements", "market", "supplier"} => Unrated(g)
    /\ section # "measurements" => Measured(g)
    /\ section \notin {"measurements", "market"} => Settled(g.market)
    /\ section = "supplier" => Get(g.ref, "vatRate") = None
    /\ section \in {"grid", "production", "insights"} => Supplied(g)
    /\ section = "production" => \A k \in {"power", "energy"} : Get(g.ref, k) = g.measurements[k]
    /\ section = "insights" => Produced(g)

LEMMA LearnedIs ==
    ASSUME NEW g, NEW values, DOMAIN g.tibber \subseteq TibberKeys, DOMAIN values \subseteq TibberKeys,
           NEW learned, learned = Learned(g, values)
    PROVE  /\ DOMAIN learned \subseteq TibberKeys
           /\ Get(learned, "vatRate") \in {Get(g.tibber, "vatRate"), Get(values, "vatRate")}
           /\ "vatRate" \notin DOMAIN g.tibber \cup DOMAIN values => "vatRate" \notin DOMAIN learned
<1>1. CASE g.tibber = Nothing
  BY <1>1, GetNothing DEF Learned
<1>2. CASE g.tibber # Nothing
  <2>1. learned = Overlay(g.tibber, values)
    BY <1>2 DEF Learned
  <2>2. DOMAIN learned = DOMAIN g.tibber \cup DOMAIN values
    BY <2>1 DEF Overlay
  <2>3. Get(learned, "vatRate") \in {Get(g.tibber, "vatRate"), Get(values, "vatRate")}
    BY <2>1 DEF Overlay, Get
  <2>4. QED  BY <2>2, <2>3
<1>3. QED  BY <1>1, <1>2

LEMMA WizardSound ==
    ASSUME NEW g, Drafted(g), g.kind = "setup",
           NEW section, NEW values, SectionSound(g, section, values), Stage(g, section),
           NEW h, h = WizardNext(g, section, values)
    PROVE  Dialog(h) /\ h.kind = "setup"
<1>1. PICK learned : learned = Learned(g, values)
  OBVIOUS
<1>2. CASE section = "measurements"
  <2>1. PICK m : m = [g EXCEPT !.measurements = values, !.tibber = learned]
    OBVIOUS
  <2>2. h = BeginMarket(m)
    BY <1>1, <1>2, <2>1 DEF WizardNext
  <2>3. SameBut(m, g, {"measurements", "tibber"}) /\ m.measurements = values /\ m.tibber = learned
    BY <2>1, FieldsAre DEF SameBut, Drafted
  <2>4. /\ m.kind = "setup" /\ m.market = g.market /\ m.supplier = g.supplier /\ m.grid = g.grid
        /\ m.production = g.production /\ m.insights = g.insights
        /\ m.supplierOpen = g.supplierOpen /\ m.retried = g.retried /\ m.periods = g.periods
    BY <2>3, FieldsAre DEF SameBut
  <2>5. DOMAIN values = MeasurementKeys /\ (g.retried \/ PeriodIsTold(values, g))
    BY <1>2 DEF SectionSound
  <2>6. DOMAIN learned \subseteq TibberKeys /\ "vatRate" \notin DOMAIN learned
    BY <1>1, <1>2, <2>5, LearnedIs, KeysApart, KeysOf DEF Drafted, Stage, Unrated, TibberKeys
  <2>7. Drafted(m)
    BY <2>3, <2>4, <2>5, <2>6 DEF Drafted, SameBut
  <2>8. Unrated(m) /\ Measured(m)
    BY <2>3, <2>4, <2>5, <2>6 DEF Unrated, Measured, PeriodIsTold
  <2>9. QED  BY <2>2, <2>4, <2>7, <2>8, BeginMarketSound
<1>3. CASE section = "market"
  <2>1. PICK m : m = [g EXCEPT !.market = values, !.tibber = learned]
    OBVIOUS
  <2>2. h = BeginSupplier(m)
    BY <1>1, <1>3, <2>1 DEF WizardNext
  <2>3. SameBut(m, g, {"market", "tibber"}) /\ m.market = values /\ m.tibber = learned
    BY <2>1, FieldsAre DEF SameBut, Drafted
  <2>4. /\ m.kind = "setup" /\ m.measurements = g.measurements /\ m.supplier = g.supplier
        /\ m.grid = g.grid /\ m.production = g.production /\ m.insights = g.insights
        /\ m.supplierOpen = g.supplierOpen /\ m.retried = g.retried /\ m.periods = g.periods
    BY <2>3, FieldsAre DEF SameBut
  <2>5. Settled(values) /\ DOMAIN values = MarketKeys
    BY <1>3 DEF SectionSound, Settled
  <2>6. DOMAIN learned \subseteq TibberKeys /\ "vatRate" \notin DOMAIN learned
    BY <1>1, <1>3, <2>5, LearnedIs, KeysApart, KeysOf DEF Drafted, Stage, Unrated, TibberKeys
  <2>7. Drafted(m)
    BY <2>3, <2>4, <2>5, <2>6 DEF Drafted, SameBut
  <2>8. Unrated(m) /\ Measured(m)
    BY <1>3, <2>3, <2>4, <2>6 DEF Stage, Unrated, Measured, PeriodIsTold
  <2>9. QED  BY <2>2, <2>3, <2>4, <2>5, <2>7, <2>8, BeginSupplierSound
<1>4. CASE section = "supplier"
  <2>1. PICK m, on : m = [g EXCEPT !.supplier = values, !.tibber = learned, !.setupTibber = on]
                     /\ on = Complete(g.tibber)
    OBVIOUS
  <2>2. h = BeginGrid(m)
    BY <1>1, <1>4, <2>1 DEF WizardNext
  <2>3. /\ SameBut(m, g, {"supplier", "tibber", "setupTibber"})
        /\ m.supplier = values /\ m.tibber = learned
    BY <2>1, FieldsAre DEF SameBut, Drafted
  <2>4. /\ m.kind = "setup" /\ m.measurements = g.measurements /\ m.market = g.market
        /\ m.grid = g.grid /\ m.production = g.production /\ m.insights = g.insights
        /\ m.supplierOpen = g.supplierOpen /\ m.retried = g.retried /\ m.periods = g.periods
        /\ m.rates = g.rates
    BY <2>3, FieldsAre DEF SameBut
  <2>5. /\ DOMAIN values \subseteq SupplierKeys
        /\ Get(values, "vatRate") \in {None} \cup g.rates /\ Get(g.tibber, "vatRate") = None
    BY <1>4 DEF SectionSound, RateKnown, Stage, Unrated, Get
  <2>6. DOMAIN learned \subseteq TibberKeys
        /\ Get(learned, "vatRate") \in {Get(g.tibber, "vatRate"), Get(values, "vatRate")}
    BY <1>1, <2>5, LearnedIs DEF Drafted, TibberKeys
  <2>7. Drafted(m)
    BY <2>3, <2>4, <2>5, <2>6 DEF Drafted, SameBut
  <2>8. Supplied(m)
    BY <2>3, <2>4, <2>5, <2>6 DEF Supplied
  <2>9. Measured(m) /\ Settled(m.market)
    BY <1>4, <2>4 DEF Stage, Measured, PeriodIsTold
  <2>10. QED  BY <2>2, <2>4, <2>7, <2>8, <2>9, BeginGridSound
<1>5. CASE section = "grid"
  <2>1. PICK m : m = [g EXCEPT !.grid = values]
    OBVIOUS
  <2>2. h = BeginFlows(m)
    BY <1>5, <2>1 DEF WizardNext
  <2>3. SameBut(m, g, {"grid"}) /\ m.grid = values
    BY <2>1, FieldsAre DEF SameBut, Drafted
  <2>4. /\ m.kind = "setup" /\ m.measurements = g.measurements /\ m.market = g.market
        /\ m.supplier = g.supplier /\ m.production = g.production /\ m.insights = g.insights
        /\ m.supplierOpen = g.supplierOpen /\ m.retried = g.retried /\ m.periods = g.periods
        /\ m.rates = g.rates /\ m.tibber = g.tibber
    BY <2>3, FieldsAre DEF SameBut
  <2>5. Drafted(m)
    BY <1>5, <2>3, <2>4 DEF Drafted, SameBut, SectionSound
  <2>6. Measured(m) /\ Settled(m.market) /\ Supplied(m)
    BY <1>5, <2>4 DEF Stage, Measured, PeriodIsTold, Supplied
  <2>7. QED  BY <2>2, <2>4, <2>5, <2>6, BeginFlowsSound
<1>6. CASE section = "production"
  <2>1. PICK m : m = [g EXCEPT !.production = values]
    OBVIOUS
  <2>2. h = BeginInsights(m)
    BY <1>6, <2>1 DEF WizardNext
  <2>3. SameBut(m, g, {"production"}) /\ m.production = values
    BY <2>1, FieldsAre DEF SameBut, Drafted
  <2>4. /\ m.kind = "setup" /\ m.measurements = g.measurements /\ m.market = g.market
        /\ m.supplier = g.supplier /\ m.grid = g.grid /\ m.insights = g.insights
        /\ m.supplierOpen = g.supplierOpen /\ m.retried = g.retried /\ m.periods = g.periods
        /\ m.rates = g.rates /\ m.tibber = g.tibber
    BY <2>3, FieldsAre DEF SameBut
  <2>5. DOMAIN values = ProductionKeys /\ BindingsAccepted(values, g.ref)
    BY <1>6 DEF SectionSound
  <2>6. Drafted(m)
    BY <2>3, <2>4, <2>5 DEF Drafted, SameBut
  <2>7. Measured(m) /\ Settled(m.market) /\ Supplied(m)
    BY <1>6, <2>4 DEF Stage, Measured, PeriodIsTold, Supplied
  <2>8. ~SharesSource(Overlay(g.measurements, values))
    <3>1. PICK s : s = Overlay(g.measurements, values)
      OBVIOUS
    <3>2. DOMAIN g.measurements = MeasurementKeys
      BY <1>6 DEF Stage, Measured
    <3>3. \A k \in FlowKeys : Get(s, k) = values[k]
      BY <2>5, <3>1, KeysOf, GetOverlay
    <3>4. \A k \in {"power", "energy"} : Get(s, k) = g.measurements[k]
      BY <2>5, <3>1, <3>2, KeysApart, KeysOf, GetOverlay DEF Get
    <3>5. \A k \in {"power", "energy"} : Get(s, k) = Get(g.ref, k)
      BY <1>6, <3>4 DEF Stage
    <3>6. QED  BY <2>5, <3>1, <3>3, <3>5, AcceptedBindings
  <2>9. Produced(m)
    BY <2>3, <2>4, <2>5, <2>8 DEF Produced
  <2>10. QED  BY <2>2, <2>4, <2>6, <2>7, <2>9, BeginInsightsSound
<1>7. CASE section = "insights"
  <2>1. PICK review : review = Assembled(g, values)
    OBVIOUS
  <2>2. h = [g EXCEPT !.insights = values, !.review = review, !.step = "review"]
    BY <1>7, <2>1 DEF WizardNext
  <2>3. /\ SameBut(h, g, {"insights", "review", "step"})
        /\ h.insights = values /\ h.review = review /\ h.step = "review"
    BY <2>2, FieldsAre DEF SameBut, Drafted
  <2>4. /\ h.kind = "setup" /\ h.measurements = g.measurements /\ h.market = g.market
        /\ h.supplier = g.supplier /\ h.grid = g.grid /\ h.production = g.production
        /\ h.supplierOpen = g.supplierOpen /\ h.retried = g.retried /\ h.periods = g.periods
        /\ h.rates = g.rates /\ h.tibber = g.tibber /\ h.setupTibber = g.setupTibber
    BY <2>3, FieldsAre DEF SameBut
  <2>5. Drafted(h)
    BY <1>7, <2>3, <2>4 DEF Drafted, SameBut, SectionSound
  <2>6. Measured(h) /\ Settled(h.market) /\ Supplied(h) /\ Produced(h)
    BY <1>7, <2>4 DEF Stage, Measured, PeriodIsTold, Supplied, Produced
  <2>7. h.review = Assembled(h, h.insights)
    BY <2>1, <2>3, <2>4 DEF Assembled
  <2>8. Wizard(h)
    BY <2>3, <2>6, <2>7, StepsAre DEF Wizard
  <2>9. Shown(h)
    BY <2>3, StepsAre DEF Shown
  <2>10. QED  BY <2>3, <2>4, <2>5, <2>8, <2>9 DEF Dialog
<1>8. QED  BY <1>2, <1>3, <1>4, <1>5, <1>6, <1>7 DEF SectionSound, Sections

LEMMA FinishSound ==
    ASSUME IInv, NEW f \in Flows, Open(f),
           NEW g, Drafted(g), g.kind = flows[f].kind,
           NEW section, NEW values, SectionSound(g, section, values),
           g.kind = "setup" => Stage(g, section),
           g.kind = "options" /\ section = "supplier" => Corrected(g),
           Finish(f, g, section, values)
    PROVE  IInv' /\ StepSound
<1>1. g.kind \in {"setup", "options"} /\ (g.kind = "setup") = (data = Nothing)
  BY DEF Drafted, IInv, DialogsSound
<1>2. CASE g.kind = "options"
  BY <1>1, <1>2, SaveSound DEF Finish
<1>3. CASE g.kind = "setup"
  <2>1. PICK h : h = WizardNext(g, section, values)
    OBVIOUS
  <2>2. Show(f, h)
    BY <1>3, <2>1 DEF Finish
  <2>3. Dialog(h) /\ h.kind = "setup"
    BY <1>3, <2>1, WizardSound
  <2>4. QED  BY <1>3, <2>2, <2>3, ShowSound
<1>4. QED  BY <1>1, <1>2, <1>3

-----------------------------------------------------------------------------
(* The handlers, section by section. *)

LEMMA AtStage ==
    ASSUME NEW g, Dialog(g)
    PROVE  /\ Drafted(g) /\ (g.kind = "setup" \/ g.kind = "options")
           /\ g.kind = "setup" =>
                 /\ g.step \in {"measurements", "measurement_energy"} => Stage(g, "measurements")
                 /\ g.step \in MarketSteps => Stage(g, "market")
                 /\ g.step = "grid" => Stage(g, "grid")
                 /\ g.step \in FlowSteps => Stage(g, "production")
                 /\ g.step = "insights" => Stage(g, "insights")
<1>1. Drafted(g) /\ (g.kind = "setup" \/ g.kind = "options")
  BY DEF Dialog, Drafted
<1>2. ASSUME g.kind = "setup"
      PROVE  /\ g.step \in {"measurements", "measurement_energy"} => Stage(g, "measurements")
             /\ g.step \in MarketSteps => Stage(g, "market")
             /\ g.step = "grid" => Stage(g, "grid")
             /\ g.step \in FlowSteps => Stage(g, "production")
             /\ g.step = "insights" => Stage(g, "insights")
  <2>1. Wizard(g)
    BY <1>2 DEF Dialog
  <2>2. g.step \in FlowSteps => \A k \in {"power", "energy"} : Get(g.ref, k) = g.measurements[k]
    BY <1>2 DEF Dialog, Shown, Producing
  <2>3. QED  BY <2>1, <2>2, StepsAre DEF Wizard, Stage
<1>3. QED  BY <1>1, <1>2

\* The dialog of an open flow, and what its handler may rely on.
LEMMA OpenDialog ==
    ASSUME IInv, NEW f \in Flows, flows[f].step # "closed"
    PROVE  Open(f) /\ Dialog(flows[f])
BY DEF IInv, DialogsSound, Open

LEMMA SawIs ==
    ASSUME NEW g, Drafted(g), NEW values, NEW h, h = Saw(g, values)
    PROVE  /\ SameBut(h, g, {"periods"}) /\ Drafted(h)
           /\ <<values["energy"], values["energyType"]>> \in h.periods
           /\ h.kind = g.kind /\ h.ref = g.ref /\ h.retried = g.retried /\ h.tibber = g.tibber
<1>1. /\ SameBut(h, g, {"periods"})
      /\ <<values["energy"], values["energyType"]>> \in h.periods
  BY FieldsAre DEF Saw, SameBut, Drafted
<1>2. /\ h.kind = g.kind /\ h.ref = g.ref /\ h.retried = g.retried /\ h.tibber = g.tibber
      /\ h.measurements = g.measurements /\ h.market = g.market /\ h.supplier = g.supplier
      /\ h.grid = g.grid /\ h.production = g.production /\ h.insights = g.insights
      /\ h.supplierOpen = g.supplierOpen
  BY <1>1, FieldsAre DEF SameBut
<1>3. QED  BY <1>1, <1>2 DEF Drafted, SameBut

(* The period of an accepted form that is not asked for is one the dialog   *)
(* showed for this meter, was told, or that of a Tibber counter.            *)
LEMMA TypedPeriod ==
    ASSUME NEW g, Drafted(g), ShowsPeriod(g), NEW input, NEW values, NEW typed,
           values = MeasurementValues(g.measurements, input),
           typed = Overlay(values, [k \in {"energyType"} |->
                       MeasurementPeriod(values, g.measurements, g.ref, input)]),
           ~PeriodIsOpen(values, g.ref),
           NEW h, Drafted(h), h.retried = g.retried,
           h = IF input.advanced # None /\ "energyType" \in DOMAIN input.advanced
               THEN Saw(g, typed) ELSE g
    PROVE  h.retried \/ PeriodIsTold(typed, h)
<1> SUFFICES ASSUME ~g.retried PROVE PeriodIsTold(typed, h)
  OBVIOUS
<1>1. PICK period : period = MeasurementPeriod(values, g.measurements, g.ref, input)
  OBVIOUS
<1>2. PICK meter : meter = values["energy"] /\ Get(values, "energy") = meter
  BY DEF MeasurementValues, Get
<1>3. /\ typed["energy"] = meter /\ typed["energyType"] = period
      /\ Get(typed, "energy") = meter /\ Get(typed, "energyType") = period
  BY <1>1, <1>2 DEF MeasurementValues, Overlay, Get
<1>4. /\ "energyType" \in DOMAIN g.measurements
      /\ <<Get(g.ref, "energy"), g.measurements["energyType"]>> \in g.periods
  BY DEF ShowsPeriod
<1>5. CASE meter = None
  BY <1>3, <1>5 DEF PeriodIsTold
<1>6. CASE meter # Get(g.ref, "energy") /\ meter \in TibberMeters
  <2>1. period = "daily"
    BY <1>1, <1>2, <1>6 DEF MeasurementPeriod, PeriodIsOpen
  <2>2. QED  BY <1>3, <1>6, <2>1 DEF PeriodIsTold
<1>7. CASE meter = Get(g.ref, "energy")
  <2>1. period = IF "energyType" \in DOMAIN Advanced(g.measurements, input)
                 THEN Advanced(g.measurements, input)["energyType"]
                 ELSE PreviousPeriod(g.measurements)
    BY <1>1, <1>2, <1>7 DEF MeasurementPeriod, PeriodIsOpen
  <2>2. CASE input.advanced # None /\ "energyType" \in DOMAIN input.advanced
    <3>1. <<typed["energy"], typed["energyType"]>> \in h.periods
      BY <2>2, SawIs
    <3>2. QED  BY <1>3, <3>1 DEF PeriodIsTold
  <2>3. CASE ~(input.advanced # None /\ "energyType" \in DOMAIN input.advanced)
    <3>1. period = g.measurements["energyType"]
      BY <1>4, <2>1, <2>3 DEF Advanced, PreviousPeriod
    <3>2. QED  BY <1>3, <1>4, <1>7, <2>3, <3>1 DEF PeriodIsTold
  <2>4. QED  BY <2>2, <2>3
<1>8. QED  BY <1>2, <1>5, <1>6, <1>7 DEF PeriodIsOpen

LEMMA SubmitMeasurementsSound ==
    ASSUME IInv, NEW f \in Flows, NEW input, SubmitMeasurements(f, input)
    PROVE  IInv' /\ StepSound
<1>1. PICK g : g = flows[f]
  OBVIOUS
<1>2. PICK values : values = MeasurementValues(g.measurements, input)
  OBVIOUS
<1>3. PICK period : period = MeasurementPeriod(values, g.measurements, g.ref, input)
  OBVIOUS
<1>4. PICK typed : typed = Overlay(values, [k \in {"energyType"} |-> period])
  OBVIOUS
<1>5. /\ g.step = "measurements"
      /\ CASE ~MeasurementsAccepted(values, g.ref) ->
                    Show(f, [g EXCEPT !.measurements = values, !.retried = TRUE])
           [] /\ MeasurementsAccepted(values, g.ref)
              /\ PeriodIsOpen(values, g.ref) ->
                    Show(f, [g EXCEPT !.measurements = typed, !.step = "measurement_energy"])
           [] OTHER ->
                    Finish(f, IF input.advanced # None /\ "energyType" \in DOMAIN input.advanced
                              THEN Saw(g, typed) ELSE g,
                           "measurements", typed)
  BY <1>1, <1>2, <1>3, <1>4 DEF SubmitMeasurements
<1>6. Open(f) /\ Dialog(g) /\ Drafted(g) /\ ShowsPeriod(g)
  BY <1>1, <1>5, OpenDialog DEF Dialog, Shown
<1>7. /\ DOMAIN values = {"power", "energy", "reading"}
      /\ DOMAIN typed = MeasurementKeys /\ \A k \in DOMAIN values : typed[k] = values[k]
  BY <1>2, <1>4 DEF MeasurementValues, Overlay, MeasurementKeys
<1>8. CASE ~MeasurementsAccepted(values, g.ref)
  <2>1. PICK h : h = [g EXCEPT !.measurements = values, !.retried = TRUE]
    OBVIOUS
  <2>2. SameBut(h, g, {"measurements", "retried"}) /\ h.measurements = values /\ h.retried
    BY <1>6, <2>1, FieldsAre DEF SameBut, Drafted
  <2>3. /\ h.kind = g.kind /\ h.ref = g.ref /\ h.tibber = g.tibber /\ h.market = g.market
        /\ h.supplier = g.supplier /\ h.grid = g.grid /\ h.production = g.production
        /\ h.insights = g.insights /\ h.supplierOpen = g.supplierOpen /\ h.step = g.step
    BY <2>2, FieldsAre DEF SameBut
  <2>4. Drafted(h)
    BY <1>6, <1>7, <2>2, <2>3 DEF Drafted, SameBut, MeasurementKeys
  <2>5. Dialog(h)
    BY <1>5, <1>6, <2>2, <2>3, <2>4, StepsAre DEF Dialog, Wizard, Unrated, Corrected, Shown, ShowsPeriod
  <2>6. QED  BY <1>1, <1>5, <1>6, <1>8, <2>1, <2>3, <2>5, ShowSound
<1>9. CASE MeasurementsAccepted(values, g.ref) /\ PeriodIsOpen(values, g.ref)
  <2>1. PICK h : h = [g EXCEPT !.measurements = typed, !.step = "measurement_energy"]
    OBVIOUS
  <2>2. /\ SameBut(h, g, {"measurements", "step"}) /\ h.measurements = typed
        /\ h.step = "measurement_energy"
    BY <1>6, <2>1, FieldsAre DEF SameBut, Drafted
  <2>3. /\ h.kind = g.kind /\ h.ref = g.ref /\ h.tibber = g.tibber /\ h.market = g.market
        /\ h.supplier = g.supplier /\ h.grid = g.grid /\ h.production = g.production
        /\ h.insights = g.insights /\ h.supplierOpen = g.supplierOpen
    BY <2>2, FieldsAre DEF SameBut
  <2>4. Drafted(h)
    BY <1>6, <1>7, <2>2, <2>3 DEF Drafted, SameBut
  <2>5. AsksPeriod(h)
    BY <1>7, <1>9, <2>2, <2>3 DEF AsksPeriod, MeasurementsAccepted
  <2>6. Dialog(h)
    BY <1>5, <1>6, <2>2, <2>3, <2>4, <2>5, StepsAre DEF Dialog, Wizard, Unrated, Corrected, Shown
  <2>7. QED  BY <1>1, <1>5, <1>6, <1>9, <2>1, <2>3, <2>6, ShowSound
<1>10. CASE MeasurementsAccepted(values, g.ref) /\ ~PeriodIsOpen(values, g.ref)
  <2>1. PICK h : h = IF input.advanced # None /\ "energyType" \in DOMAIN input.advanced
                     THEN Saw(g, typed) ELSE g
    OBVIOUS
  <2>2. Finish(f, h, "measurements", typed)
    BY <1>5, <1>10, <2>1
  <2>3. /\ Drafted(h) /\ h.kind = g.kind /\ h.ref = g.ref /\ h.retried = g.retried
        /\ h.tibber = g.tibber
    BY <1>6, <2>1, SawIs
  <2>4. h.retried \/ PeriodIsTold(typed, h)
    BY <1>2, <1>3, <1>4, <1>6, <1>10, <2>1, <2>3, TypedPeriod
  <2>5. SectionSound(h, "measurements", typed)
    BY <1>7, <1>10, <2>3, <2>4 DEF SectionSound, Sections, MeasurementsAccepted
  <2>6. h.kind = "setup" => Stage(h, "measurements")
    BY <1>5, <1>6, <2>3, AtStage DEF Stage, Unrated
  <2>7. QED  BY <1>1, <1>6, <2>2, <2>3, <2>5, <2>6, FinishSound
<1>11. QED  BY <1>8, <1>9, <1>10

LEMMA SubmitMeasurementEnergySound ==
    ASSUME IInv, NEW f \in Flows, SubmitMeasurementEnergy(f)
    PROVE  IInv' /\ StepSound
<1>1. PICK g : g = flows[f]
  OBVIOUS
<1>2. PICK period \in EnergyTypes :
         Finish(f, Saw(g, [g.measurements EXCEPT !["energyType"] = period]), "measurements",
                [g.measurements EXCEPT !["energyType"] = period])
  BY <1>1 DEF SubmitMeasurementEnergy
<1>3. PICK values : values = [g.measurements EXCEPT !["energyType"] = period]
  OBVIOUS
<1>4. PICK h : h = Saw(g, values)
  OBVIOUS
<1>5. g.step = "measurement_energy" /\ Finish(f, h, "measurements", values)
  BY <1>1, <1>2, <1>3, <1>4 DEF SubmitMeasurementEnergy
<1>6. Open(f) /\ Dialog(g) /\ Drafted(g) /\ AsksPeriod(g)
  BY <1>1, <1>5, OpenDialog DEF Dialog, Shown
<1>7. /\ DOMAIN values = MeasurementKeys /\ values["energyType"] = period
      /\ \A k \in {"power", "energy", "reading"} : values[k] = g.measurements[k]
  BY <1>3, <1>6 DEF AsksPeriod, MeasurementKeys
<1>8. /\ Drafted(h) /\ h.kind = g.kind /\ h.ref = g.ref /\ h.tibber = g.tibber
      /\ <<values["energy"], values["energyType"]>> \in h.periods
  BY <1>4, <1>6, <1>7, SawIs
<1>9. Get(values, "energy") = values["energy"] /\ Get(values, "energyType") = period
  BY <1>7 DEF Get, MeasurementKeys
<1>10. PeriodIsTold(values, h)
  BY <1>7, <1>8, <1>9 DEF PeriodIsTold
<1>11. SectionSound(h, "measurements", values)
  BY <1>6, <1>7, <1>8, <1>10 DEF SectionSound, Sections, AsksPeriod, MeasurementsAccepted
<1>12. h.kind = "setup" => Stage(h, "measurements")
  BY <1>5, <1>6, <1>8, AtStage DEF Stage, Unrated
<1>13. QED  BY <1>1, <1>5, <1>6, <1>8, <1>11, <1>12, FinishSound

LEMMA MarketSettledIs ==
    ASSUME NEW values, DOMAIN values = MarketKeys,
           values["market"] = None \/ MarketUsable(values["market"]), ~NeedsArea(values)
    PROVE  Settled(MarketSettled(values))
<1>1. Get(values, "market") = values["market"] /\ Get(values, "area") = values["area"]
  BY KeysOf DEF Get
<1>2. CASE HasSeveral(values["market"])
  <2>1. values["market"] # None
    BY <1>2, MarketsFinite
  <2>2. values["area"] \in MarketAreas(values["market"])
    BY <1>1, <1>2, <2>1 DEF NeedsArea, HasSeveral
  <2>3. QED  BY <1>2, <2>2 DEF MarketSettled, HasSeveral, Settled, AreaFits
<1>3. CASE ~HasSeveral(values["market"])
  <2>1. MarketSettled(values) = Overlay(values, Each({"area"}, None))
    BY <1>3 DEF MarketSettled, HasSeveral
  <2>2. PICK v : v = MarketSettled(values)
    OBVIOUS
  <2>3. DOMAIN v = MarketKeys /\ v["market"] = values["market"] /\ v["area"] = None
    BY <2>1, <2>2, KeysOf DEF Overlay, Each
  <2>4. QED  BY <1>3, <2>2, <2>3 DEF Settled, AreaFits
<1>4. QED  BY <1>2, <1>3

\* A market form refused or asking for the area keeps what was chosen.
LEMMA MarketChosen ==
    ASSUME NEW g, Dialog(g), g.step \in MarketSteps, NEW values, DOMAIN values = MarketKeys,
           NEW step \in MarketSteps, step = "market_area" => HasSeveral(values["market"]),
           NEW h, h = [g EXCEPT !.market = values, !.step = step]
    PROVE  Dialog(h) /\ h.kind = g.kind
<1>1. SameBut(h, g, {"market", "step"}) /\ h.market = values /\ h.step = step
  BY FieldsAre DEF SameBut, Dialog, Drafted
<1>2. /\ h.kind = g.kind /\ h.tibber = g.tibber /\ h.measurements = g.measurements
      /\ h.supplier = g.supplier /\ h.grid = g.grid /\ h.production = g.production
      /\ h.insights = g.insights /\ h.supplierOpen = g.supplierOpen
      /\ h.retried = g.retried /\ h.periods = g.periods
  BY <1>1, FieldsAre DEF SameBut
<1>3. Drafted(h)
  BY <1>1, <1>2 DEF Dialog, Drafted, SameBut
<1>4. g.kind = "setup" => Unrated(g) /\ Measured(g)
  BY AtStage DEF Stage
<1>5. Wizard(h) \/ h.kind # "setup"
  BY <1>1, <1>2, <1>4, StepsAre DEF Wizard, Unrated, Measured, PeriodIsTold
<1>6. Shown(h)
  BY <1>1, StepsAre DEF Shown
<1>7. QED  BY <1>1, <1>2, <1>3, <1>5, <1>6, StepsAre DEF Dialog

LEMMA SubmitMarketPricesSound ==
    ASSUME IInv, NEW f \in Flows, NEW answer, SubmitMarketPrices(f, answer)
    PROVE  IInv' /\ StepSound
<1>1. PICK g : g = flows[f]
  OBVIOUS
<1>2. PICK values : values = MarketValues(g.market, Only(answer, MarketFields(g.market)))
  OBVIOUS
<1>3. /\ g.step = "market_prices"
      /\ CASE values["market"] # None /\ ~MarketUsable(values["market"]) ->
                    Show(f, [g EXCEPT !.market = values])
           [] NeedsArea(values) ->
                    Show(f, [g EXCEPT !.market = values, !.step = "market_area"])
           [] OTHER -> Finish(f, g, "market", MarketSettled(values))
  BY <1>1, <1>2 DEF SubmitMarketPrices
<1>4. Open(f) /\ Dialog(g) /\ Drafted(g) /\ g.step \in MarketSteps
  BY <1>1, <1>3, OpenDialog, StepsAre DEF Dialog
<1>5. DOMAIN values = MarketKeys
  BY <1>2 DEF MarketValues, MarketKeys
<1>6. NeedsArea(values) => HasSeveral(values["market"]) /\ MarketUsable(values["market"])
  BY <1>5, KeysOf DEF NeedsArea, HasSeveral, Get
<1>7. CASE values["market"] # None /\ ~MarketUsable(values["market"])
  <2>1. PICK h : h = [g EXCEPT !.market = values]
    OBVIOUS
  <2>2. h = [g EXCEPT !.market = values, !.step = "market_prices"]
    BY <1>3, <1>4, <2>1, FieldsAre DEF Drafted
  <2>3. Show(f, h)
    BY <1>3, <1>6, <1>7, <2>1
  <2>4. Dialog(h) /\ h.kind = g.kind
    BY <1>4, <1>5, <2>2, StepsAre, MarketChosen
  <2>5. QED  BY <1>1, <1>4, <2>3, <2>4, ShowSound
<1>8. CASE NeedsArea(values)
  <2>1. PICK h : h = [g EXCEPT !.market = values, !.step = "market_area"]
    OBVIOUS
  <2>2. Show(f, h)
    BY <1>3, <1>6, <1>8, <2>1
  <2>3. Dialog(h) /\ h.kind = g.kind
    BY <1>4, <1>5, <1>6, <1>8, <2>1, StepsAre, MarketChosen
  <2>4. QED  BY <1>1, <1>4, <2>2, <2>3, ShowSound
<1>9. CASE (values["market"] = None \/ MarketUsable(values["market"])) /\ ~NeedsArea(values)
  <2>1. PICK settled : settled = MarketSettled(values)
    OBVIOUS
  <2>2. Finish(f, g, "market", settled)
    BY <1>3, <1>9, <2>1
  <2>3. SectionSound(g, "market", settled)
    BY <1>5, <1>9, <2>1, MarketSettledIs DEF SectionSound, Sections
  <2>4. g.kind = "setup" => Stage(g, "market")
    BY <1>4, AtStage
  <2>5. QED  BY <1>1, <1>4, <2>2, <2>3, <2>4, FinishSound
<1>10. QED  BY <1>7, <1>8, <1>9

LEMMA SubmitMarketAreaSound ==
    ASSUME IInv, NEW f \in Flows, SubmitMarketArea(f)
    PROVE  IInv' /\ StepSound
<1>1. PICK g : g = flows[f]
  OBVIOUS
<1>2. PICK area \in MarketAreas(g.market["market"]) :
         LET v == [g.market EXCEPT !["area"] = area]
         IN  IF g.supplierOpen THEN Show(f, BeginSupplier([g EXCEPT !.market = v]))
             ELSE Finish(f, g, "market", v)
  BY <1>1 DEF SubmitMarketArea
<1>3. PICK values : values = [g.market EXCEPT !["area"] = area]
  OBVIOUS
<1>4. /\ g.step = "market_area"
      /\ IF g.supplierOpen THEN Show(f, BeginSupplier([g EXCEPT !.market = values]))
         ELSE Finish(f, g, "market", values)
  BY <1>1, <1>2, <1>3 DEF SubmitMarketArea
<1>5. Open(f) /\ Dialog(g) /\ Drafted(g) /\ g.step \in MarketSteps
  BY <1>1, <1>4, OpenDialog, StepsAre DEF Dialog
<1>6. DOMAIN g.market = MarketKeys /\ HasSeveral(g.market["market"])
  BY <1>4, <1>5 DEF Dialog, Shown
<1>7. Settled(values)
  BY <1>3, <1>6, KeysOf DEF Settled, AreaFits
<1>8. CASE g.supplierOpen
  <2>1. PICK m : m = [g EXCEPT !.market = values]
    OBVIOUS
  <2>2. SameBut(m, g, {"market"}) /\ m.market = values
    BY <1>5, <2>1, FieldsAre DEF SameBut, Drafted
  <2>3. /\ m.kind = g.kind /\ m.tibber = g.tibber /\ m.measurements = g.measurements
        /\ m.supplier = g.supplier /\ m.grid = g.grid /\ m.production = g.production
        /\ m.insights = g.insights /\ m.supplierOpen = g.supplierOpen
    BY <2>2, FieldsAre DEF SameBut
  <2>4. Drafted(m) /\ m.kind = "options" /\ Corrected(m)
    BY <1>5, <1>7, <1>8, <2>2, <2>3 DEF Drafted, SameBut, Settled, Corrected
  <2>5. PICK h : h = BeginSupplier(m)
    OBVIOUS
  <2>6. Dialog(h) /\ h.kind = m.kind
    BY <2>4, <2>5, BeginSupplierSound
  <2>7. Show(f, h)
    BY <1>4, <1>8, <2>1, <2>5
  <2>8. QED  BY <1>1, <1>5, <2>3, <2>6, <2>7, ShowSound
<1>9. CASE ~g.supplierOpen
  <2>1. SectionSound(g, "market", values)
    BY <1>7 DEF SectionSound, Sections
  <2>2. g.kind = "setup" => Stage(g, "market")
    BY <1>5, AtStage
  <2>3. QED  BY <1>1, <1>4, <1>5, <1>9, <2>1, <2>2, FinishSound
<1>10. QED  BY <1>8, <1>9

-----------------------------------------------------------------------------
(* The supplier form and the forms entered from it.  Whatever way leads    *)
(* back to the supplier's handler, the rate it is given is a known one.    *)

AtSupplier(g) ==
    /\ Drafted(g) /\ Supplying(g)
    /\ g.kind = "setup" => Unrated(g) /\ Measured(g) /\ Settled(g.market)
    /\ g.kind = "options" => Corrected(g)

LEMMA AtSupplierFrom ==
    ASSUME NEW g, Dialog(g), g.step \in SupplierSteps
    PROVE  AtSupplier(g)
<1>1. Drafted(g) /\ Supplying(g)
  BY DEF Dialog, Shown
<1>2. g.kind = "setup" => Unrated(g) /\ Measured(g) /\ Settled(g.market)
  BY StepsAre DEF Dialog, Wizard
<1>3. g.kind = "options" => Corrected(g)
  BY StepsAre DEF Dialog
<1>4. QED  BY <1>1, <1>2, <1>3 DEF AtSupplier

LEMMA AtSupplierTo ==
    ASSUME NEW g, AtSupplier(g), g.step \in SupplierSteps,
           g.step \in VatSteps => RateKnown(g, g.vat),
           g.step \in EstimateSteps => RateKnown(g, g.pending),
           g.step \in {"estimating", "tibber_markup_review"} => Get(g.pending, "vatRate") # None
    PROVE  Dialog(g)
<1>1. Wizard(g) \/ g.kind # "setup"
  BY StepsAre DEF AtSupplier, Wizard
<1>2. Shown(g)
  BY StepsAre DEF AtSupplier, Shown
<1>3. QED  BY <1>1, <1>2, StepsAre DEF AtSupplier, Dialog

\* What supplier's steps change of a dialog.
SupplierChanges == {"step", "vat", "vatSeen", "pending", "supplier", "rates"}

LEMMA AtSupplierStays ==
    ASSUME NEW g, AtSupplier(g), NEW h, SameBut(h, g, SupplierChanges), g.rates \subseteq h.rates,
           DOMAIN h.supplier \subseteq SupplierKeys, RateKnown(h, h.supplier)
    PROVE  AtSupplier(h) /\ h.kind = g.kind /\ h.ref = g.ref
<1>1. /\ h.kind = g.kind /\ h.tibber = g.tibber /\ h.measurements = g.measurements
      /\ h.market = g.market /\ h.grid = g.grid /\ h.production = g.production
      /\ h.insights = g.insights /\ h.supplierOpen = g.supplierOpen
      /\ h.retried = g.retried /\ h.periods = g.periods /\ h.ref = g.ref
  BY FieldsAre DEF SameBut, SupplierChanges
<1>2. Drafted(h)
  BY <1>1 DEF AtSupplier, Drafted, SameBut
<1>3. Supplying(h)
  BY <1>1 DEF AtSupplier, Supplying
<1>4. QED  BY <1>1, <1>2, <1>3 DEF AtSupplier, Unrated, Measured, PeriodIsTold, Corrected

LEMMA SupplierFieldsAre == \A context : SupplierFields(context) \subseteq SupplierKeys
BY DEF SupplierFields, TibberFields, SupplierKeys

LEMMA SupplierSound ==
    ASSUME IInv, NEW f \in Flows, Open(f), NEW g, AtSupplier(g), g.kind = flows[f].kind,
           NEW input, NEW requested, NEW estimate,
           "vatRate" \in SupplierFields(Overlay(g.ref, g.supplier)) => RateKnown(g, input),
           Supplier(f, g, input, requested, estimate)
    PROVE  IInv' /\ StepSound
<1>1. PICK context, fields : context = Overlay(g.ref, g.supplier) /\ fields = SupplierFields(context)
  OBVIOUS
<1>2. PICK typed : typed = SupplierValues(g.supplier, fields, input)
  OBVIOUS
<1>3. PICK values : values = SupplierNormal(typed)
  OBVIOUS
<1>4. PICK kept : kept = [g EXCEPT !.supplier = values]
  OBVIOUS
<1>5. (CASE ~SupplierAccepted(typed) ->
                 Show(f, [g EXCEPT !.supplier = typed, !.step = "supplier"])
        [] SupplierAccepted(typed) /\ WantsVat(g, values, requested) ->
                 Show(f, WithVat(kept, values))
        [] /\ SupplierAccepted(typed) /\ ~WantsVat(g, values, requested)
           /\ estimate /\ IsKnownTibber(context) /\ Get(context, "market") # None ->
                 Show(f, [kept EXCEPT !.pending = Overlay(g.ref, values),
                                      !.step = "tibber_markup_estimate"])
        [] OTHER -> Finish(f, kept, "supplier", values))
  BY <1>1, <1>2, <1>3, <1>4 DEF Supplier
<1>6. DOMAIN typed \subseteq SupplierKeys /\ RateKnown(g, typed)
  <2>1. fields \subseteq SupplierKeys
    BY <1>1, SupplierFieldsAre
  <2>2. typed = Overlay(g.supplier, [k \in fields |-> Get(input, k)])
    BY <1>2 DEF SupplierValues
  <2>3. DOMAIN typed = DOMAIN g.supplier \cup fields
    BY <2>2 DEF Overlay
  <2>4. Get(typed, "vatRate") = IF "vatRate" \in fields THEN Get(input, "vatRate")
                                ELSE Get(g.supplier, "vatRate")
    BY <2>2 DEF Overlay, Get
  <2>5. QED  BY <1>1, <2>1, <2>3, <2>4 DEF AtSupplier, Drafted, Supplying, RateKnown
<1>7. DOMAIN values \subseteq SupplierKeys /\ RateKnown(g, values)
  <2>1. CASE Get(typed, "price") = None
    <3>1. values = Overlay(typed, Each({"declaration"}, None))
      BY <1>3, <2>1 DEF SupplierNormal
    <3>2. DOMAIN values = DOMAIN typed \cup {"declaration"}
      BY <3>1 DEF Overlay, Each
    <3>3. Get(values, "vatRate") = Get(typed, "vatRate")
      BY <3>1 DEF Overlay, Each, Get
    <3>4. QED  BY <1>6, <3>2, <3>3 DEF RateKnown, SupplierKeys
  <2>2. CASE Get(typed, "price") # None
    BY <1>3, <1>6, <2>2 DEF SupplierNormal
  <2>3. QED  BY <2>1, <2>2
<1>8. DOMAIN g = DialogFields
  BY DEF AtSupplier, Drafted
<1>9. SameBut(kept, g, {"supplier"}) /\ kept.supplier = values
  BY <1>4, <1>8, FieldsAre DEF SameBut
<1>10. kept.rates = g.rates /\ kept.ref = g.ref /\ kept.kind = g.kind
  BY <1>9, FieldsAre DEF SameBut
<1>11. AtSupplier(kept)
  <2>1. SameBut(kept, g, SupplierChanges)
    BY <1>9 DEF SameBut, SupplierChanges
  <2>2. QED  BY <1>7, <1>9, <1>10, <2>1, AtSupplierStays DEF RateKnown
<1>12. CASE ~SupplierAccepted(typed)
  <2>1. PICK h : h = [g EXCEPT !.supplier = typed, !.step = "supplier"]
    OBVIOUS
  <2>2. SameBut(h, g, {"supplier", "step"}) /\ h.supplier = typed /\ h.step = "supplier"
    BY <1>8, <2>1, FieldsAre DEF SameBut
  <2>3. h.rates = g.rates /\ h.ref = g.ref
    BY <2>2, FieldsAre DEF SameBut
  <2>4. SameBut(h, g, SupplierChanges)
    BY <2>2 DEF SameBut, SupplierChanges
  <2>5. AtSupplier(h) /\ h.kind = g.kind
    BY <1>6, <2>2, <2>3, <2>4, AtSupplierStays DEF RateKnown
  <2>6. Dialog(h)
    BY <2>2, <2>5, AtSupplierTo, StepsAre
  <2>7. QED  BY <1>5, <1>12, <2>1, <2>5, <2>6, ShowSound
<1>13. CASE SupplierAccepted(typed) /\ WantsVat(g, values, requested)
  <2>1. PICK h, hint : /\ hint = CountryHint(Overlay(kept.ref, values))
                       /\ h = [kept EXCEPT !.vatSeen = TRUE, !.vat = values,
                                           !.step = CASE hint = None -> "vat_country"
                                                      [] hint \in {"NO", "IS"} -> "vat_context"
                                                      [] OTHER -> "vat_review"]
                       /\ h = WithVat(kept, values)
    BY DEF WithVat
  <2>2. PICK step : h = [kept EXCEPT !.vatSeen = TRUE, !.vat = values, !.step = step]
                    /\ step = CASE hint = None -> "vat_country"
                                [] hint \in {"NO", "IS"} -> "vat_context"
                                [] OTHER -> "vat_review"
    BY <2>1
  <2>3. step \in VatSteps
    BY <2>2, StepsAre
  <2>4. SameBut(h, kept, {"vatSeen", "vat", "step"}) /\ h.vat = values /\ h.step = step
    BY <1>9, <2>2, FieldsAre DEF SameBut
  <2>5. h.rates = g.rates /\ h.ref = g.ref /\ h.supplier = values
    BY <1>9, <1>10, <2>4, FieldsAre DEF SameBut
  <2>6. SameBut(h, kept, SupplierChanges)
    BY <2>4 DEF SameBut, SupplierChanges
  <2>7. AtSupplier(h) /\ h.kind = g.kind
    BY <1>7, <1>10, <1>11, <2>5, <2>6, AtSupplierStays DEF RateKnown
  <2>8. Dialog(h)
    BY <1>7, <2>3, <2>4, <2>5, <2>7, AtSupplierTo, StepsAre DEF RateKnown
  <2>9. QED  BY <1>5, <1>13, <2>1, <2>7, <2>8, ShowSound
<1>14. CASE /\ SupplierAccepted(typed) /\ ~WantsVat(g, values, requested)
            /\ estimate /\ IsKnownTibber(context) /\ Get(context, "market") # None
  <2>1. PICK pending : pending = Overlay(g.ref, values)
    OBVIOUS
  <2>2. PICK h : h = [kept EXCEPT !.pending = pending, !.step = "tibber_markup_estimate"]
    OBVIOUS
  <2>3. /\ SameBut(h, kept, {"pending", "step"}) /\ h.pending = pending
        /\ h.step = "tibber_markup_estimate"
    BY <1>9, <2>2, FieldsAre DEF SameBut
  <2>4. h.rates = g.rates /\ h.ref = g.ref /\ h.supplier = values
    BY <1>9, <1>10, <2>3, FieldsAre DEF SameBut
  <2>5. SameBut(h, kept, SupplierChanges)
    BY <2>3 DEF SameBut, SupplierChanges
  <2>6. AtSupplier(h) /\ h.kind = g.kind
    BY <1>7, <1>10, <1>11, <2>4, <2>5, AtSupplierStays DEF RateKnown
  <2>7. RateKnown(h, h.pending)
    BY <1>7, <2>1, <2>3, <2>4 DEF RateKnown, Overlay, Get
  <2>8. Dialog(h)
    BY <2>3, <2>6, <2>7, AtSupplierTo, StepsAre
  <2>9. QED  BY <1>5, <1>14, <2>1, <2>2, <2>6, <2>8, ShowSound
<1>15. CASE /\ SupplierAccepted(typed) /\ ~WantsVat(g, values, requested)
            /\ ~(estimate /\ IsKnownTibber(context) /\ Get(context, "market") # None)
  <2>1. Finish(f, kept, "supplier", values)
    BY <1>5, <1>15
  <2>2. SectionSound(kept, "supplier", values)
    BY <1>7, <1>10 DEF SectionSound, Sections, RateKnown
  <2>3. /\ kept.kind = "setup" => Stage(kept, "supplier")
        /\ kept.kind = "options" => Corrected(kept)
        /\ Drafted(kept)
    BY <1>11 DEF AtSupplier, Stage, Supplying
  <2>4. QED  BY <1>10, <2>1, <2>2, <2>3, FinishSound
<1>16. QED  BY <1>12, <1>13, <1>14, <1>15

LEMMA SubmitSupplierSound ==
    ASSUME IInv, NEW f \in Flows, NEW answer, NEW requested, NEW estimate,
           SubmitSupplier(f, answer, requested, estimate)
    PROVE  IInv' /\ StepSound
<1>1. PICK g : g = flows[f]
  OBVIOUS
<1>2. PICK fields, rates : /\ fields = SupplierFields(Overlay(g.ref, g.supplier))
                           /\ rates = {Get(answer, k) : k \in fields \cap {"vatRate"}} \ {None}
  OBVIOUS
<1>3. PICK h : h = [g EXCEPT !.rates = @ \cup rates]
  OBVIOUS
<1>4. g.step = "supplier" /\ Supplier(f, h, answer, requested, estimate)
  BY <1>1, <1>2, <1>3 DEF SubmitSupplier
<1>5. Open(f) /\ Dialog(g) /\ AtSupplier(g)
  BY <1>1, <1>4, OpenDialog, AtSupplierFrom, StepsAre
<1>6. SameBut(h, g, {"rates"}) /\ h.rates = g.rates \cup rates
  BY <1>3, <1>5, FieldsAre DEF SameBut, AtSupplier, Drafted
<1>7. h.supplier = g.supplier /\ h.ref = g.ref
  BY <1>6, FieldsAre DEF SameBut
<1>8. AtSupplier(h) /\ h.kind = g.kind
  <2>1. SameBut(h, g, SupplierChanges)
    BY <1>6 DEF SameBut, SupplierChanges
  <2>2. DOMAIN h.supplier \subseteq SupplierKeys /\ RateKnown(h, h.supplier)
    BY <1>5, <1>6, <1>7 DEF AtSupplier, Drafted, Supplying, RateKnown
  <2>3. QED  BY <1>5, <1>6, <2>1, <2>2, AtSupplierStays
<1>9. "vatRate" \in SupplierFields(Overlay(h.ref, h.supplier)) => RateKnown(h, answer)
  BY <1>2, <1>6, <1>7 DEF RateKnown
<1>10. QED  BY <1>1, <1>4, <1>5, <1>8, <1>9, SupplierSound

\* Back from VAT assistance with the values it was entered with, and perhaps
\* a rate the user confirmed.
LEMMA VatReturnSound ==
    ASSUME IInv, NEW f \in Flows, Open(f), NEW g, AtSupplier(g), g.kind = flows[f].kind,
           RateKnown(g, g.vat), VatReturn(f, g)
    PROVE  IInv' /\ StepSound
<1>1. PICK h : h = [g EXCEPT !.vat = Nothing]
  OBVIOUS
<1>2. Supplier(f, h, g.vat, FALSE, FALSE)
  BY <1>1 DEF VatReturn
<1>3. SameBut(h, g, {"vat"})
  BY <1>1, FieldsAre DEF SameBut, AtSupplier, Drafted
<1>4. h.rates = g.rates /\ h.supplier = g.supplier /\ h.ref = g.ref
  BY <1>3, FieldsAre DEF SameBut
<1>5. SameBut(h, g, SupplierChanges)
  BY <1>3 DEF SameBut, SupplierChanges
<1>6. DOMAIN h.supplier \subseteq SupplierKeys /\ RateKnown(h, h.supplier) /\ RateKnown(h, g.vat)
  BY <1>4 DEF AtSupplier, Drafted, Supplying, RateKnown
<1>7. AtSupplier(h) /\ h.kind = g.kind
  BY <1>4, <1>5, <1>6, AtSupplierStays
<1>8. QED  BY <1>2, <1>6, <1>7, SupplierSound

\* From one form of VAT assistance to the next.
LEMMA VatForm ==
    ASSUME NEW g, AtSupplier(g), RateKnown(g, g.vat), NEW step \in VatSteps,
           NEW h, h = [g EXCEPT !.step = step]
    PROVE  Dialog(h) /\ h.kind = g.kind
<1>1. SameBut(h, g, {"step"}) /\ h.step = step
  BY FieldsAre DEF SameBut, AtSupplier, Drafted
<1>2. h.rates = g.rates /\ h.supplier = g.supplier /\ h.ref = g.ref /\ h.vat = g.vat
  BY <1>1, FieldsAre DEF SameBut
<1>3. SameBut(h, g, SupplierChanges)
  BY <1>1 DEF SameBut, SupplierChanges
<1>4. DOMAIN h.supplier \subseteq SupplierKeys /\ RateKnown(h, h.supplier) /\ RateKnown(h, h.vat)
  BY <1>2 DEF AtSupplier, Drafted, Supplying, RateKnown
<1>5. AtSupplier(h) /\ h.kind = g.kind
  BY <1>2, <1>3, <1>4, AtSupplierStays
<1>6. /\ h.step \in SupplierSteps /\ h.step \notin EstimateSteps
      /\ h.step \notin {"estimating", "tibber_markup_review"}
  BY <1>1, StepsAre
<1>7. QED  BY <1>4, <1>5, <1>6, AtSupplierTo

LEMMA VatSound ==
    ASSUME IInv, NEW f \in Flows, SubmitVatCountry(f) \/ SubmitVatContext(f) \/ SubmitVatReview(f)
    PROVE  IInv' /\ StepSound
<1>1. PICK g : g = flows[f]
  OBVIOUS
<1>2. g.step \in VatSteps
  BY <1>1, StepsAre DEF SubmitVatCountry, SubmitVatContext, SubmitVatReview
<1>3. Open(f) /\ Dialog(g) /\ AtSupplier(g) /\ RateKnown(g, g.vat)
  BY <1>1, <1>2, OpenDialog, AtSupplierFrom, StepsAre DEF Dialog, Shown
<1>4. CASE VatReturn(f, g)
  BY <1>1, <1>3, <1>4, VatReturnSound
<1>5. CASE \E step \in VatSteps : Show(f, [g EXCEPT !.step = step])
  <2>1. PICK step \in VatSteps : Show(f, [g EXCEPT !.step = step])
    BY <1>5
  <2>2. PICK h : h = [g EXCEPT !.step = step]
    OBVIOUS
  <2>3. Dialog(h) /\ h.kind = g.kind
    BY <1>3, <2>2, VatForm
  <2>4. QED  BY <1>1, <1>3, <2>1, <2>2, <2>3, ShowSound
<1>6. CASE \E rate \in Rates :
              VatReturn(f, [g EXCEPT !.vat = Overlay(@, [k \in {"vatRate"} |-> rate]),
                                     !.rates = @ \cup {rate}])
  <2>1. PICK rate \in Rates :
              VatReturn(f, [g EXCEPT !.vat = Overlay(@, [k \in {"vatRate"} |-> rate]),
                                     !.rates = @ \cup {rate}])
    BY <1>6
  <2>2. PICK vat : vat = Overlay(g.vat, [k \in {"vatRate"} |-> rate])
    OBVIOUS
  <2>3. PICK h : h = [g EXCEPT !.vat = vat, !.rates = g.rates \cup {rate}]
    OBVIOUS
  <2>4. VatReturn(f, h)
    BY <2>1, <2>2, <2>3
  <2>5. /\ SameBut(h, g, {"vat", "rates"}) /\ h.vat = vat /\ h.rates = g.rates \cup {rate}
    BY <1>3, <2>3, FieldsAre DEF SameBut, AtSupplier, Drafted
  <2>6. h.supplier = g.supplier /\ h.ref = g.ref
    BY <2>5, FieldsAre DEF SameBut
  <2>7. SameBut(h, g, SupplierChanges)
    BY <2>5 DEF SameBut, SupplierChanges
  <2>8. Get(vat, "vatRate") = rate
    BY <2>2 DEF Overlay, Get
  <2>9. DOMAIN h.supplier \subseteq SupplierKeys /\ RateKnown(h, h.supplier) /\ RateKnown(h, h.vat)
    BY <1>3, <2>5, <2>6, <2>8 DEF AtSupplier, Drafted, Supplying, RateKnown
  <2>10. AtSupplier(h) /\ h.kind = g.kind
    BY <1>3, <2>5, <2>7, <2>9, AtSupplierStays
  <2>11. QED  BY <1>1, <1>3, <2>4, <2>9, <2>10, VatReturnSound
<1>7. QED  BY <1>1, <1>4, <1>5, <1>6, StepsAre DEF SubmitVatCountry, SubmitVatContext, SubmitVatReview

\* From one form of the markup estimate to the next, or back to the supplier.
LEMMA EstimateForm ==
    ASSUME NEW g, AtSupplier(g), NEW step, NEW pending, NEW h,
           h = [g EXCEPT !.step = step, !.pending = pending],
           step = "supplier" \/ (step \in EstimateSteps /\ RateKnown(g, pending)),
           step \in {"estimating", "tibber_markup_review"} => Get(pending, "vatRate") # None
    PROVE  Dialog(h) /\ h.kind = g.kind
<1>1. SameBut(h, g, {"step", "pending"}) /\ h.step = step /\ h.pending = pending
  BY FieldsAre DEF SameBut, AtSupplier, Drafted
<1>2. h.rates = g.rates /\ h.supplier = g.supplier /\ h.ref = g.ref
  BY <1>1, FieldsAre DEF SameBut
<1>3. SameBut(h, g, SupplierChanges)
  BY <1>1 DEF SameBut, SupplierChanges
<1>4. /\ DOMAIN h.supplier \subseteq SupplierKeys /\ RateKnown(h, h.supplier)
      /\ step \in EstimateSteps => RateKnown(h, h.pending)
  BY <1>1, <1>2, StepsAre DEF AtSupplier, Drafted, Supplying, RateKnown
<1>5. AtSupplier(h) /\ h.kind = g.kind
  BY <1>2, <1>3, <1>4, AtSupplierStays
<1>6. /\ h.step \in SupplierSteps /\ h.step \notin VatSteps
      /\ h.step \in EstimateSteps => step \in EstimateSteps
      /\ h.step \in {"estimating", "tibber_markup_review"} => Get(h.pending, "vatRate") # None
  BY <1>1, StepsAre
<1>7. QED  BY <1>4, <1>5, <1>6, AtSupplierTo

LEMMA EstimateSound ==
    ASSUME IInv, NEW f \in Flows,
           \/ SubmitMarkupEstimate(f) \/ EstimateArrives(f) \/ EstimateFails(f)
           \/ SubmitMarkupReview(f)
    PROVE  IInv' /\ StepSound
<1>1. PICK g : g = flows[f]
  OBVIOUS
<1>2. g.step \in EstimateSteps
  BY <1>1, StepsAre DEF SubmitMarkupEstimate, EstimateArrives, EstimateFails, SubmitMarkupReview
<1>3. /\ Open(f) /\ Dialog(g) /\ AtSupplier(g) /\ RateKnown(g, g.pending)
      /\ g.step \in {"estimating", "tibber_markup_review"} => Get(g.pending, "vatRate") # None
  BY <1>1, <1>2, OpenDialog, AtSupplierFrom, StepsAre DEF Dialog, Shown
<1>4. DOMAIN g = DialogFields
  BY <1>3 DEF AtSupplier, Drafted
<1>5. CASE Show(f, [g EXCEPT !.step = "supplier", !.pending = Nothing])
  <2>1. PICK h : h = [g EXCEPT !.step = "supplier", !.pending = Nothing]
    OBVIOUS
  <2>2. Dialog(h) /\ h.kind = g.kind
    <3>1. PICK step, pending : step = "supplier" /\ pending = Nothing
      OBVIOUS
    <3>2. h = [g EXCEPT !.step = step, !.pending = pending]
      BY <2>1, <3>1
    <3>3. step \notin {"estimating", "tibber_markup_review"}
      BY <3>1
    <3>4. QED  BY <1>3, <3>1, <3>2, <3>3, EstimateForm
  <2>3. QED  BY <1>1, <1>3, <1>5, <2>1, <2>2, ShowSound
<1>6. ASSUME NEW step \in EstimateSteps, Show(f, [g EXCEPT !.step = step]),
             step \in {"estimating", "tibber_markup_review"} => Get(g.pending, "vatRate") # None
      PROVE  IInv' /\ StepSound
  <2>1. PICK h : h = [g EXCEPT !.step = step]
    OBVIOUS
  <2>2. h = [g EXCEPT !.step = step, !.pending = g.pending]
    BY <1>4, <2>1, FieldsAre
  <2>3. Dialog(h) /\ h.kind = g.kind
    BY <1>3, <1>6, <2>2, EstimateForm
  <2>4. QED  BY <1>1, <1>3, <1>6, <2>1, <2>3, ShowSound
<1>7. CASE g.step = "tibber_markup_estimate" /\ SubmitMarkupEstimate(f)
  <2>1. CASE Get(g.pending, "vatRate") # None /\ Show(f, [g EXCEPT !.step = "estimating"])
    BY <1>6, <2>1, StepsAre
  <2>2. QED  BY <1>1, <1>5, <1>7, <2>1 DEF SubmitMarkupEstimate
<1>8. CASE EstimateArrives(f)
  <2>1. g.step = "estimating" /\ Show(f, [g EXCEPT !.step = "tibber_markup_review"])
    BY <1>1, <1>8 DEF EstimateArrives
  <2>2. QED  BY <1>3, <1>6, <2>1, StepsAre
<1>9. CASE EstimateFails(f)
  <2>1. Show(f, [g EXCEPT !.step = "tibber_markup_estimate"])
    BY <1>1, <1>9 DEF EstimateFails
  <2>2. QED  BY <1>6, <2>1, StepsAre
<1>10. ASSUME g.step = "tibber_markup_review", NEW markup \in Markups,
              Supplier(f, [g EXCEPT !.pending = Nothing], Overlay(g.supplier,
                                  [k \in {"vatRate", "markup"} |->
                                      IF k = "markup" THEN markup ELSE g.pending["vatRate"]]),
                          FALSE, FALSE)
       PROVE  IInv' /\ StepSound
  <2>1. PICK h : h = [g EXCEPT !.pending = Nothing]
    OBVIOUS
  <2>2. PICK input : input = Overlay(g.supplier, [k \in {"vatRate", "markup"} |->
                                IF k = "markup" THEN markup ELSE g.pending["vatRate"]])
    OBVIOUS
  <2>3. Supplier(f, h, input, FALSE, FALSE)
    BY <1>10, <2>1, <2>2
  <2>4. SameBut(h, g, {"pending"})
    BY <1>4, <2>1, FieldsAre DEF SameBut
  <2>5. h.rates = g.rates /\ h.supplier = g.supplier /\ h.ref = g.ref
    BY <2>4, FieldsAre DEF SameBut
  <2>6. SameBut(h, g, SupplierChanges)
    BY <2>4 DEF SameBut, SupplierChanges
  <2>7. Get(g.pending, "vatRate") = g.pending["vatRate"]
    BY <1>3, <1>10 DEF Get
  <2>8. Get(input, "vatRate") = g.pending["vatRate"]
    BY <2>2 DEF Overlay, Get
  <2>9. DOMAIN h.supplier \subseteq SupplierKeys /\ RateKnown(h, h.supplier) /\ RateKnown(h, input)
    BY <1>3, <2>5, <2>7, <2>8 DEF AtSupplier, Drafted, Supplying, RateKnown
  <2>10. AtSupplier(h) /\ h.kind = g.kind
    BY <1>3, <2>5, <2>6, <2>9, AtSupplierStays
  <2>11. QED  BY <1>1, <1>3, <2>3, <2>9, <2>10, SupplierSound
<1>11. CASE SubmitMarkupReview(f)
  BY <1>1, <1>5, <1>10, <1>11 DEF SubmitMarkupReview
<1>12. QED  BY <1>1, <1>7, <1>8, <1>9, <1>11 DEF SubmitMarkupEstimate

-----------------------------------------------------------------------------
(* Grid charges, directional sources and insights. *)

LEMMA GridValuesIs ==
    ASSUME NEW draft, DOMAIN draft \subseteq GridKeys, NEW shown \in GridModes, NEW chosen, NEW input
    PROVE  DOMAIN GridValues(draft, shown, chosen, input) \subseteq GridKeys
<1>1. GridFields(shown) \subseteq GridKeys
  BY DEF GridFields, GridModes, GridKeys
<1>2. PICK typed : typed = Overlay(draft, [k \in GridFields(shown) |-> Get(input, k)])
  OBVIOUS
<1>3. DOMAIN typed \subseteq GridKeys
  BY <1>1, <1>2 DEF Overlay
<1>4. GridValues(draft, shown, chosen, input) \in {typed, [typed EXCEPT !["schedule"] = "default"]}
  BY <1>2 DEF GridValues
<1>5. QED  BY <1>3, <1>4

LEMMA GridResultIs ==
    ASSUME NEW values, DOMAIN values \subseteq GridKeys, NEW mode \in GridModes
    PROVE  DOMAIN GridResult(values, mode) \subseteq GridKeys
<1>1. CASE mode = "unconfigured"
  BY <1>1 DEF GridResult, Each
<1>2. CASE mode = "constant"
  <2>1. GridResult(values, mode) = Overlay(values, Each(TariffKeys, None))
    BY <1>2 DEF GridResult
  <2>2. QED  BY <2>1 DEF Overlay, Each, GridKeys
<1>3. CASE mode = "time_of_use"
  BY <1>3 DEF GridResult
<1>4. QED  BY <1>1, <1>2, <1>3 DEF GridModes

LEMMA SubmitGridSound ==
    ASSUME IInv, NEW f \in Flows, NEW mode \in GridModes, NEW answer, SubmitGrid(f, mode, answer)
    PROVE  IInv' /\ StepSound
<1>1. PICK g : g = flows[f]
  OBVIOUS
<1>2. PICK values : values = GridValues(g.grid, g.gridMode, mode, answer)
  OBVIOUS
<1>3. /\ g.step = "grid"
      /\ IF mode = "unconfigured" \/ (mode = g.gridMode /\ GridAccepted(values, mode))
         THEN Finish(f, g, "grid", GridResult(values, mode))
         ELSE Show(f, [g EXCEPT !.grid = values, !.gridMode = mode])
  BY <1>1, <1>2 DEF SubmitGrid
<1>4. Open(f) /\ Dialog(g) /\ Drafted(g) /\ g.gridMode \in GridModes
  BY <1>1, <1>3, OpenDialog DEF Dialog, Shown
<1>5. DOMAIN values \subseteq GridKeys
  BY <1>2, <1>4, GridValuesIs DEF Drafted
<1>6. CASE mode = "unconfigured" \/ (mode = g.gridMode /\ GridAccepted(values, mode))
  <2>1. PICK result : result = GridResult(values, mode)
    OBVIOUS
  <2>2. SectionSound(g, "grid", result)
    BY <1>5, <2>1, GridResultIs DEF SectionSound, Sections
  <2>3. g.kind = "setup" => Stage(g, "grid")
    BY <1>3, <1>4, AtStage
  <2>4. Finish(f, g, "grid", result)
    BY <1>3, <1>6, <2>1
  <2>5. QED  BY <1>1, <1>4, <2>2, <2>3, <2>4, FinishSound
<1>7. CASE ~(mode = "unconfigured" \/ (mode = g.gridMode /\ GridAccepted(values, mode)))
  <2>1. PICK h : h = [g EXCEPT !.grid = values, !.gridMode = mode]
    OBVIOUS
  <2>2. SameBut(h, g, {"grid", "gridMode"}) /\ h.grid = values /\ h.gridMode = mode
    BY <1>4, <2>1, FieldsAre DEF SameBut, Drafted
  <2>3. /\ h.kind = g.kind /\ h.tibber = g.tibber /\ h.measurements = g.measurements
        /\ h.market = g.market /\ h.supplier = g.supplier /\ h.production = g.production
        /\ h.insights = g.insights /\ h.supplierOpen = g.supplierOpen /\ h.step = "grid"
        /\ h.retried = g.retried /\ h.periods = g.periods /\ h.rates = g.rates
    BY <1>3, <2>2, FieldsAre DEF SameBut
  <2>4. Drafted(h)
    BY <1>4, <1>5, <2>2, <2>3 DEF Drafted, SameBut
  <2>5. Wizard(h) \/ h.kind # "setup"
    BY <1>3, <1>4, <2>3, StepsAre DEF Dialog, Wizard, Measured, PeriodIsTold, Supplied
  <2>6. Shown(h)
    BY <2>2, <2>3, StepsAre DEF Shown
  <2>7. Dialog(h)
    BY <1>3, <1>4, <2>3, <2>4, <2>5, <2>6, StepsAre DEF Dialog, Corrected
  <2>8. QED  BY <1>1, <1>3, <1>4, <1>7, <2>1, <2>3, <2>7, ShowSound
<1>8. QED  BY <1>6, <1>7

LEMMA SubmitInsightsSound ==
    ASSUME IInv, NEW f \in Flows, NEW mode, NEW answer, SubmitInsights(f, mode, answer)
    PROVE  IInv' /\ StepSound
<1>1. PICK g : g = flows[f]
  OBVIOUS
<1>2. PICK values : values = InsightValues(g.insights, answer)
  OBVIOUS
<1>3. /\ g.step = "insights"
      /\ CASE ~InsightAccepted(values) ->
                    Show(f, [g EXCEPT !.insights = values])
           [] InsightAccepted(values) /\ mode # values["goodMode"] ->
                    Show(f, [g EXCEPT !.insights = [values EXCEPT !["goodMode"] = mode]])
           [] OTHER ->
                    Finish(f, g, "insights", InsightResult(values, g.hadThreshold))
  BY <1>1, <1>2 DEF SubmitInsights
<1>4. Open(f) /\ Dialog(g) /\ Drafted(g)
  BY <1>1, <1>3, OpenDialog DEF Dialog
<1>5. DOMAIN values \subseteq InsightKeys
  <2>1. InsightFields(g.insights["goodMode"]) \subseteq InsightKeys
    BY DEF InsightFields, InsightKeys
  <2>2. QED  BY <1>2, <1>4, <2>1 DEF Drafted, InsightValues, Overlay
<1>6. ASSUME NEW draft, DOMAIN draft \subseteq InsightKeys, Show(f, [g EXCEPT !.insights = draft])
      PROVE  IInv' /\ StepSound
  <2>1. PICK h : h = [g EXCEPT !.insights = draft]
    OBVIOUS
  <2>2. SameBut(h, g, {"insights"}) /\ h.insights = draft
    BY <1>4, <2>1, FieldsAre DEF SameBut, Drafted
  <2>3. /\ h.kind = g.kind /\ h.tibber = g.tibber /\ h.measurements = g.measurements
        /\ h.market = g.market /\ h.supplier = g.supplier /\ h.grid = g.grid
        /\ h.production = g.production /\ h.supplierOpen = g.supplierOpen /\ h.step = "insights"
        /\ h.retried = g.retried /\ h.periods = g.periods /\ h.rates = g.rates
    BY <1>3, <2>2, FieldsAre DEF SameBut
  <2>4. Drafted(h)
    BY <1>4, <1>6, <2>2, <2>3 DEF Drafted, SameBut
  <2>5. Wizard(h) \/ h.kind # "setup"
    BY <1>3, <1>4, <2>3, StepsAre DEF Dialog, Wizard, Measured, PeriodIsTold, Supplied, Produced
  <2>6. Shown(h)
    BY <2>3, StepsAre DEF Shown
  <2>7. Dialog(h)
    BY <1>3, <1>4, <2>3, <2>4, <2>5, <2>6, StepsAre DEF Dialog, Corrected
  <2>8. QED  BY <1>1, <1>4, <1>6, <2>1, <2>3, <2>7, ShowSound
<1>7. CASE ~InsightAccepted(values)
  BY <1>3, <1>5, <1>6, <1>7
<1>8. CASE InsightAccepted(values) /\ mode # values["goodMode"]
  <2>1. PICK draft : draft = [values EXCEPT !["goodMode"] = mode]
    OBVIOUS
  <2>2. DOMAIN draft \subseteq InsightKeys
    BY <1>5, <2>1
  <2>3. QED  BY <1>3, <1>6, <1>8, <2>1, <2>2
<1>9. CASE InsightAccepted(values) /\ mode = values["goodMode"]
  <2>1. PICK result : result = InsightResult(values, g.hadThreshold)
    OBVIOUS
  <2>2. DOMAIN result \subseteq InsightKeys
    BY <1>5, <2>1 DEF InsightResult, Only
  <2>3. SectionSound(g, "insights", result)
    BY <2>2 DEF SectionSound, Sections
  <2>4. g.kind = "setup" => Stage(g, "insights")
    BY <1>3, <1>4, AtStage
  <2>5. Finish(f, g, "insights", result)
    BY <1>3, <1>9, <2>1
  <2>6. QED  BY <1>1, <1>4, <2>3, <2>4, <2>5, FinishSound
<1>10. QED  BY <1>7, <1>8, <1>9

(* The bindings and what belongs to them have a section's keys. *)
LEMMA ClearedIs ==
    ASSUME NEW draft, NEW ref, NEW values, values = ProductionCleared(draft, ref)
    PROVE  DOMAIN values = ProductionKeys /\ BindingsAccepted(values, ref)
<1>1. DOMAIN values = ProductionKeys
  BY DEF ProductionCleared
<1>2. ASSUME NEW k \in FlowKeys
      PROVE  values[k] = None
  <2>1. k \in ProductionKeys /\ k \notin PhaseKeys \cup PresenceKeys \cup {"enabled"}
    BY KeysOf
  <2>2. QED  BY <2>1 DEF ProductionCleared
<1>3. QED  BY <1>1, <1>2 DEF BindingsAccepted

LEMMA ReboundIs ==
    ASSUME NEW draft, NEW bindings, NEW ref, BindingsAccepted(bindings, ref),
           NEW values, values = Rebound(draft, bindings, ref)
    PROVE  DOMAIN values = ProductionKeys /\ BindingsAccepted(values, ref)
<1>1. DOMAIN values = ProductionKeys
  BY DEF Rebound
<1>2. ASSUME NEW k \in FlowKeys
      PROVE  values[k] = bindings[k]
  <2>1. k \in ProductionKeys /\ k \notin PhaseKeys
    BY KeysOf
  <2>2. QED  BY <2>1 DEF Rebound
<1>3. QED  BY <1>1, <1>2 DEF BindingsAccepted

\* A form of the section shown again, or its second form.
LEMMA FlowForm ==
    ASSUME NEW g, Dialog(g), g.step \in FlowSteps,
           NEW h, SameBut(h, g, {"production", "step", "flowsOn"}), h.step \in FlowSteps,
           DOMAIN h.production = ProductionKeys,
           h.step = "flow_compatibility" => BindingsAccepted(h.production, g.ref)
    PROVE  Dialog(h) /\ h.kind = g.kind
<1>1. /\ h.kind = g.kind /\ h.tibber = g.tibber /\ h.measurements = g.measurements
      /\ h.market = g.market /\ h.supplier = g.supplier /\ h.grid = g.grid
      /\ h.insights = g.insights /\ h.supplierOpen = g.supplierOpen /\ h.ref = g.ref
      /\ h.retried = g.retried /\ h.periods = g.periods /\ h.rates = g.rates
  BY FieldsAre DEF SameBut
<1>2. Drafted(h)
  BY <1>1 DEF Dialog, Drafted, SameBut
<1>3. Wizard(h) \/ h.kind # "setup"
  BY <1>1, StepsAre DEF Dialog, Wizard, Measured, PeriodIsTold, Supplied
<1>4. Producing(h)
  BY <1>1 DEF Dialog, Shown, Producing
<1>5. Shown(h)
  BY <1>1, <1>4, StepsAre DEF Shown
<1>6. h.kind = "options" => Corrected(h)
  BY <1>1, StepsAre DEF Dialog, Corrected
<1>7. QED  BY <1>1, <1>2, <1>3, <1>5, <1>6, StepsAre DEF Dialog

\* The section completed with accepted bindings.
LEMMA ProductionFinished ==
    ASSUME IInv, NEW f \in Flows, Open(f), NEW g, g = flows[f], Dialog(g), g.step \in FlowSteps,
           NEW values, DOMAIN values = ProductionKeys, BindingsAccepted(values, g.ref),
           Finish(f, g, "production", values)
    PROVE  IInv' /\ StepSound
<1>1. SectionSound(g, "production", values)
  BY DEF SectionSound, Sections
<1>2. Drafted(g) /\ (g.kind = "setup" => Stage(g, "production"))
  BY AtStage
<1>3. QED  BY <1>1, <1>2, FinishSound

LEMMA FlowsSound ==
    ASSUME IInv, NEW f \in Flows, FlowsOff(f) \/ FlowsOn(f)
    PROVE  IInv' /\ StepSound
<1>1. PICK g : g = flows[f]
  OBVIOUS
<1>2. g.step = "energy_flows"
  BY <1>1 DEF FlowsOff, FlowsOn
<1>3. Open(f) /\ Dialog(g) /\ g.step \in FlowSteps /\ Drafted(g)
  BY <1>1, <1>2, OpenDialog, StepsAre DEF Dialog
<1>4. CASE FlowsOff(f)
  <2>1. PICK values : values = ProductionCleared(g.production, g.ref)
    OBVIOUS
  <2>2. Finish(f, g, "production", values)
    BY <1>1, <1>4, <2>1 DEF FlowsOff
  <2>3. QED  BY <1>1, <1>3, <2>1, <2>2, ClearedIs, ProductionFinished
<1>5. CASE FlowsOn(f)
  <2>1. PICK h : h = [g EXCEPT !.flowsOn = TRUE]
    OBVIOUS
  <2>2. SameBut(h, g, {"production", "step", "flowsOn"}) /\ h.production = g.production /\ h.step = "energy_flows"
    BY <1>2, <1>3, <2>1, FieldsAre DEF SameBut, Drafted
  <2>3. DOMAIN g.production = ProductionKeys
    BY <1>3 DEF Dialog, Shown, Producing
  <2>4. Dialog(h) /\ h.kind = g.kind
    BY <1>3, <2>2, <2>3, FlowForm, StepsAre
  <2>5. Show(f, h)
    BY <1>1, <1>5, <2>1 DEF FlowsOn
  <2>6. QED  BY <1>1, <1>3, <2>4, <2>5, ShowSound
<1>6. QED  BY <1>4, <1>5

LEMMA SubmitBindingsSound ==
    ASSUME IInv, NEW f \in Flows, NEW bindings \in BindingAnswers, NEW confirmed,
           SubmitBindings(f, bindings, confirmed)
    PROVE  IInv' /\ StepSound
<1>1. PICK g : g = flows[f]
  OBVIOUS
<1>2. PICK empty, draft : /\ empty = \A k \in FlowKeys : bindings[k] = None
                          /\ draft = Overlay(g.production, bindings)
  OBVIOUS
<1>3. /\ g.step = "energy_flows"
      /\ CASE empty ->
                    Finish(f, g, "production", ProductionCleared(draft, g.ref))
           [] ~empty /\ confirmed /\ BindingsAccepted(bindings, g.ref) ->
                    Show(f, [g EXCEPT !.production = Rebound(@, bindings, g.ref),
                                      !.step = "flow_compatibility"])
           [] ~empty /\ ~(confirmed /\ BindingsAccepted(bindings, g.ref)) ->
                    Show(f, [g EXCEPT !.production = draft])
  BY <1>1, <1>2 DEF SubmitBindings
<1>4. Open(f) /\ Dialog(g) /\ g.step \in FlowSteps /\ Drafted(g)
  BY <1>1, <1>3, OpenDialog, StepsAre DEF Dialog
<1>5. CASE empty
  <2>1. PICK values : values = ProductionCleared(draft, g.ref)
    OBVIOUS
  <2>2. Finish(f, g, "production", values)
    BY <1>3, <1>5, <2>1
  <2>3. QED  BY <1>1, <1>4, <2>1, <2>2, ClearedIs, ProductionFinished
<1>6. CASE ~empty /\ confirmed /\ BindingsAccepted(bindings, g.ref)
  <2>1. PICK values : values = Rebound(g.production, bindings, g.ref)
    OBVIOUS
  <2>2. PICK h : h = [g EXCEPT !.production = values, !.step = "flow_compatibility"]
    OBVIOUS
  <2>3. SameBut(h, g, {"production", "step", "flowsOn"}) /\ h.production = values /\ h.step = "flow_compatibility"
    BY <1>4, <2>2, FieldsAre DEF SameBut, Drafted
  <2>4. Dialog(h) /\ h.kind = g.kind
    <3>1. DOMAIN values = ProductionKeys /\ BindingsAccepted(values, g.ref)
      BY <1>6, <2>1, ReboundIs
    <3>2. QED  BY <1>4, <2>3, <3>1, FlowForm, StepsAre
  <2>5. Show(f, h)
    BY <1>3, <1>6, <2>1, <2>2
  <2>6. QED  BY <1>1, <1>4, <2>4, <2>5, ShowSound
<1>7. CASE ~empty /\ ~(confirmed /\ BindingsAccepted(bindings, g.ref))
  <2>1. PICK h : h = [g EXCEPT !.production = draft]
    OBVIOUS
  <2>2. SameBut(h, g, {"production", "step", "flowsOn"}) /\ h.production = draft /\ h.step = "energy_flows"
    BY <1>3, <1>4, <2>1, FieldsAre DEF SameBut, Drafted
  <2>3. DOMAIN draft = ProductionKeys
    BY <1>2, <1>4, ConfigAssumption, KeysOf DEF Overlay, Dialog, Shown, Producing
  <2>4. Dialog(h) /\ h.kind = g.kind
    BY <1>4, <2>2, <2>3, FlowForm, StepsAre
  <2>5. Show(f, h)
    BY <1>3, <1>7, <2>1
  <2>6. QED  BY <1>1, <1>4, <2>4, <2>5, ShowSound
<1>8. QED  BY <1>5, <1>6, <1>7

LEMMA SubmitCompatibilitySound ==
    ASSUME IInv, NEW f \in Flows, NEW answer, SubmitCompatibility(f, answer)
    PROVE  IInv' /\ StepSound
<1>1. PICK g : g = flows[f]
  OBVIOUS
<1>2. PICK values : values = Overlay(g.production, Only(answer, CompatibilityFields(g.production)))
  OBVIOUS
<1>3. /\ g.step = "flow_compatibility"
      /\ IF CompatibilityAccepted(values) THEN Finish(f, g, "production", values)
         ELSE Show(f, [g EXCEPT !.production = values])
  BY <1>1, <1>2 DEF SubmitCompatibility
<1>4. Open(f) /\ Dialog(g) /\ g.step \in FlowSteps /\ Drafted(g)
  BY <1>1, <1>3, OpenDialog, StepsAre DEF Dialog
<1>5. DOMAIN g.production = ProductionKeys /\ BindingsAccepted(g.production, g.ref)
  BY <1>3, <1>4 DEF Dialog, Shown, Producing
<1>6. PICK fields : /\ fields = CompatibilityFields(g.production)
                    /\ fields \subseteq ProductionKeys /\ fields \cap FlowKeys = {}
  <2>1. CompatibilityFields(g.production) \subseteq {"enabled"} \cup PresenceKeys \cup PhaseKeys
    BY DEF CompatibilityFields, PhaseKeys
  <2>2. QED  BY <2>1, KeysOf DEF ProductionKeys
<1>7. /\ DOMAIN values = ProductionKeys
      /\ \A k \in FlowKeys : values[k] = g.production[k]
  BY <1>2, <1>5, <1>6, KeysOf DEF Overlay, Only
<1>8. BindingsAccepted(values, g.ref)
  BY <1>5, <1>7 DEF BindingsAccepted
<1>9. CASE CompatibilityAccepted(values)
  BY <1>1, <1>3, <1>4, <1>7, <1>8, <1>9, ProductionFinished
<1>10. CASE ~CompatibilityAccepted(values)
  <2>1. PICK h : h = [g EXCEPT !.production = values]
    OBVIOUS
  <2>2. SameBut(h, g, {"production", "step", "flowsOn"}) /\ h.production = values /\ h.step = "flow_compatibility"
    BY <1>3, <1>4, <2>1, FieldsAre DEF SameBut, Drafted
  <2>3. Dialog(h) /\ h.kind = g.kind
    BY <1>4, <1>7, <1>8, <2>2, FlowForm, StepsAre
  <2>4. QED  BY <1>1, <1>3, <1>4, <1>10, <2>1, <2>3, ShowSound
<1>11. QED  BY <1>9, <1>10

-----------------------------------------------------------------------------
(* The review: what the wizard has collected becomes the entry. *)

LEMMA AssembledIs ==
    ASSUME NEW g, Drafted(g), Settled(g.market), NEW r, r = Assembled(g, g.insights)
    PROVE  /\ \A draft \in {g.measurements, g.market, g.supplier, g.grid, g.production, g.insights} :
                 \A k \in DOMAIN draft : Get(r, k) = draft[k]
           /\ \A k \in DOMAIN g.measurements \cup DOMAIN g.production :
                 k \in DOMAIN r /\ (k \in DOMAIN g.measurements => r[k] = g.measurements[k])
           /\ Get(r, "vatRate") \in {None, Get(g.tibber, "vatRate"), Get(g.supplier, "vatRate")}
<1>1. PICK known : known = IF g.setupTibber THEN g.tibber ELSE Nothing
  OBVIOUS
<1>2. PICK typed : typed = Only(g.insights, {k \in DOMAIN g.insights : g.insights[k] # None})
  OBVIOUS
<1>3. PICK c1 : c1 = Overlay(g.production, typed)
  OBVIOUS
<1>4. PICK c2 : c2 = Overlay(g.grid, c1)
  OBVIOUS
<1>5. PICK c3 : c3 = Overlay(g.supplier, c2)
  OBVIOUS
<1>6. PICK c4 : c4 = Overlay(g.market, c3)
  OBVIOUS
<1>7. PICK c5 : c5 = Overlay(g.measurements, c4)
  OBVIOUS
<1>8. PICK all : all = Overlay(known, c5)
  OBVIOUS
<1>9. r = IF Cardinality(MarketAreas(Get(all, "market"))) <= 1
          THEN Only(all, DOMAIN all \ {"area"}) ELSE all
  BY <1>1, <1>2, <1>3, <1>4, <1>5, <1>6, <1>7, <1>8 DEF Assembled
<1>10. /\ DOMAIN typed \subseteq InsightKeys
       /\ \A k \in DOMAIN g.insights :
             IF k \in DOMAIN typed THEN typed[k] = g.insights[k] ELSE g.insights[k] = None
  BY <1>2 DEF Only, Drafted
<1>11. /\ DOMAIN c1 = DOMAIN g.production \cup DOMAIN typed
       /\ \A k \in DOMAIN g.production : c1[k] = g.production[k]
       /\ \A k \in DOMAIN typed : c1[k] = typed[k]
  <2>1. DOMAIN g.production \cap DOMAIN typed = {}
    BY <1>10, KeysApart DEF Drafted
  <2>2. QED  BY <1>3, <2>1 DEF Overlay
<1>12. /\ DOMAIN c2 = DOMAIN g.grid \cup DOMAIN c1
       /\ \A k \in DOMAIN g.grid : c2[k] = g.grid[k]
       /\ \A k \in DOMAIN c1 : c2[k] = c1[k]
  <2>1. DOMAIN g.grid \cap DOMAIN c1 = {}
    BY <1>10, <1>11, KeysApart DEF Drafted
  <2>2. QED  BY <1>4, <2>1 DEF Overlay
<1>13. /\ DOMAIN c3 = DOMAIN g.supplier \cup DOMAIN c2
       /\ \A k \in DOMAIN g.supplier : c3[k] = g.supplier[k]
       /\ \A k \in DOMAIN c2 : c3[k] = c2[k]
  <2>1. DOMAIN g.supplier \cap DOMAIN c2 = {}
    BY <1>10, <1>11, <1>12, KeysApart DEF Drafted
  <2>2. QED  BY <1>5, <2>1 DEF Overlay
<1>14. /\ DOMAIN c4 = DOMAIN g.market \cup DOMAIN c3
       /\ \A k \in DOMAIN g.market : c4[k] = g.market[k]
       /\ \A k \in DOMAIN c3 : c4[k] = c3[k]
  <2>1. DOMAIN g.market \cap DOMAIN c3 = {}
    BY <1>10, <1>11, <1>12, <1>13, KeysApart DEF Drafted
  <2>2. QED  BY <1>6, <2>1 DEF Overlay
<1>15. /\ DOMAIN c5 = DOMAIN g.measurements \cup DOMAIN c4
       /\ \A k \in DOMAIN g.measurements : c5[k] = g.measurements[k]
       /\ \A k \in DOMAIN c4 : c5[k] = c4[k]
  <2>1. DOMAIN g.measurements \cap DOMAIN c4 = {}
    BY <1>10, <1>11, <1>12, <1>13, <1>14, KeysApart DEF Drafted
  <2>2. QED  BY <1>7, <2>1 DEF Overlay
<1>16. /\ DOMAIN all = DOMAIN known \cup DOMAIN c5
       /\ \A k \in DOMAIN c5 : all[k] = c5[k]
       /\ \A k : Get(all, k) = IF k \in DOMAIN c5 THEN c5[k] ELSE Get(known, k)
  BY <1>8 DEF Overlay, Get
<1>17. /\ DOMAIN known \subseteq TibberKeys
       /\ Get(known, "vatRate") \in {None, Get(g.tibber, "vatRate")}
  BY <1>1, GetNothing DEF Drafted
<1>18. Get(all, "market") = g.market["market"] /\ DOMAIN g.market = MarketKeys
  BY <1>14, <1>15, <1>16, KeysOf DEF Settled
<1>19. \A k : k # "area" => /\ Get(r, k) = Get(all, k)
                            /\ k \in DOMAIN all => k \in DOMAIN r /\ r[k] = all[k]
  BY <1>9 DEF Only, Get
<1>20. Get(r, "area") = g.market["area"]
  <2>1. Get(all, "area") = g.market["area"]
    BY <1>14, <1>15, <1>16, <1>18, KeysOf
  <2>2. CASE HasSeveral(g.market["market"])
    BY <1>9, <1>18, <2>1, <2>2, MarketsFinite DEF HasSeveral
  <2>3. CASE ~HasSeveral(g.market["market"])
    <3>1. g.market["area"] = None
      BY <2>3 DEF Settled, AreaFits
    <3>2. r = Only(all, DOMAIN all \ {"area"})
      BY <1>9, <1>18, <2>3, MarketsFinite
    <3>3. Get(r, "area") = None
      BY <3>2 DEF Only, Get
    <3>4. QED  BY <3>1, <3>3
  <2>4. QED  BY <2>2, <2>3
<1>21. "area" \notin DOMAIN g.measurements \cup DOMAIN g.supplier \cup DOMAIN g.grid
                     \cup DOMAIN g.production \cup DOMAIN g.insights
  BY KeysApart, KeysOf DEF Drafted
<1>22. \A k \in DOMAIN g.measurements : Get(r, k) = g.measurements[k]
  BY <1>15, <1>16, <1>19, <1>21
<1>23. \A k \in DOMAIN g.market : Get(r, k) = g.market[k]
  BY <1>14, <1>15, <1>16, <1>19, <1>20
<1>24. \A k \in DOMAIN g.supplier : Get(r, k) = g.supplier[k]
  BY <1>13, <1>14, <1>15, <1>16, <1>19, <1>21
<1>25. \A k \in DOMAIN g.grid : Get(r, k) = g.grid[k]
  BY <1>12, <1>13, <1>14, <1>15, <1>16, <1>19, <1>21
<1>26. \A k \in DOMAIN g.production : Get(r, k) = g.production[k]
  BY <1>11, <1>12, <1>13, <1>14, <1>15, <1>16, <1>19, <1>21
<1>27. \A k \in DOMAIN g.insights : Get(r, k) = g.insights[k]
  <2> SUFFICES ASSUME NEW k \in DOMAIN g.insights PROVE Get(r, k) = g.insights[k]
    OBVIOUS
  <2>1. CASE k \in DOMAIN typed
    BY <1>10, <1>11, <1>12, <1>13, <1>14, <1>15, <1>16, <1>19, <1>21, <2>1
  <2>2. CASE k \notin DOMAIN typed
    <3>1. k \in InsightKeys
      BY DEF Drafted
    <3>2. k \notin TibberKeys
      BY <3>1, KeysApart DEF TibberKeys, InsightKeys
    <3>3. k \notin DOMAIN c5
      BY <1>11, <1>12, <1>13, <1>14, <1>15, <2>2, <3>1, KeysApart DEF Drafted
    <3>4. Get(all, k) = None
      BY <1>16, <1>17, <3>2, <3>3 DEF Get
    <3>5. QED  BY <1>10, <1>19, <1>21, <2>2, <3>4
  <2>3. QED  BY <2>1, <2>2
<1>28. \A k \in DOMAIN g.measurements \cup DOMAIN g.production :
          k \in DOMAIN r /\ (k \in DOMAIN g.measurements => r[k] = g.measurements[k])
  BY <1>11, <1>12, <1>13, <1>14, <1>15, <1>16, <1>19, <1>21
<1>29. Get(r, "vatRate") \in {None, Get(g.tibber, "vatRate"), Get(g.supplier, "vatRate")}
  <2>1. CASE "vatRate" \in DOMAIN g.supplier
    BY <1>24, <2>1 DEF Get
  <2>2. CASE "vatRate" \notin DOMAIN g.supplier
    <3>1. "vatRate" \notin DOMAIN c5
      BY <1>10, <1>11, <1>12, <1>13, <1>14, <1>15, <2>2, KeysApart, KeysOf DEF Drafted
    <3>2. Get(r, "vatRate") = Get(known, "vatRate")
      BY <1>16, <1>19, <3>1
    <3>3. QED  BY <1>17, <3>2
  <2>3. QED  BY <2>1, <2>2
<1>30. QED  BY <1>22, <1>23, <1>24, <1>25, <1>26, <1>27, <1>28, <1>29

LEMMA EntryMade ==
    ASSUME IInv, NEW f \in Flows, SubmitReview(f), NEW g, g = flows[f], g.kind = "setup"
    PROVE  IInv' /\ StepSound
<1>1. PICK r : r = g.review
  OBVIOUS
<1>2. /\ g.step = "review"
      /\ data' = r /\ flows' = [flows EXCEPT ![f] = Closed]
      /\ last' = Told(g, "setup", Nothing) /\ UNCHANGED <<options, stale>>
  BY <1>1 DEF SubmitReview
<1>3. Open(f) /\ Dialog(g)
  BY <1>2, OpenDialog
<1>4. Drafted(g) /\ Measured(g) /\ Settled(g.market) /\ Supplied(g) /\ Produced(g)
      /\ r = Assembled(g, g.insights)
  BY <1>1, <1>2, <1>3, StepsAre DEF Dialog, Wizard
<1>5. data = Nothing /\ options = Nothing /\ \A d \in Flows : Open(d) => d = f
  BY <1>3 DEF IInv, DialogsSound
<1>6. /\ \A draft \in {g.measurements, g.market, g.supplier, g.grid, g.production, g.insights} :
            \A k \in DOMAIN draft : Get(r, k) = draft[k]
      /\ \A k \in DOMAIN g.measurements : k \in DOMAIN r /\ r[k] = g.measurements[k]
      /\ Get(r, "vatRate") \in {None, Get(g.tibber, "vatRate"), Get(g.supplier, "vatRate")}
  BY <1>4, AssembledIs
<1>7. data' # data /\ data' # Nothing
  <2>1. "power" \in DOMAIN r
    BY <1>4, <1>6, KeysOf DEF Measured
  <2>2. QED  BY <1>2, <1>5, <2>1, GetNothing
<1>8. PICK s : s = Resolved'
  OBVIOUS
<1>9. s = Overlay(r, Nothing)
  BY <1>2, <1>5, <1>8 DEF Resolved
<1>10. \A k : Get(s, k) = Get(r, k) /\ (k \in DOMAIN r => s[k] = r[k])
  BY <1>9, GetNothing DEF Overlay, Get
<1>11. PICK told : told = Told(g, "setup", Nothing)
  OBVIOUS
<1>12. last' = told /\ told.rates = g.rates /\ told.periods = g.periods /\ told.retried = g.retried
  BY <1>2, <1>11 DEF Told
<1>13. TypedIsSaved
  BY <1>1, <1>2, <1>6, <1>7 DEF TypedIsSaved
<1>14. RateIsConfirmed
  BY <1>4, <1>6, <1>8, <1>10, <1>12 DEF RateIsConfirmed, Supplied
<1>15. PeriodIsTyped
  <2>1. DOMAIN g.measurements = MeasurementKeys /\ (g.retried \/ PeriodIsTold(g.measurements, g))
    BY <1>4 DEF Measured
  <2>2. \A k \in {"energy", "energyType"} :
           Get(s, k) = Get(g.measurements, k) /\ s[k] = g.measurements[k]
    BY <1>6, <1>10, <2>1, KeysOf DEF Get
  <2>3. g.retried \/ PeriodIsTold(s, told)
    BY <1>12, <2>1, <2>2 DEF PeriodIsTold
  <2>4. QED  BY <1>8, <1>12, <2>3 DEF PeriodIsTyped
<1>16. SharedOnlyIfStale'
  <2>1. PICK sources : sources = Overlay(g.measurements, g.production)
    OBVIOUS
  <2>2. DOMAIN g.production = ProductionKeys /\ ~SharesSource(sources)
    BY <1>4, <2>1 DEF Produced
  <2>3. \A k \in FlowKeys : Get(sources, k) = g.production[k]
    BY <2>1, <2>2, KeysOf DEF Overlay, Get
  <2>4. \A k \in {"power", "energy"} : Get(sources, k) = g.measurements[k]
    BY <1>4, <2>1, <2>2, KeysApart, KeysOf DEF Measured, Overlay, Get
  <2>5. \A k \in FlowKeys \cup {"power", "energy"} : Get(s, k) = Get(sources, k)
    BY <1>4, <1>6, <1>10, <2>2, <2>3, <2>4, KeysOf DEF Measured
  <2>6. ~SharesSource(s)
    BY <2>2, <2>5, SharesBySource
  <2>7. QED  BY <1>8, <2>6 DEF SharedOnlyIfStale
<1>17. AreaOfItsMarket'
  <2>1. PICK area, market : area = g.market["area"] /\ market = g.market["market"]
    OBVIOUS
  <2>2. Get(s, "area") = area /\ Get(s, "market") = market
    BY <1>4, <1>6, <1>10, <2>1, KeysOf DEF Settled
  <2>3. (area = None /\ Cardinality(MarketAreas(market)) <= 1) \/ area \in MarketAreas(market)
    BY <1>4, <2>1, MarketsFinite DEF Settled, AreaFits
  <2>4. QED  BY <1>8, <2>2, <2>3 DEF AreaOfItsMarket
<1>18. DialogsSound'
  <2>1. DOMAIN flows' = Flows /\ \A d \in Flows : ~Open(d)'
    BY <1>2, <1>5 DEF IInv, DialogsSound, Open, Closed
  <2>2. QED  BY <1>7, <2>1 DEF DialogsSound
<1>19. QED  BY <1>13, <1>14, <1>15, <1>16, <1>17, <1>18 DEF IInv, StepSound

(* Between the menu and the review an options dialog only changes its step. *)
LEMMA AtMenu ==
    ASSUME NEW g, Dialog(g), g.kind = "options", g.step \in {"menu", "review"},
           NEW step \in {"menu", "review"}, NEW h, h = [g EXCEPT !.step = step]
    PROVE  Dialog(h) /\ h.kind = g.kind
<1>1. SameBut(h, g, {"step"}) /\ h.step = step
  BY FieldsAre DEF SameBut, Dialog, Drafted
<1>2. /\ h.kind = g.kind /\ h.tibber = g.tibber /\ h.measurements = g.measurements
      /\ h.market = g.market /\ h.supplier = g.supplier /\ h.grid = g.grid
      /\ h.production = g.production /\ h.insights = g.insights
      /\ h.supplierOpen = g.supplierOpen
  BY <1>1, FieldsAre DEF SameBut
<1>3. Drafted(h)
  BY <1>1, <1>2 DEF Dialog, Drafted, SameBut
<1>4. Shown(h)
  BY <1>1, StepsAre DEF Shown
<1>5. Corrected(h)
  BY <1>2, StepsAre DEF Dialog, Corrected
<1>6. QED  BY <1>1, <1>2, <1>3, <1>4, <1>5 DEF Dialog

LEMMA SubmitReviewSound ==
    ASSUME IInv, NEW f \in Flows, SubmitReview(f)
    PROVE  IInv' /\ StepSound
<1>1. PICK g : g = flows[f]
  OBVIOUS
<1>2. g.step = "review"
  BY <1>1 DEF SubmitReview
<1>3. Open(f) /\ Dialog(g) /\ Drafted(g)
  BY <1>1, <1>2, OpenDialog DEF Dialog
<1>4. CASE g.kind = "setup"
  BY <1>1, <1>4, EntryMade
<1>5. CASE g.kind = "options"
  <2>1. PICK h : h = [g EXCEPT !.step = "menu"]
    OBVIOUS
  <2>2. Show(f, h)
    BY <1>1, <1>5, <2>1 DEF SubmitReview
  <2>3. Dialog(h) /\ h.kind = g.kind
    BY <1>2, <1>3, <1>5, <2>1, AtMenu
  <2>4. QED  BY <1>1, <1>3, <2>2, <2>3, ShowSound
<1>6. QED  BY <1>3, <1>4, <1>5 DEF Drafted

-----------------------------------------------------------------------------
(* Dialogs that open, and the sections chosen in them. *)

LEMMA OpenedIs ==
    ASSUME NEW kind \in {"setup", "options"}, NEW h, h = Opened(kind)
    PROVE  Dialog(h) /\ h.kind = kind
<1>1. /\ DOMAIN h = DialogFields /\ h.kind = kind
      /\ h.step = (IF kind = "setup" THEN "user" ELSE "menu")
      /\ h.supplierOpen = FALSE /\ h.market = Nothing
      /\ \A x \in {"tibber", "measurements", "supplier", "grid", "production", "insights"} :
            h[x] = Nothing
  BY DEF Opened, DialogFields
<1>2. Drafted(h)
  BY <1>1, GetNothing DEF Drafted
<1>3. Wizard(h) \/ h.kind # "setup"
  BY <1>1, StepsAre, GetNothing DEF Wizard, Unrated
<1>4. Shown(h)
  BY <1>1, StepsAre DEF Shown
<1>5. QED  BY <1>1, <1>2, <1>3, <1>4 DEF Dialog, Corrected

LEMMA OpenSound ==
    ASSUME IInv, NEW f \in Flows, OpenSetup(f) \/ OpenOptions(f)
    PROVE  IInv' /\ StepSound
<1>1. PICK kind \in {"setup", "options"} :
         /\ Show(f, Opened(kind)) /\ (kind = "setup") = (data = Nothing)
         /\ data = Nothing => \A d \in Flows : ~Open(d)
  BY DEF OpenSetup, OpenOptions, Open
<1>2. PICK h : h = Opened(kind)
  OBVIOUS
<1>3. Dialog(h) /\ h.kind = kind
  BY <1>2, OpenedIs
<1>4. UNCHANGED <<data, options, saves, stale>> /\ flows' = [flows EXCEPT ![f] = h]
  BY <1>1, <1>2 DEF Show
<1>5. DOMAIN flows' = Flows /\ flows'[f] = h /\ \A d \in Flows \ {f} : flows'[d] = flows[d]
  BY <1>4 DEF IInv, DialogsSound
<1>6. \A d \in Flows \ {f} : Open(d)' => Open(d)
  BY <1>5 DEF Open
<1>7. ASSUME NEW d \in Flows, Open(d)'
      PROVE  Dialog(flows'[d]) /\ (flows'[d].kind = "setup") = (data' = Nothing)
  <2>1. CASE d = f
    BY <1>1, <1>3, <1>4, <1>5, <2>1
  <2>2. CASE d # f
    BY <1>4, <1>5, <1>6, <1>7, <2>2 DEF IInv, DialogsSound
  <2>3. QED  BY <2>1, <2>2
<1>8. data = Nothing => \A d, e \in Flows : Open(d)' /\ Open(e)' => d = e
  BY <1>1, <1>6
<1>9. DialogsSound'
  BY <1>4, <1>5, <1>7, <1>8 DEF IInv, DialogsSound
<1>10. QED  BY <1>4, <1>9, EntryKept DEF IInv

LEMMA ChooseSourceSound ==
    ASSUME IInv, NEW f \in Flows, ChooseCustom(f) \/ ChooseTibber(f)
    PROVE  IInv' /\ StepSound
<1>1. PICK g : g = flows[f]
  OBVIOUS
<1>2. g.step = "user"
  BY <1>1 DEF ChooseCustom, ChooseTibber
<1>3. Open(f) /\ Dialog(g) /\ Drafted(g)
  BY <1>1, <1>2, OpenDialog DEF Dialog
<1>4. (g.kind = "setup" => Unrated(g)) /\ (g.kind = "options" => Corrected(g))
  BY <1>2, <1>3, StepsAre DEF Dialog, Wizard
<1>5. PICK m : /\ Drafted(m) /\ m.kind = g.kind
               /\ (m.kind = "setup" => Unrated(m)) /\ (m.kind = "options" => Corrected(m))
               /\ Show(f, BeginMeasurements(m))
  <2>1. CASE ChooseCustom(f)
    BY <1>1, <1>3, <1>4, <2>1 DEF ChooseCustom
  <2>2. CASE ChooseTibber(f)
    <3>1. PICK home \in Homes : Show(f, BeginMeasurements([g EXCEPT !.tibber = home]))
      BY <1>1, <2>2 DEF ChooseTibber
    <3>2. PICK h : h = [g EXCEPT !.tibber = home]
      OBVIOUS
    <3>3. SameBut(h, g, {"tibber"}) /\ h.tibber = home
      BY <1>3, <3>2, FieldsAre DEF SameBut, Drafted
    <3>4. /\ h.kind = g.kind /\ h.measurements = g.measurements /\ h.market = g.market
          /\ h.supplier = g.supplier /\ h.grid = g.grid /\ h.production = g.production
          /\ h.insights = g.insights /\ h.supplierOpen = g.supplierOpen
      BY <3>3, FieldsAre DEF SameBut
    <3>5. Drafted(h)
      BY <1>3, <3>3, <3>4, DiscoveredUnrated DEF Drafted, SameBut
    <3>6. Unrated(h) /\ (h.kind = "options" => Corrected(h))
      BY <1>4, <3>3, <3>4, DiscoveredUnrated DEF Unrated, Corrected
    <3>7. QED  BY <3>1, <3>2, <3>4, <3>5, <3>6
  <2>3. QED  BY <2>1, <2>2
<1>6. PICK h : h = BeginMeasurements(m)
  OBVIOUS
<1>7. Dialog(h) /\ h.kind = g.kind
  BY <1>5, <1>6, BeginMeasurementsSound
<1>8. QED  BY <1>1, <1>3, <1>5, <1>6, <1>7, ShowSound

LEMMA ChooseSectionSound ==
    ASSUME IInv, NEW f \in Flows, ChooseSection(f)
    PROVE  IInv' /\ StepSound
<1>1. PICK g : g = flows[f]
  OBVIOUS
<1>2. g.step = "menu"
  BY <1>1 DEF ChooseSection
<1>3. Open(f) /\ Dialog(g) /\ Drafted(g)
  BY <1>1, <1>2, OpenDialog DEF Dialog
<1>4. g.kind = "options" /\ Corrected(g)
  BY <1>2, <1>3, StepsAre DEF Dialog, Wizard, Drafted
<1>5. PICK h : /\ Show(f, h)
               /\ \/ h = BeginMeasurements(g) \/ h = BeginMarket(g) \/ h = BeginSupplier(g)
                  \/ h = BeginGrid(g) \/ h = BeginFlows(g) \/ h = BeginInsights(g)
                  \/ h = [g EXCEPT !.step = "review"]
  BY <1>1 DEF ChooseSection
<1>6. Dialog(h) /\ h.kind = g.kind
  <2>1. CASE h = BeginMeasurements(g)
    BY <1>3, <1>4, <2>1, BeginMeasurementsSound
  <2>2. CASE h = BeginMarket(g)
    BY <1>3, <1>4, <2>2, BeginMarketSound
  <2>3. CASE h = BeginSupplier(g)
    BY <1>3, <1>4, <2>3, BeginSupplierSound
  <2>4. CASE h = BeginGrid(g)
    BY <1>3, <1>4, <2>4, BeginGridSound
  <2>5. CASE h = BeginFlows(g)
    BY <1>3, <1>4, <2>5, BeginFlowsSound
  <2>6. CASE h = BeginInsights(g)
    BY <1>3, <1>4, <2>6, BeginInsightsSound
  <2>7. CASE h = [g EXCEPT !.step = "review"]
    BY <1>2, <1>3, <1>4, <2>7, AtMenu
  <2>8. QED  BY <1>5, <2>1, <2>2, <2>3, <2>4, <2>5, <2>6, <2>7
<1>7. QED  BY <1>1, <1>3, <1>5, <1>6, ShowSound

-----------------------------------------------------------------------------
(* Every step, and the theorems. *)

LEMMA StepKeeps ==
    ASSUME IInv, NEW f \in Flows, Step(f)
    PROVE  IInv' /\ StepSound
<1>1. CASE OpenSetup(f) \/ OpenOptions(f)
  BY <1>1, OpenSound
<1>2. CASE Abort(f)
  BY <1>2, CloseSound DEF Abort
<1>3. CASE ChooseCustom(f) \/ ChooseTibber(f)
  BY <1>3, ChooseSourceSound
<1>4. CASE ChooseSection(f)
  BY <1>4, ChooseSectionSound
<1>5. CASE \E input \in MeasurementAnswers : SubmitMeasurements(f, input)
  BY <1>5, SubmitMeasurementsSound
<1>6. CASE SubmitMeasurementEnergy(f)
  BY <1>6, SubmitMeasurementEnergySound
<1>7. CASE \E answer \in MarketAnswers : SubmitMarketPrices(f, answer)
  BY <1>7, SubmitMarketPricesSound
<1>8. CASE SubmitMarketArea(f)
  BY <1>8, SubmitMarketAreaSound
<1>9. CASE \E answer \in SupplierAnswers, requested, estimate \in BOOLEAN :
              SubmitSupplier(f, answer, requested, estimate)
  BY <1>9, SubmitSupplierSound
<1>10. CASE SubmitVatCountry(f) \/ SubmitVatContext(f) \/ SubmitVatReview(f)
  BY <1>10, VatSound
<1>11. CASE \/ SubmitMarkupEstimate(f) \/ EstimateArrives(f) \/ EstimateFails(f)
            \/ SubmitMarkupReview(f)
  BY <1>11, EstimateSound
<1>12. CASE \E mode \in GridModes, answer \in GridAnswers : SubmitGrid(f, mode, answer)
  BY <1>12, SubmitGridSound
<1>13. CASE FlowsOff(f) \/ FlowsOn(f)
  BY <1>13, FlowsSound
<1>14. CASE \E bindings \in BindingAnswers, confirmed \in BOOLEAN :
               SubmitBindings(f, bindings, confirmed)
  BY <1>14, SubmitBindingsSound
<1>15. CASE \E answer \in CompatibilityAnswers : SubmitCompatibility(f, answer)
  BY <1>15, SubmitCompatibilitySound
<1>16. CASE \E mode \in {"fixed", "adaptive"}, answer \in InsightAnswers :
               SubmitInsights(f, mode, answer)
  BY <1>16, SubmitInsightsSound
<1>17. CASE SubmitReview(f)
  BY <1>17, SubmitReviewSound
<1>18. QED
  BY <1>1, <1>2, <1>3, <1>4, <1>5, <1>6, <1>7, <1>8, <1>9, <1>10, <1>11, <1>12, <1>13,
     <1>14, <1>15, <1>16, <1>17 DEF Step

LEMMA InitSound == Init => IInv
<1> SUFFICES ASSUME Init PROVE IInv
  OBVIOUS
<1>1. DialogsSound
  BY DEF Init, DialogsSound, Open, Closed
<1>2. PICK s : s = Resolved
  OBVIOUS
<1>3. \A k : Get(s, k) = Get(data, k)
  BY <1>2, GetNothing DEF Init, Resolved, Overlay, Get
<1>4. data # Nothing => data \in Legacy
  BY DEF Init
<1>5. SharedOnlyIfStale
  <2>1. SharesSource(s) = SharesSource(data)
    BY <1>3, SharesBySource
  <2>2. QED  BY <1>2, <1>4, <2>1, ConfigAssumption DEF SharedOnlyIfStale
<1>6. AreaOfItsMarket
  BY <1>2, <1>3, <1>4 DEF AreaOfItsMarket
<1>7. QED  BY <1>1, <1>5, <1>6 DEF IInv

LEMMA NextSound == IInv /\ [Next]_vars => IInv' /\ [StepSound]_vars
<1> SUFFICES ASSUME IInv, [Next]_vars PROVE IInv' /\ [StepSound]_vars
  OBVIOUS
<1>1. CASE Next
  BY <1>1, StepKeeps DEF Next
<1>2. CASE UNCHANGED vars
  <2>1. UNCHANGED <<data, options, saves, stale>> /\ UNCHANGED flows
    BY <1>2 DEF vars
  <2>2. DialogsSound'
    BY <2>1 DEF IInv, DialogsSound, Open
  <2>3. QED  BY <1>2, <2>1, <2>2, EntryKept DEF IInv
<1>3. QED  BY <1>1, <1>2

(* Every reachable state has sound dialogs and a sound entry. *)
THEOREM Invariance == Spec => []IInv
<1>1. IInv /\ [Next]_vars => IInv'
  BY NextSound
<1>2. QED  BY <1>1, InitSound, PTL DEF Spec

(* No sensor is bound to two purposes in the saved settings unless a dialog  *)
(* saved over sources that another had replaced since it was opened: the     *)
(* checks of measurements and of directional flows against each other        *)
(* (measurement_config.py, production_config.py) leave no other way.         *)
THEOREM SourcesShared == Spec => []SharedOnlyIfStale
<1>1. IInv => SharedOnlyIfStale
  BY DEF IInv
<1>2. QED  BY <1>1, Invariance, PTL

(* The stored area is one of the stored market's, present wherever the       *)
(* market has several, by whatever route a dialog came to its save: the      *)
(* market form, the area form, or a correction kept for the supplier form    *)
(* (market_config.py, config_flow.py).                                       *)
THEOREM AreaFitsMarket == Spec => []AreaOfItsMarket
<1>1. IInv => AreaOfItsMarket
  BY DEF IInv
<1>2. QED  BY <1>1, Invariance, PTL

(* What a section's form said is what is in force after its save, and no     *)
(* other setting moves; a new entry holds what every section of the wizard   *)
(* ended with (settings.py: resolve_settings; config_flow.py).               *)
THEOREM TypedIsInForce == Spec => EntryIsWhatWasTyped
<1>1. IInv /\ [Next]_vars => [TypedIsSaved]_vars
  BY NextSound DEF StepSound
<1>2. QED  BY <1>1, Invariance, PTL DEF Spec, EntryIsWhatWasTyped

(* A VAT rate reaches the entry only from the dialog that saves it: named or *)
(* confirmed in it, or in force when it was opened (supplier_config.py,      *)
(* vat_suggestions.py).                                                      *)
THEOREM VatConfirmed == Spec => VatOnlyConfirmed
<1>1. IInv /\ [Next]_vars => [RateIsConfirmed]_vars
  BY NextSound DEF StepSound
<1>2. QED  BY <1>1, Invariance, PTL DEF Spec, VatOnlyConfirmed

(* The accumulation period saved with a meter was shown or chosen for that   *)
(* meter in that dialog, unless its measurements were once refused           *)
(* (measurement_config.py).                                                  *)
THEOREM PeriodTold == Spec => MeterPeriodIsTold
<1>1. IInv /\ [Next]_vars => [PeriodIsTyped]_vars
  BY NextSound DEF StepSound
<1>2. QED  BY <1>1, Invariance, PTL DEF Spec, MeterPeriodIsTold

=============================================================================
