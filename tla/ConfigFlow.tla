----------------------------- MODULE ConfigFlow -----------------------------
(***************************************************************************)
(* The configuration dialogs of Electricity Pro: the setup wizard, the     *)
(* options menu, and what both leave in the config entry.  Home Assistant  *)
(* lets several dialogs be open at once; each keeps its own draft and the  *)
(* settings it was opened with, and reads the entry again only to save.    *)
(* The reload of the running integration that follows a save is part of    *)
(* StatisticsStore.                                                        *)
(*                                                                         *)
(* A submitted form is one action: the whole handler, up to the form shown *)
(* next.  The only await inside a handler that lets others run is the      *)
(* markup estimate.                                                        *)
(***************************************************************************)
EXTENDS Sections

CONSTANTS
    Flows,          \* dialogs that can be open at the same time
    Legacy,         \* settings of entries that earlier versions may have left
    MaxSaves,       \* bound: saves of options dialogs; a wizard's entry ends the run

    \* What users type, one set of answers per form.
    MeasurementAnswers, MarketAnswers, SupplierAnswers, GridAnswers,
    BindingAnswers, CompatibilityAnswers, InsightAnswers, Rates, Markups

VARIABLES
    data,           \* the entry's data, Nothing before setup has finished
    options,        \* the entry's options
    flows,          \* the open dialogs
    saves,          \* history: saves so far
    stale,          \* history: a save was checked against settings since replaced
    last            \* history: the last save, and what its dialog was told

vars == <<data, options, flows, saves, stale, last>>

\* A directional flow is bound to the meter's or another flow's sensor.
SharesSource(settings) ==
    LET bound == {k \in FlowKeys : Get(settings, k) # None}
    IN  \/ \E k \in bound : settings[k] \in {Get(settings, "power"), Get(settings, "energy")}
        \/ \E j, k \in bound : j # k /\ settings[j] = settings[k]

\* Earlier versions refused a shared source, too.
ASSUME ConfigAssumption ==
    /\ \A l \in Legacy : l # Nothing /\ ~SharesSource(l)
    /\ \A b \in BindingAnswers : DOMAIN b = FlowKeys

\* resolve_settings: options over data, by presence.
Resolved == Overlay(data, options)

Closed == [step |-> "closed"]

\* What is common to every dialog just opened.
Opened(kind) ==
    [step |-> IF kind = "setup" THEN "user" ELSE "menu", kind |-> kind,
     tibber |-> Nothing, setupTibber |-> FALSE,
     measurements |-> Nothing, market |-> Nothing, supplier |-> Nothing,
     grid |-> Nothing, production |-> Nothing, insights |-> Nothing,
     ref |-> Nothing,                   \* the settings this section opened with
     gridMode |-> "unconfigured", flowsOn |-> FALSE, supplierOpen |-> FALSE,
     hadThreshold |-> FALSE,
     vat |-> Nothing, vatSeen |-> FALSE,    \* the values VAT assistance works on
     pending |-> Nothing,               \* the values a markup estimate is for
     review |-> Nothing,
     rates |-> {},                      \* history: VAT rates the user submitted
     periods |-> {},                    \* history: meters with a period the user saw
     retried |-> FALSE]                 \* history: measurements were refused once

Complete(tibber) == {"power", "price"} \subseteq DOMAIN tibber

(* The settings a section of dialog g opens with. *)
SetupDefaults(g) ==
    Overlay(IF Complete(g.tibber) THEN g.tibber ELSE Nothing,
            Overlay(g.measurements, g.market))

ProductionDefaults(g) ==
    Overlay(SetupDefaults(g), Overlay(g.supplier, g.grid))

\* In an options dialog: the saved settings, with a correction of the area
\* that this dialog made before its supplier form.
SavedDefaults(g) ==
    IF g.supplierOpen THEN Overlay(Resolved, g.market) ELSE Resolved

Suggested ==
    IF \E h \in Homes : "power" \in DOMAIN h /\ \A i \in Homes : "power" \in DOMAIN i => i = h
    THEN Only(CHOOSE h \in Homes : "power" \in DOMAIN h, MeasurementKeys)
    ELSE Nothing

SuggestedMarket ==
    IF Cardinality(Markets) = 1 THEN [market |-> CHOOSE n \in Markets : TRUE] ELSE Nothing

----------------------------------------------------------------------------
(* Opening a section: capture its defaults, show its form. *)

BeginMeasurements(g) ==
    LET ref == CASE g.kind = "options" -> Resolved
                 [] g.kind = "setup" /\ g.tibber # Nothing -> g.tibber
                 [] OTHER -> Suggested
        draft == MeasurementDraft(ref)
    IN  [g EXCEPT !.step = "measurements", !.ref = ref, !.measurements = draft,
                  !.periods = {<<Get(draft, "energy"), draft["energyType"]>>}]

BeginMarket(g) ==
    [g EXCEPT !.step = "market_prices",
              !.market = MarketDraft(IF g.kind = "options" THEN Resolved
                                     ELSE SuggestedMarket)]

BeginSupplier(g) ==
    LET h   == [g EXCEPT !.supplierOpen = (g.kind = "options")]
        ref == IF g.kind = "options" THEN SavedDefaults(h) ELSE SetupDefaults(g)
    IN  IF g.kind = "options" /\ NeedsArea(ref)
        THEN [h EXCEPT !.step = "market_area", !.market = MarketDraft(ref), !.ref = ref]
        ELSE [h EXCEPT !.step = "supplier", !.ref = ref, !.supplier = SupplierDraft(ref)]

BeginGrid(g) ==
    LET ref == CASE g.kind = "options" -> SavedDefaults(g)
                 [] g.kind = "setup" /\ g.tibber # Nothing -> g.tibber
                 [] OTHER -> Nothing
    IN  [g EXCEPT !.step = "grid", !.ref = ref, !.grid = GridDraft(ref),
                  !.gridMode = GridMode(ref)]

BeginFlows(g) ==
    LET ref == IF g.kind = "options" THEN SavedDefaults(g) ELSE ProductionDefaults(g)
    IN  [g EXCEPT !.step = "energy_flows", !.ref = ref,
                  !.production = ProductionDraft(ref), !.flowsOn = HasFlows(ref)]

BeginInsights(g) ==
    LET ref == IF g.kind = "options" THEN SavedDefaults(g)
               ELSE Overlay(ProductionDefaults(g), g.production)
    IN  [g EXCEPT !.step = "insights", !.ref = ref, !.insights = InsightDraft(ref),
                  !.hadThreshold = "threshold" \in DOMAIN ref]

----------------------------------------------------------------------------
(* Completing a section. *)

\* The draft of the whole wizard, as the review shows it.
Assembled(g, insights) ==
    LET all == Overlay(IF g.setupTibber THEN g.tibber ELSE Nothing,
                  Overlay(g.measurements, Overlay(g.market, Overlay(g.supplier,
                     Overlay(g.grid, Overlay(g.production,
                        Only(insights, {k \in DOMAIN insights : insights[k] # None})))))))
    IN  IF Cardinality(MarketAreas(Get(all, "market"))) <= 1
        THEN Only(all, DOMAIN all \ {"area"}) ELSE all

\* Discovered settings follow what the user made of them.
Learned(g, values) ==
    IF g.tibber = Nothing THEN Nothing ELSE Overlay(g.tibber, values)

WizardNext(g, section, values) ==
    CASE section = "measurements" ->
            BeginMarket([g EXCEPT !.measurements = values, !.tibber = Learned(g, values)])
      [] section = "market" ->
            BeginSupplier([g EXCEPT !.market = values, !.tibber = Learned(g, values)])
      [] section = "supplier" ->
            BeginGrid([g EXCEPT !.supplier = values, !.tibber = Learned(g, values),
                                !.setupTibber = Complete(g.tibber)])
      [] section = "grid" -> BeginFlows([g EXCEPT !.grid = values])
      [] section = "production" -> BeginInsights([g EXCEPT !.production = values])
      [] section = "insights" ->
            [g EXCEPT !.insights = values, !.review = Assembled(g, values),
                      !.step = "review"]

SavedOptionsAsOpened(g, section, values) ==
    Overlay(IF g.ref = Nothing THEN options ELSE g.ref,
            IF section = "supplier" THEN Overlay(g.market, values) ELSE values)

\* An options save lays the section's values over the options as they are now.
SavedOptions(g, section, values) ==
    Overlay(options, IF section = "supplier"
                     THEN Overlay(g.market, values) ELSE values)

\* Sections that check their values against the settings they were opened with.
Referring == {"measurements", "production"}

\* What the dialog that saves was told.
Told(g, section, values) ==
    [section |-> section, values |-> values,
     corrected |-> IF section = "supplier" THEN g.market ELSE Nothing,
     opened |-> IF section = "supplier" THEN Get(g.ref, "vatRate") ELSE None,
     rates |-> g.rates, periods |-> g.periods, retried |-> g.retried]

Save(f, g, section, values) ==
    /\ saves < MaxSaves
    /\ saves' = saves + 1
    /\ options' = SavedOptions(g, section, values)
    /\ stale' = (stale \/ (section \in Referring /\ g.ref # Resolved))
    /\ last' = Told(g, section, values)
    /\ flows' = [flows EXCEPT ![f] = Closed]
    /\ UNCHANGED data

\* The form shown next; nothing is stored.
Show(f, g) ==
    /\ flows' = [flows EXCEPT ![f] = g]
    /\ UNCHANGED <<data, options, saves, stale, last>>

Finish(f, g, section, values) ==
    IF g.kind = "options" THEN Save(f, g, section, values)
    ELSE Show(f, WizardNext(g, section, values))

----------------------------------------------------------------------------
(* The steps of a dialog. *)

\* Wizards open side by side would make entries of their own and share
\* nothing, so one is enough.
OpenSetup(f) ==
    /\ \A d \in Flows : flows[d].step = "closed"
    /\ data = Nothing
    /\ Show(f, Opened("setup"))

OpenOptions(f) ==
    /\ flows[f].step = "closed"
    /\ data # Nothing
    /\ saves < MaxSaves
    /\ Show(f, Opened("options"))

Abort(f) ==
    /\ flows[f].step # "closed"
    /\ Show(f, Closed)

ChooseCustom(f) ==
    /\ flows[f].step = "user"
    /\ Show(f, BeginMeasurements(flows[f]))

\* One home is taken without a question; without any, the form stays.
ChooseTibber(f) ==
    /\ flows[f].step = "user"
    /\ \E home \in {h \in Homes : "power" \in DOMAIN h} :
          Show(f, BeginMeasurements([flows[f] EXCEPT !.tibber = home]))

ChooseSection(f) ==
    /\ flows[f].step = "menu"
    /\ LET g == flows[f] IN
       \/ Show(f, BeginMeasurements(g))
       \/ Show(f, BeginMarket(g))
       \/ Show(f, BeginSupplier(g))
       \/ Show(f, BeginGrid(g))
       \/ Show(f, BeginFlows(g))
       \/ Show(f, BeginInsights(g))
       \/ Show(f, [g EXCEPT !.step = "review"])

\* The user chose this period for this meter.
Saw(g, values) ==
    [g EXCEPT !.periods = @ \cup {<<values["energy"], values["energyType"]>>}]

SubmitMeasurements(f, input) ==
    LET g      == flows[f]
        values == MeasurementValues(g.measurements, input)
        period == MeasurementPeriod(values, g.measurements, g.ref, input)
        typed  == Overlay(values, [k \in {"energyType"} |-> period])
    IN  /\ g.step = "measurements"
        /\ CASE ~MeasurementsAccepted(values, g.ref) ->
                    Show(f, [g EXCEPT !.measurements = values, !.retried = TRUE])
             [] /\ MeasurementsAccepted(values, g.ref)
                /\ PeriodIsOpen(values, g.ref) ->
                    Show(f, [g EXCEPT !.measurements = typed, !.step = "measurement_energy"])
             [] OTHER ->
                    Finish(f, IF input.advanced # None /\ "energyType" \in DOMAIN input.advanced
                              THEN Saw(g, typed) ELSE g,
                           "measurements", typed)

SubmitMeasurementEnergy(f) ==
    LET g == flows[f]
    IN  /\ g.step = "measurement_energy"
        /\ \E period \in EnergyTypes :
              LET values == [g.measurements EXCEPT !["energyType"] = period]
              IN  Finish(f, Saw(g, values), "measurements", values)

SubmitMarketPrices(f, answer) ==
    LET g      == flows[f]
        values == MarketValues(g.market, Only(answer, MarketFields(g.market)))
    IN  /\ g.step = "market_prices"
        /\ CASE values["market"] # None /\ ~MarketUsable(values["market"]) ->
                    Show(f, [g EXCEPT !.market = values])
             [] NeedsArea(values) ->
                    Show(f, [g EXCEPT !.market = values, !.step = "market_area"])
             [] OTHER -> Finish(f, g, "market", MarketSettled(values))

\* The area alone; before the supplier form of an options dialog it is a
\* correction kept for that dialog's save.
SubmitMarketArea(f) ==
    LET g == flows[f]
    IN  /\ g.step = "market_area"
        /\ \E area \in MarketAreas(g.market["market"]) :
              LET values == [g.market EXCEPT !["area"] = area]
              IN  IF g.supplierOpen
                  THEN Show(f, BeginSupplier([g EXCEPT !.market = values]))
                  ELSE Finish(f, g, "market", values)

\* VAT assistance is entered on request, and once on its own when a market
\* hints at a country and no rate is set.
WantsVat(g, values, requested) ==
    LET effective == Overlay(g.ref, values)
    IN  \/ requested
        \/ /\ Get(effective, "vatRate") = None
           /\ CountryHint(effective) # None
           /\ ~g.vatSeen

WithVatPrefilled(g, values) ==
    LET hint == CountryHint(Overlay(g.ref, values))
    IN  [g EXCEPT !.vatSeen = TRUE,
                  !.vat = Overlay(values, [k \in {"vatRate"} |-> CHOOSE r \in Rates : TRUE]),
                  !.step = IF hint = None THEN "vat_country" ELSE "vat_review"]

WithVat(g, values) ==
    LET hint == CountryHint(Overlay(g.ref, values))
    IN  [g EXCEPT !.vatSeen = TRUE, !.vat = values,
                  !.step = CASE hint = None -> "vat_country"
                             [] hint \in {"NO", "IS"} -> "vat_context"
                             [] OTHER -> "vat_review"]

\* The supplier handler, also entered again with what an assistant returns.
Supplier(f, g, input, requested, estimate) ==
    LET context == Overlay(g.ref, g.supplier)
        typed   == SupplierValues(g.supplier, SupplierFields(context), input)
        values  == SupplierNormal(typed)
        kept    == [g EXCEPT !.supplier = values]
    IN  CASE ~SupplierAccepted(typed) ->
                 Show(f, [g EXCEPT !.supplier = typed, !.step = "supplier"])
          [] SupplierAccepted(typed) /\ WantsVat(g, values, requested) ->
                 Show(f, WithVat(kept, values))
          [] /\ SupplierAccepted(typed) /\ ~WantsVat(g, values, requested)
             /\ estimate /\ IsKnownTibber(context) /\ Get(context, "market") # None ->
                 Show(f, [kept EXCEPT !.pending = Overlay(g.ref, values),
                                      !.step = "tibber_markup_estimate"])
          [] OTHER -> Finish(f, kept, "supplier", values)

SubmitSupplier(f, answer, requested, estimate) ==
    LET g     == flows[f]
        rates == {Get(answer, k) : k \in
                    SupplierFields(Overlay(g.ref, g.supplier)) \cap {"vatRate"}} \ {None}
    IN  /\ g.step = "supplier"
        /\ Supplier(f, [g EXCEPT !.rates = @ \cup rates], answer, requested, estimate)

----------------------------------------------------------------------------
(* VAT assistance: a rate is kept only when the user confirms it. *)

VatReturn(f, g) == Supplier(f, [g EXCEPT !.vat = Nothing], g.vat, FALSE, FALSE)

SubmitVatCountry(f) ==
    LET g == flows[f]
    IN  /\ g.step = "vat_country"
        /\ \/ VatReturn(f, g)
           \/ Show(f, [g EXCEPT !.step = "vat_context"])
           \/ Show(f, [g EXCEPT !.step = "vat_review"])

SubmitVatContext(f) ==
    LET g == flows[f]
    IN  /\ g.step = "vat_context"
        /\ \/ VatReturn(f, g)
           \/ Show(f, [g EXCEPT !.step = "vat_review"])

SubmitVatReview(f) ==
    LET g == flows[f]
    IN  /\ g.step = "vat_review"
        /\ \/ VatReturn(f, g)
           \/ \E rate \in Rates :
                 VatReturn(f, [g EXCEPT !.vat = Overlay(@, [k \in {"vatRate"} |-> rate]),
                                        !.rates = @ \cup {rate}])

----------------------------------------------------------------------------
(* The markup estimate compares prices over an await of up to 30 s, while  *)
(* other dialogs go on.                                                    *)

SubmitMarkupEstimate(f) ==
    LET g == flows[f]
    IN  /\ g.step = "tibber_markup_estimate"
        /\ \/ Show(f, [g EXCEPT !.step = "supplier", !.pending = Nothing])
           \/ /\ Get(g.pending, "vatRate") # None
              /\ MarketAreas(g.pending["market"]) # {}
              /\ Show(f, [g EXCEPT !.step = "estimating"])

EstimateArrives(f) ==
    /\ flows[f].step = "estimating"
    /\ Show(f, [flows[f] EXCEPT !.step = "tibber_markup_review"])

EstimateFails(f) ==
    /\ flows[f].step = "estimating"
    /\ Show(f, [flows[f] EXCEPT !.step = "tibber_markup_estimate"])

SubmitMarkupReview(f) ==
    LET g == flows[f]
    IN  /\ g.step = "tibber_markup_review"
        /\ \/ Show(f, [g EXCEPT !.step = "supplier", !.pending = Nothing])
           \/ \E markup \in Markups :
                 Supplier(f, [g EXCEPT !.pending = Nothing], Overlay(g.supplier,
                                  [k \in {"vatRate", "markup"} |->
                                      IF k = "markup" THEN markup ELSE g.pending["vatRate"]]),
                          FALSE, FALSE)

----------------------------------------------------------------------------
(* Grid charges, directional sources, insights and the review. *)

SubmitGrid(f, mode, answer) ==
    LET g      == flows[f]
        values == GridValues(g.grid, g.gridMode, mode, answer)
    IN  /\ g.step = "grid"
        /\ IF mode = "unconfigured" \/ (mode = g.gridMode /\ GridAccepted(values, mode))
           THEN Finish(f, g, "grid", GridResult(values, mode))
           ELSE Show(f, [g EXCEPT !.grid = values, !.gridMode = mode])

FlowsOff(f) ==
    LET g == flows[f]
    IN  /\ g.step = "energy_flows"
        /\ Finish(f, g, "production", ProductionCleared(g.production, g.ref))

FlowsOn(f) ==
    /\ flows[f].step = "energy_flows"
    /\ ~flows[f].flowsOn
    /\ Show(f, [flows[f] EXCEPT !.flowsOn = TRUE])

SubmitBindings(f, bindings, confirmed) ==
    LET g     == flows[f]
        empty == \A k \in FlowKeys : bindings[k] = None
        draft == Overlay(g.production, bindings)
    IN  /\ g.step = "energy_flows"
        /\ g.flowsOn
        /\ CASE empty ->
                    Finish(f, g, "production", ProductionCleared(draft, g.ref))
             [] ~empty /\ confirmed /\ BindingsAccepted(bindings, g.ref) ->
                    Show(f, [g EXCEPT !.production = Rebound(@, bindings, g.ref),
                                      !.step = "flow_compatibility"])
             [] ~empty /\ ~(confirmed /\ BindingsAccepted(bindings, g.ref)) ->
                    Show(f, [g EXCEPT !.production = draft])

SubmitCompatibility(f, answer) ==
    LET g      == flows[f]
        values == Overlay(g.production, Only(answer, CompatibilityFields(g.production)))
    IN  /\ g.step = "flow_compatibility"
        /\ IF CompatibilityAccepted(values)
           THEN Finish(f, g, "production", values)
           ELSE Show(f, [g EXCEPT !.production = values])

SubmitInsights(f, mode, answer) ==
    LET g      == flows[f]
        values == InsightValues(g.insights, answer)
    IN  /\ g.step = "insights"
        /\ CASE ~InsightAccepted(values) ->
                    Show(f, [g EXCEPT !.insights = values])
             [] InsightAccepted(values) /\ mode # values["goodMode"] ->
                    Show(f, [g EXCEPT !.insights = [values EXCEPT !["goodMode"] = mode]])
             [] OTHER ->
                    Finish(f, g, "insights", InsightResult(values, g.hadThreshold))

\* The review's own form holds only displays: what is stored is the draft.
SubmitReview(f) ==
    LET g == flows[f]
    IN  /\ g.step = "review"
        /\ IF g.kind = "options"
           THEN Show(f, [g EXCEPT !.step = "menu"])
           ELSE /\ data' = g.review
                /\ flows' = [flows EXCEPT ![f] = Closed]
                /\ last' = Told(g, "setup", Nothing)
                /\ saves' = MaxSaves
                /\ UNCHANGED <<options, stale>>

----------------------------------------------------------------------------

Init ==
    /\ data \in Legacy \cup {Nothing}
    /\ options = Nothing
    /\ flows = [f \in Flows |-> Closed]
    /\ saves = 0
    /\ stale = FALSE
    /\ last = None

Step(f) ==
    \/ OpenSetup(f) \/ OpenOptions(f) \/ Abort(f)
    \/ ChooseCustom(f) \/ ChooseTibber(f) \/ ChooseSection(f)
    \/ \E input \in MeasurementAnswers : SubmitMeasurements(f, input)
    \/ SubmitMeasurementEnergy(f)
    \/ \E answer \in MarketAnswers : SubmitMarketPrices(f, answer)
    \/ SubmitMarketArea(f)
    \/ \E answer \in SupplierAnswers, requested, estimate \in BOOLEAN :
          SubmitSupplier(f, answer, requested, estimate)
    \/ SubmitVatCountry(f) \/ SubmitVatContext(f) \/ SubmitVatReview(f)
    \/ SubmitMarkupEstimate(f) \/ EstimateArrives(f) \/ EstimateFails(f)
    \/ SubmitMarkupReview(f)
    \/ \E mode \in GridModes, answer \in GridAnswers : SubmitGrid(f, mode, answer)
    \/ FlowsOff(f) \/ FlowsOn(f)
    \/ \E bindings \in BindingAnswers, confirmed \in BOOLEAN :
          SubmitBindings(f, bindings, confirmed)
    \/ \E answer \in CompatibilityAnswers : SubmitCompatibility(f, answer)
    \/ \E mode \in {"fixed", "adaptive"}, answer \in InsightAnswers :
          SubmitInsights(f, mode, answer)
    \/ SubmitReview(f)

Next == \E f \in Flows : Step(f)

----------------------------------------------------------------------------
(* Properties. *)

Saved == saves' # saves
Owned(told) ==
    CASE told.section = "measurements" -> MeasurementKeys
      [] told.section = "market"       -> MarketKeys
      [] told.section = "supplier"     -> SupplierKeys \cup DOMAIN told.corrected
      [] told.section = "grid"         -> GridKeys
      [] told.section = "production"   -> ProductionKeys
      [] told.section = "insights"     -> InsightKeys

(* Whatever other dialogs saved while this one was open, a save changes    *)
(* only the keys of its own section, and those to what its form said:      *)
(* clears override what setup stored.  A new entry holds what each section *)
(* of the wizard ended with.                                               *)
TypedIsSaved ==
    /\ saves' # saves /\ data' = data =>
          /\ DOMAIN last'.values \subseteq Owned(last')
          /\ \A k \in DOMAIN Resolved' \cup Owned(last') :
                Get(Resolved', k) = IF k \in DOMAIN last'.values THEN last'.values[k]
                                    ELSE IF k \in Owned(last') \cap DOMAIN last'.corrected
                                    THEN last'.corrected[k]
                                    ELSE Get(Resolved, k)
    /\ data' # data =>
          \E f \in Flows :
             /\ flows[f].step = "review"
             /\ \A draft \in {flows[f].measurements, flows[f].market, flows[f].supplier,
                               flows[f].grid, flows[f].production, flows[f].insights} :
                   \A k \in DOMAIN draft : Get(data', k) = draft[k]

EntryIsWhatWasTyped == [][TypedIsSaved]_vars

(* The meter and a directional flow never share a source, and no source is *)
(* bound twice, unless two options dialogs overlapped: a section checks    *)
(* its sources against the settings it was opened with.                    *)
SharedOnlyIfStale ==
    data # Nothing /\ SharesSource(Resolved) => stale

(* An area is only ever stored beside the market it was chosen for, and a  *)
(* market with several areas is never stored without one; an older entry   *)
(* without it may stay as it is.                                           *)
AreaOfItsMarket ==
    data # Nothing =>
        LET area  == Get(Resolved, "area")
            areas == MarketAreas(Get(Resolved, "market"))
        IN  \/ area = None /\ Cardinality(areas) <= 1
            \/ area \in areas
            \/ data \in Legacy /\ area = Get(data, "area")
                  /\ Get(Resolved, "market") = Get(data, "market")

(* No VAT rate reaches the entry but one the user submitted or confirmed   *)
(* in that very dialog; suggestions and declined assistance leave none.  A *)
(* supplier form that does not show the rate writes back the one that was  *)
(* set when it was opened, over one saved meanwhile.                       *)
RateIsConfirmed ==
    Saved => Get(Resolved', "vatRate")
                \in {None, Get(Resolved, "vatRate"), last'.opened} \cup last'.rates

VatOnlyConfirmed == [][RateIsConfirmed]_vars

(* The accumulation period stored for a meter is one its dialog showed or  *)
(* was told for that very meter; a Tibber counter is daily.                *)
PeriodIsTold(settings, told) ==
    \/ Get(settings, "energy") = None
    \/ Get(settings, "energy") \in TibberMeters /\ settings["energyType"] = "daily"
    \/ <<Get(settings, "energy"), Get(settings, "energyType")>> \in told.periods

PeriodIsTyped ==
    Saved /\ last'.section \in {"setup", "measurements"} =>
        PeriodIsTold(Resolved', last') \/ last'.retried

MeterPeriodIsTold == [][PeriodIsTyped]_vars

(* docs/guides/configuration.md: "Known Tibber counters and existing       *)
(* configured periods are retained."  A refused form forgets the period.   *)
ConfiguredPeriodRetained ==
    [][Saved /\ last'.section \in {"setup", "measurements"} =>
          PeriodIsTold(Resolved', last')]_vars

\* Users owe nothing: no dialog need ever be finished.
Spec == Init /\ [][Next]_vars
=============================================================================
