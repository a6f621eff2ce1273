------------------------------ MODULE Sections ------------------------------
(***************************************************************************)
(* The configuration sections of Electricity Pro as pure operators: which  *)
(* settings a section owns, the draft it opens with, what a submitted form *)
(* makes of that draft and whether the section accepts it.  ConfigFlow     *)
(* strings the sections together.                                          *)
(*                                                                         *)
(* Settings are functions from a set of keys to values, and the difference *)
(* between an absent key and one that holds None is kept: the code relies  *)
(* on it.  A submitted form is such a function too, its keys the fields    *)
(* the form shows.  Keys the code always handles alike are one key here:   *)
(* "reading" stands for the eight advanced readings, "declaration" for the *)
(* four price declarations, "schedule" for the four schedule times.        *)
(***************************************************************************)
EXTENDS Naturals, FiniteSets

CONSTANTS
    None,           \* Python's None, a cleared field
    Sources,        \* sensor entities a form can name
    Kind,           \* [Sources -> {"power", "energy", "price", "offline"}]
    Own,            \* the entities Electricity Pro itself provides
    Unregistered,   \* sources without an entry in the entity registry
    Registry,       \* Tibber's entities: [device, key, entity, enabled], the
                    \* key being the setting such an entity can fill
    Markets,        \* Nord Pool configuration entries
    Areas,          \* [Markets -> SUBSET of bidding areas]
    Priced,         \* the markets whose entry holds a currency
    Country         \* [areas -> a country, or None where no hint is kept]

\* None is no market, period or source.  Discovery fills no other settings.
ASSUME SectionsAssumption ==
    /\ None \notin Markets \cup {"daily", "lifetime"} \cup Unregistered
    /\ \A m \in Markets : IsFiniteSet(Areas[m])
    /\ \A e \in Registry : e.key \in {"power", "energy", "reading", "price", "dailyCost"}

Nothing == [k \in {} |-> None]     \* no settings at all

Overlay(base, top) ==
    [k \in DOMAIN base \cup DOMAIN top |->
        IF k \in DOMAIN top THEN top[k] ELSE base[k]]

Get(settings, key) == IF key \in DOMAIN settings THEN settings[key] ELSE None
Only(settings, keys) == [k \in DOMAIN settings \cap keys |-> settings[k]]
Each(keys, value) == [k \in keys |-> value]

----------------------------------------------------------------------------
(* Tibber discovery: the settings each home's enabled entities fill.  A    *)
(* known counter is daily and a known price declares its contract.         *)

TibberOwned  == {e.entity : e \in Registry}
TibberMeters == {e.entity : e \in {e \in Registry : e.key = "energy"}}

Discovered(device) ==
    LET found   == {e \in Registry : e.device = device /\ e.enabled}
        sources == [k \in {e.key : e \in found} |->
                       (CHOOSE e \in found : e.key = k).entity]
    IN  Overlay(sources,
            Overlay(IF "energy" \in DOMAIN sources
                    THEN Each({"energyType"}, "daily") ELSE Nothing,
                    IF "price" \in DOMAIN sources
                    THEN Each({"profile", "declaration"}, "tibber") ELSE Nothing))

Homes == {Discovered(d) : d \in {e.device : e \in {e \in Registry : e.enabled}}}

----------------------------------------------------------------------------
(* Measurements. *)

EnergyTypes == {"daily", "lifetime"}
MeasurementKeys == {"power", "energy", "reading", "energyType"}

Channels == {"production", "grid_export", "household"}
PowerOf == [production |-> "production_power", grid_export |-> "grid_export_power",
            household |-> "household_power"]
EnergyOf == [production |-> "production_energy", grid_export |-> "grid_export_energy",
             household |-> "household_energy"]
PhaseOf == [production |-> "production_phase", grid_export |-> "grid_export_phase",
            household |-> "household_phase"]
PowerKeys == {PowerOf[c] : c \in Channels}
PhaseKeys == {PhaseOf[c] : c \in Channels}
FlowKeys == PowerKeys \cup {EnergyOf[c] : c \in Channels}

MeasurementDraft(reference) ==
    LET kept == Only(reference, MeasurementKeys)
    IN  IF Get(kept, "energyType") \in EnergyTypes
        THEN kept
        ELSE Overlay(kept, Each({"energyType"}, "daily"))

(* A collapsed section of the form may be left out: the draft stands in.   *)
Advanced(draft, input) ==
    IF input.advanced = None THEN draft ELSE input.advanced

MeasurementValues(draft, input) ==
    [power   |-> input.power,
     energy  |-> input.energy,
     reading |-> Get(Advanced(draft, input), "reading")]

(* A source is refused when it is ours, when a directional flow uses it,   *)
(* or when it is newly chosen and its metadata speaks of something else.   *)
MeasurementsAccepted(values, reference) ==
    \A k \in {"power", "energy", "reading"} :
        LET source == values[k]
            wanted == IF k = "power" THEN "power" ELSE "energy"
        IN  \/ source = None
            \/ /\ source \notin Own
               /\ source \notin {Get(reference, f) : f \in FlowKeys}
               /\ source = Get(reference, k) \/ Kind[source] \in {wanted, "offline"}

(* The accumulation period of an accepted draft, and whether the user must *)
(* be asked for it first.                                                  *)
PreviousPeriod(draft) ==
    IF "energyType" \in DOMAIN draft THEN draft["energyType"] ELSE "daily"

PeriodIsOpenOnce(values, reference) ==
    /\ Get(reference, "energy") = None
    /\ values["energy"] # None
    /\ values["energy"] \notin TibberMeters

PeriodIsOpen(values, reference) ==
    /\ values["energy"] # Get(reference, "energy")
    /\ values["energy"] # None
    /\ values["energy"] \notin TibberMeters

MeasurementPeriod(values, draft, reference, input) ==
    LET advanced == Advanced(draft, input)
    IN  CASE values["energy"] = Get(reference, "energy") ->
                IF "energyType" \in DOMAIN advanced
                THEN advanced["energyType"] ELSE PreviousPeriod(draft)
          [] /\ values["energy"] # Get(reference, "energy")
             /\ values["energy"] \in TibberMeters -> "daily"
          [] PeriodIsOpen(values, reference) -> Get(draft, "energyType")
          [] OTHER -> PreviousPeriod(draft)

----------------------------------------------------------------------------
(* Market prices. *)

MarketKeys == {"market", "area"}

MarketDraft(reference) == [k \in MarketKeys |-> Get(reference, k)]

MarketAreas(market) == IF market \in Markets THEN Areas[market] ELSE {}
MarketUsable(market) == MarketAreas(market) # {} /\ market \in Priced

MarketFields(draft) ==
    IF Cardinality(MarketAreas(draft["market"])) > 1 THEN MarketKeys ELSE {"market"}

(* A choice of area is only ever kept for the source it was made for. *)
MarketValues(draft, input) ==
    LET source == Get(input, "market")
        area   == IF "area" \in DOMAIN input THEN input["area"] ELSE draft["area"]
    IN  [market |-> source,
         area   |-> IF source = draft["market"] /\ source # None THEN area ELSE None]

NeedsAreaIfStale(values) ==
    /\ MarketUsable(Get(values, "market"))
    /\ Cardinality(MarketAreas(Get(values, "market"))) > 1
    /\ Get(values, "area") \notin MarketAreas(Get(values, "market")) \cup {None}

NeedsArea(values) ==
    /\ MarketUsable(Get(values, "market"))
    /\ Cardinality(MarketAreas(Get(values, "market"))) > 1
    /\ Get(values, "area") \notin MarketAreas(Get(values, "market"))

(* Runtime inherits a single area, so an older choice is not stored. *)
MarketSettled(values) ==
    IF Cardinality(MarketAreas(values["market"])) > 1
    THEN values ELSE Overlay(values, Each({"area"}, None))

CountryHint(values) ==
    LET areas  == MarketAreas(Get(values, "market"))
        chosen == Get(values, "area")
        hinted == {Country[a] : a \in IF chosen = None THEN areas
                                      ELSE {chosen} \cap areas}
    IN  IF Cardinality(hinted) = 1 /\ None \notin hinted
        THEN CHOOSE c \in hinted : TRUE ELSE None

----------------------------------------------------------------------------
(* Supplier. *)

SupplierKeys == {"price", "declaration", "vatRate", "markup", "supplierFee", "dailyCost"}

SupplierDraft(reference) == Only(reference, SupplierKeys)

(* The declared contract of Tibber's own price sensor, or of one that the  *)
(* registry does not know: its declaration is not asked again.             *)
IsKnownTibber(context) ==
    /\ Get(context, "profile") = "tibber"
    /\ Get(context, "price") \in TibberOwned \cup Unregistered
    /\ Get(context, "declaration") = "tibber"

TibberFields(withMarket) ==
    {"supplierFee"} \cup (IF withMarket THEN {"vatRate", "markup"} ELSE {})

SupplierFields(context) ==
    IF IsKnownTibber(context) THEN TibberFields(Get(context, "market") # None)
    ELSE SupplierKeys

SupplierValues(draft, fields, input) ==
    Overlay(draft, [k \in fields |-> Get(input, k)])

(* Without a price source the declaration is cleared explicitly, over what *)
(* setup once stored; with one it must name market energy.                 *)
Declarations == {"tibber", "partial", "complete"}
SupplierNormal(values) ==
    IF Get(values, "price") = None
    THEN Overlay(values, Each({"declaration"}, None)) ELSE values

SupplierAccepted(values) ==
    /\ {Get(values, "price"), Get(values, "dailyCost")} \cap Own = {}
    /\ Get(values, "price") = None \/ Get(values, "declaration") \in Declarations

----------------------------------------------------------------------------
(* Grid charges. *)

AmountKeys == {"lowFee", "tax", "gridFee"}
TariffKeys == {"highFee", "schedule", "workday"}
GridKeys == AmountKeys \cup TariffKeys
GridModes == {"unconfigured", "constant", "time_of_use"}

GridMode(values) ==
    CASE Get(values, "highFee") # None -> "time_of_use"
      [] /\ Get(values, "highFee") = None
         /\ \E k \in AmountKeys : Get(values, k) # None -> "constant"
      [] OTHER -> "unconfigured"

GridDraft(reference) ==
    LET kept == [k \in GridKeys |-> Get(reference, k)]
    IN  IF GridMode(reference) = "time_of_use" /\ "schedule" \notin DOMAIN reference
        THEN [kept EXCEPT !["schedule"] = "default"] ELSE kept

GridFields(mode) ==
    CASE mode = "unconfigured" -> {}
      [] mode = "constant"     -> AmountKeys
      [] mode = "time_of_use"  -> GridKeys

GridValues(draft, shown, chosen, input) ==
    LET typed == Overlay(draft, [k \in GridFields(shown) |-> Get(input, k)])
    IN  IF chosen = "time_of_use" /\ shown # chosen /\ typed["schedule"] = None
        THEN [typed EXCEPT !["schedule"] = "default"] ELSE typed

GridAccepted(values, mode) ==
    CASE mode = "constant"    -> \E k \in AmountKeys : values[k] # None
      [] mode = "time_of_use" -> /\ values["lowFee"] # None
                                 /\ values["highFee"] # None
                                 /\ values["schedule"] \in {"default", "other"}

GridResult(values, mode) ==
    CASE mode = "unconfigured" -> Each(GridKeys, None)
      [] mode = "constant"     -> Overlay(values, Each(TariffKeys, None))
      [] mode = "time_of_use"  -> values

----------------------------------------------------------------------------
(* Production, export and household sources. *)

Presence == {"unknown", "absent", "present"}
PresenceKeys == {"generation", "storage"}
ProductionKeys == FlowKeys \cup {"enabled"} \cup PresenceKeys \cup PhaseKeys

ProductionDraft(reference) ==
    [k \in ProductionKeys |->
        CASE k \in FlowKeys  -> Get(reference, k)
          [] k = "enabled"   -> Get(reference, k) = TRUE
          [] k \in PresenceKeys \cup PhaseKeys ->
                IF Get(reference, k) = None THEN "unknown" ELSE Get(reference, k)]

HasFlows(settings) == \E k \in FlowKeys : Get(settings, k) # None

(* Removing a binding removes its convention, not the installation. *)
ProductionCleared(draft, reference) ==
    [k \in ProductionKeys |->
        CASE k \in FlowKeys -> None
          [] k = "enabled"  -> FALSE
          [] k \in PresenceKeys -> draft[k]
          [] k \in PhaseKeys ->
                LET c == CHOOSE c \in Channels : PhaseOf[c] = k
                IN  IF Get(reference, PowerOf[c]) # None THEN "unknown" ELSE draft[k]]

BindingsAcceptedAlone(bindings, reference) ==
    LET bound == {k \in FlowKeys : bindings[k] # None}
    IN  /\ \A k \in bound :
              /\ bindings[k] \notin Own
              /\ Kind[bindings[k]] = IF k \in PowerKeys THEN "power" ELSE "energy"
        /\ \A j, k \in bound : j # k => bindings[j] # bindings[k]

(* The bindings are checked against each other, against the imports of the *)
(* reference the section was opened with, and against current metadata.    *)
BindingsAccepted(bindings, reference) ==
    LET bound   == {k \in FlowKeys : bindings[k] # None}
        imports == {Get(reference, "power"), Get(reference, "energy")}
    IN  /\ \A k \in bound :
              /\ bindings[k] \notin Own
              /\ bindings[k] \notin imports
              /\ Kind[bindings[k]] = IF k \in PowerKeys THEN "power" ELSE "energy"
        /\ \A j, k \in bound : j # k => bindings[j] # bindings[k]

Rebound(draft, bindings, reference) ==
    [k \in ProductionKeys |->
        CASE k \in FlowKeys  -> bindings[k]
          [] k \in PhaseKeys ->
                LET c == CHOOSE c \in Channels : PhaseOf[c] = k
                IN  IF bindings[PowerOf[c]] # Get(reference, PowerOf[c])
                    THEN "unknown" ELSE draft[k]
          [] OTHER -> draft[k]]

CompatibilityFields(draft) ==
    {"enabled"} \cup PresenceKeys
        \cup {PhaseOf[c] : c \in {d \in Channels : draft[PowerOf[d]] # None}}

CompatibilityAccepted(values) ==
    ~ /\ values["generation"] = "absent"
      /\ \E k \in {"production_power", "production_energy"} : values[k] # None

----------------------------------------------------------------------------
(* Usage insights. *)

InsightKeys == {"goodMode", "threshold", "percentile", "ceiling"}

InsightDraft(reference) ==
    LET mode == IF Get(reference, "goodMode") = "adaptive" THEN "adaptive" ELSE "fixed"
        share == IF Get(reference, "percentile") = None THEN 25
                 ELSE Get(reference, "percentile")
    IN  Overlay(Only(reference, InsightKeys),
                [k \in {"goodMode", "percentile"} |->
                    IF k = "goodMode" THEN mode ELSE share])

InsightFields(mode) ==
    IF mode = "adaptive" THEN {"threshold", "percentile", "ceiling"} ELSE {"threshold"}

InsightValues(draft, input) ==
    Overlay(draft, [k \in InsightFields(draft["goodMode"]) |-> Get(input, k)])

InsightAccepted(values) ==
    /\ Get(values, "threshold") = None \/ values["threshold"] \in Nat
    /\ values["goodMode"] = "adaptive" => values["percentile"] \in 1..100

(* The key's presence creates the Good Time entity: an untouched blank is  *)
(* not stored where there was no threshold before.                         *)
InsightResult(values, hadThreshold) ==
    IF ~hadThreshold /\ Get(values, "threshold") = None
    THEN Only(values, InsightKeys \ {"threshold"}) ELSE values

=============================================================================
