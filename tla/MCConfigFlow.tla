---------------------------- MODULE MCConfigFlow ----------------------------
\* A small home: two generic sensors, an unregistered price, a Tibber home and
\* one of our outputs;
\* a market with one area and one with two.
EXTENDS ConfigFlow, TLC

CONSTANTS pw, en, td, tp, pr, up, ow, n1, n2, d1, d2

DialogsAlike == Permutations(Flows)

MCKind == [s \in Sources |-> CASE s \in {pw, tp, ow} -> "power"
                               [] s \in {en, td}     -> "energy"
                               [] s \in {pr, up}     -> "price"]
MCAreas == [m \in Markets |-> IF m = n1 THEN {"SE3"} ELSE {"SE4", "NO4"}]
MCCountry == [a \in {"SE3", "SE4", "NO4"} |-> IF a = "NO4" THEN "NO" ELSE "SE"]

\* One home, and a device whose power sensor is disabled.
MCRegistry ==
    {[device |-> "home", key |-> "power", entity |-> tp, enabled |-> TRUE],
     [device |-> "home", key |-> "energy", entity |-> td, enabled |-> TRUE],
     [device |-> "home", key |-> "price", entity |-> pr, enabled |-> TRUE],
     [device |-> "cabin", key |-> "power", entity |-> tp, enabled |-> FALSE]}

\* An older entry: a lifetime meter, a market without its area, a price whose
\* sensor has no entry in the registry.
MCLegacy ==
    {[power |-> pw, energy |-> en, energyType |-> "lifetime", market |-> n2,
      price |-> up, declaration |-> "tibber", profile |-> "tibber", threshold |-> 1]}

MCMeasurementAnswers ==
    {[power |-> pw, energy |-> en, advanced |-> None],
     [power |-> ow, energy |-> en, advanced |-> [reading |-> None]],
     [power |-> pw, energy |-> td, advanced |-> [reading |-> None, energyType |-> "daily"]]}

MCMarketAnswers ==
    {[market |-> None], [market |-> n1], [market |-> n2, area |-> "SE4"]}

Answer(price, declaration, rate, markup) ==
    [price |-> price, declaration |-> declaration, vatRate |-> rate, markup |-> markup,
     supplierFee |-> None, dailyCost |-> None]

MCSupplierAnswers ==
    {Answer(None, None, None, None), Answer(pr, "tibber", 25, None)}

Amounts(low, high, schedule) ==
    [lowFee |-> low, tax |-> None, gridFee |-> None,
     highFee |-> high, schedule |-> schedule, workday |-> None]

MCGridAnswers == {Amounts(None, None, None), Amounts(1, 2, "other")}

Bindings(b) == [k \in FlowKeys |-> IF k \in DOMAIN b THEN b[k] ELSE None]

MCBindingAnswers ==
    {Bindings(<<>>), Bindings([production_energy |-> td]),
     Bindings([grid_export_power |-> tp, grid_export_energy |-> td])}

MCCompatibilityAnswers ==
    {[k \in {"enabled"} \cup PresenceKeys \cup PhaseKeys |->
        CASE k = "enabled"      -> TRUE
          [] k \in PresenceKeys -> p
          [] OTHER              -> "gross_directional"] : p \in {"absent", "present"}}

MCInsightAnswers ==
    {[threshold |-> t, percentile |-> 25, ceiling |-> None] : t \in {None, 2}}
=============================================================================
