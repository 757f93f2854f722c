------------------------------ MODULE Pricing ------------------------------
(***************************************************************************)
(* The price of a stair (PRC-0001): the rates the client gives replace the *)
(* default ones, the manufacturing package becomes a set of physical       *)
(* figures (MFG-0015), and these a breakdown from the cost of production   *)
(* to the final price.  A project of several items is priced by a second   *)
(* copy of the same chain (PRC-0014).                                      *)
(*                                                                         *)
(*   src/internal/transport/http/dto.go               toOptions             *)
(*   src/internal/engine/manufacturing/cost.go        PrepareCost           *)
(*   src/internal/engine/pricing/pricing.go           Price                 *)
(*   src/internal/domain/pricing/{money,rate,pricing,extended}.go           *)
(*                                                                         *)
(* Money is a whole number of minor units and a rate a whole number of     *)
(* parts of RateScale, both integers of the machine; quantities are exact  *)
(* fractions.                                                              *)
(***************************************************************************)
EXTENDS Integers, Sequences, Functions, FiniteSets

CONSTANTS
    MaxInt,         \* the largest integer; 2^63 - 1 in the program
    RateScale,      \* a rate of 100 %; 100000 in the program
    RatedMaterials,      \* the catalogue of materials
    Density,        \* material -> mass of a unit of volume
    CutTime,        \* material -> time to cut a unit of length
    SetupTime, FinishTime, Hour,   \* times of a part, and an hour, in the same unit
    DefaultRates,   \* DefaultRates()
    Forms,          \* what clients give for the rates; 0 for what they leave out
    Packages,       \* manufacturing packages: parts, and area of the sheets
    ItemProjects        \* projects with items of known total

Shares == {"overhead", "margin", "discount", "tax"}
Rates == [material : [RatedMaterials -> Int], machine : Int, labor : Int, share : [Shares -> Int]]
PackagePart == [material : RatedMaterials, area : Nat \ {0}, volume : Nat, perimeter : Nat]
ProjectItem == [kind : {"material", "machine", "labor"}, unit : Int, num : Int, den : Nat \ {0}, total : Int]

\* Every instance assumes of its constants: the integers hold a rate of 100 %, a
\* package lists parts that exist, quantities and times are not negative.
PricingAssumption ==
    /\ MaxInt \in Nat /\ RateScale \in 1..MaxInt /\ Hour \in Nat \ {0}
    /\ {SetupTime, FinishTime} \subseteq Nat /\ Density \in [RatedMaterials -> Nat] /\ CutTime \in [RatedMaterials -> Nat]
    /\ DefaultRates \in Rates /\ Forms \subseteq Rates
    /\ \A p \in Packages : p.parts \in Seq(PackagePart) /\ p.sheet \in [RatedMaterials -> Nat]
    /\ \A pp \in ItemProjects : pp.items \in Seq(ProjectItem) /\ pp.share \in [Shares -> Int]

VARIABLES
    form,       \* the rates of the last request
    rates,      \* the rates in force for it
    work,       \* history: the base it was priced from, in exact integers
    quote       \* its answer: [status, final]

priceVars == <<form, rates, work, quote>>

-----------------------------------------------------------------------------
(* Integers of the machine, and the client's rates.                        *)

Wrap(x) == ((x + MaxInt + 1) % (2 * MaxInt + 2)) - MaxInt - 1

\* The conversion of a float that is out of range gives the least integer.
ToInt(x) == IF x <= MaxInt THEN x ELSE -MaxInt - 1

\* Division that rounds to zero, and rounding of a fraction half up.
Quot(a, b) == IF a >= 0 THEN a \div b ELSE -((-a) \div b)
Rounded(num, den) == (2 * num + den) \div (2 * den)

\* A form whose amount exceeds the range is refused (FromMajor, NewRate).
Amounts(f) == {f.material[m] : m \in RatedMaterials} \union {f.machine, f.labor}
OutOfRange(f) ==
    \E v \in Amounts(f) \union {f.share[s] : s \in Shares} : v > MaxInt + 1

Replaced(given, default) == IF given > 0 THEN ToInt(given) ELSE default

\* The order of the literal in toOptions.
ShareOrder == <<"overhead", "margin", "discount", "tax">>

\* The percentages are the keys of a map, so that of fields with the same
\* percentage only one is set: the last, since the compiler stores in order.
ShareGiven(f, s) ==
    \A i, j \in DOMAIN ShareOrder :
        ShareOrder[i] = s /\ i < j => f.share[ShareOrder[j]] # f.share[s]

toOptions(f) ==
    [material |-> [m \in RatedMaterials |-> Replaced(f.material[m], DefaultRates.material[m])],
     machine |-> Replaced(f.machine, DefaultRates.machine),
     labor |-> Replaced(f.labor, DefaultRates.labor),
     share |-> [s \in Shares |->
         IF ShareGiven(f, s) THEN Replaced(f.share[s], DefaultRates.share[s])
         ELSE DefaultRates.share[s]]]

RatesValid(r) == \A v \in Amounts(r) \union {r.share[s] : s \in Shares} : v >= 0

-----------------------------------------------------------------------------
(* The figures of a package: PrepareCost and PlanOperations.               *)

MadeOf(p, m) == {i \in DOMAIN p.parts : p.parts[i].material = m}
Used(p) == {m \in RatedMaterials : MadeOf(p, m) # {}}
Sum(f, S) == SumFunctionOnSet(f, S)
PartArea(p, m) == Sum([i \in MadeOf(p, m) |-> p.parts[i].area], MadeOf(p, m))
Mass(p, m) == Density[m] * Sum([i \in MadeOf(p, m) |-> p.parts[i].volume], MadeOf(p, m))

\* Every part is cut on the machine and finished by hand.
MachineTime(p) ==
    Sum([i \in DOMAIN p.parts |-> SetupTime + p.parts[i].perimeter * CutTime[p.parts[i].material]],
        DOMAIN p.parts)
LaborTime(p) == FinishTime * Len(p.parts)

CostRefused(p) ==
    \/ Len(p.parts) = 0
    \/ \E m \in Used(p) : p.sheet[m] < PartArea(p, m)

\* The mass of the parts, scaled by the area of the sheets they were cut from.
MaterialAmount(p, m, r) == Rounded(Mass(p, m) * p.sheet[m] * r.material[m], PartArea(p, m))
TimeAmount(time, perHour) == Rounded(time * perHour, Hour)

\* What a stair is charged for, by category and source, before it is money.
StairCharges(p, r) ==
    [k \in ({"material"} \X Used(p)) \union ({"machine", "labor"} \X {0}) |->
        IF k[1] = "material" THEN MaterialAmount(p, k[2], r)
        ELSE IF k[1] = "machine" THEN TimeAmount(MachineTime(p), r.machine)
        ELSE TimeAmount(LaborTime(p), r.labor)]

-----------------------------------------------------------------------------
(* The chain.                                                              *)

\* Mutant of MulRate: rounded down.
MulRateDown(m, r) == Quot(Wrap(m * r), RateScale)

\* A share of an amount, rounded half up.
MulRate(m, r) ==
    LET num == Wrap(m * r)
        half == RateScale \div 2
    IN  IF num < 0 THEN Wrap(-Quot(Wrap(Wrap(-num) + half), RateScale))
        ELSE Quot(Wrap(num + half), RateScale)

\* The amounts that follow from those of material, machine and labor.
Breakdown(w, share) ==
    LET base == Wrap(Wrap(w.material + w.machine) + w.labor)
        overhead == MulRate(base, share["overhead"])
        production == Wrap(base + overhead)
        margin == MulRate(production, share["margin"])
        gross == Wrap(production + margin)
        discount == MulRate(gross, share["discount"])
        preTax == Wrap(gross - discount)
        tax == MulRate(preTax, share["tax"])
    IN  [material |-> w.material, machine |-> w.machine, labor |-> w.labor,
         overhead |-> overhead, production |-> production, margin |-> margin,
         discount |-> discount, preTax |-> preTax, tax |-> tax, final |-> Wrap(preTax + tax)]

Total(lines, c) == Sum(lines, {k \in DOMAIN lines : k[1] = c})

\* Mutant of LineSum: the lines of all categories in one sum.
LineSumAll(lines, c) == Wrap(Sum(lines, DOMAIN lines))

\* Sums of integers of the machine, in any order.
LineSum(lines, c) == Wrap(Total(lines, c))

\* No amount is negative, and the lines of every category that has lines add
\* up to it.  (That the amounts follow from each other holds by Breakdown.)
Validate(b, lines) ==
    /\ \A c \in DOMAIN b : b[c] >= 0
    /\ \A k \in DOMAIN lines : lines[k] >= 0 /\ LineSum(lines, k[1]) = b[k[1]]

\* The answer for what is charged.  Of the shares, some are always listed, the
\* others only if there is something to pay; labor may be listed without being billed.
Answered(charges, billed, share, always) ==
    LET held == [k \in DOMAIN charges |-> ToInt(charges[k])]
        b == Breakdown([material |-> LineSum(held, "material"), machine |-> LineSum(held, "machine"),
                        labor |-> IF billed THEN LineSum(held, "labor") ELSE 0], share)
        listed == always \union {s \in Shares : b[s] > 0}
        lines == [k \in DOMAIN held \union (listed \X {0}) |->
                     IF k[1] \in Shares THEN b[k[1]] ELSE held[k]]
    IN  IF Validate(b, lines) THEN [status |-> "priced", final |-> b.final]
        ELSE [status |-> "refused", final |-> 0]

-----------------------------------------------------------------------------
NoWork == [material |-> 0, machine |-> 0, labor |-> 0, extra |-> 0]
Refused(status) == [status |-> status, final |-> 0]

\* The base without any rounding to the integers of the machine.
Exact(charges, billed) ==
    [material |-> Total(charges, "material"), machine |-> Total(charges, "machine"),
     labor |-> IF billed THEN Total(charges, "labor") ELSE 0,
     extra |-> IF billed THEN 0 ELSE Total(charges, "labor")]

PriceInit ==
    /\ form \in Forms /\ rates = DefaultRates
    /\ work = NoWork /\ quote = Refused("none")

\* A stair is calculated with the rates of the form.  A request leaves nothing
\* behind, so that one is enough.
PriceStair(p) ==
    /\ quote.status = "none"
    /\ IF OutOfRange(form)
       THEN quote' = Refused("invalid_rates") /\ work' = NoWork /\ UNCHANGED rates
       ELSE /\ rates' = toOptions(form)
            /\ IF CostRefused(p) \/ ~RatesValid(rates')
               THEN quote' = Refused("refused") /\ work' = NoWork
               ELSE /\ work' = Exact(StairCharges(p, rates'), TRUE)
                    /\ quote' = Answered(StairCharges(p, rates'), TRUE, rates'.share, Shares)
    /\ UNCHANGED form

\* ProjectPricing.Validate: an item states the total that follows from it.
ItemCost(item) == (item.unit * item.num) \div item.den
ProjectValid(pp) ==
    /\ Len(pp.items) > 0 /\ \A s \in Shares : pp.share[s] >= 0
    /\ \A i \in DOMAIN pp.items :
         /\ pp.items[i].unit >= 0 /\ pp.items[i].num >= 0
         /\ pp.items[i].kind # "machine" => pp.items[i].num > 0
         /\ pp.items[i].total = ToInt(ItemCost(pp.items[i]))

ProjectCharges(pp) ==
    [k \in {<<pp.items[i].kind, i>> : i \in DOMAIN pp.items} |-> ItemCost(pp.items[k[2]])]

\* CalculateBreakdown: finishings are listed as labor, while labor is 0.
CalculateBreakdown(pp) ==
    /\ quote.status = "none"
    /\ rates' = [DefaultRates EXCEPT !.share = pp.share]
    /\ IF ProjectValid(pp)
       THEN /\ work' = Exact(ProjectCharges(pp), FALSE)
            /\ quote' = Answered(ProjectCharges(pp), FALSE, pp.share, {"overhead", "margin"})
       ELSE work' = NoWork /\ quote' = Refused("invalid_items")
    /\ UNCHANGED form

PriceNext ==
    \/ \E p \in Packages : PriceStair(p)
    \/ \E pp \in ItemProjects : CalculateBreakdown(pp)

PriceSpec == PriceInit /\ [][PriceNext]_priceVars

-----------------------------------------------------------------------------
(* Properties.                                                             *)

\* The shape of the state: a price is never negative.
PricingTypeOK ==
    /\ form \in Forms /\ rates \in Rates
    /\ work \in [material : Int, machine : Int, labor : Int, extra : Int]
    /\ quote.status \in {"none", "priced", "refused", "invalid_rates", "invalid_items"}
    /\ quote.final \in 0..MaxInt

Base(w) == w.material + w.machine + w.labor
Share(m, r) == (2 * m * r + RateScale) \div (2 * RateScale)
Fits(m, r) == m + Share(m, r) <= MaxInt /\ m * r + RateScale <= MaxInt

\* Nothing that is added or multiplied in the chain leaves the range of the integers.
InRangeFor(w, share) ==
    /\ w.material >= 0 /\ w.machine >= 0 /\ w.labor >= 0
    /\ Base(w) <= MaxInt /\ Fits(Base(w), share["overhead"])
    /\ LET production == Base(w) + Share(Base(w), share["overhead"])
           gross == production + Share(production, share["margin"])
           preTax == gross - Share(gross, share["discount"])
       IN  /\ Fits(production, share["margin"]) /\ Fits(gross, share["discount"])
           /\ preTax >= 0 => Fits(preTax, share["tax"])
InRange == InRangeFor(work, rates.share)

\* The final price is that of the chain in exact fractions, up to the four
\* roundings of half a minor unit, each carried on by the shares behind it
\* (money.go: "a deterministic and exact calculation").
ExactFor(w, share, final) ==
    LET S == RateScale
        o == S + share["overhead"]
        m == S + share["margin"]
        d == S - share["discount"]
        t == S + share["tax"]
        error == final * S * S * S * S - Base(w) * o * m * d * t
        abs == IF d < 0 THEN -d ELSE d
        bound == S * m * abs * t + S * S * abs * t + S * S * S * t + S * S * S * S
    IN  2 * error <= bound /\ -2 * error <= bound
PriceIsExact == quote.status = "priced" /\ InRange => ExactFor(work, rates.share, quote.final)

\* Within the range of the integers a price is refused for a discount of more
\* than everything, or for a finishing, which nothing adds to the labor, and
\* for nothing else: every stair with a consistent package has a price.
RefusedForAReason ==
    quote.status = "refused" /\ work # NoWork /\ InRange =>
        rates.share["discount"] > RateScale \/ work.extra > 0

\* A stair has a price unless there is a reason for none, and the price is the exact one
\* up to its four roundings.
PriceIsRight == PricingTypeOK /\ PriceIsExact /\ RefusedForAReason

\* Fields the client gives replace the defaults, the empty ones are inherited
\* (dto.go:48).  Of fields with equal percentages all but one are inherited.
RatesAreTheUsers ==
    quote.status \in {"priced", "refused"} /\ work.extra = 0 /\ work.labor > 0 =>
        \A s \in Shares : form.share[s] > 0 => rates.share[s] = form.share[s]

\* A price that is given is the exact one: not so when a rate is so high that
\* the product of two integers wraps around, since only signs are looked at.
NeverWrapped == quote.status = "priced" => InRange
=============================================================================
