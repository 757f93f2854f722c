---------------------------- MODULE FlightDesign ----------------------------
(***************************************************************************)
(* The design of one stair flight: what the engines compute from the      *)
(* parameters a user chooses.                                              *)
(*                                                                         *)
(*   src/internal/engine/solver        number and size of the steps        *)
(*   src/internal/engine/constraint    the norms (EDR-0002)                 *)
(*   src/internal/engine/validation    the comparison with the norms       *)
(*   src/internal/engine/geometry      what can be built, and its footprint *)
(*   src/internal/engine/manufacturing materials, parts, stock sheets      *)
(*   src/internal/domain/engineering   checks of the configuration         *)
(*                                                                         *)
(* Lengths are whole millimetres.  The height of a step is a rational      *)
(* <<a, b>>; the solved one is H/n, so a solution is known by n and by      *)
(* tread10 = 10 n b, ten times the run of all its steps.  Angles are       *)
(* compared by their tangents, with the tolerances of the norms.           *)
(***************************************************************************)
EXTENDS Integers, FiniteSetsExt, SequencesExt

\* A configuration (application/stair.Config with the comfort step of the
\* options) is a record with the fields flight, height, width, step, comfort,
\* lower, landing, depth, turn, winders, radius, thick, tread (the thickness
\* of a tread), side, room and material.  material = "" lets the thickness
\* choose; room = <<0, 0>> is no room.
TwoFlights == {"l_shape", "u_shape"}

CeilDiv(a, b) == -((-a) \div b)
Clamp(v, lo, hi) == IF v < lo THEN lo ELSE IF v > hi THEN hi ELSE v
Abs(v) == IF v < 0 THEN -v ELSE v

\* int(math.Round(H / h0)).
StepsFor(height, h0) == (2 * height * h0[2] + h0[1]) \div (2 * h0[1])

-----------------------------------------------------------------------------
(* The solver.  A refusal is the code of its InputError.                   *)

Solution(n, lower, winders, tread10) ==
    [err |-> "none", n |-> n, lower |-> lower, winders |-> winders,
     tread10 |-> tread10]
Refusal(code) ==
    [err |-> code, n |-> 0, lower |-> 0, winders |-> 0, tread10 |-> 0]

\* The run of n steps of comfort S: n b = n S - 2 H.
Run10(c, n) == 10 * (n * c.comfort - 2 * c.height)

\* What the three solvers of straight steps refuse before they count steps.
StepsRefused(c) ==
    IF c.height <= 0 \/ c.step[1] <= 0 THEN "GEO-HEIGHT"
    ELSE IF c.flight \in TwoFlights /\ c.landing <= 0 THEN "GEO-WIDTH"
    ELSE IF c.comfort \notin 600..640 THEN "GEO-COMFORT-STEP"
    ELSE IF StepsFor(c.height, c.step) < 1 THEN "GEO-HEIGHT"
    ELSE "none"

Solve(c) ==
    LET n == StepsFor(c.height, c.step)
    IN  IF StepsRefused(c) # "none" THEN Refusal(StepsRefused(c))
        ELSE IF Run10(c, n) <= 0 THEN Refusal("GEO-TREAD-POSITIVE")
        ELSE Solution(n, 0, 0, Run10(c, n))

solveTwoFlight(c) ==
    LET n == StepsFor(c.height, c.step)
    IN  IF StepsRefused(c) # "none" THEN Refusal(StepsRefused(c))
        ELSE IF c.lower \notin 1..(n - 1) THEN Refusal("GEO-LOWER-STEP")
        ELSE IF Run10(c, n) <= 0 THEN Refusal("GEO-TREAD-POSITIVE")
        ELSE Solution(n, c.lower, 0, Run10(c, n))

\* Of n steps, `lower` are below the turn, at least three turn, and at least
\* one is above.
solveUShapeWinder(c) ==
    LET n == StepsFor(c.height, c.step)
    IN  IF StepsRefused(c) # "none" THEN Refusal(StepsRefused(c))
        ELSE IF \/ c.lower \notin 1..(n - 1) \/ c.winders < 3
                \/ n - c.lower - c.winders < 1
             THEN Refusal("GEO-LOWER-STEP")
        ELSE IF Run10(c, n) <= 0 THEN Refusal("GEO-TREAD-POSITIVE")
        ELSE Solution(n, c.lower, c.winders, Run10(c, n))

\* One turn of n steps around a column of radius R - W: the treads at the
\* column, on the walking line (R - W/3) and at the outer edge, with
\* 62832 = 2 pi 10^4.
SpiralRun10(width, radius) == (62832 * (3 * radius - width)) \div 3000

SpiralTreadFits(n, width, radius) ==
    /\ (62832 * (radius - width)) \div 1000 >= 1000 * n
    /\ (62832 * radius) \div 1000 >= 2500 * n
    /\ SpiralRun10(width, radius) >= 2600 * n
    /\ SpiralRun10(width, radius) <= 3200 * n

solveSpiral(c) ==
    LET n   == StepsFor(c.height, c.step)
        run == SpiralRun10(c.width, c.radius)
        twoHeights == 20 * c.height
    IN  IF c.height <= 0 \/ c.step[1] <= 0 THEN Refusal("GEO-HEIGHT")
        ELSE IF c.width <= 0 THEN Refusal("GEO-WIDTH")
        ELSE IF c.radius <= c.width THEN Refusal("GEO-SPIRAL-RADIUS")
        ELSE IF n < 1 THEN Refusal("GEO-HEIGHT")
        ELSE IF ~SpiralTreadFits(n, c.width, c.radius) THEN Refusal("GEO-SPIRAL-TREAD")
        ELSE IF twoHeights + run \notin (6000 * n)..(6400 * n)
             THEN Refusal("GEO-COMFORT-STEP")
        ELSE Solution(n, 0, 0, run)

\* The solver of a flight; a platform has to be as wide as the flights that
\* meet on it.
SolveFlight(c) ==
    LET isWinder == c.flight = "u_shape" /\ c.turn = "winder"
        s == IF c.flight = "spiral" THEN solveSpiral(c)
             ELSE IF isWinder THEN solveUShapeWinder(c)
             ELSE IF c.flight \in TwoFlights THEN solveTwoFlight(c)
             ELSE Solve(c)
    IN  IF /\ s.err = "none" /\ c.flight \in TwoFlights /\ ~isWinder
           /\ c.landing < c.width
        THEN Refusal("GEO-LANDING-WIDTH")
        ELSE s

-----------------------------------------------------------------------------
(* The norms: the active rules of severity "error" a solution breaks.      *)

StepHeightNorm(height, s) ==
    /\ 10 * height + s.n >= 1500 * s.n
    /\ 10 * height - s.n <= 2000 * s.n
TreadDepthNorm(s) ==
    s.tread10 + s.n >= 2600 * s.n /\ s.tread10 - s.n <= 3200 * s.n
\* 30 and 45 degrees with the tolerance of 0.01: tan 29.99 and tan 45.01.
AngleNorm(height, s) ==
    /\ 100000 * height >= 5771 * s.tread10
    /\ 100000 * height <= 10003 * s.tread10

NormsBroken(height, s) ==
    {code \in {"GEO-STEP-HEIGHT", "GEO-TREAD-DEPTH", "GEO-ANGLE"} :
        \/ code = "GEO-STEP-HEIGHT" /\ ~StepHeightNorm(height, s)
        \/ code = "GEO-TREAD-DEPTH" /\ ~TreadDepthNorm(s)
        \/ code = "GEO-ANGLE" /\ ~AngleNorm(height, s)}

-----------------------------------------------------------------------------
(* Geometry: what Generate refuses, and the footprint it measures.         *)

\* The steps above the turn, and the runs of the two flights.
Upper(s) == s.n - s.lower - s.winders
LowerRun(s) == CeilDiv(s.lower * s.tread10, 10 * s.n)
UpperRun(s) == CeilDiv(Upper(s) * s.tread10, 10 * s.n)
WholeRun(s) == CeilDiv(s.tread10, 10)

\* The depth of a landing; 0 stands for the width of the flight.
LandingDepth(c) == IF c.depth <= 0 THEN c.width ELSE c.depth

\* The flights of a U-shaped stair with a platform are 50 mm narrower on
\* either side of the gap.
FlightWidth(c) ==
    IF c.flight = "u_shape" /\ c.turn # "winder" THEN c.width - 50 ELSE c.width

\* What the domain asks of a turn once the steps are counted.
TurnValid(c, s) ==
    /\ s.lower \in 1..(s.n - 1)
    /\ IF c.turn = "winder"
       THEN c.winders >= 3 /\ c.landing > 0
       ELSE c.landing >= c.width /\ (c.depth <= 0 \/ c.depth >= c.width)

Buildable(c, s) ==
    /\ FlightWidth(c) > 2 * c.thick
    /\ c.flight \in TwoFlights => TurnValid(c, s)
    /\ c.flight = "u_shape" /\ c.turn = "winder" => Upper(s) >= 1
    /\ c.flight = "spiral" => c.radius > c.width

\* The largest coordinates of each flight in plan, <<x, y>>.  A stair that
\* turns left is laid out from the landing, and the nosing of its first tread
\* sticks out.  A spiral is laid out around the origin.  Winders are laid out
\* to the right only (the engine's left layout is not modelled).
StraightCorner(c, s) == <<WholeRun(s), c.width>>
LShapeCorner(c, s) ==
    << IF c.side = "right" THEN LowerRun(s) + Max({LandingDepth(c), c.width})
       ELSE c.width + LowerRun(s) + c.tread,
       c.landing + UpperRun(s) >>
UShapeCorner(c, s) ==
    << IF c.side = "right" THEN LowerRun(s) + c.width
       ELSE c.width + Max({LowerRun(s) + c.tread, UpperRun(s)}),
       2 * c.width >>
WinderCorner(c, s) ==
    << LowerRun(s) + c.width + CeilDiv(c.landing, 2), 2 * c.width + c.landing >>
SpiralCorner(c) == <<c.radius, c.radius>>

\* The corner with the free space of 1000 mm before the first step.
ApproachSpace == 1000
Footprint(c, s) ==
    LET corner == CASE c.flight = "straight" -> StraightCorner(c, s)
                    [] c.flight = "spiral" -> SpiralCorner(c)
                    [] c.flight = "l_shape" -> LShapeCorner(c, s)
                    [] c.flight = "u_shape" /\ c.turn = "winder" -> WinderCorner(c, s)
                    [] OTHER -> UShapeCorner(c, s)
    IN  <<ApproachSpace + corner[1], corner[2]>>

HasRoom(c) == c.room[1] > 0 /\ c.room[2] > 0
FitsRoom(c, s, tolerance) ==
    \A i \in {1, 2} : Footprint(c, s)[i] <= c.room[i] + tolerance

-----------------------------------------------------------------------------
(* Manufacturing: the catalogue, and the sheets the parts are cut from.    *)

\* The materials in the order of the catalogue.
Materials == <<"STEEL-S235", "ALUM-5083", "WOOD-OAK">>
SupportsThickness(material, t) == t \in (IF material = "WOOD-OAK" THEN 20 ELSE 2)..60
MaxHeight(material) == IF material = "STEEL-S235" THEN 6000 ELSE 4550

\* The stock sheets of a material, <<length, width>>.
SheetsFor(material) ==
    CASE material = "STEEL-S235" ->
            {<<6000, 3000>>, <<2500, 1250>>, <<8000, 4600>>, <<10400, 6200>>}
      [] material = "ALUM-5083" -> {<<3000, 1500>>, <<6000, 3000>>, <<9000, 4600>>}
      [] material = "WOOD-OAK" ->
            {<<2500, 600>>, <<2500, 1250>>, <<6000, 3000>>, <<9000, 4600>>}
Kerf == 3

\* A sheet takes the longest and the widest of the parts of a group, whichever
\* part each of the two is.
SheetFeasible(material, rects) ==
    LET long(r) == Max({r[1], r[2]})
        wide(r) == Min({r[1], r[2]})
    IN  \E sheet \in SheetsFor(material) :
          \A r \in rects : long(r) + Kerf <= sheet[1] /\ wide(r) + Kerf <= sheet[2]

\* The chosen material when it is rolled in that thickness, otherwise the first
\* one of the catalogue that is; "none" when there is no such material.
MaterialOf(c, t) ==
    IF c.material # "" /\ SupportsThickness(c.material, t) THEN c.material
    ELSE IF \E i \in 1..Len(Materials) : SupportsThickness(Materials[i], t)
         THEN Materials[CHOOSE i \in 1..Len(Materials) :
                          /\ SupportsThickness(Materials[i], t)
                          /\ \A j \in 1..(i - 1) : ~SupportsThickness(Materials[j], t)]
         ELSE "none"

\* The outlines of the stringers of a solution (StringerExtent: the height of
\* the flight less the thickness of a tread).
StringerRects(c, s) ==
    IF c.flight \in TwoFlights
    THEN { <<LowerRun(s), CeilDiv(s.lower * c.height, s.n) - c.tread>>,
           <<UpperRun(s), CeilDiv(Upper(s) * c.height, s.n) - c.tread>> }
    ELSE { <<WholeRun(s), c.height - c.tread>> }

\* The column of a spiral is rolled from a plate as wide as its perimeter.
ColumnRect(c) == <<c.height, CeilDiv(62832 * (c.radius - c.width), 10000)>>

\* The outlines of the parts, those as thick as a stringer and those as thick
\* as a tread.  A wedge of a spiral is bounded by the square of the radius,
\* winders by the boards of the straight flights.
Parts(c, s) ==
    LET board == { <<CeilDiv(s.tread10, 10 * s.n) + c.tread, FlightWidth(c)>>,
                   <<CeilDiv(c.height, s.n) - c.tread, FlightWidth(c)>> }
        landing == IF c.flight = "l_shape" THEN { <<LandingDepth(c), c.landing>> }
                   ELSE IF c.flight = "u_shape" /\ c.turn # "winder"
                        THEN { <<c.width, 2 * c.width>> } ELSE {}
    IN  IF c.flight = "spiral"
        THEN [frame |-> { ColumnRect(c) }, boards |-> { <<c.radius, c.radius>> }]
        ELSE [frame |-> StringerRects(c, s), boards |-> board \union landing]

\* The outcome of Manufacture: parts of one material and one thickness are
\* cut from sheets of one size.
Manufacture(c, s) ==
    LET p == Parts(c, s)
        frame == MaterialOf(c, c.thick)
        boards == MaterialOf(c, c.tread)
    IN  IF frame = "none" \/ boards = "none" THEN "GEO-WIDTH"
        ELSE IF frame = boards /\ c.thick = c.tread
             THEN IF SheetFeasible(frame, p.frame \union p.boards) THEN "none"
                  ELSE "MFG-SHEET"
        ELSE IF SheetFeasible(frame, p.frame) /\ SheetFeasible(boards, p.boards)
             THEN "none" ELSE "MFG-SHEET"

-----------------------------------------------------------------------------
(* buildConfiguration: the checks before anything is computed.             *)

\* What the chosen material does not allow.
MaterialFault(c) ==
    /\ c.material # ""
    /\ \/ ~SupportsThickness(c.material, c.thick)
       \/ ~SupportsThickness(c.material, c.tread)
       \/ c.width > 3000
       \/ c.height > MaxHeight(c.material)

\* What the catalogue of sheets is not made for.
EnvelopeFault(c) ==
    \/ c.height > 6000
    \/ c.flight = "spiral" /\ (c.radius > 5000 \/ c.radius <= c.width)

\* The check of the domain that fails first, by the field it is about.  The
\* configuration has one step yet: the checks of a turn are made later.
DomainFault(c) ==
    IF c.width <= 0 THEN "width" ELSE IF c.height <= 0 THEN "height"
    ELSE IF c.thick < 0 THEN "thick" ELSE IF c.tread < 0 THEN "tread"
    ELSE IF c.lower < 0 THEN "lower" ELSE IF c.landing < 0 THEN "landing"
    ELSE IF c.depth < 0 THEN "depth"
    ELSE IF c.room[1] < 0 \/ c.room[2] < 0 THEN "room" ELSE "none"

\* The faults that have a text for the user, found in the error's own text.
Translated == {"width", "height", "thick", "tread", "lower", "landing"}

\* "input" is a refusal the user is told about, "internal" an error without a
\* translation.
BuildFault(c) ==
    IF MaterialFault(c) \/ EnvelopeFault(c) \/ DomainFault(c) \in Translated
    THEN "input"
    ELSE IF DomainFault(c) # "none" THEN "internal" ELSE "none"
=============================================================================
