----------------------------- MODULE StairAdvice -----------------------------
(***************************************************************************)
(* What a refused or an ill-fitting stair is answered with: the numbers   *)
(* the advisor suggests and the variations a client may apply.             *)
(*                                                                         *)
(*   src/internal/engine/advisor/advisor.go                                 *)
(*   src/internal/engine/variation/variation.go                             *)
(*                                                                         *)
(* A variation is the form the client sends next: a configuration.  Texts  *)
(* and titles are left out.  The spiral radius of a suggestion is taken in  *)
(* whole millimetres, where the code keeps the fraction.                   *)
(***************************************************************************)
EXTENDS FlightDesign

-----------------------------------------------------------------------------
(* The advisor.                                                            *)

MaxSuggestions == 4

\* The window of step counts around the norm of the step height, and up to
\* k of them spread over it.
FirstCount(height) == Max({CeilDiv(height, 200) - 2, 2})
LastCount(height) == height \div 150 + 2
spreadInts(first, last, k) ==
    IF last - first + 1 <= k THEN first..last
    ELSE {first + (2 * i * (last - first) + k - 1) \div (2 * (k - 1)) : i \in 0..(k - 1)}

\* The user's number of lower steps, or half of them, and its neighbours.
lowerCandidates(c, n) ==
    LET orig == IF c.lower \in 1..(n - 1) THEN c.lower ELSE Max({(n + 1) \div 2, 1})
    IN  {v \in (orig - 2)..(orig + 2) : v \in 1..(n - 1)}
winderCandidates(c, n, lower) ==
    LET orig == Max({c.winders, 3})
    IN  {v \in (orig - 2)..(orig + 2) : v >= 3 /\ n - lower - v >= 1}

\* c with its height cut into n steps.
Cut(c, n) == [c EXCEPT !.step = <<c.height, n>>]

\* The solutions of one step count (the candidates are solved as they are:
\* that a landing is as wide as the flight is not asked here).
CandidatesAt(c, n) ==
    IF c.flight = "u_shape" /\ c.turn = "winder"
    THEN {solveUShapeWinder([Cut(c, n) EXCEPT !.lower = p[1], !.winders = p[2]]) :
            p \in {q \in (1..n) \X (3..n) : q[1] \in lowerCandidates(c, n)
                                         /\ q[2] \in winderCandidates(c, n, q[1])}}
    ELSE IF c.flight \in TwoFlights
    THEN {solveTwoFlight([Cut(c, n) EXCEPT !.lower = low]) : low \in lowerCandidates(c, n)}
    ELSE {Solve(Cut(c, n))}

PassingAt(c, n) ==
    {s \in CandidatesAt(c, n) : s.err = "none" /\ NormsBroken(c.height, s) = {}}

\* The sheet is looked up for the material of the stringer; without one the
\* question is not asked.
manufactureFeasible(c, s) ==
    LET m == IF c.material # "" THEN c.material ELSE MaterialOf(c, c.thick)
    IN  m # "none" => SheetFeasible(m, StringerRects(c, s))

\* No step count is begun once there are four suggestions.
StraightAdvice(c) ==
    LET counts == spreadInts(FirstCount(c.height), LastCount(c.height), MaxSuggestions)
        passing == UNION {PassingAt(c, n) : n \in counts}
        feasible == {s \in passing : manufactureFeasible(c, s)}
        kept == {s \in feasible :
                   Cardinality({t \in feasible : t.n < s.n}) < MaxSuggestions}
        form(s) == [n |-> s.n, lower |-> s.lower, width |-> c.width,
                    radius |-> c.radius, comfort |-> c.comfort]
    IN  [suggestions |-> {form(s) : s \in kept},
         infeasible |-> passing # {} /\ feasible = {}]

\* The radii a spiral of n steps and width w may have, by the treads at the
\* column, at the edge and on the walking line, the comfort step and the angle.
RadiiOf(height, n, w) ==
    LET atLeast(t) == CeilDiv(w + CeilDiv(30000 * t, 62832), 3)
        atMost(t) == (w + (30000 * t) \div 62832) \div 3
        lows == {atLeast(260 * n), atLeast(600 * n - 2 * height), atLeast(height),
                 w + CeilDiv(10000 * 100 * n, 62832), CeilDiv(10000 * 250 * n, 62832), w + 1}
        highs == {atMost(320 * n), atMost(640 * n - 2 * height),
                  atMost((height * 1732) \div 1000)}
    IN  <<Max(lows), Min(highs)>>

\* The widths tried: the user's, and the usual ones.
spiralWidthCandidates(c) ==
    {((2 * c.width + 50) \div 100) * 50} \union {700, 800, 900, 1000, 1100, 1200}

\* The nearest radius to the user's for every step count and width, the first
\* four of them.
SpiralAdvice(c) ==
    LET counts == FirstCount(c.height)..LastCount(c.height)
        tried == {p \in counts \X spiralWidthCandidates(c) :
                    LET r == RadiiOf(c.height, p[1], p[2]) IN r[1] <= r[2]}
        radius(p) == LET r == RadiiOf(c.height, p[1], p[2])
                     IN  Clamp(c.radius, r[1], r[2])
        solution(p) == solveSpiral([Cut(c, p[1]) EXCEPT !.width = p[2], !.radius = radius(p)])
        passing == {p \in tried : /\ solution(p).err = "none"
                                  /\ NormsBroken(c.height, solution(p)) = {}}
        kept == {p \in passing : Cardinality({q \in passing : q[1] < p[1]}) < MaxSuggestions}
        form(p) == [n |-> p[1], lower |-> 0, width |-> p[2],
                    radius |-> radius(p), comfort |-> c.comfort]
    IN  [suggestions |-> {form(p) : p \in kept}, infeasible |-> FALSE]

Advice(c) ==
    IF c.height <= 0 THEN [suggestions |-> {}, infeasible |-> FALSE]
    ELSE IF c.flight = "spiral" THEN SpiralAdvice(c)
    ELSE IF c.flight \in TwoFlights /\ c.landing <= 0
         THEN [suggestions |-> {}, infeasible |-> FALSE]
    ELSE StraightAdvice(c)

\* Only these rules ask for suggestions.
Suggests == {"GEO-STEP-HEIGHT", "GEO-TREAD-DEPTH", "GEO-ANGLE",
             "GEO-SPIRAL-TREAD", "GEO-SPIRAL-RADIUS"}

-----------------------------------------------------------------------------
(* Variations.                                                             *)

\* The form of a configuration of n steps, with the values clamped to what
\* the client accepts.
formFromConfig(c, n, comfort) ==
    LET step == IF c.height > 200 * n THEN <<200, 1>>
                ELSE IF c.height < 150 * n THEN <<150, 1>>
                ELSE <<c.height, n>>
        least == Max({600, c.width})
        landing(v) == IF c.flight \in TwoFlights THEN Clamp(v, least, 5000) ELSE v
    IN  [c EXCEPT !.step = step, !.comfort = Clamp(comfort, 600, 640),
                  !.landing = landing(c.landing), !.depth = landing(c.depth)]

\* FromSuggestions: z is the configuration as the solver left it.
FromSuggestions(z, suggestions) ==
    LET clone(s) ==
          [z EXCEPT !.lower = IF z.flight \in TwoFlights /\ s.lower > 0
                              THEN s.lower ELSE z.lower,
                    !.width = s.width, !.radius = s.radius]
    IN  {formFromConfig(clone(s), s.n, s.comfort) : s \in suggestions}

\* ForAngle: all step counts and comfort steps that meet the norms, of which
\* the flattest, the middle and the steepest are offered when they can be
\* built.  A spiral is never offered: its tread was reset with the result.
AngleCandidates(height) ==
    {p \in (2..80) \X {600, 620, 640} :
        LET run == p[1] * p[2] - 2 * height
        IN  /\ 150 * p[1] <= height /\ height <= 200 * p[1]
            /\ 260 * p[1] <= run /\ run <= 320 * p[1]
            /\ 100000 * height >= 57735 * run /\ height <= run}

ForAngle(z) ==
    LET run(p) == p[1] * p[2] - 2 * z.height
        byAngle == SetToSortSeq(AngleCandidates(z.height), LAMBDA p, q : run(p) > run(q))
        k == Len(byAngle)
        chosen == IF k <= 3 THEN Range(byAngle)
                  ELSE {byAngle[1], byAngle[k \div 2 + 1], byAngle[k]}
        wide == IF z.landing <= 0 THEN z.width ELSE z.landing
        clone(p) == [Cut(z, p[1]) EXCEPT !.comfort = p[2],
                       !.lower = IF z.flight \in TwoFlights
                                 THEN Max({p[1] \div 2, 1}) ELSE z.lower,
                       !.landing = IF z.flight \in TwoFlights THEN wide ELSE 0,
                       !.depth = IF z.flight = "straight" THEN 0 ELSE z.depth]
        solution(p) == IF z.flight \in TwoFlights
                       THEN solveTwoFlight(clone(p)) ELSE Solve(clone(p))
    IN  IF z.flight = "spiral" THEN {}
        ELSE {formFromConfig(clone(p), p[1], p[2]) : p \in
                {q \in chosen : /\ solution(q).err = "none"
                                /\ Buildable(clone(q), solution(q))
                                /\ NormsBroken(z.height, solution(q)) = {}}}

\* Mutants of tryGenerate: what breaks a norm, or does not fit, is offered.
tryGenerateAny(c, s, comfort, tolerance) ==
    IF s.err = "none" /\ Buildable(c, s) /\ FitsRoom(c, s, tolerance)
    THEN {formFromConfig(c, s.n, comfort)} ELSE {}
tryGenerateLarge(c, s, comfort, tolerance) ==
    IF s.err = "none" /\ Buildable(c, s) /\ NormsBroken(c.height, s) = {}
    THEN {formFromConfig(c, s.n, comfort)} ELSE {}

\* A candidate of ForRoomFit: the form and its footprint, kept when it can be
\* built, meets the norms and fits the room.
tryGenerate(c, s, comfort, tolerance) ==
    IF /\ s.err = "none" /\ Buildable(c, s)
       /\ NormsBroken(c.height, s) = {} /\ FitsRoom(c, s, tolerance)
    THEN {formFromConfig(c, s.n, comfort)}
    ELSE {}

\* Variant A: the steepest step that leaves the tread its minimum.
steeperVariant(c, comfort, tolerance) ==
    LET target == Min({195, (comfort - 260) \div 2})
        clone == [c EXCEPT !.step = <<IF target < 150 THEN 195 ELSE target, 1>>,
                           !.comfort = comfort,
                           !.landing = IF c.flight = "straight" THEN 0 ELSE @,
                           !.depth = IF c.flight = "straight" THEN 0 ELSE @]
        two == solveTwoFlight(clone)
        solution == IF c.flight = "straight" THEN Solve(clone)
                    ELSE [two EXCEPT !.winders = IF c.turn = "winder" THEN c.winders ELSE 0]
    IN  IF c.flight = "spiral" THEN {}
        ELSE tryGenerate(clone, solution, comfort, tolerance)

\* Variant B: the landing as small as the flight is wide; s is the solution
\* the answer has.
smallerLandingVariant(c, s, tolerance) ==
    IF c.flight \in TwoFlights
    THEN tryGenerate([c EXCEPT !.landing = c.width, !.depth = c.width], s, c.comfort, tolerance)
    ELSE {}

\* The steps and the widths another type, or the same one, is tried with.
Heights(c, s) == {k \in 0..10 : c.height + 5 * k * s.n <= 200 * s.n}
Widths(c) == {w \in 300..c.width : (c.width - w) % 50 = 0}

\* One attempt: the type, k times 5 mm more step, the width and the radius.
OtherConfig(c, s, type, k, w, radius, comfort) ==
    LET step == <<c.height + 5 * k * s.n, s.n>>
        n == Max({StepsFor(c.height, step), 2})
        wide == Max({c.landing, (11 * w) \div 10, 600})
        two == type \in TwoFlights
    IN  [c EXCEPT !.flight = type, !.step = step, !.width = w, !.comfort = comfort,
                  !.lower = IF two THEN n \div 2 ELSE IF type = "straight" THEN 0 ELSE @,
                  !.landing = IF two THEN wide ELSE IF type = "straight" THEN 0 ELSE @,
                  !.depth = IF two THEN wide ELSE IF type = "straight" THEN 0 ELSE @,
                  !.turn = IF type = "straight" THEN "platform" ELSE @,
                  !.radius = IF type = "spiral" THEN radius ELSE @]
OtherSolution(d) ==
    IF d.flight = "spiral" THEN solveSpiral(d)
    ELSE IF d.flight \in TwoFlights
    THEN [solveTwoFlight(d) EXCEPT !.winders = IF d.turn = "winder" THEN d.winders ELSE 0]
    ELSE Solve(d)

\* The attempts of one type that fit, with the distance from the user's
\* parameters and the area; the nearest and the most compact are offered.
buildOtherTypes(c, s, type, comfort, tolerance) ==
    LET radii(w) == IF type = "spiral" THEN {w + 50 * i : i \in 1..10} ELSE {0}
        tries == UNION {{<<k, w, r>> : r \in radii(w)} : k \in Heights(c, s), w \in Widths(c)}
        config == [t \in tries |-> OtherConfig(c, s, type, t[1], t[2], t[3], comfort)]
        solution == [t \in tries |-> OtherSolution(config[t])]
        fits == {t \in tries :
                   tryGenerate(config[t], solution[t], comfort, tolerance) # {}}
        distance(t) == (c.width - t[2]) + 15 * t[1]
                       + (IF c.radius > 0 THEN Abs(t[3] - c.radius) ELSE 0)
        corner(t) == Footprint(config[t], solution[t])
        area(t) == corner(t)[1] * corner(t)[2]
        nearest == CHOOSE t \in fits : \A u \in fits : distance(t) <= distance(u)
        compact == CHOOSE t \in fits : \A u \in fits : area(t) <= area(u)
    IN  IF fits = {} THEN {}
        ELSE {formFromConfig(config[t], solution[t].n, comfort) : t \in {nearest, compact}}

\* All variants with one tolerance: A, B, the three other types and the same
\* type made narrower.  The comfort step is not the user's but the default
\* (the code takes the run of the flight for it, which is never in 600..640
\* for flights of more than two steps).
forRoomFitTol(c, s, tolerance) ==
    steeperVariant(c, 630, tolerance)
      \union smallerLandingVariant(c, s, tolerance)
      \union UNION {buildOtherTypes(c, s, type, 630, tolerance) :
                      type \in {"straight", "l_shape", "u_shape", "spiral"}}

\* Variants that fit, otherwise those that are at most 50 mm too large.
ForRoomFit(c, s) ==
    IF forRoomFitTol(c, s, 0) # {} THEN forRoomFitTol(c, s, 0)
    ELSE forRoomFitTol(c, s, 50)
=============================================================================
