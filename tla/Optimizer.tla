----------------------------- MODULE Optimizer -----------------------------
(***************************************************************************)
(* The search for the best flight (EDR-0032): a request names a stair and  *)
(* a target, the service derives the grid of candidates -- number of steps,*)
(* steps below the landing, comfort step -- and runs the whole calculation *)
(* for each, looking at the context before every one (EDR-0033).           *)
(*                                                                         *)
(*   src/internal/engine/optimization/optimization.go    Search            *)
(*   src/internal/application/stair/optimize.go          Service.optimize  *)
(*   src/internal/transport/http/handler.go              handleOptimize    *)
(*                                                                         *)
(* Lengths are whole millimetres, a candidate is <<n, n1, i>>: the number  *)
(* of steps, those of the lower flight, and which point of the comfort     *)
(* grid.  What the calculation says of a candidate is the constant Result. *)
(***************************************************************************)
EXTENDS Integers

CONSTANTS
    Requests,       \* what clients ask
    Result(_, _)    \* Service.Calculate: [valid, value] of a candidate

\* A request is the stair (flight, height, width, radius), the outcome of
\* buildConfiguration for it (fault), the target ("" is the price), whether it
\* is maximised, and the bounds of the client, 0 for those left out.
Request ==
    [flight : {"straight", "l_shape", "u_shape", "spiral"}, height : Int,
     width : Int, radius : Int, fault : {"none", "input", "internal"},
     target : {"", "price", "cost", "material", "comfort"}, maximize : BOOLEAN,
     stepMin : Int, stepMax : Int, comfortMin : Int, comfortMax : Int, grid : Int]

ASSUME RequestsAssumption == Requests \subseteq Request
VARIABLES
    req,        \* the request in service
    context,    \* "live", or "cancelled" by the client, the timeout or the stop
    pc,         \* where the search is: "idle", "asked", "head", "eval", "best"
    cursor,     \* the next candidate
    found,      \* the best candidate so far, and its value
    answer      \* what the client got: [status, valid, cand, value]

optVars == <<req, context, pc, cursor, found, answer>>

-----------------------------------------------------------------------------
(* The grid.                                                               *)

Larger(a, b) == IF a < b THEN b ELSE a
Smaller(a, b) == IF a < b THEN a ELSE b
Given(bound, default) == IF bound > 0 THEN bound ELSE default

\* For a spiral the tread of 260..320 mm on the walking line bounds n as well,
\* and widens the range: 62832 * (3R - W) / 30000 = 2 pi (R - W/3).
Turn(r) == 62832 * (3 * r.radius - r.width)
Widened(r) == r.flight = "spiral" /\ 3 * r.radius > r.width
FewestOfTurn(r) == Turn(r) \div (30000 * 320)
MostOfTurn(r) == -((-Turn(r)) \div (30000 * 260))

StepCountMin(r) ==
    LET n == Given(r.stepMin, Larger(-((-r.height) \div 200), 1))
    IN  IF Widened(r) /\ FewestOfTurn(r) > 0 THEN Smaller(n, FewestOfTurn(r)) ELSE n
StepCountMax(r) ==
    LET n == Given(r.stepMax, r.height \div 150)
    IN  IF Widened(r) THEN Larger(n, MostOfTurn(r)) ELSE n

\* Every division of the longest flight, for every n.
LowerStepMax(r) ==
    IF r.flight \in {"l_shape", "u_shape"} THEN Larger(StepCountMax(r) - 1, 1) ELSE 1

\* 600..640 mm by 2; a spiral has no comfort step to choose.
ComfortMin(r) == Given(r.comfortMin, IF r.flight = "spiral" THEN 0 ELSE 600)
ComfortMax(r) == Given(r.comfortMax, IF r.flight = "spiral" THEN 0 ELSE 640)
comfortPoints(r) ==
    IF ComfortMax(r) <= ComfortMin(r) THEN 1
    ELSE (ComfortMax(r) - ComfortMin(r)) \div Given(r.grid, 2) + 1
ComfortStep(r, i) == ComfortMin(r) + (i - 1) * Given(r.grid, 2)

Grid(r) ==
    (StepCountMin(r)..StepCountMax(r)) \X (1..LowerStepMax(r)) \X (1..comfortPoints(r))

ASSUME ResultAssumption ==
    \A r \in Requests : \A k \in Grid(r) : Result(r, k) \in [valid : BOOLEAN, value : Int]

-----------------------------------------------------------------------------
NoCandidate == <<0, 0, 0>>
Nothing == [valid |-> FALSE, cand |-> NoCandidate, value |-> 0]
Answer(status, best) == [status |-> status, valid |-> best.valid, cand |-> best.cand, value |-> best.value]
NoAnswer == Answer(0, Nothing)

OptInit ==
    /\ req \in Requests
    /\ context = "live" /\ pc = "idle" /\ cursor = NoCandidate
    /\ found = Nothing /\ answer = NoAnswer

\* decodeJSON, toConfig and toOptimizeRequest.
Ask ==
    /\ pc = "idle"
    /\ req' \in Requests
    /\ context' = "live" /\ pc' = "asked" /\ answer' = NoAnswer
    /\ cursor' = NoCandidate /\ found' = Nothing

\* The client goes away, the route's time is up or the server stops.
Cancel ==
    /\ pc # "idle" /\ context = "live"
    /\ context' = "cancelled"
    /\ UNCHANGED <<req, pc, cursor, found, answer>>

Respond(a) ==
    /\ pc' = "idle" /\ answer' = a
    /\ UNCHANGED <<req, context, cursor, found>>

\* optimize up to the search: a cancelled context is a 499, an unknown target
\* and a stair that cannot be configured are refused, and an empty range is an
\* answer.
Start ==
    /\ pc = "asked"
    /\ \/ context = "cancelled" /\ Respond(Answer(499, Nothing))
       \/ /\ context = "live" /\ req.target = "comfort"
          /\ Respond(Answer(422, Nothing))
       \/ /\ context = "live" /\ req.target # "comfort" /\ req.fault # "none"
          /\ Respond(Answer(IF req.fault = "input" THEN 422 ELSE 500, Nothing))
       \/ /\ context = "live" /\ req.target # "comfort" /\ req.fault = "none"
          /\ IF StepCountMin(req) > StepCountMax(req)
             THEN Respond(Answer(200, Nothing))
             ELSE /\ pc' = "head" /\ cursor' = <<StepCountMin(req), 1, 1>>
                  /\ UNCHANGED <<req, context, found, answer>>

\* The heads of the loops: the context is looked at before each candidate.
LoopHead ==
    /\ pc = "head"
    /\ IF cursor[1] > StepCountMax(req)
       THEN IF found.valid THEN pc' = "best" /\ UNCHANGED <<req, context, cursor, found, answer>>
            ELSE Respond(Answer(200, Nothing))
       ELSE IF context = "cancelled" THEN Respond(Answer(499, Nothing))
            ELSE pc' = "eval" /\ UNCHANGED <<req, context, cursor, found, answer>>

\* Mutant of Advance: the last point of the comfort grid is left out.
AdvanceShort ==
    IF cursor[3] < comfortPoints(req) - 1 THEN [cursor EXCEPT ![3] = @ + 1]
    ELSE IF cursor[2] < LowerStepMax(req) THEN <<cursor[1], cursor[2] + 1, 1>>
    ELSE <<cursor[1] + 1, 1, 1>>

\* The order n, n1, S.
Advance ==
    IF cursor[3] < comfortPoints(req) THEN [cursor EXCEPT ![3] = @ + 1]
    ELSE IF cursor[2] < LowerStepMax(req) THEN <<cursor[1], cursor[2] + 1, 1>>
    ELSE <<cursor[1] + 1, 1, 1>>

Better(r, a, b) == IF r.maximize THEN a > b ELSE a < b

\* Mutant of Evaluate: of two equal candidates the later one wins.
EvaluateLast ==
    LET e == Result(req, cursor)
    IN  /\ pc = "eval"
        /\ IF context = "live" /\ e.valid /\ (~found.valid \/ ~Better(req, found.value, e.value))
           THEN found' = [valid |-> TRUE, cand |-> cursor, value |-> e.value]
           ELSE UNCHANGED found
        /\ cursor' = Advance /\ pc' = "head"
        /\ UNCHANGED <<req, context, answer>>

\* The calculation of a candidate; one that is cancelled has failed, and a
\* candidate whose calculation fails is one that is not admissible.
Evaluate ==
    LET e == Result(req, cursor)
    IN  /\ pc = "eval"
        /\ IF context = "live" /\ e.valid /\ (~found.valid \/ Better(req, e.value, found.value))
           THEN found' = [valid |-> TRUE, cand |-> cursor, value |-> e.value]
           ELSE UNCHANGED found
        /\ cursor' = Advance /\ pc' = "head"
        /\ UNCHANGED <<req, context, answer>>

\* Mutant of Recalculate: the answer is built from what the search has kept.
RecalculateNot == pc = "best" /\ Respond(Answer(200, found))

\* The full calculation of the best candidate.
Recalculate ==
    /\ pc = "best"
    /\ IF context = "cancelled" THEN Respond(Answer(499, Nothing))
       ELSE Respond(Answer(200, [found EXCEPT !.value = Result(req, found.cand).value]))

OptNext == Ask \/ Cancel \/ Start \/ LoopHead \/ Evaluate \/ Recalculate

OptSpec == OptInit /\ [][OptNext]_optVars

-----------------------------------------------------------------------------
(* Properties.                                                             *)

Candidate == Int \X Int \X Int
Kept == [valid : BOOLEAN, cand : Candidate, value : Int]
Searching == pc \in {"head", "eval", "best"}

\* The shape of the state; a candidate is evaluated inside the grid only, and
\* the search ends one past the largest number of steps.
OptTypeOK ==
    /\ req \in Requests /\ context \in {"live", "cancelled"}
    /\ pc \in {"idle", "asked", "head", "eval", "best"}
    /\ cursor \in Candidate /\ found \in Kept
    /\ answer \in [status : {0, 200, 422, 499, 500}, valid : BOOLEAN,
                   cand : Candidate, value : Int]
    /\ pc = "eval" => cursor \in Grid(req)
    /\ found.valid => found.cand \in Grid(req)
    /\ pc = "best" => found.valid
    /\ pc = "head" => cursor \in (StepCountMin(req)..(StepCountMax(req) + 1))
                                   \X (1..LowerStepMax(req)) \X (1..comfortPoints(req))

Before(a, b) ==
    \/ a[1] < b[1]
    \/ a[1] = b[1] /\ (a[2] < b[2] \/ (a[2] = b[2] /\ a[3] < b[3]))

\* The part of the grid the cursor has passed.
Passed == {k \in Grid(req) : Before(k, cursor)}

\* k is the first of the best admissible candidates of a set.
FirstBest(r, k, candidates) ==
    /\ k \in candidates /\ Result(r, k).valid
    /\ \A o \in candidates : Result(r, o).valid =>
         /\ ~Better(r, Result(r, o).value, Result(r, k).value)
         /\ Result(r, o).value = Result(r, k).value => o = k \/ Before(k, o)

\* Between two evaluations the search holds the first of the best candidates
\* it has passed, whatever order they came in and wherever the cursor turned
\* into the next flight or the next number of steps -- until the context is
\* cancelled (Search keeps a candidate only when it is strictly better).
BestOfSeen ==
    Searching /\ context = "live" =>
        IF found.valid
        THEN FirstBest(req, found.cand, Passed) /\ found.value = Result(req, found.cand).value
        ELSE \A k \in Passed : ~Result(req, k).valid

\* An answer with a stair is the optimum of the whole grid, the first of the
\* equal ones, with the value of that stair: never one a cancelled search
\* happened to have (EDR-0032: deterministic, EDR-0033: a cancelled search is
\* an error).
AnswerIsOptimal ==
    answer.status = 200 /\ answer.valid =>
        /\ FirstBest(req, answer.cand, Grid(req))
        /\ answer.value = Result(req, answer.cand).value

\* "valid: false -- there is no admissible configuration in the range"
\* (handler.go).  The deadline that passes during the last evaluation is not
\* seen by Search, and the answer says so of a range that has one.
NothingMeansNothing ==
    answer.status = 200 /\ ~answer.valid => \A k \in Grid(req) : ~Result(req, k).valid

\* The same for a search whose context lived to its end.
NothingUnlessCancelled ==
    answer.status = 200 /\ ~answer.valid /\ context = "live" =>
        \A k \in Grid(req) : ~Result(req, k).valid

\* The search always holds the best it has seen, and answers it only at its end.
OptimumIsFound == OptTypeOK /\ BestOfSeen /\ AnswerIsOptimal /\ NothingUnlessCancelled

\* The client's bounds replace the derived ones (EDR-0032, 3.1).  Those of a
\* spiral are widened again.
AskedBoundsKept ==
    answer.status = 200 /\ answer.valid =>
        /\ req.stepMin > 0 => answer.cand[1] >= req.stepMin
        /\ req.stepMax > 0 => answer.cand[1] <= req.stepMax
=============================================================================
