---------------------------- MODULE StairService ----------------------------
(***************************************************************************)
(* The calculation of a stair and the dialogue a client has about it.     *)
(*                                                                         *)
(*   src/internal/application/stair/service.go      Validate, Calculate    *)
(*   src/internal/application/stair/errors.go       refusals as issues     *)
(*   src/internal/transport/http/handler.go         status and audit       *)
(*                                                                         *)
(* A client holds a configuration, has it validated while it is edited,    *)
(* has it calculated, and may apply one of the variations of the answer,   *)
(* which is the configuration it then asks about.  The calculation runs in  *)
(* stages; its context is looked at between them, so that a client that    *)
(* goes away ends it at the next one.                                      *)
(***************************************************************************)
EXTENDS StairAdvice

CONSTANTS
    UserConfigs,    \* the configurations a user enters
    MaxApplied      \* bound: variations applied one after the other

\* Every instance assumes of its constants:
MaxAppliedAssumption == MaxApplied \in Nat

VARIABLES
    config,     \* what the client holds
    origin,     \* "user", or what the variation it came from was offered for
    applied,    \* number of variations applied
    request,    \* "none", "validate" or "calculate": what is being served
    stage,      \* the next stage of the request
    context,    \* "live" or "cancelled"
    left,       \* the configuration as the stages have left it
    solution,   \* what the solver found
    answer,     \* the last answer
    verdict,    \* the answer to the last validation of this configuration
    audited     \* the calculation was written to the audit log

serviceVars == <<config, origin, applied, request, stage, context, left,
                 solution, answer, verdict, audited>>

-----------------------------------------------------------------------------
NoAnswer == [status |-> 0, blocking |-> FALSE, codes |-> {}, offers |-> {}]
Report(codes, blocking, offers) ==
    [status |-> 200, blocking |-> blocking, codes |-> codes, offers |-> offers]
FailedWith(status) == [NoAnswer EXCEPT !.status = status]

\* What a variation is, and which issue it is offered for.
Offers(reason, forms) == {[reason |-> reason, form |-> f] : f \in forms}

ServiceInit ==
    /\ config \in UserConfigs
    /\ origin = "user" /\ applied = 0
    /\ request = "none" /\ stage = "idle" /\ context = "live"
    /\ left = config /\ solution = Refusal("none")
    /\ answer = NoAnswer /\ verdict = NoAnswer /\ audited = FALSE

\* The client asks about the configuration it holds.  calculateRequest has
\* neither the kind of the turn nor the winders: those come from callers of
\* the service itself.
Ask(kind) ==
    /\ request = "none"
    /\ kind = "validate" => verdict = NoAnswer
    /\ answer = NoAnswer \/ (kind = "calculate" /\ verdict = answer)
    /\ request' = kind /\ stage' = "build" /\ context' = "live"
    /\ left' = config /\ solution' = Refusal("none")
    /\ answer' = NoAnswer /\ audited' = FALSE
    /\ UNCHANGED <<config, origin, applied, verdict>>

\* The client goes away, or the time limit of the route passes.
Cancel ==
    /\ request # "none" /\ context = "live"
    /\ context' = "cancelled"
    /\ UNCHANGED <<config, origin, applied, request, stage, left, solution,
                   answer, verdict, audited>>

\* The answer to a request; a calculation that has a result, blocked or not,
\* is audited before it is answered.
Reply(a) ==
    /\ answer' = a
    /\ request' = "none" /\ stage' = "idle"
    /\ verdict' = IF request = "validate" THEN a ELSE verdict
    /\ audited' = (request = "calculate" /\ a.status = 200)
    /\ UNCHANGED <<config, origin, applied, context>>

\* The stage that is left for the next one, when the context allows it.
Stage(name) == request # "none" /\ stage = name
Proceed(next) ==
    /\ stage' = next
    /\ UNCHANGED <<config, origin, applied, request, context, answer, verdict, audited>>
StopIfCancelled ==
    context = "cancelled" /\ Reply(FailedWith(499)) /\ UNCHANGED <<left, solution>>

-----------------------------------------------------------------------------
(* Refusals.                                                               *)

\* The issues of a refusal after the advisor has seen them, and the
\* variations attached to them: the angle has a search of its own, which
\* builds its candidates under the context of the request; the others take
\* the suggestions.
Advised(c, z, codes) ==
    LET advice == Advice(c)
        all == codes \union (IF advice.infeasible THEN {"MFG-SHEET"} ELSE {})
        suggested == codes \intersect (Suggests \ {"GEO-ANGLE"})
    IN  Report(all, TRUE,
          (IF "GEO-ANGLE" \in codes /\ context = "live"
           THEN Offers("angle", ForAngle(z)) ELSE {})
          \union (IF suggested # {}
                  THEN Offers("norm", FromSuggestions(z, advice.suggestions)) ELSE {}))

\* A blocking result takes the solved fields out of the configuration again.
ZeroedBy(c) ==
    IF c.flight = "l_shape" THEN [c EXCEPT !.landing = 0, !.lower = 0, !.depth = 0]
    ELSE IF c.flight = "u_shape" THEN [c EXCEPT !.landing = 0, !.lower = 0, !.winders = 0]
    ELSE c

\* Apply: the solver of an L-shaped stair writes the landing depth of its
\* result, which it never sets; a platform has no winders.
AppliedTo(c, s) ==
    IF c.flight = "l_shape" THEN [c EXCEPT !.depth = 0]
    ELSE IF c.flight = "u_shape" THEN [c EXCEPT !.winders = s.winders]
    ELSE c

-----------------------------------------------------------------------------
(* The stages.                                                             *)

\* buildConfiguration: a known refusal is an answer, any other an error.
Build ==
    /\ Stage("build")
    /\ \/ StopIfCancelled
       \/ /\ context = "live" /\ BuildFault(left) = "input"
          /\ Reply(Report({"INPUT"}, TRUE, {}))
          /\ UNCHANGED <<left, solution>>
       \/ /\ context = "live" /\ BuildFault(left) = "internal"
          /\ Reply(FailedWith(500))
          /\ UNCHANGED <<left, solution>>
       \/ /\ context = "live" /\ BuildFault(left) = "none"
          /\ Proceed("solve") /\ UNCHANGED <<left, solution>>

\* Mutant of SolveStage: the live validation forgets the norms.
SolveLightly ==
    LET s == SolveFlight(left)
        broken == IF request = "validate" THEN {} ELSE NormsBroken(left.height, s)
        solved == AppliedTo(left, s)
    IN  /\ Stage("solve")
        /\ \/ /\ s.err # "none"
              /\ Reply(Advised(config, left, {s.err}))
              /\ UNCHANGED <<left, solution>>
           \/ /\ s.err = "none" /\ broken # {}
              /\ left' = ZeroedBy(solved)
              /\ Reply(Advised(config, ZeroedBy(solved), broken))
              /\ UNCHANGED solution
           \/ /\ s.err = "none" /\ broken = {}
              /\ left' = solved /\ solution' = s
              /\ IF request = "validate" THEN Reply(Report({}, FALSE, {}))
                 ELSE Proceed("geometry")

\* checkedSolve: solve, compare with the norms, advise.  Both requests share
\* it; a validation ends here, a calculation goes on when nothing blocks.
SolveStage ==
    LET s == SolveFlight(left)
        broken == NormsBroken(left.height, s)
        solved == AppliedTo(left, s)
    IN  /\ Stage("solve")
        /\ \/ /\ s.err # "none"
              /\ Reply(Advised(config, left, {s.err}))
              /\ UNCHANGED <<left, solution>>
           \/ /\ s.err = "none" /\ broken # {}
              /\ left' = ZeroedBy(solved)
              /\ Reply(Advised(config, ZeroedBy(solved), broken))
              /\ UNCHANGED solution
           \/ /\ s.err = "none" /\ broken = {}
              /\ left' = solved /\ solution' = s
              /\ IF request = "validate" THEN Reply(Report({}, FALSE, {}))
                 ELSE Proceed("geometry")

\* Generate: what cannot be built has no issue of its own and is an internal
\* error.
GeometryStage ==
    /\ Stage("geometry")
    /\ \/ StopIfCancelled
       \/ /\ context = "live" /\ ~Buildable(left, solution)
          /\ Reply(FailedWith(500)) /\ UNCHANGED <<left, solution>>
       \/ /\ context = "live" /\ Buildable(left, solution)
          /\ Proceed("manufacture") /\ UNCHANGED <<left, solution>>

\* Mutant of ManufactureStage: a part too large for every sheet is let through.
ManufactureAnyway ==
    /\ Stage("manufacture")
    /\ \/ StopIfCancelled
       \/ context = "live" /\ Proceed("price") /\ UNCHANGED <<left, solution>>

\* Manufacture: a thickness no material has is advised on, a part no sheet
\* takes is only reported.
ManufactureStage ==
    LET outcome == Manufacture(left, solution)
    IN  /\ Stage("manufacture")
        /\ \/ StopIfCancelled
           \/ /\ context = "live" /\ outcome = "GEO-WIDTH"
              /\ Reply(Advised(config, left, {"GEO-WIDTH"}))
              /\ UNCHANGED <<left, solution>>
           \/ /\ context = "live" /\ outcome = "MFG-SHEET"
              /\ Reply(Report({"MFG-SHEET"}, TRUE, {}))
              /\ UNCHANGED <<left, solution>>
           \/ /\ context = "live" /\ outcome = "none"
              /\ Proceed("price") /\ UNCHANGED <<left, solution>>

\* Cost and price; that the stair does not fit its room is a warning with
\* variations, which are built under the context of the request.
PriceStage ==
    /\ Stage("price")
    /\ \/ StopIfCancelled
       \/ /\ context = "live"
          /\ IF HasRoom(left) /\ ~FitsRoom(left, solution, 0)
             THEN Reply(Report({"room_fit"}, FALSE, Offers("room", ForRoomFit(left, solution))))
             ELSE Reply(Report({}, FALSE, {}))
          /\ UNCHANGED <<left, solution>>

\* The client takes a variation over into its form.
Apply ==
    /\ request = "none" /\ applied < MaxApplied
    /\ \E o \in answer.offers :
         /\ config' = o.form /\ origin' = o.reason
         /\ left' = o.form
    /\ applied' = applied + 1
    /\ answer' = NoAnswer /\ verdict' = NoAnswer /\ audited' = FALSE
    /\ solution' = Refusal("none")
    /\ UNCHANGED <<request, stage, context>>

ServiceNext ==
    \/ \E kind \in {"validate", "calculate"} : Ask(kind)
    \/ Cancel \/ Build \/ SolveStage \/ GeometryStage
    \/ ManufactureStage \/ PriceStage \/ Apply

ServiceSpec == ServiceInit /\ [][ServiceNext]_serviceVars

-----------------------------------------------------------------------------
(* Properties.                                                             *)

Calculated == request = "none" /\ answer.status = 200 /\ stage = "idle"
              /\ audited

\* The type invariant.
ServiceTypeOK ==
    /\ request \in {"none", "validate", "calculate"}
    /\ stage \in {"idle", "build", "solve", "geometry", "manufacture", "price"}
    /\ (request = "none") = (stage = "idle")
    /\ context \in {"live", "cancelled"}
    /\ origin \in {"user", "angle", "norm", "room"}
    /\ applied \in 0..MaxApplied
    /\ answer.status \in {0, 200, 499, 500}
    /\ answer.blocking => answer.status = 200 /\ answer.codes # {}
    /\ answer.offers # {} => answer.codes # {}
    /\ left.flight = config.flight /\ left.height = config.height

\* The live validation foretells the calculation: what it refuses is refused
\* with the same issues, and what it admits is refused only by what it does
\* not compute, the materials and the sheets (service.go: Validate shares
\* checkedSolve with Calculate).
ValidationForetells ==
    Calculated /\ verdict.status = 200 =>
        IF verdict.blocking
        THEN answer.blocking /\ answer.codes = verdict.codes
        ELSE answer.blocking => answer.codes \subseteq {"MFG-SHEET", "GEO-WIDTH"}

\* The catalogue has a material as thick as the stringers and the treads, the turn is a
\* platform, and a landing as wide as the flight is one the form takes.
Ordinary(c) ==
    c.thick \in 2..60 /\ c.tread \in 2..60 /\ c.turn = "platform" /\ c.width <= 5000

\* A variation that is applied does what it was offered for: neither the
\* validation nor the calculation of the new form is refused, and none ends
\* in an error (issue.go: PassesNorms), whether it came from the search for
\* an angle, from the advisor or from the room.
OffersAreAccepted ==
    request = "none" /\ answer # NoAnswer /\ origin # "user" /\ Ordinary(config) =>
        answer.status # 500 /\ ~answer.blocking

\* The form took a smaller landing than it accepts for the least one there is.
Raised(c) == c.width < 600 /\ c.landing = 600

\* What is offered because a stair does not fit its room fits it when it is
\* calculated from the form again, within the 50 mm the search allows itself
\* (variation.go: fitTol), unless the form raised its landing.
RoomOffersFit ==
    Calculated /\ origin = "room" /\ ~answer.blocking /\ ~Raised(config) =>
        FitsRoom(left, solution, 50)

\* Everything that was calculated without a refusal can be cut from sheets of
\* the catalogue and stands within the norms, however its parameters were
\* reached.
CalculatedCanBeMade ==
    Calculated /\ ~answer.blocking =>
        /\ BuildFault(config) = "none"
        /\ NormsBroken(config.height, solution) = {}
        /\ Manufacture(left, solution) = "none"

\* What the service says of a stair holds when it is calculated: the live validation,
\* every offered variation and the absence of issues.
AdviceHolds ==
    ServiceTypeOK /\ ValidationForetells /\ OffersAreAccepted /\ RoomOffersFit
        /\ CalculatedCanBeMade

\* What the check of the room is for: a stair about which nothing is said is no
\* larger than the room.  A spiral is a full circle around its column, twice
\* the radius wide.
Extent(c, s) ==
    IF c.flight = "spiral" THEN <<2 * c.radius, 2 * c.radius>> ELSE Footprint(c, s)
SilenceMeansItFits ==
    Calculated /\ ~answer.blocking /\ "room_fit" \notin answer.codes /\ HasRoom(left) =>
        \A i \in {1, 2} : Extent(left, solution)[i] <= left.room[i]

\* What the documentation of PassesNorms says: to apply a variation does not
\* lead to a refusal.
VariationsKeepTheirPromise ==
    Calculated /\ origin # "user" => ~answer.blocking

\* What the domain says of the depth of a landing: it is the user's, and the
\* width of the flight only when the user gives none.
LandingDepthIsTheUsers ==
    Calculated /\ ~answer.blocking /\ config.flight = "l_shape" =>
        LandingDepth(left) = LandingDepth(config)
=============================================================================
