------------------------------ MODULE MCPlatform ------------------------------
(* One project's routes, and the engines a calculation runs on.  The parts     *)
(* share no state: a behaviour of this instance is one of them.                *)
(*                                                                             *)
(*   project    the routes of one project, a second one of the tenant, a user  *)
(*              of another tenant; two requests overlap.                       *)
(*   bus        three handlers of a type and a wildcard one overflow a dead    *)
(*              letter queue of one entry.                                     *)
(*   pipeline   two starts of one configuration overlap.                       *)
(*   scheduler  three tasks share two slots.                                   *)
(*   model      three parameters, two of them calculated.                      *)
(*   stair      stairs of the four types that meet the norms, break each of    *)
(*              them, are refused by the solver, are too thick, too narrow or  *)
(*              too large, and do or do not fit a room.                        *)
(*   optimize   grids that are empty, hold one candidate or many, with bounds  *)
(*              given and left out.                                            *)
(*   nest       every list of at most four parts of five outlines, and lists   *)
(*              that exhaust a sheet or fit none.                              *)
(*   price      rates and items around every limit of a word of 15 bits.       *)
EXTENDS ProjectApi, EventBus, Pipeline, Optimizer, Nesting, Scheduler, ParametricModel,
        Pricing, SequencesExt, TLC

CONSTANTS Late, MaxApplied

VARIABLES part
VARIABLES stair, origin, applied, stairRequest, stairStage, stairContext, stairLeft,
          solution, stairAnswer, verdict, audited

stairVars == <<stair, origin, applied, stairRequest, stairStage, stairContext, stairLeft,
               solution, stairAnswer, verdict, audited>>

-----------------------------------------------------------------------------
(* What the engines run on.                                                *)

MCPriority == [h \in Handlers |-> IF h \in Late THEN 1 ELSE 0]

MCOrder == <<"validation", "analysis">>
MCDependsOn == [s \in {"validation", "analysis"} |-> {"validation"} \ {s}]
MCConfigOf == [r \in Runs |-> "config"]

-----------------------------------------------------------------------------
(* The stairs.                                                             *)

Straight ==
    [flight |-> "straight", height |-> 2700, width |-> 900, step |-> <<180, 1>>,
     comfort |-> 630, lower |-> 0, landing |-> 0, depth |-> 0,
     turn |-> "platform", winders |-> 0, radius |-> 0, thick |-> 40,
     tread |-> 40, side |-> "right", room |-> <<0, 0>>, material |-> ""]
Turned(flight) ==
    [Straight EXCEPT !.flight = flight, !.lower = 7, !.landing = 1000]
Spiral == [Straight EXCEPT !.flight = "spiral", !.width = 600, !.radius = 850]

Variants(c) ==
    {c} \union {[c EXCEPT !.step = <<h, 1>>] : h \in {130, 200, 230, 1800}}
      \union {[c EXCEPT !.comfort = s] : s \in {600, 650}}
      \union {[c EXCEPT !.height = h] : h \in {2950, 4400, 6000, 6100}}
      \union {[c EXCEPT !.height = 4400, !.step = <<230, 1>>]}
      \union {[c EXCEPT !.thick = t] : t \in {10, 70}}
      \union {[c EXCEPT !.thick = 70, !.step = <<230, 1>>]}
      \union {[c EXCEPT !.width = w] : w \in {80, 3200, 11000}}
      \union {[c EXCEPT !.room = r] : r \in {<<6500, 4000>>, <<4200, 3500>>, <<2500, 2500>>}}
      \union {[c EXCEPT !.room = r] : r \in {<<4600, 880>>, <<5020, 500>>}}
      \union {[c EXCEPT !.material = "WOOD-OAK", !.height = h] : h \in {2700, 4400, 4600}}
      \union {[c EXCEPT !.material = "WOOD-OAK", !.height = 4400, !.step = <<230, 1>>]}

MCUserConfigs ==
    Variants(Straight) \union Variants(Spiral)
      \union UNION {Variants(Turned(f)) : f \in {"l_shape", "u_shape"}}
      \union UNION {{[Turned(f) EXCEPT !.lower = 20], [Turned(f) EXCEPT !.landing = 800],
                     [Turned(f) EXCEPT !.depth = 1500], [Turned(f) EXCEPT !.depth = 500],
                     [Turned(f) EXCEPT !.side = "left", !.room = <<3200, 3000>>],
                     [Turned(f) EXCEPT !.depth = -1]} : f \in {"l_shape", "u_shape"}}
      \union {[Turned("u_shape") EXCEPT !.turn = "winder", !.winders = w, !.step = <<h, 1>>] :
                w \in {2, 4}, h \in {180, 230}}
      \union {[Spiral EXCEPT !.radius = r] : r \in {650, 1200}}

Stair == INSTANCE StairService
    WITH UserConfigs <- MCUserConfigs, config <- stair, request <- stairRequest,
         stage <- stairStage, context <- stairContext, left <- stairLeft,
         answer <- stairAnswer

-----------------------------------------------------------------------------
(* The optimizer asks the same engines; its value is the area of the sheets. *)

Flight == INSTANCE FlightDesign

ConfigAt(r, k) ==
    [flight |-> r.flight, height |-> r.height, width |-> r.width,
     step |-> <<r.height, k[1]>>, lower |-> k[2], landing |-> 1000, depth |-> 0,
     comfort |-> IF ComfortStep(r, k[3]) > 0 THEN ComfortStep(r, k[3]) ELSE 630,
     turn |-> "platform", winders |-> 0, radius |-> r.radius, thick |-> 40,
     tread |-> 40, side |-> "right", room |-> <<0, 0>>, material |-> ""]

Area(rect) == (rect[1] * rect[2]) \div 1000
Sheets(c, s) ==
    LET p == Flight!Parts(c, s)
    IN  MapThenSumSet(Area, p.frame) + s.n * MapThenSumSet(Area, p.boards)

MCResult(r, k) ==
    LET c == ConfigAt(r, k)
        s == Flight!SolveFlight(c)
        ok == /\ s.err = "none" /\ Flight!NormsBroken(c.height, s) = {}
              /\ Flight!Buildable(c, s) /\ Flight!Manufacture(c, s) = "none"
    IN  [valid |-> ok, value |-> IF ok THEN Sheets(c, s) ELSE 0]

BaseRequest == [flight |-> "straight", height |-> 2700, width |-> 900, radius |-> 0,
         fault |-> "none", target |-> "", maximize |-> FALSE, stepMin |-> 0,
         stepMax |-> 0, comfortMin |-> 0, comfortMax |-> 0, grid |-> 20]
MCRequests ==
    {BaseRequest, [BaseRequest EXCEPT !.maximize = TRUE], [BaseRequest EXCEPT !.target = "comfort"],
     [BaseRequest EXCEPT !.fault = "input"], [BaseRequest EXCEPT !.fault = "internal"],
     [BaseRequest EXCEPT !.stepMin = 10, !.stepMax = 2], [BaseRequest EXCEPT !.stepMin = 18, !.stepMax = 18],
     [BaseRequest EXCEPT !.stepMin = 15, !.stepMax = 15, !.comfortMin = 630, !.comfortMax = 630],
     [BaseRequest EXCEPT !.stepMin = 15, !.stepMax = 15, !.maximize = TRUE],
     [BaseRequest EXCEPT !.stepMin = 15, !.stepMax = 15, !.height = 2775],
     [BaseRequest EXCEPT !.flight = "u_shape", !.height = 1200],
     [BaseRequest EXCEPT !.flight = "l_shape", !.height = 1200, !.comfortMin = 620, !.comfortMax = 620],
     [BaseRequest EXCEPT !.flight = "spiral", !.width = 600, !.radius = 850],
     [BaseRequest EXCEPT !.flight = "spiral", !.width = 600, !.radius = 850, !.stepMin = 16],
     [BaseRequest EXCEPT !.height = 100]}

-----------------------------------------------------------------------------
(* The sheets.                                                             *)

Board(l, w) == [kind |-> "tread", len |-> l, wid |-> w]
Large == [kind |-> "stringer", len |-> 5900, wid |-> 2990]
Outlines == {Board(2900, 1100), Board(1300, 600), Board(700, 597),
             [kind |-> "riser", len |-> 1300, wid |-> 600],
             [kind |-> "stringer", len |-> 2497, wid |-> 520]}
MCPartLists == UNION {[1..n -> Outlines] : n \in 1..4}
   \union {<<Large>>, <<Large, Large>>, <<Large, [Large EXCEPT !.len = 700, !.wid = 500]>>,
           <<Board(2000, 300), Board(400, 600)>> \o [i \in 1..5 |-> Board(400, 300)],
           [i \in 1..3 |-> Board(900, 1240)] \o [i \in 1..3 |-> Board(600, 100)],
           <<[Large EXCEPT !.len = 10000]>>, <<[Large EXCEPT !.wid = 4596]>>,
           <<[Large EXCEPT !.wid = 4598], Large>>}
MCCatalogue == <<[len |-> 2500, wid |-> 600], [len |-> 2500, wid |-> 1250],
                 [len |-> 6000, wid |-> 3000], [len |-> 9000, wid |-> 4600]>>

-----------------------------------------------------------------------------
(* The prices.                                                             *)

MCMaterials == {"oak", "steel"}
MCDensity == [oak |-> 1, steel |-> 3]
MCCutTime == [oak |-> 1, steel |-> 2]
MCDefault == [material |-> [oak |-> 2, steel |-> 3], machine |-> 8, labor |-> 3,
              share |-> [overhead |-> 2, margin |-> 3, discount |-> 1, tax |-> 2]]
NoneGiven == [material |-> [oak |-> 0, steel |-> 0], machine |-> 0, labor |-> 0,
              share |-> [s \in Shares |-> 0]]
MCForms == {[NoneGiven EXCEPT !.share = g] : g \in [Shares -> {0, 1, 7}]}
    \union {[NoneGiven EXCEPT !.share["discount"] = 12],
            [NoneGiven EXCEPT !.share["margin"] = 900],
            [NoneGiven EXCEPT !.material["oak"] = 16385],
            [NoneGiven EXCEPT !.machine = 16384],
            [NoneGiven EXCEPT !.material = [oak |-> 16383, steel |-> 16383]],
            [NoneGiven EXCEPT !.labor = 5, !.material["steel"] = 1]}
Plate(m, a) == [material |-> m, area |-> a, volume |-> a, perimeter |-> 2 * a]
MCPackages ==
    {[parts |-> <<Plate("oak", 3), Plate("oak", 2)>>, sheet |-> [oak |-> 8, steel |-> 0]],
     [parts |-> <<Plate("oak", 3), Plate("steel", 4)>>, sheet |-> [oak |-> 7, steel |-> 8]]}
LineItem(k, n, d, u) == [kind |-> k, num |-> n, den |-> d, unit |-> u, total |-> (n * u) \div d]
MCProjects ==
    [share : {[s \in Shares |-> 0], MCDefault.share, [MCDefault.share EXCEPT !["discount"] = 12],
              [MCDefault.share EXCEPT !["discount"] = 100]},
     items : {<<>>, <<LineItem("machine", 0, 3, 8)>>, <<LineItem("material", 5, 2, 7)>>,
              <<LineItem("material", 5, 1, 7), LineItem("machine", 0, 3, 8)>>,
              <<LineItem("machine", 50, 3, 8), LineItem("labor", 4, 1, 5)>>,
              <<LineItem("machine", 50, 3, 8), LineItem("labor", 4, 1, 0)>>,
              <<[LineItem("material", 5, 1, 7) EXCEPT !.total = 34]>>}]

ASSUME InstancesAssumed ==
    GraphAssumption /\ ModelAssumption /\ Stair!MaxAppliedAssumption /\ PricingAssumption

-----------------------------------------------------------------------------
(* One part at a time; the others stay in one of their initial states.     *)

PartNames == {"project", "bus", "pipeline", "scheduler", "model",
              "stair", "optimize", "nest", "price"}
Only(p, one) == part = p \/ one

MCInit ==
    /\ part \in PartNames
    /\ ApiInit /\ Only("project", state = "draft" /\ member = [u \in People |->
                                      IF u = Founder THEN "owner" ELSE "none"])
    /\ BusInit /\ PipelineInit
    /\ SchedulerInit /\ Only("scheduler", limit = 1 /\ ctxDone)
    /\ ModelInit
    /\ IF part = "stair" THEN stair \in MCUserConfigs ELSE stair = Straight
    /\ Stair!ServiceInit
    /\ IF part = "optimize" THEN req \in MCRequests ELSE req = BaseRequest
    /\ OptInit
    /\ IF part = "nest" THEN parts \in MCPartLists ELSE parts = <<Large>>
    /\ NestInit
    /\ IF part = "price" THEN form \in MCForms ELSE form = NoneGiven
    /\ PriceInit

MCNext ==
    \/ /\ part = "project" /\ ApiNext
       /\ UNCHANGED <<busVars, pipelineVars, schedulerVars,
                      modelVars, stairVars, optVars, nestVars, priceVars, part>>
    \/ /\ part = "bus" /\ BusNext
       /\ UNCHANGED <<apiVars, pipelineVars, schedulerVars,
                      modelVars, stairVars, optVars, nestVars, priceVars, part>>
    \/ /\ part = "pipeline" /\ PipelineNext
       /\ UNCHANGED <<apiVars, busVars, schedulerVars,
                      modelVars, stairVars, optVars, nestVars, priceVars, part>>
    \/ /\ part = "scheduler" /\ SchedulerNext
       /\ UNCHANGED <<apiVars, busVars, pipelineVars,
                      modelVars, stairVars, optVars, nestVars, priceVars, part>>
    \/ /\ part = "model" /\ ModelNext
       /\ UNCHANGED <<apiVars, busVars, pipelineVars,
                      schedulerVars, stairVars, optVars, nestVars, priceVars, part>>
    \/ /\ part = "stair" /\ Stair!ServiceNext
       /\ UNCHANGED <<apiVars, busVars, pipelineVars,
                      schedulerVars, modelVars, optVars, nestVars, priceVars, part>>
    \/ /\ part = "optimize" /\ OptNext
       /\ UNCHANGED <<apiVars, busVars, pipelineVars,
                      schedulerVars, modelVars, stairVars, nestVars, priceVars, part>>
    \/ /\ part = "nest" /\ NestNext
       /\ UNCHANGED <<apiVars, busVars, pipelineVars,
                      schedulerVars, modelVars, stairVars, optVars, priceVars, part>>
    \/ /\ part = "price" /\ PriceNext
       /\ UNCHANGED <<apiVars, busVars, pipelineVars,
                      schedulerVars, modelVars, stairVars, optVars, nestVars, part>>

MCSpec ==
    MCInit /\ [][MCNext]_<<apiVars, busVars, pipelineVars,
        schedulerVars, modelVars, stairVars, optVars, nestVars, priceVars, part>>

\* The requests of "project" and the runs of "pipeline" are the same values.
Symmetry == Permutations(ApiRequests)

-----------------------------------------------------------------------------
(* The properties of the instances.                                        *)

AdviceHolds == part = "stair" => Stair!AdviceHolds
=============================================================================
