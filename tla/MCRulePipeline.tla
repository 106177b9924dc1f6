-------------------------- MODULE MCRulePipeline --------------------------
(* RulePipeline with a few telling outputs per stage: sound, thrown, misshapen, and wrong *)
(* in each of the ways a stage, or only the report schema, looks for.                     *)
EXTENDS RulePipeline

MCIds == {"f1", "f2", "i1", "i2", "r1", "ev", "src", "lost"}
MCNames == {"own", "context"} \cup FailureCode
MCTruncate(preferred) == preferred[1]

MCContextLimitations ==
    {[id |-> <<"context", 1>>, kind |-> "other", rules |-> {}, sources |-> {"src"},
      about |-> NoSubject]}
MCContextFailures ==
    {[id |-> <<"rule_output_invalid", 1>>, code |-> "source", rule |-> NoRule]}

Returned(entities, said) == [end |-> "returns", entities |-> entities, limitations |-> said]
Ended(end) == [end |-> end, entities |-> {}, limitations |-> {}]

\* A limitation of rule r; a name of its own, or the name a failure would prefer.
Said(r, name) == [id |-> <<name, 1>>, kind |-> "other", rules |-> {r}, sources |-> {},
                  about |-> NoSubject]

AFact(r, id) == [rule |-> r, id |-> id, evidence |-> {"ev"}, details |-> "plain", cites |-> {}]
MCFactOutputs ==
    {Ended("throws"), Returned({}, {})}
    \cup {Returned({AFact(1, "f1"), [AFact(1, "f2") EXCEPT !.evidence = {"lost"}]}, {}),
          Returned({AFact(1, "f1")}, {Said(1, "rule_output_invalid")}),
          Returned({[AFact(1, "f1") EXCEPT !.details = "check", !.cites = {<<"own", 1>>}]}, {}),
          Returned({AFact(2, "f1")}, {}),
          Returned({AFact(2, "f2")}, {Said(2, "own")})}

AFinding(r, id, fact) ==
    [rule |-> r, id |-> id, evidence |-> {"ev"}, facts |-> {fact}, limitations |-> {},
     basis |-> "fact", confidence |-> {}, factors |-> {}]
MCFindingOutputs ==
    {Ended("misshapen"),
     Returned({AFinding(3, "i1", "f1"),
               [AFinding(3, "i2", "f1") EXCEPT !.basis = "heuristic", !.confidence = {"f1"}]}, {}),
     Returned({[AFinding(3, "i1", "f2") EXCEPT !.limitations = {<<"own", 1>>}]}, {Said(3, "own")}),
     Returned({[AFinding(3, "i1", "f1") EXCEPT !.limitations = {<<"own", 1>>}]}, {}),
     Returned({AFinding(4, "i1", "f1")}, {}),
     Returned({[AFinding(4, "i2", "f2") EXCEPT !.limitations = {<<"rule_output_invalid", 1>>}]},
              {Said(4, "own")})}

MCPriorities ==
    {[end |-> "throws", rule |-> 9, factors |-> {}],
     [end |-> "returns", rule |-> 1, factors |-> {}],
     [end |-> "returns", rule |-> 9, factors |-> {"ev"}],
     [end |-> "returns", rule |-> 9, factors |-> {"lost"}]}

ARecommendation(cited) ==
    [rule |-> 5, id |-> "r1", evidence |-> {"ev"}, findings |-> cited, basis |-> "fact",
     confidence |-> {}]
MCRecommendationOutputs ==
    {Ended("throws"),
     Returned({ARecommendation({"i1"})}, {}),
     Returned({[ARecommendation({"i1", "i2"}) EXCEPT !.basis = "heuristic"]}, {Said(5, "own")})}

NoCitations == [end |-> "returns", findings |-> {}, facts |-> {}, evidence |-> {},
                limitations |-> {}]
MCScores ==
    {[NoCitations EXCEPT !.end = "throws"],
     [NoCitations EXCEPT !.findings = {"i1"}, !.evidence = {"ev"}]}
=============================================================================
