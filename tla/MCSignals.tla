------------------------------ MODULE MCSignals ------------------------------
(* One story told by a wire, a ministry, an intelligence service and a blog,  *)
(* a pipeline story and a rally; items of the first come late and out of order *)
(* and one resembles only a part of it.                                       *)
EXTENDS Signals

Wire    == Item({"iran", "strike", "port"}, "wire", 1, 1, "a")
Gov     == Item({"iran", "strike", "port", "the"}, "gov", 1, 2, "b")
Intel   == Item({"iran", "strike", "harbour"}, "intel", 2, 2, "c")
Update  == Item({"iran", "strike", "port"}, "blog", 1, 3, "h")
Spread  == Item({"iran", "harbour", "oil"}, "blog", 2, 1, "i")
Late    == Item({"iran", "port", "harbour"}, "blog", 3, 0, "d")
Leak    == Item({"pipeline", "leak", "oil"}, "wire", 1, 0, "e")
Halt    == Item({"pipeline", "leak", "halt"}, "blog", 2, 1, "f")
Rally   == Item({"oil", "acme", "ai"}, "gov", 1, 1, "g")

MCItems == {Wire, Gov, Intel, Update, Spread, Late, Leak, Halt, Rally}

MCFeeds ==
    {<<>>, <<Wire, Gov, Intel>>, <<Intel, Gov, Wire>>, <<Late, Wire, Gov, Intel>>,
     <<Intel, Wire, Gov, Late>>, <<Wire, Gov, Intel, Update>>, <<Wire, Intel, Spread>>, <<Leak>>, <<Halt, Leak>>,
     <<Gov, Intel, Rally>>, <<Rally, Leak, Halt>>}

MCPredictions == <<Prediction("p", {"iran"}), Prediction("p", {"oil"}), Prediction("q", {"oil"})>>
MCPrices == {<<10, 10, 10>>, <<10, 16, 16>>}

MCMarkets == <<Market("cl=f", {"oil"}, TRUE), Market("acme", {}, FALSE)>>
MCChanges == {<<0, -25>>, <<30, 30>>}
=============================================================================
