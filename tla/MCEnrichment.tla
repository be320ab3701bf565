---------------------------- MODULE MCEnrichment ----------------------------
EXTENDS Enrichment

Step(type, script, onError) == [type |-> type, script |-> script, onError |-> onError]

MCPipelines ==
  { <<>>,
    <<Step("HTTP_ASYNC", FALSE, "FAIL")>>,
    <<Step("HTTP_SYNC", TRUE, "SKIP"), Step("HTTP_ASYNC", FALSE, "REJECT")>>,
    <<Step("HTTP_ASYNC", FALSE, "SKIP"), Step("GROOVY_SCRIPT", FALSE, "FAIL")>>,
    <<Step("HTTP_SYNC", FALSE, "SKIP"), Step("HTTP_SYNC", FALSE, "SKIP"),
      Step("HTTP_SYNC", FALSE, "SKIP")>> }
=============================================================================
