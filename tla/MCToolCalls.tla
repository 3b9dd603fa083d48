---------------------------- MODULE MCToolCalls ----------------------------
(* One caller per bucket (its clock is another one in each call), two that *)
(* share a bucket, of which one takes two tokens, two that share the token *)
(* of Zoho, two without a limit, and two API requests.  Each client        *)
(* differs from these in its resource only.                                *)
EXTENDS ToolCalls, TLC

CONSTANTS k1, k2

MCAssignments ==
  {(k1 :> a[1]) @@ (k2 :> a[2]) : a \in
     {<<ApolloSearchTool, call_claude>>, <<search_contacts, enrich_organization>>,
      <<ZohoSyncTool, ZohoSyncTool>>, <<HubSpotTool, ClaudeWriterTool>>,
      <<RateLimitMiddleware, RateLimitMiddleware>>}}

(* Two plans on a bucket would have no limit with these clocks, nor an end *)
(* to its states.                                                          *)
MCMaxTokens == [r \in Buckets |-> IF r = "api" THEN {2} ELSE {1}]
=============================================================================
