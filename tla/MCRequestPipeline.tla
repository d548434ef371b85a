------------------------- MODULE MCRequestPipeline --------------------------
(* Small instances of RequestPipeline: what the tools of the repository      *)
(* raise, in each shape the SDK hands on.                                    *)
EXTENDS RequestPipeline

CONSTANTS r1, r2

\* An unknown tool, refusals and other ToolboxErrors with and without causes,
\* a rejected argument, an unexpected exception, and the SDK's own error.
AllFailures ==
  {<<"ToolError">>, <<"ToolError", "permission_denied", "Exception">>,
   <<"ToolError", "timeout", "Exception">>, <<"ToolError", "ValidationError">>,
   <<"MCPError">>, <<"permission_denied">>, <<"ValidationError">>, <<"Exception">>}
=============================================================================
