---------------------------- MODULE ToolAnswers -----------------------------
(***************************************************************************)
(* The tools that answer from what they read in one piece.                 *)
(***************************************************************************)
EXTENDS GitOutput, Responses, AgentText, McpConfig

vars == <<question, answer>>

Init == (AskGit \/ AskLogs \/ AskService \/ AskAgent \/ AskConfig) /\ answer = <<>>

Git ==
  /\ answer = <<>> /\ question.tool \in {"status", "commits", "diff"}
  /\ answer' = <<GitAnswer(question)>>
  /\ UNCHANGED question

Log ==
  /\ answer = <<>> /\ question.tool \in LogTools \cup {"container"}
  /\ answer' = <<LogAnswer(question)>>
  /\ UNCHANGED question

Service ==
  /\ answer = <<>> /\ question.tool \in {"response", "containers", "unhealthy", "issues", "pulls"}
  /\ answer' = <<ServiceAnswer(question)>>
  /\ UNCHANGED question

Agent ==
  /\ answer = <<>> /\ question.tool = "agentText"
  /\ answer' = <<AgentFindings(question.text)>>
  /\ UNCHANGED question

Config ==
  /\ answer = <<>> /\ question.tool \in {"mcpCommand", "mcpConfig"}
  /\ answer' = <<ConfigAnswer(question)>>
  /\ UNCHANGED question

Rest == answer # <<>> /\ UNCHANGED vars

Next == Git \/ Log \/ Service \/ Agent \/ Config \/ Rest

Spec == Init /\ [][Next]_vars
=============================================================================
