----------------------------- MODULE ClientsMC -----------------------------
(***************************************************************************)
(* Instance of Clients for TLC: two processes, each a command, the menu or *)
(* keynv-mcp.                                                              *)
(***************************************************************************)
EXTENDS Clients, TLC

CONSTANTS p1, p2, k1, k2, k3, k4, k5

MCProcs == {p1, p2}
MCKeys == {k1, k2, k3, k4, k5}

(* Flows of at most two requests.                                          *)
Short(flow) == Len(SelectSeq(flow, LAMBDA step : step \in Requests)) <= 2
MCChoosable == {f \in MenuChoices : Short(f)}

Calls(flows) == {[kind |-> "cli", flow |-> f, env |-> FALSE] : f \in flows}
InMenu == [kind |-> "menu", flow |-> <<>>, env |-> FALSE]
InMcp == [kind |-> "mcp", flow |-> <<>>, env |-> FALSE]

MCInvocations ==
  p1 :> Calls({f \in SecretDelete \cup MemberRemove \cup EnvAdd \cup Whoami \cup LoginFlows \cup LogoutFlows : Short(f)})
  @@ p2 :> {InMenu, InMcp, [kind |-> "cli", flow |-> <<"change">>, env |-> TRUE]}
           \cup Calls(LogoutFlows \cup ProjectCreate)
=============================================================================
