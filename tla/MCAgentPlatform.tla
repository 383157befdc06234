-------------------------- MODULE MCAgentPlatform ---------------------------
(***************************************************************************)
(* Two clients and requests that meet every outcome, for TLC.              *)
(***************************************************************************)
EXTENDS AgentPlatform, TLC

CONSTANTS root, trader, wheel, guest, c1, c2

MCGroups == (trader :> {"trader"}) @@ (wheel :> {"wheel"}) @@ (guest :> {"audio"})
              @@ (root :> {})

Good == [agent |-> "vincent", news |-> "none", imbalance |-> 15, momentum |-> 25, price |-> 504]
Sell == [Good EXCEPT !.agent = "xiphos", !.news = "clean", !.imbalance = -6]

Ask(user, action) == [user |-> user, action |-> action, input |-> Good,
                      subject |-> "none", size |-> "fits"]
Propose(input) == [Ask(trader, "agent.propose") EXCEPT !.input = input]

MCRequests ==
  {Propose([Good EXCEPT !.news = "suspicious"]),
   Propose([Good EXCEPT !.price = 0]),
   Propose([Good EXCEPT !.price = Text]),
   [Propose(Sell) EXCEPT !.size = "outgrowing"],
   [Ask(guest, "agent.propose") EXCEPT !.size = "outsized"],
   Ask(trader, "risk.halt"),
   [Ask(wheel, "services.stop") EXCEPT !.subject = "riskd"],
   [Ask(root, "package.remove") EXCEPT !.subject = "core"],
   Ask(guest, "agent.audit_log"),
   Ask(wheel, "logs.query")}

=============================================================================
