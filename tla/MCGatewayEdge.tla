--------------------------- MODULE MCGatewayEdge ---------------------------
(* An instance of GatewayEdge: two organisations and two models, similar   *)
(* texts of which one holds personal data and one is risky, a text unlike  *)
(* the others, and a request that is too warm.                             *)
EXTENDS GatewayEdge

CONSTANTS o1, o2, k1, k2

MCOrgOf == (k1 :> o1 @@ k2 :> o2)
MCRPM == (k1 :> 2 @@ k2 :> 1)

MCRequest(o, model, text, temp, params) ==
    [org |-> o, model |-> model, text |-> text, temp |-> temp, params |-> params]
MCCore == {MCRequest(o1, "m", "mail", {}, 1), MCRequest(o1, "m", "plain", {2}, 2)}
MCInputs == MCCore \cup
    {MCRequest(o2, "m", "plain", {}, 1), MCRequest(o1, "n", "plain", {}, 1),
     MCRequest(o1, "m", "far", {}, 1), MCRequest(o1, "m", "risky", {}, 1)}
MCRedacted == MCRequest(o1, "m", "plain", {}, 1)
MCRequests == MCInputs \cup {MCRedacted}
MCRedact == [t \in {"mail"} |-> "plain"]
MCTexts == {r.text : r \in MCRequests}
MCScore == [p \in MCTexts \X MCTexts |->
              IF p[1] = p[2] THEN 10 ELSE IF "far" \in {p[1], p[2]} THEN 5 ELSE 9]
MCSymmetry == Permutations(Workers)

\* Three workers with the two requests of MCCore, as long as nothing is blocked, and two
\* workers with any requests.  Keys are revoked and requests blocked only before a first
\* answer is paid for; the second organisation does neither.
MCThreeAlike == {w[x].req : x \in Workers} \cup paid \subseteq MCCore \cup {MCRedacted, NoRequest}
MCUndisturbed == keys[k1].status # "revoked" /\ policies[o1] # <<"block">>
MCBound ==
    /\ \/ MCThreeAlike /\ MCUndisturbed /\ keys[k2].status = "none"
       \/ (paid = {} \/ MCUndisturbed) /\ \E x \in Workers : At(x, "idle")
    /\ keys[k2].status # "revoked" /\ policies[o2] = <<>>
=============================================================================
