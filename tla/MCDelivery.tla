---------------------------- MODULE MCDelivery ----------------------------
(* Delivery for TLC: one handoff of each kind.                             *)
EXTENDS Delivery, TLC

CONSTANTS slackOfIncident, issueOfIncident, emailOfDay

MCHandoff == {slackOfIncident, issueOfIncident, emailOfDay}
MCTarget  == slackOfIncident :> "slack" @@ issueOfIncident :> "github-issue"
                @@ emailOfDay :> "email"
MCKeyed   == {slackOfIncident, issueOfIncident}
MCChannel == {"slack", "email"}
===========================================================================
