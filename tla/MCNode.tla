------------------------------- MODULE MCNode -------------------------------
(***************************************************************************)
(* What a node does with an established link: the metrics protocol and its *)
(* estimators, the dispatch of link messages, the service layer, the ESP   *)
(* node's tasks and console, and the replay window, checked as             *)
(* alternatives beside the radio paths of MCRadio.  A behaviour runs one   *)
(* of them all, named by `part'; the others rest in one of their initial   *)
(* states.                                                                 *)
(***************************************************************************)
EXTENDS MCRadio, MmpLink, MmpEstimators, LinkDispatch, ServiceLayer, EspNode, ReplayWindow

\* A slower and a faster frame; cfg files have no negative numbers.
MCTransits == {5, -17}

steadyVars == <<mmpVars, estVars, ldVars, svVars, espVars, vars>>

SomeCall == CHOOSE c \in Calls : TRUE

NodeAtStart ==
    /\ (part = "mmp" \/ layout = "xx") /\ MmpInit
    /\ EstInit /\ LdInit
    /\ (part = "services" \/ call = SomeCall) /\ SvInit
    /\ (part = "esp" \/ mode = "wifi") /\ EspInit
    /\ Init

NodeParts == {"mmp", "estimators", "dispatch", "services", "esp", "replay"}

SteadyStep ==
    \/ part = "mmp" /\ MmpNext /\ UNCHANGED <<estVars, ldVars, svVars, espVars, vars>>
    \/ part = "estimators" /\ EstNext /\ UNCHANGED <<mmpVars, ldVars, svVars, espVars, vars>>
    \/ part = "dispatch" /\ LdNext /\ UNCHANGED <<mmpVars, estVars, svVars, espVars, vars>>
    \/ part = "services" /\ SvNext /\ UNCHANGED <<mmpVars, estVars, ldVars, espVars, vars>>
    \/ part = "esp" /\ EspNext /\ UNCHANGED <<mmpVars, estVars, ldVars, svVars, vars>>
    \/ part = "replay" /\ Next /\ UNCHANGED <<mmpVars, estVars, ldVars, svVars, espVars>>
    \/ part \in {"mmp", "services"} /\ UNCHANGED steadyVars   \* these come to an end

NodeInit ==
    /\ part \in RadioParts \cup NodeParts
    /\ RadioAtStart /\ NodeAtStart

NodeNext ==
    \/ RadioNext /\ UNCHANGED steadyVars
    \/ SteadyStep /\ UNCHANGED radioVars

NodeSpec == NodeInit /\ [][NodeNext]_<<radioVars, steadyVars>>

\* What a node believes of its link is real: losses and bursts are of frames that did
\* not come, and the estimates stay within what was measured.
MetricsAreReal ==
    /\ NoPhantomLoss /\ BurstsAddUp
    /\ SrttWithinSamples /\ JitterWithinSamples /\ IntervalsBounded

=============================================================================
